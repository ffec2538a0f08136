------------------------------ MODULE MCUpload ------------------------------
(* Uploads to a few NUCs.                                                  *)
EXTENDS Upload

CONSTANTS nuc1, nuc2, nuc3, sleeper
=============================================================================
