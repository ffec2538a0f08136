--------------------------- MODULE MCTimerThread ---------------------------
(* A timer that two threads may stop.                                      *)
EXTENDS TimerThread

CONSTANTS main, gtk
=============================================================================
