---------------------------- MODULE MCObstacles ----------------------------
(* Two small scenarios.                                                    *)
EXTENDS ObstacleSimulation, TLC

Files == {1 :> <<0, 1, 2, 3>> @@ 2 :> <<0, 1, 2>>, 2 :> <<0, 1, 2, 3, 4, 5>> @@ 3 :> <<0, 1>>}
=============================================================================
