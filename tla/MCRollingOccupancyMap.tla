------------------------ MODULE MCRollingOccupancyMap ------------------------
(***************************************************************************)
(* Three chunks in a row under a neighbourhood policy of radius 1: moving  *)
(* from one end to the other evicts the end left behind.                   *)
(***************************************************************************)
EXTENDS RollingOccupancyMap, Integers

CONSTANTS lw1, lw2, sw1, sw2

MCCoords == 1..3
MCObs == {1}
Near(c) == {d \in MCCoords : d - c \in -1..1}
MCWantedSets == [c \in MCCoords |-> {Near(c)}]
MCLoadWorkers == {lw1}
MCSaveWorkers == {sw1}
=============================================================================
