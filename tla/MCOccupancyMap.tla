---------------------------- MODULE MCOccupancyMap ----------------------------
(***************************************************************************)
(* Three voxels in the plane and an endpoint outside them, such that rays  *)
(* run straight, diagonally and with a rounded step, towards and away from *)
(* the origin of the grid, and pass through other endpoints.               *)
(***************************************************************************)
EXTENDS OccupancyMap

CONSTANTS x, y

At(i, j) == [a \in Axes |-> IF a = x THEN i ELSE j]

MCAxes == {x, y}
MCCoords == {At(0, 0), At(1, 0), At(2, 1)}
MCEndpoints == {At(0, 0), At(2, 1), At(3, 1)}
MCOrigins == {At(0, 0), At(3, 1)}
MCMissLog == -1
MCClampMin == -1

(* Every ray of a grid of 13 by 13 voxels from its centre, and from a      *)
(* corner of it, is its reference (RaysAgree proves it of any).             *)
ASSUME RayIteratorAgrees ==
    \A o \in {At(0, 0), At(-6, 6)}, i, j \in -6 .. 6 :
        LET e == At(i, j) n == Longest(o, e)
        IN  RayIterator(o, e) = {RayCell(o, e, n, k) : k \in 0 .. n - 1}
=============================================================================
