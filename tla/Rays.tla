------------------------------------ MODULE Rays ------------------------------------
(***************************************************************************)
(* RayIterator of bonxai_map (occupancy_map.hpp): the voxels on the way    *)
(* from a sensor to the end of a measurement, and a reference for them.    *)
(***************************************************************************)
EXTENDS Integers

CONSTANT Axes              (* the axes of the grid                           *)

Distance(a, b) == IF a < b THEN b - a ELSE a - b
Longest(o, e) ==
    CHOOSE n \in {Distance(o[a], e[a]) : a \in Axes} :
        \A a \in Axes : Distance(o[a], e[a]) <= n

(* Every axis accumulates its own error and advances when half a voxel is  *)
(* reached.                                                                *)
AxisWalk(from, to, max) ==
    LET walk[i \in 0 .. max - 1] ==
          IF i = 0 THEN [coord |-> from, error |-> 0]
          ELSE LET error == walk[i - 1].error + Distance(from, to)
                   coord == walk[i - 1].coord
               IN  IF 2 * error >= max
                   THEN [coord |-> IF to < from THEN coord - 1 ELSE coord + 1,
                         error |-> error - max]
                   ELSE [coord |-> coord, error |-> error]
    IN  [i \in 0 .. max - 1 |-> walk[i].coord]

(* From the origin (included) to the end (excluded), in as many steps as   *)
(* the longest axis has voxels.                                            *)
RayWalk(o, e) ==
    LET max == Longest(o, e)
        along == [a \in Axes |-> AxisWalk(o[a], e[a], max)]
    IN  [i \in 0 .. max - 1 |-> [a \in Axes |-> along[a][i]]]

RayIterator(o, e) == LET walk == RayWalk(o, e) IN {walk[i] : i \in DOMAIN walk}

(* Reference: step i of n is at the end's fraction i/n, halves away from o. *)
RayCell(o, e, n, i) ==
    [a \in Axes |->
        LET off == (2 * i * Distance(o[a], e[a]) + n) \div (2 * n)
        IN  IF e[a] < o[a] THEN o[a] - off ELSE o[a] + off]

OnRay(c, o, e) ==
    LET n == Longest(o, e) IN \E i \in 0 .. n - 1 : c = RayCell(o, e, n, i)
=============================================================================
