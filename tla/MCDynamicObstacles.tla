-------------------------- MODULE MCDynamicObstacles --------------------------
(***************************************************************************)
(* Three dynamic voxels, of which the first two lie in one static voxel;   *)
(* maps never saved, with a known background, or with free voxels of       *)
(* either update cycle.                                                    *)
(***************************************************************************)
EXTENDS DynamicObstacles

CONSTANTS v1, v2

MCStaticOf == [d \in Obstacles |-> IF d <= 2 THEN v1 ELSE v2]
MCLogs == -1 .. 1
SavedMap(a, b) == [save |-> 1, cells |-> [v \in Voxels |-> IF v = v1 THEN a ELSE b]]
MCInitialFiles ==
    {NoFile, SavedMap(NewCell, [id |-> 1, log |-> 1]),
     SavedMap([id |-> 2, log |-> -1], [id |-> 1, log |-> -1])}
=============================================================================
