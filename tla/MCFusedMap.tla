------------------------------ MODULE MCFusedMap ------------------------------
(***************************************************************************)
(* Two robots of mode 4 and a dynamic map twice as coarse as the static    *)
(* one: the centre of its only voxel lies in the second of two.            *)
(***************************************************************************)
EXTENDS FusedMap

CONSTANTS r1, r2, c, v1, v2, d

MCCovers == [x \in Cells |-> {v1, v2}]
MCReports ==
    [s \in Sources |->
        {c} \X IF s = r1 THEN {"dynamic", "deleted", "unknown"} ELSE {"static", "free"}]
MCStaticOf == [x \in Obstacles |-> v2]
MCDynamicOf == [x \in Voxels |-> d]
=============================================================================
