---------------------------- MODULE MCRemoteFusion ----------------------------
(***************************************************************************)
(* One robot whose voxels are half again as long as the local ones: the    *)
(* first covers two of them, the second the last of the two again.         *)
(***************************************************************************)
EXTENDS RemoteFusion

CONSTANTS r, c1, c2, v1, v2

MCReports ==
    [s \in Sources |->
        ({c1} \X {"dynamic", "deleted", "unknown"}) \cup ({c2} \X {"static", "free"})]
MCCovers == [c \in Cells |-> IF c = c1 THEN {v1, v2} ELSE {v2}]
=============================================================================
