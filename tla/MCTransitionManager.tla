-------------------------- MODULE MCTransitionManager --------------------------
(***************************************************************************)
(* Two axes and chunks of four units: chunks -1..1 on each axis are within *)
(* reach, so that face and edge neighbours, jumps and both signs occur; a   *)
(* chunk has two voxels on an axis, and a position is a corner or a centre. *)
(***************************************************************************)
EXTENDS RayDispatch

CONSTANTS x, y

MCAxes == {x, y}
=============================================================================
