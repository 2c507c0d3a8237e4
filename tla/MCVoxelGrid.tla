----------------------------- MODULE MCVoxelGrid ----------------------------
(***************************************************************************)
(* Leaves of eight cells, two words to a mask; the voxels lie on both      *)
(* sides of zero, in two roots, three leaves, and two in one leaf.         *)
(***************************************************************************)
EXTENDS VoxelGrid

MCCoords == {<<-1, 0, 0>>, <<0, 0, 0>>, <<1, 1, 1>>, <<0, 2, 3>>}
=============================================================================
