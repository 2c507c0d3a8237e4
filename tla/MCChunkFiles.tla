---------------------------- MODULE MCChunkFiles ----------------------------
(***************************************************************************)
(* Two save workers and a load worker at one chunk, over one restart.      *)
(***************************************************************************)
EXTENDS ChunkFiles, TLC

CONSTANTS s1, s2, l1

MCSavers == {s1, s2}
MCLoaders == {l1}
SaversAlike == Permutations(MCSavers)
=============================================================================
