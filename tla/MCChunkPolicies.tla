---------------------------- MODULE MCChunkPolicies ----------------------------
(***************************************************************************)
(* A robot that moves on a plane, jumps, and climbs, with all three        *)
(* policies and both kinds of band.  The program starts either soon after  *)
(* the machine or after more than the age limit.                           *)
(***************************************************************************)
EXTENDS ChunkPolicies

MCRefs == {<<0, 0, 0>>, <<1, 0, 1>>, <<2, 0, 0>>}
MCLate == {<<1, 0, 1>>}
MCBands ==
    {[z_min |-> 0, z_max |-> 0, use_relative |-> FALSE],
     [z_min |-> 1, z_max |-> 0, use_relative |-> TRUE]}
MCUptimes == {1, 2}
=============================================================================
