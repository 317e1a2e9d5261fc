-------------------------- MODULE MCButtonRouting --------------------------
(* Two remotes that share elements, two virtual names.  Nothing tells the virtual
   names apart. *)
EXTENDS ButtonRouting

CONSTANTS r1, r2, v1, v2

MCRemotes == {r1, r2}
MCPresent == {r1, r2}
MCVirtuals == {v1, v2}
MCKeyOrder == <<r1, r2>>
VirtualSymmetry == Permutations(MCVirtuals)
=============================================================================
