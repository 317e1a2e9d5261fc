-------------------------- MODULE MCVirtualGroup --------------------------
(* One group with two remotes to serve: an avatar for each of them and one more,
   which is the smallest group of which a restart keeps an avatar and doubles two. *)
EXTENDS VirtualGroup

CONSTANTS r1, r2, v1

MCRemotes == {r1, r2}
MCVirtuals == {v1}
MCKeyOrder == <<r1, r2>>
=============================================================================
