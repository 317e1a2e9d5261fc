------------------------------ MODULE MCPatch ------------------------------
(* Two remotes and two virtual names: a group with several slaves, a remote with
   several links, and a free name to rename to. *)
EXTENDS Patch

CONSTANTS r1, r2, v1, v2

MCRemotes == {r1, r2}
MCVirtuals == {v1, v2}
MCKeyOrder == <<r1, r2>>
=============================================================================
