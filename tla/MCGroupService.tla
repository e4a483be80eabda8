---------------------------- MODULE MCGroupService ----------------------------
(* Instances of GroupService for TLC.                                         *)
EXTENDS GroupService, TLC

CONSTANTS u1, u2, u3

\* u1 is the owner, u2 has joined, u3 has not.
MCJoined == <<u2>>
MCNoneJoined == <<>>
MCOps == DOMAIN Program

Symmetry == Permutations(Req)
===============================================================================
