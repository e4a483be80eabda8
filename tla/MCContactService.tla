--------------------------- MODULE MCContactService ---------------------------
(* An instance of ContactService for TLC.                                     *)
EXTENDS ContactService, TLC

CONSTANTS a, b

\* The two users play the same part.
Symmetry == Permutations(Req) \cup Permutations(Pair)
===============================================================================
