---------------------------- MODULE MCUserAccount -----------------------------
(* An instance of UserAccount for TLC.                                        *)
EXTENDS UserAccount, TLC

Symmetry == Permutations(Req)
===============================================================================
