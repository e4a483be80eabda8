---------------------------- MODULE MCMessageCache ----------------------------
(* An instance of MessageCache for TLC.                                       *)
EXTENDS MessageCache, TLC

CONSTANTS a, b, g, m1, m2, m3, m4

\* a writes to b, who calls back; both may write to a group. Only a's window on
\* the conversation, and the group's, are open.
MCSender == (m1 :> a) @@ (m2 :> b) @@ (m3 :> a) @@ (m4 :> b)
MCTarget == (m1 :> b) @@ (m2 :> a) @@ (m3 :> b) @@ (m4 :> g)
MCKind   == (m1 :> "post") @@ (m2 :> "call") @@ (m3 :> "post") @@ (m4 :> "post")
MCAsked  == {<<a, b>>, <<g>>}
===============================================================================
