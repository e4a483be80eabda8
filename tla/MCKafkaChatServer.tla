--------------------------- MODULE MCKafkaChatServer ---------------------------
(* Instances of KafkaChatServer for TLC.                                      *)
EXTENDS KafkaChatServer

CONSTANTS u1, u2, g1, c1, c2, c3

\* Two users; u1 may reconnect: c1 and c3 are both his.
MCUserOf == [c \in Conn |-> IF c = c2 THEN u2 ELSE u1]

\* All messages are from u1: to u2, but message 2 to the group.
MCSender == [m \in Msg |-> u1]
MCTarget == [m \in Msg |-> IF m = 2 THEN g1 ELSE u2]
MCKind == [m \in Msg |-> "post"]
MCMembers == [g \in Group |-> <<u1, u2>>]
===============================================================================
