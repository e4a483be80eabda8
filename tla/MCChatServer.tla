----------------------------- MODULE MCChatServer -----------------------------
(* Instances of ChatServer for TLC.                                           *)
EXTENDS ChatServer

CONSTANTS u1, u2, g1, c1, c2, c3

\* Two users; u1 may reconnect: c1 and c3 are both his.
MCUserOf == [c \in Conn |-> IF c = c2 THEN u2 ELSE u1]

\* Every message is u1's, or u1's and u2's in turn. In MCTarget, message 2 goes
\* to the group.
MCSender == [m \in Msg |-> u1]
MCSenders == [m \in Msg |-> IF m = 2 THEN u2 ELSE u1]
MCTarget == [m \in Msg |-> IF m = 2 THEN g1 ELSE u2]
MCTargetUser == [m \in Msg |-> u2]

\* Texts and files; or a call proposal, then texts and files.
MCKind == [m \in Msg |-> "post"]
MCKindCall == [m \in Msg |-> IF m = 1 THEN "call" ELSE "post"]

MCMembers == [g \in Group |-> <<u1, u2>>]
===============================================================================
