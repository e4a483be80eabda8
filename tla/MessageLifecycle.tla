--------------------------- MODULE MessageLifecycle ---------------------------
(*****************************************************************************)
(* What the chat service promises about a message, whatever channels,         *)
(* goroutines and connections carry it: it advances through the stages below, *)
(* is handled at most once and alone, is not lost once it is queued for the   *)
(* hub, and is shown to connections of its audience only after the hub has    *)
(* taken it. ChatServer.tla is shown to implement this.                       *)
(*****************************************************************************)
CONSTANTS
    Msg, Conn,
    MayShow     \* the pairs <<m, c>> in which c belongs to m's audience

VARIABLES
    stage,      \* where a message is
    shown       \* the messages the peer of a connection has received

Stages == {"peer",      \* not sent yet
           "held",      \* read, in the hands of the reader's goroutine
           "stashed",   \* put aside in its connection's SendTo
           "queued",    \* in the hub's queue
           "hub",       \* being handled
           "done",      \* handled
           "lost"}      \* refused with a notice, or overtaken by a logout

Moves == { <<"peer", "held">>, <<"held", "stashed">>, <<"stashed", "held">>,
           <<"held", "queued">>, <<"held", "lost">>,
           <<"queued", "hub">>, <<"queued", "done">>, <<"hub", "done">> }

Init ==
    /\ stage = [m \in Msg |-> "peer"]
    /\ shown = [c \in Conn |-> {}]

Move(m, s) ==
    /\ <<stage[m], s>> \in Moves
    /\ s = "hub" => \A n \in Msg : stage[n] # "hub"
    /\ stage' = [stage EXCEPT ![m] = s]
    /\ UNCHANGED shown

Show(m, c) ==
    /\ stage[m] \in {"hub", "done"}
    /\ <<m, c>> \in MayShow
    /\ shown' = [shown EXCEPT ![c] = @ \cup {m}]
    /\ UNCHANGED stage

Next == \E m \in Msg : (\E s \in Stages : Move(m, s)) \/ (\E c \in Conn : Show(m, c))

Spec == Init /\ [][Next]_<<stage, shown>>
===============================================================================
