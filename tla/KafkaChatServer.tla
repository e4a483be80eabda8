---------------------------- MODULE KafkaChatServer ----------------------------
(*****************************************************************************)
(* The hub of the chat service in mode "kafka" (kafka_server.go), composed    *)
(* with the connections of ChatClient.tla and a topic of one partition.       *)
(*                                                                            *)
(* Two goroutines replace the hub of ChatServer.tla. The loop of Start()      *)
(* serves Login and Logout, which are unbuffered: a sender waits for the loop *)
(* with the mutex in its hands. The consumer reads the topic, and delivers    *)
(* with blocking sends under the mutex; no friendship is checked. Both        *)
(* recover a panic, and end; the mutex stays as the panic finds it.           *)
(*                                                                            *)
(* The topic is modelled by the messages behind the consumer's position. No   *)
(* offset is ever committed (the commit interval, timeout * time.Second with  *)
(* a timeout in seconds already, is a century), and a new consumer starts at  *)
(* the end of the topic (LastOffset).                                         *)
(*****************************************************************************)
EXTENDS ChatClient

CONSTANT MaxRestarts    \* bound on the number of restarts of the process
ASSUME RestartAssumption == MaxRestarts \in Nat

VARIABLES
    loopAt, loopConn,   \* where the loop stands, the connection it handles
    Topic,              \* messages in Kafka that the consumer has not read
    consAt, consMsg,    \* where the consumer stands, the message it handles
    consRest,           \* the receivers it has still to serve under the mutex
    jsonMessage,        \* per reader, the message just read
    produced,           \* messages Kafka has accepted
    handled,            \* messages the consumer has read
    rows,               \* rows created for a message
    restarts

loopVars == <<loopAt, loopConn>>
consVars == <<consAt, consMsg, consRest>>
topicVars == <<Topic, jsonMessage, produced>>
logVars == <<handled, rows, restarts>>
vars == <<clientVars, loopVars, consVars, topicVars, logVars>>

LoopStates == {"select", "register", "unregister", "done"}
ConsStates == {"read", "lock", "send", "done", "panicked"}

HasRoom_OffByOne(c) == Len(SendBack[c]) <= ChannelSize     \* mutant: one element too many
HasRoom(c) == Len(SendBack[c]) < ChannelSize
InTopic(m) == InChannel(m, Topic)

Init ==
    /\ ClientInit
    /\ loopAt = "select" /\ loopConn = NoConn
    /\ consAt = "read" /\ consMsg = NoMsg /\ consRest = <<>>
    /\ Topic = <<>> /\ jsonMessage = [c \in Conn |-> NoMsg]
    /\ produced = {} /\ handled = {}
    /\ rows = [m \in Msg |-> 0]
    /\ restarts = 0

-------------------------------------------------------------------------------
(* NewClientInit and ClientLogout: handing a connection to the loop           *)

\* Thread t hands over a connection: the loop must be in its select. Waiting for
\* that, t keeps the mutex (ChatClient's LoginLock and LogoutLock).
HandsOver(t, p, q) == loopAt = "select" /\ (pc[t] = q \/ (pc[t] = p /\ mutex = Free))

LoginSend(c) ==
    /\ HandsOver(Reader(c), "login", "loginSend")
    /\ loopAt' = "register" /\ loopConn' = c
    /\ Started(c)
    /\ UNCHANGED <<up, Clients, client, sock, SendBack, shut, via, status, wire>>
    /\ UNCHANGED <<consVars, topicVars, logVars>>

\* mutant: the sender does not wait for the loop to take the connection
LogoutSend_NoWait(t) ==
    /\ pc[t] = "logoutLock" /\ mutex = Free
    /\ IF loopAt = "select" THEN loopAt' = "unregister" /\ loopConn' = client[t]
                            ELSE UNCHANGED loopVars
    /\ Unlock
    /\ Goto(t, "closeConn")
    /\ UNCHANGED <<up, Clients, client, sock, SendBack, shut, via, status, wire>>
    /\ UNCHANGED <<consVars, topicVars, logVars>>

LogoutSend(t) ==
    /\ HandsOver(t, "logoutLock", "logoutSend")
    /\ loopAt' = "unregister" /\ loopConn' = client[t]
    /\ Unlock
    /\ Goto(t, "closeConn")
    /\ UNCHANGED <<up, Clients, client, sock, SendBack, shut, via, status, wire>>
    /\ UNCHANGED <<consVars, topicVars, logVars>>

\* Once the loop has ended, its deferred function has closed both channels: a
\* logout panics in ClientLogout, and that is past Read()'s recover. (A login
\* panics in the HTTP handler, which is recovered, with the mutex locked: as if
\* it waited for ever.)
LogoutPanics(t) ==
    /\ loopAt = "done"
    /\ pc[t] = "logoutSend" \/ (pc[t] = "logoutLock" /\ mutex = Free)
    /\ up' = FALSE
    /\ UNCHANGED <<mutex, Clients, pc, client, sock, SendBack, shut, via, status, wire>>
    /\ UNCHANGED <<loopVars, consVars, topicVars, logVars>>

-------------------------------------------------------------------------------
(* Start(): the loop                                                          *)

\* A nil Conn panics at the welcome; the recovery closes the channels.
Register ==
    /\ loopAt = "register" /\ mutex = Free
    /\ Clients' = [Clients EXCEPT ![UserOf[loopConn]] = loopConn]
    /\ loopAt' = IF sock[loopConn] = "nil" THEN "done" ELSE "select"
    /\ loopConn' = NoConn
    /\ UNCHANGED <<up, mutex, pc, client, sock, SendBack, shut, via, status, wire>>
    /\ UNCHANGED <<consVars, topicVars, logVars>>

Unregister ==
    /\ loopAt = "unregister" /\ mutex = Free
    /\ Clients' = [Clients EXCEPT ![UserOf[loopConn]] = NoConn]
    /\ loopAt' = IF sock[loopConn] = "nil" THEN "done" ELSE "select"
    /\ loopConn' = NoConn
    /\ UNCHANGED <<up, mutex, pc, client, sock, SendBack, shut, via, status, wire>>
    /\ UNCHANGED <<consVars, topicVars, logVars>>

-------------------------------------------------------------------------------
(* Read() in mode "kafka"                                                     *)

ReadMessage(c, m) ==
    /\ Incoming(c, m)
    /\ jsonMessage' = [jsonMessage EXCEPT ![c] = m]
    /\ Goto(Reader(c), "produce")
    /\ UNCHANGED <<up, mutex, Clients, client, sock, SendBack, shut, status, wire>>
    /\ UNCHANGED <<loopVars, consVars, Topic, produced, logVars>>

\* mutant: messages are spread over partitions, and one is read before an older one
WriteMessages_Spread(c) ==
    /\ pc[Reader(c)] = "produce"
    /\ \/ /\ Topic' = <<jsonMessage[c]>> \o Topic
          /\ produced' = produced \cup {jsonMessage[c]}
       \/ "produce" \in Faults /\ UNCHANGED <<Topic, produced>>
    /\ jsonMessage' = [jsonMessage EXCEPT ![c] = NoMsg]
    /\ Goto(Reader(c), "reading")
    /\ UNCHANGED <<up, mutex, Clients, client, sock, SendBack, shut, via, status, wire>>
    /\ UNCHANGED <<loopVars, consVars, logVars>>

\* The reader waits for the write. An error is logged, and a message the broker
\* loses without one (no acknowledgement is asked for) looks the same.
WriteMessages(c) ==
    /\ pc[Reader(c)] = "produce"
    /\ \/ /\ Topic' = Append(Topic, jsonMessage[c])
          /\ produced' = produced \cup {jsonMessage[c]}
       \/ "produce" \in Faults /\ UNCHANGED <<Topic, produced>>
    /\ jsonMessage' = [jsonMessage EXCEPT ![c] = NoMsg]
    /\ Goto(Reader(c), "reading")
    /\ UNCHANGED <<up, mutex, Clients, client, sock, SendBack, shut, via, status, wire>>
    /\ UNCHANGED <<loopVars, consVars, logVars>>

-------------------------------------------------------------------------------
(* The consumer                                                               *)

InGroup(m) == Target[m] \in Group

\* Whom a message goes to: the receiver and the sender, or the group's members; a
\* call only to its receiver. Other combinations are dropped once stored.
Receivers(m) ==
    CASE Kind[m] = "post" /\ InGroup(m) -> Members[Target[m]]
      [] Kind[m] = "post" /\ ~InGroup(m) -> <<Target[m], Sender[m]>>
      [] Kind[m] \in {"call", "signal"} /\ ~InGroup(m) -> <<Target[m]>>
      [] OTHER -> <<>>

Delivers(m) == Kind[m] = "post" \/ (Kind[m] \in {"call", "signal"} /\ ~InGroup(m))

\* A failed load of the group yields no members.
ReceiversRead(m) ==
    {Receivers(m)} \cup (IF "load" \in Faults /\ InGroup(m) THEN {<<>>} ELSE {})

\* Parsing, normalizePath (which may panic, and ends the consumer) and the writes
\* and reads of the database up to the mutex.
Consume ==
    /\ consAt = "read" /\ Topic # <<>>
    /\ LET m == Head(Topic) IN
         /\ consMsg' = IF Delivers(m) THEN m ELSE NoMsg
         /\ handled' = handled \cup {m}
         /\ consAt' = IF Kind[m] = "badPath" THEN "done"
                      ELSE IF Delivers(m) THEN "lock" ELSE "read"
         /\ \E r \in ReceiversRead(m) : consRest' = r
         /\ \/ /\ Kind[m] \in {"post", "call"}
               /\ status' = [status EXCEPT ![m] = "unsent"]
               /\ rows' = [rows EXCEPT ![m] = @ + 1]
            \/ /\ Kind[m] \notin {"post", "call"} \/ "store" \in Faults
               /\ UNCHANGED <<status, rows>>
    /\ Topic' = Tail(Topic)
    /\ UNCHANGED <<up, mutex, Clients, pc, client, sock, SendBack, shut, via, wire>>
    /\ UNCHANGED <<loopVars, jsonMessage, produced, restarts>>

\* A read error is logged, and the empty message handled as a text: the empty
\* avatar makes normalizePath panic.
ConsumeFails ==
    /\ consAt = "read" /\ "consume" \in Faults
    /\ consAt' = "done"
    /\ UNCHANGED <<clientVars, loopVars, consMsg, consRest, topicVars, logVars>>

ConsumerLock ==
    /\ consAt = "lock"
    /\ Lock(Hub)
    /\ consAt' = "send"
    /\ UNCHANGED <<up, Clients, pc, client, sock, SendBack, shut, via, status, wire>>
    /\ UNCHANGED <<loopVars, consMsg, consRest, topicVars, logVars>>

\* One receiver. An absent one is skipped, but the sender of a post is not looked
\* up: nil, or a closed channel, ends the consumer with the mutex locked. A full
\* channel is waited for.
Send ==
    /\ consAt = "send" /\ consRest # <<>>
    /\ LET u == Head(consRest)
           c == Clients[u]
       IN \/ /\ c = NoConn
             /\ consAt' = IF Kind[consMsg] = "post" /\ u = Sender[consMsg] THEN "panicked" ELSE "send"
             /\ SendBack' = SendBack
          \/ c # NoConn /\ shut[c] /\ consAt' = "panicked" /\ SendBack' = SendBack
          \/ /\ c # NoConn /\ ~shut[c] /\ HasRoom(c)
             /\ SendBack' = [SendBack EXCEPT ![c] = Append(@, [msg |-> consMsg, code |-> "ok"])]
             /\ consAt' = "send"
    /\ consRest' = Tail(consRest)
    /\ UNCHANGED <<up, mutex, Clients, pc, client, sock, shut, via, status, wire>>
    /\ UNCHANGED <<loopVars, consMsg, topicVars, logVars>>

\* mutant: the mutex stays locked
SendDone_NoUnlock ==
    /\ consAt = "send" /\ consRest = <<>>
    /\ consAt' = "read" /\ consMsg' = NoMsg
    /\ UNCHANGED <<clientVars, loopVars, consRest, topicVars, logVars>>

SendDone ==
    /\ consAt = "send" /\ consRest = <<>>
    /\ Unlock
    /\ consAt' = "read" /\ consMsg' = NoMsg
    /\ UNCHANGED <<up, Clients, pc, client, sock, SendBack, shut, via, status, wire>>
    /\ UNCHANGED <<loopVars, consRest, topicVars, logVars>>

-------------------------------------------------------------------------------
(* A restart: the process is killed, or has died of a panic, and starts anew.  *)
(* What lived in memory is gone, and the consumer starts at the end of the     *)
(* topic.                                                                      *)

\* mutant: the consumer starts where it had not committed, with the message in hand
LastOffset_FirstUncommitted == (IF consMsg = NoMsg THEN <<>> ELSE <<consMsg>>) \o Topic
LastOffset == <<>>

Restart ==
    /\ restarts < MaxRestarts
    /\ restarts' = restarts + 1
    /\ up' = TRUE /\ mutex' = Free
    /\ Clients' = [u \in User |-> NoConn]
    /\ pc' = [t \in Thread |-> IF pc[Reader(t[2])] = "off" THEN "off" ELSE "done"]
    /\ client' = [t \in Thread |-> NoConn]
    /\ sock' = [c \in Conn |-> IF pc[Reader(c)] = "off" THEN sock[c] ELSE "closed"]
    /\ SendBack' = [c \in Conn |-> <<>>]
    /\ shut' = [c \in Conn |-> FALSE]
    /\ loopAt' = "select" /\ loopConn' = NoConn
    /\ consAt' = "read" /\ consMsg' = NoMsg /\ consRest' = <<>>
    /\ Topic' = LastOffset
    /\ jsonMessage' = [c \in Conn |-> NoMsg]
    /\ UNCHANGED <<via, status, wire, produced, handled, rows>>

-------------------------------------------------------------------------------
Alone == UNCHANGED <<loopVars, consVars, topicVars, logVars>>

ClientLogout(t) ==
    up /\ \/ LogoutSend(t) \/ LogoutPanics(t)
          \/ LogoutLock(t) /\ loopAt \in {"register", "unregister"} /\ Alone
          \/ (GetClient(t) \/ CloseConn(t) \/ CloseChans(t)) /\ Alone
Read(c) ==
    up /\ \/ LoginSend(c)
          \/ LoginLock(c) /\ loopAt # "select" /\ Alone
          \/ WriteMessages(c)
Written(c) == up /\ (Write(c) \/ WriteError(c) \/ WriteEnd(c)) /\ Alone
Heartbeat(c) == up /\ HeartBeatDone(c) /\ Alone
Loop == up /\ (Register \/ Unregister)
Consumer == up /\ (Consume \/ ConsumerLock \/ Send \/ SendDone)
Peer(c) ==
    up /\ \/ (Dial(c) \/ PeerGone(c)) /\ Alone
          \/ \E m \in Msg : ReadMessage(c, m)

Next ==
    \/ Loop \/ Consumer
    \/ up /\ ConsumeFails
    \/ Restart
    \/ \E c \in Conn :
         \/ Peer(c) \/ Read(c) \/ Written(c) \/ Heartbeat(c)
         \/ ClientLogout(Reader(c)) \/ ClientLogout(Beat(c))

Spec == Init /\ [][Next]_vars

\* As in ChatServer.tla: goroutines that can run do, and nothing is assumed of
\* the peers, of Kafka's errors or of restarts.
Fairness ==
    /\ WF_vars(Loop) /\ WF_vars(Consumer)
    /\ \A c \in Conn :
         /\ WF_vars(Read(c)) /\ WF_vars(Written(c)) /\ WF_vars(Heartbeat(c))
         /\ WF_vars(ClientLogout(Reader(c))) /\ WF_vars(ClientLogout(Beat(c)))

FairSpec == Spec /\ Fairness

-------------------------------------------------------------------------------
\* The state is well formed.
TypeOK ==
    /\ ClientTypeOK
    /\ loopAt \in LoopStates
    /\ loopConn \in Conn \cup {NoConn}
    /\ loopAt \in {"register", "unregister"} <=> loopConn # NoConn
    /\ Topic \in Seq(Msg)
    /\ consAt \in ConsStates
    /\ consMsg \in Msg \cup {NoMsg}
    /\ consAt \in {"lock", "send"} => consMsg # NoMsg
    /\ consRest \in Seq(User)
    /\ jsonMessage \in [Conn -> Msg \cup {NoMsg}]
    /\ \A t \in Thread :
         pc[t] \in {"logoutLock", "logoutSend", "closeConn", "closeChans"} => client[t] \in Conn
    /\ \A c \in Conn : pc[Reader(c)] = "produce" => jsonMessage[c] # NoMsg
    /\ produced \subseteq Msg /\ handled \subseteq Msg
    /\ rows \in [Msg -> Nat]
    /\ restarts \in 0 .. MaxRestarts

\* The mutex is held by the thread that waits for the loop, or by the consumer
\* that delivers, or for ever by a consumer that panicked as it delivered.
MutexInv ==
    /\ \A t \in Thread : mutex = t <=> pc[t] \in Critical
    /\ mutex = Hub <=> consAt \in {"send", "panicked"}

\* A connection with closed channels is out of the registry, or the loop is about
\* to remove it.
ShutIsLeaving ==
    \A c \in Conn : shut[c] /\ Clients[UserOf[c]] = c =>
      loopAt = "unregister" /\ loopConn = c

\* However often the process restarts, a message is stored at most once and shown
\* to a connection at most once (unless its user wrote to himself); and nothing but
\* a restart, which skips what is in the topic, loses a message Kafka has accepted.
HandledOnce ==
    /\ restarts = 0 => \A m \in produced : InTopic(m) \/ m \in handled
    /\ \A m \in Msg : rows[m] <= 1
    /\ \A c \in Conn : ConnOnce(SendBack[c], wire[c])

\* Unlike mode "channel", this mode keeps the order of a connection's messages:
\* once one is handled, no older one is still to come.
InOrder ==
    \A m, n \in Msg :
      m < n /\ via[m] = via[n] /\ n \in handled => ~InTopic(m) /\ jsonMessage[via[m]] # m

\* The three ways in which the consumer stops for good: it panicked; the mutex is
\* held by a thread that waits for the loop, and the loop waits for the mutex or
\* has ended; it waits for room in a channel that nobody reads.
HandshakeDeadlock ==
    loopAt # "select" /\ \E t \in Thread : pc[t] \in {"loginSend", "logoutSend"}
BlockedOnWriter ==
    consAt = "send" /\ consRest # <<>> /\
      LET c == Clients[Head(consRest)] IN
        c # NoConn /\ ~HasRoom(c) /\ pc[Writer(c)] # "writing"
Stopped == consAt \in {"done", "panicked"} \/ HandshakeDeadlock \/ BlockedOnWriter

\* There is no fourth: unless one of them happens, or the process dies, every
\* message in the topic is read and finished with (or skipped by a restart).
QueuedIsConsumed ==
    \A m \in Msg : InTopic(m) ~> ((~InTopic(m) /\ consMsg # m) \/ ~up \/ Stopped)

===============================================================================
