------------------------------ MODULE ChatServer ------------------------------
(*****************************************************************************)
(* The hub of the chat service in mode "channel" (server.go), composed with   *)
(* the connections of ChatClient.tla and the part of client.go's Read() that  *)
(* hands messages to the hub.                                                 *)
(*                                                                            *)
(* One goroutine, Start(), serves the three buffered channels Login, Logout   *)
(* and Transmit; every sender to one of them holds the server's mutex while   *)
(* it sends, and so does the hub while it delivers. Nothing recovers a panic  *)
(* of the hub: it ends the process (up = FALSE), after which nothing moves.   *)
(*                                                                            *)
(* Abstracted: the message cache in Redis, appended to after a delivery, and  *)
(* the answers of the user and session services, which are a verdict here.    *)
(*****************************************************************************)
EXTENDS ChatClient

CONSTANT Verdicts   \* answers validateMessage may meet: see VerdictSet

\* "ok": Status 0 (and Code -2, no relation, comes with Status 0 as well);
\* "noReply": a nil response of a failed call, which is dereferenced.
VerdictSet == {"ok", "notFriend", "serverError", "noReply"}

ASSUME VerdictAssumption == Verdicts \subseteq VerdictSet /\ Verdicts # {}

VARIABLES
    Login, Logout,  \* the channels of connections to register and to remove
    Transmit,       \* the channel of messages to handle
    hubAt,          \* where Start() stands
    hubConn,        \* the connection it registers or removes
    hubMsg,         \* the message it handles
    hubRest,        \* the receivers it has still to serve under the mutex
    verdict,        \* what became of a message: see VerdictStates
    SendTo,         \* per connection, the stash channel of Read()
    jsonMessage,    \* per reader, the message just read
    sendToMessage   \* per reader, the message taken from the stash

channelVars == <<Login, Logout, Transmit>>
hubVars == <<hubAt, hubConn, hubMsg, hubRest, verdict>>
readVars == <<SendTo, jsonMessage, sendToMessage>>
vars == <<clientVars, channelVars, hubVars, readVars>>

HubStates == {"select", "register", "unregister", "validate", "reject", "deliver",
              "lock", "fan"}
VerdictStates == {"none", "taken", "ok", "notFriend", "serverError"}

HasRoom_OffByOne(ch) == Len(ch) <= ChannelSize     \* mutant: one element too many
HasRoom(ch) == Len(ch) < ChannelSize

Init ==
    /\ ClientInit
    /\ Login = <<>> /\ Logout = <<>> /\ Transmit = <<>>
    /\ hubAt = "select" /\ hubConn = NoConn /\ hubMsg = NoMsg /\ hubRest = <<>>
    /\ verdict = [m \in Msg |-> "none"]
    /\ SendTo = [c \in Conn |-> <<>>]
    /\ jsonMessage = [c \in Conn |-> NoMsg]
    /\ sendToMessage = [c \in Conn |-> NoMsg]

-------------------------------------------------------------------------------
(* NewClientInit and ClientLogout: the sends to the hub, under the mutex      *)

\* Thread t sends on ch: at p it has yet to take the mutex, at q it has waited.
MaySend(t, p, q, ch) == HasRoom(ch) /\ (pc[t] = q \/ (pc[t] = p /\ mutex = Free))

LoginSend(c) ==
    /\ MaySend(Reader(c), "login", "loginSend", Login)
    /\ Login' = Append(Login, c)
    /\ Started(c)
    /\ UNCHANGED <<up, Clients, client, sock, SendBack, shut, via, status, wire>>
    /\ UNCHANGED <<Logout, Transmit, hubVars, readVars>>

\* mutant: a send that does not wait, and drops the logout when the channel is full
LogoutSend_NonBlocking(t) ==
    /\ pc[t] = "logoutLock" /\ mutex = Free
    /\ Logout' = IF HasRoom(Logout) THEN Append(Logout, client[t]) ELSE Logout
    /\ Unlock
    /\ Goto(t, "closeConn")
    /\ UNCHANGED <<up, Clients, client, sock, SendBack, shut, via, status, wire>>
    /\ UNCHANGED <<Login, Transmit, hubVars, readVars>>

LogoutSend(t) ==
    /\ MaySend(t, "logoutLock", "logoutSend", Logout)
    /\ Logout' = Append(Logout, client[t])
    /\ Unlock
    /\ Goto(t, "closeConn")
    /\ UNCHANGED <<up, Clients, client, sock, SendBack, shut, via, status, wire>>
    /\ UNCHANGED <<Login, Transmit, hubVars, readVars>>

-------------------------------------------------------------------------------
(* Read() in mode "channel"                                                   *)

\* With an empty stash the flush loop is not entered, whatever Transmit's length.
ReadMessage(c, m) ==
    /\ Incoming(c, m)
    /\ jsonMessage' = [jsonMessage EXCEPT ![c] = m]
    /\ Goto(Reader(c), IF SendTo[c] = <<>> THEN "choose" ELSE "flush")
    /\ UNCHANGED <<up, mutex, Clients, client, sock, SendBack, shut, status, wire>>
    /\ UNCHANGED <<channelVars, hubVars, SendTo, sendToMessage>>

Unstash_Keep(c) == SendTo' = SendTo     \* mutant: the message stays in the stash
Unstash(c) == SendTo' = [SendTo EXCEPT ![c] = Tail(@)]

\* The loop that empties the stash into Transmit; it reads both lengths without
\* the mutex, and Transmit may fill before SendMessageToTransmit has it.
Flush(c) ==
    /\ pc[Reader(c)] = "flush"
    /\ IF HasRoom(Transmit) /\ SendTo[c] # <<>>
         THEN /\ sendToMessage' = [sendToMessage EXCEPT ![c] = Head(SendTo[c])]
              /\ Unstash(c)
              /\ Goto(Reader(c), "flushLock")
         ELSE /\ Goto(Reader(c), "choose")
              /\ UNCHANGED <<sendToMessage, SendTo>>
    /\ UNCHANGED <<up, mutex, Clients, client, sock, SendBack, shut, via, status, wire>>
    /\ UNCHANGED <<channelVars, hubVars, jsonMessage>>

\* Transmit has room: the message goes there directly. Otherwise it is stashed
\* in SendTo; if ClientLogout has closed that, the send panics and Read() ends as
\* it would on its next read, the connection being closed. With both full, the
\* peer gets a notice. In the last two cases the message is dropped.
Choose(c) ==
    /\ pc[Reader(c)] = "choose"
    /\ LET stash == ~HasRoom(Transmit) /\ HasRoom(SendTo[c]) IN
         /\ Goto(Reader(c), IF HasRoom(Transmit) THEN "directLock" ELSE "reading")
         /\ SendTo' = IF stash /\ ~shut[c]
                        THEN [SendTo EXCEPT ![c] = Append(@, jsonMessage[c])]
                        ELSE SendTo
    /\ jsonMessage' = IF HasRoom(Transmit) THEN jsonMessage
                      ELSE [jsonMessage EXCEPT ![c] = NoMsg]
    /\ UNCHANGED <<up, mutex, Clients, client, sock, SendBack, shut, via, status, wire>>
    /\ UNCHANGED <<channelVars, hubVars, sendToMessage>>

\* SendMessageToTransmit has to wait: Transmit filled after its length was read.
TransmitLock(c) ==
    /\ pc[Reader(c)] \in {"flushLock", "directLock"}
    /\ ~HasRoom(Transmit)
    /\ Lock(Reader(c))
    /\ Goto(Reader(c), IF pc[Reader(c)] = "flushLock" THEN "flushSend" ELSE "directSend")
    /\ UNCHANGED <<up, Clients, client, sock, SendBack, shut, via, status, wire>>
    /\ UNCHANGED <<channelVars, hubVars, readVars>>

FlushSend(c) ==
    /\ MaySend(Reader(c), "flushLock", "flushSend", Transmit)
    /\ Transmit' = Append(Transmit, sendToMessage[c])
    /\ sendToMessage' = [sendToMessage EXCEPT ![c] = NoMsg]
    /\ Unlock
    /\ Goto(Reader(c), IF SendTo[c] = <<>> THEN "choose" ELSE "flush")
    /\ UNCHANGED <<up, Clients, client, sock, SendBack, shut, via, status, wire>>
    /\ UNCHANGED <<Login, Logout, hubVars, SendTo, jsonMessage>>

DirectSend(c) ==
    /\ MaySend(Reader(c), "directLock", "directSend", Transmit)
    /\ Transmit' = Append(Transmit, jsonMessage[c])
    /\ jsonMessage' = [jsonMessage EXCEPT ![c] = NoMsg]
    /\ Unlock
    /\ Goto(Reader(c), "reading")
    /\ UNCHANGED <<up, Clients, client, sock, SendBack, shut, via, status, wire>>
    /\ UNCHANGED <<Login, Logout, hubVars, SendTo, sendToMessage>>

-------------------------------------------------------------------------------
(* Start(): the select, and the two cases for connections                     *)

\* mutant: the login is looked at but stays in the channel
TakeLogin_Peek ==
    /\ hubAt = "select" /\ Login # <<>>
    /\ hubAt' = "register" /\ hubConn' = Head(Login)
    /\ UNCHANGED <<clientVars, channelVars, hubMsg, hubRest, verdict, readVars>>

TakeLogin ==
    /\ hubAt = "select" /\ Login # <<>>
    /\ hubAt' = "register" /\ hubConn' = Head(Login) /\ Login' = Tail(Login)
    /\ UNCHANGED <<clientVars, Logout, Transmit, hubMsg, hubRest, verdict, readVars>>

\* Under the mutex, then the welcome: a nil Conn panics there.
Register ==
    /\ hubAt = "register" /\ mutex = Free
    /\ Clients' = [Clients EXCEPT ![UserOf[hubConn]] = hubConn]
    /\ up' = (sock[hubConn] # "nil")
    /\ hubAt' = "select" /\ hubConn' = NoConn
    /\ UNCHANGED <<mutex, pc, client, sock, SendBack, shut, via, status, wire>>
    /\ UNCHANGED <<channelVars, hubMsg, hubRest, verdict, readVars>>

TakeLogout ==
    /\ hubAt = "select" /\ Logout # <<>>
    /\ hubAt' = "unregister" /\ hubConn' = Head(Logout) /\ Logout' = Tail(Logout)
    /\ UNCHANGED <<clientVars, Login, Transmit, hubMsg, hubRest, verdict, readVars>>

\* The key is the user's: whatever connection it maps to is removed.
Delete_Skipped(u) == Clients' = Clients     \* mutant: nothing is removed
Delete(u) == Clients' = [Clients EXCEPT ![u] = NoConn]

Unregister ==
    /\ hubAt = "unregister" /\ mutex = Free
    /\ Delete(UserOf[hubConn])
    /\ up' = (sock[hubConn] # "nil")
    /\ hubAt' = "select" /\ hubConn' = NoConn
    /\ UNCHANGED <<mutex, pc, client, sock, SendBack, shut, via, status, wire>>
    /\ UNCHANGED <<channelVars, hubMsg, hubRest, verdict, readVars>>

-------------------------------------------------------------------------------
(* Start(): a message from Transmit                                           *)

InGroup(m) == Target[m] \in Group

\* Texts and files to a user or a group, and audio/video to a user, go on; the
\* other combinations are dropped once stored.
Route(m) ==
    IF Kind[m] = "post" /\ InGroup(m) THEN "lock"
    ELSE IF Kind[m] \in {"post", "call", "signal"} /\ ~InGroup(m) THEN "validate"
    ELSE "select"

\* Create: a failure is only logged, and the message is handled all the same.
Store_Skipped(m) == status' = status    \* mutant: nothing is stored

Store(m) ==
    IF Kind[m] \in {"post", "call"}
      THEN \/ status' = [status EXCEPT ![m] = "unsent"]
           \/ "store" \in Faults /\ status' = status
      ELSE status' = status

\* The members read for a group message; a failed read yields none.
Load(m) ==
    IF Route(m) = "lock"
      THEN \/ hubRest' = Members[Target[m]]
           \/ "load" \in Faults /\ hubRest' = <<>>
      ELSE hubRest' = <<>>

\* Parsing, normalizePath (whose slice from index -1 panics) and the writes and
\* reads of the database up to the first use of the mutex or of a service.
TakeTransmit ==
    /\ hubAt = "select" /\ Transmit # <<>>
    /\ LET m == Head(Transmit) IN
         /\ hubMsg' = IF Route(m) = "select" THEN NoMsg ELSE m
         /\ verdict' = [verdict EXCEPT ![m] = "taken"]
         /\ up' = (Kind[m] # "badPath")
         /\ hubAt' = Route(m)
         /\ Store(m)
         /\ Load(m)
    /\ Transmit' = Tail(Transmit)
    /\ UNCHANGED <<mutex, Clients, pc, client, sock, SendBack, shut, via, wire>>
    /\ UNCHANGED <<Login, Logout, hubConn, readVars>>

\* Where the hub goes with the answer v. A refusal ends the handling.
\* mutant: the refused message is delivered all the same
AfterAnswer_Continue(v) == IF Kind[hubMsg] = "post" THEN "deliver" ELSE "lock"
AfterAnswer(v) ==
    IF v \in {"notFriend", "serverError"} THEN "reject"
    ELSE IF Kind[hubMsg] = "post" THEN "deliver" ELSE "lock"

\* validateMessage asks the user service, and makes the receiver's session.
Validate ==
    /\ hubAt = "validate"
    /\ \E v \in Verdicts :
         /\ up' = (v # "noReply")
         /\ verdict' = [verdict EXCEPT ![hubMsg] = IF v = "noReply" THEN @ ELSE v]
         /\ hubAt' = AfterAnswer(v)
    /\ hubRest' = <<Target[hubMsg]>>
    /\ UNCHANGED <<mutex, Clients, pc, client, sock, SendBack, shut, via, status, wire>>
    /\ UNCHANGED <<channelVars, hubConn, hubMsg, readVars>>

\* sendMessageToClient: the entry is dropped when the channel is full.
Offer(sb, c, e) ==
    IF c # NoConn /\ HasRoom(sb[c]) THEN [sb EXCEPT ![c] = Append(@, e)] ELSE sb

Closed(c) == c # NoConn /\ shut[c]

\* Not delivered: the sender, if registered, gets a notice in its place.
Reject ==
    /\ hubAt = "reject" /\ mutex = Free
    /\ LET s == Clients[Sender[hubMsg]] IN
         IF Closed(s)
           THEN up' = FALSE /\ SendBack' = SendBack
           ELSE /\ SendBack' = Offer(SendBack, s, [msg |-> hubMsg, code |-> verdict[hubMsg]])
                /\ up' = up
    /\ hubAt' = "select" /\ hubMsg' = NoMsg /\ hubRest' = <<>>
    /\ UNCHANGED <<mutex, Clients, pc, client, sock, shut, via, status, wire>>
    /\ UNCHANGED <<channelVars, hubConn, verdict, readVars>>

\* A text or a file for a user: to the receiver, then back to the sender. A send
\* on a closed channel panics, whether or not there is a default case.
Deliver ==
    /\ hubAt = "deliver" /\ mutex = Free
    /\ LET r == Clients[Target[hubMsg]]
           s == Clients[Sender[hubMsg]]
           e == [msg |-> hubMsg, code |-> "ok"]
       IN IF Closed(r) \/ Closed(s)
            THEN up' = FALSE /\ SendBack' = SendBack
            ELSE up' = up /\ SendBack' = Offer(Offer(SendBack, r, e), s, e)
    /\ hubAt' = "select" /\ hubMsg' = NoMsg /\ hubRest' = <<>>
    /\ UNCHANGED <<mutex, Clients, pc, client, sock, shut, via, status, wire>>
    /\ UNCHANGED <<channelVars, hubConn, verdict, readVars>>

\* Group posts and audio/video: blocking sends, with the mutex held throughout.
FanLock ==
    /\ hubAt = "lock"
    /\ Lock(Hub)
    /\ hubAt' = "fan"
    /\ UNCHANGED <<up, Clients, pc, client, sock, SendBack, shut, via, status, wire>>
    /\ UNCHANGED <<channelVars, hubConn, hubMsg, hubRest, verdict, readVars>>

\* One receiver. An absent receiver is skipped, but in a group the sender is not
\* looked up: an absent sender is a nil dereference.
FanSend ==
    /\ hubAt = "fan" /\ hubRest # <<>>
    /\ LET u == Head(hubRest)
           c == Clients[u]
       IN \/ /\ c = NoConn
             /\ up' = ~(InGroup(hubMsg) /\ u = Sender[hubMsg])
             /\ SendBack' = SendBack
          \/ Closed(c) /\ up' = FALSE /\ SendBack' = SendBack
          \/ /\ c # NoConn /\ ~shut[c] /\ HasRoom(SendBack[c])
             /\ SendBack' = [SendBack EXCEPT ![c] = Append(@, [msg |-> hubMsg, code |-> "ok"])]
             /\ up' = up
    /\ hubRest' = Tail(hubRest)
    /\ UNCHANGED <<mutex, Clients, pc, client, sock, shut, via, status, wire>>
    /\ UNCHANGED <<channelVars, hubAt, hubConn, hubMsg, verdict, readVars>>

\* mutant: the mutex stays locked
FanDone_NoUnlock ==
    /\ hubAt = "fan" /\ hubRest = <<>>
    /\ hubAt' = "select" /\ hubMsg' = NoMsg
    /\ UNCHANGED <<clientVars, channelVars, hubConn, hubRest, verdict, readVars>>

FanDone ==
    /\ hubAt = "fan" /\ hubRest = <<>>
    /\ Unlock
    /\ hubAt' = "select" /\ hubMsg' = NoMsg
    /\ UNCHANGED <<up, Clients, pc, client, sock, SendBack, shut, via, status, wire>>
    /\ UNCHANGED <<channelVars, hubConn, hubRest, verdict, readVars>>

-------------------------------------------------------------------------------
(* The threads, and what the outside does to them                             *)

Alone == UNCHANGED <<channelVars, hubVars, readVars>>

ClientLogout(t) ==
    up /\ \/ LogoutSend(t)
          \/ LogoutLock(t) /\ ~HasRoom(Logout) /\ Alone
          \/ (GetClient(t) \/ CloseConn(t) \/ CloseChans(t)) /\ Alone
Read(c) ==
    up /\ \/ LoginSend(c)
          \/ LoginLock(c) /\ ~HasRoom(Login) /\ Alone
          \/ Flush(c) \/ Choose(c) \/ TransmitLock(c) \/ FlushSend(c) \/ DirectSend(c)
Written(c) == up /\ (Write(c) \/ WriteError(c) \/ WriteEnd(c)) /\ Alone
Heartbeat(c) == up /\ HeartBeatDone(c) /\ Alone
Start ==
    up /\ \/ TakeLogin \/ Register \/ TakeLogout \/ Unregister
          \/ TakeTransmit \/ Validate \/ Reject \/ Deliver
          \/ FanLock \/ FanSend \/ FanDone
Peer(c) ==
    up /\ \/ (Dial(c) \/ PeerGone(c)) /\ Alone
          \/ \E m \in Msg : ReadMessage(c, m)

Next ==
    \/ Start
    \/ \E c \in Conn :
         \/ Peer(c) \/ Read(c) \/ Written(c) \/ Heartbeat(c)
         \/ ClientLogout(Reader(c)) \/ ClientLogout(Beat(c))

Spec == Init /\ [][Next]_vars

\* Every goroutine that can run does, in the end: Go's scheduler is preemptive
\* and its mutex hands over. Nothing is assumed of the peers; that a lost peer
\* shows up as a read or ping error is the 30 s read deadline.
Fairness ==
    /\ WF_vars(Start)
    /\ \A c \in Conn :
         /\ WF_vars(Read(c)) /\ WF_vars(Written(c)) /\ WF_vars(Heartbeat(c))
         /\ WF_vars(ClientLogout(Reader(c))) /\ WF_vars(ClientLogout(Beat(c)))

FairSpec == Spec /\ Fairness

-------------------------------------------------------------------------------
(* Type invariant                                                             *)

HubTypeOK ==
    /\ hubAt \in HubStates
    /\ hubConn \in Conn \cup {NoConn}
    /\ hubMsg \in Msg \cup {NoMsg}
    /\ hubRest \in Seq(User)
    /\ verdict \in [Msg -> VerdictStates]
    /\ hubAt \in {"register", "unregister"} => hubConn \in Conn
    /\ hubAt \in {"validate", "reject", "deliver"} => hubMsg \in Msg /\ ~InGroup(hubMsg)
    /\ hubAt \in {"lock", "fan"} => hubMsg \in Msg
    /\ hubAt = "reject" => verdict[hubMsg] \in Codes

ChannelTypeOK ==
    /\ Login \in Seq(Conn) /\ Len(Login) <= ChannelSize
    /\ Logout \in Seq(Conn) /\ Len(Logout) <= ChannelSize
    /\ Transmit \in Seq(Msg) /\ Len(Transmit) <= ChannelSize

ReadTypeOK ==
    /\ SendTo \in [Conn -> Seq(Msg)]
    /\ jsonMessage \in [Conn -> Msg \cup {NoMsg}]
    /\ sendToMessage \in [Conn -> Msg \cup {NoMsg}]
    /\ \A c \in Conn :
         /\ Len(SendTo[c]) <= ChannelSize
         /\ pc[Reader(c)] \in {"flush", "flushLock", "flushSend", "choose", "directLock", "directSend"}
              => jsonMessage[c] \in Msg
         /\ pc[Reader(c)] \in {"flushLock", "flushSend"} => sendToMessage[c] \in Msg
    /\ \A t \in Thread :
         pc[t] \in {"logoutLock", "logoutSend", "closeConn", "closeChans"} => client[t] \in Conn

\* The state is well formed: the channels hold what they carry and never more
\* than their capacity, and a thread that uses a local variable has set it.
TypeOK == ClientTypeOK /\ HubTypeOK /\ ChannelTypeOK /\ ReadTypeOK

-------------------------------------------------------------------------------
(* Safety                                                                     *)

\* The mutex of server.go is held exactly by the thread that is inside one of
\* the sections it guards: no section is entered twice, none is left locked.
MutexInv ==
    /\ \A t \in Thread : mutex = t <=> pc[t] \in Critical
    /\ mutex = Hub <=> hubAt = "fan"

\* ClientLogout runs for one connection from its reader, its heartbeat and the
\* threads of the user's other connections; closing a channel twice would panic.
\* Only the error that Conn.Close returns the second time stands in the way.
ClosedOnce ==
    \A t \in Thread :
      pc[t] = "closeChans" =>
        /\ ~shut[client[t]]
        /\ \A t2 \in Thread \ {t} : pc[t2] = "closeChans" => client[t2] # client[t]

Leaving(c) == InChannel(c, Logout) \/ (hubAt = "unregister" /\ hubConn = c)

\* A connection whose channels ClientLogout has closed is either out of the
\* registry or on its way out: the hub will not be left with a closed channel
\* it looks up for ever.
ShutIsLeaving ==
    \A c \in Conn : shut[c] /\ Clients[UserOf[c]] = c => Leaving(c)

\* The inductive invariant behind ClosedOnce, ShutIsLeaving and NeverReturns: the
\* life of a connection, from the handler through the registry to its closing.
Waiting(c) == InChannel(c, Login) \/ (hubAt = "register" /\ hubConn = c)
Starting(c) == pc[Reader(c)] \in {"off", "login", "loginSend"}
Fresh(c) ==
    /\ Clients[UserOf[c]] # c
    /\ \A t \in Thread : client[t] # c
    /\ ~shut[c]

\* A connection waits for its registration once, and before that nothing has
\* found it: neither the registry nor a ClientLogout holds it.
RegisteredOnce ==
    /\ \A c \in Conn : Starting(c) =>
         Fresh(c) /\ ~Waiting(c) /\ pc[Writer(c)] = "off" /\ pc[Beat(c)] = "off"
    /\ \A c \in Conn : Waiting(c) => Fresh(c)
    /\ NoRepeat(Login)
    /\ hubAt = "register" => ~InChannel(hubConn, Login)
    /\ \A u \in User : Clients[u] # NoConn => UserOf[Clients[u]] = u

\* What ClientLogout has closed, it has announced to the hub before.
AnnouncedBeforeClosed ==
    /\ \A t \in Thread :
         LET c == client[t] IN
         /\ c # NoConn => pc[t] \in {"logoutLock", "logoutSend", "closeConn", "closeChans"}
         /\ pc[t] \in {"closeConn", "closeChans"} /\ Clients[UserOf[c]] = c => Leaving(c)
         /\ pc[t] = "closeChans" => sock[c] = "closed" \/ ~up
    /\ \A c \in Conn : shut[c] => sock[c] = "closed"
    /\ \A c \in Conn : pc[Reader(c)] = "off" => sock[c] = "none"

RegistryInv == RegisteredOnce /\ AnnouncedBeforeClosed /\ ClosedOnce /\ ShutIsLeaving

\* A closed connection that has left the registry is never registered again, in
\* whatever order logins and logouts of the user's connections are handled.
NeverReturns ==
    [][\A c \in Conn : shut[c] /\ Clients[UserOf[c]] # c => Clients'[UserOf[c]] # c]_vars

Shown(c) == EntriesOf(c) \cup wire[c]

\* What validateMessage refuses reaches nobody: a message goes to a connection
\* only after the hub accepted it (or it is a group post), and a refusal is
\* shown to its sender alone, with the code of the refusal.
RefusedIsNotDelivered ==
    \A c \in Conn : \A e \in Shown(c) :
      IF e.code = "ok"
        THEN verdict[e.msg] = IF InGroup(e.msg) THEN "taken" ELSE "ok"
        ELSE verdict[e.msg] = e.code /\ UserOf[c] = Sender[e.msg]

\* The recipients of a message: its two parties, or the group's members.
Audience(m) ==
    IF InGroup(m) THEN {Members[Target[m]][i] : i \in DOMAIN Members[Target[m]]}
    ELSE {Sender[m], Target[m]}

\* Nobody is shown a message of a conversation he is no party of, and a stored
\* kind of message is in the database by then unless the write itself failed.
ShownToItsAudience ==
    \A c \in Conn : \A e \in Shown(c) :
      /\ UserOf[c] \in Audience(e.msg)
      /\ Kind[e.msg] = "post" /\ "store" \notin Faults => status[e.msg] # "absent"

\* The inductive invariant behind RefusedIsNotDelivered, ShownToItsAudience and
\* ImplementsLifecycle: the life of a message, from its reader to its verdict.
Holds(c, m) == m = jsonMessage[c] \/ m = sendToMessage[c] \/ InChannel(m, SendTo[c])
HasMessage(c) == pc[Reader(c)] \in
    {"flush", "flushLock", "flushSend", "choose", "directLock", "directSend"}

\* What a reader holds it has read itself, once, and nobody has handled; it holds
\* nothing in its variables while it waits for the next message.
ReaderHolds(c) ==
    /\ \A m \in Msg : Holds(c, m) =>
         via[m] = c /\ verdict[m] = "none" /\ ~InChannel(m, Transmit)
    /\ NoRepeat(SendTo[c])
    /\ \A m \in {jsonMessage[c], sendToMessage[c]} : ~InChannel(m, SendTo[c])
    /\ HasMessage(c) => jsonMessage[c] # sendToMessage[c]
    /\ ~HasMessage(c) => jsonMessage[c] = NoMsg
    /\ pc[Reader(c)] \notin {"flushLock", "flushSend"} => sendToMessage[c] = NoMsg

\* What waits in Transmit was read and waits once, and has no verdict yet.
QueuedOnce ==
    /\ NoRepeat(Transmit)
    /\ \A m \in Msg :
         /\ InChannel(m, Transmit) => verdict[m] = "none" /\ via[m] # NoConn
         /\ verdict[m] # "none" => via[m] # NoConn

\* The hub delivers what was accepted, rejects what was refused, to the message's
\* audience and after the row is stored.
HubHasVerdict ==
    /\ hubAt \in {"select", "register", "unregister"} <=> hubMsg = NoMsg
    /\ hubMsg # NoMsg => verdict[hubMsg] # "none"
    /\ hubAt = "validate" => verdict[hubMsg] = "taken"
    /\ hubAt = "reject" => verdict[hubMsg] \in {"notFriend", "serverError"}
    /\ hubAt \in {"deliver", "lock", "fan"} /\ up =>
         verdict[hubMsg] = IF InGroup(hubMsg) THEN "taken" ELSE "ok"
    /\ hubAt \in {"lock", "fan"} => \A u \in User : InChannel(u, hubRest) => u \in Audience(hubMsg)
    /\ "store" \notin Faults =>
         \A m \in Msg : verdict[m] # "none" /\ Kind[m] = "post" => status[m] # "absent"

MessageInv ==
    /\ \A c \in Conn : ReaderHolds(c)
    /\ QueuedOnce /\ HubHasVerdict /\ RefusedIsNotDelivered /\ ShownToItsAudience

\* A connection gets a message at most once, whatever stashing, flushing and
\* reconnecting went on, unless its user wrote to himself.
ShownOnce == \A c \in Conn : ConnOnce(SendBack[c], wire[c])

-------------------------------------------------------------------------------
(* Refinement of the abstract life of a message                               *)

StageOf(m) ==
    CASE via[m] = NoConn -> "peer"
      [] verdict[m] # "none" -> IF hubMsg = m THEN "hub" ELSE "done"
      [] verdict[m] = "none" /\ InChannel(m, Transmit) -> "queued"
      [] OTHER -> IF \E c \in Conn : InChannel(m, SendTo[c]) THEN "stashed"
                  ELSE IF \E c \in Conn : m \in {jsonMessage[c], sendToMessage[c]} THEN "held"
                  ELSE "lost"

Lifecycle == INSTANCE MessageLifecycle WITH
    stage <- [m \in Msg |-> StageOf(m)],
    shown <- [c \in Conn |-> {e.msg : e \in {x \in wire[c] : x.code = "ok"}}],
    MayShow <- {p \in Msg \X Conn : UserOf[p[2]] \in Audience(p[1])}

\* server.go and client.go keep the promises of MessageLifecycle: a message is
\* handled once, one at a time, and shown to its audience only.
ImplementsLifecycle == Lifecycle!Spec

-------------------------------------------------------------------------------
(* Liveness                                                                   *)

\* The hub finishes with every message that reached Transmit, unless the process
\* dies.
QueuedIsHandled ==
    \A m \in Msg : InChannel(m, Transmit) ~> ((verdict[m] # "none" /\ hubMsg # m) \/ ~up)

\* A connection closed by ClientLogout leaves the registry.
ShutIsRemoved ==
    \A c \in Conn : (shut[c] /\ Clients[UserOf[c]] = c) ~> (Clients[UserOf[c]] # c \/ ~up)

\* README.md:12, the heartbeat finds invalid connections and cleans them up: the
\* connection of a lost peer is closed, if it is registered and its heartbeat
\* runs. (The reader alone may miss it, by failing before it is registered.) It
\* holds as long as a user has one connection, and fails when he reconnects.
BeatingIsClosed ==
    \A c \in Conn :
      (sock[c] = "gone" /\ Clients[UserOf[c]] = c /\ pc[Beat(c)] = "beating")
        ~> (sock[c] = "closed" \/ ~up)

-------------------------------------------------------------------------------
(* What the repository says of the program and the code does not keep         *)

\* client.go:79 and server.go:545 mean nobody to block on a full channel: the hub
\* never waits for a thread that waits for the hub, or for a writer that is gone.
HubIsNotWedged ==
    /\ hubAt \in {"register", "unregister", "reject", "deliver", "lock"} =>
         \A c \in Conn : pc[Reader(c)] \notin {"flushSend", "directSend"}
    /\ hubAt = "fan" /\ hubRest # <<>> =>
         LET c == Clients[Head(hubRest)] IN
           c # NoConn /\ ~shut[c] /\ ~HasRoom(SendBack[c]) => pc[Writer(c)] = "writing"

===============================================================================
