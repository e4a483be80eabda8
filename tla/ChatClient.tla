------------------------------ MODULE ChatClient ------------------------------
(*****************************************************************************)
(* One WebSocket connection of the chat service, as client.go runs it: the    *)
(* HTTP handler that accepts it (NewClientInit), its three goroutines (Read,  *)
(* Write, Heartbeat) and the logout procedure that two of them share          *)
(* (ClientLogout).  The module holds what does not depend on the message      *)
(* mode; ChatServer.tla (mode "channel") and KafkaChatServer.tla (mode        *)
(* "kafka") extend it with the hub and with the steps that hand a connection  *)
(* or a message to the hub.                                                   *)
(*                                                                            *)
(* Abstracted: JSON, logging, the text of the notices, and a WebSocket write, *)
(* which is one step here (see the README on concurrent writers).             *)
(*****************************************************************************)
EXTENDS Naturals, Sequences, FiniteSets

CONSTANTS
    User, Group,    \* ids "U..." and "G..."
    Conn,           \* connections (Client structs) that peers may open
    NoConn,         \* no connection: an absent key of the map Clients
    Msg,            \* the chat messages the peers send, numbered
    UserOf,         \* the clientId a connection is opened with
    Sender,         \* SendId of a message
    Target,         \* ReceiveId of a message
    Kind,           \* what the hub tells apart: see Kinds
    Members,        \* the members of a group, as the database lists them
    ChannelSize,    \* constants.CHANNEL_SIZE
    Mortal,         \* connections whose peer may be lost
    Faults          \* which calls to the outside may fail: see FaultSet

\* "post": a text or a file; "call": an audio/video proposal that is stored;
\* "signal": audio/video signalling that is not stored; "voice": a type no
\* branch handles; "badPath": a stored type whose SendAvatar has no "/static/".
Kinds == {"post", "call", "signal", "voice", "badPath"}

\* "upgrade": the WebSocket handshake; "store": a database write;
\* "load": the database read of a group; "produce": the write of a message to
\* Kafka; "consume": the read of one.
FaultSet == {"upgrade", "store", "load", "produce", "consume"}

ASSUME ConnAssumption == NoConn \notin Conn /\ UserOf \in [Conn -> User] /\ Mortal \subseteq Conn
ASSUME MsgAssumption ==
    /\ Msg \subseteq Nat \ {0}
    /\ Sender \in [Msg -> User]
    /\ Target \in [Msg -> User \cup Group]
    /\ Kind \in [Msg -> Kinds]
ASSUME GroupAssumption == Members \in [Group -> Seq(User)] /\ User \cap Group = {}
ASSUME SizeAssumption == ChannelSize \in Nat \ {0}
ASSUME FaultAssumption == Faults \subseteq FaultSet

VARIABLES
    up,         \* the process runs: an unrecovered panic ends it
    mutex,      \* holder of the server's mutex
    Clients,    \* the server's map from clientId to connection
    pc,         \* where each goroutine of each connection stands
    client,     \* the connection a ClientLogout has looked up, per goroutine
    sock,       \* state of the WebSocket under a connection
    SendBack,   \* buffered channel from the hub to Write()
    shut,       \* ClientLogout has closed the connection's channels
    via,        \* the connection a message was read from, NoConn before
    status,     \* row of a message in table message
    wire        \* what Write() has written for the peer of a connection

clientVars == <<up, mutex, Clients, pc, client, sock, SendBack, shut, via, status, wire>>

-------------------------------------------------------------------------------
(* Goroutines and the holders of the mutex. The handler NewClientInit starts  *)
(* the reader as its last act, so the "read" thread stands for both.          *)

Thread == {"read", "write", "beat"} \X Conn
Reader(c) == <<"read", c>>
Writer(c) == <<"write", c>>
Beat(c) == <<"beat", c>>
Hub == <<"hub", NoConn>>
Free == <<"free", NoConn>>

\* Program points at which a thread waits for room in a channel of the hub, and
\* holds the mutex meanwhile. A send that need not wait is one step with its lock
\* and unlock: only holders of the mutex send, so the room found at the lock is
\* still there at the send, and nobody else sees the mutex held.
Critical == {"loginSend", "flushSend", "directSend", "logoutSend"}
PCs == Critical \cup
       {"off", "login", "reading", "flush", "flushLock", "choose", "directLock",
        "produce", "writing", "beating", "logoutLock", "closeConn", "closeChans", "done"}

\* An entry of SendBack: the message and the notice code put into it.
Codes == {"ok", "notFriend", "serverError"}
Entry == [msg : Msg, code : Codes]

NoMsg == 0
EntriesOf(c) == {SendBack[c][i] : i \in DOMAIN SendBack[c]}

\* Of a channel: what waits in it, and that nothing waits twice.
InChannel(x, ch) == \E i \in DOMAIN ch : ch[i] = x
NoRepeat(ch) == \A i, j \in DOMAIN ch : ch[i] = ch[j] => i = j

\* What waits for a connection in ch and what was written to it in w repeats no
\* entry, but for messages of its user to himself, which are sent back to him.
ToSelf(m) == Sender[m] = Target[m]
ConnOnce(ch, w) ==
    /\ \A i, j \in DOMAIN ch : i # j => ch[i] # ch[j] \/ ToSelf(ch[i].msg)
    /\ \A e \in w : InChannel(e, ch) => ToSelf(e.msg)

Goto(t, p) == pc' = [pc EXCEPT ![t] = p]
Lock_Unchecked(t) == mutex' = t     \* mutant: a lock that does not exclude
Lock(t) == mutex = Free /\ mutex' = t
Unlock == mutex' = Free

ClientInit ==
    /\ up = TRUE
    /\ mutex = Free
    /\ Clients = [u \in User |-> NoConn]
    /\ pc = [t \in Thread |-> "off"]
    /\ client = [t \in Thread |-> NoConn]
    /\ sock = [c \in Conn |-> "none"]
    /\ SendBack = [c \in Conn |-> <<>>]
    /\ shut = [c \in Conn |-> FALSE]
    /\ via = [m \in Msg |-> NoConn]
    /\ status = [m \in Msg |-> "absent"]
    /\ wire = [c \in Conn |-> {}]

-------------------------------------------------------------------------------
(* The peer, and the network: outside the program.                            *)

\* The peer of an open connection is lost: closed, killed or unreachable.
PeerGone(c) ==
    /\ c \in Mortal
    /\ sock[c] = "open"
    /\ sock' = [sock EXCEPT ![c] = "gone"]
    /\ UNCHANGED <<up, mutex, Clients, pc, client, SendBack, shut, via, status, wire>>

-------------------------------------------------------------------------------
(* NewClientInit *)

\* The upgrade. Its failure is only logged: the handler goes on with a nil Conn.
Dial(c) ==
    /\ pc[Reader(c)] = "off"
    /\ \/ sock' = [sock EXCEPT ![c] = "open"]
       \/ "upgrade" \in Faults /\ sock' = [sock EXCEPT ![c] = "nil"]
    /\ Goto(Reader(c), "login")
    /\ UNCHANGED <<up, mutex, Clients, client, SendBack, shut, via, status, wire>>

\* SendClientToLogin takes the mutex and finds that the send has to wait.
LoginLock(c) ==
    /\ pc[Reader(c)] = "login"
    /\ Lock(Reader(c))
    /\ Goto(Reader(c), "loginSend")
    /\ UNCHANGED <<up, Clients, client, sock, SendBack, shut, via, status, wire>>

\* The rest of NewClientInit once Login has taken the connection: unlock and
\* start the goroutines. With a nil Conn, SetReadDeadline panics in the handler
\* (which the HTTP server recovers) before Heartbeat is started.
Started(c) ==
    /\ Unlock
    /\ pc' = [pc EXCEPT ![Reader(c)] = "reading",
                        ![Writer(c)] = "writing",
                        ![Beat(c)] = IF sock[c] = "nil" THEN "off" ELSE "beating"]

-------------------------------------------------------------------------------
(* Read: the parts both modes share *)

\* ReadMessage yields m. A connection's user sends its messages in order, on
\* any of its open connections.
Incoming(c, m) ==
    /\ pc[Reader(c)] = "reading"
    /\ sock[c] = "open"
    /\ Sender[m] = UserOf[c]
    /\ via[m] = NoConn
    /\ \A n \in Msg : Sender[n] = Sender[m] /\ n < m => via[n] # NoConn
    /\ via' = [via EXCEPT ![m] = c]

\* ReadMessage fails (peer gone, read deadline, connection closed; a nil Conn
\* panics, and is recovered): the deferred function calls ClientLogout.
ReadFails(c) == pc[Reader(c)] = "reading" /\ sock[c] # "open"

-------------------------------------------------------------------------------
(* Write *)

\* A successful write, and the update of the row to Sent. A write to a peer that
\* is gone may still succeed: the kernel takes it and nobody reads it.
Write(c) ==
    /\ pc[Writer(c)] = "writing"
    /\ SendBack[c] # <<>>
    /\ sock[c] \in {"open", "gone"}
    /\ LET e == Head(SendBack[c]) IN
         /\ wire' = [wire EXCEPT ![c] = IF sock[c] = "open" THEN @ \cup {e} ELSE @]
         /\ \/ status' = [status EXCEPT ![e.msg] = IF @ = "absent" THEN @ ELSE "sent"]
            \/ "store" \in Faults /\ status' = status
    /\ SendBack' = [SendBack EXCEPT ![c] = Tail(@)]
    /\ UNCHANGED <<up, mutex, Clients, pc, client, sock, shut, via>>

\* A failed write ends the goroutine and leaves the rest of SendBack unread. A
\* nil Conn panics here, and nothing recovers it.
WriteError(c) ==
    /\ pc[Writer(c)] = "writing"
    /\ SendBack[c] # <<>>
    /\ sock[c] # "open"
    /\ SendBack' = [SendBack EXCEPT ![c] = Tail(@)]
    /\ Goto(Writer(c), "done")
    /\ up' = (sock[c] # "nil")
    /\ UNCHANGED <<mutex, Clients, client, sock, shut, via, status, wire>>

\* The range over a closed and drained SendBack ends.
WriteEnd(c) ==
    /\ pc[Writer(c)] = "writing"
    /\ SendBack[c] = <<>> /\ shut[c]
    /\ Goto(Writer(c), "done")
    /\ UNCHANGED <<up, mutex, Clients, client, sock, SendBack, shut, via, status, wire>>

-------------------------------------------------------------------------------
(* Heartbeat *)

\* The ping of a tick fails: ClientLogout. With HeartBeatDone closed as well, the
\* select takes either case.
PingFails_OnlyIfClosed(c) == pc[Beat(c)] = "beating" /\ sock[c] = "closed" \* mutant: a lost peer answers
PingFails(c) == pc[Beat(c)] = "beating" /\ sock[c] \in {"gone", "closed"}

HeartBeatDone(c) ==
    /\ pc[Beat(c)] = "beating"
    /\ shut[c]
    /\ Goto(Beat(c), "done")
    /\ UNCHANGED <<up, mutex, Clients, client, sock, SendBack, shut, via, status, wire>>

-------------------------------------------------------------------------------
(* ClientLogout(c.Uuid), run by thread t = Reader(c) or Beat(c). The connection *)
(* it works on is the one registered for the user, not the caller's own.       *)

\* The failure that makes t log out, and the lookup: the failure lasts, so the
\* caller's step is taken together with the lookup it leads to.
GetClient(t) ==
    /\ \/ t = Reader(t[2]) /\ ReadFails(t[2])
       \/ t = Beat(t[2]) /\ PingFails(t[2])
    /\ mutex = Free
    /\ LET found == Clients[UserOf[t[2]]] IN
         /\ client' = [client EXCEPT ![t] = found]
         /\ Goto(t, IF found = NoConn THEN "done" ELSE "logoutLock")
    /\ UNCHANGED <<up, mutex, Clients, sock, SendBack, shut, via, status, wire>>

\* SendClientToLogout takes the mutex and finds that the send has to wait.
LogoutLock(t) ==
    /\ pc[t] = "logoutLock"
    /\ Lock(t)
    /\ Goto(t, "logoutSend")
    /\ UNCHANGED <<up, Clients, client, sock, SendBack, shut, via, status, wire>>

\* Conn.Close returns an error when the connection is closed already.
CloseErr_Ignored(c) == FALSE            \* mutant: the error is not checked
CloseErr(c) == sock[c] = "closed"

\* After an error the procedure stops; on a nil Conn, Close panics inside the
\* deferred function or its caller, which ends the process.
CloseConn(t) ==
    /\ pc[t] = "closeConn"
    /\ LET c == client[t] IN
         /\ up' = (sock[c] # "nil")
         /\ Goto(t, IF CloseErr(c) THEN "done" ELSE "closeChans")
         /\ client' = [client EXCEPT ![t] = IF CloseErr(c) THEN NoConn ELSE @]
         /\ sock' = [sock EXCEPT ![c] = IF @ = "nil" THEN @ ELSE "closed"]
    /\ UNCHANGED <<mutex, Clients, SendBack, shut, via, status, wire>>

\* close(SendTo), close(SendBack), close(HeartBeatDone): each has readers of its
\* own, so the three closes are one step. Closing a closed channel panics.
CloseChans(t) ==
    /\ pc[t] = "closeChans"
    /\ up' = ~shut[client[t]]
    /\ shut' = [shut EXCEPT ![client[t]] = TRUE]
    /\ client' = [client EXCEPT ![t] = NoConn]
    /\ Goto(t, "done")
    /\ UNCHANGED <<mutex, Clients, sock, SendBack, via, status, wire>>

-------------------------------------------------------------------------------
ClientTypeOK ==
    /\ up \in BOOLEAN
    /\ mutex \in Thread \cup {Hub, Free}
    /\ Clients \in [User -> Conn \cup {NoConn}]
    /\ pc \in [Thread -> PCs]
    /\ client \in [Thread -> Conn \cup {NoConn}]
    /\ sock \in [Conn -> {"none", "nil", "open", "gone", "closed"}]
    /\ SendBack \in [Conn -> Seq(Entry)]
    /\ shut \in [Conn -> BOOLEAN]
    /\ via \in [Msg -> Conn \cup {NoConn}]
    /\ status \in [Msg -> {"absent", "unsent", "sent"}]
    /\ wire \in [Conn -> SUBSET Entry]
    /\ \A c \in Conn : Len(SendBack[c]) <= ChannelSize
===============================================================================
