------------------------- MODULE KafkaChatServerProofs -------------------------
(*****************************************************************************)
(* Theorems about KafkaChatServer.tla, for any users, groups, connections,    *)
(* messages, channel sizes, faults and number of restarts.                    *)
(*****************************************************************************)
EXTENDS KafkaChatServer, ChatClientProofs

-------------------------------------------------------------------------------
(* Types                                                                      *)

\* What TypeOK says beyond the connections.
HubTypes ==
  /\ loopAt \in LoopStates
  /\ loopConn \in Conn \cup {NoConn}
  /\ loopAt \in {"register", "unregister"} <=> loopConn # NoConn
  /\ consAt \in ConsStates
  /\ consMsg \in Msg \cup {NoMsg}
  /\ consAt \in {"lock", "send"} => consMsg # NoMsg
  /\ consRest \in Seq(User)
LogTypes ==
  /\ Topic \in Seq(Msg)
  /\ produced \subseteq Msg /\ handled \subseteq Msg
  /\ rows \in [Msg -> Nat]
  /\ restarts \in 0 .. MaxRestarts
LocalTypes ==
  /\ jsonMessage \in [Conn -> Msg \cup {NoMsg}]
  /\ \A t \in Thread :
       pc[t] \in {"logoutLock", "logoutSend", "closeConn", "closeChans"} => client[t] \in Conn
  /\ \A c \in Conn : pc[Reader(c)] = "produce" => jsonMessage[c] # NoMsg

\* TypeOK in these parts.
LEMMA TypeParts == TypeOK <=> ClientTypeOK /\ HubTypes /\ LogTypes /\ LocalTypes
BY DEF TypeOK, HubTypes, LogTypes, LocalTypes

\* So it is in the next state.
LEMMA TypePartsNext == ClientTypeOK' /\ HubTypes' /\ LogTypes' /\ LocalTypes' => TypeOK'
BY DEF TypeOK, HubTypes, LogTypes, LocalTypes

\* At the start nothing is connected, queued or stored.
LEMMA TypeInit == Init => TypeOK
BY ConnAssumption, SizeAssumption, RestartAssumption, ThreadFacts, EmptySeq
   DEF Init, ClientInit, TypeOK, ClientTypeOK, PCs, Critical, LoopStates, ConsStates, NoMsg

\* A step that the two modes share keeps the types.
LEMMA TypeShared ==
  ASSUME TypeOK, NEW c \in Conn, NEW t \in {Reader(c), Beat(c)}, Alone,
         \/ Dial(c) \/ PeerGone(c) \/ LoginLock(c)
         \/ Write(c) \/ WriteError(c) \/ WriteEnd(c) \/ HeartBeatDone(c)
         \/ LogoutLock(t) \/ GetClient(t) \/ CloseConn(t) \/ CloseChans(t)
  PROVE  TypeOK'
<1> USE ThreadFacts, ConnAssumption, TypeParts, TypePartsNext
<1>1. ClientTypeOK'
  BY ClientTypes
<1>2. HubTypes' /\ LogTypes'
  BY DEF Alone, loopVars, consVars, topicVars, logVars, HubTypes, LogTypes
<1>3. LocalTypes'
  <2> USE DEF LocalTypes, ClientTypeOK, Goto, Alone, topicVars
  <2>1. CASE Dial(c)
    BY <2>1 DEF Dial
  <2>2. CASE PeerGone(c)
    BY <2>2 DEF PeerGone
  <2>3. CASE LoginLock(c)
    BY <2>3 DEF LoginLock
  <2>4. CASE Write(c)
    BY <2>4 DEF Write
  <2>5. CASE WriteError(c)
    BY <2>5 DEF WriteError
  <2>6. CASE WriteEnd(c)
    BY <2>6 DEF WriteEnd
  <2>7. CASE HeartBeatDone(c)
    BY <2>7 DEF HeartBeatDone
  <2>8. CASE LogoutLock(t)
    BY <2>8 DEF LogoutLock
  <2>9. CASE GetClient(t)
    BY <2>9 DEF GetClient
  <2>10. CASE CloseConn(t)
    BY <2>10 DEF CloseConn
  <2>11. CASE CloseChans(t)
    BY <2>11 DEF CloseChans
  <2>12. QED
    BY <2>1, <2>2, <2>3, <2>4, <2>5, <2>6, <2>7, <2>8, <2>9, <2>10, <2>11
<1>4. QED
  BY <1>1, <1>2, <1>3

\* So do the steps that hand a connection to the loop or a message to Kafka.
LEMMA TypeHandOver ==
  ASSUME TypeOK, NEW c \in Conn, NEW t \in {Reader(c), Beat(c)},
         \/ LoginSend(c) \/ LogoutSend(t) \/ LogoutPanics(t)
         \/ (\E m \in Msg : ReadMessage(c, m)) \/ WriteMessages(c)
  PROVE  TypeOK'
<1> USE ThreadFacts, ConnAssumption, TypeParts, TypePartsNext DEF LocalTypes, ClientTypeOK, PCs, Critical, Goto
<1>1. CASE LoginSend(c)
  <2>1. ClientTypeOK'
    BY <1>1 DEF LoginSend, HandsOver, Started, Unlock, topicVars
  <2>2. LocalTypes'
    BY <1>1 DEF LoginSend, HandsOver, Started, Unlock, topicVars
  <2>3. HubTypes' /\ LogTypes'
    BY <1>1 DEF LoginSend, HubTypes, LogTypes, LoopStates, consVars, topicVars, logVars
  <2>4. QED
    BY <2>1, <2>2, <2>3
<1>2. CASE LogoutSend(t)
  <2>1. ClientTypeOK' /\ LocalTypes'
    BY <1>2 DEF LogoutSend, HandsOver, Unlock, topicVars
  <2>2. client[t] \in Conn
    BY <1>2 DEF LogoutSend, HandsOver
  <2>3. HubTypes' /\ LogTypes'
    BY <1>2, <2>2 DEF LogoutSend, HubTypes, LogTypes, LoopStates, consVars, topicVars, logVars
  <2>4. QED
    BY <2>1, <2>3
<1>3. CASE LogoutPanics(t)
  BY <1>3 DEF LogoutPanics, HubTypes, LogTypes, loopVars, consVars, topicVars, logVars
<1>4. CASE \E m \in Msg : ReadMessage(c, m)
  <2>1. ClientTypeOK' /\ LocalTypes'
    BY <1>4, MsgAssumption DEF ReadMessage, Incoming, NoMsg
  <2>2. HubTypes' /\ LogTypes'
    BY <1>4 DEF ReadMessage, HubTypes, LogTypes, loopVars, consVars, logVars
  <2>3. QED
    BY <2>1, <2>2
<1>5. CASE WriteMessages(c)
  <2>1. ClientTypeOK' /\ LocalTypes'
    BY <1>5 DEF WriteMessages
  <2>2. HubTypes'
    BY <1>5 DEF WriteMessages, HubTypes, loopVars, consVars
  <2>3. jsonMessage[c] \in Msg
    BY <1>5 DEF WriteMessages
  <2>4. /\ UNCHANGED <<handled, rows, restarts>>
        /\ \/ Topic' = Append(Topic, jsonMessage[c]) /\ produced' = produced \cup {jsonMessage[c]}
           \/ UNCHANGED <<Topic, produced>>
    BY <1>5 DEF WriteMessages, logVars
  <2>5. Topic \in Seq(Msg) /\ Append(Topic, jsonMessage[c]) \in Seq(Msg)
    BY <2>3, AppendFacts DEF LogTypes
  <2>6. LogTypes'
    BY ONLY <2>3, <2>4, <2>5, TypeParts, TypeOK DEF LogTypes
  <2>7. QED
    BY <2>1, <2>2, <2>6
<1>6. QED
  BY <1>1, <1>2, <1>3, <1>4, <1>5

\* So do the loop and the consumer.
LEMMA TypeHub ==
  ASSUME TypeOK, Register \/ Unregister \/ Consume \/ ConsumeFails \/ ConsumerLock \/ Send \/ SendDone
  PROVE  TypeOK'
<1> USE ThreadFacts, ConnAssumption, TypeParts, TypePartsNext
<1>1. CASE Register \/ Unregister
  <2>1. loopConn \in Conn /\ UserOf[loopConn] \in User
    BY <1>1 DEF Register, Unregister, HubTypes
  <2>2. ClientTypeOK'
    <3>1. Clients' \in [User -> Conn \cup {NoConn}]
      <4>1. CASE Register
        BY <2>1, <4>1 DEF Register, ClientTypeOK
      <4>2. CASE Unregister
        BY <2>1, <4>2 DEF Unregister, ClientTypeOK
      <4>3. QED
        BY <1>1, <4>1, <4>2
    <3>2. QED
      BY <1>1, <3>1 DEF Register, Unregister, ClientTypeOK
  <2>3. HubTypes' /\ LogTypes' /\ LocalTypes'
    BY <1>1 DEF Register, Unregister, HubTypes, LogTypes, LocalTypes, LoopStates,
       consVars, topicVars, logVars
  <2>4. QED
    BY <2>2, <2>3
<1>2. CASE Consume
  <2>1. PICK m \in Msg : m = Head(Topic)
    BY <1>2, TailFacts DEF Consume, LogTypes
  <2>2. /\ \/ status' = [status EXCEPT ![m] = "unsent"] /\ rows' = [rows EXCEPT ![m] = @ + 1]
           \/ UNCHANGED <<status, rows>>
        /\ UNCHANGED <<up, mutex, Clients, pc, client, sock, SendBack, shut, via, wire>>
        /\ UNCHANGED <<loopVars, jsonMessage, produced, restarts>>
        /\ consMsg' = IF Delivers(m) THEN m ELSE NoMsg
        /\ consAt' = IF Kind[m] = "badPath" THEN "done" ELSE IF Delivers(m) THEN "lock" ELSE "read"
        /\ handled' = handled \cup {m} /\ Topic' = Tail(Topic) /\ Topic # <<>>
        /\ consRest' \in ReceiversRead(m)
    BY <1>2, <2>1 DEF Consume
  <2>3. ReceiversRead(m) \subseteq Seq(User)
    <3>1. Sender[m] \in User /\ (InGroup(m) => Members[Target[m]] \in Seq(User))
          /\ (~InGroup(m) => Target[m] \in User)
      BY MsgAssumption, GroupAssumption DEF InGroup
    <3>2. <<>> \in Seq(User)
      BY EmptySeq
    <3>3. Receivers(m) \in Seq(User)
      <4>1. InGroup(m) => Receivers(m) \in {Members[Target[m]], <<>>}
        BY DEF Receivers
      <4>2. ~InGroup(m) => Receivers(m) \in {<<Target[m], Sender[m]>>, <<Target[m]>>, <<>>}
        BY DEF Receivers
      <4>3. ~InGroup(m) => <<Target[m], Sender[m]>> \in Seq(User) /\ <<Target[m]>> \in Seq(User)
        BY <3>1
      <4>4. CASE InGroup(m)
        BY <3>1, <3>2, <4>1, <4>4
      <4>5. CASE ~InGroup(m)
        BY <3>2, <4>2, <4>3, <4>5
      <4>6. QED
        BY <4>4, <4>5
    <3>4. QED
      BY <3>2, <3>3 DEF ReceiversRead
  <2>4. ClientTypeOK' /\ LocalTypes'
    BY <2>2 DEF ClientTypeOK, LocalTypes
  <2>5. HubTypes'
    BY <2>2, <2>3, MsgAssumption DEF HubTypes, ConsStates, loopVars, NoMsg
  <2>6. LogTypes'
    <3>1. Tail(Topic) \in Seq(Msg)
      BY <2>2, TailFacts DEF LogTypes
    <3>2. rows' \in [Msg -> Nat]
      <4>1. rows \in [Msg -> Nat] /\ rows[m] + 1 \in Nat
        BY DEF LogTypes
      <4>2. rows' = [rows EXCEPT ![m] = @ + 1] \/ rows' = rows
        BY <2>2
      <4>3. QED
        BY <4>1, <4>2
    <3>3. QED
      BY <2>2, <3>1, <3>2 DEF LogTypes
  <2>7. QED
    BY <2>4, <2>5, <2>6
<1>3. CASE ConsumeFails
  BY <1>3 DEF ConsumeFails, ClientTypeOK, HubTypes, LogTypes, LocalTypes, ConsStates,
     clientVars, loopVars, topicVars, logVars
<1>4. CASE ConsumerLock
  BY <1>4 DEF ConsumerLock, Lock, ClientTypeOK, HubTypes, LogTypes, LocalTypes, ConsStates,
     loopVars, topicVars, logVars
<1>5. CASE Send
  <2>1. PICK u \in User : u = Head(consRest)
    BY <1>5, TailFacts DEF Send, HubTypes
  <2>2. /\ Tail(consRest) \in Seq(User) /\ consMsg \in Msg
    BY <1>5, TailFacts DEF Send, HubTypes
  <2>3. ClientTypeOK'
    <3>1. CASE SendBack' = SendBack
      BY <1>5, <3>1 DEF Send, ClientTypeOK
    <3>2. CASE SendBack' # SendBack
      <4>1. PICK c \in Conn :
              /\ HasRoom(c)
              /\ SendBack' = [SendBack EXCEPT ![c] = Append(@, [msg |-> consMsg, code |-> "ok"])]
        <5>1. PICK c : c = Clients[u]
          OBVIOUS
        <5>2. /\ c # NoConn /\ HasRoom(c)
              /\ SendBack' = [SendBack EXCEPT ![c] = Append(@, [msg |-> consMsg, code |-> "ok"])]
          BY ONLY <1>5, <2>1, <3>2, <5>1 DEF Send
        <5>3. c \in Conn
          BY <5>1, <5>2 DEF ClientTypeOK
        <5>4. QED
          BY <5>2, <5>3
      <4>2. [msg |-> consMsg, code |-> "ok"] \in Entry /\ SendBack[c] \in Seq(Entry)
            /\ Len(SendBack[c]) < ChannelSize /\ Len(SendBack[c]) \in Nat
        BY <2>2, <4>1, LenProperties DEF Entry, Codes, ClientTypeOK, HasRoom
      <4>3. /\ Append(SendBack[c], [msg |-> consMsg, code |-> "ok"]) \in Seq(Entry)
            /\ Len(Append(SendBack[c], [msg |-> consMsg, code |-> "ok"])) <= ChannelSize
        BY <4>2, AppendFacts, SizeAssumption
      <4>4. QED
        BY <1>5, <4>1, <4>3 DEF Send, ClientTypeOK
    <3>3. QED
      BY <3>1, <3>2
  <2>4. HubTypes'
    BY <1>5, <2>2 DEF Send, HubTypes, ConsStates, loopVars
  <2>5. LogTypes' /\ LocalTypes'
    BY <1>5 DEF Send, LogTypes, LocalTypes, topicVars, logVars
  <2>6. QED
    BY <2>3, <2>4, <2>5
<1>6. CASE SendDone
  BY <1>6 DEF SendDone, Unlock, ClientTypeOK, HubTypes, LogTypes, LocalTypes, ConsStates,
     loopVars, topicVars, logVars
<1>7. QED
  BY <1>1, <1>2, <1>3, <1>4, <1>5, <1>6

\* What the process starts with after a restart.
LEMMA RestartFacts ==
  ASSUME TypeOK, Restart
  PROVE  /\ \A c \in Conn :
              LET p == IF pc[Reader(c)] = "off" THEN "off" ELSE "done" IN
              /\ pc'[Reader(c)] = p /\ pc'[Writer(c)] = p /\ pc'[Beat(c)] = p
              /\ SendBack'[c] = <<>> /\ ~shut'[c] /\ jsonMessage'[c] = NoMsg
              /\ sock'[c] = IF pc[Reader(c)] = "off" THEN sock[c] ELSE "closed"
         /\ \A t \in Thread : pc'[t] \in {"off", "done"} /\ client'[t] = NoConn
         /\ \A u \in User : Clients'[u] = NoConn
BY ThreadFacts DEF Restart

\* And a restart.
LEMMA TypeRestart ==
  ASSUME TypeOK, Restart
  PROVE  TypeOK'
<1> USE ThreadFacts, ConnAssumption, TypeParts, TypePartsNext, RestartFacts
<1>1. ClientTypeOK'
  <2>1. pc' \in [Thread -> PCs] /\ client' \in [Thread -> Conn \cup {NoConn}]
    BY DEF Restart, PCs
  <2>2. sock' \in [Conn -> {"none", "nil", "open", "gone", "closed"}] /\ shut' \in [Conn -> BOOLEAN]
    BY DEF Restart, ClientTypeOK
  <2>3. SendBack' \in [Conn -> Seq(Entry)] /\ \A c \in Conn : Len(SendBack'[c]) <= ChannelSize
    BY SizeAssumption, EmptySeq DEF Restart
  <2>4. QED
    BY <2>1, <2>2, <2>3 DEF Restart, ClientTypeOK
<1>2. HubTypes' /\ LogTypes' /\ LocalTypes'
  BY RestartAssumption, EmptySeq DEF Restart, LastOffset, HubTypes, LogTypes, LocalTypes, LoopStates, ConsStates
<1>3. QED
  BY <1>1, <1>2

\* Every step keeps the types.
LEMMA TypeStep == TypeOK /\ [Next]_vars => TypeOK'
<1> SUFFICES ASSUME TypeOK, [Next]_vars PROVE TypeOK'
  OBVIOUS
<1>1. CASE Loop \/ Consumer \/ ConsumeFails
  BY <1>1, TypeHub DEF Loop, Consumer
<1>2. CASE Restart
  BY <1>2, TypeRestart
<1>3. ASSUME NEW c \in Conn, NEW t \in {Reader(c), Beat(c)},
             Peer(c) \/ Read(c) \/ Written(c) \/ Heartbeat(c) \/ ClientLogout(t)
      PROVE  TypeOK'
  BY <1>3, TypeShared, TypeHandOver DEF Peer, Read, Written, Heartbeat, ClientLogout
<1>4. CASE UNCHANGED vars
  BY <1>4 DEF vars, clientVars, loopVars, consVars, topicVars, logVars, TypeOK, ClientTypeOK
<1>5. QED
  BY <1>1, <1>2, <1>3, <1>4 DEF Next

\* Every reachable state is well formed, however often the process restarts.
THEOREM TypeCorrect == Spec => []TypeOK
<1>1. QED
  BY TypeInit, TypeStep, PTL DEF Spec

-------------------------------------------------------------------------------
(* The mutex                                                                  *)

\* A step of a thread outside the guarded sections keeps the mutex with its holder.
LEMMA OutsideStep ==
  ASSUME TypeOK, MutexInv, NEW t \in Thread, NEW p,
         pc[t] \notin Critical, p \notin Critical, Goto(t, p), UNCHANGED <<mutex, consAt>>
  PROVE  MutexInv'
<1>1. /\ pc' = [pc EXCEPT ![t] = p] /\ pc \in [Thread -> PCs]
      /\ mutex' = mutex /\ consAt' = consAt
  BY DEF Goto, TypeOK, ClientTypeOK
<1>2. ASSUME NEW s \in Thread
      PROVE  mutex' = s <=> pc'[s] \in Critical
  <2>1. CASE s = t
    BY <1>1, <2>1 DEF MutexInv
  <2>2. CASE s # t
    BY <1>1, <2>2 DEF MutexInv
  <2>3. QED
    BY <2>1, <2>2
<1>3. QED
  BY <1>1, <1>2 DEF MutexInv

\* A step of a connection c keeps the mutex with its holder.
LEMMA MutexConn ==
  ASSUME TypeOK, MutexInv, NEW c \in Conn, Peer(c) \/ Read(c) \/ Written(c) \/ Heartbeat(c)
  PROVE  MutexInv'
<1> USE ThreadFacts
<1>1. CASE (PeerGone(c) \/ Write(c)) /\ Alone
  BY <1>1 DEF PeerGone, Write, Alone, consVars, MutexInv
<1>2. CASE Dial(c) /\ Alone
  BY <1>2, OutsideStep DEF Dial, Alone, consVars, Critical
<1>3. CASE WriteError(c) /\ Alone
  BY <1>3, OutsideStep DEF WriteError, Alone, consVars, Critical
<1>4. CASE WriteEnd(c) /\ Alone
  BY <1>4, OutsideStep DEF WriteEnd, Alone, consVars, Critical
<1>5. CASE HeartBeatDone(c) /\ Alone
  BY <1>5, OutsideStep DEF HeartBeatDone, Alone, consVars, Critical
<1>6. CASE \E m \in Msg : ReadMessage(c, m)
  BY <1>6, OutsideStep DEF ReadMessage, Incoming, consVars, Critical
<1>7. CASE WriteMessages(c)
  BY <1>7, OutsideStep DEF WriteMessages, consVars, Critical
<1>8. CASE LoginLock(c) /\ Alone
  BY <1>8 DEF LoginLock, Alone, consVars, TypeOK, ClientTypeOK, MutexInv, Critical, Goto, Lock
<1>9. CASE LoginSend(c)
  <2> USE DEF TypeOK, ClientTypeOK, MutexInv, Critical
  <2>1. /\ mutex = Free \/ pc[Reader(c)] = "loginSend"
        /\ mutex' = Free /\ consAt' = consAt
    BY <1>9 DEF LoginSend, HandsOver, Started, Unlock, consVars
  <2>2. PICK b \in {"off", "beating"} :
          pc' = [pc EXCEPT ![Reader(c)] = "reading", ![Writer(c)] = "writing", ![Beat(c)] = b]
    BY <1>9 DEF LoginSend, Started
  <2>3. \A s \in Thread : s # Reader(c) => pc[s] \notin Critical
    BY <2>1
  <2>4. ASSUME NEW s \in Thread
        PROVE  pc'[s] \notin Critical
    <3>1. pc'[s] = IF s = Beat(c) THEN b ELSE IF s = Writer(c) THEN "writing"
                   ELSE IF s = Reader(c) THEN "reading" ELSE pc[s]
      BY <2>2
    <3>2. QED
      BY <3>1, <2>3
  <2>5. consAt' \notin {"send", "panicked"} /\ mutex' = Free
    BY <2>1
  <2>6. QED
    BY <2>4, <2>5
<1>10. QED
  BY <1>1, <1>2, <1>3, <1>4, <1>5, <1>6, <1>7, <1>8, <1>9 DEF Peer, Read, Written, Heartbeat

\* So does a step of ClientLogout.
LEMMA MutexLogout ==
  ASSUME TypeOK, MutexInv, NEW t \in Thread, ClientLogout(t)
  PROVE  MutexInv'
<1> USE ThreadFacts DEF TypeOK, ClientTypeOK, MutexInv, Critical, Goto, Lock, Unlock
<1>1. CASE LogoutSend(t)
  BY <1>1 DEF LogoutSend, HandsOver, consVars
<1>2. CASE LogoutPanics(t)
  BY <1>2 DEF LogoutPanics, consVars
<1>3. CASE LogoutLock(t) /\ Alone
  BY <1>3 DEF LogoutLock, Alone, consVars
<1>4. CASE GetClient(t) /\ Alone
  BY <1>4 DEF GetClient, ReadFails, PingFails, Alone, consVars
<1>5. CASE CloseConn(t) /\ Alone
  BY <1>5 DEF CloseConn, Alone, consVars
<1>6. CASE CloseChans(t) /\ Alone
  BY <1>6 DEF CloseChans, Alone, consVars
<1>7. QED
  BY <1>1, <1>2, <1>3, <1>4, <1>5, <1>6 DEF ClientLogout

\* So do the loop, which only waits for the mutex to be free, the consumer and a
\* restart.
LEMMA MutexHub ==
  ASSUME TypeOK, MutexInv, Loop \/ Consumer \/ ConsumeFails \/ Restart
  PROVE  MutexInv'
<1> USE ThreadFacts DEF TypeOK, ClientTypeOK, MutexInv
<1>1. CASE Loop
  BY <1>1 DEF Loop, Register, Unregister, consVars
<1>2. CASE Consume
  BY <1>2 DEF Consume
<1>3. CASE ConsumeFails
  BY <1>3 DEF ConsumeFails, clientVars
<1>4. CASE ConsumerLock
  BY <1>4 DEF ConsumerLock, Lock
<1>5. CASE Send
  BY <1>5 DEF Send
<1>6. CASE SendDone
  BY <1>6 DEF SendDone, Unlock
<1>7. CASE Restart
  BY <1>7, RestartFacts DEF Restart, Critical
<1>8. QED
  BY <1>1, <1>2, <1>3, <1>4, <1>5, <1>6, <1>7 DEF Consumer

\* Two goroutines of the hub compete for the mutex with every connection, and a
\* panic of the consumer leaves it locked: it is held exactly by the thread inside
\* a section it guards, or by the consumer, living or dead.
THEOREM MutexCorrect == Spec => []MutexInv
<1>1. Init => MutexInv
  BY ThreadFacts DEF Init, ClientInit, MutexInv, Critical
<1>2. TypeOK /\ MutexInv /\ [Next]_vars => MutexInv'
  <2> SUFFICES ASSUME TypeOK, MutexInv, [Next]_vars PROVE MutexInv'
    OBVIOUS
  <2>1. CASE Loop \/ Consumer \/ ConsumeFails \/ Restart
    BY <2>1, MutexHub
  <2>2. ASSUME NEW c \in Conn, Peer(c) \/ Read(c) \/ Written(c) \/ Heartbeat(c)
        PROVE  MutexInv'
    BY <2>2, MutexConn
  <2>3. ASSUME NEW c \in Conn, ClientLogout(Reader(c)) \/ ClientLogout(Beat(c))
        PROVE  MutexInv'
    BY <2>3, MutexLogout, ThreadFacts
  <2>4. CASE UNCHANGED vars
    BY <2>4 DEF vars, clientVars, consVars, MutexInv
  <2>5. QED
    BY <2>1, <2>2, <2>3, <2>4 DEF Next
<1>3. QED
  BY <1>1, <1>2, TypeCorrect, PTL DEF Spec

-------------------------------------------------------------------------------
(* The registry                                                               *)

\* A connection that the loop has not registered yet: still with its handler, or
\* taken by the loop.
Starting(c) == pc[Reader(c)] \in {"off", "login", "loginSend"}
Registering(c) == loopAt = "register" /\ loopConn = c
Leaving(c) == loopAt = "unregister" /\ loopConn = c
Closing(t) == pc[t] \in {"closeConn", "closeChans"}

\* It is not registered, nobody logs it out, and its channels are open.
Fresh(c) ==
  /\ Clients[UserOf[c]] # c /\ ~shut[c]
  /\ \A t \in Thread : client[t] # c

\* ShutIsLeaving with what it rests on: a connection is registered once in its life,
\* and a thread that closes it has handed it to the loop before.
RegistryInv ==
  /\ ShutIsLeaving
  /\ \A c \in Conn : Starting(c) => Fresh(c) /\ ~Registering(c)
  /\ \A c \in Conn : Registering(c) => Fresh(c)
  /\ \A u \in User : Clients[u] # NoConn => UserOf[Clients[u]] = u
  /\ \A t \in Thread :
       Closing(t) /\ Clients[UserOf[client[t]]] = client[t] => Leaving(client[t])

\* At the start nothing is registered, and a restart forgets all that was.
LEMMA RegistryInit == (Init => RegistryInv) /\ (TypeOK /\ Restart => RegistryInv')
<1>1. Init => RegistryInv
  BY ConnAssumption, ThreadFacts
     DEF Init, ClientInit, RegistryInv, ShutIsLeaving, Starting, Registering, Leaving, Closing, Fresh
<1>2. ASSUME TypeOK, Restart PROVE RegistryInv'
  <2>1. \A c \in Conn : ~shut'[c] /\ Clients'[UserOf[c]] = NoConn
    BY <1>2, ConnAssumption, RestartFacts
  <2>2. \A t \in Thread : pc'[t] \in {"off", "done"} /\ client'[t] = NoConn
    BY <1>2, RestartFacts
  <2>3. loopAt' = "select" /\ \A u \in User : Clients'[u] = NoConn
    BY <1>2, RestartFacts DEF Restart
  <2>4. QED
    BY <2>1, <2>2, <2>3, ConnAssumption
       DEF RegistryInv, ShutIsLeaving, Starting, Registering, Leaving, Closing, Fresh
<1>3. QED
  BY <1>1, <1>2

\* A step that leaves the registry, the loop, the lookups and the channels alone,
\* and starts neither a connection nor a close, keeps it.
LEMMA RegistryQuiet ==
  ASSUME RegistryInv, UNCHANGED <<Clients, client, shut, loopAt, loopConn>>,
         \A c \in Conn : Starting(c)' => Starting(c),
         \A t \in Thread : Closing(t)' => Closing(t)
  PROVE  RegistryInv'
BY DEF RegistryInv, ShutIsLeaving, Registering, Leaving, Fresh

\* A step of a connection keeps it.
LEMMA RegistryConn ==
  ASSUME TypeOK, RegistryInv, NEW c \in Conn, Peer(c) \/ Read(c) \/ Written(c) \/ Heartbeat(c)
  PROVE  RegistryInv'
<1> USE ThreadFacts DEF TypeOK, ClientTypeOK
<1>1. CASE (PeerGone(c) \/ Write(c)) /\ Alone
  BY <1>1, RegistryQuiet DEF PeerGone, Write, Alone, loopVars, Starting, Closing
<1>2. CASE (Dial(c) \/ LoginLock(c)) /\ Alone
  BY <1>2, RegistryQuiet DEF Dial, LoginLock, Goto, Alone, loopVars, Starting, Closing
<1>3. CASE (WriteError(c) \/ WriteEnd(c) \/ HeartBeatDone(c)) /\ Alone
  BY <1>3, RegistryQuiet DEF WriteError, WriteEnd, HeartBeatDone, Goto, Alone, loopVars, Starting, Closing
<1>4. CASE (\E m \in Msg : ReadMessage(c, m)) \/ WriteMessages(c)
  BY <1>4, RegistryQuiet DEF ReadMessage, Incoming, WriteMessages, Goto, loopVars, Starting, Closing
<1>5. CASE LoginSend(c)
  <2>1. /\ Starting(c) /\ loopAt = "select" /\ loopAt' = "register" /\ loopConn' = c
        /\ UNCHANGED <<Clients, client, shut>>
    BY <1>5 DEF LoginSend, HandsOver, Starting
  <2>2. /\ \A d \in Conn : Starting(d)' => Starting(d) /\ d # c
        /\ \A t \in Thread : Closing(t)' => Closing(t)
    BY <1>5 DEF LoginSend, Started, Starting, Closing
  <2>3. QED
    BY <2>1, <2>2 DEF RegistryInv, ShutIsLeaving, Registering, Leaving, Fresh
<1>6. QED
  BY <1>1, <1>2, <1>3, <1>4, <1>5 DEF Peer, Read, Written, Heartbeat

\* So does a step of ClientLogout.
LEMMA RegistryLogout ==
  ASSUME TypeOK, RegistryInv, NEW t \in Thread, ClientLogout(t), UserOf[t[2]] \in User
  PROVE  RegistryInv'
<1> USE ThreadFacts DEF TypeOK, ClientTypeOK
<1>1. CASE LogoutPanics(t)
  BY <1>1, RegistryQuiet DEF LogoutPanics, loopVars, Starting, Closing
<1>2. CASE LogoutLock(t) /\ Alone
  BY <1>2, RegistryQuiet DEF LogoutLock, Goto, Alone, loopVars, Starting, Closing
<1>3. CASE LogoutSend(t)
  <2>1. /\ loopAt = "select" /\ Leaving(client[t])'
        /\ UNCHANGED <<Clients, client, shut>>
        /\ pc' = [pc EXCEPT ![t] = "closeConn"] /\ pc[t] \in {"logoutLock", "logoutSend"}
    BY <1>3 DEF LogoutSend, HandsOver, Goto, Leaving
  <2>2. /\ \A d \in Conn : Starting(d)' => Starting(d)
        /\ \A s \in Thread : Closing(s)' => Closing(s) \/ s = t
    BY <2>1 DEF Starting, Closing
  <2>3. loopAt' = "unregister"
    BY <2>1 DEF Leaving
  <2>4. QED
    BY <2>1, <2>2, <2>3 DEF RegistryInv, ShutIsLeaving, Registering, Leaving, Fresh
<1>4. CASE GetClient(t) /\ Alone
  <2> DEFINE found == Clients[UserOf[t[2]]]
  <2>1. /\ client' = [client EXCEPT ![t] = found] /\ found \in Conn \cup {NoConn}
        /\ UNCHANGED <<Clients, shut, loopAt, loopConn>>
        /\ \E p \in {"done", "logoutLock"} : pc' = [pc EXCEPT ![t] = p]
        /\ pc[t] \in {"reading", "beating"}
    BY <1>4 DEF GetClient, ReadFails, PingFails, Goto, Alone, loopVars
  <2>2. /\ \A d \in Conn : Starting(d)' => Starting(d)
        /\ \A s \in Thread : Closing(s)' => Closing(s) /\ client'[s] = client[s]
    BY <2>1 DEF Starting, Closing
  <2>3. ASSUME NEW d \in Conn, found = d PROVE ~Fresh(d)
    <3>1. found # NoConn
      BY <2>3, ConnAssumption
    <3>2. UserOf[d] = UserOf[t[2]]
      BY <2>3, <3>1 DEF RegistryInv
    <3>3. QED
      BY <2>3, <3>2 DEF Fresh
  <2>4. \A d \in Conn : Fresh(d) => Fresh(d)'
    <3>1. ASSUME NEW d \in Conn, Fresh(d), NEW s \in Thread
          PROVE  client'[s] # d
      BY <2>1, <2>3, <3>1 DEF Fresh
    <3>2. QED
      BY <2>1, <3>1 DEF Fresh
  <2>5. QED
    BY <2>1, <2>2, <2>4 DEF RegistryInv, ShutIsLeaving, Registering, Leaving
<1>5. CASE CloseConn(t) /\ Alone
  <2>1. /\ UNCHANGED <<Clients, shut, loopAt, loopConn>>
        /\ pc[t] = "closeConn"
        /\ \/ pc' = [pc EXCEPT ![t] = "done"] /\ client' = [client EXCEPT ![t] = NoConn]
           \/ pc' = [pc EXCEPT ![t] = "closeChans"] /\ client' = client
    BY <1>5 DEF CloseConn, Goto, Alone, loopVars
  <2>2. /\ \A d \in Conn : Starting(d)' => Starting(d)
        /\ \A s \in Thread : Closing(s)' => Closing(s) /\ client'[s] = client[s]
        /\ \A s \in Thread : client'[s] \in {client[s], NoConn}
    BY <2>1 DEF Starting, Closing
  <2>3. \A d \in Conn : Fresh(d) => Fresh(d)'
    BY <2>1, <2>2, ConnAssumption DEF Fresh
  <2>4. QED
    BY <2>1, <2>2, <2>3 DEF RegistryInv, ShutIsLeaving, Registering, Leaving
<1>6. CASE CloseChans(t) /\ Alone
  <2>1. /\ UNCHANGED <<Clients, loopAt, loopConn>>
        /\ pc[t] = "closeChans" /\ client[t] \in Conn
        /\ pc' = [pc EXCEPT ![t] = "done"] /\ client' = [client EXCEPT ![t] = NoConn]
        /\ shut' = [shut EXCEPT ![client[t]] = TRUE]
    BY <1>6 DEF CloseChans, Goto, Alone, loopVars
  <2>2. /\ \A d \in Conn : Starting(d)' => Starting(d)
        /\ \A s \in Thread : Closing(s)' => Closing(s) /\ client'[s] = client[s]
        /\ \A s \in Thread : client'[s] \in {client[s], NoConn}
    BY <2>1 DEF Starting, Closing
  <2>3. \A d \in Conn : Fresh(d) => Fresh(d)'
    BY <2>1, <2>2, ConnAssumption DEF Fresh
  <2>4. ShutIsLeaving'
    BY <2>1 DEF RegistryInv, ShutIsLeaving, Closing, Leaving
  <2>5. QED
    BY <2>1, <2>2, <2>3, <2>4 DEF RegistryInv, Registering, Leaving
<1>7. QED
  BY <1>1, <1>2, <1>3, <1>4, <1>5, <1>6 DEF ClientLogout

\* So does the hub.
LEMMA RegistryHub ==
  ASSUME TypeOK, RegistryInv, Loop \/ Consumer \/ ConsumeFails
  PROVE  RegistryInv'
<1> USE ThreadFacts DEF TypeOK, ClientTypeOK
<1>1. CASE Consumer \/ ConsumeFails
  BY <1>1, RegistryQuiet
     DEF Consumer, Consume, ConsumerLock, Send, SendDone, ConsumeFails, clientVars, loopVars, Starting, Closing
<1>2. CASE Register
  <2> DEFINE c == loopConn
  <2>1. /\ c \in Conn /\ Registering(c) /\ UserOf[c] \in User
        /\ Clients' = [Clients EXCEPT ![UserOf[c]] = c]
        /\ loopAt' \in {"done", "select"} /\ UNCHANGED <<pc, client, shut>>
    BY <1>2, ConnAssumption DEF Register, Registering
  <2>2. Fresh(c) /\ ~Starting(c)
    BY <2>1 DEF RegistryInv
  <2>3. \A d \in Conn : Clients'[UserOf[d]] = d => d = c \/ Clients[UserOf[d]] = d
    BY <2>1, ConnAssumption
  <2>4. \A u \in User : Clients'[u] # NoConn => UserOf[Clients'[u]] = u
    BY <2>1 DEF RegistryInv
  <2>5. \A d \in Conn : Starting(d)' => Fresh(d)'
    BY <2>1, <2>2, <2>3 DEF RegistryInv, Starting, Fresh
  <2>6. ShutIsLeaving'
    BY <2>1, <2>2, <2>3 DEF RegistryInv, ShutIsLeaving, Fresh, Registering
  <2>7. \A t \in Thread : Closing(t)' => Clients'[UserOf[client'[t]]] # client'[t]
    BY <2>1, <2>2, <2>3 DEF RegistryInv, Registering, Closing, Leaving, Fresh
  <2>8. QED
    BY <2>1, <2>4, <2>5, <2>6, <2>7 DEF RegistryInv, Registering
<1>3. CASE Unregister
  <2> DEFINE c == loopConn
  <2>1. /\ c \in Conn /\ Leaving(c) /\ UserOf[c] \in User
        /\ Clients' = [Clients EXCEPT ![UserOf[c]] = NoConn]
        /\ loopAt' \in {"done", "select"} /\ UNCHANGED <<pc, client, shut>>
    BY <1>3, ConnAssumption DEF Unregister, Leaving
  <2>2. \A d \in Conn : Clients'[UserOf[d]] = d => Clients[UserOf[d]] = d /\ d # c
    BY <2>1, ConnAssumption
  <2>3. \A u \in User : Clients'[u] \in {Clients[u], NoConn}
    BY <2>1
  <2>4. \A d \in Conn : Starting(d)' => Fresh(d)'
    BY <2>1, <2>2 DEF RegistryInv, Starting, Fresh
  <2>5. ShutIsLeaving'
    BY <2>1, <2>2 DEF RegistryInv, ShutIsLeaving
  <2>6. \A t \in Thread : Closing(t)' => Clients'[UserOf[client'[t]]] # client'[t]
    BY <2>1, <2>2 DEF RegistryInv, Closing, Leaving
  <2>7. QED
    BY <2>1, <2>3, <2>4, <2>5, <2>6 DEF RegistryInv, Registering
<1>4. QED
  BY <1>1, <1>2, <1>3 DEF Loop

\* RegistryInv holds in every reachable state.
LEMMA RegistryCorrect == Spec => []RegistryInv
<1>1. TypeOK /\ RegistryInv /\ [Next]_vars => RegistryInv'
  <2> SUFFICES ASSUME TypeOK, RegistryInv, [Next]_vars PROVE RegistryInv'
    OBVIOUS
  <2>1. CASE Loop \/ Consumer \/ ConsumeFails
    BY <2>1, RegistryHub
  <2>2. CASE Restart
    BY <2>2, RegistryInit
  <2>3. ASSUME NEW c \in Conn, Peer(c) \/ Read(c) \/ Written(c) \/ Heartbeat(c)
        PROVE  RegistryInv'
    BY <2>3, RegistryConn
  <2>4. ASSUME NEW c \in Conn, ClientLogout(Reader(c)) \/ ClientLogout(Beat(c))
        PROVE  RegistryInv'
    BY <2>4, RegistryLogout, ThreadFacts, ConnAssumption
  <2>5. CASE UNCHANGED vars
    BY <2>5, RegistryQuiet DEF vars, clientVars, loopVars, Starting, Closing
  <2>6. QED
    BY <2>1, <2>2, <2>3, <2>4, <2>5 DEF Next
<1>2. QED
  BY <1>1, RegistryInit, TypeCorrect, PTL DEF Spec

\* A channel that a logout has closed is never in the consumer's reach, but for the
\* moment until the loop removes its connection.
THEOREM ShutLeaves == Spec => []ShutIsLeaving
<1>1. RegistryInv => ShutIsLeaving
  BY DEF RegistryInv
<1>2. QED
  BY <1>1, RegistryCorrect, PTL

-------------------------------------------------------------------------------
(* The topic: what has been read, produced, and handled                       *)

\* A message a reader has in hand, or has in the topic, is at one stage of its way
\* to the consumer, and no message passes a stage twice.
LogInv ==
  /\ \A c \in Conn : jsonMessage[c] # NoMsg =>
       /\ pc[Reader(c)] = "produce"
       /\ via[jsonMessage[c]] = c /\ jsonMessage[c] \notin produced
  /\ NoRepeat(Topic)
  /\ \A m \in Msg : InTopic(m) => m \in produced /\ m \notin handled
  /\ handled \subseteq produced
  /\ \A m \in produced : via[m] # NoConn
  /\ restarts = 0 => \A m \in produced : InTopic(m) \/ m \in handled
  /\ \A m \in Msg : rows[m] <= 1 /\ (m \notin handled => rows[m] = 0)

\* A connection's messages are numbered in the order in which it was read, are in
\* the topic in that order, and what is handled is older than what is not.
OrderInv ==
  /\ \A m \in Msg : via[m] # NoConn =>
       /\ Sender[m] = UserOf[via[m]]
       /\ \A n \in Msg : Sender[n] = Sender[m] /\ n < m => via[n] # NoConn
  /\ \A c \in Conn : jsonMessage[c] # NoMsg =>
       \A n \in Msg : via[n] = c => n <= jsonMessage[c]
  /\ \A i, j \in DOMAIN Topic :
       i < j /\ via[Topic[i]] = via[Topic[j]] => Topic[i] < Topic[j]
  /\ \A m, n \in Msg : InTopic(m) /\ n \in handled /\ via[n] = via[m] => n < m

\* A connection has e in its channel, or has been written it.
Shown(c, e) == InChannel(e, SendBack[c]) \/ e \in wire[c]

\* ConnOnce with what it rests on: only handled messages are shown, the one the
\* consumer has in hand not yet to a receiver it has still to serve, and it serves
\* none twice.
DeliverInv ==
  /\ \A c \in Conn : ConnOnce(SendBack[c], wire[c])
  /\ \A c \in Conn, e \in Entry : Shown(c, e) => e.msg \in handled
  /\ consMsg # NoMsg => consMsg \in handled
  /\ consAt \in {"lock", "send"} => ToSelf(consMsg) \/ NoRepeat(consRest)
  /\ consAt \in {"lock", "send"} =>
       \A c \in Conn, e \in Entry : Shown(c, e) /\ e.msg = consMsg =>
         consAt = "send" /\ (ToSelf(consMsg) \/ ~InChannel(UserOf[c], consRest))

\* The log and the messages in hand change when a message is read, produced or
\* consumed, and with a restart.
LEMMA LogSteps ==
  ASSUME TypeOK, [Next]_vars
  PROVE  \/ Restart \/ Consume
         \/ \E c \in Conn : WriteMessages(c) \/ \E m \in Msg : ReadMessage(c, m)
         \/ /\ UNCHANGED <<via, topicVars, logVars>>
            /\ \A c \in Conn : pc[Reader(c)] = "produce" => pc'[Reader(c)] = "produce"
<1> USE ThreadFacts DEF TypeOK, ClientTypeOK
<1>1. CASE Loop \/ ConsumerLock \/ Send \/ SendDone \/ ConsumeFails \/ UNCHANGED vars
  BY <1>1 DEF Loop, Register, Unregister, ConsumerLock, Send, SendDone, ConsumeFails, vars, clientVars
<1>2. ASSUME NEW c \in Conn, NEW t \in {Reader(c), Beat(c)}, ClientLogout(t)
      PROVE  /\ UNCHANGED <<via, topicVars, logVars>>
             /\ \A d \in Conn : pc[Reader(d)] = "produce" => pc'[Reader(d)] = "produce"
  <2>1. /\ UNCHANGED <<via, topicVars, logVars>> /\ pc[t] # "produce"
        /\ pc' = pc \/ \E p : Goto(t, p)
    BY <1>2 DEF ClientLogout, LogoutSend, LogoutPanics, LogoutLock, GetClient, CloseConn, CloseChans,
       HandsOver, ReadFails, PingFails, Alone, logVars
  <2>2. QED
    BY <2>1 DEF Goto
<1>3. ASSUME NEW c \in Conn, Written(c) \/ Heartbeat(c)
      PROVE  /\ UNCHANGED <<via, topicVars, logVars>>
             /\ \A d \in Conn : pc[Reader(d)] = "produce" => pc'[Reader(d)] = "produce"
  BY <1>3 DEF Written, Write, WriteError, WriteEnd, Heartbeat, HeartBeatDone, Goto, Alone
<1>4. ASSUME NEW c \in Conn, Peer(c) \/ Read(c),
             ~WriteMessages(c), ~\E m \in Msg : ReadMessage(c, m)
      PROVE  /\ UNCHANGED <<via, topicVars, logVars>>
             /\ \A d \in Conn : pc[Reader(d)] = "produce" => pc'[Reader(d)] = "produce"
  <2>1. CASE (Dial(c) \/ PeerGone(c) \/ LoginLock(c)) /\ Alone
    BY <2>1 DEF Dial, PeerGone, LoginLock, Goto, Alone
  <2>2. CASE LoginSend(c)
    BY <2>2 DEF LoginSend, HandsOver, Started
  <2>3. QED
    BY <1>4, <2>1, <2>2 DEF Peer, Read
<1>5. QED
  BY <1>1, <1>2, <1>3, <1>4 DEF Next, Consumer

\* Every step keeps LogInv.
LEMMA LogStep ==
  ASSUME TypeOK, TypeOK', LogInv, [Next]_vars
  PROVE  LogInv'
<1> USE ThreadFacts DEF InTopic
<1>1. CASE UNCHANGED <<via, topicVars, logVars>> /\ \A c \in Conn : pc[Reader(c)] = "produce" => pc'[Reader(c)] = "produce"
  BY <1>1 DEF LogInv, topicVars, logVars
<1>2. CASE Restart
  <2>1. /\ Topic' = <<>> /\ restarts' # 0
        /\ UNCHANGED <<via, produced, handled, rows>>
        /\ \A c \in Conn : jsonMessage'[c] = NoMsg
    BY <1>2 DEF Restart, LastOffset, TypeOK
  <2>2. \A i : i \notin DOMAIN Topic'
    BY <2>1
  <2>3. NoRepeat(Topic') /\ \A m : ~InChannel(m, Topic')
    BY <2>2 DEF NoRepeat, InChannel
  <2>4. QED
    BY <2>1, <2>3 DEF LogInv
<1>3. ASSUME NEW c \in Conn, NEW m \in Msg, ReadMessage(c, m)
      PROVE  LogInv'
  <2>1. /\ via[m] = NoConn /\ via' = [via EXCEPT ![m] = c]
        /\ jsonMessage' = [jsonMessage EXCEPT ![c] = m]
        /\ pc' = [pc EXCEPT ![Reader(c)] = "produce"]
        /\ UNCHANGED <<Topic, produced, logVars>>
    BY <1>3 DEF ReadMessage, Incoming, Goto
  <2>2. \A d \in Conn : jsonMessage'[d] # NoMsg =>
          /\ pc'[Reader(d)] = "produce"
          /\ via'[jsonMessage'[d]] = d /\ jsonMessage'[d] \notin produced
    BY <2>1, ConnAssumption DEF LogInv, TypeOK, ClientTypeOK
  <2>3. \A n \in produced : via'[n] # NoConn
    BY <2>1, ConnAssumption DEF LogInv, TypeOK, ClientTypeOK
  <2>4. QED
    BY <2>1, <2>2, <2>3 DEF LogInv, logVars
<1>4. ASSUME NEW c \in Conn, WriteMessages(c)
      PROVE  LogInv'
  <2>1. PICK m \in Msg : m = jsonMessage[c]
    BY <1>4 DEF WriteMessages, TypeOK
  <2>2. /\ \/ Topic' = Append(Topic, m) /\ produced' = produced \cup {m}
           \/ UNCHANGED <<Topic, produced>>
        /\ jsonMessage' = [jsonMessage EXCEPT ![c] = NoMsg]
        /\ pc' = [pc EXCEPT ![Reader(c)] = "reading"]
        /\ UNCHANGED <<via, logVars>>
    BY <1>4, <2>1 DEF WriteMessages, Goto
  <2>3. m # NoMsg /\ via[m] = c /\ m \notin produced /\ m \notin handled /\ ~InChannel(m, Topic)
    BY <2>1, MsgAssumption DEF LogInv, NoMsg
  <2>4. \A d \in Conn : jsonMessage'[d] # NoMsg =>
          /\ pc'[Reader(d)] = "produce"
          /\ via[jsonMessage'[d]] = d /\ jsonMessage'[d] \notin produced /\ jsonMessage'[d] # m
    BY <2>2, <2>3 DEF LogInv, TypeOK, ClientTypeOK
  <2>5. CASE UNCHANGED <<Topic, produced>>
    BY <2>2, <2>4, <2>5 DEF LogInv, logVars
  <2>6. CASE Topic' = Append(Topic, m) /\ produced' = produced \cup {m}
    <3>1. NoRepeat(Topic') /\ \A n : InChannel(n, Topic') <=> InChannel(n, Topic) \/ n = m
      BY <2>3, <2>6, AppendFacts, NoRepeatAppend DEF LogInv, TypeOK
    <3>2. QED
      BY <2>2, <2>3, <2>4, <2>6, <3>1, ConnAssumption DEF LogInv, logVars
  <2>7. QED
    BY <2>2, <2>5, <2>6
<1>5. CASE Consume
  <2>1. PICK m \in Msg : m = Head(Topic)
    BY <1>5, TailFacts DEF Consume, TypeOK
  <2>2. /\ Topic # <<>> /\ Topic' = Tail(Topic) /\ handled' = handled \cup {m}
        /\ rows' = rows \/ rows' = [rows EXCEPT ![m] = @ + 1]
        /\ UNCHANGED <<pc, via, jsonMessage, produced, restarts>>
    BY <1>5, <2>1 DEF Consume
  <2>3. /\ NoRepeat(Topic') /\ ~InChannel(m, Topic') /\ InChannel(m, Topic)
        /\ \A n : InChannel(n, Topic) <=> InChannel(n, Topic') \/ n = m
    BY <2>1, <2>2, TailFacts, NoRepeatTail DEF LogInv, TypeOK
  <2>4. m \in produced /\ m \notin handled /\ rows[m] = 0
    BY <2>3 DEF LogInv
  <2>5. \A n \in Msg : rows'[n] <= 1 /\ (n \notin handled' => rows'[n] = 0)
    <3>1. rows'[m] <= 1
      BY <2>2, <2>4 DEF TypeOK
    <3>2. \A n \in Msg : n # m => rows'[n] = rows[n]
      BY <2>2 DEF TypeOK
    <3>3. QED
      BY <2>2, <3>1, <3>2 DEF LogInv
  <2>6. QED
    BY <2>2, <2>3, <2>4, <2>5 DEF LogInv
<1>6. QED
  BY <1>1, <1>2, <1>3, <1>4, <1>5, LogSteps

\* LogInv holds in every reachable state.
LEMMA LogCorrect == Spec => []LogInv
<1>1. Init => LogInv
  BY DEF Init, ClientInit, LogInv, InTopic, InChannel, NoRepeat
<1>2. TypeOK /\ TypeOK' /\ LogInv /\ [Next]_vars => LogInv'
  BY LogStep
<1>3. QED
  BY <1>1, <1>2, TypeCorrect, PTL DEF Spec

-------------------------------------------------------------------------------
(* Order                                                                      *)

\* Every step keeps OrderInv.
LEMMA OrderStep ==
  ASSUME TypeOK, LogInv, OrderInv, [Next]_vars
  PROVE  OrderInv'
<1> USE DEF InTopic
<1>0. \A m \in Msg : m \in Nat /\ m # NoMsg
  BY MsgAssumption DEF NoMsg
<1>1. CASE UNCHANGED <<via, topicVars, logVars>>
  BY <1>1 DEF OrderInv, topicVars, logVars
<1>2. CASE Restart
  <2>1. /\ Topic' = <<>> /\ UNCHANGED <<via, handled>>
        /\ \A c \in Conn : jsonMessage'[c] = NoMsg
    BY <1>2 DEF Restart, LastOffset
  <2>2. \A i : i \notin DOMAIN Topic'
    BY <2>1
  <2>3. QED
    BY <2>1, <2>2 DEF OrderInv, InChannel
<1>3. ASSUME NEW c \in Conn, NEW m \in Msg, ReadMessage(c, m)
      PROVE  OrderInv'
  <2>1. /\ via[m] = NoConn /\ via' = [via EXCEPT ![m] = c] /\ Sender[m] = UserOf[c]
        /\ \A n \in Msg : Sender[n] = Sender[m] /\ n < m => via[n] # NoConn
        /\ jsonMessage' = [jsonMessage EXCEPT ![c] = m]
        /\ UNCHANGED <<Topic, handled>>
    BY <1>3 DEF ReadMessage, Incoming, logVars
  <2>2. \A n \in Msg : via'[n] = IF n = m THEN c ELSE via[n]
    BY <2>1 DEF TypeOK, ClientTypeOK
  <2>3. m \notin handled /\ ~InChannel(m, Topic)
    BY <2>1 DEF LogInv
  <2>4. \A n \in Msg : via'[n] # NoConn =>
          /\ Sender[n] = UserOf[via'[n]]
          /\ \A k \in Msg : Sender[k] = Sender[n] /\ k < n => via'[k] # NoConn
    <3>1. ASSUME NEW n \in Msg, via'[n] # NoConn, NEW k \in Msg, Sender[k] = Sender[n], k < n
          PROVE  via'[k] # NoConn
      BY <2>1, <2>2, <3>1, ConnAssumption DEF OrderInv
    <3>2. \A n \in Msg : via'[n] # NoConn => Sender[n] = UserOf[via'[n]]
      BY <2>1, <2>2 DEF OrderInv
    <3>3. QED
      BY <3>1, <3>2
  <2>5. \A d \in Conn : jsonMessage'[d] # NoMsg =>
          \A n \in Msg : via'[n] = d => n <= jsonMessage'[d]
    <3>1. ASSUME NEW n \in Msg, via'[n] = c
          PROVE  n <= m
      <4>1. CASE n = m
        BY <1>0, <4>1
      <4>2. CASE n # m
        <5>1. via[n] = c /\ c # NoConn
          BY <2>2, <3>1, <4>2, ConnAssumption
        <5>2. Sender[n] = Sender[m] /\ (m < n => via[m] # NoConn)
          BY <2>1, <5>1 DEF OrderInv
        <5>3. QED
          BY <1>0, <2>1, <5>2
      <4>3. QED
        BY <4>1, <4>2
    <3>2. jsonMessage'[c] = m /\ \A d \in Conn : d # c => jsonMessage'[d] = jsonMessage[d]
      BY <2>1 DEF TypeOK
    <3>3. QED
      BY <2>2, <3>1, <3>2 DEF OrderInv
  <2>6. \A i \in DOMAIN Topic : Topic[i] \in Msg /\ Topic[i] # m
    BY <2>3, LenProperties DEF InChannel, TypeOK
  <2>7. \A i, j \in DOMAIN Topic : i < j /\ via'[Topic[i]] = via'[Topic[j]] => Topic[i] < Topic[j]
    BY <2>2, <2>6 DEF OrderInv
  <2>8. \A k, n \in Msg : InChannel(k, Topic) /\ n \in handled /\ via'[n] = via'[k] => n < k
    BY <2>2, <2>3 DEF OrderInv
  <2>9. QED
    BY <2>1, <2>4, <2>5, <2>7, <2>8 DEF OrderInv
<1>4. ASSUME NEW c \in Conn, WriteMessages(c)
      PROVE  OrderInv'
  <2>1. PICK m \in Msg : m = jsonMessage[c]
    BY <1>4 DEF WriteMessages, TypeOK
  <2>2. /\ Topic' = Append(Topic, m) \/ Topic' = Topic
        /\ jsonMessage' = [jsonMessage EXCEPT ![c] = NoMsg]
        /\ UNCHANGED <<via, handled>>
    BY <1>4, <2>1 DEF WriteMessages, logVars
  <2>3. /\ m # NoMsg /\ via[m] = c /\ ~InChannel(m, Topic) /\ m \notin handled
        /\ \A n \in Msg : via[n] = c => n <= m
    BY <1>0, <2>1 DEF LogInv, OrderInv
  <2>4. \A d \in Conn : jsonMessage'[d] # NoMsg => jsonMessage'[d] = jsonMessage[d]
    BY <2>2 DEF TypeOK
  <2>5. CASE Topic' = Topic
    BY <2>2, <2>4, <2>5 DEF OrderInv
  <2>6. CASE Topic' = Append(Topic, m)
    <3>1. /\ DOMAIN Topic = 1 .. Len(Topic) /\ Len(Topic) \in Nat
          /\ DOMAIN Topic' = 1 .. (Len(Topic) + 1)
          /\ \A i \in 1 .. Len(Topic) : Topic'[i] = Topic[i] /\ Topic[i] \in Msg
          /\ Topic'[Len(Topic) + 1] = m
      BY <2>6, AppendProperties, LenProperties DEF TypeOK
    <3>2. \A i \in 1 .. Len(Topic) : via[Topic[i]] = c => Topic[i] < m
      <4>1. \A i \in 1 .. Len(Topic) : via[Topic[i]] = c => Topic[i] <= m /\ Topic[i] # m
        BY <2>3, <3>1 DEF InChannel
      <4>2. \A i \in 1 .. Len(Topic) : Topic[i] \in Nat
        BY <1>0, <3>1
      <4>3. QED
        BY <1>0, <4>1, <4>2
    <3>3. \A i, j \in DOMAIN Topic' : i < j /\ via[Topic'[i]] = via[Topic'[j]] => Topic'[i] < Topic'[j]
      BY <2>3, <3>1, <3>2 DEF OrderInv
    <3>4. \A n : InChannel(n, Topic') <=> InChannel(n, Topic) \/ n = m
      BY <2>6, AppendFacts DEF TypeOK
    <3>5. \A n \in Msg : n \in handled /\ via[n] = c => n < m
      BY <1>0, <2>3
    <3>6. QED
      BY <2>2, <2>3, <2>4, <3>3, <3>4, <3>5 DEF OrderInv
  <2>7. QED
    BY <2>2, <2>5, <2>6
<1>5. CASE Consume
  <2>1. PICK m \in Msg : m = Head(Topic)
    BY <1>5, TailFacts DEF Consume, TypeOK
  <2>2. /\ Topic # <<>> /\ Topic' = Tail(Topic) /\ handled' = handled \cup {m}
        /\ UNCHANGED <<via, jsonMessage>>
    BY <1>5, <2>1 DEF Consume
  <2>3. /\ Len(Topic) \in Nat /\ Len(Topic) > 0 /\ DOMAIN Topic = 1 .. Len(Topic)
        /\ DOMAIN Topic' = 1 .. (Len(Topic) - 1)
        /\ \A i \in 1 .. (Len(Topic) - 1) : Topic'[i] = Topic[i + 1]
        /\ Topic[1] = m
    BY <2>1, <2>2, HeadTailProperties, EmptySeq, LenProperties DEF TypeOK
  <2>4. \A i, j \in DOMAIN Topic' : i < j /\ via[Topic'[i]] = via[Topic'[j]] => Topic'[i] < Topic'[j]
    <3>1. ASSUME NEW i \in DOMAIN Topic', NEW j \in DOMAIN Topic', i < j, via[Topic'[i]] = via[Topic'[j]]
          PROVE  Topic'[i] < Topic'[j]
      <4>1. /\ i + 1 \in DOMAIN Topic /\ j + 1 \in DOMAIN Topic /\ i + 1 < j + 1
            /\ Topic'[i] = Topic[i + 1] /\ Topic'[j] = Topic[j + 1]
        BY <2>3, <3>1
      <4>2. QED
        BY <3>1, <4>1 DEF OrderInv
    <3>2. QED
      BY <3>1
  <2>5. ASSUME NEW k \in Msg, InChannel(k, Topic'), via[m] = via[k]
        PROVE  m < k
    <3>1. PICK i \in 1 .. (Len(Topic) - 1) : Topic'[i] = k
      BY <2>3, <2>5 DEF InChannel
    <3>2. 1 \in DOMAIN Topic /\ i + 1 \in DOMAIN Topic /\ 1 < i + 1 /\ Topic[i + 1] = k
      BY <2>3, <3>1
    <3>3. QED
      BY <2>3, <2>5, <3>2 DEF OrderInv
  <2>6. \A k \in Msg : InChannel(k, Topic') => InChannel(k, Topic)
    BY <2>2, TailFacts DEF TypeOK
  <2>7. QED
    BY <2>2, <2>4, <2>5, <2>6 DEF OrderInv
<1>6. QED
  BY <1>1, <1>2, <1>3, <1>4, <1>5, LogSteps

\* A message of a connection that waits in the topic or in its reader's hands is
\* newer than every one the consumer has handled, whatever Kafka loses and however
\* often the process restarts.
THEOREM OrderKept == Spec => []InOrder
<1>1. Init => OrderInv
  BY DEF Init, ClientInit, OrderInv, InTopic, InChannel
<1>2. TypeOK /\ LogInv /\ OrderInv /\ [Next]_vars => OrderInv'
  BY OrderStep
<1>3. TypeOK /\ LogInv /\ OrderInv => InOrder
  <2> SUFFICES ASSUME TypeOK, LogInv, OrderInv,
                      NEW m \in Msg, NEW n \in Msg, m < n, via[m] = via[n], n \in handled
               PROVE  ~InTopic(m) /\ jsonMessage[via[m]] # m
    BY DEF InOrder
  <2>1. m \in Nat \ {0} /\ n \in Nat
    BY MsgAssumption
  <2>2. via[m] \in Conn
    BY ConnAssumption DEF LogInv, TypeOK, ClientTypeOK
  <2>3. ~InTopic(m)
    BY <2>1 DEF OrderInv
  <2>4. ASSUME jsonMessage[via[m]] = m PROVE FALSE
    <3>1. n <= m
      BY <2>1, <2>2, <2>4 DEF OrderInv, NoMsg
    <3>2. QED
      BY <2>1, <3>1
  <2>5. QED
    BY <2>3, <2>4
<1>4. QED
  BY <1>1, <1>2, <1>3, TypeCorrect, LogCorrect, PTL DEF Spec

-------------------------------------------------------------------------------
(* Delivery: once                                                             *)

\* What a connection is shown changes when its writer writes, when the consumer
\* sends, and with a restart.
LEMMA ShownSteps ==
  ASSUME [Next]_vars
  PROVE  \/ Restart \/ Consume \/ ConsumeFails \/ ConsumerLock \/ Send \/ SendDone
         \/ UNCHANGED <<consVars, handled>> /\ \E d \in Conn : Write(d) \/ WriteError(d)
         \/ UNCHANGED <<consVars, handled, SendBack, wire>>
<1>1. CASE Loop \/ UNCHANGED vars
  BY <1>1 DEF Loop, Register, Unregister, vars, clientVars, logVars
<1>2. ASSUME NEW c \in Conn, NEW t, ClientLogout(t)
      PROVE  UNCHANGED <<consVars, handled, SendBack, wire>>
  BY <1>2 DEF ClientLogout, LogoutSend, LogoutPanics, LogoutLock, GetClient, CloseConn, CloseChans, Alone, logVars
<1>3. ASSUME NEW c \in Conn, Written(c) \/ Heartbeat(c)
      PROVE  \/ UNCHANGED <<consVars, handled>> /\ \E d \in Conn : Write(d) \/ WriteError(d)
             \/ UNCHANGED <<consVars, handled, SendBack, wire>>
  BY <1>3 DEF Written, WriteEnd, Heartbeat, HeartBeatDone, Alone, logVars
<1>4. ASSUME NEW c \in Conn, Peer(c) \/ Read(c)
      PROVE  UNCHANGED <<consVars, handled, SendBack, wire>>
  BY <1>4 DEF Peer, Dial, PeerGone, ReadMessage, Read, LoginSend, LoginLock, WriteMessages, Alone, logVars
<1>5. QED
  BY <1>1, <1>2, <1>3, <1>4 DEF Next, Consumer

\* A step in which nobody sends shows nothing new, and repeats nothing.
LEMMA WriteShows ==
  ASSUME TypeOK, DeliverInv, NEW c \in Conn,
         (\E d \in Conn : Write(d) \/ WriteError(d)) \/ UNCHANGED <<SendBack, wire>>
  PROVE  /\ ConnOnce(SendBack'[c], wire'[c])
         /\ \A e \in Entry : Shown(c, e)' => Shown(c, e)
<1>1. /\ ConnOnce(SendBack[c], wire[c]) /\ SendBack \in [Conn -> Seq(Entry)]
      /\ wire \in [Conn -> SUBSET Entry]
  BY DEF DeliverInv, TypeOK, ClientTypeOK
<1>2. CASE UNCHANGED <<SendBack, wire>>
  BY <1>1, <1>2 DEF Shown
<1>3. ASSUME NEW d \in Conn, Write(d) \/ WriteError(d)
      PROVE  /\ ConnOnce(SendBack'[c], wire'[c])
             /\ \A e \in Entry : Shown(c, e)' => Shown(c, e)
  <2>1. /\ SendBack[d] # <<>> /\ SendBack' = [SendBack EXCEPT ![d] = Tail(@)]
        /\ \/ wire' = wire
           \/ wire' = [wire EXCEPT ![d] = @ \cup {Head(SendBack[d])}]
    BY <1>1, <1>3 DEF Write, WriteError
  <2>2. CASE c = d
    <3>1. /\ SendBack'[c] = Tail(SendBack[c])
          /\ wire'[c] \in {wire[c], wire[c] \cup {Head(SendBack[c])}}
          /\ SendBack[c] \in Seq(Entry) /\ SendBack[c] # <<>>
      BY <1>1, <2>1, <2>2
    <3>2. ConnOnce(SendBack'[c], wire'[c])
      BY ONLY <1>1, <3>1, OnceTail
    <3>3. \A e : InChannel(e, SendBack[c]) <=> InChannel(e, Tail(SendBack[c])) \/ e = Head(SendBack[c])
      BY ONLY <3>1, TailFacts
    <3>4. QED
      BY <3>1, <3>2, <3>3 DEF Shown
  <2>3. CASE c # d
    BY <1>1, <2>1, <2>3 DEF Shown
  <2>4. QED
    BY <2>2, <2>3
<1>4. QED
  BY <1>2, <1>3

\* What the consumer takes from the topic was shown to nobody, and it is to serve
\* each receiver once.
LEMMA DeliverConsume ==
  ASSUME DistinctMembers, TypeOK, LogInv, DeliverInv, Consume
  PROVE  DeliverInv'
<1>1. PICK m \in Msg : m = Head(Topic)
  BY TailFacts DEF Consume, TypeOK
<1>2. /\ consMsg' = IF Delivers(m) THEN m ELSE NoMsg
      /\ handled' = handled \cup {m}
      /\ consAt' \in {"done", "lock", "read"}
      /\ consAt' = "lock" => Delivers(m)
      /\ consRest' \in ReceiversRead(m)
      /\ UNCHANGED <<SendBack, wire>>
  BY <1>1 DEF Consume
<1>3. m \notin handled
  <2>1. InTopic(m)
    BY <1>1, TailFacts DEF Consume, TypeOK, InTopic
  <2>2. QED
    BY <2>1 DEF LogInv
<1>4. \A r \in ReceiversRead(m) : ToSelf(m) \/ NoRepeat(r)
  <2>1. NoRepeat(<<>>) /\ NoRepeat(<<Target[m]>>)
    BY DEF NoRepeat
  <2>2. ToSelf(m) \/ NoRepeat(<<Target[m], Sender[m]>>)
    BY DEF NoRepeat, ToSelf
  <2>3. InGroup(m) => NoRepeat(Members[Target[m]])
    BY DEF DistinctMembers, InGroup
  <2>4. ToSelf(m) \/ NoRepeat(Receivers(m))
    BY <2>1, <2>2, <2>3 DEF Receivers
  <2>5. QED
    BY <2>1, <2>4 DEF ReceiversRead
<1>5. \A c \in Conn, e \in Entry : Shown(c, e)' => Shown(c, e) /\ e.msg \in handled /\ e.msg # m
  BY <1>2, <1>3 DEF Shown, DeliverInv
<1>6. QED
  BY <1>2, <1>4, <1>5 DEF DeliverInv

\* What it sends to a receiver was not shown to him, and he is not served again.
LEMMA DeliverSend ==
  ASSUME TypeOK, RegistryInv, DeliverInv, Send
  PROVE  DeliverInv'
<1>1. PICK u \in User : u = Head(consRest)
  BY TailFacts DEF Send, TypeOK
<1>2. /\ consAt = "send" /\ consAt' \in {"send", "panicked"} /\ consRest # <<>>
      /\ consMsg \in Msg /\ consMsg \in handled
      /\ consRest' = Tail(consRest) /\ UNCHANGED <<consMsg, wire, handled>>
  BY DEF Send, TypeOK, DeliverInv, logVars
<1>3. \A x : InChannel(x, consRest) <=> InChannel(x, Tail(consRest)) \/ x = u
  BY <1>1, <1>2, TailFacts DEF TypeOK
<1>4. ToSelf(consMsg) \/ (NoRepeat(Tail(consRest)) /\ ~InChannel(u, Tail(consRest)))
  BY <1>1, <1>2, NoRepeatTail DEF DeliverInv, TypeOK
<1>5. CASE SendBack' = SendBack
  BY <1>2, <1>3, <1>4, <1>5 DEF DeliverInv, Shown
<1>6. CASE SendBack' # SendBack
  <2>1. PICK c \in Conn, x \in Entry :
          /\ c = Clients[u] /\ x.msg = consMsg
          /\ SendBack' = [SendBack EXCEPT ![c] = Append(@, x)]
    <3>1. [msg |-> consMsg, code |-> "ok"] \in Entry
      BY <1>2 DEF Entry, Codes
    <3>2. Clients[u] # NoConn /\ SendBack' = [SendBack EXCEPT ![Clients[u]] = Append(@, [msg |-> consMsg, code |-> "ok"])]
      BY <1>1, <1>6 DEF Send
    <3>3. QED
      BY <3>1, <3>2 DEF TypeOK, ClientTypeOK
  <2>2. UserOf[c] = u
    BY <2>1, ConnAssumption DEF RegistryInv
  <2>3. SendBack[c] \in Seq(Entry) /\ \A d \in Conn : SendBack'[d] = IF d = c THEN Append(SendBack[c], x) ELSE SendBack[d]
    BY <2>1 DEF TypeOK, ClientTypeOK
  <2>4. \A d \in Conn, e \in Entry : Shown(d, e)' => Shown(d, e) \/ (d = c /\ e = x)
    <3>1. \A e : InChannel(e, Append(SendBack[c], x)) <=> InChannel(e, SendBack[c]) \/ e = x
      BY ONLY <2>1, <2>3, AppendFacts
    <3>2. QED
      BY <1>2, <2>3, <3>1 DEF Shown
  <2>5. ToSelf(consMsg) \/ ~Shown(c, x)
    BY <1>2, <1>3, <2>1, <2>2 DEF DeliverInv
  <2>6. ConnOnce(Append(SendBack[c], x), wire[c])
    BY <2>1, <2>3, <2>5, OnceAppend DEF Shown, DeliverInv
  <2>7. \A d \in Conn : ConnOnce(SendBack'[d], wire'[d])
    BY <1>2, <2>3, <2>6 DEF DeliverInv
  <2>8. \A d \in Conn, e \in Entry : Shown(d, e)' => e.msg \in handled
    BY <1>2, <2>1, <2>4 DEF DeliverInv
  <2>9. \A d \in Conn, e \in Entry : Shown(d, e)' /\ e.msg = consMsg =>
          ToSelf(consMsg) \/ ~InChannel(UserOf[d], Tail(consRest))
    BY <1>2, <1>3, <1>4, <2>2, <2>4 DEF DeliverInv
  <2>10. QED
    BY <1>2, <1>4, <2>7, <2>8, <2>9 DEF DeliverInv
<1>7. QED
  BY <1>5, <1>6

\* Every step keeps DeliverInv.
LEMMA DeliverStep ==
  ASSUME DistinctMembers, TypeOK, RegistryInv, LogInv, DeliverInv, [Next]_vars
  PROVE  DeliverInv'
<1>1. CASE Consume
  BY <1>1, DeliverConsume
<1>2. CASE Send
  BY <1>2, DeliverSend
<1>3. CASE Restart
  <2>1. /\ UNCHANGED <<wire, handled>> /\ consAt' = "read" /\ consMsg' = NoMsg
        /\ \A c \in Conn : SendBack'[c] = <<>>
    BY <1>3 DEF Restart
  <2>2. ASSUME NEW c \in Conn
        PROVE  /\ ConnOnce(SendBack'[c], wire'[c])
               /\ \A e \in Entry : Shown(c, e)' => Shown(c, e)
    BY <2>1 DEF ConnOnce, InChannel, Shown
  <2>3. QED
    BY <2>1, <2>2 DEF DeliverInv
<1>4. CASE ConsumeFails \/ ConsumerLock \/ SendDone
  <2>1. /\ UNCHANGED <<SendBack, wire, handled, consRest>>
        /\ \/ consAt' \in {"read", "done"} /\ consMsg' \in {consMsg, NoMsg}
           \/ consAt = "lock" /\ consAt' = "send" /\ consMsg' = consMsg
    BY <1>4 DEF ConsumeFails, ConsumerLock, SendDone, clientVars, logVars
  <2>2. \A c \in Conn, e \in Entry : Shown(c, e)' => Shown(c, e)
    BY <2>1 DEF Shown
  <2>3. QED
    BY <2>1, <2>2 DEF DeliverInv
<1>5. CASE /\ UNCHANGED <<consVars, handled>>
           /\ (\E d \in Conn : Write(d) \/ WriteError(d)) \/ UNCHANGED <<SendBack, wire>>
  <2>1. UNCHANGED <<consAt, consMsg, consRest, handled>>
    BY <1>5 DEF consVars
  <2>2. \A c \in Conn : /\ ConnOnce(SendBack'[c], wire'[c])
                       /\ \A e \in Entry : Shown(c, e)' => Shown(c, e)
    BY <1>5, WriteShows
  <2>3. QED
    BY <2>1, <2>2 DEF DeliverInv
<1>6. QED
  BY <1>1, <1>2, <1>3, <1>4, <1>5, ShownSteps

\* With members listed once, no message is stored twice or, unless its user wrote
\* to himself, shown to a connection twice, however often the process restarts in
\* the midst of its delivery; and without a restart every message that Kafka has
\* accepted is handled or still in the topic.
THEOREM HandledAtMostOnce == ASSUME DistinctMembers PROVE Spec => []HandledOnce
<1>1. Init => DeliverInv
  BY DEF Init, ClientInit, DeliverInv, ConnOnce, InChannel, Shown
<1>2. TypeOK /\ RegistryInv /\ LogInv /\ DeliverInv /\ [Next]_vars => DeliverInv'
  BY DeliverStep
<1>3. LogInv /\ DeliverInv => HandledOnce
  BY DEF LogInv, DeliverInv, HandledOnce
<1>4. QED
  BY <1>1, <1>2, <1>3, TypeCorrect, RegistryCorrect, LogCorrect, PTL DEF Spec

===============================================================================
