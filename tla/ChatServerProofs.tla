---------------------------- MODULE ChatServerProofs ----------------------------
(*****************************************************************************)
(* Theorems about ChatServer.tla, for any users, groups, connections,         *)
(* messages, channel sizes, faults and answers of the other services, in four *)
(* parts: types and the mutex; the registry; messages; and that the server    *)
(* implements MessageLifecycle.tla.                                           *)
(*****************************************************************************)
EXTENDS ChatServer, ChatClientProofs

-------------------------------------------------------------------------------
(* Types                                                                      *)

\* Every reachable state is well formed.
LEMMA TypeInit == Init => TypeOK
BY ConnAssumption, SizeAssumption, ThreadFacts, EmptySeq DEF Init, ClientInit, TypeOK, ClientTypeOK, HubTypeOK, ChannelTypeOK, ReadTypeOK, PCs, Critical,
   HubStates, VerdictStates, NoMsg

(* What may happen to the buffers between the hub and the writers             *)

Buffers(sb) == sb \in [Conn -> Seq(Entry)] /\ \A c \in Conn : Len(sb[c]) <= ChannelSize

\* sendMessageToClient keeps the buffers within their capacity.
LEMMA OfferFacts ==
  ASSUME NEW sb, Buffers(sb), NEW c \in Conn \cup {NoConn}, NEW e \in Entry
  PROVE  Buffers(Offer(sb, c, e))
<1>1. CASE c # NoConn /\ HasRoom(sb[c])
  <2>1. c \in Conn /\ sb[c] \in Seq(Entry) /\ Len(sb[c]) < ChannelSize
    BY <1>1 DEF Buffers, HasRoom
  <2>2. Append(sb[c], e) \in Seq(Entry) /\ Len(Append(sb[c], e)) <= ChannelSize
    BY <2>1, AppendFacts, LenProperties, SizeAssumption
  <2>3. QED
    BY <1>1, <2>1, <2>2 DEF Offer, Buffers
<1>2. CASE ~(c # NoConn /\ HasRoom(sb[c]))
  BY <1>2 DEF Offer
<1>3. QED
  BY <1>1, <1>2

-------------------------------------------------------------------------------
\* A step of a connection's peer, reader, writer or heartbeat keeps the types.
LEMMA TypeConn ==
  ASSUME TypeOK, NEW c \in Conn,
         \/ Dial(c) /\ Alone
         \/ PeerGone(c) /\ Alone
         \/ \E m \in Msg : ReadMessage(c, m)
         \/ LoginSend(c)
         \/ LoginLock(c) /\ Alone
         \/ Flush(c)
         \/ Choose(c)
         \/ TransmitLock(c)
         \/ FlushSend(c)
         \/ DirectSend(c)
         \/ Write(c) /\ Alone
         \/ WriteError(c) /\ Alone
         \/ WriteEnd(c) /\ Alone
         \/ HeartBeatDone(c) /\ Alone
  PROVE  TypeOK'
<1> USE ThreadFacts, ConnAssumption, SizeAssumption DEF PCs, Critical, Goto
<1>1. CASE Dial(c) /\ Alone
  <2>1. ClientTypeOK'
    BY <1>1, ClientTypes DEF TypeOK
  <2>2. HubTypeOK'
    BY <1>1 DEF Dial, Alone, hubVars, clientVars, TypeOK, HubTypeOK
  <2>3. ChannelTypeOK'
    BY <1>1 DEF Dial, Alone, channelVars, clientVars, TypeOK, ChannelTypeOK
  <2>4. ReadTypeOK'
    <3>1. /\ pc' = [pc EXCEPT ![Reader(c)] = "login"]
          /\ UNCHANGED <<client, SendTo, jsonMessage, sendToMessage>>
      BY <1>1 DEF Dial, Alone, readVars
    <3>2. QED
      BY <3>1 DEF TypeOK, ClientTypeOK, ReadTypeOK
  <2>5. QED
    BY <2>1, <2>2, <2>3, <2>4 DEF TypeOK
<1>2. CASE PeerGone(c) /\ Alone
  <2>1. ClientTypeOK'
    BY <1>2, ClientTypes DEF TypeOK
  <2>2. HubTypeOK'
    BY <1>2 DEF PeerGone, Alone, hubVars, clientVars, TypeOK, HubTypeOK
  <2>3. ChannelTypeOK'
    BY <1>2 DEF PeerGone, Alone, channelVars, clientVars, TypeOK, ChannelTypeOK
  <2>4. ReadTypeOK'
    BY <1>2 DEF PeerGone, Alone, readVars, clientVars, TypeOK, ClientTypeOK, ReadTypeOK
  <2>5. QED
    BY <2>1, <2>2, <2>3, <2>4 DEF TypeOK
<1>3. CASE \E m \in Msg : ReadMessage(c, m)
  <2>1. ClientTypeOK'
    BY <1>3 DEF ReadMessage, Incoming, TypeOK, ClientTypeOK
  <2>2. HubTypeOK'
    BY <1>3 DEF ReadMessage, Incoming, hubVars, clientVars, TypeOK, HubTypeOK
  <2>3. ChannelTypeOK'
    BY <1>3 DEF ReadMessage, Incoming, channelVars, clientVars, TypeOK, ChannelTypeOK
  <2>4. ReadTypeOK'
    BY <1>3 DEF ReadMessage, Incoming, readVars, clientVars, TypeOK, ClientTypeOK, ReadTypeOK
  <2>5. QED
    BY <2>1, <2>2, <2>3, <2>4 DEF TypeOK
<1>4. CASE LoginSend(c)
  <2>1. ClientTypeOK'
    BY <1>4, AppendFacts DEF LoginSend, MaySend, HasRoom, Started, Unlock, TypeOK, ClientTypeOK
  <2>2. HubTypeOK'
    BY <1>4, AppendFacts DEF LoginSend, MaySend, HasRoom, Started, Unlock, hubVars, clientVars, TypeOK, HubTypeOK
  <2>3. ChannelTypeOK'
    BY <1>4, AppendFacts DEF LoginSend, MaySend, HasRoom, Started, Unlock, channelVars, clientVars, TypeOK, ChannelTypeOK
  <2>4. ReadTypeOK'
    <3>1. /\ UNCHANGED <<readVars, client>> /\ pc \in [Thread -> PCs]
          /\ \A u \in Thread : pc'[u] = pc[u] \/ pc'[u] \in {"reading", "writing", "beating", "off"}
      BY <1>4 DEF LoginSend, MaySend, Started, TypeOK, ClientTypeOK
    <3>2. QED
      BY <3>1 DEF readVars, TypeOK, ReadTypeOK
  <2>5. QED
    BY <2>1, <2>2, <2>3, <2>4 DEF TypeOK
<1>5. CASE LoginLock(c) /\ Alone
  <2>1. ClientTypeOK'
    BY <1>5, ClientTypes DEF TypeOK
  <2>2. HubTypeOK'
    BY <1>5 DEF LoginLock, Alone, Lock, hubVars, clientVars, TypeOK, HubTypeOK
  <2>3. ChannelTypeOK'
    BY <1>5 DEF LoginLock, Alone, Lock, channelVars, clientVars, TypeOK, ChannelTypeOK
  <2>4. ReadTypeOK'
    BY <1>5 DEF LoginLock, Alone, Lock, readVars, clientVars, TypeOK, ClientTypeOK, ReadTypeOK
  <2>5. QED
    BY <2>1, <2>2, <2>3, <2>4 DEF TypeOK
<1>6. CASE Flush(c)
  <2>1. ClientTypeOK'
    <3>1. /\ UNCHANGED <<up, mutex, Clients, client, sock, SendBack, shut, via, status, wire>>
          /\ pc \in [Thread -> PCs]
          /\ \E p \in {"flushLock", "choose"} : pc' = [pc EXCEPT ![Reader(c)] = p]
      BY <1>6 DEF Flush, TypeOK, ClientTypeOK
    <3>2. QED
      BY <3>1 DEF TypeOK, ClientTypeOK
  <2>2. HubTypeOK'
    BY <1>6, TailFacts DEF Flush, Unstash, HasRoom, hubVars, clientVars, TypeOK, HubTypeOK
  <2>3. ChannelTypeOK'
    BY <1>6, TailFacts DEF Flush, Unstash, HasRoom, channelVars, clientVars, TypeOK, ChannelTypeOK
  <2>4. ReadTypeOK'
    <3>1. CASE HasRoom(Transmit) /\ SendTo[c] # <<>>
      <4>1. SendTo[c] \in Seq(Msg) /\ Len(SendTo[c]) <= ChannelSize
        BY DEF TypeOK, ReadTypeOK
      <4>2. /\ Head(SendTo[c]) \in Msg
            /\ Tail(SendTo[c]) \in Seq(Msg) /\ Len(Tail(SendTo[c])) <= ChannelSize
        BY <3>1, <4>1, TailFacts, LenProperties
      <4>3. /\ pc' = [pc EXCEPT ![Reader(c)] = "flushLock"]
            /\ pc[Reader(c)] = "flush"
            /\ SendTo' = [SendTo EXCEPT ![c] = Tail(SendTo[c])]
            /\ sendToMessage' = [sendToMessage EXCEPT ![c] = Head(SendTo[c])]
            /\ UNCHANGED <<client, jsonMessage>>
        BY <1>6, <3>1 DEF Flush, Unstash
      <4>4. QED
        BY <4>2, <4>3 DEF TypeOK, ClientTypeOK, ReadTypeOK
    <3>2. CASE ~(HasRoom(Transmit) /\ SendTo[c] # <<>>)
      BY <1>6, <3>2 DEF Flush, TypeOK, ClientTypeOK, ReadTypeOK
    <3>3. QED
      BY <3>1, <3>2
  <2>5. QED
    BY <2>1, <2>2, <2>3, <2>4 DEF TypeOK
<1>7. CASE Choose(c)
  <2>1. ClientTypeOK'
    BY <1>7, AppendFacts DEF Choose, HasRoom, TypeOK, ClientTypeOK
  <2>2. HubTypeOK'
    BY <1>7, AppendFacts DEF Choose, HasRoom, hubVars, clientVars, TypeOK, HubTypeOK
  <2>3. ChannelTypeOK'
    BY <1>7, AppendFacts DEF Choose, HasRoom, channelVars, clientVars, TypeOK, ChannelTypeOK
  <2>4. ReadTypeOK'
    BY <1>7, AppendFacts DEF Choose, HasRoom, readVars, clientVars, TypeOK, ClientTypeOK, ReadTypeOK
  <2>5. QED
    BY <2>1, <2>2, <2>3, <2>4 DEF TypeOK
<1>8. CASE TransmitLock(c)
  <2>1. ClientTypeOK'
    BY <1>8 DEF TransmitLock, Lock, TypeOK, ClientTypeOK
  <2>2. HubTypeOK'
    BY <1>8 DEF TransmitLock, Lock, hubVars, clientVars, TypeOK, HubTypeOK
  <2>3. ChannelTypeOK'
    BY <1>8 DEF TransmitLock, Lock, channelVars, clientVars, TypeOK, ChannelTypeOK
  <2>4. ReadTypeOK'
    BY <1>8 DEF TransmitLock, Lock, readVars, clientVars, TypeOK, ClientTypeOK, ReadTypeOK
  <2>5. QED
    BY <2>1, <2>2, <2>3, <2>4 DEF TypeOK
<1>9. CASE FlushSend(c)
  <2>1. ClientTypeOK'
    BY <1>9, AppendFacts DEF FlushSend, MaySend, HasRoom, Unlock, TypeOK, ClientTypeOK
  <2>2. HubTypeOK'
    BY <1>9, AppendFacts DEF FlushSend, MaySend, HasRoom, Unlock, hubVars, clientVars, TypeOK, HubTypeOK
  <2>3. ChannelTypeOK'
    BY <1>9, AppendFacts DEF FlushSend, MaySend, HasRoom, Unlock, channelVars, clientVars, TypeOK, ChannelTypeOK, ReadTypeOK
  <2>4. ReadTypeOK'
    BY <1>9, AppendFacts DEF FlushSend, MaySend, HasRoom, Unlock, readVars, clientVars, TypeOK, ClientTypeOK, ReadTypeOK
  <2>5. QED
    BY <2>1, <2>2, <2>3, <2>4 DEF TypeOK
<1>10. CASE DirectSend(c)
  <2>1. ClientTypeOK'
    BY <1>10, AppendFacts DEF DirectSend, MaySend, HasRoom, Unlock, TypeOK, ClientTypeOK
  <2>2. HubTypeOK'
    BY <1>10, AppendFacts DEF DirectSend, MaySend, HasRoom, Unlock, hubVars, clientVars, TypeOK, HubTypeOK
  <2>3. ChannelTypeOK'
    BY <1>10, AppendFacts DEF DirectSend, MaySend, HasRoom, Unlock, channelVars, clientVars, TypeOK, ChannelTypeOK, ReadTypeOK
  <2>4. ReadTypeOK'
    BY <1>10, AppendFacts DEF DirectSend, MaySend, HasRoom, Unlock, readVars, clientVars, TypeOK, ClientTypeOK, ReadTypeOK
  <2>5. QED
    BY <2>1, <2>2, <2>3, <2>4 DEF TypeOK
<1>11. CASE Write(c) /\ Alone
  <2>1. ClientTypeOK'
    BY <1>11, ClientTypes DEF TypeOK
  <2>2. HubTypeOK'
    BY <1>11, TailFacts DEF Write, Alone, Entry, hubVars, clientVars, TypeOK, HubTypeOK
  <2>3. ChannelTypeOK'
    BY <1>11, TailFacts DEF Write, Alone, Entry, channelVars, clientVars, TypeOK, ChannelTypeOK
  <2>4. ReadTypeOK'
    BY <1>11, TailFacts DEF Write, Alone, Entry, readVars, clientVars, TypeOK, ClientTypeOK, ReadTypeOK
  <2>5. QED
    BY <2>1, <2>2, <2>3, <2>4 DEF TypeOK
<1>12. CASE WriteError(c) /\ Alone
  <2>1. ClientTypeOK'
    BY <1>12, ClientTypes DEF TypeOK
  <2>2. HubTypeOK'
    BY <1>12, TailFacts DEF WriteError, Alone, Entry, hubVars, clientVars, TypeOK, HubTypeOK
  <2>3. ChannelTypeOK'
    BY <1>12, TailFacts DEF WriteError, Alone, Entry, channelVars, clientVars, TypeOK, ChannelTypeOK
  <2>4. ReadTypeOK'
    BY <1>12, TailFacts DEF WriteError, Alone, Entry, readVars, clientVars, TypeOK, ClientTypeOK, ReadTypeOK
  <2>5. QED
    BY <2>1, <2>2, <2>3, <2>4 DEF TypeOK
<1>13. CASE WriteEnd(c) /\ Alone
  <2>1. ClientTypeOK'
    BY <1>13, ClientTypes DEF TypeOK
  <2>2. HubTypeOK'
    BY <1>13 DEF WriteEnd, Alone, hubVars, clientVars, TypeOK, HubTypeOK
  <2>3. ChannelTypeOK'
    BY <1>13 DEF WriteEnd, Alone, channelVars, clientVars, TypeOK, ChannelTypeOK
  <2>4. ReadTypeOK'
    BY <1>13 DEF WriteEnd, Alone, readVars, clientVars, TypeOK, ClientTypeOK, ReadTypeOK
  <2>5. QED
    BY <2>1, <2>2, <2>3, <2>4 DEF TypeOK
<1>14. CASE HeartBeatDone(c) /\ Alone
  <2>1. ClientTypeOK'
    BY <1>14, ClientTypes DEF TypeOK
  <2>2. HubTypeOK'
    BY <1>14 DEF HeartBeatDone, Alone, hubVars, clientVars, TypeOK, HubTypeOK
  <2>3. ChannelTypeOK'
    BY <1>14 DEF HeartBeatDone, Alone, channelVars, clientVars, TypeOK, ChannelTypeOK
  <2>4. ReadTypeOK'
    BY <1>14 DEF HeartBeatDone, Alone, readVars, clientVars, TypeOK, ClientTypeOK, ReadTypeOK
  <2>5. QED
    BY <2>1, <2>2, <2>3, <2>4 DEF TypeOK
<1>15. QED
  BY <1>1, <1>2, <1>3, <1>4, <1>5, <1>6, <1>7, <1>8, <1>9, <1>10, <1>11, <1>12, <1>13, <1>14

\* A step of ClientLogout keeps the types.
LEMMA TypeLogout ==
  ASSUME TypeOK, NEW t \in Thread, NEW c \in Conn, t \in {Reader(c), Beat(c)},
         \/ LogoutSend(t)
         \/ LogoutLock(t) /\ Alone
         \/ GetClient(t) /\ Alone
         \/ CloseConn(t) /\ Alone
         \/ CloseChans(t) /\ Alone
  PROVE  TypeOK'
<1> USE ThreadFacts, ConnAssumption, SizeAssumption DEF PCs, Critical, Goto
<1>1. CASE LogoutSend(t)
  <2>1. ClientTypeOK'
    BY <1>1, AppendFacts DEF LogoutSend, MaySend, HasRoom, Unlock, TypeOK, ClientTypeOK
  <2>2. HubTypeOK'
    BY <1>1, AppendFacts DEF LogoutSend, MaySend, HasRoom, Unlock, hubVars, clientVars, TypeOK, HubTypeOK
  <2>3. ChannelTypeOK'
    BY <1>1, AppendFacts DEF LogoutSend, MaySend, HasRoom, Unlock, channelVars, clientVars, TypeOK, ChannelTypeOK, ReadTypeOK
  <2>4. ReadTypeOK'
    BY <1>1, AppendFacts DEF LogoutSend, MaySend, HasRoom, Unlock, readVars, clientVars, TypeOK, ClientTypeOK, ReadTypeOK
  <2>5. QED
    BY <2>1, <2>2, <2>3, <2>4 DEF TypeOK
<1>2. CASE LogoutLock(t) /\ Alone
  <2>1. ClientTypeOK'
    BY <1>2, ClientTypes DEF TypeOK
  <2>2. HubTypeOK'
    BY <1>2 DEF LogoutLock, Alone, Lock, hubVars, clientVars, TypeOK, HubTypeOK
  <2>3. ChannelTypeOK'
    BY <1>2 DEF LogoutLock, Alone, Lock, channelVars, clientVars, TypeOK, ChannelTypeOK
  <2>4. ReadTypeOK'
    BY <1>2 DEF LogoutLock, Alone, Lock, readVars, clientVars, TypeOK, ClientTypeOK, ReadTypeOK
  <2>5. QED
    BY <2>1, <2>2, <2>3, <2>4 DEF TypeOK
<1>3. CASE GetClient(t) /\ Alone
  <2>1. ClientTypeOK'
    BY <1>3, ClientTypes DEF TypeOK
  <2>2. HubTypeOK'
    BY <1>3 DEF GetClient, Alone, ReadFails, PingFails, hubVars, clientVars, TypeOK, HubTypeOK
  <2>3. ChannelTypeOK'
    BY <1>3 DEF GetClient, Alone, ReadFails, PingFails, channelVars, clientVars, TypeOK, ChannelTypeOK
  <2>4. ReadTypeOK'
    BY <1>3 DEF GetClient, Alone, ReadFails, PingFails, readVars, clientVars, TypeOK, ClientTypeOK, ReadTypeOK
  <2>5. QED
    BY <2>1, <2>2, <2>3, <2>4 DEF TypeOK
<1>4. CASE CloseConn(t) /\ Alone
  <2>1. ClientTypeOK'
    BY <1>4, ClientTypes DEF TypeOK
  <2>2. HubTypeOK'
    BY <1>4 DEF CloseConn, Alone, CloseErr, hubVars, clientVars, TypeOK, HubTypeOK
  <2>3. ChannelTypeOK'
    BY <1>4 DEF CloseConn, Alone, CloseErr, channelVars, clientVars, TypeOK, ChannelTypeOK
  <2>4. ReadTypeOK'
    BY <1>4 DEF CloseConn, Alone, CloseErr, readVars, clientVars, TypeOK, ClientTypeOK, ReadTypeOK
  <2>5. QED
    BY <2>1, <2>2, <2>3, <2>4 DEF TypeOK
<1>5. CASE CloseChans(t) /\ Alone
  <2>1. ClientTypeOK'
    BY <1>5, ClientTypes DEF TypeOK
  <2>2. HubTypeOK'
    BY <1>5 DEF CloseChans, Alone, hubVars, clientVars, TypeOK, HubTypeOK
  <2>3. ChannelTypeOK'
    BY <1>5 DEF CloseChans, Alone, channelVars, clientVars, TypeOK, ChannelTypeOK
  <2>4. ReadTypeOK'
    BY <1>5 DEF CloseChans, Alone, readVars, clientVars, TypeOK, ClientTypeOK, ReadTypeOK
  <2>5. QED
    BY <2>1, <2>2, <2>3, <2>4 DEF TypeOK
<1>6. QED
  BY <1>1, <1>2, <1>3, <1>4, <1>5

\* A step of the hub keeps the types.
LEMMA TypeHub ==
  ASSUME TypeOK,
         \/ TakeLogin
         \/ Register
         \/ TakeLogout
         \/ Unregister
         \/ TakeTransmit
         \/ Validate
         \/ Reject
         \/ Deliver
         \/ FanLock
         \/ FanSend
         \/ FanDone
  PROVE  TypeOK'
<1> USE ThreadFacts, ConnAssumption, SizeAssumption DEF PCs, Critical, HubStates, VerdictStates, NoMsg, Codes
<1>1. CASE TakeLogin
  <2>1. ClientTypeOK'
    BY <1>1, TailFacts DEF TakeLogin, TypeOK, ClientTypeOK, clientVars
  <2>2. HubTypeOK'
    BY <1>1, TailFacts DEF TakeLogin, hubVars, clientVars, TypeOK, HubTypeOK, ChannelTypeOK
  <2>3. ChannelTypeOK'
    BY <1>1, TailFacts DEF TakeLogin, channelVars, clientVars, TypeOK, ChannelTypeOK
  <2>4. ReadTypeOK'
    BY <1>1, TailFacts DEF TakeLogin, readVars, clientVars, TypeOK, ClientTypeOK, ReadTypeOK
  <2>5. QED
    BY <2>1, <2>2, <2>3, <2>4 DEF TypeOK
<1>2. CASE Register
  <2>1. ClientTypeOK'
    BY <1>2 DEF Register, TypeOK, ClientTypeOK, HubTypeOK
  <2>2. HubTypeOK'
    BY <1>2 DEF Register, hubVars, clientVars, TypeOK, HubTypeOK
  <2>3. ChannelTypeOK'
    BY <1>2 DEF Register, channelVars, clientVars, TypeOK, ChannelTypeOK
  <2>4. ReadTypeOK'
    BY <1>2 DEF Register, readVars, clientVars, TypeOK, ClientTypeOK, ReadTypeOK
  <2>5. QED
    BY <2>1, <2>2, <2>3, <2>4 DEF TypeOK
<1>3. CASE TakeLogout
  <2>1. ClientTypeOK'
    BY <1>3, TailFacts DEF TakeLogout, TypeOK, ClientTypeOK, clientVars
  <2>2. HubTypeOK'
    BY <1>3, TailFacts DEF TakeLogout, hubVars, clientVars, TypeOK, HubTypeOK, ChannelTypeOK
  <2>3. ChannelTypeOK'
    BY <1>3, TailFacts DEF TakeLogout, channelVars, clientVars, TypeOK, ChannelTypeOK
  <2>4. ReadTypeOK'
    BY <1>3, TailFacts DEF TakeLogout, readVars, clientVars, TypeOK, ClientTypeOK, ReadTypeOK
  <2>5. QED
    BY <2>1, <2>2, <2>3, <2>4 DEF TypeOK
<1>4. CASE Unregister
  <2>1. ClientTypeOK'
    BY <1>4 DEF Unregister, Delete, TypeOK, ClientTypeOK
  <2>2. HubTypeOK'
    BY <1>4 DEF Unregister, Delete, hubVars, clientVars, TypeOK, HubTypeOK
  <2>3. ChannelTypeOK'
    BY <1>4 DEF Unregister, Delete, channelVars, clientVars, TypeOK, ChannelTypeOK
  <2>4. ReadTypeOK'
    BY <1>4 DEF Unregister, Delete, readVars, clientVars, TypeOK, ClientTypeOK, ReadTypeOK
  <2>5. QED
    BY <2>1, <2>2, <2>3, <2>4 DEF TypeOK
<1>5. CASE TakeTransmit
  <2>1. ClientTypeOK'
    <3>1. Head(Transmit) \in Msg
      BY <1>5, TailFacts DEF TakeTransmit, TypeOK, ChannelTypeOK
    <3>2. status' \in [Msg -> {"absent", "unsent", "sent"}]
      BY <1>5, <3>1 DEF TakeTransmit, Store, TypeOK, ClientTypeOK
    <3>3. up' \in BOOLEAN /\ UNCHANGED <<mutex, Clients, pc, client, sock, SendBack, shut, via, wire>>
      BY <1>5 DEF TakeTransmit
    <3>4. QED
      BY <3>2, <3>3 DEF TypeOK, ClientTypeOK
  <2>2. HubTypeOK'
    <3> DEFINE m == Head(Transmit)
    <3>1. m \in Msg
      BY <1>5, TailFacts DEF TakeTransmit, TypeOK, ChannelTypeOK
    <3>2. Route(m) \in {"lock", "validate", "select"}
      BY DEF Route
    <3>3. Route(m) = "validate" => ~InGroup(m)
      BY DEF Route
    <3>4. Route(m) = "lock" => Members[Target[m]] \in Seq(User)
      BY <3>1, GroupAssumption DEF Route, InGroup
    <3>5. hubRest' \in Seq(User)
      BY <1>5, <3>4, EmptySeq DEF TakeTransmit, Load
    <3>6. /\ hubAt' = Route(m)
          /\ hubMsg' = IF Route(m) = "select" THEN NoMsg ELSE m
          /\ verdict' = [verdict EXCEPT ![m] = "taken"]
          /\ hubConn' = hubConn
      BY <1>5 DEF TakeTransmit
    <3>7. InGroup(hubMsg)' <=> InGroup(hubMsg')
      BY DEF InGroup
    <3> HIDE DEF m
    <3>8. QED
      BY <3>1, <3>2, <3>3, <3>5, <3>6, <3>7 DEF TypeOK, HubTypeOK
  <2>3. ChannelTypeOK'
    BY <1>5, TailFacts, GroupAssumption, MsgAssumption DEF TakeTransmit, Route, Store, Load, InGroup, channelVars, clientVars, TypeOK, ChannelTypeOK
  <2>4. ReadTypeOK'
    BY <1>5, TailFacts, GroupAssumption, MsgAssumption DEF TakeTransmit, Route, Store, Load, InGroup, readVars, clientVars, TypeOK, ClientTypeOK, ReadTypeOK
  <2>5. QED
    BY <2>1, <2>2, <2>3, <2>4 DEF TypeOK
<1>6. CASE Validate
  <2>1. ClientTypeOK'
    BY <1>6, VerdictAssumption, MsgAssumption DEF Validate, AfterAnswer, InGroup, VerdictSet, TypeOK, ClientTypeOK
  <2>2. HubTypeOK'
    <3>1. hubMsg \in Msg /\ ~InGroup(hubMsg) /\ Target[hubMsg] \in User
      BY <1>6, MsgAssumption DEF Validate, TypeOK, HubTypeOK, InGroup
    <3>2. <<Target[hubMsg]>> \in Seq(User)
      BY <3>1
    <3>3. PICK v \in Verdicts :
            /\ verdict' = [verdict EXCEPT ![hubMsg] = IF v = "noReply" THEN @ ELSE v]
            /\ hubAt' = AfterAnswer(v)
      BY <1>6 DEF Validate
    <3>4. /\ v \in {"ok", "notFriend", "serverError", "noReply"}
          /\ hubAt' \in {"reject", "deliver", "lock"}
          /\ hubAt' = "reject" => v \in {"notFriend", "serverError"}
      BY <3>3, VerdictAssumption DEF AfterAnswer, VerdictSet
    <3>5. verdict' \in [Msg -> VerdictStates]
      BY <3>1, <3>3, <3>4 DEF TypeOK, HubTypeOK
    <3>6. hubAt' = "reject" => verdict'[hubMsg] \in Codes
      BY <3>1, <3>3, <3>4 DEF TypeOK, HubTypeOK
    <3>7. hubRest' = <<Target[hubMsg]>> /\ hubConn' = hubConn /\ hubMsg' = hubMsg
      BY <1>6 DEF Validate
    <3>8. QED
      BY <3>1, <3>2, <3>4, <3>5, <3>6, <3>7 DEF TypeOK, HubTypeOK, InGroup
  <2>3. ChannelTypeOK'
    BY <1>6, VerdictAssumption, MsgAssumption DEF Validate, AfterAnswer, InGroup, VerdictSet, channelVars, clientVars, TypeOK, ChannelTypeOK
  <2>4. ReadTypeOK'
    BY <1>6, VerdictAssumption, MsgAssumption DEF Validate, AfterAnswer, InGroup, VerdictSet, readVars, clientVars, TypeOK, ClientTypeOK, ReadTypeOK
  <2>5. QED
    BY <2>1, <2>2, <2>3, <2>4 DEF TypeOK
<1>7. CASE Reject
  <2>1. ClientTypeOK'
    <3> DEFINE e == [msg |-> hubMsg, code |-> verdict[hubMsg]]
    <3>1. e \in Entry /\ Sender[hubMsg] \in User
      BY <1>7, MsgAssumption DEF Reject, TypeOK, HubTypeOK, Entry
    <3>2. Clients[Sender[hubMsg]] \in Conn \cup {NoConn}
      BY <3>1 DEF TypeOK, ClientTypeOK
    <3>3. Buffers(SendBack)
      BY DEF TypeOK, ClientTypeOK, Buffers
    <3>4. Buffers(Offer(SendBack, Clients[Sender[hubMsg]], e))
      BY <3>1, <3>2, <3>3, OfferFacts
    <3>5. /\ up' \in BOOLEAN
          /\ SendBack' = SendBack \/ SendBack' = Offer(SendBack, Clients[Sender[hubMsg]], e)
          /\ UNCHANGED <<mutex, Clients, pc, client, sock, shut, via, status, wire>>
      BY <1>7 DEF Reject, TypeOK, ClientTypeOK
    <3>6. QED
      BY <3>3, <3>4, <3>5 DEF TypeOK, ClientTypeOK, Buffers
  <2>2. HubTypeOK'
    BY <1>7, AppendFacts DEF Reject, Offer, HasRoom, Entry, Closed, InGroup, hubVars, clientVars, TypeOK, HubTypeOK
  <2>3. ChannelTypeOK'
    BY <1>7, AppendFacts DEF Reject, Offer, HasRoom, Entry, Closed, InGroup, channelVars, clientVars, TypeOK, ChannelTypeOK
  <2>4. ReadTypeOK'
    BY <1>7, AppendFacts DEF Reject, Offer, HasRoom, Entry, Closed, InGroup, readVars, clientVars, TypeOK, ClientTypeOK, ReadTypeOK
  <2>5. QED
    BY <2>1, <2>2, <2>3, <2>4 DEF TypeOK
<1>8. CASE Deliver
  <2>1. ClientTypeOK'
    <3> DEFINE e == [msg |-> hubMsg, code |-> "ok"]
               r == Clients[Target[hubMsg]]
               s == Clients[Sender[hubMsg]]
    <3>1. e \in Entry /\ Sender[hubMsg] \in User /\ Target[hubMsg] \in User
      BY <1>8, MsgAssumption DEF Deliver, TypeOK, HubTypeOK, Entry, InGroup
    <3>2. r \in Conn \cup {NoConn} /\ s \in Conn \cup {NoConn}
      BY <3>1 DEF TypeOK, ClientTypeOK
    <3>3. Buffers(SendBack)
      BY DEF TypeOK, ClientTypeOK, Buffers
    <3>4. Buffers(Offer(Offer(SendBack, r, e), s, e))
      BY <3>1, <3>2, <3>3, OfferFacts
    <3>5. /\ up' \in BOOLEAN
          /\ SendBack' = SendBack \/ SendBack' = Offer(Offer(SendBack, r, e), s, e)
          /\ UNCHANGED <<mutex, Clients, pc, client, sock, shut, via, status, wire>>
      BY <1>8 DEF Deliver, TypeOK, ClientTypeOK
    <3>6. QED
      BY <3>3, <3>4, <3>5 DEF TypeOK, ClientTypeOK, Buffers
  <2>2. HubTypeOK'
    <3>1. /\ hubAt' = "select" /\ hubMsg' = NoMsg /\ hubRest' = <<>>
          /\ UNCHANGED <<hubConn, verdict>>
      BY <1>8 DEF Deliver
    <3>2. QED
      BY <3>1, EmptySeq DEF TypeOK, HubTypeOK
  <2>3. ChannelTypeOK'
    BY <1>8, AppendFacts DEF Deliver, Offer, HasRoom, Entry, Closed, InGroup, channelVars, clientVars, TypeOK, ChannelTypeOK
  <2>4. ReadTypeOK'
    BY <1>8, AppendFacts DEF Deliver, Offer, HasRoom, Entry, Closed, InGroup, readVars, clientVars, TypeOK, ClientTypeOK, ReadTypeOK
  <2>5. QED
    BY <2>1, <2>2, <2>3, <2>4 DEF TypeOK
<1>9. CASE FanLock
  <2>1. ClientTypeOK'
    BY <1>9 DEF FanLock, Lock, TypeOK, ClientTypeOK
  <2>2. HubTypeOK'
    BY <1>9 DEF FanLock, Lock, hubVars, clientVars, TypeOK, HubTypeOK
  <2>3. ChannelTypeOK'
    BY <1>9 DEF FanLock, Lock, channelVars, clientVars, TypeOK, ChannelTypeOK
  <2>4. ReadTypeOK'
    BY <1>9 DEF FanLock, Lock, readVars, clientVars, TypeOK, ClientTypeOK, ReadTypeOK
  <2>5. QED
    BY <2>1, <2>2, <2>3, <2>4 DEF TypeOK
<1>10. CASE FanSend
  <2>1. ClientTypeOK'
    <3> DEFINE e == [msg |-> hubMsg, code |-> "ok"]
               c == Clients[Head(hubRest)]
    <3>1. e \in Entry /\ Head(hubRest) \in User
      BY <1>10, TailFacts DEF FanSend, TypeOK, HubTypeOK, Entry
    <3>2. c \in Conn \cup {NoConn}
      BY <3>1 DEF TypeOK, ClientTypeOK
    <3>3. /\ up' \in BOOLEAN
          /\ UNCHANGED <<mutex, Clients, pc, client, sock, shut, via, status, wire>>
      BY <1>10 DEF FanSend, TypeOK, ClientTypeOK
    <3>4. \/ SendBack' = SendBack
          \/ c # NoConn /\ HasRoom(SendBack[c]) /\ SendBack' = [SendBack EXCEPT ![c] = Append(SendBack[c], e)]
      BY <1>10 DEF FanSend
    <3>5. Buffers(SendBack)
      BY DEF TypeOK, ClientTypeOK, Buffers
    <3>6. Buffers(Offer(SendBack, c, e))
      BY <3>1, <3>2, <3>5, OfferFacts
    <3>7. SendBack' = SendBack \/ SendBack' = Offer(SendBack, c, e)
      BY <3>4 DEF Offer
    <3>8. QED
      BY <3>3, <3>5, <3>6, <3>7 DEF TypeOK, ClientTypeOK, Buffers
  <2>2. HubTypeOK'
    BY <1>10, AppendFacts, TailFacts DEF FanSend, HasRoom, Entry, Closed, hubVars, clientVars, TypeOK, HubTypeOK
  <2>3. ChannelTypeOK'
    BY <1>10, AppendFacts, TailFacts DEF FanSend, HasRoom, Entry, Closed, channelVars, clientVars, TypeOK, ChannelTypeOK
  <2>4. ReadTypeOK'
    BY <1>10, AppendFacts, TailFacts DEF FanSend, HasRoom, Entry, Closed, readVars, clientVars, TypeOK, ClientTypeOK, ReadTypeOK
  <2>5. QED
    BY <2>1, <2>2, <2>3, <2>4 DEF TypeOK
<1>11. CASE FanDone
  <2>1. ClientTypeOK'
    BY <1>11 DEF FanDone, Unlock, TypeOK, ClientTypeOK
  <2>2. HubTypeOK'
    BY <1>11 DEF FanDone, Unlock, hubVars, clientVars, TypeOK, HubTypeOK
  <2>3. ChannelTypeOK'
    BY <1>11 DEF FanDone, Unlock, channelVars, clientVars, TypeOK, ChannelTypeOK
  <2>4. ReadTypeOK'
    BY <1>11 DEF FanDone, Unlock, readVars, clientVars, TypeOK, ClientTypeOK, ReadTypeOK
  <2>5. QED
    BY <2>1, <2>2, <2>3, <2>4 DEF TypeOK
<1>12. QED
  BY <1>1, <1>2, <1>3, <1>4, <1>5, <1>6, <1>7, <1>8, <1>9, <1>10, <1>11

\* Every step keeps the types.
LEMMA TypeStep == TypeOK /\ [Next]_vars => TypeOK'
<1> SUFFICES ASSUME TypeOK, [Next]_vars PROVE TypeOK'
  OBVIOUS
<1>1. CASE Start
  BY <1>1, TypeHub DEF Start
<1>2. ASSUME NEW c \in Conn, Peer(c) \/ Read(c) \/ Written(c) \/ Heartbeat(c)
      PROVE  TypeOK'
  BY <1>2, TypeConn DEF Peer, Read, Written, Heartbeat
<1>3. ASSUME NEW c \in Conn, ClientLogout(Reader(c)) \/ ClientLogout(Beat(c))
      PROVE  TypeOK'
  <2>1. Reader(c) \in Thread /\ Beat(c) \in Thread
    BY ThreadFacts
  <2>2. QED
    BY <1>3, <2>1, TypeLogout DEF ClientLogout
<1>4. CASE UNCHANGED vars
  BY <1>4 DEF vars, clientVars, channelVars, hubVars, readVars, TypeOK, ClientTypeOK, HubTypeOK, ChannelTypeOK, ReadTypeOK
<1>5. QED
  BY <1>1, <1>2, <1>3, <1>4 DEF Next

\* Every reachable state is well formed: no channel holds more than its capacity
\* and no goroutine uses a local variable it has not set.
THEOREM TypeCorrect == Spec => []TypeOK
<1>1. QED
  BY TypeInit, TypeStep, PTL DEF Spec

-------------------------------------------------------------------------------
(* Mutual exclusion                                                           *)

\* A thread that moves between program points outside the critical sections does
\* not disturb the mutex.
LEMMA OutsideStep ==
  ASSUME TypeOK, MutexInv, NEW t \in Thread, NEW p,
         pc[t] \notin Critical, p \notin Critical, Goto(t, p), UNCHANGED <<mutex, hubAt>>
  PROVE  MutexInv'
<1>1. /\ pc' = [pc EXCEPT ![t] = p] /\ pc \in [Thread -> PCs]
      /\ mutex' = mutex /\ hubAt' = hubAt
  BY DEF Goto, TypeOK, ClientTypeOK
<1>2. ASSUME NEW s \in Thread
      PROVE  mutex' = s <=> pc'[s] \in Critical
  <2>1. CASE s = t
    BY <1>1, <2>1 DEF MutexInv
  <2>2. CASE s # t
    BY <1>1, <2>2 DEF MutexInv
  <2>3. QED
    BY <2>1, <2>2
<1>3. QED
  BY <1>1, <1>2 DEF MutexInv

\* A step of a connection c keeps the mutex with its holder.
LEMMA MutexConn ==
  ASSUME TypeOK, MutexInv, NEW c \in Conn, Peer(c) \/ Read(c) \/ Written(c) \/ Heartbeat(c)
  PROVE  MutexInv'
<1> USE ThreadFacts
<1>1. CASE (PeerGone(c) \/ Write(c)) /\ Alone
  BY <1>1 DEF PeerGone, Write, Alone, hubVars, MutexInv
<1>2. CASE (Dial(c) \/ WriteError(c) \/ WriteEnd(c) \/ HeartBeatDone(c)) /\ Alone
  <2>1. CASE Dial(c) /\ Alone
    BY <2>1, OutsideStep DEF Dial, Alone, hubVars, Critical
  <2>2. CASE WriteError(c) /\ Alone
    BY <2>2, OutsideStep DEF WriteError, Alone, hubVars, Critical
  <2>3. CASE WriteEnd(c) /\ Alone
    BY <2>3, OutsideStep DEF WriteEnd, Alone, hubVars, Critical
  <2>4. CASE HeartBeatDone(c) /\ Alone
    BY <2>4, OutsideStep DEF HeartBeatDone, Alone, hubVars, Critical
  <2>5. QED
    BY <1>2, <2>1, <2>2, <2>3, <2>4
<1>7. CASE (\E m \in Msg : ReadMessage(c, m)) \/ Flush(c) \/ Choose(c)
  <2>1. /\ pc[Reader(c)] \in {"reading", "flush", "choose"}
        /\ \E p \in {"flush", "choose", "flushLock", "directLock", "reading"} : Goto(Reader(c), p)
        /\ UNCHANGED <<mutex, hubAt>>
    BY <1>7 DEF ReadMessage, Incoming, Flush, Choose, hubVars
  <2>2. QED
    BY <2>1, OutsideStep DEF Critical
<1> USE DEF TypeOK, ClientTypeOK, MutexInv, Critical, Goto, Lock, Unlock
<1>3. CASE LoginLock(c) /\ Alone
  BY <1>3 DEF LoginLock, Alone, hubVars
<1>4. CASE TransmitLock(c)
  BY <1>4 DEF TransmitLock, hubVars
<1>5. CASE LoginSend(c)
  <2>1. /\ \/ mutex = Free
           \/ pc[Reader(c)] = "loginSend"
        /\ mutex' = Free /\ hubAt' = hubAt
        /\ \E b \in {"off", "beating"} :
             pc' = [pc EXCEPT ![Reader(c)] = "reading", ![Writer(c)] = "writing", ![Beat(c)] = b]
    BY <1>5 DEF LoginSend, MaySend, Started, hubVars
  <2>2. \A s \in Thread : s # Reader(c) => pc[s] \notin Critical
    BY <2>1
  <2>3. PICK b \in {"off", "beating"} :
          pc' = [pc EXCEPT ![Reader(c)] = "reading", ![Writer(c)] = "writing", ![Beat(c)] = b]
    BY <2>1
  <2>4. ASSUME NEW s \in Thread
        PROVE  pc'[s] \notin Critical
    <3>1. pc'[s] = IF s = Beat(c) THEN b ELSE IF s = Writer(c) THEN "writing"
                   ELSE IF s = Reader(c) THEN "reading" ELSE pc[s]
      BY <2>3
    <3>2. QED
      BY <3>1, <2>2
  <2>5. hubAt' # "fan" /\ mutex' = Free
    BY <2>1
  <2>6. QED
    BY <2>4, <2>5
<1>6. CASE FlushSend(c) \/ DirectSend(c)
  BY <1>6 DEF FlushSend, DirectSend, MaySend, hubVars
<1>8. QED
  BY <1>1, <1>2, <1>3, <1>4, <1>5, <1>6, <1>7 DEF Peer, Read, Written, Heartbeat

\* So does a step of ClientLogout.
LEMMA MutexLogout ==
  ASSUME TypeOK, MutexInv, NEW t \in Thread, ClientLogout(t)
  PROVE  MutexInv'
<1> USE ThreadFacts DEF TypeOK, ClientTypeOK, MutexInv, Critical, Goto, Lock, Unlock
<1>1. CASE LogoutSend(t)
  BY <1>1 DEF LogoutSend, MaySend, hubVars
<1>2. CASE LogoutLock(t) /\ Alone
  BY <1>2 DEF LogoutLock, Alone, hubVars
<1>3. CASE GetClient(t) /\ Alone
  BY <1>3 DEF GetClient, ReadFails, PingFails, Alone, hubVars
<1>4. CASE (CloseConn(t) \/ CloseChans(t)) /\ Alone
  BY <1>4 DEF CloseConn, CloseChans, Alone, hubVars
<1>5. QED
  BY <1>1, <1>2, <1>3, <1>4 DEF ClientLogout

\* And a step of the hub.
LEMMA MutexHub ==
  ASSUME TypeOK, MutexInv, Start
  PROVE  MutexInv'
<1> USE ThreadFacts DEF TypeOK, ClientTypeOK, MutexInv
<1>1. CASE TakeLogin \/ Register \/ TakeLogout \/ Unregister
  BY <1>1 DEF TakeLogin, Register, TakeLogout, Unregister, clientVars
<1>2. CASE TakeTransmit \/ Validate \/ Reject \/ Deliver
  BY <1>2 DEF TakeTransmit, Route, Validate, AfterAnswer, Reject, Deliver
<1>3. CASE FanLock
  BY <1>3 DEF FanLock, Lock
<1>4. CASE FanSend
  BY <1>4 DEF FanSend
<1>5. CASE FanDone
  BY <1>5 DEF FanDone, Unlock
<1>6. QED
  BY <1>1, <1>2, <1>3, <1>4, <1>5 DEF Start

\* The mutex of server.go is held exactly by the thread inside one of the sections
\* it guards, however many connections compete with the hub for it.
THEOREM MutexCorrect == Spec => []MutexInv
<1>1. Init => MutexInv
  BY ThreadFacts DEF Init, ClientInit, MutexInv, Critical
<1>2. TypeOK /\ MutexInv /\ [Next]_vars => MutexInv'
  <2> SUFFICES ASSUME TypeOK, MutexInv, [Next]_vars PROVE MutexInv'
    OBVIOUS
  <2>1. CASE Start
    BY <2>1, MutexHub
  <2>2. ASSUME NEW c \in Conn, Peer(c) \/ Read(c) \/ Written(c) \/ Heartbeat(c)
        PROVE  MutexInv'
    BY <2>2, MutexConn
  <2>3. ASSUME NEW c \in Conn, ClientLogout(Reader(c)) \/ ClientLogout(Beat(c))
        PROVE  MutexInv'
    BY <2>3, MutexLogout, ThreadFacts
  <2>4. CASE UNCHANGED vars
    BY <2>4 DEF vars, clientVars, hubVars, MutexInv
  <2>5. QED
    BY <2>1, <2>2, <2>3, <2>4 DEF Next
<1>3. QED
  BY <1>1, <1>2, TypeCorrect, PTL DEF Spec

-------------------------------------------------------------------------------
(*****************************************************************************)
(* The life of a connection in ChatServer.tla: it is registered once, closed  *)
(* once, announced to the hub before it is closed, and never comes back.      *)
(*****************************************************************************)

-------------------------------------------------------------------------------
(* Steps that leave the registry alone                                        *)

\* The part of TypeOK that these proofs use.
LEMMA RegistryTypes ==
  ASSUME TypeOK
  PROVE  /\ Clients \in [User -> Conn \cup {NoConn}]
         /\ pc \in [Thread -> PCs]
         /\ client \in [Thread -> Conn \cup {NoConn}]
         /\ sock \in [Conn -> {"none", "nil", "open", "gone", "closed"}]
         /\ shut \in [Conn -> BOOLEAN]
         /\ Login \in Seq(Conn) /\ Logout \in Seq(Conn)
         /\ hubAt \in {"register", "unregister"} => hubConn \in Conn
         /\ \A t \in Thread :
              pc[t] \in {"logoutLock", "logoutSend", "closeConn", "closeChans"} => client[t] \in Conn
BY DEF TypeOK, ClientTypeOK, HubTypeOK, ChannelTypeOK, ReadTypeOK

\* The program points the invariant speaks of.
Tracked == {"off", "login", "loginSend", "logoutLock", "logoutSend", "closeConn", "closeChans"}

\* A thread moves between points the invariant does not tell apart.
SamePoint(t) ==
  \/ pc'[t] = pc[t]
  \/ pc[t] \notin Tracked /\ pc'[t] \notin Tracked
  \/ /\ t = Reader(t[2])
     /\ pc[t] \in {"off", "login", "loginSend"} /\ pc'[t] \in {"login", "loginSend"}
  \/ pc[t] \in {"logoutLock", "logoutSend"} /\ pc'[t] \in {"logoutLock", "logoutSend"}

\* A step that changes none of the registry, the queues of the connections, the
\* lookups and the closings: threads move as above, a socket is opened or loses
\* its peer, the hub does something else, the process may end.
Frame ==
  /\ UNCHANGED <<Clients, client, shut, Login, Logout, hubConn>>
  /\ \/ hubAt' = hubAt
     \/ hubAt \notin {"register", "unregister"} /\ hubAt' \notin {"register", "unregister"}
  /\ \A t \in Thread : SamePoint(t)
  /\ \A c \in Conn : \/ sock'[c] = sock[c]
                     \/ sock[c] \in {"none", "open"} /\ pc'[Reader(c)] # "off"
  /\ up' => up

\* Such a step keeps the invariant.
LEMMA FrameStep ==
  ASSUME TypeOK, RegistryInv, Frame
  PROVE  RegistryInv'
<1> USE ThreadFacts DEF Tracked, SamePoint, Frame
<1>1. /\ \A c \in Conn : Starting(c)' <=> Starting(c)
      /\ \A c \in Conn : Waiting(c)' <=> Waiting(c)
      /\ \A c \in Conn : Leaving(c)' <=> Leaving(c)
      /\ \A c \in Conn : Fresh(c)' <=> Fresh(c)
  BY DEF Starting, Waiting, Leaving, Fresh, InChannel
<1>2. RegisteredOnce'
  <2>1. \A c \in Conn : /\ pc[Writer(c)] = "off" => pc'[Writer(c)] = "off"
                        /\ pc[Beat(c)] = "off" => pc'[Beat(c)] = "off"
    OBVIOUS
  <2>2. QED
    BY <1>1, <2>1 DEF RegistryInv, RegisteredOnce, NoRepeat, InChannel
<1>3. AnnouncedBeforeClosed'
  <2>1. ASSUME NEW t \in Thread
        PROVE  /\ client'[t] # NoConn => pc'[t] \in {"logoutLock", "logoutSend", "closeConn", "closeChans"}
               /\ pc'[t] \in {"closeConn", "closeChans"} /\ Clients'[UserOf[client'[t]]] = client'[t] => Leaving(client[t])'
               /\ pc'[t] = "closeChans" => sock'[client'[t]] = "closed" \/ ~up'
    <3>1. /\ pc'[t] \in {"closeConn", "closeChans"} => pc'[t] = pc[t]
          /\ pc[t] \in {"logoutLock", "logoutSend", "closeConn", "closeChans"}
               => pc'[t] \in {"logoutLock", "logoutSend", "closeConn", "closeChans"}
      OBVIOUS
    <3>2. pc'[t] = "closeChans" => client[t] \in Conn /\ (sock[client[t]] = "closed" \/ ~up)
      BY <3>1, RegistryTypes DEF RegistryInv, AnnouncedBeforeClosed
    <3>3. pc'[t] = "closeChans" => sock'[client'[t]] = "closed" \/ ~up'
      BY <3>2
    <3>4. pc'[t] \in {"closeConn", "closeChans"} => client[t] \in Conn
      BY <3>1, RegistryTypes
    <3>5. QED
      BY <1>1, <3>1, <3>3, <3>4 DEF RegistryInv, AnnouncedBeforeClosed
  <2>2. \A c \in Conn : /\ shut'[c] => sock'[c] = "closed"
                        /\ pc'[Reader(c)] = "off" => sock'[c] = "none"
    BY DEF RegistryInv, AnnouncedBeforeClosed
  <2>3. QED
    BY <2>1, <2>2 DEF AnnouncedBeforeClosed, Leaving, InChannel
<1>4. ClosedOnce'
  BY DEF RegistryInv, ClosedOnce
<1>5. ShutIsLeaving'
  BY <1>1 DEF RegistryInv, ShutIsLeaving
<1>6. QED
  BY <1>2, <1>3, <1>4, <1>5 DEF RegistryInv

-------------------------------------------------------------------------------
(* The steps of a connection on its way into the registry, and out of it      *)

\* The connection enters Login; its goroutines start.
LEMMA RegistryLoginSend ==
  ASSUME TypeOK, RegistryInv, up, NEW c \in Conn, LoginSend(c)
  PROVE  RegistryInv'
<1> USE ThreadFacts, RegistryTypes
<1>1. /\ Login' = Append(Login, c)
      /\ UNCHANGED <<up, Clients, client, sock, shut, Logout, hubAt, hubConn>>
      /\ pc[Reader(c)] \in {"login", "loginSend"}
  BY DEF LoginSend, MaySend, hubVars
<1>2. \E b \in {"off", "beating"} :
        pc' = [pc EXCEPT ![Reader(c)] = "reading", ![Writer(c)] = "writing", ![Beat(c)] = b]
  BY DEF LoginSend, Started
<1>3. /\ pc'[Reader(c)] = "reading" /\ pc'[Writer(c)] = "writing"
      /\ pc'[Beat(c)] \in {"off", "beating"}
      /\ \A t \in Thread : t \notin {Reader(c), Writer(c), Beat(c)} => pc'[t] = pc[t]
  BY <1>2
<1>4. Fresh(c) /\ ~Waiting(c) /\ pc[Writer(c)] = "off" /\ pc[Beat(c)] = "off"
  BY <1>1 DEF RegistryInv, RegisteredOnce, Starting
<1>5. /\ \A d \in Conn : Starting(d)' <=> Starting(d) /\ d # c
      /\ \A d \in Conn : Fresh(d)' <=> Fresh(d)
      /\ \A d \in Conn : Leaving(d)' <=> Leaving(d)
  BY <1>1, <1>3 DEF Starting, Fresh, Leaving, InChannel
<1>6. \A d \in Conn : Waiting(d)' <=> Waiting(d) \/ d = c
  BY <1>1, AppendFacts DEF Waiting
<1>7. RegisteredOnce'
  <2>1. NoRepeat(Login')
    BY <1>1, <1>4, NoRepeatAppend DEF RegistryInv, RegisteredOnce, Waiting
  <2>2. hubAt' = "register" => ~InChannel(hubConn', Login')
    BY <1>1, <1>4, AppendFacts DEF RegistryInv, RegisteredOnce, Waiting
  <2>3. \A d \in Conn : Starting(d)' =>
          Fresh(d)' /\ ~Waiting(d)' /\ pc'[Writer(d)] = "off" /\ pc'[Beat(d)] = "off"
    BY <1>3, <1>5, <1>6 DEF RegistryInv, RegisteredOnce
  <2>4. QED
    BY <1>1, <1>4, <1>5, <1>6, <2>1, <2>2, <2>3 DEF RegistryInv, RegisteredOnce, NoRepeat
<1>8. \A t \in Thread :
        /\ t \in {Reader(c), Writer(c), Beat(c)} => client[t] = NoConn
        /\ pc'[t] \in {"closeConn", "closeChans"} => pc'[t] = pc[t]
  BY <1>1, <1>3, <1>4 DEF RegistryInv, AnnouncedBeforeClosed
<1>9. AnnouncedBeforeClosed'
  <2>1. ASSUME NEW t \in Thread
        PROVE  /\ client'[t] # NoConn => pc'[t] \in {"logoutLock", "logoutSend", "closeConn", "closeChans"}
               /\ pc'[t] \in {"closeConn", "closeChans"} /\ Clients'[UserOf[client'[t]]] = client'[t] => Leaving(client[t])'
               /\ pc'[t] = "closeChans" => sock'[client'[t]] = "closed" \/ ~up'
    BY <1>1, <1>3, <1>5, <1>8, <1>4 DEF RegistryInv, AnnouncedBeforeClosed, Fresh
  <2>2. \A d \in Conn : /\ shut'[d] => sock'[d] = "closed"
                        /\ pc'[Reader(d)] = "off" => sock'[d] = "none"
    BY <1>1, <1>3 DEF RegistryInv, AnnouncedBeforeClosed
  <2>3. QED
    BY <1>1, <2>1, <2>2 DEF AnnouncedBeforeClosed, Leaving, InChannel
<1>10. ClosedOnce' /\ ShutIsLeaving'
  BY <1>1, <1>5, <1>8 DEF RegistryInv, ClosedOnce, ShutIsLeaving
<1>11. QED
  BY <1>7, <1>9, <1>10 DEF RegistryInv

\* ClientLogout announces the connection it found to the hub.
LEMMA RegistryLogoutSend ==
  ASSUME TypeOK, RegistryInv, up, NEW t \in Thread, LogoutSend(t)
  PROVE  RegistryInv'
<1> USE ThreadFacts, RegistryTypes
<1> DEFINE c == client[t]
<1>1. /\ Logout' = Append(Logout, c) /\ c \in Conn
      /\ UNCHANGED <<up, Clients, client, sock, shut, Login, hubAt, hubConn>>
      /\ pc[t] \in {"logoutLock", "logoutSend"}
      /\ pc' = [pc EXCEPT ![t] = "closeConn"]
  BY DEF LogoutSend, MaySend, hubVars, Goto
<1> HIDE DEF c
<1>2. /\ pc'[t] = "closeConn"
      /\ \A s \in Thread : s # t => pc'[s] = pc[s]
  BY <1>1
<1>3. \A d \in Conn : Leaving(d)' <=> Leaving(d) \/ d = c
  BY <1>1, AppendFacts DEF Leaving
<1>4. /\ \A d \in Conn : Starting(d)' <=> Starting(d)
      /\ \A d \in Conn : Fresh(d)' <=> Fresh(d)
      /\ \A d \in Conn : Waiting(d)' <=> Waiting(d)
  BY <1>1, <1>2 DEF Starting, Fresh, Waiting, InChannel
<1>5. RegisteredOnce'
  BY <1>1, <1>2, <1>4 DEF RegistryInv, RegisteredOnce, NoRepeat, InChannel
<1>6. AnnouncedBeforeClosed'
  <2>1. ASSUME NEW s \in Thread
        PROVE  /\ client'[s] # NoConn => pc'[s] \in {"logoutLock", "logoutSend", "closeConn", "closeChans"}
               /\ pc'[s] \in {"closeConn", "closeChans"} /\ Clients'[UserOf[client'[s]]] = client'[s] => Leaving(client[s])'
               /\ pc'[s] = "closeChans" => sock'[client'[s]] = "closed" \/ ~up'
    BY <1>1, <1>2, <1>3 DEF RegistryInv, AnnouncedBeforeClosed, c
  <2>2. \A d \in Conn : /\ shut'[d] => sock'[d] = "closed"
                        /\ pc'[Reader(d)] = "off" => sock'[d] = "none"
    BY <1>1, <1>2 DEF RegistryInv, AnnouncedBeforeClosed
  <2>3. QED
    BY <1>1, <2>1, <2>2 DEF AnnouncedBeforeClosed, Leaving, InChannel
<1>7. ClosedOnce' /\ ShutIsLeaving'
  BY <1>1, <1>2, <1>3 DEF RegistryInv, ClosedOnce, ShutIsLeaving
<1>8. QED
  BY <1>5, <1>6, <1>7 DEF RegistryInv

\* ClientLogout looks up what the registry holds for its user: never a connection
\* that still waits for its registration.
LEMMA RegistryGetClient ==
  ASSUME TypeOK, RegistryInv, up, NEW t \in Thread, GetClient(t) /\ Alone
  PROVE  RegistryInv'
<1> USE ThreadFacts, RegistryTypes, ConnAssumption
<1> DEFINE u == UserOf[t[2]]
           c == Clients[u]
<1>1. /\ UNCHANGED <<up, Clients, sock, shut, Login, Logout, hubAt, hubConn>>
      /\ t[2] \in Conn /\ u \in User /\ c \in Conn \cup {NoConn}
      /\ pc[t] \in {"reading", "beating"}
      /\ client' = [client EXCEPT ![t] = c]
      /\ pc' = [pc EXCEPT ![t] = IF c = NoConn THEN "done" ELSE "logoutLock"]
  BY DEF GetClient, ReadFails, PingFails, Alone, channelVars, hubVars, Goto, Thread
<1>2. \A d \in Conn : Fresh(d) => c # d
  BY <1>1 DEF RegistryInv, RegisteredOnce, Fresh
<1> HIDE DEF u, c
<1>3. /\ client'[t] = c /\ pc'[t] \in {"done", "logoutLock"}
      /\ c # NoConn => pc'[t] = "logoutLock"
      /\ \A s \in Thread : s # t => pc'[s] = pc[s] /\ client'[s] = client[s]
  BY <1>1
<1>4. \A d \in Conn : Fresh(d) => Fresh(d)'
  BY <1>1, <1>2, <1>3 DEF Fresh
<1>5. /\ \A d \in Conn : Starting(d)' <=> Starting(d)
      /\ \A d \in Conn : Leaving(d)' <=> Leaving(d)
      /\ \A d \in Conn : Waiting(d)' <=> Waiting(d)
  BY <1>1, <1>3 DEF Starting, Leaving, Waiting, InChannel
<1>6. RegisteredOnce'
  BY <1>1, <1>3, <1>4, <1>5 DEF RegistryInv, RegisteredOnce, NoRepeat, InChannel
<1>7. AnnouncedBeforeClosed'
  <2>1. ASSUME NEW s \in Thread
        PROVE  /\ client'[s] # NoConn => pc'[s] \in {"logoutLock", "logoutSend", "closeConn", "closeChans"}
               /\ pc'[s] \in {"closeConn", "closeChans"} /\ Clients'[UserOf[client'[s]]] = client'[s] => Leaving(client[s])'
               /\ pc'[s] = "closeChans" => sock'[client'[s]] = "closed" \/ ~up'
    <3>1. CASE s = t
      BY <1>3, <3>1
    <3>2. CASE s # t
      BY <1>1, <1>3, <3>2 DEF RegistryInv, AnnouncedBeforeClosed, Leaving, InChannel
    <3>3. QED
      BY <3>1, <3>2
  <2>2. \A d \in Conn : /\ shut'[d] => sock'[d] = "closed"
                        /\ pc'[Reader(d)] = "off" => sock'[d] = "none"
    BY <1>1, <1>3 DEF RegistryInv, AnnouncedBeforeClosed
  <2>3. QED
    BY <1>1, <2>1, <2>2 DEF AnnouncedBeforeClosed, Leaving, InChannel
<1>8. ClosedOnce' /\ ShutIsLeaving'
  BY <1>1, <1>3, <1>5 DEF RegistryInv, ClosedOnce, ShutIsLeaving
<1>9. QED
  BY <1>6, <1>7, <1>8 DEF RegistryInv

\* The connection is closed, unless it was already; then nothing follows.
LEMMA RegistryCloseConn ==
  ASSUME TypeOK, RegistryInv, up, NEW t \in Thread, CloseConn(t) /\ Alone
  PROVE  RegistryInv'
<1> USE ThreadFacts, RegistryTypes, ConnAssumption
<1> DEFINE c == client[t]
<1>1. /\ UNCHANGED <<Clients, shut, Login, Logout, hubAt, hubConn>>
      /\ pc[t] = "closeConn" /\ c \in Conn
      /\ up' = (sock[c] # "nil")
      /\ pc' = [pc EXCEPT ![t] = IF sock[c] = "closed" THEN "done" ELSE "closeChans"]
      /\ client' = [client EXCEPT ![t] = IF sock[c] = "closed" THEN NoConn ELSE @]
      /\ sock' = [sock EXCEPT ![c] = IF @ = "nil" THEN @ ELSE "closed"]
  BY DEF CloseConn, CloseErr, Alone, channelVars, hubVars, Goto
<1> HIDE DEF c
<1>2. /\ \A s \in Thread : s # t => pc'[s] = pc[s] /\ client'[s] = client[s]
      /\ \/ pc'[t] = "done" /\ client'[t] = NoConn
         \/ /\ pc'[t] = "closeChans" /\ client'[t] = c
            /\ sock[c] # "closed" /\ (sock'[c] = "closed" \/ ~up')
      /\ \A d \in Conn : /\ d # c => sock'[d] = sock[d]
                         /\ sock[d] = "closed" => sock'[d] = "closed"
  BY <1>1 DEF c
<1>3. /\ \A d \in Conn : Starting(d)' <=> Starting(d)
      /\ \A d \in Conn : Waiting(d)' <=> Waiting(d)
      /\ \A d \in Conn : Fresh(d) => Fresh(d)'
      /\ \A d \in Conn : Leaving(d)' <=> Leaving(d)
  BY <1>1, <1>2 DEF Starting, Leaving, Waiting, Fresh, InChannel, c
<1>4. RegisteredOnce'
  BY <1>1, <1>2, <1>3 DEF RegistryInv, RegisteredOnce, NoRepeat, InChannel
<1>5. AnnouncedBeforeClosed'
  <2>1. ASSUME NEW s \in Thread
        PROVE  /\ client'[s] # NoConn => pc'[s] \in {"logoutLock", "logoutSend", "closeConn", "closeChans"}
               /\ pc'[s] \in {"closeConn", "closeChans"} /\ Clients'[UserOf[client'[s]]] = client'[s] => Leaving(client[s])'
               /\ pc'[s] = "closeChans" => sock'[client'[s]] = "closed" \/ ~up'
    <3>1. CASE s = t
      BY <1>1, <1>2, <3>1 DEF RegistryInv, AnnouncedBeforeClosed, Leaving, InChannel, c
    <3>2. CASE s # t
      BY <1>1, <1>2, <3>2 DEF RegistryInv, AnnouncedBeforeClosed, Leaving, InChannel
    <3>3. QED
      BY <3>1, <3>2
  <2>2. ASSUME NEW d \in Conn
        PROVE  /\ shut'[d] => sock'[d] = "closed"
               /\ pc'[Reader(d)] = "off" => sock'[d] = "none"
    <3>1. pc[Reader(d)] = "off" => d # c
      BY <1>1 DEF RegistryInv, RegisteredOnce, Starting, Fresh, c
    <3>2. QED
      BY <1>1, <1>2, <3>1 DEF RegistryInv, AnnouncedBeforeClosed
  <2>3. QED
    BY <1>1, <2>1, <2>2 DEF AnnouncedBeforeClosed, Leaving, InChannel
<1>6. ClosedOnce'
  <2>1. \A s \in Thread \ {t} : pc'[s] = "closeChans" => /\ client'[s] = client[s]
                                                         /\ sock[client[s]] = "closed"
    BY <1>2 DEF RegistryInv, AnnouncedBeforeClosed
  <2>2. pc'[t] = "closeChans" => ~shut[c]
    BY <1>1, <1>2 DEF RegistryInv, AnnouncedBeforeClosed
  <2>3. QED
    BY <1>1, <1>2, <2>1, <2>2 DEF RegistryInv, ClosedOnce
<1>7. ShutIsLeaving'
  BY <1>1, <1>3 DEF RegistryInv, ShutIsLeaving
<1>8. QED
  BY <1>4, <1>5, <1>6, <1>7 DEF RegistryInv

\* The channels of the connection are closed: nobody closes them again, and the
\* hub has been told.
LEMMA RegistryCloseChans ==
  ASSUME TypeOK, RegistryInv, up, NEW t \in Thread, CloseChans(t) /\ Alone
  PROVE  RegistryInv'
<1> USE ThreadFacts, RegistryTypes, ConnAssumption
<1> DEFINE c == client[t]
<1>1. /\ UNCHANGED <<Clients, sock, Login, Logout, hubAt, hubConn>>
      /\ pc[t] = "closeChans" /\ c \in Conn
      /\ pc' = [pc EXCEPT ![t] = "done"]
      /\ client' = [client EXCEPT ![t] = NoConn]
      /\ shut' = [shut EXCEPT ![c] = TRUE]
  BY DEF CloseChans, Alone, channelVars, hubVars, Goto
<1>2. sock[c] = "closed" /\ ~shut[c] /\ (Clients[UserOf[c]] = c => Leaving(c))
  BY <1>1 DEF RegistryInv, AnnouncedBeforeClosed, ClosedOnce
<1>3. up'
  BY <1>2 DEF CloseChans
<1>4. \A d \in Conn : Fresh(d) => d # c
  BY DEF Fresh
<1>5. \A s \in Thread \ {t} : pc[s] = "closeChans" => client[s] # c
  BY <1>1 DEF RegistryInv, ClosedOnce
<1> HIDE DEF c
<1>6. /\ \A s \in Thread : s # t => pc'[s] = pc[s] /\ client'[s] = client[s]
      /\ pc'[t] = "done" /\ client'[t] = NoConn
      /\ shut'[c] /\ \A d \in Conn : d # c => shut'[d] = shut[d]
  BY <1>1
<1>7. /\ \A d \in Conn : Starting(d)' <=> Starting(d)
      /\ \A d \in Conn : Waiting(d)' <=> Waiting(d)
      /\ \A d \in Conn : Fresh(d) => Fresh(d)'
      /\ \A d \in Conn : Leaving(d)' <=> Leaving(d)
  BY <1>1, <1>4, <1>6 DEF Starting, Leaving, Waiting, Fresh, InChannel
<1>8. RegisteredOnce'
  BY <1>1, <1>6, <1>7 DEF RegistryInv, RegisteredOnce, NoRepeat, InChannel
<1>9. AnnouncedBeforeClosed'
  <2>1. ASSUME NEW s \in Thread
        PROVE  /\ client'[s] # NoConn => pc'[s] \in {"logoutLock", "logoutSend", "closeConn", "closeChans"}
               /\ pc'[s] \in {"closeConn", "closeChans"} /\ Clients'[UserOf[client'[s]]] = client'[s] => Leaving(client[s])'
               /\ pc'[s] = "closeChans" => sock'[client'[s]] = "closed" \/ ~up'
    BY <1>1, <1>3, <1>6 DEF RegistryInv, AnnouncedBeforeClosed, Leaving, InChannel
  <2>2. \A d \in Conn : /\ shut'[d] => sock'[d] = "closed"
                        /\ pc'[Reader(d)] = "off" => sock'[d] = "none"
    BY <1>1, <1>2, <1>6 DEF RegistryInv, AnnouncedBeforeClosed
  <2>3. QED
    BY <1>1, <2>1, <2>2 DEF AnnouncedBeforeClosed, Leaving, InChannel
<1>10. ClosedOnce'
  BY <1>1, <1>5, <1>6 DEF RegistryInv, ClosedOnce
<1>11. ShutIsLeaving'
  BY <1>1, <1>2, <1>6, <1>7 DEF RegistryInv, ShutIsLeaving
<1>12. QED
  BY <1>8, <1>9, <1>10, <1>11 DEF RegistryInv

-------------------------------------------------------------------------------
(* The hub's steps on connections                                             *)

\* The hub takes a login from its channel, where it was once.
LEMMA RegistryTakeLogin ==
  ASSUME TypeOK, RegistryInv, TakeLogin
  PROVE  RegistryInv'
<1> USE ThreadFacts, RegistryTypes
<1>1. /\ UNCHANGED <<up, Clients, pc, client, sock, shut, Logout>>
      /\ hubAt = "select" /\ hubAt' = "register" /\ Login # <<>>
      /\ hubConn' = Head(Login) /\ Login' = Tail(Login)
  BY DEF TakeLogin, clientVars
<1>2. /\ \A d \in Conn : Starting(d)' <=> Starting(d)
      /\ \A d \in Conn : Fresh(d)' <=> Fresh(d)
      /\ \A d \in Conn : Leaving(d)' <=> Leaving(d)
  BY <1>1 DEF Starting, Fresh, Leaving, InChannel
<1>3. \A d \in Conn : Waiting(d)' <=> Waiting(d)
  BY <1>1, TailFacts DEF Waiting
<1>4. RegisteredOnce'
  <2>1. NoRepeat(Login') /\ ~InChannel(hubConn', Login')
    BY <1>1, NoRepeatTail DEF RegistryInv, RegisteredOnce
  <2>2. QED
    BY <1>1, <1>2, <1>3, <2>1 DEF RegistryInv, RegisteredOnce, NoRepeat, InChannel
<1>5. AnnouncedBeforeClosed' /\ ClosedOnce' /\ ShutIsLeaving'
  BY <1>1, <1>2 DEF RegistryInv, AnnouncedBeforeClosed, ClosedOnce, ShutIsLeaving, Leaving, InChannel
<1>6. QED
  BY <1>4, <1>5 DEF RegistryInv

\* The hub takes a logout from its channel.
LEMMA RegistryTakeLogout ==
  ASSUME TypeOK, RegistryInv, TakeLogout
  PROVE  RegistryInv'
<1> USE ThreadFacts, RegistryTypes
<1>1. /\ UNCHANGED <<up, Clients, pc, client, sock, shut, Login>>
      /\ hubAt = "select" /\ hubAt' = "unregister" /\ Logout # <<>>
      /\ hubConn' = Head(Logout) /\ Logout' = Tail(Logout)
  BY DEF TakeLogout, clientVars
<1>2. /\ \A d \in Conn : Starting(d)' <=> Starting(d)
      /\ \A d \in Conn : Fresh(d)' <=> Fresh(d)
      /\ \A d \in Conn : Waiting(d)' <=> Waiting(d)
  BY <1>1 DEF Starting, Fresh, Waiting, InChannel
<1>3. \A d : Leaving(d)' <=> Leaving(d)
  BY <1>1, TailFacts DEF Leaving
<1>4. RegisteredOnce'
  BY <1>1, <1>2 DEF RegistryInv, RegisteredOnce, NoRepeat, InChannel
<1>5. AnnouncedBeforeClosed'
  <2>1. ASSUME NEW s \in Thread
        PROVE  /\ client'[s] # NoConn => pc'[s] \in {"logoutLock", "logoutSend", "closeConn", "closeChans"}
               /\ pc'[s] \in {"closeConn", "closeChans"} /\ Clients'[UserOf[client'[s]]] = client'[s] => Leaving(client[s])'
               /\ pc'[s] = "closeChans" => sock'[client'[s]] = "closed" \/ ~up'
    BY <1>1, <1>3 DEF RegistryInv, AnnouncedBeforeClosed
  <2>2. QED
    BY <1>1, <2>1 DEF RegistryInv, AnnouncedBeforeClosed
<1>6. ClosedOnce' /\ ShutIsLeaving'
  BY <1>1, <1>3 DEF RegistryInv, ClosedOnce, ShutIsLeaving
<1>7. QED
  BY <1>4, <1>5, <1>6 DEF RegistryInv

\* The hub registers a connection: a fresh one, so not one that was closed.
LEMMA RegistryRegister ==
  ASSUME TypeOK, RegistryInv, up, Register
  PROVE  RegistryInv'
<1> USE ThreadFacts, RegistryTypes, ConnAssumption
<1> DEFINE u == UserOf[hubConn]
<1>1. /\ UNCHANGED <<pc, client, sock, shut, Login, Logout>>
      /\ hubAt = "register" /\ hubAt' = "select" /\ hubConn \in Conn /\ u \in User
      /\ Clients' = [Clients EXCEPT ![u] = hubConn]
  BY DEF Register, channelVars
<1>2. Fresh(hubConn) /\ ~Starting(hubConn) /\ ~InChannel(hubConn, Login)
  BY <1>1 DEF RegistryInv, RegisteredOnce, Waiting
<1>3. /\ \A d \in Conn : Starting(d)' <=> Starting(d)
      /\ \A d \in Conn : Leaving(d)' <=> Leaving(d)
      /\ \A d \in Conn : Waiting(d)' <=> Waiting(d) /\ d # hubConn
      /\ \A d \in Conn : Fresh(d) /\ d # hubConn => Fresh(d)'
  BY <1>1, <1>2 DEF Starting, Leaving, Waiting, Fresh, InChannel
<1>4. \A v \in User : Clients'[v] # NoConn => UserOf[Clients'[v]] = v
  BY <1>1 DEF RegistryInv, RegisteredOnce
<1>5. RegisteredOnce'
  BY <1>1, <1>2, <1>3, <1>4 DEF RegistryInv, RegisteredOnce, NoRepeat
<1>6. \A d \in Conn \ {hubConn} : Clients'[UserOf[d]] = d => Clients[UserOf[d]] = d
  BY <1>1
<1>7. AnnouncedBeforeClosed'
  <2>1. ASSUME NEW s \in Thread, pc[s] \in {"closeConn", "closeChans"}
        PROVE  client[s] \in Conn \ {hubConn}
    BY <1>2, <2>1 DEF Fresh
  <2>2. ASSUME NEW s \in Thread
        PROVE  /\ client'[s] # NoConn => pc'[s] \in {"logoutLock", "logoutSend", "closeConn", "closeChans"}
               /\ pc'[s] \in {"closeConn", "closeChans"} /\ Clients'[UserOf[client'[s]]] = client'[s] => Leaving(client[s])'
               /\ pc'[s] = "closeChans" => sock'[client'[s]] = "closed" \/ ~up'
    BY <1>1, <1>6, <2>1 DEF RegistryInv, AnnouncedBeforeClosed, Leaving, InChannel
  <2>3. QED
    BY <1>1, <2>2 DEF RegistryInv, AnnouncedBeforeClosed, Leaving, InChannel
<1>8. ClosedOnce' /\ ShutIsLeaving'
  BY <1>1, <1>2, <1>3, <1>6 DEF RegistryInv, ClosedOnce, ShutIsLeaving, Fresh
<1>9. QED
  BY <1>5, <1>7, <1>8 DEF RegistryInv

\* The hub removes what the registry holds for the user of a connection.
LEMMA RegistryUnregister ==
  ASSUME TypeOK, RegistryInv, up, Unregister
  PROVE  RegistryInv'
<1> USE ThreadFacts, RegistryTypes, ConnAssumption
<1> DEFINE u == UserOf[hubConn]
<1>1. /\ UNCHANGED <<pc, client, sock, shut, Login, Logout>>
      /\ hubAt = "unregister" /\ hubAt' = "select" /\ hubConn \in Conn /\ u \in User
      /\ Clients' = [Clients EXCEPT ![u] = NoConn]
  BY DEF Unregister, Delete, channelVars
<1>2. /\ \A d \in Conn : Starting(d)' <=> Starting(d)
      /\ \A d \in Conn : Waiting(d)' <=> Waiting(d)
      /\ \A d \in Conn : Fresh(d) => Fresh(d)'
  BY <1>1 DEF Starting, Waiting, Fresh, InChannel
<1>3. \A v \in User : Clients'[v] # NoConn => UserOf[Clients'[v]] = v
  BY <1>1 DEF RegistryInv, RegisteredOnce
<1>4. RegisteredOnce'
  BY <1>1, <1>2, <1>3 DEF RegistryInv, RegisteredOnce, NoRepeat, InChannel
<1>5. \A d \in Conn : Clients'[UserOf[d]] = d =>
        d # hubConn /\ Clients[UserOf[d]] = d /\ (Leaving(d) => InChannel(d, Logout))
  BY <1>1 DEF Leaving
<1>6. AnnouncedBeforeClosed'
  <2>1. ASSUME NEW s \in Thread
        PROVE  /\ client'[s] # NoConn => pc'[s] \in {"logoutLock", "logoutSend", "closeConn", "closeChans"}
               /\ pc'[s] \in {"closeConn", "closeChans"} /\ Clients'[UserOf[client'[s]]] = client'[s] => Leaving(client[s])'
               /\ pc'[s] = "closeChans" => sock'[client'[s]] = "closed" \/ ~up'
    BY <1>1, <1>5 DEF RegistryInv, AnnouncedBeforeClosed, Leaving, InChannel
  <2>2. QED
    BY <1>1, <2>1 DEF RegistryInv, AnnouncedBeforeClosed, Leaving, InChannel
<1>7. ClosedOnce' /\ ShutIsLeaving'
  BY <1>1, <1>5 DEF RegistryInv, ClosedOnce, ShutIsLeaving, Leaving, InChannel
<1>8. QED
  BY <1>4, <1>6, <1>7 DEF RegistryInv

-------------------------------------------------------------------------------
(* All steps                                                                  *)

\* One thread moves between points the invariant does not speak of.
LEMMA GotoFrame ==
  ASSUME TypeOK, NEW t \in Thread, NEW p, pc[t] \notin Tracked, p \notin Tracked, Goto(t, p),
         UNCHANGED <<Clients, client, sock, shut, Login, Logout, hubAt, hubConn>>, up' => up
  PROVE  Frame
<1>1. /\ pc'[t] \notin Tracked
      /\ \A s \in Thread : s # t => pc'[s] = pc[s]
  BY RegistryTypes DEF Goto
<1>2. QED
  BY <1>1 DEF Frame, SamePoint

\* The other steps of a connection are covered by FrameStep.
LEMMA RegistryFrame ==
  ASSUME TypeOK, RegistryInv, NEW c \in Conn, NEW t \in {Reader(c), Beat(c)}, up,
         \/ (Dial(c) \/ PeerGone(c) \/ LoginLock(c)) /\ Alone
         \/ \E m \in Msg : ReadMessage(c, m)
         \/ Flush(c) \/ Choose(c) \/ TransmitLock(c) \/ FlushSend(c) \/ DirectSend(c)
         \/ (Write(c) \/ WriteError(c) \/ WriteEnd(c) \/ HeartBeatDone(c)) /\ Alone
         \/ LogoutLock(t) /\ Alone
  PROVE  Frame
<1> USE ThreadFacts, RegistryTypes DEF Alone, channelVars, hubVars
<1>1. CASE Dial(c) /\ Alone
  <2>1. /\ UNCHANGED <<up, Clients, client, shut, Login, Logout, hubAt, hubConn>>
        /\ pc[Reader(c)] = "off" /\ pc' = [pc EXCEPT ![Reader(c)] = "login"]
        /\ \E x \in {"open", "nil"} : sock' = [sock EXCEPT ![c] = x]
    BY <1>1 DEF Dial, Goto
  <2>2. pc'[Reader(c)] = "login" /\ \A s \in Thread : s # Reader(c) => pc'[s] = pc[s]
    BY <2>1
  <2>3. \A d \in Conn : d # c => sock'[d] = sock[d]
    BY <2>1
  <2>4. sock[c] = "none"
    BY <2>1 DEF RegistryInv, AnnouncedBeforeClosed
  <2>5. QED
    BY <2>1, <2>2, <2>3, <2>4 DEF Frame, SamePoint
<1>2. CASE PeerGone(c) /\ Alone
  <2>1. pc'[Reader(c)] = pc[Reader(c)] /\ sock[c] = "open"
    BY <1>2 DEF PeerGone
  <2>2. pc[Reader(c)] # "off"
    BY <2>1 DEF RegistryInv, AnnouncedBeforeClosed
  <2>3. QED
    BY <1>2, <2>1, <2>2 DEF PeerGone, Frame, SamePoint
<1>3. CASE LoginLock(c) /\ Alone
  BY <1>3 DEF LoginLock, Goto, Frame, SamePoint
<1>4. CASE \E m \in Msg : ReadMessage(c, m)
  BY <1>4, GotoFrame DEF ReadMessage, Incoming, Tracked
<1>5. CASE Flush(c)
  BY <1>5, GotoFrame DEF Flush, Tracked
<1>6. CASE Choose(c)
  BY <1>6, GotoFrame DEF Choose, Tracked
<1>7. CASE TransmitLock(c)
  BY <1>7, GotoFrame DEF TransmitLock, Tracked
<1>8. CASE FlushSend(c)
  BY <1>8, GotoFrame DEF FlushSend, MaySend, Tracked
<1>9. CASE DirectSend(c)
  BY <1>9, GotoFrame DEF DirectSend, MaySend, Tracked
<1>10. CASE Write(c) /\ Alone
  BY <1>10 DEF Write, Frame, SamePoint
<1>11. CASE WriteError(c) /\ Alone
  BY <1>11, GotoFrame DEF WriteError, Tracked
<1>12. CASE WriteEnd(c) /\ Alone
  BY <1>12, GotoFrame DEF WriteEnd, Tracked
<1>13. CASE HeartBeatDone(c) /\ Alone
  BY <1>13, GotoFrame DEF HeartBeatDone, Tracked
<1>14. CASE LogoutLock(t) /\ Alone
  BY <1>14 DEF LogoutLock, Goto, Frame, SamePoint
<1>15. QED
  BY <1>1, <1>2, <1>3, <1>4, <1>5, <1>6, <1>7, <1>8, <1>9, <1>10, <1>11, <1>12, <1>13, <1>14

\* And so are the hub's steps on messages.
LEMMA HubFrame ==
  ASSUME TypeOK, up,
         TakeTransmit \/ Validate \/ Reject \/ Deliver \/ FanLock \/ FanSend \/ FanDone
  PROVE  Frame
<1> USE DEF Frame, SamePoint
<1>1. CASE TakeTransmit
  <2>1. hubAt = "select" /\ hubAt' \in {"select", "lock", "validate"}
    BY <1>1 DEF TakeTransmit, Route
  <2>2. UNCHANGED <<Clients, pc, client, sock, shut, Login, Logout, hubConn>>
    BY <1>1 DEF TakeTransmit
  <2>3. QED
    BY <2>1, <2>2
<1>2. CASE Validate
  <2>1. hubAt = "validate" /\ hubAt' \in {"reject", "deliver", "lock"}
    BY <1>2 DEF Validate, AfterAnswer
  <2>2. UNCHANGED <<Clients, pc, client, sock, shut, Login, Logout, hubConn>>
    BY <1>2 DEF Validate, channelVars
  <2>3. QED
    BY <2>1, <2>2
<1>3. CASE Reject \/ Deliver
  BY <1>3 DEF Reject, Deliver, channelVars
<1>4. CASE FanLock \/ FanSend \/ FanDone
  BY <1>4 DEF FanLock, FanSend, FanDone, channelVars
<1>5. QED
  BY <1>1, <1>2, <1>3, <1>4

\* Every step of the system keeps the invariant.
LEMMA RegistryStep == TypeOK /\ RegistryInv /\ [Next]_vars => RegistryInv'
<1> SUFFICES ASSUME TypeOK, RegistryInv, [Next]_vars PROVE RegistryInv'
  OBVIOUS
<1>1. CASE Start
  BY <1>1, HubFrame, FrameStep, RegistryTakeLogin, RegistryRegister, RegistryTakeLogout,
     RegistryUnregister DEF Start
<1>2. ASSUME NEW c \in Conn, Peer(c) \/ Read(c) \/ Written(c) \/ Heartbeat(c)
      PROVE  RegistryInv'
  <2>1. CASE up /\ LoginSend(c)
    BY <2>1, RegistryLoginSend
  <2>2. CASE ~(up /\ LoginSend(c))
    BY <1>2, <2>2, RegistryFrame, FrameStep DEF Peer, Read, Written, Heartbeat
  <2>3. QED
    BY <2>1, <2>2
<1>3. ASSUME NEW c \in Conn, NEW t \in {Reader(c), Beat(c)}, ClientLogout(t)
      PROVE  RegistryInv'
  BY <1>3, ThreadFacts, RegistryFrame, FrameStep, RegistryLogoutSend, RegistryGetClient,
     RegistryCloseConn, RegistryCloseChans DEF ClientLogout
<1>4. CASE UNCHANGED vars
  <2>1. Frame
    BY <1>4 DEF vars, clientVars, channelVars, hubVars, Frame, SamePoint
  <2>2. QED
    BY <2>1, FrameStep
<1>5. QED
  BY <1>1, <1>2, <1>3, <1>4 DEF Next

\* At the start there is no connection and nothing on its way.
LEMMA RegistryInit == Init => RegistryInv
BY ThreadFacts, ConnAssumption DEF Init, ClientInit, RegistryInv, RegisteredOnce, AnnouncedBeforeClosed,
   ClosedOnce, ShutIsLeaving, Starting, Waiting, Fresh, InChannel, NoRepeat

\* For any number of users, connections and reconnections and any channel size:
\* a connection waits once for its registration, and what is closed has been
\* announced to the hub before.
THEOREM RegistryCorrect == Spec => []RegistryInv
<1>1. QED
  BY RegistryInit, RegistryStep, TypeCorrect, PTL DEF Spec

\* No two ClientLogouts reach the closes of one connection, so no channel is
\* closed twice.
THEOREM NoDoubleClose == Spec => []ClosedOnce
<1>1. RegistryInv => ClosedOnce
  BY DEF RegistryInv
<1>2. QED
  BY <1>1, RegistryCorrect, PTL

\* The hub finds a connection with closed channels only while its removal is in
\* the Logout channel or in the hub's hands.
THEOREM ShutLeaves == Spec => []ShutIsLeaving
<1>1. RegistryInv => ShutIsLeaving
  BY DEF RegistryInv
<1>2. QED
  BY <1>1, RegistryCorrect, PTL

\* A closed connection that has left the registry never returns to it.
THEOREM ClosedStaysOut == Spec => NeverReturns
<1>1. ASSUME TypeOK, RegistryInv, [Next]_vars, NEW c \in Conn,
             shut[c], Clients[UserOf[c]] # c, Clients' # Clients
      PROVE  Clients'[UserOf[c]] # c
  <2>1. up /\ (Register \/ Unregister)
    <3>1. CASE Start
      BY <1>1, <3>1, HubFrame DEF Start, Frame, TakeLogin, TakeLogout, clientVars
    <3>2. ASSUME NEW d \in Conn, Peer(d) \/ Read(d) \/ Written(d) \/ Heartbeat(d)
          PROVE  FALSE
      BY <1>1, <3>2, RegistryFrame DEF Peer, Read, Written, Heartbeat, Frame, LoginSend
    <3>3. ASSUME NEW d \in Conn, NEW t \in {Reader(d), Beat(d)}, ClientLogout(t)
          PROVE  FALSE
      BY <1>1, <3>3 DEF ClientLogout, LogoutSend, LogoutLock, GetClient, CloseConn, CloseChans
    <3>4. QED
      BY <1>1, <3>1, <3>2, <3>3 DEF Next, vars, clientVars
  <2>2. CASE Register
    <3>1. hubConn \in Conn /\ Fresh(hubConn)
      BY <1>1, <2>2, RegistryTypes DEF Register, RegistryInv, RegisteredOnce, Waiting
    <3>2. c # hubConn
      BY <1>1, <3>1 DEF Fresh
    <3>3. QED
      BY <1>1, <2>2, <3>1, <3>2, RegistryTypes, ConnAssumption DEF Register
  <2>3. CASE Unregister
    BY <1>1, <2>3, RegistryTypes, ConnAssumption DEF Unregister, Delete
  <2>4. QED
    BY <2>1, <2>2, <2>3
<1>2. TypeOK /\ RegistryInv /\ [Next]_vars
        => [\A c \in Conn : shut[c] /\ Clients[UserOf[c]] # c => Clients'[UserOf[c]] # c]_vars
  <2>1. SUFFICES ASSUME TypeOK, RegistryInv, [Next]_vars, NEW c \in Conn,
                        shut[c], Clients[UserOf[c]] # c
                 PROVE  Clients'[UserOf[c]] # c
    OBVIOUS
  <2>2. QED
    BY <1>1, <2>1
<1>3. QED
  BY <1>2, TypeCorrect, RegistryCorrect, PTL DEF Spec, NeverReturns

-------------------------------------------------------------------------------
(*****************************************************************************)
(* The life of a message in ChatServer.tla: it is in one place at a time, the *)
(* hub handles it once, a refusal goes to its sender alone, and nobody sees a  *)
(* message he is no party of.                                                  *)
(*****************************************************************************)

-------------------------------------------------------------------------------
(* Readers                                                                    *)

\* The part of TypeOK that these proofs use.
LEMMA MessageTypes ==
  ASSUME TypeOK
  PROVE  /\ NoMsg \notin Msg
         /\ Transmit \in Seq(Msg) /\ SendTo \in [Conn -> Seq(Msg)]
         /\ jsonMessage \in [Conn -> Msg \cup {NoMsg}]
         /\ sendToMessage \in [Conn -> Msg \cup {NoMsg}]
         /\ pc \in [Thread -> PCs]
         /\ via \in [Msg -> Conn \cup {NoConn}]
         /\ verdict \in [Msg -> VerdictStates]
         /\ status \in [Msg -> {"absent", "unsent", "sent"}]
         /\ hubAt \in HubStates /\ hubMsg \in Msg \cup {NoMsg} /\ hubRest \in Seq(User)
         /\ hubAt \in {"validate", "reject", "deliver"} => hubMsg \in Msg /\ ~InGroup(hubMsg)
         /\ hubAt \in {"lock", "fan"} => hubMsg \in Msg
         /\ \A c \in Conn :
              /\ HasMessage(c) => jsonMessage[c] \in Msg
              /\ pc[Reader(c)] \in {"flushLock", "flushSend"} => sendToMessage[c] \in Msg
BY MsgAssumption DEF TypeOK, ClientTypeOK, HubTypeOK, ChannelTypeOK, ReadTypeOK, NoMsg, HasMessage

\* The points of a reader that ReaderHolds does not tell apart.
SameHold(c) ==
  \/ pc'[Reader(c)] = pc[Reader(c)]
  \/ ~HasMessage(c) /\ ~HasMessage(c)'
  \/ pc[Reader(c)] = "flushLock" /\ pc'[Reader(c)] = "flushSend"
  \/ pc[Reader(c)] = "directLock" /\ pc'[Reader(c)] = "directSend"

\* A reader that keeps what it holds, none of which is taken, handled or queued by
\* the step, is as it was.
LEMMA OtherReader ==
  ASSUME NEW c \in Conn, ReaderHolds(c), SameHold(c),
         SendTo'[c] = SendTo[c], jsonMessage'[c] = jsonMessage[c],
         sendToMessage'[c] = sendToMessage[c],
         \A m \in Msg : Holds(c, m) =>
           /\ via'[m] = via[m] /\ verdict'[m] = verdict[m]
           /\ InChannel(m, Transmit)' => InChannel(m, Transmit)
  PROVE  ReaderHolds(c)'
<1>1. /\ \A m \in Msg : Holds(c, m)' <=> Holds(c, m)
      /\ \A m : InChannel(m, SendTo[c])' <=> InChannel(m, SendTo[c])
      /\ NoRepeat(SendTo[c])' <=> NoRepeat(SendTo[c])
  BY DEF Holds, InChannel, NoRepeat
<1>2. /\ HasMessage(c)' <=> HasMessage(c)
      /\ pc'[Reader(c)] \in {"flushLock", "flushSend"} <=> pc[Reader(c)] \in {"flushLock", "flushSend"}
  BY DEF SameHold, HasMessage
<1>3. QED
  BY <1>1, <1>2 DEF ReaderHolds

\* The peer's next message comes into the hands of its reader.
LEMMA HoldReadMessage ==
  ASSUME TypeOK, MessageInv, NEW c \in Conn, NEW m \in Msg, ReadMessage(c, m), NEW d \in Conn
  PROVE  ReaderHolds(d)'
<1> USE ThreadFacts, MessageTypes, ConnAssumption
<1>1. /\ pc[Reader(c)] = "reading"
      /\ pc' = [pc EXCEPT ![Reader(c)] = IF SendTo[c] = <<>> THEN "choose" ELSE "flush"]
      /\ via[m] = NoConn /\ via' = [via EXCEPT ![m] = c]
      /\ jsonMessage' = [jsonMessage EXCEPT ![c] = m]
      /\ UNCHANGED <<SendTo, sendToMessage, verdict, Transmit>>
  BY DEF ReadMessage, Incoming, Goto, channelVars, hubVars
<1>2. \A e \in Conn : ReaderHolds(e) /\ ~Holds(e, m)
  BY <1>1 DEF MessageInv, ReaderHolds
<1>3. verdict[m] = "none" /\ ~InChannel(m, Transmit)
  BY <1>1 DEF MessageInv, QueuedOnce
<1>4. CASE d # c
  <2>1. SameHold(d) /\ jsonMessage'[d] = jsonMessage[d]
    BY <1>1, <1>4 DEF SameHold
  <2>2. \A x \in Msg : Holds(d, x) => via'[x] = via[x]
    BY <1>1, <1>2
  <2>3. QED
    BY <1>1, <1>2, <2>1, <2>2, OtherReader
<1>5. CASE d = c
  <2>1. /\ jsonMessage'[c] = m /\ SendTo'[c] = SendTo[c]
        /\ sendToMessage'[c] = NoMsg /\ sendToMessage[c] = NoMsg
        /\ pc'[Reader(c)] \in {"choose", "flush"} /\ HasMessage(c)'
    <3>1. pc'[Reader(c)] \in {"choose", "flush"} /\ jsonMessage'[c] = m /\ SendTo'[c] = SendTo[c]
      BY <1>1
    <3>2. sendToMessage[c] = NoMsg
      BY <1>1, <1>2 DEF ReaderHolds
    <3>3. QED
      BY <1>1, <3>1, <3>2 DEF HasMessage
  <2>2. /\ ~InChannel(m, SendTo[c])
        /\ ~InChannel(NoMsg, SendTo[c])
    BY <1>2, InChannelType DEF Holds
  <2>3. ASSUME NEW x \in Msg, Holds(c, x)'
        PROVE  via'[x] = c /\ verdict'[x] = "none" /\ ~InChannel(x, Transmit)'
    <3>1. x = m \/ Holds(c, x)
      BY <2>1, <2>3 DEF Holds
    <3>2. QED
      BY <1>1, <1>2, <1>3, <3>1 DEF ReaderHolds
  <2>4. NoRepeat(SendTo[c])'
    BY <1>2, <2>1 DEF ReaderHolds, NoRepeat
  <2>5. QED
    BY <1>5, <2>1, <2>2, <2>3, <2>4 DEF ReaderHolds
<1>6. QED
  BY <1>4, <1>5

\* A message goes from the stash into the reader's other variable.
LEMMA HoldFlush ==
  ASSUME TypeOK, MessageInv, NEW c \in Conn, Flush(c), NEW d \in Conn
  PROVE  ReaderHolds(d)'
<1> USE ThreadFacts, MessageTypes
<1>1. /\ pc[Reader(c)] = "flush"
      /\ UNCHANGED <<via, verdict, Transmit, jsonMessage>>
      /\ \A e \in Conn : ReaderHolds(e)
  BY DEF Flush, channelVars, hubVars, MessageInv
<1>2. CASE HasRoom(Transmit) /\ SendTo[c] # <<>>
  <2>1. /\ sendToMessage' = [sendToMessage EXCEPT ![c] = Head(SendTo[c])]
        /\ SendTo' = [SendTo EXCEPT ![c] = Tail(@)]
        /\ pc' = [pc EXCEPT ![Reader(c)] = "flushLock"]
    BY <1>2 DEF Flush, Unstash, Goto
  <2>2. CASE d # c
    <3>1. SameHold(d) /\ sendToMessage'[d] = sendToMessage[d] /\ SendTo'[d] = SendTo[d]
      BY <2>1, <2>2 DEF SameHold
    <3>2. QED
      BY <1>1, <3>1, OtherReader
  <2>3. CASE d = c
    <3>1. /\ sendToMessage'[c] = Head(SendTo[c]) /\ SendTo'[c] = Tail(SendTo[c])
          /\ pc'[Reader(c)] = "flushLock"
      BY <2>1
    <3>2. /\ HasMessage(c) /\ HasMessage(c)'
          /\ sendToMessage[c] = NoMsg
      BY <1>1, <3>1 DEF ReaderHolds, HasMessage
    <3>3. /\ InChannel(Head(SendTo[c]), SendTo[c])
          /\ \A x : InChannel(x, Tail(SendTo[c])) => InChannel(x, SendTo[c])
          /\ NoRepeat(Tail(SendTo[c])) /\ ~InChannel(Head(SendTo[c]), Tail(SendTo[c]))
      BY <1>1, <1>2, TailFacts, NoRepeatTail DEF ReaderHolds
    <3>4. \A x \in Msg : Holds(c, x)' => Holds(c, x)
      BY <1>1, <3>1, <3>3 DEF Holds
    <3>5. ~InChannel(jsonMessage[c], SendTo[c])
      BY <1>1 DEF ReaderHolds
    <3>6. NoRepeat(SendTo[c])'
      BY <3>1, <3>3 DEF NoRepeat
    <3>7. QED
      BY <1>1, <2>3, <3>1, <3>2, <3>3, <3>4, <3>5, <3>6 DEF ReaderHolds
  <2>4. QED
    BY <2>2, <2>3
<1>3. CASE ~(HasRoom(Transmit) /\ SendTo[c] # <<>>)
  <2>1. pc' = [pc EXCEPT ![Reader(c)] = "choose"] /\ UNCHANGED <<sendToMessage, SendTo>>
    BY <1>3 DEF Flush, Goto
  <2>2. CASE d # c
    <3>1. SameHold(d)
      BY <2>1, <2>2 DEF SameHold
    <3>2. QED
      BY <1>1, <2>1, <3>1, OtherReader
  <2>3. CASE d = c
    <3>1. pc'[Reader(c)] = "choose"
      BY <2>1
    <3>2. HasMessage(c) /\ HasMessage(c)' /\ sendToMessage[c] = NoMsg
      BY <1>1, <3>1 DEF HasMessage, ReaderHolds
    <3>3. /\ \A x \in Msg : Holds(c, x)' <=> Holds(c, x)
          /\ \A x : InChannel(x, SendTo[c])' <=> InChannel(x, SendTo[c])
          /\ NoRepeat(SendTo[c])' <=> NoRepeat(SendTo[c])
      BY <1>1, <2>1 DEF Holds, InChannel, NoRepeat
    <3>4. QED
      BY <1>1, <2>1, <2>3, <3>1, <3>2, <3>3 DEF ReaderHolds
  <2>4. QED
    BY <2>2, <2>3
<1>4. QED
  BY <1>2, <1>3

\* The message read goes to Transmit, into the stash, or nowhere.
LEMMA HoldChoose ==
  ASSUME TypeOK, MessageInv, NEW c \in Conn, Choose(c), NEW d \in Conn
  PROVE  ReaderHolds(d)'
<1> USE ThreadFacts, MessageTypes
<1>1. /\ pc[Reader(c)] = "choose"
      /\ UNCHANGED <<via, verdict, Transmit, sendToMessage>>
      /\ \A e \in Conn : ReaderHolds(e)
      /\ pc' = [pc EXCEPT ![Reader(c)] = IF HasRoom(Transmit) THEN "directLock" ELSE "reading"]
      /\ jsonMessage' = IF HasRoom(Transmit) THEN jsonMessage
                        ELSE [jsonMessage EXCEPT ![c] = NoMsg]
      /\ \/ SendTo' = SendTo
         \/ ~HasRoom(Transmit) /\ SendTo' = [SendTo EXCEPT ![c] = Append(@, jsonMessage[c])]
  BY DEF Choose, channelVars, hubVars, MessageInv, Goto
<1>2. CASE d # c
  <2>1. SameHold(d) /\ SendTo'[d] = SendTo[d] /\ jsonMessage'[d] = jsonMessage[d]
    BY <1>1, <1>2 DEF SameHold
  <2>2. QED
    BY <1>1, <2>1, OtherReader
<1>3. CASE d = c
  <2>1. /\ HasMessage(c) /\ jsonMessage[c] \in Msg
        /\ sendToMessage[c] = NoMsg /\ sendToMessage'[c] = NoMsg
        /\ ~InChannel(jsonMessage[c], SendTo[c]) /\ NoRepeat(SendTo[c])
        /\ pc'[Reader(c)] \notin {"flushLock", "flushSend"}
    BY <1>1 DEF HasMessage, ReaderHolds
  <2>2. CASE HasRoom(Transmit)
    <3>1. pc'[Reader(c)] = "directLock" /\ jsonMessage' = jsonMessage /\ SendTo' = SendTo
      BY <1>1, <2>2
    <3>2. HasMessage(c)'
      BY <3>1 DEF HasMessage
    <3>3. /\ \A x \in Msg : Holds(c, x)' <=> Holds(c, x)
          /\ \A x : InChannel(x, SendTo[c])' <=> InChannel(x, SendTo[c])
          /\ NoRepeat(SendTo[c])'
      BY <1>1, <2>1, <3>1 DEF Holds, InChannel, NoRepeat
    <3>4. QED
      BY <1>1, <1>3, <2>1, <3>1, <3>2, <3>3 DEF ReaderHolds
  <2>3. CASE ~HasRoom(Transmit)
    <3>1. pc'[Reader(c)] = "reading" /\ jsonMessage'[c] = NoMsg
      BY <1>1, <2>3
    <3>2. ~HasMessage(c)'
      BY <3>1 DEF HasMessage
    <3>3. SendTo'[c] = SendTo[c] \/ SendTo'[c] = Append(SendTo[c], jsonMessage[c])
      BY <1>1
    <3>4. /\ SendTo'[c] \in Seq(Msg) /\ NoRepeat(SendTo'[c])
          /\ \A x : InChannel(x, SendTo'[c]) => InChannel(x, SendTo[c]) \/ x = jsonMessage[c]
      <4>1. SendTo[c] \in Seq(Msg)
        OBVIOUS
      <4>2. CASE SendTo'[c] = SendTo[c]
        BY <2>1, <4>1, <4>2
      <4>3. CASE SendTo'[c] = Append(SendTo[c], jsonMessage[c])
        BY ONLY <2>1, <4>1, <4>3, NoRepeatAppend, AppendFacts
      <4>4. QED
        BY <3>3, <4>2, <4>3
    <3>5. \A x \in Msg : Holds(c, x)' => Holds(c, x)
      BY <1>1, <2>1, <3>1, <3>4 DEF Holds
    <3>6. ~InChannel(NoMsg, SendTo'[c])
      BY <3>4, InChannelType
    <3>7. NoRepeat(SendTo[c])'
      BY <3>4 DEF NoRepeat
    <3>8. QED
      BY <1>1, <1>3, <2>1, <3>1, <3>2, <3>5, <3>6, <3>7 DEF ReaderHolds
  <2>4. QED
    BY <2>2, <2>3
<1>4. QED
  BY <1>2, <1>3

\* A message leaves its reader for Transmit, where it was not before.
LEMMA HoldSend ==
  ASSUME TypeOK, MessageInv, NEW c \in Conn, FlushSend(c) \/ DirectSend(c)
  PROVE  (\A d \in Conn : ReaderHolds(d)') /\ QueuedOnce'
<1> USE ThreadFacts, MessageTypes, ConnAssumption
<1> DEFINE m == IF FlushSend(c) THEN sendToMessage[c] ELSE jsonMessage[c]
<1>1. /\ UNCHANGED <<via, verdict, SendTo>>
      /\ \A e \in Conn : ReaderHolds(e)
      /\ QueuedOnce
  BY DEF FlushSend, DirectSend, hubVars, MessageInv
<1>2. /\ m \in Msg /\ Holds(c, m)
      /\ Transmit' = Append(Transmit, m)
  <2>1. CASE FlushSend(c)
    BY <2>1 DEF FlushSend, MaySend, Holds
  <2>2. CASE ~FlushSend(c)
    BY <2>2 DEF DirectSend, MaySend, Holds, HasMessage
  <2>3. QED
    BY <2>1, <2>2
<1>3. /\ via[m] = c /\ verdict[m] = "none" /\ ~InChannel(m, Transmit)
      /\ \A e \in Conn : Holds(e, m) => e = c
  BY <1>1, <1>2 DEF ReaderHolds
<1>4. /\ \A x : InChannel(x, Transmit)' <=> InChannel(x, Transmit) \/ x = m
      /\ NoRepeat(Transmit')
  <2>1. /\ \A x : InChannel(x, Append(Transmit, m)) <=> InChannel(x, Transmit) \/ x = m
        /\ NoRepeat(Append(Transmit, m))
    BY <1>1, <1>2, <1>3, AppendFacts, NoRepeatAppend DEF QueuedOnce
  <2>2. QED
    BY <1>2, <2>1 DEF InChannel
<1>5. QueuedOnce'
  BY <1>1, <1>2, <1>3, <1>4 DEF QueuedOnce, NoRepeat
<1>6. ASSUME NEW d \in Conn, d # c
      PROVE  ReaderHolds(d)'
  <2>1. SameHold(d) /\ jsonMessage'[d] = jsonMessage[d] /\ sendToMessage'[d] = sendToMessage[d]
    BY <1>6 DEF FlushSend, DirectSend, SameHold, Goto
  <2>2. QED
    BY <1>1, <1>3, <1>4, <1>6, <2>1, OtherReader
<1>7. ReaderHolds(c)'
  <2>1. /\ pc'[Reader(c)] \in {"choose", "flush", "reading"}
        /\ ~FlushSend(c) => pc'[Reader(c)] = "reading"
        /\ FlushSend(c) => pc'[Reader(c)] # "reading"
    BY DEF FlushSend, DirectSend, Goto
  <2>2. /\ sendToMessage'[c] = NoMsg
        /\ jsonMessage'[c] = IF FlushSend(c) THEN jsonMessage[c] ELSE NoMsg
    <3>1. CASE FlushSend(c)
      BY <3>1 DEF FlushSend
    <3>2. CASE ~FlushSend(c)
      <4>1. pc[Reader(c)] \in {"directLock", "directSend"} /\ jsonMessage'[c] = NoMsg
            /\ sendToMessage' = sendToMessage
        BY <3>2 DEF DirectSend, MaySend
      <4>2. QED
        BY <1>1, <3>2, <4>1 DEF ReaderHolds
    <3>3. QED
      BY <3>1, <3>2
  <2>3. jsonMessage'[c] # m /\ (HasMessage(c)' <=> FlushSend(c))
    <3>1. CASE FlushSend(c)
      <4>1. HasMessage(c)
        BY <3>1 DEF FlushSend, MaySend, HasMessage
      <4>2. jsonMessage[c] # sendToMessage[c]
        BY <1>1, <4>1 DEF ReaderHolds
      <4>3. QED
        BY <2>1, <2>2, <3>1, <4>2 DEF HasMessage
    <3>2. CASE ~FlushSend(c)
      BY <1>2, <2>1, <2>2, <3>2 DEF HasMessage
    <3>3. QED
      BY <3>1, <3>2
  <2>4. /\ \A x : InChannel(x, SendTo[c])' <=> InChannel(x, SendTo[c])
        /\ ~InChannel(m, SendTo[c]) /\ ~InChannel(NoMsg, SendTo[c])
        /\ ~InChannel(jsonMessage[c], SendTo[c])
        /\ NoRepeat(SendTo[c])'
    BY <1>1, InChannelType DEF ReaderHolds, InChannel, NoRepeat
  <2>5. \A x \in Msg : Holds(c, x)' => Holds(c, x) /\ x # m
    BY <1>1, <2>2, <2>3, <2>4 DEF Holds
  <2>6. jsonMessage'[c] # NoMsg <=> FlushSend(c)
    BY <2>2 DEF FlushSend, MaySend, HasMessage
  <2> HIDE DEF m
  <2>7. QED
    BY <1>1, <1>4, <2>1, <2>2, <2>3, <2>4, <2>5, <2>6 DEF ReaderHolds
<1>8. QED
  BY <1>5, <1>6, <1>7

\* Most steps neither move nor judge a message.
Quiet ==
  /\ UNCHANGED <<via, verdict, Transmit, SendTo, jsonMessage, sendToMessage>>
  /\ \A c \in Conn : SameHold(c)

\* They keep what is said of the readers' hands and of the queue.
LEMMA HoldQuiet ==
  ASSUME MessageInv, Quiet
  PROVE  (\A c \in Conn : ReaderHolds(c)') /\ QueuedOnce'
<1>1. \A c \in Conn : ReaderHolds(c)'
  BY OtherReader DEF MessageInv, Quiet, InChannel
<1>2. QueuedOnce'
  BY DEF MessageInv, QueuedOnce, Quiet, NoRepeat, InChannel
<1>3. QED
  BY <1>1, <1>2

\* The steps of a connection that do are those of the lemmas above.
LEMMA QuietConn ==
  ASSUME TypeOK, NEW c \in Conn, NEW t \in {Reader(c), Beat(c)},
         \/ Peer(c) /\ ~(\E m \in Msg : ReadMessage(c, m))
         \/ Read(c) /\ ~(Flush(c) \/ Choose(c) \/ FlushSend(c) \/ DirectSend(c))
         \/ Written(c) \/ Heartbeat(c) \/ ClientLogout(t)
  PROVE  Quiet
<1> USE ThreadFacts, MessageTypes DEF Quiet, SameHold, HasMessage, Goto, Alone, channelVars, hubVars, readVars
<1>1. CASE (Dial(c) \/ PeerGone(c)) /\ Alone
  BY <1>1 DEF Dial, PeerGone
<1>2. CASE LoginLock(c) /\ Alone
  BY <1>2 DEF LoginLock
<1>3. CASE LoginSend(c)
  <2>1. /\ pc[Reader(c)] \in {"login", "loginSend"}
        /\ pc' = [pc EXCEPT ![Reader(c)] = "reading", ![Writer(c)] = "writing",
                            ![Beat(c)] = IF sock[c] = "nil" THEN "off" ELSE "beating"]
        /\ UNCHANGED <<via, verdict, Transmit, SendTo, jsonMessage, sendToMessage>>
    BY <1>3 DEF LoginSend, MaySend, Started
  <2>2. pc'[Reader(c)] = "reading" /\ \A d \in Conn \ {c} : pc'[Reader(d)] = pc[Reader(d)]
    BY <2>1
  <2>3. QED
    BY <2>1, <2>2
<1>4. CASE TransmitLock(c)
  BY <1>4 DEF TransmitLock
<1>5. CASE (Write(c) \/ WriteError(c) \/ WriteEnd(c) \/ HeartBeatDone(c)) /\ Alone
  BY <1>5 DEF Write, WriteError, WriteEnd, HeartBeatDone
<1>6. CASE LogoutSend(t)
  BY <1>6 DEF LogoutSend, MaySend
<1>7. CASE LogoutLock(t) /\ Alone
  BY <1>7 DEF LogoutLock
<1>8. CASE GetClient(t) /\ Alone
  <2>1. pc[t] \in {"reading", "beating"}
    BY <1>8 DEF GetClient, ReadFails, PingFails
  <2>2. QED
    BY <1>8, <2>1 DEF GetClient
<1>9. CASE (CloseConn(t) \/ CloseChans(t)) /\ Alone
  BY <1>9 DEF CloseConn, CloseChans
<1>10. QED
  BY <1>1, <1>2, <1>3, <1>4, <1>5, <1>6, <1>7, <1>8, <1>9
     DEF Peer, Read, Written, Heartbeat, ClientLogout

\* And so with the hub, but for its taking and judging a message.
LEMMA QuietHub ==
  ASSUME \/ TakeLogin \/ Register \/ TakeLogout \/ Unregister
         \/ Reject \/ Deliver \/ FanLock \/ FanSend \/ FanDone
  PROVE  Quiet
BY DEF TakeLogin, Register, TakeLogout, Unregister, Reject, Deliver, FanLock, FanSend, FanDone,
   Quiet, SameHold, clientVars, channelVars, readVars

\* The hub takes the first message of Transmit; no reader holds it.
LEMMA HoldTake ==
  ASSUME TypeOK, MessageInv, TakeTransmit
  PROVE  (\A c \in Conn : ReaderHolds(c)') /\ QueuedOnce'
<1> USE MessageTypes
<1> DEFINE m == Head(Transmit)
<1>1. /\ Transmit # <<>> /\ Transmit' = Tail(Transmit)
      /\ verdict' = [verdict EXCEPT ![m] = "taken"]
      /\ UNCHANGED <<pc, via, SendTo, jsonMessage, sendToMessage>>
      /\ QueuedOnce /\ \A c \in Conn : ReaderHolds(c)
  BY DEF TakeTransmit, readVars, MessageInv
<1>2. /\ m \in Msg /\ InChannel(m, Transmit)
      /\ \A x : InChannel(x, Tail(Transmit)) => InChannel(x, Transmit)
      /\ NoRepeat(Tail(Transmit)) /\ ~InChannel(m, Tail(Transmit))
  BY <1>1, TailFacts, NoRepeatTail DEF QueuedOnce
<1>3. /\ \A x : InChannel(x, Transmit)' => InChannel(x, Transmit) /\ x # m
      /\ NoRepeat(Transmit)'
  BY <1>1, <1>2 DEF InChannel, NoRepeat
<1> HIDE DEF m
<1>4. \A x \in Msg : x # m => verdict'[x] = verdict[x]
  BY <1>1
<1>5. ASSUME NEW c \in Conn
      PROVE  ReaderHolds(c)'
  <2>1. ~Holds(c, m) /\ SameHold(c)
    BY <1>1, <1>2 DEF ReaderHolds, SameHold
  <2>2. \A x \in Msg : Holds(c, x) =>
          /\ via'[x] = via[x] /\ verdict'[x] = verdict[x]
          /\ InChannel(x, Transmit)' => InChannel(x, Transmit)
    BY <1>1, <1>3, <1>4, <2>1
  <2>3. /\ ReaderHolds(c) /\ SendTo'[c] = SendTo[c]
        /\ jsonMessage'[c] = jsonMessage[c] /\ sendToMessage'[c] = sendToMessage[c]
    BY <1>1
  <2>4. QED
    BY <2>1, <2>2, <2>3, OtherReader
<1>6. QueuedOnce'
  BY <1>1, <1>2, <1>3, <1>4 DEF QueuedOnce
<1>7. QED
  BY <1>5, <1>6

\* The answer about a message concerns no reader and no message in Transmit.
LEMMA HoldValidate ==
  ASSUME TypeOK, MessageInv, Validate
  PROVE  (\A c \in Conn : ReaderHolds(c)') /\ QueuedOnce'
<1> USE MessageTypes
<1>1. /\ hubMsg \in Msg /\ verdict[hubMsg] = "taken"
      /\ UNCHANGED <<pc, via, Transmit, SendTo, jsonMessage, sendToMessage>>
      /\ QueuedOnce /\ \A c \in Conn : ReaderHolds(c)
      /\ \A x \in Msg : x # hubMsg => verdict'[x] = verdict[x]
  BY DEF Validate, channelVars, readVars, MessageInv, HubHasVerdict
<1>2. ASSUME NEW c \in Conn
      PROVE  ReaderHolds(c)'
  <2>1. ~Holds(c, hubMsg) /\ SameHold(c)
    BY <1>1 DEF ReaderHolds, SameHold
  <2>2. QED
    BY <1>1, <2>1, OtherReader DEF InChannel
<1>3. QueuedOnce'
  BY <1>1 DEF QueuedOnce, InChannel, NoRepeat
<1>4. QED
  BY <1>2, <1>3

-------------------------------------------------------------------------------
(* The hub                                                                    *)

\* No row goes back to absent.
StatusKept == \A m \in Msg : status[m] # "absent" => status'[m] # "absent"

\* The connections leave the hub where it is.
LEMMA OutsideHub ==
  ASSUME TypeOK, NEW c \in Conn, NEW t \in {Reader(c), Beat(c)},
         Peer(c) \/ Read(c) \/ Written(c) \/ Heartbeat(c) \/ ClientLogout(t)
  PROVE  up /\ UNCHANGED <<hubAt, hubMsg, hubRest, verdict>> /\ StatusKept
<1> USE DEF Alone, hubVars
<1>1. CASE Peer(c)
  BY <1>1 DEF Peer, Dial, PeerGone, ReadMessage, Incoming, StatusKept
<1>2. CASE Read(c)
  BY <1>2 DEF Read, LoginSend, LoginLock, Flush, Choose, TransmitLock, FlushSend, DirectSend, StatusKept
<1>3. CASE up /\ Write(c) /\ Alone
  <2>1. \/ status' = [status EXCEPT ![Head(SendBack[c]).msg] = IF @ = "absent" THEN @ ELSE "sent"]
        \/ status' = status
    BY <1>3 DEF Write
  <2>2. StatusKept
    BY <2>1, MessageTypes DEF StatusKept
  <2>3. QED
    BY <1>3, <2>2
<1>4. CASE up /\ (WriteError(c) \/ WriteEnd(c) \/ HeartBeatDone(c)) /\ Alone
  BY <1>4 DEF WriteError, WriteEnd, HeartBeatDone, StatusKept
<1>5. CASE ClientLogout(t)
  BY <1>5 DEF ClientLogout, LogoutSend, LogoutLock, GetClient, CloseConn, CloseChans, StatusKept
<1>6. QED
  BY <1>1, <1>2, <1>3, <1>4, <1>5 DEF Written, Heartbeat

\* A step that leaves the hub and the verdicts alone keeps what relates them.
LEMMA VerdictOutside ==
  ASSUME MessageInv, up' => up, UNCHANGED <<hubMsg, hubRest, verdict>>, StatusKept,
         \/ hubAt' = hubAt
         \/ {hubAt, hubAt'} \subseteq {"select", "register", "unregister"}
         \/ hubAt = "lock" /\ hubAt' = "fan"
  PROVE  HubHasVerdict'
BY DEF MessageInv, HubHasVerdict, StatusKept, InGroup, Audience, InChannel

\* The hub takes a message: the row is stored, the receivers of a group are read.
LEMMA VerdictTake ==
  ASSUME TypeOK, MessageInv, TakeTransmit
  PROVE  HubHasVerdict'
<1> USE MessageTypes
<1> DEFINE m == Head(Transmit)
<1>1. m \in Msg
  BY TailFacts DEF TakeTransmit
<1>2. /\ hubMsg' = IF Route(m) = "select" THEN NoMsg ELSE m
      /\ verdict' = [verdict EXCEPT ![m] = "taken"]
      /\ hubAt' = Route(m) /\ Store(m) /\ Load(m)
      /\ HubHasVerdict
  BY DEF TakeTransmit, MessageInv
<1> HIDE DEF m
<1>3. /\ Route(m) \in {"lock", "validate", "select"}
      /\ Route(m) = "lock" <=> Kind[m] = "post" /\ InGroup(m)
  BY DEF Route
<1>4. ASSUME Route(m) = "lock", NEW u \in User, InChannel(u, hubRest')
      PROVE  u \in Audience(m)
  BY <1>2, <1>3, <1>4 DEF Load, InChannel, Audience
<1>5. "store" \notin Faults =>
        \A x \in Msg : verdict'[x] # "none" /\ Kind[x] = "post" => status'[x] # "absent"
  <2>1. ASSUME "store" \notin Faults, NEW x \in Msg, verdict'[x] # "none", Kind[x] = "post"
        PROVE  status'[x] # "absent"
    <3>1. CASE x = m
      BY <1>1, <1>2, <2>1, <3>1 DEF Store
    <3>2. CASE x # m
      BY <1>1, <1>2, <2>1, <3>2 DEF Store, HubHasVerdict
    <3>3. QED
      BY <3>1, <3>2
  <2>2. QED
    BY <2>1
<1>6. verdict'[m] = "taken"
  BY <1>1, <1>2
<1>7. /\ Route(m) = "select" => hubAt' = "select" /\ hubMsg' = NoMsg
      /\ Route(m) # "select" => hubAt' \in {"lock", "validate"} /\ hubMsg' = m /\ hubMsg' # NoMsg
  BY <1>1, <1>2, <1>3
<1>8. hubAt' = "lock" => InGroup(hubMsg)' /\ \A u \in User : InChannel(u, hubRest') => u \in Audience(hubMsg)'
  BY <1>2, <1>3, <1>4, <1>7 DEF InGroup, Audience
<1>9. QED
  BY <1>5, <1>6, <1>7, <1>8 DEF HubHasVerdict, InChannel

\* The answer of the user service decides where the hub goes with the message.
LEMMA VerdictValidate ==
  ASSUME TypeOK, MessageInv, Validate
  PROVE  HubHasVerdict'
<1> USE MessageTypes
<1>1. PICK v \in Verdicts :
        /\ up' = (v # "noReply") /\ hubAt' = AfterAnswer(v)
        /\ verdict' = [verdict EXCEPT ![hubMsg] = IF v = "noReply" THEN @ ELSE v]
  BY DEF Validate
<1>2. /\ hubMsg \in Msg /\ ~InGroup(hubMsg) /\ verdict[hubMsg] = "taken"
      /\ hubMsg' = hubMsg /\ hubRest' = <<Target[hubMsg]>> /\ status' = status
      /\ HubHasVerdict
  BY DEF Validate, MessageInv, HubHasVerdict
<1>3. /\ v \in {"ok", "notFriend", "serverError", "noReply"}
      /\ hubAt' \in {"reject", "deliver", "lock"}
      /\ hubAt' = "reject" <=> v \in {"notFriend", "serverError"}
  BY <1>1, VerdictAssumption DEF VerdictSet, AfterAnswer
<1>4. verdict'[hubMsg] = IF v = "noReply" THEN "taken" ELSE v
  BY <1>1, <1>2
<1>5. \A u \in User : InChannel(u, hubRest)' => u \in Audience(hubMsg)'
  BY <1>2 DEF InChannel, Audience, InGroup
<1>6. ~InGroup(hubMsg)'
  BY <1>2 DEF InGroup
<1>7. "store" \notin Faults =>
        \A x \in Msg : verdict'[x] # "none" /\ Kind[x] = "post" => status'[x] # "absent"
  BY <1>1, <1>2 DEF HubHasVerdict
<1>8. QED
  BY <1>1, <1>2, <1>3, <1>4, <1>5, <1>6, <1>7 DEF HubHasVerdict

\* The hub's other steps on a message: it goes on to a receiver, or is done.
LEMMA VerdictHub ==
  ASSUME TypeOK, MessageInv, up, Reject \/ Deliver \/ FanSend \/ FanDone
  PROVE  HubHasVerdict'
<1> USE MessageTypes
<1>1. CASE Reject \/ Deliver \/ FanDone
  BY <1>1 DEF Reject, Deliver, FanDone, MessageInv, HubHasVerdict
<1>2. CASE FanSend
  <2>1. /\ hubAt = "fan" /\ hubAt' = "fan" /\ hubMsg' = hubMsg
        /\ hubRest # <<>> /\ hubRest' = Tail(hubRest)
        /\ verdict' = verdict /\ status' = status
        /\ HubHasVerdict
    BY <1>2 DEF FanSend, MessageInv
  <2>2. \A u \in User : InChannel(u, hubRest)' => InChannel(u, hubRest)
    <3>1. \A u : InChannel(u, Tail(hubRest)) => InChannel(u, hubRest)
      BY <2>1, TailFacts
    <3>2. QED
      BY <2>1, <3>1 DEF InChannel
  <2>3. Audience(hubMsg)' = Audience(hubMsg) /\ (InGroup(hubMsg)' <=> InGroup(hubMsg))
    BY <2>1 DEF Audience, InGroup
  <2>4. QED
    BY <2>1, <2>2, <2>3 DEF HubHasVerdict
<1>3. QED
  BY <1>1, <1>2

-------------------------------------------------------------------------------
(* What connections are shown                                                 *)

\* A connection is shown what waits in its SendBack and what was written.
LEMMA ShownFacts ==
  ASSUME TypeOK, NEW c \in Conn
  PROVE  /\ SendBack[c] \in Seq(Entry) /\ wire[c] \subseteq Entry
         /\ Shown(c) \subseteq Entry
         /\ \A e : e \in Shown(c) <=> InChannel(e, SendBack[c]) \/ e \in wire[c]
<1>1. SendBack[c] \in Seq(Entry) /\ wire[c] \subseteq Entry
  BY DEF TypeOK, ClientTypeOK
<1>2. \A e : e \in Shown(c) <=> InChannel(e, SendBack[c]) \/ e \in wire[c]
  BY DEF Shown, EntriesOf, InChannel
<1>3. \A e : e \in Shown(c) => e \in Entry
  BY <1>1, <1>2, InChannelType
<1>4. QED
  BY <1>1, <1>2, <1>3

\* sendMessageToClient puts its entry in one channel, or nowhere.
LEMMA OfferShows ==
  ASSUME NEW sb, Buffers(sb), NEW c \in Conn \cup {NoConn}, NEW e \in Entry, NEW d \in Conn,
         NEW x, InChannel(x, Offer(sb, c, e)[d])
  PROVE  InChannel(x, sb[d]) \/ (d = c /\ x = e)
<1>1. sb[d] \in Seq(Entry) /\ sb \in [Conn -> Seq(Entry)]
  BY DEF Buffers
<1>2. Offer(sb, c, e)[d] = sb[d] \/ (d = c /\ Offer(sb, c, e)[d] = Append(sb[d], e))
  BY <1>1 DEF Offer
<1>3. QED
  BY <1>1, <1>2, AppendFacts

\* The hub gives connection c the entry e.
Delivers(c, e) ==
  \/ /\ hubAt = "reject" /\ c = Clients[Sender[hubMsg]]
     /\ e = [msg |-> hubMsg, code |-> verdict[hubMsg]]
  \/ /\ hubAt = "deliver" /\ c \in {Clients[Target[hubMsg]], Clients[Sender[hubMsg]]}
     /\ e = [msg |-> hubMsg, code |-> "ok"]
  \/ /\ hubAt = "fan" /\ hubRest # <<>> /\ c = Clients[Head(hubRest)]
     /\ e = [msg |-> hubMsg, code |-> "ok"]

\* The steps that send to connections, or write to a peer.
LEMMA SendsOnly ==
  ASSUME [Next]_vars, ~(\E d \in Conn : Write(d) \/ WriteError(d)), ~(up /\ (Reject \/ Deliver \/ FanSend))
  PROVE  UNCHANGED <<SendBack, wire>>
<1>1. CASE Start
  BY <1>1 DEF Start, TakeLogin, Register, TakeLogout, Unregister, TakeTransmit, Validate,
     FanLock, FanDone, clientVars
<1>2. ASSUME NEW d \in Conn, NEW t \in {Reader(d), Beat(d)},
             Peer(d) \/ Read(d) \/ Written(d) \/ Heartbeat(d) \/ ClientLogout(t)
      PROVE  UNCHANGED <<SendBack, wire>>
  <2>1. CASE Peer(d)
    BY <2>1 DEF Peer, Dial, PeerGone, ReadMessage, Incoming
  <2>2. CASE Read(d)
    BY <2>2 DEF Read, LoginSend, LoginLock, Flush, Choose, TransmitLock, FlushSend, DirectSend
  <2>3. CASE Written(d) \/ Heartbeat(d)
    <3>1. WriteEnd(d) \/ HeartBeatDone(d)
      BY <2>3 DEF Written, Heartbeat
    <3>2. QED
      BY <3>1 DEF WriteEnd, HeartBeatDone
  <2>4. CASE ClientLogout(t)
    BY <2>4 DEF ClientLogout, LogoutSend, LogoutLock, GetClient, CloseConn, CloseChans
  <2>5. QED
    BY <1>2, <2>1, <2>2, <2>3, <2>4
<1>3. QED
  BY <1>1, <1>2 DEF Next, vars, clientVars

\* Without the hub's sends a connection is shown nothing new.
LEMMA ShownShrinks ==
  ASSUME TypeOK, [Next]_vars, ~(up /\ (Reject \/ Deliver \/ FanSend)), NEW c \in Conn, NEW e \in Shown(c)'
  PROVE  e \in Shown(c)
<1> USE ShownFacts
<1>1. InChannel(e, SendBack'[c]) \/ e \in wire'[c]
  BY DEF Shown, EntriesOf, InChannel
<1>2. CASE UNCHANGED <<SendBack, wire>>
  BY <1>1, <1>2
<1>3. ASSUME NEW d \in Conn, Write(d) \/ WriteError(d)
      PROVE  e \in Shown(c)
  <2>1. /\ SendBack[d] # <<>> /\ SendBack' = [SendBack EXCEPT ![d] = Tail(@)]
        /\ \/ wire' = wire
           \/ wire' = [wire EXCEPT ![d] = @ \cup {Head(SendBack[d])}]
    BY <1>3 DEF Write, WriteError, TypeOK, ClientTypeOK
  <2>2. /\ InChannel(Head(SendBack[d]), SendBack[d])
        /\ \A x : InChannel(x, Tail(SendBack[d])) => InChannel(x, SendBack[d])
    BY <2>1, TailFacts
  <2>3. SendBack'[c] = IF c = d THEN Tail(SendBack[d]) ELSE SendBack[c]
    BY <2>1 DEF TypeOK, ClientTypeOK
  <2>4. e \in wire'[c] => e \in wire[c] \/ (c = d /\ e = Head(SendBack[d]))
    BY <2>1 DEF TypeOK, ClientTypeOK
  <2>5. QED
    BY <1>1, <2>2, <2>3, <2>4
<1>4. QED
  BY <1>2, <1>3, SendsOnly

\* Only the hub shows a connection something new.
LEMMA ShownStep ==
  ASSUME TypeOK, [Next]_vars, NEW c \in Conn, NEW e \in Shown(c)'
  PROVE  e \in Shown(c) \/ (up /\ Delivers(c, e))
<1> USE ShownFacts
<1>1. InChannel(e, SendBack'[c]) \/ e \in wire'[c]
  BY DEF Shown, EntriesOf, InChannel
<1>2. CASE up /\ Reject
  <2> DEFINE s == Clients[Sender[hubMsg]]
             x == [msg |-> hubMsg, code |-> verdict[hubMsg]]
  <2>1. /\ hubAt = "reject" /\ wire' = wire
        /\ SendBack' = SendBack \/ SendBack' = Offer(SendBack, s, x)
    BY <1>2 DEF Reject
  <2>2. x \in Entry /\ s \in Conn \cup {NoConn} /\ Buffers(SendBack)
    BY <2>1, MsgAssumption DEF TypeOK, ClientTypeOK, HubTypeOK, Entry, Buffers
  <2> HIDE DEF s, x
  <2>3. InChannel(e, SendBack'[c]) => InChannel(e, SendBack[c]) \/ (c = s /\ e = x)
    BY ONLY <2>1, <2>2, OfferShows, c \in Conn
  <2>4. QED
    BY <1>1, <1>2, <2>1, <2>3 DEF Delivers, s, x
<1>3. CASE up /\ Deliver
  <2> DEFINE r == Clients[Target[hubMsg]]
             s == Clients[Sender[hubMsg]]
             x == [msg |-> hubMsg, code |-> "ok"]
  <2>1. /\ hubAt = "deliver" /\ wire' = wire
        /\ SendBack' = SendBack \/ SendBack' = Offer(Offer(SendBack, r, x), s, x)
    BY <1>3 DEF Deliver
  <2>2. /\ x \in Entry /\ Buffers(SendBack)
        /\ r \in Conn \cup {NoConn} /\ s \in Conn \cup {NoConn}
    <3>1. hubMsg \in Msg /\ Sender[hubMsg] \in User /\ Target[hubMsg] \in User
      BY <2>1, MsgAssumption DEF TypeOK, HubTypeOK, InGroup
    <3>2. Buffers(SendBack) /\ Clients \in [User -> Conn \cup {NoConn}]
      BY DEF TypeOK, ClientTypeOK, Buffers
    <3>3. QED
      BY <3>1, <3>2 DEF Entry, Codes
  <2>3. Buffers(Offer(SendBack, r, x))
    BY <2>2, OfferFacts
  <2> HIDE DEF r, s, x
  <2>4. InChannel(e, Offer(Offer(SendBack, r, x), s, x)[c])
          => InChannel(e, SendBack[c]) \/ (c \in {r, s} /\ e = x)
    <3>1. ASSUME InChannel(e, Offer(Offer(SendBack, r, x), s, x)[c])
          PROVE  InChannel(e, Offer(SendBack, r, x)[c]) \/ (c = s /\ e = x)
      BY ONLY <2>2, <2>3, <3>1, OfferShows, c \in Conn
    <3>2. ASSUME InChannel(e, Offer(SendBack, r, x)[c])
          PROVE  InChannel(e, SendBack[c]) \/ (c = r /\ e = x)
      BY ONLY <2>2, <3>2, OfferShows, c \in Conn
    <3>3. QED
      BY <3>1, <3>2
  <2>5. QED
    BY <1>1, <1>3, <2>1, <2>4 DEF Delivers, r, s, x
<1>4. CASE up /\ FanSend
  <2> DEFINE d == Clients[Head(hubRest)]
             x == [msg |-> hubMsg, code |-> "ok"]
  <2>1. /\ hubAt = "fan" /\ hubRest # <<>> /\ wire' = wire
        /\ \/ SendBack' = SendBack
           \/ d # NoConn /\ HasRoom(SendBack[d]) /\ SendBack' = [SendBack EXCEPT ![d] = Append(@, x)]
    BY <1>4 DEF FanSend
  <2>2. SendBack' = SendBack \/ SendBack' = Offer(SendBack, d, x)
    BY <2>1 DEF Offer
  <2>3. x \in Entry /\ d \in Conn \cup {NoConn} /\ Buffers(SendBack)
    <3>1. hubMsg \in Msg /\ Head(hubRest) \in User
      BY <2>1, MessageTypes, TailFacts
    <3>2. Buffers(SendBack) /\ Clients \in [User -> Conn \cup {NoConn}]
      BY DEF TypeOK, ClientTypeOK, Buffers
    <3>3. QED
      BY <3>1, <3>2 DEF Entry, Codes
  <2> HIDE DEF d, x
  <2>4. InChannel(e, SendBack'[c]) => InChannel(e, SendBack[c]) \/ (c = d /\ e = x)
    BY ONLY <2>2, <2>3, OfferShows, c \in Conn
  <2>5. QED
    BY <1>1, <1>4, <2>1, <2>4 DEF Delivers, d, x
<1>5. QED
  BY <1>2, <1>3, <1>4, ShownShrinks

\* A verdict is given to a message that has none, or was taken to be validated.
LEMMA VerdictStep ==
  ASSUME TypeOK, MessageInv, [Next]_vars, NEW m \in Msg
  PROVE  \/ verdict'[m] = verdict[m]
         \/ hubAt = "select" /\ verdict[m] = "none"
         \/ hubAt = "validate" /\ verdict[m] = "taken" /\ ~InGroup(m)
<1> USE MessageTypes
<1>1. CASE TakeTransmit
  <2>1. /\ hubAt = "select" /\ Transmit # <<>>
        /\ verdict' = [verdict EXCEPT ![Head(Transmit)] = "taken"]
    BY <1>1 DEF TakeTransmit
  <2>2. Head(Transmit) \in Msg /\ InChannel(Head(Transmit), Transmit)
    BY <2>1, TailFacts
  <2>3. verdict[Head(Transmit)] = "none"
    BY <2>2 DEF MessageInv, QueuedOnce
  <2>4. QED
    BY <2>1, <2>2, <2>3
<1>2. CASE Validate
  <2>1. /\ hubAt = "validate" /\ hubMsg \in Msg /\ ~InGroup(hubMsg) /\ verdict[hubMsg] = "taken"
        /\ \E x : verdict' = [verdict EXCEPT ![hubMsg] = x]
    BY <1>2 DEF Validate, MessageInv, HubHasVerdict
  <2>2. QED
    BY <2>1
<1>3. CASE Start /\ ~TakeTransmit /\ ~Validate
  BY <1>3 DEF Start, TakeLogin, Register, TakeLogout, Unregister, Reject, Deliver, FanLock,
     FanSend, FanDone
<1>4. ASSUME NEW c \in Conn, NEW t \in {Reader(c), Beat(c)},
             Peer(c) \/ Read(c) \/ Written(c) \/ Heartbeat(c) \/ ClientLogout(t)
      PROVE  verdict' = verdict
  BY <1>4, OutsideHub
<1>5. QED
  BY <1>1, <1>2, <1>3, <1>4 DEF Next, vars, hubVars

\* So what was shown stays justified, and what is added is by the hub's verdict.
LEMMA ShownKeeps ==
  ASSUME TypeOK, MessageInv, RegistryInv, [Next]_vars, HubHasVerdict'
  PROVE  RefusedIsNotDelivered' /\ ShownToItsAudience'
<1> USE MessageTypes
<1>1. TypeOK'
  BY TypeStep
<1>2. ASSUME NEW c \in Conn, NEW e \in Shown(c)'
      PROVE  /\ e \in Entry /\ e.msg \in Msg /\ e.code \in Codes
             /\ UserOf[c] \in Audience(e.msg)
             /\ verdict'[e.msg] = verdict[e.msg]
             /\ IF e.code = "ok" THEN verdict[e.msg] = IF InGroup(e.msg) THEN "taken" ELSE "ok"
                ELSE verdict[e.msg] = e.code /\ UserOf[c] = Sender[e.msg]
  <2>1. InChannel(e, SendBack'[c]) \/ e \in wire'[c]
    BY DEF Shown, EntriesOf, InChannel
  <2>2. SendBack'[c] \in Seq(Entry) /\ wire'[c] \subseteq Entry
    BY <1>1 DEF TypeOK, ClientTypeOK
  <2>3. e \in Entry /\ e.msg \in Msg /\ e.code \in Codes
    <3>1. e \in Entry
      BY ONLY <2>1, <2>2, InChannelType
    <3>2. QED
      BY <3>1 DEF Entry
  <2>4. CASE e \in Shown(c)
    <3>1. /\ UserOf[c] \in Audience(e.msg)
          /\ IF e.code = "ok" THEN verdict[e.msg] = IF InGroup(e.msg) THEN "taken" ELSE "ok"
             ELSE verdict[e.msg] = e.code /\ UserOf[c] = Sender[e.msg]
      BY <2>4 DEF MessageInv, RefusedIsNotDelivered, ShownToItsAudience
    <3>2. verdict[e.msg] # "none" /\ (verdict[e.msg] = "taken" => InGroup(e.msg))
      BY <2>3, <3>1 DEF Codes
    <3>3. verdict'[e.msg] = verdict[e.msg]
      BY <2>3, <3>2, VerdictStep
    <3>4. QED
      BY <2>3, <3>1, <3>3
  <2>5. CASE up /\ Delivers(c, e)
    <3>1. hubAt \in {"reject", "deliver", "fan"} /\ hubMsg \in Msg /\ e.msg = hubMsg
      BY <2>5 DEF Delivers
    <3>2. verdict'[hubMsg] = verdict[hubMsg]
      BY <3>1, VerdictStep
    <3>3. \A u \in User : Clients[u] = c => UserOf[c] = u
      BY ConnAssumption DEF RegistryInv, RegisteredOnce
    <3>4. Sender[hubMsg] \in User /\ Target[hubMsg] \in User \cup Group
      BY <3>1, MsgAssumption
    <3>5. HubHasVerdict
      BY DEF MessageInv
    <3>6. CASE hubAt = "reject"
      <4>1. c = Clients[Sender[hubMsg]] /\ e.code = verdict[hubMsg] /\ ~InGroup(hubMsg)
        BY <2>5, <3>6 DEF Delivers
      <4>2. UserOf[c] = Sender[hubMsg] /\ e.code \in {"notFriend", "serverError"}
        BY <3>3, <3>4, <3>5, <3>6, <4>1 DEF HubHasVerdict
      <4>3. QED
        BY <2>3, <3>1, <3>2, <4>1, <4>2 DEF Audience
    <3>7. CASE hubAt = "deliver"
      <4>1. c \in {Clients[Target[hubMsg]], Clients[Sender[hubMsg]]} /\ e.code = "ok" /\ ~InGroup(hubMsg)
        BY <2>5, <3>7 DEF Delivers
      <4>2. UserOf[c] \in {Target[hubMsg], Sender[hubMsg]} /\ verdict[hubMsg] = "ok"
        BY <2>5, <3>3, <3>4, <3>5, <3>7, <4>1 DEF HubHasVerdict, InGroup
      <4>3. QED
        BY <2>3, <3>1, <3>2, <4>1, <4>2 DEF Audience
    <3>8. CASE hubAt = "fan"
      <4>1. hubRest # <<>> /\ c = Clients[Head(hubRest)] /\ e.code = "ok"
        BY <2>5, <3>8 DEF Delivers
      <4>2. Head(hubRest) \in User /\ InChannel(Head(hubRest), hubRest)
        BY <4>1, TailFacts
      <4>3. UserOf[c] \in Audience(hubMsg)
        BY <3>3, <3>5, <3>8, <4>1, <4>2 DEF HubHasVerdict
      <4>4. verdict[hubMsg] = IF InGroup(hubMsg) THEN "taken" ELSE "ok"
        BY <2>5, <3>5, <3>8 DEF HubHasVerdict
      <4>5. QED
        BY <2>3, <3>1, <3>2, <4>1, <4>3, <4>4
    <3>9. QED
      BY <3>1, <3>6, <3>7, <3>8
  <2>6. QED
    BY <2>4, <2>5, ShownStep
<1>3. RefusedIsNotDelivered'
  BY <1>2 DEF RefusedIsNotDelivered, InGroup
<1>4. ShownToItsAudience'
  <2>1. ASSUME NEW c \in Conn, NEW e \in Shown(c)', Kind[e.msg] = "post", "store" \notin Faults
        PROVE  status'[e.msg] # "absent"
    <3>1. e.msg \in Msg /\ verdict'[e.msg] # "none"
      BY <1>2 DEF Codes
    <3>2. QED
      BY <2>1, <3>1 DEF HubHasVerdict
  <2>2. QED
    BY <1>2, <2>1 DEF ShownToItsAudience, Audience, InGroup
<1>5. QED
  BY <1>3, <1>4

\* Every step keeps the invariant.
LEMMA MessageStep == TypeOK /\ RegistryInv /\ MessageInv /\ [Next]_vars => MessageInv'
<1> SUFFICES ASSUME TypeOK, RegistryInv, MessageInv, [Next]_vars PROVE MessageInv'
  OBVIOUS
<1>1. /\ \A d \in Conn : ReaderHolds(d)'
      /\ QueuedOnce' /\ HubHasVerdict'
  <2>1. CASE Start
    <3>1. CASE TakeTransmit
      BY <3>1, HoldTake, VerdictTake
    <3>2. CASE Validate
      BY <3>2, HoldValidate, VerdictValidate
    <3>3. CASE Reject \/ Deliver \/ FanSend \/ FanDone
      BY <2>1, <3>3, QuietHub, HoldQuiet, VerdictHub DEF Start
    <3>4. CASE TakeLogin \/ Register \/ TakeLogout \/ Unregister \/ FanLock
      <4>1. /\ UNCHANGED <<hubMsg, hubRest, verdict>> /\ StatusKept
            /\ \/ {hubAt, hubAt'} \subseteq {"select", "register", "unregister"}
               \/ hubAt = "lock" /\ hubAt' = "fan"
        BY <3>4 DEF TakeLogin, Register, TakeLogout, Unregister, FanLock, StatusKept, clientVars
      <4>2. QED
        BY <2>1, <3>4, <4>1, QuietHub, HoldQuiet, VerdictOutside DEF Start
    <3>5. QED
      BY <2>1, <3>1, <3>2, <3>3, <3>4 DEF Start
  <2>2. ASSUME NEW c \in Conn, NEW t \in {Reader(c), Beat(c)},
               Peer(c) \/ Read(c) \/ Written(c) \/ Heartbeat(c) \/ ClientLogout(t)
        PROVE  (\A d \in Conn : ReaderHolds(d)') /\ QueuedOnce' /\ HubHasVerdict'
    <3>1. HubHasVerdict'
      BY <2>2, OutsideHub, VerdictOutside
    <3>2. CASE \E m \in Msg : ReadMessage(c, m)
      <4>1. PICK m \in Msg : ReadMessage(c, m)
        BY <3>2
      <4>2. QueuedOnce'
        BY <4>1, MessageTypes, ConnAssumption DEF ReadMessage, Incoming, channelVars, hubVars,
           MessageInv, QueuedOnce, NoRepeat, InChannel
      <4>3. QED
        BY <3>1, <4>1, <4>2, HoldReadMessage
    <3>3. CASE Flush(c) \/ Choose(c)
      <4>1. QueuedOnce'
        BY <3>3 DEF Flush, Choose, channelVars, hubVars, MessageInv, QueuedOnce, NoRepeat, InChannel
      <4>2. QED
        BY <3>1, <3>3, <4>1, HoldFlush, HoldChoose
    <3>4. CASE FlushSend(c) \/ DirectSend(c)
      BY <3>1, <3>4, HoldSend
    <3>5. CASE ~(\E m \in Msg : ReadMessage(c, m))
               /\ ~(Flush(c) \/ Choose(c) \/ FlushSend(c) \/ DirectSend(c))
      BY <2>2, <3>1, <3>5, QuietConn, HoldQuiet
    <3>6. QED
      BY <3>2, <3>3, <3>4, <3>5
  <2>3. CASE UNCHANGED vars
    <3>1. Quiet /\ StatusKept /\ UNCHANGED <<up, hubAt, hubMsg, hubRest, verdict>>
      BY <2>3 DEF vars, clientVars, channelVars, hubVars, readVars, Quiet, SameHold, StatusKept
    <3>2. QED
      BY <3>1, HoldQuiet, VerdictOutside
  <2>4. QED
    BY <2>1, <2>2, <2>3 DEF Next
<1>2. RefusedIsNotDelivered' /\ ShownToItsAudience'
  BY <1>1, ShownKeeps
<1>3. QED
  BY <1>1, <1>2 DEF MessageInv

\* At the start no message has been read.
LEMMA MessageInit == Init => MessageInv
<1> SUFFICES ASSUME Init PROVE MessageInv
  OBVIOUS
<1> USE ThreadFacts, MsgAssumption DEF Init, ClientInit, NoMsg
<1>1. \A c \in Conn : ReaderHolds(c)
  BY DEF ReaderHolds, Holds, HasMessage, InChannel, NoRepeat
<1>2. QueuedOnce /\ HubHasVerdict
  BY DEF QueuedOnce, HubHasVerdict, InChannel, NoRepeat
<1>3. \A c \in Conn : Shown(c) = {}
  BY DEF Shown, EntriesOf
<1>4. QED
  BY <1>1, <1>2, <1>3 DEF MessageInv, RefusedIsNotDelivered, ShownToItsAudience

\* A message is in one reader's hands or in the hub's queue or handled, whatever
\* stashing, flushing and reconnecting goes on, and the hub acts on its verdict.
THEOREM MessageCorrect == Spec => []MessageInv
<1>1. QED
  BY MessageInit, MessageStep, TypeCorrect, RegistryCorrect, PTL DEF Spec

\* What validateMessage refuses is shown to its sender alone, as a refusal; what
\* is shown as a message was accepted, or is a group post.
THEOREM RefusedStaysBack == Spec => []RefusedIsNotDelivered
<1>1. MessageInv => RefusedIsNotDelivered
  BY DEF MessageInv
<1>2. QED
  BY <1>1, MessageCorrect, PTL

\* Nobody is shown a message of a conversation he is no party of, and a text is in
\* the database before anybody sees it, if the database takes writes.
THEOREM AudienceOnly == Spec => []ShownToItsAudience
<1>1. MessageInv => ShownToItsAudience
  BY DEF MessageInv
<1>2. QED
  BY <1>1, MessageCorrect, PTL

-------------------------------------------------------------------------------
(*****************************************************************************)
(* ChatServer.tla implements MessageLifecycle.tla: every step of the system   *)
(* is a move of one message between two stages, the showing of one message to *)
(* one connection, or nothing at all. And no connection is shown a message   *)
(* twice.                                                                    *)
(*****************************************************************************)

-------------------------------------------------------------------------------
(* The stage of a message                                                     *)

\* A message that waits with a connection waits with the one that read it, so its
\* stage depends on that one alone.
Stage(m) ==
  IF via[m] = NoConn THEN "peer"
  ELSE IF verdict[m] # "none" THEN IF hubMsg = m THEN "hub" ELSE "done"
  ELSE IF InChannel(m, Transmit) THEN "queued"
  ELSE IF InChannel(m, SendTo[via[m]]) THEN "stashed"
  ELSE IF m \in {jsonMessage[via[m]], sendToMessage[via[m]]} THEN "held"
  ELSE "lost"

\* Given the invariants, it is the stage that the hub and the connections show.
LEMMA StageByVia == TypeOK /\ MessageInv => \A m \in Msg : StageOf(m) = Stage(m)
<1> SUFFICES ASSUME TypeOK, MessageInv, NEW m \in Msg PROVE StageOf(m) = Stage(m)
  OBVIOUS
<1>1. \A c \in Conn : Holds(c, m) => via[m] = c
  BY DEF MessageInv, ReaderHolds
<1>2. via[m] \in Conn \cup {NoConn}
  BY MessageTypes
<1>3. verdict[m] # "none" \/ InChannel(m, Transmit) => via[m] # NoConn
  BY DEF MessageInv, QueuedOnce
<1>4. CASE via[m] = NoConn \/ verdict[m] # "none" \/ InChannel(m, Transmit)
  BY <1>3, <1>4 DEF StageOf, Stage
<1>5. CASE via[m] # NoConn /\ verdict[m] = "none" /\ ~InChannel(m, Transmit)
  <2>1. /\ (\E c \in Conn : InChannel(m, SendTo[c])) <=> InChannel(m, SendTo[via[m]])
        /\ (\E c \in Conn : m \in {jsonMessage[c], sendToMessage[c]})
              <=> m \in {jsonMessage[via[m]], sendToMessage[via[m]]}
    BY <1>1, <1>2, <1>5 DEF Holds
  <2>2. QED
    BY <1>5, <2>1 DEF StageOf, Stage
<1>6. QED
  BY <1>4, <1>5

\* So it does in the next state.
LEMMA StageByViaNext == TypeOK' /\ MessageInv' => (\A m \in Msg : StageOf(m) = Stage(m))'
BY StageByVia, PTL

\* A step that leaves a message where it is, as far as anyone can tell.
Stays(m) ==
  /\ via'[m] = via[m] /\ verdict'[m] = verdict[m] /\ (hubMsg' = m <=> hubMsg = m)
  /\ InChannel(m, Transmit)' <=> InChannel(m, Transmit)
  /\ \A c \in Conn : /\ InChannel(m, SendTo[c])' <=> InChannel(m, SendTo[c])
                     /\ m \in {jsonMessage'[c], sendToMessage'[c]}
                          <=> m \in {jsonMessage[c], sendToMessage[c]}

\* Such a step leaves the message its stage.
LEMMA StageStays ==
  ASSUME TypeOK, NEW m \in Msg, Stays(m)
  PROVE  Stage(m)' = Stage(m)
<1>1. via[m] \in Conn \cup {NoConn}
  BY MessageTypes
<1>2. QED
  BY <1>1 DEF Stays, Stage

\* A message moves, the others stay.
MovesTo(m, s) ==
  /\ <<Stage(m), s>> \in Lifecycle!Moves
  /\ s = "hub" => \A n \in Msg : Stage(n) # "hub"
  /\ Stage(m)' = s
  /\ \A n \in Msg \ {m} : Stays(n)

-------------------------------------------------------------------------------
(* The steps of a reader                                                      *)

\* The peer's next message comes into the hands of its reader.
LEMMA MoveRead ==
  ASSUME TypeOK, MessageInv, TypeOK', MessageInv', NEW c \in Conn, NEW m \in Msg, ReadMessage(c, m)
  PROVE  MovesTo(m, "held")
<1> USE MessageTypes, ConnAssumption
<1>1. /\ pc[Reader(c)] = "reading" /\ via[m] = NoConn
      /\ via' = [via EXCEPT ![m] = c]
      /\ jsonMessage' = [jsonMessage EXCEPT ![c] = m]
      /\ UNCHANGED <<SendTo, sendToMessage, verdict, Transmit, hubMsg>>
  BY DEF ReadMessage, Incoming, channelVars, hubVars
<1>2. jsonMessage[c] = NoMsg
  BY <1>1 DEF MessageInv, ReaderHolds, HasMessage
<1>3. \A n \in Msg \ {m} : Stays(n)
  BY <1>1, <1>2 DEF Stays, InChannel
<1>4. Stage(m) = "peer"
  BY <1>1 DEF Stage
<1>5. Holds(c, m)' /\ via'[m] = c
  BY <1>1 DEF Holds
<1>6. verdict'[m] = "none" /\ ~InChannel(m, Transmit)' /\ ~InChannel(m, SendTo[c])'
  BY <1>1, <1>5 DEF MessageInv, ReaderHolds
<1>7. Stage(m)' = "held"
  BY <1>1, <1>5, <1>6 DEF Stage, InChannel
<1>8. QED
  BY <1>3, <1>4, <1>7 DEF MovesTo, Lifecycle!Moves

\* A stashed message comes into the hands of its reader, or nothing moves.
LEMMA MoveFlush ==
  ASSUME TypeOK, MessageInv, TypeOK', MessageInv', NEW c \in Conn, Flush(c)
  PROVE  (\E m \in Msg : MovesTo(m, "held")) \/ (\A m \in Msg : Stays(m))
<1> USE MessageTypes, ConnAssumption
<1>1. /\ pc[Reader(c)] = "flush"
      /\ UNCHANGED <<via, verdict, Transmit, jsonMessage, hubMsg>>
      /\ ReaderHolds(c)
  BY DEF Flush, channelVars, hubVars, MessageInv
<1>2. CASE HasRoom(Transmit) /\ SendTo[c] # <<>>
  <2>1. PICK m \in Msg : m = Head(SendTo[c])
    BY <1>2, TailFacts
  <2>2. /\ sendToMessage' = [sendToMessage EXCEPT ![c] = m]
        /\ SendTo' = [SendTo EXCEPT ![c] = Tail(@)]
        /\ InChannel(m, SendTo[c])
        /\ \A x : InChannel(x, SendTo[c]) <=> InChannel(x, Tail(SendTo[c])) \/ x = m
    BY <1>2, <2>1, TailFacts DEF Flush, Unstash
  <2>3. /\ sendToMessage[c] = NoMsg /\ sendToMessage'[c] = m
        /\ via[m] = c /\ verdict[m] = "none" /\ ~InChannel(m, Transmit)
    BY <1>1, <2>2 DEF ReaderHolds, Holds
  <2>4. \A n \in Msg \ {m} : Stays(n)
    <3>1. /\ SendTo'[c] = Tail(SendTo[c])
          /\ \A d \in Conn \ {c} : SendTo'[d] = SendTo[d] /\ sendToMessage'[d] = sendToMessage[d]
      BY <2>2
    <3>2. ASSUME NEW n \in Msg \ {m}, NEW d \in Conn
          PROVE  /\ InChannel(n, SendTo'[d]) <=> InChannel(n, SendTo[d])
                 /\ n \in {jsonMessage'[d], sendToMessage'[d]}
                      <=> n \in {jsonMessage[d], sendToMessage[d]}
      <4>1. CASE d = c
        BY <1>1, <2>2, <2>3, <3>1, <4>1
      <4>2. CASE d # c
        BY <1>1, <3>1, <4>2
      <4>3. QED
        BY <4>1, <4>2
    <3>3. QED
      BY <1>1, <3>2 DEF Stays, InChannel
  <2>5. Stage(m) = "stashed"
    BY <2>2, <2>3 DEF Stage
  <2>6. Holds(c, m)'
    BY <2>3 DEF Holds
  <2>7. ~InChannel(m, SendTo[c])' /\ ~InChannel(m, Transmit)'
    BY <2>2, <2>3, <2>6 DEF MessageInv, ReaderHolds
  <2>8. Stage(m)' = "held"
    BY <1>1, <2>2, <2>3, <2>7 DEF Stage
  <2>9. QED
    BY <2>2, <2>4, <2>5, <2>8 DEF MovesTo, Lifecycle!Moves
<1>3. CASE ~(HasRoom(Transmit) /\ SendTo[c] # <<>>)
  BY <1>1, <1>3 DEF Flush, Stays, InChannel
<1>4. QED
  BY <1>2, <1>3

\* The message read is stashed or lost, or its reader waits to send it.
LEMMA MoveChoose ==
  ASSUME TypeOK, MessageInv, TypeOK', MessageInv', NEW c \in Conn, Choose(c)
  PROVE  (\E m \in Msg, s \in {"stashed", "lost"} : MovesTo(m, s)) \/ (\A m \in Msg : Stays(m))
<1> USE MessageTypes, ConnAssumption
<1>1. /\ pc[Reader(c)] = "choose" /\ jsonMessage[c] \in Msg
      /\ UNCHANGED <<via, verdict, Transmit, sendToMessage, hubMsg>>
      /\ ReaderHolds(c)
      /\ jsonMessage' = IF HasRoom(Transmit) THEN jsonMessage
                        ELSE [jsonMessage EXCEPT ![c] = NoMsg]
      /\ \/ SendTo' = SendTo
         \/ ~HasRoom(Transmit) /\ SendTo' = [SendTo EXCEPT ![c] = Append(@, jsonMessage[c])]
  BY DEF Choose, channelVars, hubVars, MessageInv, HasMessage
<1>2. CASE HasRoom(Transmit)
  BY <1>1, <1>2 DEF Stays, InChannel
<1>3. CASE ~HasRoom(Transmit)
  <2>0. PICK m \in Msg : m = jsonMessage[c]
    BY <1>1
  <2>1. Holds(c, m) /\ jsonMessage' = [jsonMessage EXCEPT ![c] = NoMsg]
    BY <1>1, <1>3, <2>0 DEF Holds
  <2>2. /\ via[m] = c /\ verdict[m] = "none" /\ ~InChannel(m, Transmit)
        /\ ~InChannel(m, SendTo[c]) /\ sendToMessage[c] = NoMsg
    BY <1>1, <2>0, <2>1 DEF ReaderHolds
  <2>3. Stage(m) = "held"
    BY <2>0, <2>2 DEF Stage
  <2>4. /\ jsonMessage'[c] = NoMsg
        /\ \A d \in Conn \ {c} : SendTo'[d] = SendTo[d] /\ jsonMessage'[d] = jsonMessage[d]
        /\ SendTo'[c] = SendTo[c] \/ SendTo'[c] = Append(SendTo[c], m)
    BY <1>1, <2>0, <2>1
  <2>5. SendTo[c] \in Seq(Msg)
    OBVIOUS
  <2>6. \A x : InChannel(x, Append(SendTo[c], m)) <=> InChannel(x, SendTo[c]) \/ x = m
    BY <2>5, AppendFacts
  <2>7. \A n \in Msg \ {m} : Stays(n)
    <3>1. ASSUME NEW n \in Msg \ {m}, NEW d \in Conn
          PROVE  /\ InChannel(n, SendTo'[d]) <=> InChannel(n, SendTo[d])
                 /\ n \in {jsonMessage'[d], sendToMessage'[d]}
                      <=> n \in {jsonMessage[d], sendToMessage[d]}
      <4>0. n # m
        OBVIOUS
      <4>1. CASE d = c
        <5>1. InChannel(n, SendTo'[c]) <=> InChannel(n, SendTo[c])
          <6>1. CASE SendTo'[c] = SendTo[c]
            BY <6>1
          <6>2. CASE SendTo'[c] = Append(SendTo[c], m)
            BY ONLY <2>6, <4>0, <6>2
          <6>3. QED
            BY <2>4, <6>1, <6>2
        <5>2. /\ n # jsonMessage'[c] /\ n # jsonMessage[c]
              /\ sendToMessage'[c] = sendToMessage[c]
          BY <1>1, <2>0, <2>4
        <5>3. QED
          BY <4>1, <5>1, <5>2
      <4>2. CASE d # c
        BY <1>1, <2>4, <4>2
      <4>3. QED
        BY <4>1, <4>2
    <3>2. QED
      BY <1>1, <3>1 DEF Stays, InChannel
  <2>8. via'[m] = c /\ verdict'[m] = "none" /\ ~InChannel(m, Transmit)'
    BY <1>1, <2>2 DEF InChannel
  <2>9. CASE InChannel(m, SendTo'[c])
    <3>1. Stage(m)' = "stashed"
      BY <2>8, <2>9 DEF Stage, InChannel
    <3>2. QED
      BY <2>3, <2>7, <3>1 DEF MovesTo, Lifecycle!Moves
  <2>10. CASE ~InChannel(m, SendTo'[c])
    <3>1. m \notin {jsonMessage'[c], sendToMessage'[c]}
      BY <1>1, <2>2, <2>4
    <3>2. Stage(m)' = "lost"
      BY <2>8, <2>10, <3>1 DEF Stage, InChannel
    <3>3. QED
      BY <2>3, <2>7, <3>2 DEF MovesTo, Lifecycle!Moves
  <2>11. QED
    BY <2>9, <2>10
<1>4. QED
  BY <1>2, <1>3

\* A message goes from its reader's hands to Transmit.
LEMMA MoveSend ==
  ASSUME TypeOK, MessageInv, TypeOK', MessageInv', NEW c \in Conn, FlushSend(c) \/ DirectSend(c)
  PROVE  \E m \in Msg : MovesTo(m, "queued")
<1> USE MessageTypes, ConnAssumption
<1>1. /\ UNCHANGED <<via, verdict, SendTo, hubMsg>>
      /\ ReaderHolds(c) /\ ReaderHolds(c)'
  BY DEF FlushSend, DirectSend, hubVars, MessageInv
<1>2. PICK m \in Msg :
        /\ m \in {jsonMessage[c], sendToMessage[c]}
        /\ Transmit' = Append(Transmit, m)
        /\ \/ jsonMessage' = jsonMessage /\ m = sendToMessage[c]
             /\ sendToMessage' = [sendToMessage EXCEPT ![c] = NoMsg]
           \/ sendToMessage' = sendToMessage /\ m = jsonMessage[c]
             /\ jsonMessage' = [jsonMessage EXCEPT ![c] = NoMsg]
  <2>1. CASE FlushSend(c)
    BY <2>1 DEF FlushSend, MaySend
  <2>2. CASE DirectSend(c)
    BY <2>2 DEF DirectSend, MaySend, HasMessage
  <2>3. QED
    BY <2>1, <2>2
<1>3. /\ via[m] = c /\ verdict[m] = "none"
      /\ ~InChannel(m, Transmit) /\ ~InChannel(m, SendTo[c])
  BY <1>1, <1>2 DEF ReaderHolds, Holds
<1>4. \A x : InChannel(x, Append(Transmit, m)) <=> InChannel(x, Transmit) \/ x = m
  BY AppendFacts
<1>5. \A n \in Msg \ {m} : Stays(n)
  <2>1. ASSUME NEW n \in Msg \ {m}, NEW d \in Conn
        PROVE  n \in {jsonMessage'[d], sendToMessage'[d]} <=> n \in {jsonMessage[d], sendToMessage[d]}
    <3>1. CASE d = c
      BY <1>2, <3>1
    <3>2. CASE d # c
      BY <1>2, <3>2
    <3>3. QED
      BY <3>1, <3>2
  <2>2. \A n \in Msg \ {m} : InChannel(n, Transmit') <=> InChannel(n, Transmit)
    BY <1>2, <1>4
  <2>3. QED
    BY <1>1, <2>1, <2>2 DEF Stays, InChannel
<1>6. Stage(m) = "held"
  BY <1>2, <1>3 DEF Stage
<1>7. InChannel(m, Transmit')
  BY <1>2, <1>4
<1>8. Stage(m)' = "queued"
  BY <1>1, <1>3, <1>7 DEF Stage, InChannel
<1>9. QED
  BY <1>5, <1>6, <1>8 DEF MovesTo, Lifecycle!Moves

-------------------------------------------------------------------------------
(* The steps of the hub                                                       *)

\* The hub handles one message at a time: it takes the next with empty hands.
LEMMA MoveTake ==
  ASSUME TypeOK, MessageInv, TypeOK', MessageInv', TakeTransmit
  PROVE  \E m \in Msg, s \in {"hub", "done"} : MovesTo(m, s)
<1> USE MessageTypes
<1>1. /\ hubAt = "select" /\ Transmit # <<>> /\ Transmit' = Tail(Transmit)
      /\ UNCHANGED <<via, SendTo, jsonMessage, sendToMessage>>
      /\ hubMsg = NoMsg /\ QueuedOnce
  BY DEF TakeTransmit, readVars, MessageInv, HubHasVerdict
<1>2. PICK m \in Msg : m = Head(Transmit)
  BY <1>1, TailFacts
<1>3. /\ InChannel(m, Transmit)
      /\ \A x : InChannel(x, Transmit) <=> InChannel(x, Tail(Transmit)) \/ x = m
  BY <1>1, <1>2, TailFacts
<1>4. /\ hubMsg' = IF Route(m) = "select" THEN NoMsg ELSE m
      /\ verdict' = [verdict EXCEPT ![m] = "taken"]
  BY <1>2 DEF TakeTransmit
<1>5. via[m] # NoConn /\ verdict[m] = "none" /\ Stage(m) = "queued"
  BY <1>1, <1>3 DEF QueuedOnce, Stage
<1>6. Stage(m)' = IF Route(m) = "select" THEN "done" ELSE "hub"
  BY <1>1, <1>4, <1>5 DEF Stage
<1>7. \A n \in Msg : Stage(n) # "hub"
  BY <1>1 DEF Stage
<1>8. \A n \in Msg \ {m} : Stays(n)
  <2>1. \A n \in Msg \ {m} : InChannel(n, Transmit') <=> InChannel(n, Transmit)
    BY <1>1, <1>3
  <2>2. \A n \in Msg \ {m} : verdict'[n] = verdict[n] /\ hubMsg' # n /\ hubMsg # n
    BY <1>1, <1>4
  <2>3. QED
    BY <1>1, <2>1, <2>2 DEF Stays, InChannel
<1>9. QED
  BY <1>5, <1>6, <1>7, <1>8 DEF MovesTo, Lifecycle!Moves

\* The hub is done with its message.
LEMMA MoveEnd ==
  ASSUME TypeOK, MessageInv, Reject \/ Deliver \/ FanDone
  PROVE  \E m \in Msg : MovesTo(m, "done")
<1> USE MessageTypes
<1>1. /\ UNCHANGED <<via, verdict, Transmit, SendTo, jsonMessage, sendToMessage>>
      /\ hubAt \in {"reject", "deliver", "fan"} /\ hubMsg' = NoMsg
      /\ HubHasVerdict /\ QueuedOnce
  BY DEF Reject, Deliver, FanDone, channelVars, readVars, MessageInv
<1>2. PICK m \in Msg : m = hubMsg
  BY <1>1
<1>3. verdict[m] # "none" /\ via[m] # NoConn
  BY <1>1, <1>2 DEF HubHasVerdict, QueuedOnce
<1>4. Stage(m) = "hub" /\ Stage(m)' = "done"
  BY <1>1, <1>2, <1>3 DEF Stage
<1>5. \A n \in Msg \ {m} : Stays(n)
  BY <1>1, <1>2 DEF Stays, InChannel
<1>6. QED
  BY <1>4, <1>5 DEF MovesTo, Lifecycle!Moves

\* An answer does not change the stage of the message it is about, and the other
\* steps that move none leave all where they are.
LEMMA StageValidate ==
  ASSUME TypeOK, MessageInv, TypeOK', MessageInv', Validate, NEW n \in Msg
  PROVE  Stage(n)' = Stage(n)
<1> USE MessageTypes
<1>1. /\ UNCHANGED <<via, Transmit, SendTo, jsonMessage, sendToMessage, hubMsg>>
      /\ hubMsg \in Msg /\ verdict[hubMsg] # "none" /\ verdict'[hubMsg] # "none"
      /\ \A x \in Msg \ {hubMsg} : verdict'[x] = verdict[x]
  BY DEF Validate, channelVars, readVars, MessageInv, HubHasVerdict
<1>2. CASE n = hubMsg
  BY <1>1, <1>2 DEF Stage
<1>3. CASE n # hubMsg
  <2>1. Stays(n)
    BY <1>1, <1>3 DEF Stays, InChannel
  <2>2. QED
    BY <2>1, StageStays
<1>4. QED
  BY <1>2, <1>3

-------------------------------------------------------------------------------
(* The refinement                                                             *)

\* The two variables of MessageLifecycle.
stageOf == [m \in Msg |-> StageOf(m)]
shownTo == [c \in Conn |-> {e.msg : e \in {x \in wire[c] : x.code = "ok"}}]

\* A move of one message is a step of MessageLifecycle,
LEMMA AbstractMove ==
  ASSUME TypeOK, MessageInv, TypeOK', MessageInv',
         NEW m \in Msg, NEW s \in Lifecycle!Stages, MovesTo(m, s), wire' = wire
  PROVE  Lifecycle!Move(m, s)
<1>1. \A n \in Msg : StageOf(n) = Stage(n) /\ StageOf(n)' = Stage(n)'
  BY StageByVia, StageByViaNext
<1>2. \A n \in Msg : StageOf(n)' = IF n = m THEN s ELSE StageOf(n)
  BY <1>1, StageStays DEF MovesTo
<1>3. stageOf' = [stageOf EXCEPT ![m] = s]
  BY <1>2 DEF stageOf
<1>4. shownTo' = shownTo
  BY DEF shownTo
<1>5. <<stageOf[m], s>> \in Lifecycle!Moves /\ (s = "hub" => \A n \in Msg : stageOf[n] # "hub")
  BY <1>1 DEF MovesTo, stageOf
<1>6. QED
  BY <1>3, <1>4, <1>5 DEF Lifecycle!Move, stageOf, shownTo

\* and a step that moves none is none of its steps.
LEMMA AbstractStutter ==
  ASSUME TypeOK, MessageInv, TypeOK', MessageInv', \A m \in Msg : Stage(m)' = Stage(m), wire' = wire
  PROVE  UNCHANGED <<stageOf, shownTo>>
<1>1. \A n \in Msg : StageOf(n) = Stage(n) /\ StageOf(n)' = Stage(n)'
  BY StageByVia, StageByViaNext
<1>2. QED
  BY <1>1 DEF stageOf, shownTo

\* What is written has a verdict, and goes to a connection of its audience.
LEMMA AbstractShow ==
  ASSUME TypeOK, MessageInv, TypeOK', MessageInv', NEW c \in Conn, Write(c), Alone
  PROVE  (\E m \in Msg : Lifecycle!Show(m, c)) \/ UNCHANGED <<stageOf, shownTo>>
<1>1. PICK e \in Entry : e = Head(SendBack[c]) /\ e \in Shown(c)
  <2>1. SendBack[c] \in Seq(Entry) /\ SendBack[c] # <<>>
    BY DEF Write, TypeOK, ClientTypeOK
  <2>2. Head(SendBack[c]) \in Entry /\ InChannel(Head(SendBack[c]), SendBack[c])
    BY <2>1, TailFacts
  <2>3. QED
    BY <2>2, ShownFacts
<1>2. wire' = wire \/ wire' = [wire EXCEPT ![c] = @ \cup {e}]
  BY <1>1 DEF Write, TypeOK, ClientTypeOK
<1>3. stageOf' = stageOf
  <2>1. \A m \in Msg : Stays(m)
    BY DEF Write, Alone, channelVars, hubVars, readVars, Stays, InChannel
  <2>2. \A n \in Msg : StageOf(n) = Stage(n) /\ StageOf(n)' = Stage(n)'
    BY StageByVia, StageByViaNext
  <2>3. QED
    BY <2>1, <2>2, StageStays DEF stageOf
<1>4. wire \in [Conn -> SUBSET Entry]
  BY DEF TypeOK, ClientTypeOK
<1>5. CASE wire' = wire \/ e.code # "ok"
  <2>1. \A d \in Conn : {x \in wire'[d] : x.code = "ok"} = {x \in wire[d] : x.code = "ok"}
    BY <1>2, <1>4, <1>5
  <2>2. QED
    BY <1>3, <2>1 DEF shownTo
<1>6. CASE wire' = [wire EXCEPT ![c] = @ \cup {e}] /\ e.code = "ok"
  <2>1. PICK m \in Msg : m = e.msg
    BY DEF Entry
  <2>2. UserOf[c] \in Audience(m) /\ verdict[m] # "none"
    BY <1>1, <1>6, <2>1 DEF MessageInv, RefusedIsNotDelivered, ShownToItsAudience
  <2>3. via[m] # NoConn
    BY <2>2 DEF MessageInv, QueuedOnce
  <2>4. stageOf[m] \in {"hub", "done"}
    BY <2>2, <2>3, StageByVia DEF Stage, stageOf
  <2>5. <<m, c>> \in {p \in Msg \X Conn : UserOf[p[2]] \in Audience(p[1])}
    BY <2>2
  <2>6. \A d \in Conn : {x \in wire'[d] : x.code = "ok"}
          = IF d = c THEN {x \in wire[c] : x.code = "ok"} \cup {e} ELSE {x \in wire[d] : x.code = "ok"}
    BY <1>4, <1>6
  <2>7. \A d \in Conn : shownTo'[d] = IF d = c THEN shownTo[c] \cup {m} ELSE shownTo[d]
    BY <2>1, <2>6 DEF shownTo
  <2>8. shownTo' = [shownTo EXCEPT ![c] = @ \cup {m}]
    BY <2>7 DEF shownTo
  <2>9. QED
    BY <1>3, <2>4, <2>5, <2>8 DEF Lifecycle!Show, stageOf, shownTo
<1>7. QED
  BY <1>2, <1>5, <1>6

\* Every step of the system is a step of MessageLifecycle, or changes neither of
\* its variables.
LEMMA LifecycleStep ==
  ASSUME TypeOK, MessageInv, TypeOK', MessageInv', [Next]_vars
  PROVE  Lifecycle!Next \/ UNCHANGED <<stageOf, shownTo>>
<1>1. ASSUME NEW m \in Msg, NEW s \in Lifecycle!Stages, MovesTo(m, s), wire' = wire
      PROVE  Lifecycle!Next
  BY <1>1, AbstractMove DEF Lifecycle!Next
<1>2. ASSUME wire' = wire, \A m \in Msg : Stays(m)
      PROVE  UNCHANGED <<stageOf, shownTo>>
  BY <1>2, StageStays, AbstractStutter
<1>3. ASSUME Quiet, UNCHANGED <<hubMsg, wire>>
      PROVE  UNCHANGED <<stageOf, shownTo>>
  BY <1>2, <1>3 DEF Quiet, Stays, InChannel
<1> USE DEF Lifecycle!Stages
<1>4. CASE Start
  <2>1. wire' = wire
    BY <1>4 DEF Start, TakeLogin, Register, TakeLogout, Unregister, TakeTransmit, Validate, Reject,
       Deliver, FanLock, FanSend, FanDone, clientVars
  <2>2. CASE TakeTransmit
    BY <1>1, <2>1, <2>2, MoveTake
  <2>3. CASE Reject \/ Deliver \/ FanDone
    BY <1>1, <2>1, <2>3, MoveEnd
  <2>4. CASE Validate
    BY <2>1, <2>4, StageValidate, AbstractStutter
  <2>5. CASE TakeLogin \/ Register \/ TakeLogout \/ Unregister \/ FanLock \/ FanSend
    <3>1. hubMsg' = hubMsg
      BY <2>5 DEF TakeLogin, Register, TakeLogout, Unregister, FanLock, FanSend
    <3>2. QED
      BY <1>3, <2>1, <2>5, <3>1, QuietHub
  <2>6. QED
    BY <1>4, <2>2, <2>3, <2>4, <2>5 DEF Start
<1>5. ASSUME NEW c \in Conn, NEW t \in {Reader(c), Beat(c)},
             Peer(c) \/ Read(c) \/ Written(c) \/ Heartbeat(c) \/ ClientLogout(t)
      PROVE  Lifecycle!Next \/ UNCHANGED <<stageOf, shownTo>>
  <2>1. CASE Write(c) /\ Alone
    BY <2>1, AbstractShow DEF Lifecycle!Next
  <2>2. CASE ~(Write(c) /\ Alone)
    <3>1. wire' = wire /\ hubMsg' = hubMsg
      <4>1. hubMsg' = hubMsg
        BY <1>5, OutsideHub
      <4>2. CASE Peer(c)
        BY <4>1, <4>2 DEF Peer, Dial, PeerGone, ReadMessage, Incoming
      <4>3. CASE Read(c)
        BY <4>1, <4>3 DEF Read, LoginSend, LoginLock, Flush, Choose, TransmitLock, FlushSend, DirectSend
      <4>4. CASE Written(c) \/ Heartbeat(c)
        BY <2>2, <4>1, <4>4 DEF Written, Heartbeat, WriteError, WriteEnd, HeartBeatDone
      <4>5. CASE ClientLogout(t)
        BY <4>1, <4>5 DEF ClientLogout, LogoutSend, LogoutLock, GetClient, CloseConn, CloseChans
      <4>6. QED
        BY <1>5, <4>2, <4>3, <4>4, <4>5
    <3>2. CASE \E m \in Msg : ReadMessage(c, m)
      BY <1>1, <3>1, <3>2, MoveRead
    <3>3. CASE Flush(c)
      BY <1>1, <1>2, <3>1, <3>3, MoveFlush
    <3>4. CASE Choose(c)
      BY <1>1, <1>2, <3>1, <3>4, MoveChoose
    <3>5. CASE FlushSend(c) \/ DirectSend(c)
      BY <1>1, <3>1, <3>5, MoveSend
    <3>6. CASE ~(\E m \in Msg : ReadMessage(c, m))
               /\ ~(Flush(c) \/ Choose(c) \/ FlushSend(c) \/ DirectSend(c))
      BY <1>3, <1>5, <3>1, <3>6, QuietConn
    <3>7. QED
      BY <3>2, <3>3, <3>4, <3>5, <3>6
  <2>3. QED
    BY <2>1, <2>2
<1>6. CASE UNCHANGED vars
  BY <1>2, <1>6 DEF vars, clientVars, channelVars, hubVars, readVars, Stays, InChannel
<1>7. QED
  BY <1>4, <1>5, <1>6 DEF Next

\* At the start every message is with its peer and nothing is shown.
LEMMA LifecycleInit == Init => Lifecycle!Init
<1> SUFFICES ASSUME Init PROVE Lifecycle!Init
  OBVIOUS
<1>1. \A m \in Msg : StageOf(m) = "peer"
  BY DEF Init, ClientInit, StageOf, InChannel
<1>2. \A c \in Conn : {e.msg : e \in {x \in wire[c] : x.code = "ok"}} = {}
  BY DEF Init, ClientInit
<1>3. QED
  BY <1>1, <1>2 DEF Lifecycle!Init

\* For any connections, reconnections, messages, faults and channel sizes, a
\* message advances from its peer to the hub without going back, is handled once
\* and by itself, and is written only to its audience and only once handled.
THEOREM ServerImplementsLifecycle == Spec => ImplementsLifecycle
<1>1. TypeOK /\ MessageInv /\ TypeOK' /\ MessageInv' /\ [Next]_vars
        => [Lifecycle!Next]_<<stageOf, shownTo>>
  BY LifecycleStep
<1>2. QED
  BY <1>1, LifecycleInit, TypeCorrect, MessageCorrect, PTL
     DEF Spec, ImplementsLifecycle, Lifecycle!Spec, stageOf, shownTo

-------------------------------------------------------------------------------
(* Once                                                                       *)

\* ShownOnce, and why the hub does not disturb it: what it is about to send, the
\* receivers it has still to serve have not been shown.
OnceInv ==
  /\ ShownOnce
  /\ hubAt \in {"validate", "reject", "deliver", "lock"} =>
       \A c \in Conn : \A e \in Shown(c) : e.msg # hubMsg
  /\ hubAt = "fan" =>
       \A c \in Conn : \A e \in Shown(c) : e.msg = hubMsg => ~InChannel(UserOf[c], hubRest)
  /\ hubAt \in {"lock", "fan"} => NoRepeat(hubRest)

\* sendMessageToClient likewise.
LEMMA OnceOffer ==
  ASSUME NEW sb, Buffers(sb), NEW c \in Conn \cup {NoConn}, NEW e \in Entry, NEW d \in Conn,
         NEW w, ConnOnce(sb[d], w),
         d = c => ToSelf(e.msg) \/ (~InChannel(e, sb[d]) /\ e \notin w)
  PROVE  ConnOnce(Offer(sb, c, e)[d], w)
<1>1. sb[d] \in Seq(Entry) /\ sb \in [Conn -> Seq(Entry)]
  BY DEF Buffers
<1>2. Offer(sb, c, e)[d] = sb[d] \/ (d = c /\ Offer(sb, c, e)[d] = Append(sb[d], e))
  BY <1>1 DEF Offer
<1>3. QED
  BY <1>1, <1>2, OnceAppend

\* Nothing of a message that has no verdict yet has been shown.
LEMMA UnjudgedUnshown ==
  ASSUME TypeOK, MessageInv, NEW c \in Conn, NEW e \in Shown(c)
  PROVE  e \in Entry /\ e.msg \in Msg /\ verdict[e.msg] # "none"
         /\ (verdict[e.msg] = "taken" => InGroup(e.msg))
<1>1. e \in Entry /\ e.msg \in Msg /\ e.code \in Codes
  BY ShownFacts DEF Entry
<1>2. IF e.code = "ok" THEN verdict[e.msg] = IF InGroup(e.msg) THEN "taken" ELSE "ok"
      ELSE verdict[e.msg] = e.code /\ UserOf[c] = Sender[e.msg]
  BY DEF MessageInv, RefusedIsNotDelivered
<1>3. QED
  BY <1>1, <1>2 DEF Codes

\* The hub's sends keep every channel free of repetitions.
LEMMA OnceSends ==
  ASSUME TypeOK, RegistryInv, MessageInv, OnceInv, Reject \/ Deliver \/ FanSend, NEW c \in Conn
  PROVE  ConnOnce(SendBack'[c], wire'[c])
<1> USE MessageTypes
<1>1. /\ hubAt \in {"reject", "deliver", "fan"} /\ hubMsg \in Msg /\ wire' = wire
      /\ Sender[hubMsg] \in User /\ verdict[hubMsg] \in VerdictStates
      /\ hubAt = "deliver" => Target[hubMsg] \in User
      /\ hubAt = "fan" => hubRest # <<>> /\ Head(hubRest) \in User /\ InChannel(Head(hubRest), hubRest)
  BY MsgAssumption, TailFacts DEF Reject, Deliver, FanSend, InGroup
<1>2. /\ Buffers(SendBack) /\ Clients \in [User -> Conn \cup {NoConn}]
      /\ \A u \in User : Clients[u] # NoConn => UserOf[Clients[u]] = u
      /\ \A d \in Conn : ConnOnce(SendBack[d], wire[d])
  BY DEF TypeOK, ClientTypeOK, Buffers, RegistryInv, RegisteredOnce, OnceInv, ShownOnce
<1>3. ASSUME NEW x, x.msg = hubMsg, NEW d \in Conn,
             hubAt # "fan" \/ UserOf[d] = Head(hubRest)
      PROVE  ~InChannel(x, SendBack[d]) /\ x \notin wire[d]
  <2>1. x \notin Shown(d)
    BY <1>1, <1>3 DEF OnceInv
  <2>2. QED
    BY <2>1, ShownFacts
<1>4. CASE Reject
  <2>1. PICK x \in Entry : x = [msg |-> hubMsg, code |-> verdict[hubMsg]]
    BY <1>1, <1>4 DEF Entry, Codes, TypeOK, HubTypeOK, Reject
  <2>2. PICK s \in Conn \cup {NoConn} : s = Clients[Sender[hubMsg]]
    BY <1>1, <1>2
  <2>3. /\ hubAt # "fan" /\ x.msg = hubMsg
        /\ SendBack' = SendBack \/ SendBack' = Offer(SendBack, s, x)
    BY <1>1, <1>4, <2>1, <2>2 DEF Reject
  <2>4. ~InChannel(x, SendBack[c]) /\ x \notin wire[c]
    BY <1>3, <2>3
  <2>5. QED
    BY ONLY <1>1, <1>2, <2>3, <2>4, OnceOffer, c \in Conn
<1>5. CASE Deliver
  <2>1. PICK x \in Entry : x = [msg |-> hubMsg, code |-> "ok"]
    BY <1>1 DEF Entry, Codes
  <2>2. PICK r \in Conn \cup {NoConn}, s \in Conn \cup {NoConn} :
          r = Clients[Target[hubMsg]] /\ s = Clients[Sender[hubMsg]]
    BY <1>1, <1>2, <1>5 DEF Deliver
  <2>3. /\ hubAt = "deliver" /\ x.msg = hubMsg
        /\ SendBack' = SendBack \/ SendBack' = Offer(Offer(SendBack, r, x), s, x)
    BY <1>1, <1>5, <2>1, <2>2 DEF Deliver
  <2>4. ~InChannel(x, SendBack[c]) /\ x \notin wire[c]
    BY <1>3, <2>3
  <2>5. Buffers(Offer(SendBack, r, x)) /\ ConnOnce(Offer(SendBack, r, x)[c], wire[c])
    BY ONLY <1>2, <2>4, OfferFacts, OnceOffer, c \in Conn
  <2>6. c = s => ToSelf(x.msg) \/ (~InChannel(x, Offer(SendBack, r, x)[c]) /\ x \notin wire[c])
    <3>1. CASE c = s /\ c = r
      <4>1. Target[hubMsg] \in User /\ Sender[hubMsg] \in User /\ c # NoConn
        BY <1>1, <2>3, ConnAssumption
      <4>2. UserOf[c] = Target[hubMsg] /\ UserOf[c] = Sender[hubMsg]
        BY ONLY <1>2, <2>2, <3>1, <4>1
      <4>3. QED
        BY <2>3, <4>2 DEF ToSelf
    <3>2. CASE c # r
      BY ONLY <1>2, <2>4, <3>2, OfferShows, c \in Conn
    <3>3. QED
      BY <3>1, <3>2
  <2>7. ConnOnce(Offer(Offer(SendBack, r, x), s, x)[c], wire[c])
    BY ONLY <2>5, <2>6, OnceOffer, c \in Conn
  <2>8. QED
    BY <1>1, <1>2, <2>3, <2>7
<1>6. CASE FanSend
  <2>1. PICK x \in Entry : x = [msg |-> hubMsg, code |-> "ok"]
    BY <1>1 DEF Entry, Codes
  <2>2. PICK d \in Conn \cup {NoConn} : d = Clients[Head(hubRest)]
    BY <1>1, <1>2, <1>6 DEF FanSend
  <2>3. /\ hubAt = "fan" /\ x.msg = hubMsg
        /\ SendBack' = SendBack \/ SendBack' = Offer(SendBack, d, x)
    BY <1>6, <2>1, <2>2 DEF FanSend, Offer
  <2>4. c = d => UserOf[c] = Head(hubRest)
    BY <1>1, <1>2, <2>2, <2>3, ConnAssumption
  <2>5. c = d => ~InChannel(x, SendBack[c]) /\ x \notin wire[c]
    BY <1>3, <2>3, <2>4
  <2>6. ConnOnce(Offer(SendBack, d, x)[c], wire[c])
    BY ONLY <1>2, <2>5, OnceOffer, c \in Conn
  <2>7. QED
    BY <1>1, <1>2, <2>3, <2>6
<1>7. QED
  BY <1>4, <1>5, <1>6

\* Nor does any other step repeat an entry: Write and its failure take one.
LEMMA OnceKeeps ==
  ASSUME TypeOK, RegistryInv, MessageInv, OnceInv, [Next]_vars, NEW c \in Conn
  PROVE  ConnOnce(SendBack'[c], wire'[c])
<1>1. /\ ConnOnce(SendBack[c], wire[c]) /\ SendBack \in [Conn -> Seq(Entry)]
      /\ wire \in [Conn -> SUBSET Entry]
  BY DEF OnceInv, ShownOnce, TypeOK, ClientTypeOK
<1>2. ASSUME NEW d \in Conn, Write(d) \/ WriteError(d)
      PROVE  ConnOnce(SendBack'[c], wire'[c])
  <2>1. /\ SendBack[d] # <<>> /\ SendBack' = [SendBack EXCEPT ![d] = Tail(@)]
        /\ \/ wire' = wire
           \/ wire' = [wire EXCEPT ![d] = @ \cup {Head(SendBack[d])}]
    BY <1>1, <1>2 DEF Write, WriteError
  <2>2. CASE c = d
    <3>1. /\ SendBack'[c] = Tail(SendBack[c])
          /\ wire'[c] \in {wire[c], wire[c] \cup {Head(SendBack[c])}}
      BY <1>1, <2>1, <2>2
    <3>2. SendBack[c] \in Seq(Entry) /\ SendBack[c] # <<>>
      BY <1>1, <2>1, <2>2
    <3>3. QED
      BY ONLY <1>1, <3>1, <3>2, OnceTail
  <2>3. CASE c # d
    BY <1>1, <2>1, <2>3
  <2>4. QED
    BY <2>2, <2>3
<1>3. CASE Reject \/ Deliver \/ FanSend
  BY <1>3, OnceSends
<1>4. CASE ~(\E d \in Conn : Write(d) \/ WriteError(d)) /\ ~(Reject \/ Deliver \/ FanSend)
  <2>1. UNCHANGED <<SendBack, wire>>
    BY <1>4, SendsOnly
  <2>2. QED
    BY <1>1, <2>1
<1>5. QED
  BY <1>2, <1>3, <1>4

\* What the hub is about to send nobody it has still to serve was shown.
LEMMA OnceHub ==
  ASSUME DistinctMembers, TypeOK, RegistryInv, MessageInv, OnceInv, [Next]_vars
  PROVE  /\ hubAt' \in {"validate", "reject", "deliver", "lock"} =>
              \A c \in Conn : \A e \in Shown(c)' : e.msg # hubMsg'
         /\ hubAt' = "fan" =>
              \A c \in Conn : \A e \in Shown(c)' : e.msg = hubMsg' => ~InChannel(UserOf[c], hubRest')
         /\ hubAt' \in {"lock", "fan"} => NoRepeat(hubRest')
<1> USE MessageTypes
<1>1. ASSUME ~(up /\ (Reject \/ Deliver \/ FanSend)), NEW c \in Conn, NEW e \in Shown(c)'
      PROVE  e \in Shown(c)
  BY <1>1, ShownShrinks
<1>2. CASE up /\ TakeTransmit
  <2>1. PICK m \in Msg : m = Head(Transmit) /\ InChannel(m, Transmit)
    BY <1>2, TailFacts DEF TakeTransmit
  <2>2. /\ hubMsg' = IF Route(m) = "select" THEN NoMsg ELSE m
        /\ hubAt' = Route(m) /\ Load(m)
        /\ Route(m) \in {"select", "lock", "validate"}
        /\ Route(m) = "lock" => InGroup(m)
    BY <1>2, <2>1 DEF TakeTransmit, Route
  <2>3. verdict[m] = "none"
    BY <2>1 DEF MessageInv, QueuedOnce
  <2>4. ~(Reject \/ Deliver \/ FanSend)
    BY <1>2 DEF TakeTransmit, Reject, Deliver, FanSend
  <2>5. ASSUME NEW c \in Conn, NEW e \in Shown(c)'
        PROVE  e.msg # m
    BY <1>1, <2>3, <2>4, <2>5, UnjudgedUnshown
  <2>6. Route(m) = "lock" => NoRepeat(hubRest')
    BY <2>2 DEF Load, InGroup, DistinctMembers, NoRepeat
  <2>7. QED
    BY <2>2, <2>5, <2>6
<1>3. CASE up /\ Validate
  <2>1. /\ hubAt = "validate" /\ hubAt' \in {"reject", "deliver", "lock"}
        /\ hubMsg' = hubMsg /\ hubRest' = <<Target[hubMsg]>>
        /\ ~(Reject \/ Deliver \/ FanSend)
    BY <1>3 DEF Validate, AfterAnswer, Reject, Deliver, FanSend
  <2>2. NoRepeat(<<Target[hubMsg]>>)
    BY DEF NoRepeat
  <2>3. QED
    BY <1>1, <2>1, <2>2 DEF OnceInv
<1>4. CASE up /\ FanSend
  <2>1. /\ hubAt = "fan" /\ hubRest # <<>> /\ hubRest' = Tail(hubRest)
        /\ hubAt' = hubAt /\ hubMsg' = hubMsg
    BY <1>4 DEF FanSend
  <2>2. /\ NoRepeat(Tail(hubRest)) /\ ~InChannel(Head(hubRest), Tail(hubRest))
        /\ \A x : InChannel(x, Tail(hubRest)) => InChannel(x, hubRest)
        /\ Head(hubRest) \in User
    BY <2>1, NoRepeatTail, TailFacts DEF OnceInv
  <2>3. ASSUME NEW c \in Conn, NEW e \in Shown(c)', e.msg = hubMsg
        PROVE  ~InChannel(UserOf[c], Tail(hubRest))
    <3>1. CASE e \in Shown(c)
      BY <2>1, <2>2, <2>3, <3>1 DEF OnceInv
    <3>2. CASE Delivers(c, e)
      <4>1. c = Clients[Head(hubRest)]
        BY <2>1, <3>2 DEF Delivers
      <4>2. UserOf[c] = Head(hubRest)
        BY <2>2, <4>1, ConnAssumption DEF RegistryInv, RegisteredOnce
      <4>3. QED
        BY <2>2, <4>2
    <3>3. QED
      BY <3>1, <3>2, ShownStep
  <2>4. QED
    BY <2>1, <2>2, <2>3
<1>5. CASE up /\ (TakeLogin \/ Register \/ TakeLogout \/ Unregister \/ Reject \/ Deliver \/ FanDone)
  BY <1>5 DEF TakeLogin, Register, TakeLogout, Unregister, Reject, Deliver, FanDone
<1>6. CASE up /\ FanLock
  <2>1. /\ hubAt = "lock" /\ hubAt' = "fan" /\ UNCHANGED <<hubMsg, hubRest>>
        /\ ~(Reject \/ Deliver \/ FanSend)
    BY <1>6 DEF FanLock, Reject, Deliver, FanSend
  <2>2. QED
    BY <1>1, <2>1 DEF OnceInv
<1>7. CASE UNCHANGED <<hubAt, hubMsg, hubRest>>
  <2>1. ~Reject /\ ~Deliver
    BY <1>7 DEF Reject, Deliver
  <2>2. CASE FanSend
    <3>1. hubRest \in Seq(User) /\ hubRest # <<>> /\ hubRest' = Tail(hubRest)
      BY <2>2 DEF FanSend
    <3>2. Len(Tail(hubRest)) # Len(hubRest)
      BY <3>1, TailFacts, LenProperties
    <3>3. QED
      BY <1>7, <3>1, <3>2
  <2>3. CASE ~FanSend
    BY <1>1, <1>7, <2>1, <2>3 DEF OnceInv
  <2>4. QED
    BY <2>2, <2>3
<1>8. QED
  <2>1. ASSUME NEW d \in Conn, NEW t \in {Reader(d), Beat(d)},
               Peer(d) \/ Read(d) \/ Written(d) \/ Heartbeat(d) \/ ClientLogout(t)
        PROVE  UNCHANGED <<hubAt, hubMsg, hubRest>>
    BY <2>1, OutsideHub
  <2>2. CASE Start
    BY <1>2, <1>3, <1>4, <1>5, <1>6, <2>2 DEF Start
  <2>3. CASE UNCHANGED vars
    BY <1>7, <2>3 DEF vars, hubVars
  <2>4. QED
    BY <1>7, <2>1, <2>2, <2>3 DEF Next

\* Every step keeps the invariant.
LEMMA OnceStep ==
  DistinctMembers /\ TypeOK /\ RegistryInv /\ MessageInv /\ OnceInv /\ [Next]_vars => OnceInv'
<1> SUFFICES ASSUME DistinctMembers, TypeOK, RegistryInv, MessageInv, OnceInv, [Next]_vars
             PROVE  OnceInv'
  OBVIOUS
<1>1. ShownOnce'
  BY OnceKeeps DEF ShownOnce, ConnOnce, InChannel
<1>2. QED
  BY <1>1, OnceHub DEF OnceInv, NoRepeat, InChannel

\* At the start nothing has been shown.
LEMMA OnceInit == Init => OnceInv
<1> SUFFICES ASSUME Init PROVE OnceInv
  OBVIOUS
<1>1. ShownOnce
  BY DEF Init, ClientInit, ShownOnce, ConnOnce
<1>2. QED
  BY <1>1 DEF Init, OnceInv

\* If no group lists a member twice, a connection gets a message at most once,
\* whatever stashing, flushing, reconnecting and fanning out goes on, unless its
\* user wrote to himself.
THEOREM ShownAtMostOnce == ASSUME DistinctMembers PROVE Spec => []ShownOnce
<1>1. OnceInv => ShownOnce
  BY DEF OnceInv
<1>2. TypeOK /\ RegistryInv /\ MessageInv /\ OnceInv /\ [Next]_vars => OnceInv'
  BY OnceStep
<1>3. QED
  BY <1>1, <1>2, OnceInit, TypeCorrect, RegistryCorrect, MessageCorrect, PTL DEF Spec

===============================================================================
