--------------------------- MODULE ChatClientProofs ---------------------------
(*****************************************************************************)
(* Facts about the connections of ChatClient.tla that the proofs about both   *)
(* hubs use: threads, channels, and the steps that the two modes share.       *)
(*****************************************************************************)
EXTENDS ChatClient, TLAPS, SequenceTheorems

-------------------------------------------------------------------------------
(* Facts about threads and channels                                           *)

\* The threads of the connections are pairwise distinct, and none is the hub or
\* the free mark of the mutex.
LEMMA ThreadFacts ==
  /\ \A c \in Conn : /\ Reader(c) \in Thread /\ Writer(c) \in Thread /\ Beat(c) \in Thread
                     /\ Reader(c)[2] = c /\ Writer(c)[2] = c /\ Beat(c)[2] = c
  /\ \A c, d \in Conn : /\ Reader(c) # Writer(d) /\ Reader(c) # Beat(d) /\ Writer(c) # Beat(d)
                        /\ Reader(c) = Reader(d) => c = d
                        /\ Beat(c) = Beat(d) => c = d
                        /\ Writer(c) = Writer(d) => c = d
  /\ Hub \notin Thread /\ Free \notin Thread /\ Hub # Free
BY ConnAssumption DEF Thread, Reader, Writer, Beat, Hub, Free

\* Sending on a channel adds its argument at the end, and nothing else.
LEMMA AppendFacts ==
  ASSUME NEW S, NEW ch \in Seq(S), NEW x \in S
  PROVE  /\ Append(ch, x) \in Seq(S)
         /\ Len(Append(ch, x)) = Len(ch) + 1
         /\ \A y : InChannel(y, Append(ch, x)) <=> InChannel(y, ch) \/ y = x
<1>1. /\ Append(ch, x) \in Seq(S)
      /\ Len(Append(ch, x)) = Len(ch) + 1
      /\ \A i \in 1 .. Len(ch) : Append(ch, x)[i] = ch[i]
      /\ Append(ch, x)[Len(ch) + 1] = x
  BY AppendProperties
<1>2. /\ DOMAIN ch = 1 .. Len(ch) /\ Len(ch) \in Nat
      /\ DOMAIN Append(ch, x) = 1 .. (Len(ch) + 1)
  BY <1>1, LenProperties
<1>3. ASSUME NEW y
      PROVE  InChannel(y, Append(ch, x)) <=> InChannel(y, ch) \/ y = x
  BY <1>1, <1>2 DEF InChannel
<1>4. QED
  BY <1>1, <1>3

\* Receiving from a channel takes its first element, and nothing else.
LEMMA TailFacts ==
  ASSUME NEW S, NEW ch \in Seq(S), ch # <<>>
  PROVE  /\ Head(ch) \in S /\ InChannel(Head(ch), ch)
         /\ Tail(ch) \in Seq(S) /\ Len(Tail(ch)) < Len(ch)
         /\ \A y : InChannel(y, ch) <=> InChannel(y, Tail(ch)) \/ y = Head(ch)
<1>1. /\ Head(ch) \in S /\ Head(ch) = ch[1]
      /\ Tail(ch) \in Seq(S)
      /\ Len(Tail(ch)) = Len(ch) - 1
      /\ \A i \in 1 .. Len(Tail(ch)) : Tail(ch)[i] = ch[i + 1]
  BY HeadTailProperties
<1>2. /\ Len(ch) \in Nat /\ Len(ch) > 0 /\ DOMAIN ch = 1 .. Len(ch)
      /\ DOMAIN Tail(ch) = 1 .. (Len(ch) - 1)
  BY <1>1, EmptySeq, LenProperties
<1>3. ASSUME NEW y, InChannel(y, ch)
      PROVE  InChannel(y, Tail(ch)) \/ y = Head(ch)
  <2>1. PICK i \in 1 .. Len(ch) : ch[i] = y
    BY <1>2, <1>3 DEF InChannel
  <2>2. CASE i = 1
    BY <2>1, <2>2, <1>1
  <2>3. CASE i # 1
    <3>1. i - 1 \in 1 .. Len(Tail(ch)) /\ Tail(ch)[i - 1] = ch[i]
      BY <2>3, <1>1, <1>2
    <3>2. QED
      BY <3>1, <2>1, <1>1, <1>2 DEF InChannel
  <2>4. QED
    BY <2>2, <2>3
<1>4. ASSUME NEW y, InChannel(y, Tail(ch)) \/ y = Head(ch)
      PROVE  InChannel(y, ch)
  <2>1. CASE y = Head(ch)
    BY <2>1, <1>1, <1>2 DEF InChannel
  <2>2. CASE InChannel(y, Tail(ch))
    <3>1. PICK i \in 1 .. (Len(ch) - 1) : Tail(ch)[i] = y
      BY <2>2, <1>2 DEF InChannel
    <3>2. i + 1 \in 1 .. Len(ch) /\ ch[i + 1] = y
      BY <3>1, <1>1, <1>2
    <3>3. QED
      BY <3>2, <1>2 DEF InChannel
  <2>3. QED
    BY <1>4, <2>1, <2>2
<1>5. QED
  BY <1>1, <1>2, <1>3, <1>4

\* What a channel of a type holds is of the type.
LEMMA InChannelType ==
  ASSUME NEW S, NEW ch \in Seq(S), NEW x, InChannel(x, ch)
  PROVE  x \in S
BY LenProperties DEF InChannel

\* Sending what a channel does not hold keeps it free of repetitions.
LEMMA NoRepeatAppend ==
  ASSUME NEW S, NEW ch \in Seq(S), NEW x \in S, NoRepeat(ch), ~InChannel(x, ch)
  PROVE  NoRepeat(Append(ch, x))
<1>1. /\ DOMAIN ch = 1 .. Len(ch) /\ Len(ch) \in Nat
      /\ DOMAIN Append(ch, x) = 1 .. (Len(ch) + 1)
      /\ \A i \in 1 .. Len(ch) : Append(ch, x)[i] = ch[i]
      /\ Append(ch, x)[Len(ch) + 1] = x
  BY AppendProperties, LenProperties, AppendFacts
<1>2. \A i \in 1 .. Len(ch) : ch[i] # x
  BY <1>1 DEF InChannel
<1>3. QED
  BY <1>1, <1>2 DEF NoRepeat

\* What is received from a channel without repetitions is no longer in it.
LEMMA NoRepeatTail ==
  ASSUME NEW S, NEW ch \in Seq(S), ch # <<>>, NoRepeat(ch)
  PROVE  NoRepeat(Tail(ch)) /\ ~InChannel(Head(ch), Tail(ch))
<1>1. /\ Len(ch) \in Nat /\ Len(ch) > 0 /\ DOMAIN ch = 1 .. Len(ch)
      /\ DOMAIN Tail(ch) = 1 .. (Len(ch) - 1)
      /\ \A i \in 1 .. (Len(ch) - 1) : Tail(ch)[i] = ch[i + 1]
      /\ Head(ch) = ch[1]
  BY HeadTailProperties, EmptySeq, LenProperties
<1>2. ASSUME NEW i \in 1 .. (Len(ch) - 1), NEW j \in 1 .. (Len(ch) - 1), Tail(ch)[i] = Tail(ch)[j]
      PROVE  i = j
  <2>1. i + 1 \in DOMAIN ch /\ j + 1 \in DOMAIN ch /\ ch[i + 1] = ch[j + 1]
    BY <1>1, <1>2
  <2>2. i + 1 = j + 1
    BY <2>1 DEF NoRepeat
  <2>3. QED
    BY <2>2
<1>3. ASSUME NEW i \in 1 .. (Len(ch) - 1), Tail(ch)[i] = Head(ch)
      PROVE  FALSE
  <2>1. i + 1 \in DOMAIN ch /\ 1 \in DOMAIN ch /\ ch[i + 1] = ch[1]
    BY <1>1, <1>3
  <2>2. i + 1 = 1
    BY <2>1 DEF NoRepeat
  <2>3. QED
    BY <2>2
<1>4. QED
  BY <1>1, <1>2, <1>3 DEF NoRepeat, InChannel

-------------------------------------------------------------------------------
(* The steps that both modules share                                          *)

\* A step of a connection that does not involve the hub keeps the types.
LEMMA ClientTypes ==
  ASSUME ClientTypeOK, NEW c \in Conn, NEW t \in {Reader(c), Beat(c)},
         \/ Dial(c) \/ PeerGone(c) \/ LoginLock(c)
         \/ Write(c) \/ WriteError(c) \/ WriteEnd(c) \/ HeartBeatDone(c)
         \/ LogoutLock(t) \/ GetClient(t) \/ CloseConn(t) \/ CloseChans(t)
  PROVE  ClientTypeOK'
<1> USE ThreadFacts, ConnAssumption DEF ClientTypeOK, PCs, Critical, Goto, Lock
<1>1. CASE Dial(c)
  BY <1>1 DEF Dial
<1>2. CASE PeerGone(c)
  BY <1>2 DEF PeerGone
<1>3. CASE LoginLock(c)
  BY <1>3 DEF LoginLock
<1>4. CASE Write(c)
  <2>1. SendBack[c] \in Seq(Entry) /\ SendBack[c] # <<>> /\ Len(SendBack[c]) <= ChannelSize
    BY <1>4 DEF Write
  <2>2. /\ Head(SendBack[c]) \in Entry /\ Head(SendBack[c]).msg \in Msg
        /\ Tail(SendBack[c]) \in Seq(Entry) /\ Len(Tail(SendBack[c])) <= ChannelSize
    <3>1. Head(SendBack[c]) \in Entry /\ Tail(SendBack[c]) \in Seq(Entry)
          /\ Len(Tail(SendBack[c])) < Len(SendBack[c])
      BY <2>1, TailFacts
    <3>2. Len(Tail(SendBack[c])) \in Nat /\ Len(SendBack[c]) \in Nat
      BY <2>1, <3>1, LenProperties
    <3>3. QED
      BY <2>1, <3>1, <3>2, SizeAssumption DEF Entry
  <2>3. wire' \in [Conn -> SUBSET Entry] /\ status' \in [Msg -> {"absent", "unsent", "sent"}]
    BY <1>4, <2>2 DEF Write
  <2>4. QED
    BY <1>4, <2>2, <2>3 DEF Write
<1>5. CASE WriteError(c)
  <2>1. SendBack[c] \in Seq(Entry) /\ SendBack[c] # <<>> /\ Len(SendBack[c]) <= ChannelSize
    BY <1>5 DEF WriteError
  <2>2. Tail(SendBack[c]) \in Seq(Entry) /\ Len(Tail(SendBack[c])) <= ChannelSize
    <3>1. Tail(SendBack[c]) \in Seq(Entry) /\ Len(Tail(SendBack[c])) < Len(SendBack[c])
      BY <2>1, TailFacts
    <3>2. Len(Tail(SendBack[c])) \in Nat /\ Len(SendBack[c]) \in Nat
      BY <2>1, <3>1, LenProperties
    <3>3. QED
      BY <2>1, <3>1, <3>2, SizeAssumption
  <2>3. QED
    BY <1>5, <2>2 DEF WriteError
<1>6. CASE WriteEnd(c)
  BY <1>6 DEF WriteEnd
<1>7. CASE HeartBeatDone(c)
  BY <1>7 DEF HeartBeatDone
<1>8. CASE LogoutLock(t)
  BY <1>8 DEF LogoutLock
<1>9. CASE GetClient(t)
  BY <1>9 DEF GetClient
<1>10. CASE CloseConn(t)
  BY <1>10 DEF CloseConn, CloseErr
<1>11. CASE CloseChans(t)
  BY <1>11 DEF CloseChans
<1>12. QED
  BY <1>1, <1>2, <1>3, <1>4, <1>5, <1>6, <1>7, <1>8, <1>9, <1>10, <1>11

-------------------------------------------------------------------------------
(* What a connection is shown                                                 *)

\* The members of a group are listed once each: without it a member who is listed
\* twice is sent the group's messages twice.
DistinctMembers == \A g \in Group : NoRepeat(Members[g])

\* A connection may get an entry it has not been shown.
LEMMA OnceAppend ==
  ASSUME NEW ch \in Seq(Entry), NEW w, NEW e \in Entry, ConnOnce(ch, w),
         ToSelf(e.msg) \/ (~InChannel(e, ch) /\ e \notin w)
  PROVE  ConnOnce(Append(ch, e), w)
<1>1. /\ DOMAIN ch = 1 .. Len(ch) /\ Len(ch) \in Nat
      /\ DOMAIN Append(ch, e) = 1 .. (Len(ch) + 1)
      /\ \A i \in 1 .. Len(ch) : Append(ch, e)[i] = ch[i]
      /\ Append(ch, e)[Len(ch) + 1] = e
      /\ \A x : InChannel(x, Append(ch, e)) <=> InChannel(x, ch) \/ x = e
  BY AppendProperties, LenProperties, AppendFacts
<1>2. ASSUME NEW i \in 1 .. (Len(ch) + 1), NEW j \in 1 .. (Len(ch) + 1), i # j,
             Append(ch, e)[i] = Append(ch, e)[j]
      PROVE  ToSelf(Append(ch, e)[i].msg)
  <2>1. CASE i \in 1 .. Len(ch) /\ j \in 1 .. Len(ch)
    BY <1>1, <1>2, <2>1 DEF ConnOnce
  <2>2. CASE ~(i \in 1 .. Len(ch) /\ j \in 1 .. Len(ch))
    <3>1. \E k \in 1 .. Len(ch) : ch[k] = e
      BY <1>1, <1>2, <2>2
    <3>2. Append(ch, e)[i] = e
      BY <1>1, <1>2, <2>2
    <3>3. QED
      BY <1>1, <3>1, <3>2 DEF InChannel
  <2>3. QED
    BY <2>1, <2>2
<1>3. QED
  BY <1>1, <1>2 DEF ConnOnce

\* What Write takes from the channel is not there a second time.
LEMMA OnceTail ==
  ASSUME NEW ch \in Seq(Entry), ch # <<>>, NEW w, ConnOnce(ch, w)
  PROVE  ConnOnce(Tail(ch), w) /\ ConnOnce(Tail(ch), w \cup {Head(ch)})
<1>1. /\ Len(ch) \in Nat /\ Len(ch) > 0 /\ DOMAIN ch = 1 .. Len(ch)
      /\ DOMAIN Tail(ch) = 1 .. (Len(ch) - 1)
      /\ \A i \in 1 .. (Len(ch) - 1) : Tail(ch)[i] = ch[i + 1]
      /\ Head(ch) = ch[1]
  BY HeadTailProperties, EmptySeq, LenProperties
<1>2. ASSUME NEW i \in 1 .. (Len(ch) - 1), NEW j \in 1 .. (Len(ch) - 1), i # j
      PROVE  Tail(ch)[i] # Tail(ch)[j] \/ ToSelf(Tail(ch)[i].msg)
  <2>1. i + 1 \in DOMAIN ch /\ j + 1 \in DOMAIN ch /\ i + 1 # j + 1
    BY <1>1, <1>2
  <2>2. ch[i + 1] # ch[j + 1] \/ ToSelf(ch[i + 1].msg)
    BY <2>1 DEF ConnOnce
  <2>3. QED
    BY <1>1, <2>2
<1>3. InChannel(Head(ch), Tail(ch)) => ToSelf(Head(ch).msg)
  <2>1. ASSUME NEW i \in 1 .. (Len(ch) - 1), Tail(ch)[i] = Head(ch)
        PROVE  ToSelf(Head(ch).msg)
    <3>1. 1 \in DOMAIN ch /\ i + 1 \in DOMAIN ch /\ 1 # i + 1 /\ ch[1] = ch[i + 1]
      BY <1>1, <2>1
    <3>2. QED
      BY <1>1, <3>1 DEF ConnOnce
  <2>2. QED
    BY <1>1, <2>1 DEF InChannel
<1>4. \A x : InChannel(x, Tail(ch)) => InChannel(x, ch)
  BY TailFacts
<1>5. QED
  BY <1>1, <1>2, <1>3, <1>4 DEF ConnOnce

===============================================================================
