--------------------------- MODULE MessageCacheProofs ---------------------------
(*****************************************************************************)
(* Theorems about MessageCache.tla, for any messages, users, groups and       *)
(* number of requests, whichever calls fail.                                  *)
(*****************************************************************************)
EXTENDS MessageCache, TLAPS, SequenceTheorems, FiniteSetTheorems, WellFoundedInduction

-------------------------------------------------------------------------------
(* Lists                                                                      *)

\* What holds of 0, and of every number up to n when of the one before it, holds of all
\* of them: there is no least exception.
LEMMA Induction ==
  ASSUME NEW T, NEW n \in Nat, 0 \in T, \A i \in 1..n : i - 1 \in T => i \in T
  PROVE  \A i \in 0..n : i \in T
<1> DEFINE Missing == {i \in 0..n : i \notin T}
<1> SUFFICES ASSUME Missing # {} PROVE FALSE
  OBVIOUS
<1>1. IsWellFoundedOn(OpToRel(<, Nat), Nat)
  BY NatLessThanWellFounded
<1>2. Missing \subseteq Nat
  OBVIOUS
<1> HIDE DEF Missing
<1>3. PICK i \in Missing : \A j \in Missing : ~(<<j, i>> \in OpToRel(<, Nat))
  BY <1>1, <1>2, WFMin
<1>4. \A j \in Missing : ~(j < i)
  BY <1>2, <1>3 DEF OpToRel
<1> USE DEF Missing
<1>5. i \in 1..n /\ i - 1 \in 0..n /\ i - 1 < i /\ i \notin T
  OBVIOUS
<1>6. i - 1 \notin T
  BY <1>5
<1>7. QED
  BY <1>4, <1>5, <1>6

\* What the loop of Select does, step by step.
Loop(kept, s, P, n) ==
    /\ kept[0] = <<>>
    /\ \A i \in 1..n : kept[i] = IF s[i] \in P THEN Append(kept[i - 1], s[i]) ELSE kept[i - 1]

\* Select returns what the loop has kept in the end, and lists stay lists.
LEMMA SelectIsLoop ==
  ASSUME NEW S, NEW s \in Seq(S), NEW P
  PROVE  \E kept \in [0..Len(s) -> Seq(S)] :
            Loop(kept, s, P, Len(s)) /\ Select(s, P) = kept[Len(s)]
<1> DEFINE Step(ks, i) == IF s[i] \in P THEN Append(ks, s[i]) ELSE ks
           Built == {n \in 0..Len(s) : \E f \in [0..n -> Seq(S)] : Loop(f, s, P, n)}
           Eq(f) == f = [n \in 0..Len(s) |-> IF n = 0 THEN <<>>
                           ELSE IF s[n] \in P THEN Append(f[n - 1], s[n]) ELSE f[n - 1]]
           kept == CHOOSE f : Eq(f)
           Typed == {n \in 0..Len(s) : kept[n] \in Seq(S)}
<1>1. Len(s) \in Nat /\ \A i \in 1..Len(s) : s[i] \in S
  BY LenProperties, ElementOfSeq
<1>2. \A ks \in Seq(S), i \in 1..Len(s) : Step(ks, i) \in Seq(S)
  BY <1>1, AppendProperties
<1>3. 0 \in Built
  <2> DEFINE f == [i \in 0..0 |-> <<>>]
  <2>1. f \in [0..0 -> Seq(S)] /\ Loop(f, s, P, 0)
    BY EmptySeq DEF Loop
  <2> HIDE DEF f
  <2>2. 0 \in 0..Len(s)
    BY <1>1
  <2>3. QED
    BY <2>1, <2>2
<1>4. ASSUME NEW n \in 1..Len(s), n - 1 \in Built
      PROVE  n \in Built
  <2>1. PICK f \in [0..(n - 1) -> Seq(S)] : Loop(f, s, P, n - 1)
    BY <1>4
  <2> DEFINE g == [i \in 0..n |-> IF i = n THEN Step(f[n - 1], n) ELSE f[i]]
  <2>2. n - 1 \in 0..(n - 1) /\ f[n - 1] \in Seq(S)
    BY <1>1
  <2>3. Step(f[n - 1], n) \in Seq(S)
    BY <1>2, <2>2
  <2> HIDE DEF Step
  <2>4. g \in [0..n -> Seq(S)]
    BY <1>1, <2>3
  <2>5. g[0] = <<>>
    BY <1>1, <2>1 DEF Loop
  <2>6. ASSUME NEW i \in 1..n
        PROVE  g[i] = Step(g[i - 1], i)
    <3>1. CASE i = n
      BY <1>1, <3>1
    <3>2. CASE i # n
      <4>1. i \in 1..(n - 1) /\ i - 1 \in 0..n /\ i - 1 # n
        BY <1>1, <3>2
      <4>2. f[i] = Step(f[i - 1], i)
        BY <2>1, <4>1 DEF Loop, Step
      <4>3. QED
        BY <3>2, <4>1, <4>2
    <3>3. QED
      BY <3>1, <3>2
  <2>7. Loop(g, s, P, n)
    BY <2>5, <2>6 DEF Loop, Step
  <2> HIDE DEF g
  <2>8. QED
    BY <2>4, <2>7
<1>5. Len(s) \in Built
  <2> HIDE DEF Built
  <2>1. \A i \in 0..Len(s) : i \in Built
    BY <1>1, <1>3, <1>4, Induction
  <2>2. QED
    BY <1>1, <2>1
<1>6. \E f : Eq(f)
  <2>1. PICK f \in [0..Len(s) -> Seq(S)] : Loop(f, s, P, Len(s))
    BY <1>5
  <2>2. ASSUME NEW n \in 0..Len(s)
        PROVE  f[n] = IF n = 0 THEN <<>>
                      ELSE IF s[n] \in P THEN Append(f[n - 1], s[n]) ELSE f[n - 1]
    <3>1. CASE n = 0
      BY <2>1, <3>1 DEF Loop
    <3>2. CASE n # 0
      <4>1. n \in 1..Len(s)
        BY <1>1, <3>2
      <4>2. QED
        BY <2>1, <3>2, <4>1 DEF Loop
    <3>3. QED
      BY <3>1, <3>2
  <2>3. Eq(f)
    BY <2>1, <2>2
  <2>4. QED
    BY <2>3
<1>7. Eq(kept)
  <2> HIDE DEF Eq
  <2>1. QED
    BY <1>6
<1>8. Select(s, P) = kept[Len(s)]
  BY DEF Select
<1> HIDE DEF kept
<1>9. Loop(kept, s, P, Len(s))
  <2>1. kept[0] = <<>>
    BY <1>1, <1>7
  <2>2. ASSUME NEW i \in 1..Len(s)
        PROVE  kept[i] = IF s[i] \in P THEN Append(kept[i - 1], s[i]) ELSE kept[i - 1]
    <3>1. i \in 0..Len(s) /\ i # 0
      BY <1>1
    <3>2. QED
      BY <1>7, <3>1
  <2>3. QED
    BY <2>1, <2>2 DEF Loop
<1>10. \A n \in 0..Len(s) : n \in Typed
  <2>1. 0 \in Typed
    <3>1. kept[0] = <<>> /\ 0 \in 0..Len(s)
      BY <1>1, <1>9 DEF Loop
    <3>2. QED
      BY <3>1, EmptySeq
  <2>2. ASSUME NEW n \in 1..Len(s), n - 1 \in Typed
        PROVE  n \in Typed
    <3>1. kept[n] = Step(kept[n - 1], n) /\ kept[n - 1] \in Seq(S)
      BY <1>9, <2>2 DEF Loop
    <3>2. Step(kept[n - 1], n) \in Seq(S)
      <4> HIDE DEF Step
      <4>1. QED
        BY <1>2, <3>1
    <3>3. n \in 0..Len(s)
      BY <1>1
    <3> HIDE DEF Step
    <3>4. QED
      BY <3>1, <3>2, <3>3
  <2> HIDE DEF Typed
  <2>3. QED
    BY <1>1, <2>1, <2>2, Induction
<1>11. kept \in [0..Len(s) -> Seq(S)]
  <2>1. kept = [n \in 0..Len(s) |-> kept[n]]
    BY <1>7
  <2>2. QED
    BY <1>10, <2>1
<1>12. QED
  BY <1>8, <1>9, <1>11

\* A list with one more at its end.
LEMMA AppendFacts ==
  ASSUME NEW S, NEW s \in Seq(S), NEW x \in S
  PROVE  /\ Append(s, x) \in Seq(S) /\ Len(s) \in Nat /\ DOMAIN s = 1..Len(s)
         /\ Len(Append(s, x)) = Len(s) + 1 /\ DOMAIN Append(s, x) = 1..(Len(s) + 1)
         /\ \A i \in 1..Len(s) : Append(s, x)[i] = s[i]
         /\ Append(s, x)[Len(s) + 1] = x
BY AppendProperties, LenProperties

\* What is selected is from the list, is all that was to be selected, and is in the
\* list's order, whatever relation R that order is.
LEMMA SelectFacts ==
  ASSUME NEW S, NEW s \in Seq(S), NEW P, NEW R,
         \A i, j \in DOMAIN s : i < j => <<s[i], s[j]>> \in R
  PROVE  /\ Select(s, P) \in Seq(S)
         /\ \A j \in DOMAIN Select(s, P) :
              Select(s, P)[j] \in P /\ \E i \in DOMAIN s : s[i] = Select(s, P)[j]
         /\ \A i, j \in DOMAIN Select(s, P) :
              i < j => <<Select(s, P)[i], Select(s, P)[j]>> \in R
         /\ \A i \in DOMAIN s : s[i] \in P => \E j \in DOMAIN Select(s, P) : Select(s, P)[j] = s[i]
<1>1. PICK kept \in [0..Len(s) -> Seq(S)] :
         Loop(kept, s, P, Len(s)) /\ Select(s, P) = kept[Len(s)]
  BY SelectIsLoop
<1>2. Len(s) \in Nat /\ DOMAIN s = 1..Len(s) /\ \A i \in 1..Len(s) : s[i] \in S
  BY LenProperties, ElementOfSeq
<1> DEFINE From(ks, n) == \A j \in DOMAIN ks : ks[j] \in P /\ \E i \in 1..n : s[i] = ks[j]
           Ordered(ks) == \A i, j \in DOMAIN ks : i < j => <<ks[i], ks[j]>> \in R
           All(ks, n) == \A i \in 1..n : s[i] \in P => \E j \in DOMAIN ks : ks[j] = s[i]
           Good == {n \in 0..Len(s) : From(kept[n], n) /\ Ordered(kept[n]) /\ All(kept[n], n)}
<1>3. 0 \in Good
  <2>1. kept[0] = <<>> /\ 0 \in 0..Len(s)
    BY <1>1, <1>2 DEF Loop
  <2>2. DOMAIN kept[0] = {}
    BY <2>1
  <2>3. QED
    BY <2>1, <2>2
<1>4. ASSUME NEW n \in 1..Len(s), n - 1 \in Good
      PROVE  n \in Good
  <2>1. /\ n \in 0..Len(s) /\ n - 1 \in 0..Len(s) /\ kept[n - 1] \in Seq(S) /\ s[n] \in S
        /\ From(kept[n - 1], n - 1) /\ Ordered(kept[n - 1]) /\ All(kept[n - 1], n - 1)
    BY <1>2, <1>4, SMTT(30)
  <2>2. CASE s[n] \notin P
    <3>1. kept[n] = kept[n - 1]
      BY <1>1, <2>2 DEF Loop
    <3>2. From(kept[n], n)
      BY <2>1, <3>1
    <3>3. All(kept[n], n)
      BY <2>1, <2>2, <3>1
    <3>4. QED
      BY <2>1, <3>1, <3>2, <3>3
  <2>3. CASE s[n] \in P
    <3> DEFINE ks == kept[n - 1]
    <3>1. kept[n] = Append(ks, s[n])
      BY <1>1, <2>3 DEF Loop
    <3>2. /\ Len(ks) \in Nat /\ DOMAIN ks = 1..Len(ks)
          /\ DOMAIN kept[n] = 1..(Len(ks) + 1)
          /\ \A i \in 1..Len(ks) : kept[n][i] = ks[i]
          /\ kept[n][Len(ks) + 1] = s[n]
      BY <2>1, <3>1, AppendFacts
    <3> HIDE DEF ks
    <3>3. From(kept[n], n)
      <4> SUFFICES ASSUME NEW j \in DOMAIN kept[n]
                   PROVE  kept[n][j] \in P /\ \E i \in 1..n : s[i] = kept[n][j]
        OBVIOUS
      <4>1. CASE j = Len(ks) + 1
        BY <2>3, <3>2, <4>1
      <4>2. CASE j # Len(ks) + 1
        <5>1. j \in DOMAIN ks /\ kept[n][j] = ks[j]
          BY <3>2, <4>2
        <5>2. ks[j] \in P /\ \E i \in 1..(n - 1) : s[i] = ks[j]
          BY <2>1, <5>1 DEF ks
        <5>3. QED
          BY <5>1, <5>2
      <4>3. QED
        BY <4>1, <4>2
    <3>4. Ordered(kept[n])
      <4> SUFFICES ASSUME NEW i \in DOMAIN kept[n], NEW j \in DOMAIN kept[n], i < j
                   PROVE  <<kept[n][i], kept[n][j]>> \in R
        OBVIOUS
      <4>1. i \in DOMAIN ks /\ kept[n][i] = ks[i]
        BY <3>2
      <4>2. CASE j = Len(ks) + 1
        <5>1. PICK h \in 1..(n - 1) : s[h] = ks[i]
          BY <2>1, <4>1 DEF ks
        <5>2. h \in DOMAIN s /\ n \in DOMAIN s /\ h < n
          BY <1>2, <5>1
        <5>3. QED
          BY <3>2, <4>1, <4>2, <5>1, <5>2
      <4>3. CASE j # Len(ks) + 1
        <5>1. j \in DOMAIN ks /\ kept[n][j] = ks[j]
          BY <3>2, <4>3
        <5>2. QED
          BY <2>1, <4>1, <5>1 DEF ks
      <4>4. QED
        BY <4>2, <4>3
    <3>5. All(kept[n], n)
      <4> SUFFICES ASSUME NEW i \in 1..n, s[i] \in P
                   PROVE  \E j \in DOMAIN kept[n] : kept[n][j] = s[i]
        OBVIOUS
      <4>1. CASE i = n
        BY <3>2, <4>1
      <4>2. CASE i # n
        <5>1. i \in 1..(n - 1)
          BY <4>2
        <5>2. PICK j \in DOMAIN ks : ks[j] = s[i]
          BY <2>1, <5>1 DEF ks
        <5>3. QED
          BY <3>2, <5>2
      <4>3. QED
        BY <4>1, <4>2
    <3>6. QED
      BY <2>1, <3>3, <3>4, <3>5
  <2>4. QED
    BY <2>2, <2>3
<1>5. Len(s) \in Good
  <2> HIDE DEF Good
  <2>1. \A n \in 0..Len(s) : n \in Good
    BY <1>2, <1>3, <1>4, Induction
  <2>2. QED
    BY <1>2, <2>1
<1>6. QED
  BY <1>1, <1>2, <1>5

-------------------------------------------------------------------------------
(* Types                                                                      *)

\* The hub writes to a key only if it found it.
TypeInv == TypeOK /\ (hubAt = "set" => KeyOf(hubMsg) \in Key)

AnyKey == CHOOSE k \in Key : TRUE

\* There is a key at all: there are two users, or a group.
LEMMA AnyKeyIsKey == AnyKey \in Key
BY AskedAssumption DEF AnyKey

\* A history is a list of messages.
LEMMA HistoryType ==
  ASSUME table \in Seq(Msg), NEW k
  PROVE  History(k) \in Seq(Msg)
<1> DEFINE P == {m \in Msg : Concerns(m, k)}
<1>1. PICK kept \in [0..Len(table) -> Seq(Msg)] : Select(table, P) = kept[Len(table)]
  BY SelectIsLoop
<1>2. Len(table) \in 0..Len(table)
  BY LenProperties
<1>3. QED
  BY <1>1, <1>2 DEF History

\* Nothing is cached at the start.
LEMMA TypeInit == Init => TypeInv
<1> SUFFICES ASSUME Init PROVE TypeInv
  OBVIOUS
<1>1. <<>> \in Seq(Msg)
  BY EmptySeq
<1>2. readKey \in [Request -> Key]
  BY AnyKeyIsKey DEF Init, AnyKey
<1>3. QED
  BY <1>1, <1>2, MsgAssumption DEF Init, TypeInv, TypeOK

\* Messages of the hub, one call at a time.
LEMMA TypeHub ==
  ASSUME TypeInv, Hub
  PROVE  TypeInv'
<1> USE DEF TypeInv
<1>1. /\ UNCHANGED <<table, readAt, readKey, readList, handled>> /\ torn' \in BOOLEAN
      /\ hubAt # "select" /\ hubMsg \in Msg /\ hubMsg # NoMsg
  BY MsgAssumption DEF Hub, Validate, HubGet, HubSet, TypeOK, readVars
<1>2. <<>> \in Seq(Msg)
  BY EmptySeq
<1>3. CASE Validate
  <2>1. UNCHANGED <<cached, list>>
    BY <1>3 DEF Validate
  <2>2. /\ hubAt' = "select" <=> hubMsg' = NoMsg
        /\ hubAt' \in {"select", "get"} /\ hubMsg' \in Msg \cup {NoMsg} /\ hubList' = <<>>
        /\ delivered' \subseteq Msg
    BY <1>1, <1>3 DEF Validate, Accept, HubDone, TypeOK
  <2>3. QED
    BY <1>1, <1>2, <2>1, <2>2 DEF TypeOK
<1>4. CASE HubGet
  <2>1. UNCHANGED <<cached, list, delivered>>
    BY <1>4 DEF HubGet
  <2>2. CASE /\ KeyOf(hubMsg) \in cached /\ UNCHANGED hubMsg
             /\ hubAt' = "set" /\ hubList' = list[KeyOf(hubMsg)]
    <3>1. KeyOf(hubMsg) \in Key /\ KeyOf(hubMsg)' = KeyOf(hubMsg)
      BY <2>2 DEF TypeOK, KeyOf, InGroup
    <3>2. hubList' \in Seq(Msg)
      BY <2>2, <3>1 DEF TypeOK
    <3>3. QED
      BY <1>1, <2>1, <2>2, <3>1, <3>2 DEF TypeOK
  <2>3. CASE HubDone
    BY <1>1, <1>2, <2>1, <2>3 DEF TypeOK, HubDone
  <2>4. QED
    BY <1>4, <2>2, <2>3 DEF HubGet
<1>5. CASE HubSet
  <2>1. /\ HubDone /\ UNCHANGED delivered
        /\ SetKeyEx(KeyOf(hubMsg), Append(hubList, hubMsg)) \/ UNCHANGED <<cached, list>>
    BY <1>5 DEF HubSet
  <2>2. /\ cached' \subseteq Key /\ list' \in [Key -> Seq(Msg)]
        /\ \A k \in Key : k \notin cached' => list'[k] = <<>>
    <3>1. CASE SetKeyEx(KeyOf(hubMsg), Append(hubList, hubMsg))
      <4> DEFINE k == KeyOf(hubMsg)
                 ms == Append(hubList, hubMsg)
      <4>1. k \in Key
        BY <1>5 DEF HubSet
      <4>2. ms \in Seq(Msg)
        BY <1>1, AppendFacts DEF TypeOK
      <4>3. cached' = cached \cup {k} /\ list' = [list EXCEPT ![k] = ms]
        BY <3>1 DEF SetKeyEx
      <4> HIDE DEF k, ms
      <4>4. QED
        BY <4>1, <4>2, <4>3 DEF TypeOK
    <3>2. CASE UNCHANGED <<cached, list>>
      BY <3>2 DEF TypeOK
    <3>3. QED
      BY <2>1, <3>1, <3>2
  <2>3. QED
    BY <1>1, <1>2, <2>1, <2>2 DEF TypeOK, HubDone
<1>6. QED
  BY <1>3, <1>4, <1>5 DEF Hub

\* A message the hub takes.
LEMMA TypeStore ==
  ASSUME TypeInv, NEW m \in Msg, Store(m)
  PROVE  TypeInv'
<1> USE DEF TypeInv
<1>1. /\ UNCHANGED <<cached, list, readAt, readKey, readList>> /\ hubAt = "select"
      /\ handled' = Append(handled, m) /\ torn' = (torn \/ ~NobodyReads)
      /\ table' = Append(table, m) \/ table' = table
      /\ m # NoMsg
  BY MsgAssumption DEF Store, HubFree, readVars
<1>2. handled' \in Seq(Msg) /\ table' \in Seq(Msg) /\ <<>> \in Seq(Msg)
  <2>1. table \in Seq(Msg) /\ handled \in Seq(Msg)
    BY DEF TypeOK
  <2>2. Append(table, m) \in Seq(Msg) /\ Append(handled, m) \in Seq(Msg)
    BY <2>1, AppendFacts
  <2>3. QED
    BY <1>1, <2>1, <2>2, EmptySeq
<1>3. /\ hubAt' = "select" <=> hubMsg' = NoMsg
      /\ hubAt' \in {"select", "validate", "get"} /\ hubMsg' \in Msg \cup {NoMsg} /\ hubList' = <<>>
      /\ delivered' \subseteq Msg
  BY <1>1 DEF Store, Accept, TypeOK
<1>4. torn' \in BOOLEAN
  BY <1>1 DEF TypeOK, NobodyReads
<1>5. QED
  BY <1>1, <1>2, <1>3, <1>4 DEF TypeOK

\* A request's calls.
LEMMA TypeRead ==
  ASSUME TypeInv, NEW r \in Request, Answer(r) \/ \E k \in Asked : Get(r, k)
  PROVE  TypeInv'
<1> USE DEF TypeInv
<1>1. UNCHANGED <<table, hubAt, hubMsg, hubList, handled, delivered>>
  BY DEF Answer, Fetch, Put, Get, hubVars
<1>2. <<>> \in Seq(Msg) /\ readKey[r] \in Key
  BY EmptySeq DEF TypeOK
<1>3. /\ readAt' \in [Request -> {"idle", "fetch", "put"}]
      /\ readKey' \in [Request -> Key] /\ readList' \in [Request -> Seq(Msg)]
      /\ \A q \in Request : readAt'[q] # "put" => readList'[q] = <<>>
  <2>1. CASE ReadDone(r)
    <3>1. readKey' = [readKey EXCEPT ![r] = AnyKey] /\ AnyKey \in Key
      BY <2>1, AnyKeyIsKey DEF ReadDone, AnyKey
    <3>2. readAt' = [readAt EXCEPT ![r] = "idle"] /\ readList' = [readList EXCEPT ![r] = <<>>]
      BY <2>1 DEF ReadDone
    <3>3. QED
      BY <1>2, <3>1, <3>2 DEF TypeOK
  <2>2. CASE /\ readList' = [readList EXCEPT ![r] = History(readKey[r])]
             /\ readAt' = [readAt EXCEPT ![r] = "put"] /\ UNCHANGED readKey
    <3> DEFINE h == History(readKey[r])
    <3>1. h \in Seq(Msg)
      BY HistoryType DEF TypeOK
    <3>2. readList' = [readList EXCEPT ![r] = h]
      BY <2>2
    <3> HIDE DEF h
    <3>3. QED
      BY <2>2, <3>1, <3>2 DEF TypeOK
  <2>3. ASSUME NEW k \in Asked, Get(r, k)
        PROVE  /\ readAt' \in [Request -> {"idle", "fetch", "put"}]
               /\ readKey' \in [Request -> Key] /\ readList' \in [Request -> Seq(Msg)]
               /\ \A q \in Request : readAt'[q] # "put" => readList'[q] = <<>>
    BY <2>3, AskedAssumption DEF Get, TypeOK
  <2>4. QED
    BY <2>1, <2>2, <2>3 DEF Answer, Fetch, Put
<1>4. /\ cached' \subseteq Key /\ list' \in [Key -> Seq(Msg)]
      /\ \A k \in Key : k \notin cached' => list'[k] = <<>>
  <2>1. CASE SetKeyEx(readKey[r], readList[r])
    BY <1>2, <2>1 DEF SetKeyEx, TypeOK
  <2>2. CASE UNCHANGED <<cached, list>>
    BY <2>2 DEF TypeOK
  <2>3. QED
    BY <2>1, <2>2 DEF Answer, Fetch, Put, Get
<1>5. torn' \in BOOLEAN
  BY DEF Answer, Fetch, Put, Get, TypeOK, HubFree
<1>6. KeyOf(hubMsg)' = KeyOf(hubMsg)
  BY <1>1 DEF KeyOf, InGroup
<1>7. QED
  BY <1>1, <1>3, <1>4, <1>5, <1>6 DEF TypeOK

\* A key that expires, and a restart.
LEMMA TypeExpire ==
  ASSUME TypeInv, NEW k \in Key, Expire(k)
  PROVE  TypeInv'
<1>1. /\ cached' = cached \ {k} /\ list' = [list EXCEPT ![k] = <<>>]
      /\ UNCHANGED <<table, hubAt, hubMsg, hubList, handled, delivered, readAt, readKey, readList, torn>>
  BY DEF Expire, hubVars, readVars
<1>2. KeyOf(hubMsg)' = KeyOf(hubMsg)
  BY <1>1 DEF KeyOf, InGroup
<1>3. QED
  BY <1>1, <1>2, EmptySeq DEF TypeInv, TypeOK

\* A restart takes what is in memory, and leaves the table and the cache.
LEMMA TypeRestart ==
  ASSUME TypeInv, Restart
  PROVE  TypeInv'
<1>1. /\ UNCHANGED <<table, cached, list, handled, delivered>>
      /\ hubAt' = "select" /\ hubMsg' = NoMsg /\ hubList' = <<>>
      /\ readAt' = [r \in Request |-> "idle"] /\ readList' = [r \in Request |-> <<>>]
      /\ readKey' = [r \in Request |-> AnyKey]
      /\ torn' = (torn \/ ~HubFree)
  BY DEF Restart, HubDone, AnyKey
<1>2. readKey' \in [Request -> Key] /\ <<>> \in Seq(Msg)
  BY <1>1, AnyKeyIsKey, EmptySeq
<1>3. QED
  BY <1>1, <1>2 DEF TypeInv, TypeOK, HubFree

\* Every step keeps the types, one lemma per action.
LEMMA TypeStep == TypeInv /\ [Next]_vars => TypeInv'
<1> SUFFICES ASSUME TypeInv, [Next]_vars PROVE TypeInv'
  OBVIOUS
<1>1. CASE UNCHANGED vars
  <2>1. KeyOf(hubMsg)' = KeyOf(hubMsg)
    BY <1>1 DEF KeyOf, InGroup, vars, hubVars
  <2>2. QED
    BY <1>1, <2>1 DEF vars, hubVars, readVars, TypeInv, TypeOK
<1>2. QED
  BY <1>1, TypeHub, TypeStore, TypeRead, TypeExpire, TypeRestart DEF Next

\* TypeInv is an invariant.
LEMMA TypesHold == Spec => []TypeInv
BY TypeInit, TypeStep, PTL DEF Spec

\* message_service.go and the hub: nothing is under a key that does not exist, and who
\* is between two calls, and only he, holds a list - for any number of requests.
THEOREM TypeCorrect == Spec => []TypeOK
<1>1. TypeInv => TypeOK
  BY DEF TypeInv
<1>2. QED
  BY <1>1, TypesHold, PTL


-------------------------------------------------------------------------------
(* Order                                                                      *)

\* The messages in h, the place of one, and that each has one only.
Taken(h) == {h[i] : i \in DOMAIN h}
At(h, m) == CHOOSE i \in DOMAIN h : h[i] = m
Once(h) == \A i, j \in DOMAIN h : h[i] = h[j] => i = j

\* A list has messages of h, each once and in its order; or nearly so, as one message may
\* be there twice, next to itself; and all before the last are older than the last of h.
Rises(s, h) ==
    /\ \A i \in DOMAIN s : s[i] \in Taken(h)
    /\ \A i, j \in DOMAIN s : i < j => At(h, s[i]) < At(h, s[j])
Tidy(s, h) ==
    /\ \A i \in DOMAIN s : s[i] \in Taken(h)
    /\ \A i, j \in DOMAIN s : i < j => At(h, s[i]) <= At(h, s[j])
    /\ \A i, j \in DOMAIN s : i + 1 < j => At(h, s[i]) < At(h, s[j])
EndsLatest(s, h) == \A i, j \in DOMAIN s : i < j => At(h, s[i]) < Len(h)

\* The table and what a request has read of it rise; cached lists are tidy. While the hub
\* handles a message, it is the latest, and may be at the end of a list already.
OrderInv ==
    /\ Once(handled)
    /\ hubMsg # NoMsg => handled # <<>> /\ hubMsg = handled[Len(handled)]
    /\ Rises(table, handled) /\ \A r \in Request : Rises(readList[r], handled)
    /\ Tidy(hubList, handled) /\ \A k \in Key : Tidy(list[k], handled)
    /\ hubMsg # NoMsg => /\ EndsLatest(hubList, handled)
                         /\ \A k \in Key : EndsLatest(list[k], handled)

\* A message that was taken has its place, and no other message has it.
LEMMA AtFacts ==
  ASSUME NEW h \in Seq(Msg), NEW m \in Taken(h)
  PROVE  /\ At(h, m) \in 1..Len(h) /\ h[At(h, m)] = m /\ Len(h) \in Nat /\ m \in Msg
<1>1. DOMAIN h = 1..Len(h) /\ Len(h) \in Nat /\ \A i \in 1..Len(h) : h[i] \in Msg
  BY LenProperties, ElementOfSeq
<1>2. \E i \in DOMAIN h : h[i] = m
  BY DEF Taken
<1>3. At(h, m) \in DOMAIN h /\ h[At(h, m)] = m
  BY <1>2 DEF At
<1>4. QED
  BY <1>1, <1>3

\* When one more is taken, those taken before keep their places, and it comes last.
LEMMA GrownFacts ==
  ASSUME NEW h \in Seq(Msg), Once(h), NEW m \in Msg, m \notin Taken(h)
  PROVE  /\ Append(h, m) \in Seq(Msg) /\ Len(Append(h, m)) = Len(h) + 1 /\ Len(h) \in Nat
         /\ Once(Append(h, m)) /\ Taken(Append(h, m)) = Taken(h) \cup {m}
         /\ \A n \in Taken(h) : At(Append(h, m), n) = At(h, n) /\ At(h, n) <= Len(h)
         /\ At(Append(h, m), m) = Len(h) + 1
<1> DEFINE g == Append(h, m)
<1>1. /\ g \in Seq(Msg) /\ Len(h) \in Nat /\ DOMAIN h = 1..Len(h)
      /\ Len(g) = Len(h) + 1 /\ DOMAIN g = 1..(Len(h) + 1)
      /\ \A i \in 1..Len(h) : g[i] = h[i]
      /\ g[Len(h) + 1] = m
  BY AppendFacts
<1> HIDE DEF g
<1>2. \A i \in 1..Len(h) : h[i] # m
  BY <1>1 DEF Taken
<1>3. Once(g)
  BY <1>1, <1>2 DEF Once
<1>4. Taken(g) = Taken(h) \cup {m}
  <2>1. \A i \in DOMAIN g : g[i] \in Taken(h) \cup {m}
    BY <1>1 DEF Taken
  <2>2. m \in Taken(g) /\ \A i \in DOMAIN h : h[i] \in Taken(g)
    BY <1>1 DEF Taken
  <2>3. QED
    BY <2>1, <2>2 DEF Taken
<1>5. ASSUME NEW n \in Taken(h)
      PROVE  At(g, n) = At(h, n) /\ At(h, n) <= Len(h)
  <2>1. At(h, n) \in 1..Len(h) /\ h[At(h, n)] = n
    BY AtFacts
  <2>2. n \in Taken(g)
    BY <1>4
  <2>3. At(g, n) \in 1..Len(g) /\ g[At(g, n)] = n
    BY <1>1, <2>2, AtFacts
  <2>4. At(g, n) = At(h, n)
    BY <1>1, <1>3, <2>1, <2>3 DEF Once
  <2>5. QED
    BY <1>1, <2>1, <2>4
<1>6. At(g, m) = Len(h) + 1
  <2>1. m \in Taken(g)
    BY <1>4
  <2>2. At(g, m) \in 1..Len(g) /\ g[At(g, m)] = m
    BY <1>1, <2>1, AtFacts
  <2>3. QED
    BY <1>1, <1>3, <2>2 DEF Once
<1>7. QED
  BY <1>1, <1>3, <1>4, <1>5, <1>6 DEF g

\* Lists of messages taken before stay as they are, and can have the new one at the end.
LEMMA ListsGrow ==
  ASSUME NEW h \in Seq(Msg), Once(h), NEW m \in Msg, m \notin Taken(h), NEW s \in Seq(Msg)
  PROVE  /\ Rises(s, h) => Rises(s, Append(h, m)) /\ Rises(Append(s, m), Append(h, m))
         /\ Tidy(s, h) => Tidy(s, Append(h, m)) /\ EndsLatest(s, Append(h, m))
<1> DEFINE g == Append(h, m)
<1>1. /\ g \in Seq(Msg) /\ Len(g) = Len(h) + 1 /\ Len(h) \in Nat
      /\ Once(g) /\ Taken(g) = Taken(h) \cup {m}
      /\ \A n \in Taken(h) : At(g, n) = At(h, n) /\ At(h, n) <= Len(h) /\ At(h, n) \in Nat
      /\ At(g, m) = Len(h) + 1
  BY GrownFacts, AtFacts
<1>2. /\ Len(s) \in Nat /\ DOMAIN s = 1..Len(s)
      /\ DOMAIN Append(s, m) = 1..(Len(s) + 1)
      /\ \A i \in 1..Len(s) : Append(s, m)[i] = s[i]
      /\ Append(s, m)[Len(s) + 1] = m
  BY AppendFacts
<1> HIDE DEF g
<1>3. ASSUME Rises(s, h)
      PROVE  Rises(s, g)
  BY <1>1, <1>3 DEF Rises
<1>4. ASSUME Rises(s, h)
      PROVE  Rises(Append(s, m), g)
  <2> DEFINE t == Append(s, m)
  <2>1. /\ DOMAIN t = 1..(Len(s) + 1) /\ t[Len(s) + 1] = m
        /\ \A i \in 1..Len(s) : t[i] = s[i] /\ s[i] \in Taken(h)
    BY <1>2, <1>4 DEF Rises
  <2> HIDE DEF t
  <2>2. \A i \in DOMAIN t : t[i] \in Taken(g)
    BY <1>1, <1>2, <2>1
  <2>3. ASSUME NEW i \in DOMAIN t, NEW j \in DOMAIN t, i < j
        PROVE  At(g, t[i]) < At(g, t[j])
    <3>1. i \in 1..Len(s)
      BY <1>2, <2>1, <2>3
    <3>2. CASE j = Len(s) + 1
      BY <1>1, <2>1, <3>1, <3>2
    <3>3. CASE j # Len(s) + 1
      <4>1. j \in 1..Len(s)
        BY <1>2, <2>1, <3>3
      <4>2. At(h, s[i]) < At(h, s[j])
        BY <1>2, <1>4, <2>3, <3>1, <4>1 DEF Rises
      <4>3. QED
        BY <1>1, <2>1, <3>1, <4>1, <4>2
    <3>4. QED
      BY <3>2, <3>3
  <2>4. QED
    BY <2>2, <2>3 DEF Rises, t
<1>5. ASSUME Tidy(s, h)
      PROVE  Tidy(s, g) /\ EndsLatest(s, g)
  BY <1>1, <1>5 DEF Tidy, EndsLatest
<1>6. QED
  BY <1>3, <1>4, <1>5 DEF g

\* A list that rises is tidy.
LEMMA RisesIsTidy ==
  ASSUME NEW h \in Seq(Msg), Once(h), NEW s \in Seq(Msg), Rises(s, h)
  PROVE  Tidy(s, h) /\ EndsLatest(s, h)
<1>1. \A m \in Taken(h) : At(h, m) \in 1..Len(h) /\ Len(h) \in Nat
  BY AtFacts
<1>2. Len(s) \in Nat /\ DOMAIN s = 1..Len(s)
  BY LenProperties
<1>3. \A i \in DOMAIN s : At(h, s[i]) \in 1..Len(h) /\ Len(h) \in Nat
  BY <1>1 DEF Rises
<1>4. Tidy(s, h)
  BY <1>2, <1>3 DEF Rises, Tidy
<1>5. EndsLatest(s, h)
  BY <1>3 DEF Rises, EndsLatest
<1>6. QED
  BY <1>4, <1>5

\* The latest message, appended to a list it may be at the end of already.
LEMMA LatestAppended ==
  ASSUME NEW h \in Seq(Msg), Once(h), h # <<>>, NEW s \in Seq(Msg), Tidy(s, h), EndsLatest(s, h)
  PROVE  Tidy(Append(s, h[Len(h)]), h)
<1> DEFINE m == h[Len(h)]
           t == Append(s, m)
<1>1. Len(h) \in Nat /\ DOMAIN h = 1..Len(h) /\ Len(h) \in DOMAIN h
  BY EmptySeq, LenProperties
<1>2. m \in Taken(h) /\ m \in Msg
  BY <1>1, ElementOfSeq DEF Taken
<1>3. /\ \A n \in Taken(h) : At(h, n) \in 1..Len(h)
      /\ At(h, m) = Len(h)
  <2>1. \A n \in Taken(h) : At(h, n) \in 1..Len(h) /\ h[At(h, n)] = n
    BY AtFacts
  <2>2. QED
    BY <1>1, <1>2, <2>1 DEF Once
<1> HIDE DEF m
<1>4. /\ Len(s) \in Nat /\ DOMAIN s = 1..Len(s)
      /\ DOMAIN t = 1..(Len(s) + 1) /\ t[Len(s) + 1] = m
      /\ \A i \in 1..Len(s) : t[i] = s[i]
  BY <1>2, AppendFacts
<1> HIDE DEF t
<1>5. \A i \in 1..Len(s) : s[i] \in Taken(h) /\ At(h, s[i]) \in 1..Len(h)
  BY <1>3, <1>4 DEF Tidy
<1>6. \A i \in DOMAIN t : t[i] \in Taken(h)
  BY <1>2, <1>4, <1>5
<1>7. ASSUME NEW i \in DOMAIN t, NEW j \in DOMAIN t, i < j
      PROVE  /\ At(h, t[i]) <= At(h, t[j])
             /\ i + 1 < j => At(h, t[i]) < At(h, t[j])
  <2>1. i \in 1..Len(s) /\ t[i] = s[i]
    BY <1>4, <1>7
  <2>2. CASE j = Len(s) + 1
    <3>1. At(h, t[j]) = Len(h) /\ At(h, t[i]) \in 1..Len(h)
      BY <1>3, <1>4, <1>5, <2>1, <2>2
    <3>2. i + 1 < j => At(h, t[i]) < Len(h)
      <4>1. i + 1 < j => Len(s) \in DOMAIN s /\ i < Len(s)
        BY <1>4, <2>1, <2>2
      <4>2. QED
        BY <1>4, <2>1, <4>1 DEF EndsLatest
    <3>3. QED
      BY <1>1, <3>1, <3>2
  <2>3. CASE j # Len(s) + 1
    <3>1. j \in 1..Len(s) /\ t[j] = s[j]
      BY <1>4, <2>3
    <3>2. QED
      BY <1>4, <1>7, <2>1, <3>1 DEF Tidy
  <2>4. QED
    BY <2>2, <2>3
<1>8. Tidy(t, h)
  BY <1>6, <1>7 DEF Tidy
<1>9. QED
  BY <1>8 DEF t, m

\* What the table has for a key is in the table's order.
LEMMA HistoryRises ==
  ASSUME table \in Seq(Msg), NEW h, Rises(table, h), NEW k
  PROVE  Rises(History(k), h)
<1> DEFINE R == {p \in Msg \X Msg : At(h, p[1]) < At(h, p[2])}
           P == {m \in Msg : Concerns(m, k)}
<1>1. \A i \in DOMAIN table : table[i] \in Msg
  BY LenProperties, ElementOfSeq
<1>2. \A i, j \in DOMAIN table : i < j => <<table[i], table[j]>> \in R
  BY <1>1 DEF Rises
<1>3. \A m, n : <<m, n>> \in R => At(h, m) < At(h, n)
  OBVIOUS
<1> HIDE DEF R, P
<1>4. /\ Select(table, P) \in Seq(Msg)
      /\ \A j \in DOMAIN Select(table, P) :
           Select(table, P)[j] \in P /\ \E i \in DOMAIN table : table[i] = Select(table, P)[j]
      /\ \A i, j \in DOMAIN Select(table, P) :
           i < j => <<Select(table, P)[i], Select(table, P)[j]>> \in R
      /\ \A i \in DOMAIN table :
           table[i] \in P => \E j \in DOMAIN Select(table, P) : Select(table, P)[j] = table[i]
  BY <1>2, SelectFacts, Zenon
<1>5. Rises(Select(table, P), h)
  BY <1>3, <1>4 DEF Rises
<1>6. QED
  BY <1>5 DEF History, P

\* An empty list is in any order.
LEMMA NothingIsTidy == \A h : Rises(<<>>, h) /\ Tidy(<<>>, h) /\ EndsLatest(<<>>, h)
BY DEF Rises, Tidy, EndsLatest


\* Nothing is stored or cached at the start.
LEMMA OrderInit == Init => OrderInv
<1> SUFFICES ASSUME Init PROVE OrderInv
  OBVIOUS
<1>1. /\ handled = <<>> /\ table = <<>> /\ hubMsg = NoMsg /\ hubList = <<>>
      /\ \A r \in Request : readList[r] = <<>>
      /\ \A k \in Key : list[k] = <<>>
  BY DEF Init
<1>2. Once(handled)
  BY <1>1 DEF Once
<1>3. QED
  BY <1>1, <1>2, NothingIsTidy DEF OrderInv

\* A message the hub takes is the last; nothing is after it in any list.
LEMMA OrderStore ==
  ASSUME TypeInv, OrderInv, NEW m \in Msg, Store(m)
  PROVE  OrderInv'
<1> USE DEF TypeInv
<1>1. /\ handled' = Append(handled, m)
      /\ table' = Append(table, m) \/ table' = table
      /\ UNCHANGED <<cached, list, readList>> /\ hubMsg' \in {m, NoMsg}
      /\ hubList' = hubList \/ hubList' = <<>>
      /\ \A i \in DOMAIN handled : handled[i] # m
  BY DEF Store, Accept, readVars
<1>2. m \notin Taken(handled)
  BY <1>1 DEF Taken
<1>3. /\ handled \in Seq(Msg) /\ table \in Seq(Msg) /\ hubList \in Seq(Msg)
      /\ \A k \in Key : list[k] \in Seq(Msg)
      /\ \A r \in Request : readList[r] \in Seq(Msg)
  BY DEF TypeOK
<1>4. Once(handled')
  BY <1>1, <1>2, <1>3, GrownFacts DEF OrderInv
<1>5. hubMsg' # NoMsg => handled' # <<>> /\ hubMsg' = handled'[Len(handled')]
  <2>1. /\ Len(Append(handled, m)) = Len(handled) + 1 /\ Len(handled) \in Nat
        /\ Append(handled, m)[Len(handled) + 1] = m
    BY <1>3, AppendFacts
  <2>2. Append(handled, m) # <<>>
    BY <2>1
  <2>3. QED
    BY <1>1, <2>1, <2>2
<1>6. Rises(table', handled')
  BY <1>1, <1>2, <1>3, ListsGrow DEF OrderInv
<1>7. \A r \in Request : Rises(readList'[r], handled')
  BY <1>1, <1>2, <1>3, ListsGrow DEF OrderInv
<1>8. \A k \in Key : Tidy(list'[k], handled') /\ EndsLatest(list'[k], handled')
  BY <1>1, <1>2, <1>3, ListsGrow DEF OrderInv
<1>9. Tidy(hubList', handled') /\ EndsLatest(hubList', handled')
  BY <1>1, <1>2, <1>3, ListsGrow, NothingIsTidy DEF OrderInv
<1>10. QED
  BY <1>4, <1>5, <1>6, <1>7, <1>8, <1>9 DEF OrderInv

\* The other steps take no message. What they put where is one of the lists there were,
\* or tidy by itself.
LEMMA OrderKept ==
  ASSUME OrderInv, UNCHANGED <<handled, table>>, hubMsg' \in {hubMsg, NoMsg},
         \A r \in Request : Rises(readList'[r], handled),
         Tidy(hubList', handled), \A k \in Key : Tidy(list'[k], handled),
         hubMsg' # NoMsg => /\ EndsLatest(hubList', handled)
                            /\ \A k \in Key : EndsLatest(list'[k], handled)
  PROVE  OrderInv'
BY DEF OrderInv

\* The hub's statements: an append is of the message it is handling, which is the latest.
LEMMA OrderHub ==
  ASSUME TypeInv, OrderInv, Hub
  PROVE  OrderInv'
<1> USE DEF TypeInv
<1>1. /\ UNCHANGED <<handled, table, readList>> /\ hubMsg' \in {hubMsg, NoMsg}
      /\ hubMsg \in Msg /\ hubMsg # NoMsg
  BY MsgAssumption DEF Hub, Validate, HubGet, HubSet, Accept, HubDone, TypeOK, readVars
<1>2. CASE Validate
  BY <1>1, <1>2, OrderKept, NothingIsTidy DEF Validate, Accept, HubDone, OrderInv
<1>3. CASE HubGet
  <2>1. UNCHANGED list /\ \/ hubList' = <<>>
                          \/ hubList' = list[KeyOf(hubMsg)] /\ KeyOf(hubMsg) \in Key
    BY <1>3 DEF HubGet, HubDone, TypeOK
  <2>2. Tidy(hubList', handled) /\ EndsLatest(hubList', handled)
    BY <1>1, <2>1, NothingIsTidy DEF OrderInv
  <2>3. QED
    BY <1>1, <2>1, <2>2, OrderKept DEF OrderInv
<1>4. CASE HubSet
  <2>1. hubMsg' = NoMsg /\ hubList' = <<>> /\ KeyOf(hubMsg) \in Key
    BY <1>4 DEF HubSet, HubDone
  <2>2. /\ handled \in Seq(Msg) /\ Once(handled) /\ handled # <<>> /\ hubMsg = handled[Len(handled)]
        /\ hubList \in Seq(Msg) /\ Tidy(hubList, handled) /\ EndsLatest(hubList, handled)
    BY <1>1 DEF OrderInv, TypeOK
  <2>3. Tidy(Append(hubList, hubMsg), handled)
    BY <2>2, LatestAppended
  <2>4. \A k \in Key : list'[k] = list[k] \/ list'[k] = Append(hubList, hubMsg)
    BY <1>4, <2>1 DEF HubSet, SetKeyEx, TypeOK
  <2>5. \A k \in Key : Tidy(list'[k], handled)
    BY <2>3, <2>4 DEF OrderInv
  <2>6. QED
    BY <1>1, <2>1, <2>5, OrderKept, NothingIsTidy DEF OrderInv
<1>5. QED
  BY <1>2, <1>3, <1>4 DEF Hub

\* A request keeps what it found under a key, or takes it from the table.
LEMMA OrderRead ==
  ASSUME TypeInv, OrderInv, NEW r \in Request, Answer(r) \/ \E k \in Asked : Get(r, k)
  PROVE  OrderInv'
<1> USE DEF TypeInv
<1>1. UNCHANGED <<table, hubMsg, hubList, handled>>
  BY DEF Answer, Fetch, Put, Get, hubVars
<1>2. \A q \in Request : readList'[q] \in {readList[q], <<>>, History(readKey[r])}
  BY DEF Answer, Fetch, Put, Get, ReadDone, TypeOK
<1>3. Rises(History(readKey[r]), handled)
  BY HistoryRises DEF TypeOK, OrderInv
<1>4. \A q \in Request : Rises(readList'[q], handled)
  BY <1>2, <1>3, NothingIsTidy DEF OrderInv
<1>5. \A k \in Key : list'[k] \in {list[k], readList[r]}
  BY DEF Answer, Fetch, Put, Get, SetKeyEx, TypeOK
<1>6. Tidy(readList[r], handled) /\ EndsLatest(readList[r], handled)
  BY RisesIsTidy DEF TypeOK, OrderInv
<1>7. \A k \in Key : Tidy(list'[k], handled)
  BY <1>5, <1>6 DEF OrderInv
<1>8. hubMsg' # NoMsg => \A k \in Key : EndsLatest(list'[k], handled)
  BY <1>1, <1>5, <1>6 DEF OrderInv
<1>9. QED
  BY <1>1, <1>4, <1>7, <1>8, OrderKept DEF OrderInv

\* Every step keeps the lists in order.
LEMMA OrderStep == TypeInv /\ OrderInv /\ [Next]_vars => OrderInv'
<1> SUFFICES ASSUME TypeInv, OrderInv, [Next]_vars PROVE OrderInv'
  OBVIOUS
<1>1. CASE UNCHANGED vars
  BY <1>1 DEF vars, hubVars, readVars, OrderInv
<1>2. ASSUME NEW k \in Key, Expire(k)
      PROVE  OrderInv'
  <2>1. /\ UNCHANGED <<handled, table, hubMsg, hubList, readList>>
        /\ list' = [list EXCEPT ![k] = <<>>]
    BY <1>2 DEF Expire, hubVars, readVars
  <2>2. \A l \in Key : list'[l] \in {list[l], <<>>}
    BY <2>1 DEF TypeInv, TypeOK
  <2>3. QED
    BY <2>1, <2>2, OrderKept, NothingIsTidy DEF OrderInv
<1>3. CASE Restart
  <2>1. /\ UNCHANGED <<handled, table, list>> /\ hubMsg' = NoMsg /\ hubList' = <<>>
        /\ \A r \in Request : readList'[r] = <<>>
    BY <1>3 DEF Restart, HubDone
  <2>2. QED
    BY <2>1, OrderKept, NothingIsTidy DEF OrderInv
<1>4. QED
  BY <1>1, <1>2, <1>3, OrderStore, OrderHub, OrderRead DEF Next

\* A set of places of which no three are different has at most two.
LEMMA AtMostTwo ==
  ASSUME NEW n \in Nat, NEW S \in SUBSET (1..n),
         \A i, j, k \in S : ~(i < j /\ j < k)
  PROVE  Cardinality(S) <= 2
<1>1. CASE S = {}
  BY <1>1, FS_EmptySet
<1>2. ASSUME NEW i \in S
      PROVE  Cardinality(S) <= 2
  <2>1. IsFiniteSet({i}) /\ Cardinality({i}) = 1
    BY FS_Singleton
  <2>2. CASE S = {i}
    BY <2>1, <2>2
  <2>3. ASSUME NEW j \in S, j # i
        PROVE  Cardinality(S) <= 2
    <3>1. \A k \in S : k = i \/ k = j
      BY <2>3
    <3>2. S = {i} \cup {j}
      BY <2>3, <3>1
    <3>3. Cardinality({i} \cup {j}) = 2
      BY <2>1, <2>3, FS_AddElement
    <3>4. QED
      BY <3>2, <3>3
  <2>4. QED
    BY <2>2, <2>3
<1>3. QED
  BY <1>1, <1>2

\* The hub reads a key and writes it back in two calls, and requests fill keys with what
\* they read some time ago. Whatever overwrites what, a cached history is in the order in
\* which the hub took the messages, with none of them three times: for any number of
\* requests, and with lost writes, failed calls and restarts.
THEOREM HistoriesInOrder == Spec => []CachedInOrder
<1>1. Init /\ [][Next]_vars /\ []TypeInv => []OrderInv
  BY OrderInit, OrderStep, PTL
<1>2. TypeInv /\ OrderInv => CachedInOrder
  <2> SUFFICES ASSUME TypeInv, OrderInv, NEW k \in cached
               PROVE  /\ \A i, j \in DOMAIN list[k] : i < j => Turn(list[k][i]) <= Turn(list[k][j])
                      /\ \A m \in Msg : Cardinality({i \in DOMAIN list[k] : list[k][i] = m}) <= 2
    BY DEF CachedInOrder
  <2>1. list[k] \in Seq(Msg) /\ Tidy(list[k], handled) /\ handled \in Seq(Msg)
    BY DEF TypeInv, TypeOK, OrderInv
  <2>2. \A m : Turn(m) = At(handled, m)
    BY DEF Turn, At
  <2>3. Len(list[k]) \in Nat /\ DOMAIN list[k] = 1..Len(list[k])
    BY <2>1, LenProperties
  <2>4. ASSUME NEW m \in Msg
        PROVE  Cardinality({i \in DOMAIN list[k] : list[k][i] = m}) <= 2
    <3> DEFINE S == {i \in DOMAIN list[k] : list[k][i] = m}
    <3>1. S \in SUBSET (1..Len(list[k]))
      BY <2>3
    <3>2. ASSUME NEW i \in S, NEW j \in S, NEW l \in S, i < j, j < l
          PROVE  FALSE
      <4>1. i + 1 < l
        BY <2>3, <3>2
      <4>2. At(handled, m) < At(handled, m)
        BY <2>1, <4>1 DEF Tidy
      <4>3. At(handled, m) \in 1..Len(handled) /\ Len(handled) \in Nat
        BY <2>1, AtFacts DEF Tidy
      <4>4. QED
        BY <4>2, <4>3
    <3>3. QED
      BY <2>3, <3>1, <3>2, AtMostTwo
  <2>5. QED
    BY <2>1, <2>2, <2>4 DEF Tidy
<1>3. QED
  BY <1>1, <1>2, TypesHold, PTL DEF Spec


-------------------------------------------------------------------------------
(* Posts                                                                      *)

Stored(m) == \E i \in DOMAIN table : table[i] = m

\* A post that belongs in the list under k, and a list that has it once.
Due(m, k) == m \in delivered /\ Kind[m] = "post" /\ KeyOf(m) = k /\ Stored(m)
OnceIn(m, s) == \E i \in DOMAIN s : \A j \in DOMAIN s : s[j] = m <=> j = i

\* The hub has taken what it has delivered; what it checks it has not delivered yet.
DeliveryInv ==
    /\ delivered \subseteq Taken(handled)
    /\ hubAt = "validate" => hubMsg \notin delivered

\* While nothing overlaps and no call fails: every cached list has the posts that belong
\* in it, the one in the hub's hands excepted, which is in none; what the hub and the
\* requests have read, and will write, has them as well.
Current ==
    /\ HubFree \/ NobodyReads
    /\ \A k \in cached, m \in Msg : m # hubMsg /\ Due(m, k) => OnceIn(m, list[k])
    /\ hubMsg # NoMsg => hubMsg \notin Taken(hubList) /\ \A k \in Key : hubMsg \notin Taken(list[k])
    /\ hubAt = "set" => \A m \in Msg : m # hubMsg /\ Due(m, KeyOf(hubMsg)) => OnceIn(m, hubList)
    /\ \A r \in Request : readAt[r] = "put" => \A m \in Msg : Due(m, readKey[r]) => OnceIn(m, readList[r])
PostInv == DeliveryInv /\ (~torn => Current)

\* An appended message leaves the others where they are.
LEMMA OnceAppended ==
  ASSUME NEW s \in Seq(Msg), NEW n \in Msg
  PROVE  /\ \A m \in Msg : m # n /\ OnceIn(m, s) => OnceIn(m, Append(s, n))
         /\ n \notin Taken(s) => OnceIn(n, Append(s, n))
<1> DEFINE t == Append(s, n)
<1>1. /\ Len(s) \in Nat /\ DOMAIN s = 1..Len(s) /\ DOMAIN t = 1..(Len(s) + 1)
      /\ \A i \in 1..Len(s) : t[i] = s[i]
      /\ t[Len(s) + 1] = n
  BY AppendFacts
<1> HIDE DEF t
<1>2. ASSUME NEW m \in Msg, m # n, OnceIn(m, s)
      PROVE  OnceIn(m, t)
  <2>1. PICK i \in DOMAIN s : \A j \in DOMAIN s : s[j] = m <=> j = i
    BY <1>2 DEF OnceIn
  <2>2. i \in DOMAIN t /\ \A j \in DOMAIN t : t[j] = m <=> j = i
    BY <1>1, <1>2, <2>1
  <2>3. QED
    BY <2>2 DEF OnceIn
<1>3. ASSUME n \notin Taken(s)
      PROVE  OnceIn(n, t)
  <2>1. \A i \in 1..Len(s) : s[i] # n
    BY <1>1, <1>3 DEF Taken
  <2>2. Len(s) + 1 \in DOMAIN t /\ \A j \in DOMAIN t : t[j] = n <=> j = Len(s) + 1
    BY <1>1, <2>1
  <2>3. QED
    BY <2>2 DEF OnceIn
<1>4. QED
  BY <1>2, <1>3 DEF t

\* What the table has for a key has every post that belongs there, once.
LEMMA HistoryHasPosts ==
  ASSUME TypeInv, OrderInv, NEW k, NEW m \in Msg, Due(m, k)
  PROVE  OnceIn(m, History(k))
<1> DEFINE P == {n \in Msg : Concerns(n, k)}
           R == {<<table[x], table[y]>> : x, y \in DOMAIN table}
           s == Select(table, P)
<1>1. m \in P
  BY DEF Due, KeyOf, Concerns
<1>2. /\ table \in Seq(Msg) /\ handled \in Seq(Msg) /\ Rises(table, handled)
      /\ \E i \in DOMAIN table : table[i] = m
  BY DEF TypeInv, TypeOK, OrderInv, Due, Stored
<1>3. History(k) = s
  BY DEF History
<1>4. s \in Seq(Msg) /\ Rises(s, handled)
  BY <1>2, <1>3, HistoryType, HistoryRises
<1>5. \A i, j \in DOMAIN table : i < j => <<table[i], table[j]>> \in R
  OBVIOUS
<1> HIDE DEF P, R
<1> HIDE DEF s
<1>6. \E j \in DOMAIN s : s[j] = m
  <2>1. /\ s \in Seq(Msg)
        /\ \A j \in DOMAIN s : s[j] \in P /\ \E i \in DOMAIN table : table[i] = s[j]
        /\ \A i, j \in DOMAIN s : i < j => <<s[i], s[j]>> \in R
        /\ \A i \in DOMAIN table : table[i] \in P => \E j \in DOMAIN s : s[j] = table[i]
    <3>1. table \in Seq(Msg)
      BY <1>2
    <3>2. QED
      BY <1>5, <3>1, SelectFacts, Zenon DEF s
  <2>2. QED
    BY <1>1, <1>2, <2>1
<1>7. PICK j \in DOMAIN s : s[j] = m
  BY <1>6
<1>8. ASSUME NEW i \in DOMAIN s, s[i] = m
      PROVE  i = j
  <2>1. At(handled, m) \in 1..Len(handled) /\ Len(handled) \in Nat
    BY <1>2, <1>4, <1>7, AtFacts DEF Rises
  <2>2. DOMAIN s = 1..Len(s) /\ Len(s) \in Nat
    BY <1>4, LenProperties
  <2>3. ~(i < j) /\ ~(j < i)
    BY <1>4, <1>7, <1>8, <2>1 DEF Rises
  <2>4. QED
    BY <2>2, <2>3
<1>9. OnceIn(m, s)
  BY <1>7, <1>8 DEF OnceIn
<1>10. QED
  BY <1>3, <1>9

\* Nothing is delivered at the start.
LEMMA PostInit == Init => PostInv
<1> SUFFICES ASSUME Init PROVE PostInv
  OBVIOUS
<1>1. /\ delivered = {} /\ cached = {} /\ hubAt = "select" /\ hubMsg = NoMsg
      /\ \A r \in Request : readAt[r] = "idle"
  BY DEF Init
<1>2. QED
  BY <1>1 DEF PostInv, DeliveryInv, Current, HubFree

\* What is delivered was taken, step by step.
LEMMA DeliveryStep == TypeInv /\ DeliveryInv /\ OrderInv /\ [Next]_vars => DeliveryInv'
<1> SUFFICES ASSUME TypeInv, DeliveryInv, OrderInv, [Next]_vars PROVE DeliveryInv'
  OBVIOUS
<1>1. ASSUME NEW m \in Msg, Store(m)
      PROVE  DeliveryInv'
  <2>1. /\ handled' = Append(handled, m) /\ delivered' \subseteq delivered \cup {m}
        /\ hubAt' = "validate" => hubMsg' = m /\ UNCHANGED delivered
        /\ \A i \in DOMAIN handled : handled[i] # m
    BY <1>1 DEF Store, Accept
  <2>2. m \notin Taken(handled) /\ handled \in Seq(Msg) /\ Once(handled)
    BY <2>1 DEF Taken, TypeInv, TypeOK, OrderInv
  <2>3. Taken(Append(handled, m)) = Taken(handled) \cup {m}
    BY <2>2, GrownFacts
  <2>4. QED
    BY <2>1, <2>2, <2>3 DEF DeliveryInv
<1>2. CASE Validate
  <2>1. hubMsg \in Taken(handled)
    <3>1. hubMsg # NoMsg /\ handled \in Seq(Msg)
      BY <1>2 DEF Validate, TypeInv, TypeOK
    <3>2. handled # <<>> /\ hubMsg = handled[Len(handled)]
      BY <3>1 DEF OrderInv
    <3>3. Len(handled) \in DOMAIN handled
      BY <3>1, <3>2, EmptySeq, LenProperties
    <3>4. QED
      BY <3>2, <3>3 DEF Taken
  <2>2. UNCHANGED handled /\ delivered' \subseteq delivered \cup {hubMsg} /\ hubAt' # "validate"
    BY <1>2 DEF Validate, Accept, HubDone
  <2>3. QED
    BY <2>1, <2>2 DEF DeliveryInv
<1>3. CASE UNCHANGED <<handled, delivered>> /\ (UNCHANGED <<hubAt, hubMsg>> \/ hubAt' # "validate")
  BY <1>3 DEF DeliveryInv
<1>4. HubGet \/ HubSet \/ Restart \/ UNCHANGED vars =>
        UNCHANGED <<handled, delivered>> /\ (UNCHANGED <<hubAt, hubMsg>> \/ hubAt' # "validate")
  BY DEF HubGet, HubSet, HubDone, Restart, vars, hubVars
<1>5. ASSUME NEW r \in Request, Answer(r) \/ \E k \in Asked : Get(r, k)
      PROVE  UNCHANGED <<handled, delivered, hubAt, hubMsg>>
  BY <1>5 DEF Answer, Fetch, Put, Get, hubVars
<1>6. ASSUME NEW k \in Key, Expire(k)
      PROVE  UNCHANGED <<handled, delivered, hubAt, hubMsg>>
  BY <1>6 DEF Expire, hubVars
<1>7. QED
  BY <1>1, <1>2, <1>3, <1>4, <1>5, <1>6 DEF Next, Hub

\* A new message is in no list; what the lists have they keep.
LEMMA PostStore ==
  ASSUME TypeInv, OrderInv, PostInv, NEW m \in Msg, Store(m), ~torn'
  PROVE  Current'
<1> USE DEF TypeInv
<1>1. /\ UNCHANGED <<cached, list, readAt>> /\ hubAt = "select" /\ NobodyReads /\ ~torn
      /\ hubAt' \in {"select", "validate", "get"} /\ hubMsg' \in {m, NoMsg}
      /\ hubMsg' = m \/ (Kind[m] # "post" /\ delivered' = delivered \cup {m})
      /\ delivered' \subseteq delivered \cup {m}
      /\ hubList' = hubList \/ hubList' = <<>>
      /\ table' = Append(table, m) \/ table' = table
      /\ \A i \in DOMAIN handled : handled[i] # m
  BY DEF Store, Accept, HubFree, readVars
<1>2. Current /\ hubMsg = NoMsg /\ m # NoMsg
  BY <1>1, MsgAssumption DEF PostInv, TypeOK
<1>3. m \notin Taken(handled)
  BY <1>1 DEF Taken
<1>4. m \notin Taken(hubList') /\ \A k \in Key : m \notin Taken(list'[k])
  BY <1>1, <1>3 DEF OrderInv, Tidy, Taken
<1>5. ASSUME NEW k \in cached, NEW n \in Msg, n # hubMsg', Due(n, k)'
      PROVE  OnceIn(n, list[k])
  <2>1. Kind[n] = "post" /\ KeyOf(n) = k /\ n \in delivered' /\ Stored(n)'
    BY <1>5 DEF Due, KeyOf, InGroup
  <2>2. n # m /\ n \in delivered
    BY <1>1, <1>5, <2>1
  <2>3. Stored(n)
    <3>1. table \in Seq(Msg)
      BY DEF TypeOK
    <3>2. /\ DOMAIN table = 1..Len(table) /\ Len(table) \in Nat
          /\ DOMAIN Append(table, m) = 1..(Len(table) + 1)
          /\ \A i \in 1..Len(table) : Append(table, m)[i] = table[i]
          /\ Append(table, m)[Len(table) + 1] = m
      BY <3>1, AppendFacts
    <3>3. QED
      BY <1>1, <2>1, <2>2, <3>2 DEF Stored
  <2>4. QED
    BY <1>2, <2>1, <2>2, <2>3, MsgAssumption DEF Current, Due
<1>6. \A r \in Request : readAt'[r] # "put"
  BY <1>1 DEF NobodyReads
<1>7. NobodyReads'
  BY <1>1 DEF NobodyReads
<1>8. QED
  BY <1>1, <1>4, <1>5, <1>6, <1>7 DEF Current

\* While the hub is at work nobody reads.
LEMMA PostHub ==
  ASSUME TypeInv, OrderInv, PostInv, Hub, ~torn'
  PROVE  Current'
<1> USE DEF TypeInv
<1>1. /\ UNCHANGED <<table, readAt, readKey, readList>> /\ ~torn
      /\ hubAt # "select" /\ hubMsg \in Msg /\ hubMsg # NoMsg
  BY MsgAssumption DEF Hub, Validate, HubGet, HubSet, TypeOK, readVars
<1>2. Current
  BY <1>1 DEF PostInv
<1>3. NobodyReads /\ NobodyReads' /\ \A r \in Request : readAt'[r] # "put"
  BY <1>1, <1>2 DEF Current, HubFree, NobodyReads
<1>4. \A m \in Msg : Stored(m)' <=> Stored(m)
  BY <1>1 DEF Stored
<1>5. Taken(<<>>) = {}
  BY DEF Taken
<1>6. CASE Validate
  <2>1. /\ UNCHANGED <<cached, list>> /\ hubList' = <<>> /\ hubAt' # "set"
        /\ hubMsg' \in {hubMsg, NoMsg}
        /\ \/ hubMsg' = hubMsg /\ delivered' = delivered \cup {hubMsg}
           \/ Kind[hubMsg] # "post" /\ delivered' = delivered \cup {hubMsg}
           \/ hubMsg \notin delivered /\ delivered' = delivered
    BY <1>6 DEF Validate, Accept, HubDone, PostInv, DeliveryInv
  <2>2. ASSUME NEW k \in cached, NEW m \in Msg, m # hubMsg', Due(m, k)'
        PROVE  OnceIn(m, list[k])
    <3>1. Kind[m] = "post" /\ KeyOf(m) = k /\ m \in delivered' /\ Stored(m)
      BY <1>4, <2>2 DEF Due, KeyOf, InGroup
    <3>2. m # hubMsg /\ m \in delivered
      BY <2>1, <2>2, <3>1
    <3>3. QED
      BY <1>2, <3>1, <3>2 DEF Current, Due
  <2>3. QED
    BY <1>2, <1>3, <1>5, <2>1, <2>2 DEF Current
<1>7. CASE HubGet
  <2>1. UNCHANGED <<cached, list, delivered>>
    BY <1>7 DEF HubGet
  <2>2. \A m \in Msg : \A k : Due(m, k)' <=> Due(m, k)
    BY <1>4, <2>1 DEF Due, KeyOf, InGroup
  <2>3. CASE /\ KeyOf(hubMsg) \in cached /\ UNCHANGED hubMsg
             /\ hubAt' = "set" /\ hubList' = list[KeyOf(hubMsg)]
    <3>1. KeyOf(hubMsg)' = KeyOf(hubMsg) /\ KeyOf(hubMsg) \in Key
      BY <2>3 DEF KeyOf, InGroup, TypeOK
    <3>2. \A m \in Msg : m # hubMsg' /\ Due(m, KeyOf(hubMsg))' => OnceIn(m, hubList')
      BY <1>2, <2>2, <2>3, <3>1 DEF Current
    <3>3. \A k \in cached, m \in Msg : m # hubMsg' /\ Due(m, k)' => OnceIn(m, list[k])
      BY <1>2, <2>2, <2>3 DEF Current
    <3>4. hubMsg' \notin Taken(hubList') /\ \A k \in Key : hubMsg' \notin Taken(list[k])
      BY <1>1, <1>2, <2>3, <3>1 DEF Current
    <3>5. QED
      BY <1>3, <2>1, <2>3, <3>1, <3>2, <3>3, <3>4 DEF Current
  <2>4. CASE KeyOf(hubMsg) \notin cached /\ HubDone
    <3>1. hubMsg' = NoMsg /\ hubAt' = "select"
      BY <2>4 DEF HubDone
    <3>2. ASSUME NEW k \in cached, NEW m \in Msg, Due(m, k)'
          PROVE  OnceIn(m, list[k])
      <4>1. Due(m, k) /\ m # hubMsg
        BY <2>2, <2>4, <3>2 DEF Due
      <4>2. QED
        BY <1>2, <4>1 DEF Current
    <3>3. QED
      BY <1>3, <2>1, <3>1, <3>2 DEF Current
  <2>5. QED
    BY <1>7, <2>3, <2>4 DEF HubGet
<1>8. CASE HubSet
  <2> DEFINE k0 == KeyOf(hubMsg)
             ms == Append(hubList, hubMsg)
  <2>1. /\ hubAt = "set" /\ hubMsg' = NoMsg /\ hubAt' = "select" /\ UNCHANGED delivered
        /\ cached' = cached \cup {k0} /\ list' = [list EXCEPT ![k0] = ms]
        /\ k0 \in Key
    BY <1>8 DEF HubSet, HubDone, SetKeyEx
  <2>2. \A m \in Msg : \A k : Due(m, k)' <=> Due(m, k)
    BY <1>4, <2>1 DEF Due, KeyOf, InGroup
  <2>3. ASSUME NEW m \in Msg, Due(m, k0)
        PROVE  OnceIn(m, ms)
    <3>1. hubList \in Seq(Msg) /\ hubMsg \notin Taken(hubList)
      BY <1>1, <1>2 DEF TypeOK, Current
    <3>2. m = hubMsg \/ OnceIn(m, hubList)
      BY <1>2, <2>1, <2>3 DEF Current
    <3>3. QED
      BY <1>1, <3>1, <3>2, OnceAppended
  <2>4. ASSUME NEW m \in Msg, NEW k \in cached, k # k0, Due(m, k)
        PROVE  OnceIn(m, list[k])
    <3>1. m # hubMsg
      BY <2>4 DEF Due
    <3>2. QED
      BY <1>2, <2>4, <3>1 DEF Current
  <2> HIDE DEF k0, ms
  <2>5. ASSUME NEW k \in cached', NEW m \in Msg, Due(m, k)'
        PROVE  OnceIn(m, list'[k])
    <3>1. Due(m, k) /\ (k = k0 \/ k \in cached) /\ cached \subseteq Key
      BY <2>1, <2>2, <2>5 DEF TypeOK
    <3>2. list'[k] = IF k = k0 THEN ms ELSE list[k]
      BY <2>1, <3>1 DEF TypeOK
    <3>3. QED
      BY <2>3, <2>4, <3>1, <3>2
  <2>6. QED
    BY <1>3, <2>1, <2>5 DEF Current
<1>9. QED
  BY <1>6, <1>7, <1>8 DEF Hub

\* While a request runs the hub is free.
LEMMA PostRead ==
  ASSUME TypeInv, OrderInv, PostInv, ~torn',
         NEW r \in Request, Answer(r) \/ \E k \in Asked : Get(r, k)
  PROVE  Current'
<1> USE DEF TypeInv
<1>1. /\ UNCHANGED <<table, delivered, hubAt, hubMsg, hubList>>
      /\ torn' = torn \/ torn' = (torn \/ ~HubFree)
  BY DEF Answer, Fetch, Put, Get, hubVars
<1>2. ~torn /\ Current
  <2>1. ~torn
    BY <1>1 DEF TypeOK, HubFree
  <2>2. QED
    BY <2>1 DEF PostInv
<1>3. HubFree /\ hubMsg = NoMsg
  BY <1>2 DEF Answer, Fetch, Put, Get, Current, NobodyReads, HubFree, TypeOK
<1>4. \A m \in Msg : \A k : Due(m, k)' <=> Due(m, k)
  BY <1>1 DEF Due, KeyOf, InGroup, Stored
<1>5. HubFree' /\ hubMsg' = NoMsg /\ hubAt' # "set"
  BY <1>1, <1>3 DEF HubFree
<1>6. ASSUME NEW q \in Request, readAt'[q] = "put", NEW m \in Msg, Due(m, readKey'[q])
      PROVE  OnceIn(m, readList'[q])
  <2>1. CASE q = r
    <3>1. readAt' = [readAt EXCEPT ![r] = "put"]
      BY <1>6, <2>1 DEF Answer, Fetch, Put, Get, ReadDone, TypeOK
    <3>2. readList'[r] = History(readKey[r]) /\ readKey' = readKey
      BY <1>6, <2>1 DEF Answer, Fetch, Put, Get, ReadDone, TypeOK
    <3>3. QED
      BY <1>6, <2>1, <3>2, HistoryHasPosts
  <2>2. CASE q # r
    <3>1. readAt'[q] = readAt[q] /\ readKey'[q] = readKey[q] /\ readList'[q] = readList[q]
      BY <2>2 DEF Answer, Fetch, Put, Get, ReadDone, TypeOK
    <3>2. QED
      BY <1>2, <1>6, <3>1 DEF Current
  <2>3. QED
    BY <2>1, <2>2
<1>7. ASSUME NEW k \in cached', NEW m \in Msg, Due(m, k)
      PROVE  OnceIn(m, list'[k])
  <2>1. CASE UNCHANGED <<cached, list>>
    BY <1>2, <1>3, <1>7, <2>1, MsgAssumption DEF Current
  <2>2. CASE SetKeyEx(readKey[r], readList[r]) /\ readAt[r] = "put"
    <3>1. cached' = cached \cup {readKey[r]} /\ list' = [list EXCEPT ![readKey[r]] = readList[r]]
      BY <2>2 DEF SetKeyEx
    <3>2. CASE k = readKey[r]
      <4>1. list'[k] = readList[r]
        BY <3>1, <3>2 DEF TypeOK
      <4>2. QED
        BY <1>2, <1>7, <2>2, <3>2, <4>1 DEF Current
    <3>3. CASE k # readKey[r]
      <4>1. list'[k] = list[k] /\ k \in cached
        BY <1>7, <3>1, <3>3 DEF TypeOK
      <4>2. QED
        BY <1>2, <1>3, <1>7, <4>1, MsgAssumption DEF Current
    <3>4. QED
      BY <3>2, <3>3
  <2>3. QED
    BY <2>1, <2>2 DEF Answer, Fetch, Put, Get
<1>8. QED
  BY <1>4, <1>5, <1>6, <1>7 DEF Current

\* Every step keeps the senders' histories complete.
LEMMA PostStep == TypeInv /\ OrderInv /\ PostInv /\ [Next]_vars => PostInv'
<1> SUFFICES ASSUME TypeInv, OrderInv, PostInv, [Next]_vars PROVE PostInv'
  OBVIOUS
<1>1. DeliveryInv'
  BY DeliveryStep DEF PostInv
<1> SUFFICES ASSUME ~torn' PROVE Current'
  BY <1>1 DEF PostInv
<1>2. CASE UNCHANGED vars
  <2>1. Current
    BY <1>2 DEF PostInv, vars
  <2>2. /\ \A m \in Msg : \A k : Due(m, k)' <=> Due(m, k)
        /\ KeyOf(hubMsg)' = KeyOf(hubMsg)
    BY <1>2 DEF vars, hubVars, Due, KeyOf, InGroup, Stored
  <2>3. QED
    BY <1>2, <2>1, <2>2 DEF vars, hubVars, readVars, Current, HubFree, NobodyReads
<1>3. ASSUME NEW k \in Key, Expire(k)
      PROVE  Current'
  <2>1. /\ UNCHANGED <<table, hubAt, hubMsg, hubList, delivered, readAt, readKey, readList>> /\ ~torn
        /\ cached' = cached \ {k} /\ list' = [list EXCEPT ![k] = <<>>]
    BY <1>3 DEF Expire, hubVars, readVars
  <2>2. Current
    BY <2>1 DEF PostInv
  <2>3. /\ \A m \in Msg : \A l : Due(m, l)' <=> Due(m, l)
        /\ KeyOf(hubMsg)' = KeyOf(hubMsg)
    BY <2>1 DEF Due, KeyOf, InGroup, Stored
  <2>4. \A l \in Key : list'[l] = IF l = k THEN <<>> ELSE list[l]
    BY <2>1 DEF TypeInv, TypeOK
  <2>5. \A l \in cached' : l \in cached /\ list'[l] = list[l]
    BY <2>1, <2>4 DEF TypeInv, TypeOK
  <2>6. Taken(<<>>) = {}
    BY DEF Taken
  <2>7. hubMsg' # NoMsg => hubMsg' \notin Taken(hubList') /\ \A l \in Key : hubMsg' \notin Taken(list'[l])
    BY <2>1, <2>2, <2>4, <2>6 DEF Current
  <2>8. (HubFree \/ NobodyReads)'
    BY <2>1, <2>2 DEF Current, HubFree, NobodyReads
  <2>9. \A l \in cached', m \in Msg : m # hubMsg' /\ Due(m, l)' => OnceIn(m, list'[l])
    BY <2>1, <2>2, <2>3, <2>5 DEF Current
  <2>10. /\ hubAt' = "set" => \A m \in Msg : m # hubMsg' /\ Due(m, KeyOf(hubMsg))' => OnceIn(m, hubList')
         /\ \A r \in Request : readAt'[r] = "put" =>
              \A m \in Msg : Due(m, readKey[r])' => OnceIn(m, readList'[r])
    <3>1. \A r \in Request, m \in Msg : Due(m, readKey[r])' <=> Due(m, readKey[r])
      BY <2>1 DEF Due, KeyOf, InGroup, Stored
    <3>2. \A m \in Msg : Due(m, KeyOf(hubMsg))' <=> Due(m, KeyOf(hubMsg))
      BY <2>1 DEF Due, KeyOf, InGroup, Stored
    <3>3. QED
      BY <2>1, <2>2, <3>1, <3>2 DEF Current
  <2>11. QED
    BY <2>7, <2>8, <2>9, <2>10 DEF Current
<1>4. CASE Restart
  <2>1. /\ UNCHANGED <<table, cached, list, delivered>> /\ ~torn /\ HubFree
        /\ hubAt' = "select" /\ hubMsg' = NoMsg
        /\ \A r \in Request : readAt'[r] = "idle"
    BY <1>4 DEF Restart, HubDone
  <2>2. Current /\ hubMsg = NoMsg
    BY <2>1 DEF PostInv, HubFree, TypeInv, TypeOK
  <2>3. \A m \in Msg : \A k : Due(m, k)' <=> Due(m, k)
    BY <2>1 DEF Due, KeyOf, InGroup, Stored
  <2>4. QED
    BY <2>1, <2>2, <2>3, MsgAssumption DEF Current, HubFree
<1>5. QED
  BY <1>2, <1>3, <1>4, PostStore, PostHub, PostRead DEF Next

\* Between the hub's two calls, and between a request's, keys come and go. As long as the
\* hub and a request do not overlap and no call fails, a cached list has every post of its
\* own direction, or of its group, that was stored and delivered, exactly once.
THEOREM OwnPostsCached == Spec => []OwnPostsAreCached
<1>1. Init /\ [][Next]_vars /\ []TypeInv /\ []OrderInv => []PostInv
  BY PostInit, PostStep, PTL
<1>2. Init /\ [][Next]_vars /\ []TypeInv => []OrderInv
  BY OrderInit, OrderStep, PTL
<1>3. TypeInv /\ PostInv => OwnPostsAreCached
  <2> SUFFICES ASSUME TypeInv, PostInv, ~torn, HubFree,
                      NEW m \in delivered, Kind[m] = "post", KeyOf(m) \in cached,
                      \E i \in DOMAIN table : table[i] = m
               PROVE  Cardinality({i \in DOMAIN list[KeyOf(m)] : list[KeyOf(m)][i] = m}) = 1
    BY DEF OwnPostsAreCached
  <2>1. m \in Msg /\ m # hubMsg /\ Due(m, KeyOf(m))
    BY MsgAssumption DEF TypeInv, TypeOK, HubFree, Due, Stored
  <2>2. OnceIn(m, list[KeyOf(m)])
    BY <2>1 DEF PostInv, Current
  <2> DEFINE s == list[KeyOf(m)]
  <2>3. PICK i \in DOMAIN s : \A j \in DOMAIN s : s[j] = m <=> j = i
    BY <2>2 DEF OnceIn
  <2>4. {j \in DOMAIN s : s[j] = m} = {i}
    BY <2>3
  <2>5. QED
    BY <2>4, FS_Singleton
<1>4. QED
  BY <1>1, <1>2, <1>3, TypesHold, PTL DEF Spec

===============================================================================
