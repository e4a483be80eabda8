------------------------- MODULE ContactServiceProofs -------------------------
(*****************************************************************************)
(* Theorems about ContactService.tla and, through it, SessionService.tla, for *)
(* any number of requests, any two users and any faults.                      *)
(*****************************************************************************)
EXTENDS ContactService, TLAPS, SequenceTheorems, FiniteSetTheorems, WellFoundedInduction

-------------------------------------------------------------------------------
(* Rows                                                                       *)

\* The status of the row of lowest id.
RowStatus(rows) == IF First(rows) = {} THEN "none" ELSE rows[CHOOSE i \in First(rows) : TRUE]

\* There are two users, each the other's peer.
LEMMA PairFacts ==
  ASSUME NEW u \in Pair
  PROVE  /\ Peer(u) \in Pair /\ Peer(u) # u /\ Peer(Peer(u)) = u
         /\ Pair = {u, Peer(u)}
<1>1. PICK a, b \in Pair : a # b /\ Pair = {a, b}
  BY PairAssumption
<1>2. \A w \in Pair : Peer(w) \in Pair /\ Peer(w) # w
  <2> SUFFICES ASSUME NEW w \in Pair PROVE Peer(w) \in Pair /\ Peer(w) # w
    OBVIOUS
  <2>1. \E v \in Pair : v # w
    BY <1>1
  <2>2. QED
    BY <2>1 DEF Peer
<1>3. QED
  BY <1>1, <1>2

\* The lowest of some ids.
LEMMA LowestId ==
  ASSUME NEW ids \in SUBSET Nat, ids # {}
  PROVE  \E i \in ids : \A j \in ids : i <= j
<1>1. IsWellFoundedOn(OpToRel(<, Nat), Nat)
  BY NatLessThanWellFounded
<1>2. PICK i \in ids : \A j \in ids : ~(<<j, i>> \in OpToRel(<, Nat))
  BY <1>1, WFMin
<1>3. \A j \in ids : ~(j < i)
  BY <1>2 DEF OpToRel
<1>4. QED
  BY <1>3

\* Of the live rows there are finitely many; if there are any, one of them is the
\* first, and the status says whether there are.
LEMMA LiveFacts ==
  ASSUME NEW S, NEW rows \in Seq(S)
  PROVE  /\ DOMAIN rows = 1 .. Len(rows) /\ Len(rows) \in Nat
         /\ Live(rows) \subseteq DOMAIN rows
         /\ IsFiniteSet(Live(rows)) /\ Cardinality(Live(rows)) \in Nat
         /\ First(rows) \subseteq Live(rows)
         /\ First(rows) = {} <=> Live(rows) = {}
         /\ \A i, j \in First(rows) : i = j
<1>1. DOMAIN rows = 1 .. Len(rows) /\ Len(rows) \in Nat
  BY LenProperties
<1>2. Live(rows) \in SUBSET (1 .. Len(rows))
  BY <1>1 DEF Live
<1>3. IsFiniteSet(Live(rows))
  <2>1. IsFiniteSet(1 .. Len(rows))
    BY <1>1, FS_Interval
  <2>2. QED
    BY <1>2, <2>1, FS_Subset
<1>4. First(rows) \subseteq Live(rows)
  BY DEF First
<1>5. Live(rows) # {} => First(rows) # {}
  BY <1>1, <1>2, LowestId DEF First
<1>6. \A i, j \in First(rows) : i = j
  BY <1>1, <1>2 DEF First
<1>7. QED
  BY <1>1, <1>2, <1>3, <1>4, <1>5, <1>6, FS_CardinalityType

\* The status is that of the first row.
LEMMA StatusFacts ==
  ASSUME NEW S, NEW rows \in Seq(S)
  PROVE  /\ \A i \in First(rows) : RowStatus(rows) = rows[i] /\ rows[i] # "gone" /\ rows[i] \in S
         /\ "none" \notin S => (RowStatus(rows) = "none" <=> Live(rows) = {})
<1>1. /\ First(rows) \subseteq Live(rows) /\ (First(rows) = {} <=> Live(rows) = {})
      /\ \A i, j \in First(rows) : i = j
      /\ \A i \in Live(rows) : rows[i] # "gone" /\ rows[i] \in S
  <2>1. /\ First(rows) \subseteq Live(rows) /\ (First(rows) = {} <=> Live(rows) = {})
        /\ \A i, j \in First(rows) : i = j
        /\ DOMAIN rows = 1 .. Len(rows)
    BY LiveFacts
  <2>2. \A i \in Live(rows) : i \in 1 .. Len(rows) /\ rows[i] # "gone"
    BY <2>1 DEF Live
  <2>3. \A i \in 1 .. Len(rows) : rows[i] \in S
    BY ElementOfSeq
  <2>4. QED
    BY <2>1, <2>2, <2>3
<1>2. ASSUME NEW i \in First(rows) PROVE RowStatus(rows) = rows[i]
  <2>1. First(rows) = {i}
    BY <1>1
  <2>2. (CHOOSE j \in {i} : TRUE) = i
    OBVIOUS
  <2>3. QED
    BY <2>1, <2>2 DEF RowStatus
<1>3. QED
  BY <1>1, <1>2 DEF RowStatus

\* An Update keeps the rows' numbers.
LEMMA UpdatedFacts ==
  ASSUME NEW S, NEW rows \in Seq(S), NEW ids, NEW x \in S
  PROVE  /\ Updated(rows, ids, x) \in Seq(S) /\ DOMAIN Updated(rows, ids, x) = DOMAIN rows
         /\ \A i \in DOMAIN rows : Updated(rows, ids, x)[i] = IF i \in ids THEN x ELSE rows[i]
         /\ x = "gone" => Live(Updated(rows, ids, x)) = Live(rows) \ ids
<1>1. DOMAIN rows = 1 .. Len(rows) /\ Len(rows) \in Nat /\ \A i \in 1 .. Len(rows) : rows[i] \in S
  BY LenProperties, ElementOfSeq
<1>2. Updated(rows, ids, x) \in Seq(S)
  BY <1>1, IsASeq DEF Updated
<1>3. QED
  BY <1>2 DEF Updated, Live

\* An Update of live rows to another status keeps them live.
LEMMA KeptFacts ==
  ASSUME NEW S, NEW rows \in Seq(S), "none" \notin S, NEW ids \in SUBSET Live(rows),
         NEW x \in S, x # "gone", First(rows) \subseteq ids
  PROVE  /\ Live(Updated(rows, ids, x)) = Live(rows) /\ First(Updated(rows, ids, x)) = First(rows)
         /\ RowStatus(Updated(rows, ids, x)) = IF Live(rows) = {} THEN "none" ELSE x
<1> DEFINE up == Updated(rows, ids, x)
<1>1. up \in Seq(S) /\ DOMAIN up = DOMAIN rows
      /\ \A i \in DOMAIN rows : up[i] = IF i \in ids THEN x ELSE rows[i]
  BY UpdatedFacts
<1>2. Live(up) = Live(rows)
  BY <1>1 DEF Live
<1>3. First(up) = First(rows)
  BY <1>2 DEF First
<1>4. /\ \A i \in First(up) : RowStatus(up) = up[i]
      /\ RowStatus(up) = "none" <=> Live(up) = {}
  BY <1>1, StatusFacts
<1>5. First(rows) \subseteq Live(rows) /\ (First(rows) = {} <=> Live(rows) = {})
      /\ Live(rows) \subseteq DOMAIN rows
  BY LiveFacts
<1>6. QED
  BY <1>1, <1>2, <1>3, <1>4, <1>5

\* A row that is added is the last.
LEMMA AppendedFacts ==
  ASSUME NEW S, NEW rows \in Seq(S), "none" \notin S, NEW x \in S, x # "gone"
  PROVE  /\ Append(rows, x) \in Seq(S)
         /\ Len(Append(rows, x)) = Len(rows) + 1
         /\ DOMAIN rows \subseteq DOMAIN Append(rows, x)
         /\ Live(Append(rows, x)) = Live(rows) \cup {Len(rows) + 1}
         /\ Cardinality(Live(Append(rows, x))) = Cardinality(Live(rows)) + 1
         /\ First(Append(rows, x)) = IF Live(rows) = {} THEN {Len(rows) + 1} ELSE First(rows)
         /\ RowStatus(Append(rows, x)) = IF Live(rows) = {} THEN x ELSE RowStatus(rows)
<1> DEFINE new == Append(rows, x)  n == Len(rows)
<1>1. /\ new \in Seq(S) /\ Len(new) = n + 1 /\ new[n + 1] = x
      /\ \A i \in 1 .. n : new[i] = rows[i]
  BY AppendProperties
<1>2. /\ DOMAIN rows = 1 .. n /\ n \in Nat /\ Live(rows) \subseteq DOMAIN rows
      /\ IsFiniteSet(Live(rows)) /\ First(rows) \subseteq Live(rows)
      /\ First(rows) = {} <=> Live(rows) = {}
  BY LiveFacts
<1>3. DOMAIN new = 1 .. n + 1
  BY <1>1, LenProperties
<1>4. Live(new) = Live(rows) \cup {n + 1}
  BY <1>1, <1>2, <1>3 DEF Live
<1>5. n + 1 \notin Live(rows)
  BY <1>2
<1>6. Cardinality(Live(new)) = Cardinality(Live(rows)) + 1
  <2>1. Cardinality(Live(rows) \cup {n + 1}) = Cardinality(Live(rows)) + 1
    <3>1. IsFiniteSet(Live(rows))
      BY <1>2
    <3>2. QED
      BY ONLY <1>5, <3>1, FS_AddElement
  <2>2. QED
    BY <1>4, <2>1
<1>7. First(new) = IF Live(rows) = {} THEN {n + 1} ELSE First(rows)
  <2>1. \A j \in Live(rows) : j <= n /\ j \in Nat
    BY <1>2
  <2>2. CASE Live(rows) = {}
    BY <1>2, <1>4, <2>2 DEF First
  <2>3. CASE Live(rows) # {}
    BY <1>2, <1>4, <2>1, <2>3 DEF First
  <2>4. QED
    BY <2>2, <2>3
<1>8. RowStatus(new) = IF Live(rows) = {} THEN x ELSE RowStatus(rows)
  <2>1. \A i \in First(new) : RowStatus(new) = new[i]
    <3>1. new \in Seq(S)
      BY <1>1
    <3>2. QED
      BY ONLY <3>1, StatusFacts
  <2>2. \A i \in First(rows) : RowStatus(rows) = rows[i]
    BY StatusFacts
  <2>3. CASE Live(rows) = {}
    BY <1>1, <1>7, <2>1, <2>3
  <2>4. CASE Live(rows) # {}
    BY <1>1, <1>2, <1>7, <2>1, <2>2, <2>4
  <2>5. QED
    BY <2>3, <2>4
<1>9. QED
  BY <1>1, <1>2, <1>3, <1>4, <1>6, <1>7, <1>8

-------------------------------------------------------------------------------
(* Types                                                                      *)

Active(r) == pc[r] \notin {"idle", "done"}

\* A request of operation o may stand at p.
At(p, o) ==
  /\ p \in {"idle", "done", "find", "createApply", "saveApply", "own", "other", "tx", "uncache",
            "session", "peerSession", "findBlack", "save", "saveAgain", "contacts",
            "keepContacts", "check", "open", "keep", "create", "unlist", "sessions",
            "keepSessions", "close"}
  /\ p \in {"find", "saveApply"} => o \in {"apply", "pass", "refuse", "bar"}
  /\ p = "createApply" => o = "apply"
  /\ p \in {"own", "other", "uncache"} => o \in {"pass", "black", "delete"}
  /\ p \in {"tx", "peerSession"} => o = "delete"
  /\ p = "session" => o \in {"black", "delete"}
  /\ p \in {"findBlack", "save", "saveAgain"} => o = "cancel"
  /\ p \in {"contacts", "keepContacts"} => o = "contacts"
  /\ p \in {"check", "open", "keep", "create"} => o \in {"open", "message"}
  /\ p = "unlist" => o \in {"open", "message", "close"}
  /\ p \in {"sessions", "keepSessions"} => o = "sessions"
  /\ p = "close" => o = "close"

\* The rows in a request's hands are rows there are or were.
Hands(r) ==
  /\ pc[r] = "saveApply" => mine[r] # {} /\ mine[r] \subseteq DOMAIN apply[Applicant(r)]
  /\ pc[r] \in {"save", "saveAgain"} => mine[r] # {} /\ mine[r] \subseteq DOMAIN contact[who(r)]
  /\ pc[r] = "keep" => mine[r] # {} /\ mine[r] \subseteq DOMAIN session[who(r)]
  /\ pc[r] = "keepSessions" => mine[r] \subseteq DOMAIN session[who(r)]
  /\ pc[r] = "keepContacts" => mine[r] \subseteq DOMAIN contact[who(r)]

\* What TypeOK says of the tables and of their copies, and of the requests: each
\* stands in its program.
ContactTypes ==
  /\ contact \in [Pair -> Seq(Status)] /\ apply \in [Pair -> Seq(ApplyStatus)]
  /\ cachedContacts \in [Pair -> SUBSET Nat]
  /\ \A u \in Pair : cachedContacts[u] = NoList \/ cachedContacts[u] \subseteq DOMAIN contact[u]
SessionTypes ==
  /\ SessionsTypeOK
  /\ cachedSession \in [Pair -> SUBSET Nat] /\ cachedSessions \in [Pair -> SUBSET Nat]
RequestTypes ==
  /\ DOMAIN pc = Req /\ DOMAIN req = Req /\ DOMAIN mine = Req /\ ret \in [Req -> Results]
  /\ \A r \in Req :
       /\ pc[r] = "done" <=> ret[r] # "none"
       /\ At(pc[r], op(r))
       /\ Active(r) => who(r) \in Pair
       /\ Hands(r)
Typed == ContactTypes /\ SessionTypes /\ RequestTypes

\* A request's first statement is its program's.
LEMMA EntryFacts ==
  ASSUME NEW o \in DOMAIN Entry
  PROVE  /\ Entry[o] \notin {"idle", "done", "saveApply", "save", "saveAgain", "keep",
                             "keepSessions", "keepContacts"}
         /\ At(Entry[o], o)
BY DEF Entry, At

\* A request begins.
LEMMA TypedBegin ==
  ASSUME Typed, NEW r \in Req, Begin(r)
  PROVE  Typed'
<1>1. PICK o \in DOMAIN Entry, u \in Pair :
        /\ req' = [req EXCEPT ![r] = [op |-> o, who |-> u]]
        /\ pc' = [pc EXCEPT ![r] = Entry[o]] /\ ret' = ret
  BY DEF Begin, Goto
<1>2. UNCHANGED <<contactVars, sessionVars, mine>> /\ pc[r] = "idle"
  BY DEF Begin
<1>3. PICK p : p = Entry[o]
  OBVIOUS
<1>4. /\ p \notin {"idle", "done", "saveApply", "save", "saveAgain", "keep", "keepSessions",
                   "keepContacts"}
      /\ At(p, o)
  BY <1>3, EntryFacts
<1>5. /\ pc'[r] = p /\ req'[r].op = o /\ req'[r].who = u
      /\ \A s \in Req : s # r => pc'[s] = pc[s] /\ req'[s] = req[s]
      /\ DOMAIN pc' = Req /\ DOMAIN req' = Req
  BY <1>1, <1>3 DEF Typed, RequestTypes
<1>6. UNCHANGED <<contact, apply, cachedContacts, session, cachedSession, cachedSessions, mine, ret>>
  BY <1>1, <1>2 DEF contactVars, sessionVars
<1>7. \A s \in Req : At(pc[s], op(s))' /\ (Active(s)' => who(s)' \in Pair)
  BY <1>4, <1>5 DEF Typed, RequestTypes, op, who, Active
<1>8. \A s \in Req : Hands(s)'
  BY <1>4, <1>5, <1>6 DEF Typed, RequestTypes, Hands, Applicant, op, who
<1>9. \A s \in Req : pc'[s] = "done" <=> ret'[s] # "none"
  BY <1>2, <1>4, <1>5, <1>6 DEF Typed, RequestTypes
<1>10. RequestTypes'
  BY <1>5, <1>6, <1>7, <1>8, <1>9 DEF Typed, RequestTypes
<1>11. QED
  BY <1>6, <1>10 DEF Typed, ContactTypes, SessionTypes, SessionsTypeOK

\* A request takes a step to p, or answers.
Steps(r, p) ==
  \/ p # "done" /\ p # "idle" /\ Goto(r, p)
  \/ p = "done" /\ \E a \in {"ok", "refused", "failed"} : Answer(r, a)

\* No table loses a row's place.
Grown ==
  \A u \in Pair : /\ DOMAIN contact[u] \subseteq DOMAIN contact'[u]
                  /\ DOMAIN apply[u] \subseteq DOMAIN apply'[u]
                  /\ DOMAIN session[u] \subseteq DOMAIN session'[u]

\* If p is in its program, and what it has in its hands there are rows, it stays typed.
LEMMA TypedSteps ==
  ASSUME Typed, NEW r \in Req, Active(r), NEW p, Steps(r, p), At(p, op(r)), UNCHANGED req, Grown,
         DOMAIN mine' = Req, \A s \in Req : s # r => mine'[s] = mine[s], Hands(r)'
  PROVE  RequestTypes'
<1>1. /\ pc' = [pc EXCEPT ![r] = p]
      /\ \/ p # "done" /\ ret' = ret
         \/ p = "done" /\ \E a \in {"ok", "refused", "failed"} : ret' = [ret EXCEPT ![r] = a]
  BY DEF Steps, Goto, Answer
<1>2. ret[r] = "none" /\ who(r) \in Pair
  BY DEF Active, Typed, RequestTypes, Results
<1>3. ret' \in [Req -> Results] /\ \A s \in Req : pc'[s] = "done" <=> ret'[s] # "none"
  BY <1>1, <1>2 DEF Typed, RequestTypes, Results
<1>4. DOMAIN pc' = Req /\ DOMAIN req' = Req /\ pc'[r] = p /\ \A s \in Req : s # r => pc'[s] = pc[s]
  BY <1>1 DEF Typed, RequestTypes
<1>5. \A s \in Req : /\ At(pc[s], op(s))' /\ op(s)' = op(s) /\ who(s)' = who(s)
                     /\ Applicant(s)' = Applicant(s) /\ (Active(s)' => who(s)' \in Pair)
  BY <1>2, <1>4 DEF Typed, RequestTypes, op, who, Applicant, Active
<1>6. ASSUME NEW s \in Req, s # r PROVE Hands(s)'
  <2>1. pc'[s] = pc[s] /\ mine'[s] = mine[s]
    BY <1>4, <1>6
  <2>2. pc[s] \notin {"idle", "done"} => who(s) \in Pair /\ Applicant(s) \in Pair
    BY PairFacts DEF Typed, RequestTypes, Active, Applicant
  <2>3. Hands(s)
    BY DEF Typed, RequestTypes
  <2>4. QED
    BY <1>5, <2>1, <2>2, <2>3 DEF Hands, Grown
<1>7. QED
  BY <1>3, <1>4, <1>5, <1>6 DEF RequestTypes

\* A step after which a request has no rows in its hands.
LEMMA TypedPlain ==
  ASSUME Typed, NEW r \in Req, Active(r), NEW p, Steps(r, p), At(p, op(r)), UNCHANGED req, Grown,
         UNCHANGED mine,
         p \notin {"saveApply", "save", "saveAgain", "keep", "keepSessions", "keepContacts"}
  PROVE  RequestTypes'
<1>1. pc'[r] = p /\ DOMAIN mine' = Req
  BY DEF Steps, Goto, Answer, Typed, RequestTypes
<1>2. Hands(r)'
  BY <1>1 DEF Hands
<1>3. QED
  BY <1>1, <1>2, TypedSteps

\* The steps that only read the tables.
LEMMA TypedReads ==
  ASSUME Typed, NEW r \in Req,
         StatementFails(r) \/ FindApply(r) \/ FindBlack(r) \/ Check(r) \/ OpenSession(r),
         UNCHANGED <<contactVars, sessionVars>>
  PROVE  Typed'
<1>1. UNCHANGED <<contact, apply, cachedContacts, session, cachedSession, cachedSessions, req>>
  BY DEF StatementFails, FindApply, FindBlack, Check, OpenSession, contactVars, sessionVars
<1>2. ContactTypes' /\ SessionTypes' /\ Grown
  BY <1>1 DEF Typed, ContactTypes, SessionTypes, SessionsTypeOK, Grown
<1>3. At(pc[r], op(r)) /\ Active(r) /\ who(r) \in Pair
  BY DEF Typed, RequestTypes, StatementFails, FindApply, FindBlack, Check, OpenSession, Active
<1>4. Applicant(r) \in Pair /\ contact[who(r)] \in Seq(Status) /\ session[who(r)] \in Seq({"live", "gone"})
  BY <1>3, PairFacts DEF Applicant, Typed, ContactTypes, SessionTypes, SessionsTypeOK
<1>5. apply[Applicant(r)] \in Seq(ApplyStatus)
  BY <1>4 DEF Typed, ContactTypes
<1>6. /\ First(apply[Applicant(r)]) \subseteq DOMAIN apply[Applicant(r)]
      /\ First(contact[who(r)]) \subseteq DOMAIN contact[who(r)]
      /\ First(session[who(r)]) \subseteq DOMAIN session[who(r)]
  BY DEF First, Live
<1>7. /\ Applicant(r)' = Applicant(r) /\ who(r)' = who(r)
      /\ DOMAIN mine = Req
  BY <1>1 DEF Applicant, who, op, Typed, RequestTypes
<1>8. CASE StatementFails(r)
  <2>1. Steps(r, "done") /\ At("done", op(r)) /\ UNCHANGED mine
    BY <1>8 DEF StatementFails, Steps, At
  <2>2. QED
    BY <1>1, <1>2, <1>3, <2>1, TypedPlain DEF Typed
<1>9. CASE FindApply(r)
  <2>1. mine' = [mine EXCEPT ![r] = First(apply[Applicant(r)])] /\ pc[r] = "find"
    BY <1>9 DEF FindApply, Read
  <2>2. PICK p \in {"createApply", "saveApply", "done"} :
          /\ Steps(r, p) /\ (p = "createApply" => op(r) = "apply")
          /\ p = "saveApply" => First(apply[Applicant(r)]) # {}
    BY <1>9 DEF FindApply, Steps, Missing
  <2>3. At(p, op(r))
    BY <1>3, <2>1, <2>2 DEF At
  <2>4. pc'[r] = p
    BY <2>2 DEF Steps, Goto, Answer, Typed, RequestTypes
  <2>5. Hands(r)'
    BY <1>1, <1>6, <1>7, <2>1, <2>2, <2>4 DEF Hands
  <2>6. QED
    BY <1>1, <1>2, <1>3, <1>7, <2>1, <2>2, <2>3, <2>5, TypedSteps DEF Typed
<1>10. CASE FindBlack(r)
  <2>1. mine' = [mine EXCEPT ![r] = First(contact[who(r)])] /\ pc[r] = "findBlack"
    BY <1>10 DEF FindBlack, Read
  <2>2. PICK p \in {"save", "done"} : Steps(r, p) /\ (p = "save" => First(contact[who(r)]) # {})
    BY <1>10 DEF FindBlack, Steps
  <2>3. At(p, op(r))
    BY <1>3, <2>1, <2>2 DEF At
  <2>4. pc'[r] = p
    BY <2>2 DEF Steps, Goto, Answer, Typed, RequestTypes
  <2>5. Hands(r)'
    BY <1>1, <1>6, <1>7, <2>1, <2>2, <2>4 DEF Hands
  <2>6. QED
    BY <1>1, <1>2, <1>3, <1>7, <2>1, <2>2, <2>3, <2>5, TypedSteps DEF Typed
<1>11. CASE Check(r)
  <2>1. PICK p \in {"open", "done"} : Steps(r, p) /\ At(p, op(r)) /\ UNCHANGED mine
    BY <1>3, <1>11 DEF Check, Steps, At
  <2>2. QED
    BY <1>1, <1>2, <1>3, <2>1, TypedPlain DEF Typed
<1>12. CASE OpenSession(r)
  <2>1. PICK p \in {"keep", "create", "done"} :
          /\ Steps(r, p) /\ At(p, op(r))
          /\ \/ p = "done" /\ UNCHANGED mine
             \/ /\ mine' = [mine EXCEPT ![r] = First(session[who(r)])]
                /\ p = "keep" => First(session[who(r)]) # {}
    BY <1>3, <1>12 DEF OpenSession, Read, Steps, At
  <2>2. pc'[r] = p
    BY <2>1 DEF Steps, Goto, Answer, Typed, RequestTypes
  <2>3. Hands(r)'
    BY <1>1, <1>6, <1>7, <2>1, <2>2 DEF Hands
  <2>4. QED
    BY <1>1, <1>2, <1>3, <1>7, <2>1, <2>3, TypedSteps DEF Typed
<1>13. QED
  BY <1>8, <1>9, <1>10, <1>11, <1>12

\* The steps that write applications.
LEMMA TypedApply ==
  ASSUME Typed, NEW r \in Req, CreateApply(r) \/ SaveApply(r) \/ DeleteApplies(r)
  PROVE  Typed'
<1>1. UNCHANGED <<contact, cachedContacts, session, cachedSession, cachedSessions, req>>
  BY DEF CreateApply, SaveApply, DeleteApplies, sessionVars
<1>2. At(pc[r], op(r)) /\ Active(r) /\ who(r) \in Pair /\ DOMAIN mine = Req
  BY DEF Typed, RequestTypes, CreateApply, SaveApply, DeleteApplies, Active
<1>3. Applicant(r) \in Pair /\ Applicant(r)' = Applicant(r)
  BY <1>1, <1>2, PairFacts DEF Applicant, who, op
<1>4. apply \in [Pair -> Seq(ApplyStatus)]
  BY DEF Typed, ContactTypes
<1>5. ASSUME apply' \in [Pair -> Seq(ApplyStatus)],
             \A u \in Pair : DOMAIN apply[u] \subseteq DOMAIN apply'[u],
             RequestTypes'
      PROVE  Typed'
  BY <1>1, <1>5 DEF Typed, ContactTypes, SessionTypes, SessionsTypeOK
<1>6. (\A u \in Pair : DOMAIN apply[u] \subseteq DOMAIN apply'[u]) => Grown
  BY <1>1 DEF Grown
<1>7. CASE CreateApply(r)
  <2> DEFINE u == who(r)  rows == Append(apply[u], "pending")
  <2>1. /\ apply' = [apply EXCEPT ![u] = rows] /\ pc[r] = "createApply"
        /\ mine' = [mine EXCEPT ![r] = {Len(apply'[u])}] /\ Steps(r, "saveApply")
    BY <1>7 DEF CreateApply, Read, Steps
  <2>2. /\ rows \in Seq(ApplyStatus) /\ DOMAIN apply[u] \subseteq DOMAIN rows
        /\ DOMAIN rows = 1 .. Len(rows) /\ Len(rows) = Len(apply[u]) + 1 /\ Len(apply[u]) \in Nat
    BY <1>2, <1>4, AppendedFacts, LenProperties DEF ApplyStatus
  <2>3. apply' \in [Pair -> Seq(ApplyStatus)] /\ apply'[u] = rows
        /\ \A v \in Pair : DOMAIN apply[v] \subseteq DOMAIN apply'[v]
    BY <1>2, <1>4, <2>1, <2>2
  <2>4. op(r) = "apply" /\ At("saveApply", op(r)) /\ Applicant(r) = u
    BY <1>2, <2>1 DEF At, Applicant
  <2>5. pc'[r] = "saveApply" /\ mine'[r] = {Len(rows)}
    BY <1>2, <2>1, <2>3 DEF Steps, Goto, Typed, RequestTypes
  <2>6. Hands(r)'
    BY <1>3, <2>2, <2>3, <2>4, <2>5 DEF Hands
  <2>7. RequestTypes'
    BY <1>1, <1>2, <1>6, <2>1, <2>3, <2>4, <2>6, TypedSteps
  <2>8. QED
    BY <1>5, <2>3, <2>7
<1>8. CASE SaveApply(r)
  <2> DEFINE u == Applicant(r)
  <2>1. PICK x \in ApplyStatus : apply' = [apply EXCEPT ![u] = Updated(@, mine[r], x)]
    <3>1. pc[r] = "saveApply"
      BY <1>8 DEF SaveApply
    <3>2. op(r) \in {"apply", "pass", "refuse", "bar"}
      BY <1>2, <3>1 DEF At
    <3>3. QED
      BY <1>8, <3>2 DEF SaveApply, ApplyStatus
  <2>2. PICK p \in {"own", "done"} : Steps(r, p) /\ At(p, op(r)) /\ UNCHANGED mine
    BY <1>8 DEF SaveApply, Steps, At
  <2>3. /\ Updated(apply[u], mine[r], x) \in Seq(ApplyStatus)
        /\ DOMAIN Updated(apply[u], mine[r], x) = DOMAIN apply[u]
    BY <1>3, <1>4, UpdatedFacts
  <2>4. apply' \in [Pair -> Seq(ApplyStatus)] /\ \A v \in Pair : DOMAIN apply[v] \subseteq DOMAIN apply'[v]
    BY <1>3, <1>4, <2>1, <2>3
  <2>5. RequestTypes'
    BY <1>1, <1>2, <1>6, <2>2, <2>4, TypedPlain
  <2>6. QED
    BY <1>5, <2>4, <2>5
<1>9. CASE DeleteApplies(r)
  <2>1. /\ apply' = [u \in Pair |-> Cleared(apply[u])] /\ pc[r] = "tx"
        /\ Steps(r, "uncache") /\ UNCHANGED mine
    BY <1>9 DEF DeleteApplies, Steps
  <2>2. \A u \in Pair : Cleared(apply[u]) \in Seq(ApplyStatus) /\ DOMAIN Cleared(apply[u]) = DOMAIN apply[u]
    BY <1>4, UpdatedFacts DEF Cleared, ApplyStatus
  <2>3. apply' \in [Pair -> Seq(ApplyStatus)] /\ \A v \in Pair : DOMAIN apply[v] \subseteq DOMAIN apply'[v]
    BY <2>1, <2>2
  <2>4. At("uncache", op(r))
    BY <1>2, <2>1 DEF At
  <2>5. RequestTypes'
    BY <1>1, <1>2, <1>6, <2>1, <2>3, <2>4, TypedPlain
  <2>6. QED
    BY <1>5, <2>3, <2>5
<1>10. QED
  BY <1>7, <1>8, <1>9

\* What PassContactApply, BlackContact and DeleteContact make of one user's rows.
LEMMA ChangedFacts ==
  ASSUME NEW r \in Req, op(r) \in {"pass", "black", "delete"}, NEW rows \in Seq(Status)
  PROVE  /\ Changed(r, rows) \in Seq(Status) /\ DOMAIN rows \subseteq DOMAIN Changed(r, rows)
         /\ op(r) = "pass" =>
              /\ Cardinality(Live(Changed(r, rows))) = Cardinality(Live(rows)) + 1
              /\ Live(rows) \subseteq Live(Changed(r, rows)) /\ Live(Changed(r, rows)) # {}
              /\ RowStatus(Changed(r, rows)) = IF Live(rows) = {} THEN "normal" ELSE RowStatus(rows)
         /\ op(r) = "black" =>
              /\ Live(Changed(r, rows)) = Live(rows)
              /\ RowStatus(Changed(r, rows)) = IF Live(rows) = {} THEN "none"
                                               ELSE IF pc[r] = "own" THEN "black" ELSE "beblack"
         /\ op(r) = "delete" => Live(Changed(r, rows)) = {}
<1>1. {"normal", "black", "beblack", "gone"} = Status /\ "none" \notin Status
  BY DEF Status
<1>2. CASE op(r) = "pass"
  <2>1. Changed(r, rows) = Append(rows, "normal")
    BY <1>2 DEF Changed
  <2>2. /\ Append(rows, "normal") \in Seq(Status) /\ DOMAIN rows \subseteq DOMAIN Append(rows, "normal")
        /\ Live(Append(rows, "normal")) = Live(rows) \cup {Len(rows) + 1}
        /\ Cardinality(Live(Append(rows, "normal"))) = Cardinality(Live(rows)) + 1
        /\ RowStatus(Append(rows, "normal")) = IF Live(rows) = {} THEN "normal" ELSE RowStatus(rows)
    BY <1>1, AppendedFacts
  <2>3. QED
    BY <1>2, <2>1, <2>2
<1>3. CASE op(r) = "black"
  <2> DEFINE x == IF pc[r] = "own" THEN "black" ELSE "beblack"
  <2>1. Changed(r, rows) = Updated(rows, Live(rows), x)
    BY <1>3 DEF Changed
  <2>2. First(rows) \subseteq Live(rows) /\ x \in Status /\ x # "gone"
    BY <1>1, LiveFacts
  <2>3. /\ Updated(rows, Live(rows), x) \in Seq(Status)
        /\ DOMAIN Updated(rows, Live(rows), x) = DOMAIN rows
    BY <2>2, UpdatedFacts
  <2>4. /\ Live(Updated(rows, Live(rows), x)) = Live(rows)
        /\ RowStatus(Updated(rows, Live(rows), x)) = IF Live(rows) = {} THEN "none" ELSE x
    BY <1>1, <2>2, KeptFacts
  <2>5. QED
    BY <1>3, <2>1, <2>3, <2>4
<1>4. CASE op(r) = "delete"
  <2>1. Changed(r, rows) = Updated(rows, Live(rows), "gone")
    BY <1>4 DEF Changed
  <2>2. /\ Updated(rows, Live(rows), "gone") \in Seq(Status)
        /\ DOMAIN Updated(rows, Live(rows), "gone") = DOMAIN rows
        /\ Live(Updated(rows, Live(rows), "gone")) = Live(rows) \ Live(rows)
    BY <1>1, UpdatedFacts
  <2>3. QED
    BY <1>4, <2>1, <2>2
<1>5. QED
  BY <1>2, <1>3, <1>4

\* The steps that write contact rows.
LEMMA TypedContact ==
  ASSUME Typed, NEW r \in Req, Own(r) \/ Other(r) \/ SaveContact(r)
  PROVE  Typed'
<1>1. UNCHANGED <<apply, cachedContacts, session, cachedSession, cachedSessions, req, mine>>
  BY DEF Own, Other, SaveContact, sessionVars
<1>2. At(pc[r], op(r)) /\ Active(r) /\ who(r) \in Pair /\ Peer(who(r)) \in Pair /\ DOMAIN mine = Req
  BY PairFacts DEF Typed, RequestTypes, Own, Other, SaveContact, Active
<1>3. contact \in [Pair -> Seq(Status)]
  BY DEF Typed, ContactTypes
<1>4. PICK u \in Pair, rows \in Seq(Status),
            p \in {"other", "uncache", "session", "tx", "save", "saveAgain", "done"} :
        /\ contact' = [contact EXCEPT ![u] = rows] /\ DOMAIN contact[u] \subseteq DOMAIN rows
        /\ Steps(r, p) /\ At(p, op(r)) /\ p # "save"
        /\ p = "saveAgain" => pc[r] = "save" /\ u = who(r)
  <2>1. CASE Own(r) \/ Other(r)
    <3>1. op(r) \in {"pass", "black", "delete"} /\ pc[r] \in {"own", "other"}
      BY <1>2, <2>1 DEF Own, Other, At
    <3>2. \A u \in Pair : Changed(r, contact[u]) \in Seq(Status)
                          /\ DOMAIN contact[u] \subseteq DOMAIN Changed(r, contact[u])
      BY <1>3, <3>1, ChangedFacts
    <3>3. PICK u \in Pair : contact' = [contact EXCEPT ![u] = Changed(r, contact[u])]
      BY <1>2, <2>1 DEF Own, Other
    <3>4. PICK p \in {"other", "uncache", "session", "tx"} : Steps(r, p) /\ At(p, op(r))
      BY <2>1, <3>1 DEF Own, Other, Steps, At
    <3>5. QED
      BY <3>2, <3>3, <3>4
  <2>2. CASE SaveContact(r)
    <3>1. /\ contact' = [contact EXCEPT ![who(r)] = Updated(contact[who(r)], mine[r], "normal")]
          /\ op(r) = "cancel"
      BY <1>2, <2>2 DEF SaveContact, At
    <3>2. /\ Updated(contact[who(r)], mine[r], "normal") \in Seq(Status)
          /\ DOMAIN Updated(contact[who(r)], mine[r], "normal") = DOMAIN contact[who(r)]
      BY <1>2, <1>3, UpdatedFacts DEF Status
    <3>3. \/ Steps(r, "done") /\ At("done", op(r))
          \/ pc[r] = "save" /\ Steps(r, "saveAgain") /\ At("saveAgain", op(r))
      BY <2>2, <3>1 DEF SaveContact, Steps, At
    <3>4. QED
      BY <1>2, <3>1, <3>2, <3>3
  <2>3. QED
    BY <2>1, <2>2
<1>5. contact' \in [Pair -> Seq(Status)] /\ \A v \in Pair : DOMAIN contact[v] \subseteq DOMAIN contact'[v]
  BY <1>3, <1>4
<1>6. Grown
  BY <1>1, <1>5 DEF Grown
<1>7. pc'[r] = p /\ who(r)' = who(r)
  BY <1>1, <1>4 DEF Steps, Goto, Answer, Typed, RequestTypes, who
<1>8. Hands(r)'
  <2>1. CASE p = "saveAgain"
    <3>1. mine[r] # {} /\ mine[r] \subseteq DOMAIN contact[who(r)]
      BY <1>4, <2>1 DEF Typed, RequestTypes, Hands
    <3>2. QED
      BY <1>1, <1>2, <1>5, <1>7, <2>1, <3>1 DEF Hands
  <2>2. CASE p # "saveAgain"
    BY <1>4, <1>7, <2>2 DEF Hands
  <2>3. QED
    BY <2>1, <2>2
<1>9. RequestTypes'
  BY <1>1, <1>2, <1>4, <1>6, <1>8, TypedSteps
<1>10. ContactTypes'
  BY <1>1, <1>5 DEF Typed, ContactTypes
<1>11. QED
  BY <1>1, <1>9, <1>10 DEF Typed, SessionTypes, SessionsTypeOK

\* The steps that write the cached list of contacts.
LEMMA TypedLists ==
  ASSUME Typed, NEW r \in Req, Uncache(r) \/ GetUserList(r)
  PROVE  Typed'
<1>1. UNCHANGED <<contact, apply, session, cachedSession, cachedSessions, req>>
  BY DEF Uncache, GetUserList, sessionVars
<1>2. At(pc[r], op(r)) /\ Active(r) /\ who(r) \in Pair /\ DOMAIN mine = Req
  BY DEF Typed, RequestTypes, Uncache, GetUserList, Active
<1>3. Grown /\ who(r)' = who(r)
  BY <1>1 DEF Grown, who
<1>4. cachedContacts \in [Pair -> SUBSET Nat]
      /\ \A u \in Pair : cachedContacts[u] = NoList \/ cachedContacts[u] \subseteq DOMAIN contact[u]
  BY DEF Typed, ContactTypes
<1>5. /\ cachedContacts' \in [Pair -> SUBSET Nat]
      /\ \A u \in Pair : cachedContacts'[u] = NoList \/ cachedContacts'[u] \subseteq DOMAIN contact[u]
  <2>0. NoList \in SUBSET Nat /\ DOMAIN contact[who(r)] \subseteq Nat
    <3>1. contact[who(r)] \in Seq(Status)
      BY <1>2 DEF Typed, ContactTypes
    <3>2. QED
      BY <3>1, LenProperties DEF NoList
  <2>1. CASE Uncache(r)
    BY <1>4, <2>0, <2>1 DEF Uncache
  <2>2. CASE GetUserList(r)
    <3>1. \/ UNCHANGED cachedContacts
          \/ pc[r] = "keepContacts" /\ cachedContacts' = [cachedContacts EXCEPT ![who(r)] = mine[r]]
      BY <2>2 DEF GetUserList
    <3>2. pc[r] = "keepContacts" => mine[r] \subseteq DOMAIN contact[who(r)]
      BY DEF Typed, RequestTypes, Hands
    <3>3. mine[r] \in SUBSET Nat \/ UNCHANGED cachedContacts
      BY <2>0, <3>1, <3>2
    <3>4. QED
      BY <1>4, <3>1, <3>2, <3>3
  <2>3. QED
    BY <2>1, <2>2
<1>6. PICK p \in {"done", "keepContacts"} :
        /\ Steps(r, p) /\ At(p, op(r))
        /\ \/ p = "done" /\ UNCHANGED mine
           \/ mine' = [mine EXCEPT ![r] = Live(contact[who(r)])]
  BY <1>2 DEF Uncache, GetUserList, Read, Steps, At
<1>7. pc'[r] = p
  BY <1>6 DEF Steps, Goto, Answer, Typed, RequestTypes
<1>8. Hands(r)'
  BY <1>1, <1>2, <1>3, <1>6, <1>7 DEF Hands, Live
<1>9. RequestTypes'
  BY <1>1, <1>2, <1>3, <1>6, <1>8, TypedSteps
<1>10. QED
  BY <1>1, <1>5, <1>9 DEF Typed, ContactTypes, SessionTypes, SessionsTypeOK

\* The steps that write sessions or their copies in the cache, one user's at a time.
SessionPut(u, rows, one, list) ==
  /\ session' = [session EXCEPT ![u] = rows]
  /\ cachedSession' = [cachedSession EXCEPT ![u] = one]
  /\ cachedSessions' = [cachedSessions EXCEPT ![u] = list]

\* What is put into the tables is of their types.
LEMMA SessionPutFacts ==
  ASSUME SessionTypes, NEW u \in Pair, NEW rows \in Seq({"live", "gone"}), NEW one, NEW list,
         SessionPut(u, rows, one, list),
         DOMAIN session[u] \subseteq DOMAIN rows, one \subseteq DOMAIN rows,
         list = NoList \/ list \subseteq DOMAIN rows
  PROVE  SessionTypes' /\ \A v \in Pair : DOMAIN session[v] \subseteq DOMAIN session'[v]
<1>1. DOMAIN rows = 1 .. Len(rows) /\ Len(rows) \in Nat
  BY LenProperties
<1>2. one \in SUBSET Nat /\ list \in SUBSET Nat
  BY <1>1 DEF NoList
<1>3. QED
  BY <1>2 DEF SessionTypes, SessionsTypeOK, SessionPut

\* What DeleteSessionBySendIdAndReceiveId does to one user's rows.
LEMMA DeletedFacts ==
  ASSUME SessionTypes, NEW u \in Pair, DeleteSessionsByUsers(u)
  PROVE  \E list \in {cachedSessions[u], NoList} :
           /\ SessionPut(u, Updated(session[u], First(session[u]), "gone"), cachedSession[u], list)
           /\ Updated(session[u], First(session[u]), "gone") \in Seq({"live", "gone"})
           /\ DOMAIN Updated(session[u], First(session[u]), "gone") = DOMAIN session[u]
           /\ Live(session[u]) = {} => list = cachedSessions[u]
           /\ Live(session[u]) # {} => list = NoList
<1>1. session[u] \in Seq({"live", "gone"})
      /\ cachedSession \in [Pair -> SUBSET Nat] /\ cachedSessions \in [Pair -> SUBSET Nat]
  BY DEF SessionTypes, SessionsTypeOK
<1>2. /\ Updated(session[u], First(session[u]), "gone") \in Seq({"live", "gone"})
      /\ DOMAIN Updated(session[u], First(session[u]), "gone") = DOMAIN session[u]
  BY <1>1, UpdatedFacts
<1>3. cachedSession' = [cachedSession EXCEPT ![u] = cachedSession[u]]
  BY <1>1 DEF DeleteSessionsByUsers
<1>4. CASE Live(session[u]) = {}
  <2>1. cachedSessions' = [cachedSessions EXCEPT ![u] = cachedSessions[u]]
    BY <1>1, <1>4 DEF DeleteSessionsByUsers
  <2>2. SessionPut(u, Updated(session[u], First(session[u]), "gone"), cachedSession[u], cachedSessions[u])
    BY <1>3, <2>1 DEF SessionPut, DeleteSessionsByUsers
  <2>3. QED
    BY <1>2, <1>4, <2>2
<1>5. CASE Live(session[u]) # {}
  <2>1. cachedSessions' = [cachedSessions EXCEPT ![u] = NoList]
    BY <1>5 DEF DeleteSessionsByUsers, Unlisted
  <2>2. SessionPut(u, Updated(session[u], First(session[u]), "gone"), cachedSession[u], NoList)
    BY <1>3, <2>1 DEF SessionPut, DeleteSessionsByUsers
  <2>3. QED
    BY <1>2, <1>5, <2>2
<1>6. QED
  BY <1>4, <1>5

\* The sessions' own requests.
LEMMA TypedSession ==
  ASSUME Typed, NEW r \in Req,
         Keep(r) \/ CreateSession(r) \/ Unlist(r) \/ GetUserSessionList(r) \/ DeleteSession(r),
         UNCHANGED contactVars
  PROVE  Typed'
<1>1. UNCHANGED <<contact, apply, cachedContacts, req>>
  BY DEF contactVars, Keep, CreateSession, Unlist, GetUserSessionList, DeleteSession
<1>2. At(pc[r], op(r)) /\ Active(r) /\ who(r) \in Pair /\ DOMAIN mine = Req
  BY DEF Typed, RequestTypes, Keep, CreateSession, Unlist, GetUserSessionList, DeleteSession, Active
<1> DEFINE u == who(r)  rows == session[u]
<1>3. /\ session \in [Pair -> Seq({"live", "gone"})]
      /\ cachedSession \in [Pair -> SUBSET Nat] /\ cachedSessions \in [Pair -> SUBSET Nat]
      /\ cachedSession[u] \subseteq DOMAIN rows
      /\ cachedSessions[u] = NoList \/ cachedSessions[u] \subseteq DOMAIN rows
  BY <1>2 DEF Typed, SessionTypes, SessionsTypeOK
<1>4. rows \in Seq({"live", "gone"})
  BY <1>2, <1>3
<1>5. PICK new, one, list :
        /\ new \in Seq({"live", "gone"})
        /\ SessionPut(u, new, one, list) /\ DOMAIN rows \subseteq DOMAIN new
        /\ one \subseteq DOMAIN new /\ (list = NoList \/ list \subseteq DOMAIN new)
  <2>1. CASE Keep(r)
    <3>1. SessionPut(u, rows, mine[r], cachedSessions[u])
      BY <1>3, <2>1 DEF Keep, SessionPut
    <3>2. mine[r] \subseteq DOMAIN rows
      BY <2>1 DEF Keep, Typed, RequestTypes, Hands
    <3>3. QED
      BY <1>3, <1>4, <3>1, <3>2
  <2>2. CASE CreateSession(r)
    <3>1. SessionPut(u, Append(rows, "live"), cachedSession[u], cachedSessions[u])
      BY <1>3, <2>2 DEF CreateSession, SessionPut
    <3>2. Append(rows, "live") \in Seq({"live", "gone"}) /\ DOMAIN rows \subseteq DOMAIN Append(rows, "live")
      BY <1>4, AppendedFacts
    <3>3. QED
      BY <1>3, <3>1, <3>2
  <2>3. CASE Unlist(r)
    <3>1. SessionPut(u, rows, cachedSession[u], NoList)
      BY <1>3, <2>3 DEF Unlist, SessionPut
    <3>2. QED
      BY <1>3, <1>4, <3>1
  <2>4. CASE GetUserSessionList(r)
    <3>1. \/ SessionPut(u, rows, cachedSession[u], cachedSessions[u])
          \/ pc[r] = "keepSessions" /\ SessionPut(u, rows, cachedSession[u], mine[r])
      BY <1>3, <2>4 DEF GetUserSessionList, SessionPut
    <3>2. pc[r] = "keepSessions" => mine[r] \subseteq DOMAIN rows
      BY DEF Typed, RequestTypes, Hands
    <3>3. QED
      BY <1>3, <1>4, <3>1, <3>2
  <2>5. CASE DeleteSession(r)
    <3>1. \/ SessionPut(u, rows, cachedSession[u], cachedSessions[u])
          \/ \E i \in Live(rows) : SessionPut(u, Updated(rows, {i}, "gone"), cachedSession[u], cachedSessions[u])
      BY <1>3, <2>5 DEF DeleteSession, SessionPut
    <3>2. \A i : /\ Updated(rows, {i}, "gone") \in Seq({"live", "gone"})
                 /\ DOMAIN Updated(rows, {i}, "gone") = DOMAIN rows
      BY <1>4, UpdatedFacts
    <3>3. QED
      BY <1>3, <1>4, <3>1, <3>2
  <2>6. QED
    BY <2>1, <2>2, <2>3, <2>4, <2>5
<1>6. SessionTypes' /\ \A v \in Pair : DOMAIN session[v] \subseteq DOMAIN session'[v]
  BY <1>2, <1>5, SessionPutFacts DEF Typed
<1>7. Grown /\ who(r)' = who(r)
  BY <1>1, <1>6 DEF Grown, who
<1>8. PICK p \in {"done", "unlist", "keepSessions"} :
        /\ Steps(r, p) /\ At(p, op(r))
        /\ \/ p # "keepSessions" /\ UNCHANGED mine
           \/ mine' = [mine EXCEPT ![r] = Live(rows)]
  BY <1>2 DEF Keep, CreateSession, Unlist, GetUserSessionList, DeleteSession, Read, Steps, At
<1>9. pc'[r] = p
  BY <1>8 DEF Steps, Goto, Answer, Typed, RequestTypes
<1>10. Hands(r)'
  BY <1>2, <1>6, <1>7, <1>8, <1>9 DEF Hands, Live
<1>11. RequestTypes'
  BY <1>1, <1>2, <1>7, <1>8, <1>10, TypedSteps
<1>12. QED
  BY <1>1, <1>6, <1>11 DEF Typed, ContactTypes

\* The steps that delete sessions by RPC, or fail to.
LEMMA TypedDeletes ==
  ASSUME Typed, NEW r \in Req, DeleteSessions(r) \/ SessionFails(r)
  PROVE  Typed'
<1>1. UNCHANGED <<contact, apply, cachedContacts, req, mine>> /\ pc[r] \in {"session", "peerSession"}
  BY DEF contactVars, DeleteSessions, SessionFails
<1>2. At(pc[r], op(r)) /\ Active(r) /\ who(r) \in Pair /\ Peer(who(r)) \in Pair
  BY <1>1, PairFacts DEF Typed, RequestTypes, Active
<1>3. PICK u \in Pair : DeleteSessionsByUsers(u) \/ UNCHANGED sessionVars
  BY <1>2 DEF DeleteSessions, SessionFails, Sender
<1>4. SessionTypes' /\ \A v \in Pair : DOMAIN session[v] \subseteq DOMAIN session'[v]
  <2>1. CASE UNCHANGED sessionVars
    BY <2>1 DEF sessionVars, Typed, SessionTypes, SessionsTypeOK
  <2>2. CASE DeleteSessionsByUsers(u)
    <3>1. SessionTypes /\ cachedSession[u] \subseteq DOMAIN session[u]
          /\ (cachedSessions[u] = NoList \/ cachedSessions[u] \subseteq DOMAIN session[u])
      BY DEF Typed, SessionTypes, SessionsTypeOK
    <3>2. QED
      BY <2>2, <3>1, DeletedFacts, SessionPutFacts
  <2>3. QED
    BY <1>3, <2>1, <2>2
<1>5. Grown
  BY <1>1, <1>4 DEF Grown
<1>6. PICK p \in {"done", "uncache", "own", "peerSession"} : Steps(r, p) /\ At(p, op(r))
  BY <1>1, <1>2 DEF DeleteSessions, SessionFails, Steps, At
<1>7. RequestTypes'
  BY <1>1, <1>2, <1>5, <1>6, TypedPlain
<1>8. QED
  BY <1>1, <1>4, <1>7 DEF Typed, ContactTypes

\* A key's time is over.
LEMMA TypedExpire ==
  ASSUME Typed, Expire
  PROVE  Typed'
<1>1. UNCHANGED <<contact, apply, session, pc, req, mine, ret>>
  BY DEF Expire, ExpireSession, contactVars, reqVars, sessionVars
<1>2. RequestTypes'
  BY <1>1 DEF Typed, RequestTypes, Active, Hands, Applicant, op, who
<1>3. /\ \/ cachedSession' = cachedSession
         \/ \E u \in Pair : cachedSession' = [cachedSession EXCEPT ![u] = {}]
      /\ \/ cachedSessions' = cachedSessions
         \/ \E u \in Pair : cachedSessions' = [cachedSessions EXCEPT ![u] = NoList]
      /\ \/ cachedContacts' = cachedContacts
         \/ \E u \in Pair : cachedContacts' = [cachedContacts EXCEPT ![u] = NoList]
  BY DEF Expire, ExpireSession, contactVars, sessionVars
<1>4. NoList \in SUBSET Nat
  BY DEF NoList
<1>5. SessionTypes'
  <2>1. /\ cachedSession' \in [Pair -> SUBSET Nat] /\ cachedSessions' \in [Pair -> SUBSET Nat]
        /\ \A u \in Pair : /\ cachedSession'[u] \subseteq DOMAIN session[u]
                           /\ cachedSessions'[u] = NoList \/ cachedSessions'[u] \subseteq DOMAIN session[u]
    BY <1>3, <1>4 DEF Typed, SessionTypes, SessionsTypeOK
  <2>2. QED
    BY <1>1, <2>1 DEF Typed, SessionTypes, SessionsTypeOK
<1>6. ContactTypes'
  <2>1. /\ cachedContacts' \in [Pair -> SUBSET Nat]
        /\ \A u \in Pair : cachedContacts'[u] = NoList \/ cachedContacts'[u] \subseteq DOMAIN contact[u]
    BY <1>3, <1>4 DEF Typed, ContactTypes
  <2>2. QED
    BY <1>1, <2>1 DEF Typed, ContactTypes
<1>7. QED
  BY <1>2, <1>5, <1>6 DEF Typed

\* Every step keeps the types.
LEMMA TypedNext ==
  ASSUME Typed, [Next]_vars
  PROVE  Typed'
<1>1. CASE UNCHANGED vars
  BY <1>1 DEF vars, contactVars, sessionVars, reqVars, Typed, ContactTypes, SessionTypes,
     SessionsTypeOK, RequestTypes, Active, Hands, Applicant, op, who
<1>2. CASE Expire
  BY <1>2, TypedExpire
<1>3. ASSUME NEW r \in Req, Begin(r)
      PROVE  Typed'
  BY <1>3, TypedBegin
<1>4. ASSUME NEW r \in Req, StatementFails(r) \/ FindApply(r) \/ FindBlack(r) \/ Check(r)
      PROVE  Typed'
  <2>1. UNCHANGED <<contactVars, sessionVars>>
    BY <1>4 DEF StatementFails, FindApply, FindBlack, Check
  <2>2. QED
    BY <1>4, <2>1, TypedReads
<1>5. ASSUME NEW r \in Req, CreateApply(r) \/ SaveApply(r) \/ DeleteApplies(r)
      PROVE  Typed'
  BY <1>5, TypedApply
<1>6. ASSUME NEW r \in Req, Own(r) \/ Other(r) \/ SaveContact(r)
      PROVE  Typed'
  BY <1>6, TypedContact
<1>7. ASSUME NEW r \in Req, Uncache(r) \/ GetUserList(r)
      PROVE  Typed'
  BY <1>7, TypedLists
<1>8. ASSUME NEW r \in Req, DeleteSessions(r) \/ SessionFails(r)
      PROVE  Typed'
  BY <1>8, TypedDeletes
<1>9. ASSUME NEW r \in Req, Session(r)
      PROVE  Typed'
  <2>1. UNCHANGED contactVars
    BY <1>9 DEF Session
  <2>2. CASE OpenSession(r)
    <3>1. UNCHANGED sessionVars
      BY <2>2 DEF OpenSession
    <3>2. QED
      BY <2>1, <2>2, <3>1, TypedReads
  <2>3. CASE ~OpenSession(r)
    BY <1>9, <2>1, <2>3, TypedSession DEF Session
  <2>4. QED
    BY <2>2, <2>3
<1>10. QED
  BY <1>1, <1>2, <1>3, <1>4, <1>5, <1>6, <1>7, <1>8, <1>9 DEF Next

\* The tables at the start: a has been given the rows x, the other one y.
Given(a, x, y) == [u \in Pair |-> IF u = a THEN x ELSE y]

\* At the start there are no rows of a kind, or one for each user, or one for one of them.
LEMMA InitFacts ==
  ASSUME Init
  PROVE  \E a \in Pair :
           /\ \/ /\ contact = Given(a, <<>>, <<>>)
                 /\ apply \in {Given(a, <<>>, <<>>), Given(a, <<"pending">>, <<>>)}
                 /\ session = Given(a, <<>>, <<>>)
              \/ /\ contact = Given(a, <<"normal">>, <<"normal">>)
                 /\ apply = Given(a, <<"agree">>, <<>>)
                 /\ session = Given(a, <<"live">>, <<"live">>)
              \/ /\ contact = Given(a, <<"black">>, <<"beblack">>)
                 /\ apply = Given(a, <<"agree">>, <<>>)
                 /\ session = Given(a, <<"gone">>, <<"live">>)
           /\ cachedContacts = [u \in Pair |-> NoList]
           /\ torn = FALSE /\ InitSessions
BY DEF Init, Given

\* No row, or one row.
LEMMA ShortRows ==
  /\ Live(<<>>) = {} /\ First(<<>>) = {} /\ RowStatus(<<>>) = "none"
  /\ \A x : x # "gone" => Live(<<x>>) = {1} /\ First(<<x>>) = {1} /\ RowStatus(<<x>>) = x
  /\ Live(<<"gone">>) = {} /\ First(<<"gone">>) = {}
<1>1. DOMAIN <<>> = {} /\ \A x : DOMAIN <<x>> = {1} /\ <<x>>[1] = x
  OBVIOUS
<1>2. Live(<<>>) = {} /\ First(<<>>) = {} /\ RowStatus(<<>>) = "none"
  BY <1>1 DEF Live, First, RowStatus
<1>3. Live(<<"gone">>) = {} /\ First(<<"gone">>) = {}
  BY <1>1 DEF Live, First
<1>4. ASSUME NEW x, x # "gone"
      PROVE  Live(<<x>>) = {1} /\ First(<<x>>) = {1} /\ RowStatus(<<x>>) = x
  <2>1. Live(<<x>>) = {1}
    BY <1>1, <1>4 DEF Live
  <2>2. First(<<x>>) = {1}
    BY <2>1 DEF First
  <2>3. (CHOOSE i \in {1} : TRUE) = 1
    OBVIOUS
  <2>4. QED
    BY <1>1, <2>1, <2>2, <2>3 DEF RowStatus
<1>5. QED
  BY <1>2, <1>3, <1>4

\* The types hold at the start.
LEMMA TypedInit == Init => Typed
<1> SUFFICES ASSUME Init PROVE Typed
  OBVIOUS
<1>1. PICK a \in Pair : /\ cachedContacts = [u \in Pair |-> NoList] /\ InitSessions
                        /\ contact \in {Given(a, <<>>, <<>>), Given(a, <<"normal">>, <<"normal">>),
                                        Given(a, <<"black">>, <<"beblack">>)}
                        /\ apply \in {Given(a, <<>>, <<>>), Given(a, <<"pending">>, <<>>),
                                      Given(a, <<"agree">>, <<>>)}
                        /\ session \in {Given(a, <<>>, <<>>), Given(a, <<"live">>, <<"live">>),
                                        Given(a, <<"gone">>, <<"live">>)}
  BY InitFacts
<1>2. /\ <<>> \in Seq(Status) /\ <<"normal">> \in Seq(Status) /\ <<"black">> \in Seq(Status)
      /\ <<"beblack">> \in Seq(Status)
  BY DEF Status
<1>3. <<>> \in Seq(ApplyStatus) /\ <<"pending">> \in Seq(ApplyStatus) /\ <<"agree">> \in Seq(ApplyStatus)
  BY DEF ApplyStatus
<1>4. /\ <<>> \in Seq({"live", "gone"}) /\ <<"live">> \in Seq({"live", "gone"})
      /\ <<"gone">> \in Seq({"live", "gone"})
  OBVIOUS
<1>5. contact \in [Pair -> Seq(Status)]
  BY <1>1, <1>2 DEF Given
<1>6. apply \in [Pair -> Seq(ApplyStatus)]
  BY <1>1, <1>3 DEF Given
<1>7. session \in [Pair -> Seq({"live", "gone"})]
  BY <1>1, <1>4 DEF Given
<1>8. NoList \in SUBSET Nat
  BY DEF NoList
<1>9. ContactTypes /\ SessionTypes
  BY <1>1, <1>5, <1>6, <1>7, <1>8 DEF ContactTypes, SessionTypes, SessionsTypeOK, InitSessions
<1>10. RequestTypes
  BY <1>1 DEF InitSessions, RequestTypes, At, Active, Hands, Results
<1>11. QED
  BY <1>9, <1>10 DEF Typed

\* Whatever requests come, overlap and fail: the tables keep their rows' places, a
\* cached list and the rows a request has read are rows there are or were, and a
\* request is answered once, when it is over.
THEOREM TypeCorrect == Spec => []TypeOK
<1>1. Typed => TypeOK
  BY DEF Typed, ContactTypes, SessionTypes, RequestTypes, Hands, TypeOK
<1>2. Typed /\ [Next]_vars => Typed'
  BY TypedNext
<1>3. QED
  BY <1>1, <1>2, TypedInit, PTL DEF Spec

-------------------------------------------------------------------------------
(* Sessions                                                                   *)

\* No two requests are under way.
Alone == \A r, s \in Req : Active(r) /\ Active(s) => r = s

\* What SessionsAgree says of one user, also while a request is under way: one that
\* has created or deleted a session has the list still to delete.
SessionsOf(u) ==
  /\ Live(session[u]) = First(session[u])
  /\ cachedSession[u] # {} /\ Live(session[u]) # {} => cachedSession[u] = Live(session[u])
  /\ cachedSessions[u] # NoList =>
       cachedSessions[u] = Live(session[u]) \/ \E r \in Req : pc[r] = "unlist" /\ who(r) = u
\* And what a request has read is what there is.
SessionAt(r) ==
  /\ pc[r] = "create" => Live(session[who(r)]) = {} /\ cachedSession[who(r)] = {}
  /\ pc[r] \in {"keep", "keepSessions"} => mine[r] = Live(session[who(r)])
SessionInv ==
  ~loose => Alone /\ (\A u \in Pair : SessionsOf(u)) /\ (\A r \in Req : SessionAt(r))

\* A request's step keeps the invariant if it does for each user and for the request.
LEMMA SessionSteps ==
  ASSUME Typed, SessionInv, UNCHANGED <<req, loose>>, NEW r \in Req, Active(r),
         NEW p, pc' = [pc EXCEPT ![r] = p],
         ~loose => (\A u \in Pair : SessionsOf(u)') /\ SessionAt(r)'
  PROVE  SessionInv'
<1> SUFFICES ASSUME ~loose
             PROVE  Alone' /\ (\A u \in Pair : SessionsOf(u)') /\ (\A s \in Req : SessionAt(s)')
  BY DEF SessionInv
<1>1. \A s \in Req : s # r => pc'[s] = pc[s] /\ ~Active(s)
  BY DEF SessionInv, Alone, Typed, RequestTypes
<1>2. Alone'
  BY <1>1 DEF Alone, Active
<1>3. \A s \in Req : s # r => SessionAt(s)'
  BY <1>1 DEF SessionAt, Active
<1>4. QED
  BY <1>2, <1>3

\* A step that leaves the sessions and their copies alone.
LEMMA SessionKept ==
  ASSUME Typed, SessionInv, UNCHANGED sessionVars, UNCHANGED <<req, loose>>,
         NEW r \in Req, Active(r), pc[r] # "unlist",
         NEW p, pc' = [pc EXCEPT ![r] = p], p \notin {"create", "keep", "keepSessions"}
  PROVE  SessionInv'
<1>1. /\ UNCHANGED <<session, cachedSession, cachedSessions>> /\ pc'[r] = p
      /\ \A s \in Req : pc[s] = "unlist" => pc'[s] = "unlist" /\ who(s)' = who(s)
  BY DEF sessionVars, Typed, RequestTypes, who
<1>2. ASSUME ~loose, NEW u \in Pair PROVE SessionsOf(u)'
  <2>1. SessionsOf(u)
    BY <1>2 DEF SessionInv
  <2>2. QED
    BY <1>1, <2>1 DEF SessionsOf
<1>3. SessionAt(r)'
  BY <1>1 DEF SessionAt
<1>4. QED
  BY <1>2, <1>3, SessionSteps

\* The requests that concern contacts alone.
ContactStep(r) ==
  \/ FindApply(r) \/ CreateApply(r) \/ SaveApply(r)
  \/ Own(r) \/ Other(r) \/ DeleteApplies(r) \/ Uncache(r)
  \/ FindBlack(r) \/ SaveContact(r) \/ GetUserList(r) \/ Check(r)

\* None of them touches a session or its copies.
LEMMA SessionContact ==
  ASSUME Typed, SessionInv, NEW r \in Req, ContactStep(r) \/ StatementFails(r)
  PROVE  SessionInv'
<1>1. /\ UNCHANGED sessionVars /\ UNCHANGED <<req, loose>> /\ Active(r) /\ pc[r] # "unlist"
      /\ \E p \in {"createApply", "saveApply", "own", "other", "tx", "uncache", "session", "save",
                   "saveAgain", "keepContacts", "open", "done"} : pc' = [pc EXCEPT ![r] = p]
  <2>1. CASE FindApply(r) \/ CreateApply(r) \/ SaveApply(r) \/ DeleteApplies(r) \/ StatementFails(r)
    BY <2>1 DEF FindApply, CreateApply, SaveApply, DeleteApplies, StatementFails, Goto, Answer, Active
  <2>2. CASE Own(r) \/ Other(r)
    <3>1. op(r) \in {"pass", "black", "delete"}
      BY <2>2 DEF Typed, RequestTypes, At, Own, Other
    <3>2. QED
      BY <2>2, <3>1 DEF Own, Other, Goto, Answer, Active
  <2>3. CASE Uncache(r) \/ FindBlack(r) \/ SaveContact(r) \/ GetUserList(r) \/ Check(r)
    BY <2>3 DEF Uncache, FindBlack, SaveContact, GetUserList, Check, Goto, Answer, Active
  <2>4. QED
    BY <2>1, <2>2, <2>3 DEF ContactStep
<1>2. QED
  BY <1>1, SessionKept

\* A step that writes one user's rows and copies, if they agree afterwards.
LEMMA SessionWrites ==
  ASSUME Typed, SessionInv, UNCHANGED <<req, loose>>, NEW r \in Req, Active(r),
         NEW p, pc' = [pc EXCEPT ![r] = p],
         NEW u \in Pair, pc[r] = "unlist" => who(r) = u,
         NEW rows, NEW one, NEW list, SessionPut(u, rows, one, list),
         ~loose => /\ Live(rows) = First(rows)
                   /\ one # {} /\ Live(rows) # {} => one = Live(rows)
                   /\ list # NoList => list = Live(rows) \/ (p = "unlist" /\ who(r) = u)
                   /\ SessionAt(r)'
  PROVE  SessionInv'
<1>1. /\ session'[u] = rows /\ cachedSession'[u] = one /\ cachedSessions'[u] = list
      /\ \A v \in Pair : v # u => /\ session'[v] = session[v] /\ cachedSession'[v] = cachedSession[v]
                                  /\ cachedSessions'[v] = cachedSessions[v]
  BY DEF SessionPut, Typed, SessionTypes, SessionsTypeOK
<1>2. /\ pc'[r] = p /\ who(r)' = who(r)
      /\ \A s \in Req : s # r /\ pc[s] = "unlist" => pc'[s] = "unlist" /\ who(s)' = who(s)
  BY DEF Typed, RequestTypes, who
<1>3. ASSUME ~loose PROVE SessionsOf(u)'
  BY <1>1, <1>2, <1>3 DEF SessionsOf
<1>4. ASSUME ~loose, NEW v \in Pair, v # u PROVE SessionsOf(v)'
  <2>1. SessionsOf(v)
    BY <1>4 DEF SessionInv
  <2>2. QED
    BY <1>1, <1>2, <1>4, <2>1 DEF SessionsOf
<1>5. QED
  BY <1>3, <1>4, SessionSteps

\* Deleting the only row leaves none, as does creating none.
LEMMA OnlyRow ==
  ASSUME NEW rows \in Seq({"live", "gone"}), Live(rows) = First(rows)
  PROVE  /\ \A i \in Live(rows) : /\ Live(Updated(rows, {i}, "gone")) = {}
                                  /\ First(Updated(rows, {i}, "gone")) = {}
         /\ Live(Updated(rows, First(rows), "gone")) = {}
         /\ First(Updated(rows, First(rows), "gone")) = {}
         /\ Live(rows) = {} => Live(Append(rows, "live")) = First(Append(rows, "live"))
<1>1. \A ids : Live(Updated(rows, ids, "gone")) = Live(rows) \ ids
  BY UpdatedFacts
<1>2. \A i, j \in Live(rows) : i = j
  BY LiveFacts
<1>3. \A new : First(new) \subseteq Live(new)
  BY DEF First
<1>4. ASSUME NEW i \in Live(rows)
      PROVE  Live(Updated(rows, {i}, "gone")) = {} /\ First(Updated(rows, {i}, "gone")) = {}
  <2>1. Live(Updated(rows, {i}, "gone")) = {}
    BY <1>1, <1>2
  <2>2. QED
    BY <1>3, <2>1
<1>5. Live(Updated(rows, First(rows), "gone")) = {}
  BY <1>1
<1>6. First(Updated(rows, First(rows), "gone")) = {}
  BY <1>3, <1>5
<1>7. Live(rows) = {} => Live(Append(rows, "live")) = First(Append(rows, "live"))
  <2>1. "none" \notin {"live", "gone"} /\ "live" \in {"live", "gone"} /\ "live" # "gone"
    OBVIOUS
  <2>2. /\ Live(Append(rows, "live")) = Live(rows) \cup {Len(rows) + 1}
        /\ First(Append(rows, "live")) = IF Live(rows) = {} THEN {Len(rows) + 1} ELSE First(rows)
    BY ONLY <2>1, rows \in Seq({"live", "gone"}), AppendedFacts
  <2>3. QED
    BY <2>2
<1>8. QED
  BY <1>4, <1>5, <1>6, <1>7

\* What a request under way finds of a user.
LEMMA FoundSessions ==
  ASSUME Typed, SessionInv, ~loose, NEW r \in Req, Active(r), NEW u \in Pair
  PROVE  /\ Live(session[u]) = First(session[u])
         /\ cachedSession[u] # {} /\ Live(session[u]) # {} => cachedSession[u] = Live(session[u])
         /\ cachedSessions[u] # NoList =>
              cachedSessions[u] = Live(session[u]) \/ (pc[r] = "unlist" /\ who(r) = u)
         /\ SessionAt(r)
<1>1. SessionsOf(u) /\ SessionAt(r) /\ Alone
  BY DEF SessionInv
<1>2. \A s \in Req : pc[s] = "unlist" => s = r
  BY <1>1 DEF Alone, Active
<1>3. QED
  BY <1>1, <1>2 DEF SessionsOf

\* The requests that concern sessions: what each writes, and that it agrees.
LEMMA SessionOwn ==
  ASSUME Typed, SessionInv, NEW r \in Req, Session(r)
  PROVE  SessionInv'
<1> DEFINE u == who(r)  rows == session[u]
<1>1. UNCHANGED <<req, loose>> /\ Active(r) /\ u \in Pair /\ who(r)' = u /\ DOMAIN mine = Req
  BY DEF Session, OpenSession, Keep, CreateSession, Unlist, GetUserSessionList, DeleteSession,
     Active, Typed, RequestTypes, who
<1>2. /\ rows \in Seq({"live", "gone"}) /\ session \in [Pair -> Seq({"live", "gone"})]
      /\ cachedSession \in [Pair -> SUBSET Nat] /\ cachedSessions \in [Pair -> SUBSET Nat]
  BY <1>1 DEF Typed, SessionTypes, SessionsTypeOK
<1>3. ~loose => /\ Live(rows) = First(rows)
                /\ cachedSession[u] # {} /\ Live(rows) # {} => cachedSession[u] = Live(rows)
                /\ cachedSessions[u] # NoList => cachedSessions[u] = Live(rows) \/ pc[r] = "unlist"
                /\ SessionAt(r)
  BY <1>1, FoundSessions
<1>4. CASE OpenSession(r)
  <2>1. SessionPut(u, rows, cachedSession[u], cachedSessions[u])
    BY <1>2, <1>4 DEF OpenSession, sessionVars, SessionPut
  <2>2. PICK p \in {"keep", "create", "done"} :
          /\ pc' = [pc EXCEPT ![r] = p] /\ pc[r] = "open"
          /\ p = "keep" => mine' = [mine EXCEPT ![r] = First(rows)]
          /\ p = "create" => cachedSession[u] = {} /\ First(rows) = {}
    BY <1>4 DEF OpenSession, Goto, Answer, Read
  <2>3. pc'[r] = p /\ session'[u] = rows /\ cachedSession'[u] = cachedSession[u]
    BY <1>1, <1>2, <2>1, <2>2 DEF Typed, RequestTypes, SessionPut
  <2>4. ~loose => SessionAt(r)'
    BY <1>1, <1>3, <2>2, <2>3 DEF SessionAt
  <2>5. QED
    BY <1>1, <1>3, <2>1, <2>2, <2>4, SessionWrites
<1>5. CASE Keep(r)
  <2>1. SessionPut(u, rows, mine[r], cachedSessions[u]) /\ pc[r] = "keep"
    BY <1>2, <1>5 DEF Keep, SessionPut
  <2>2. pc' = [pc EXCEPT ![r] = "done"] /\ pc'[r] = "done"
    BY <1>5 DEF Keep, Answer, Typed, RequestTypes
  <2>3. ~loose => mine[r] = Live(rows) /\ SessionAt(r)'
    BY <1>3, <2>1, <2>2 DEF SessionAt
  <2>4. QED
    BY <1>1, <1>3, <2>1, <2>2, <2>3, SessionWrites
<1>6. CASE CreateSession(r)
  <2>1. SessionPut(u, Append(rows, "live"), cachedSession[u], cachedSessions[u]) /\ pc[r] = "create"
    BY <1>2, <1>6 DEF CreateSession, SessionPut
  <2>2. pc' = [pc EXCEPT ![r] = "unlist"] /\ pc'[r] = "unlist"
    BY <1>6 DEF CreateSession, Goto, Typed, RequestTypes
  <2>3. ~loose => /\ Live(Append(rows, "live")) = First(Append(rows, "live"))
                  /\ cachedSession[u] = {} /\ SessionAt(r)'
    BY <1>2, <1>3, <2>1, <2>2, OnlyRow DEF SessionAt
  <2>4. QED
    BY <1>1, <1>3, <2>1, <2>2, <2>3, SessionWrites
<1>7. CASE Unlist(r)
  <2>1. SessionPut(u, rows, cachedSession[u], NoList)
    BY <1>2, <1>7 DEF Unlist, SessionPut
  <2>2. pc' = [pc EXCEPT ![r] = "done"] /\ pc'[r] = "done"
    BY <1>7 DEF Unlist, Answer, Typed, RequestTypes
  <2>3. SessionAt(r)'
    BY <2>2 DEF SessionAt
  <2>4. QED
    BY <1>1, <1>3, <2>1, <2>2, <2>3, SessionWrites
<1>8. CASE GetUserSessionList(r)
  <2>1. \/ /\ SessionPut(u, rows, cachedSession[u], cachedSessions[u]) /\ pc[r] = "sessions"
           /\ \/ pc' = [pc EXCEPT ![r] = "done"]
              \/ pc' = [pc EXCEPT ![r] = "keepSessions"] /\ mine' = [mine EXCEPT ![r] = Live(rows)]
        \/ /\ SessionPut(u, rows, cachedSession[u], mine[r]) /\ pc[r] = "keepSessions"
           /\ pc' = [pc EXCEPT ![r] = "done"]
    BY <1>2, <1>8 DEF GetUserSessionList, Goto, Answer, Read, SessionPut
  <2>2. session' = session
    BY <1>8 DEF GetUserSessionList
  <2>3. pc'[r] = "done" => SessionAt(r)'
    BY DEF SessionAt
  <2>4. mine' = [mine EXCEPT ![r] = Live(rows)] /\ pc'[r] = "keepSessions" => SessionAt(r)'
    BY <1>1, <2>2 DEF SessionAt
  <2>5. PICK p \in {"done", "keepSessions"} : pc' = [pc EXCEPT ![r] = p] /\ pc'[r] = p /\ SessionAt(r)'
    BY <2>1, <2>3, <2>4 DEF Typed, RequestTypes
  <2>6. PICK list : /\ SessionPut(u, rows, cachedSession[u], list)
                    /\ ~loose /\ list # NoList => list = Live(rows)
    BY <1>3, <2>1 DEF SessionAt
  <2>7. pc[r] # "unlist"
    BY <2>1
  <2>8. QED
    BY <1>1, <1>3, <2>5, <2>6, <2>7, SessionWrites
<1>9. CASE DeleteSession(r)
  <2>1. CASE session' = session
    <3>1. SessionPut(u, rows, cachedSession[u], cachedSessions[u]) /\ pc[r] = "close"
      BY <1>2, <1>9, <2>1 DEF DeleteSession, SessionPut
    <3>2. PICK p \in {"done", "unlist"} : pc' = [pc EXCEPT ![r] = p]
      BY <1>9 DEF DeleteSession, Goto, Answer
    <3>3. SessionAt(r)'
      BY <3>2 DEF SessionAt, Typed, RequestTypes
    <3>4. QED
      BY <1>1, <1>3, <3>1, <3>2, <3>3, SessionWrites
  <2>2. CASE session' # session
    <3>1. PICK i \in Live(rows) :
            /\ SessionPut(u, Updated(rows, {i}, "gone"), cachedSession[u], cachedSessions[u])
            /\ pc' = [pc EXCEPT ![r] = "unlist"] /\ pc[r] = "close"
      BY <1>2, <1>9, <2>2 DEF DeleteSession, Goto, SessionPut
    <3>2. pc'[r] = "unlist" /\ SessionAt(r)'
      BY <3>1 DEF SessionAt, Typed, RequestTypes
    <3>3. ~loose => /\ Live(Updated(rows, {i}, "gone")) = {}
                    /\ First(Updated(rows, {i}, "gone")) = {}
      BY <1>2, <1>3, OnlyRow
    <3>4. QED
      BY <1>1, <1>3, <3>1, <3>2, <3>3, SessionWrites
  <2>3. QED
    BY <2>1, <2>2
<1>10. QED
  BY <1>4, <1>5, <1>6, <1>7, <1>8, <1>9 DEF Session

\* The deletions by RPC.
LEMMA SessionDeletes ==
  ASSUME Typed, SessionInv, NEW r \in Req, DeleteSessions(r)
  PROVE  SessionInv'
<1>1. /\ UNCHANGED <<req, loose>> /\ Active(r) /\ pc[r] \in {"session", "peerSession"}
      /\ \E p \in {"done", "uncache", "own", "peerSession"} : pc' = [pc EXCEPT ![r] = p]
  BY DEF DeleteSessions, Goto, Answer, Active
<1>2. PICK p \in {"done", "uncache", "own", "peerSession"} : pc' = [pc EXCEPT ![r] = p]
  BY <1>1
<1>3. who(r) \in Pair /\ Peer(who(r)) \in Pair
  BY <1>1, PairFacts DEF Typed, RequestTypes
<1>4. PICK u \in Pair : DeleteSessionsByUsers(u)
  BY <1>3 DEF DeleteSessions, Sender
<1>5. SessionTypes /\ session[u] \in Seq({"live", "gone"})
  BY DEF Typed, SessionTypes, SessionsTypeOK
<1> DEFINE rows == Updated(session[u], First(session[u]), "gone")
<1>6. PICK list : /\ SessionPut(u, rows, cachedSession[u], list)
                  /\ Live(session[u]) = {} => list = cachedSessions[u]
                  /\ Live(session[u]) # {} => list = NoList
  BY <1>4, <1>5, DeletedFacts
<1>7. ~loose => /\ Live(session[u]) = First(session[u])
                /\ cachedSessions[u] # NoList => cachedSessions[u] = Live(session[u])
  BY <1>1, FoundSessions
<1>8. ~loose => Live(rows) = {} /\ First(rows) = {}
  BY <1>5, <1>7, OnlyRow
<1>9. SessionAt(r)'
  BY <1>2 DEF SessionAt, Typed, RequestTypes
<1>10. ~loose => (list # NoList => list = Live(rows))
  BY <1>6, <1>7, <1>8
<1>11. pc[r] # "unlist"
  BY <1>1
<1>12. ~loose => /\ Live(rows) = First(rows)
                 /\ cachedSession[u] # {} /\ Live(rows) # {} => cachedSession[u] = Live(rows)
                 /\ list # NoList => list = Live(rows) \/ (p = "unlist" /\ who(r) = u)
                 /\ SessionAt(r)'
  BY <1>8, <1>9, <1>10
<1> HIDE DEF rows
<1>13. SessionPut(u, rows, cachedSession[u], list) /\ Typed /\ SessionInv
  BY <1>6
<1>14. QED
  BY ONLY <1>1, <1>2, <1>11, <1>12, <1>13, SessionWrites

\* A request that begins on its own.
LEMMA SessionBegin ==
  ASSUME Typed, SessionInv, NEW r \in Req, Begin(r)
  PROVE  SessionInv'
<1> SUFFICES ASSUME ~loose'
             PROVE  Alone' /\ (\A u \in Pair : SessionsOf(u)') /\ (\A s \in Req : SessionAt(s)')
  BY DEF SessionInv
<1>1. PICK o \in DOMAIN Entry : pc' = [pc EXCEPT ![r] = Entry[o]]
  BY DEF Begin, Goto
<1>2. PICK p : p = Entry[o]
  OBVIOUS
<1>3. p \notin {"create", "keep", "keepSessions"}
  BY <1>2 DEF Entry
<1>4. ~loose /\ Quiet /\ UNCHANGED <<session, cachedSession, cachedSessions>>
  BY DEF Begin, sessionVars
<1>5. pc'[r] = p /\ \A s \in Req : s # r => pc'[s] = pc[s]
  BY <1>1, <1>2 DEF Typed, RequestTypes
<1>6. \A s \in Req : pc[s] \in {"idle", "done"}
  BY <1>4 DEF Quiet
<1>7. Alone'
  BY <1>5, <1>6 DEF Alone, Active
<1>8. \A s \in Req : SessionAt(s)'
  BY <1>3, <1>5, <1>6 DEF SessionAt
<1>9. ASSUME NEW u \in Pair PROVE SessionsOf(u)'
  <2>1. SessionsOf(u)
    BY <1>4 DEF SessionInv
  <2>2. QED
    BY <1>4, <1>6, <2>1 DEF SessionsOf
<1>10. QED
  BY <1>7, <1>8, <1>9

\* A key's time is over.
LEMMA SessionExpire ==
  ASSUME Typed, SessionInv, Expire
  PROVE  SessionInv'
<1> SUFFICES ASSUME ~loose'
             PROVE  Alone' /\ (\A u \in Pair : SessionsOf(u)') /\ (\A s \in Req : SessionAt(s)')
  BY DEF SessionInv
<1>1. UNCHANGED <<session, pc, req, mine, loose>>
  BY DEF Expire, ExpireSession, reqVars, sessionVars
<1>2. /\ \/ cachedSession' = cachedSession
         \/ \E u \in Pair : cachedSession' = [cachedSession EXCEPT ![u] = {}]
      /\ \/ cachedSessions' = cachedSessions
         \/ \E u \in Pair : cachedSessions' = [cachedSessions EXCEPT ![u] = NoList]
  BY DEF Expire, ExpireSession, sessionVars
<1>3. \A u \in Pair : /\ cachedSession'[u] \in {cachedSession[u], {}}
                      /\ cachedSessions'[u] \in {cachedSessions[u], NoList}
  BY <1>2 DEF Typed, SessionTypes
<1>4. Alone'
  BY <1>1 DEF SessionInv, Alone, Active
<1>5. ASSUME NEW s \in Req PROVE SessionAt(s)'
  <2>1. pc[s] = "create" => who(s) \in Pair
    BY DEF Typed, RequestTypes, Active
  <2>2. SessionAt(s)
    BY <1>1 DEF SessionInv
  <2>3. QED
    BY <1>1, <1>3, <2>1, <2>2 DEF SessionAt, who
<1>6. ASSUME NEW u \in Pair PROVE SessionsOf(u)'
  <2>1. SessionsOf(u)
    BY <1>1 DEF SessionInv
  <2>2. QED
    BY <1>1, <1>3, <2>1 DEF SessionsOf, who
<1>7. QED
  BY <1>4, <1>5, <1>6

\* Every step keeps the invariant of the sessions.
LEMMA SessionNext ==
  ASSUME Typed, SessionInv, [Next]_vars
  PROVE  SessionInv'
<1>1. CASE UNCHANGED vars
  BY <1>1 DEF vars, contactVars, sessionVars, reqVars, SessionInv, Alone, Active, SessionsOf, SessionAt, who
<1>2. CASE Expire
  BY <1>2, SessionExpire
<1>3. ASSUME NEW r \in Req, Begin(r)
      PROVE  SessionInv'
  BY <1>3, SessionBegin
<1>4. ASSUME NEW r \in Req, ContactStep(r) \/ StatementFails(r)
      PROVE  SessionInv'
  BY <1>4, SessionContact
<1>5. ASSUME NEW r \in Req, DeleteSessions(r)
      PROVE  SessionInv'
  BY <1>5, SessionDeletes
<1>6. ASSUME NEW r \in Req, SessionFails(r)
      PROVE  SessionInv'
  BY <1>6 DEF SessionFails, SessionInv
<1>7. ASSUME NEW r \in Req, Session(r)
      PROVE  SessionInv'
  BY <1>7, SessionOwn
<1>8. QED
  BY <1>1, <1>2, <1>3, <1>4, <1>5, <1>6, <1>7 DEF Next, ContactStep

\* The sessions agree at the start.
LEMMA SessionInit == Init => SessionInv
<1> SUFFICES ASSUME Init PROVE SessionInv
  OBVIOUS
<1>1. PICK a \in Pair : /\ InitSessions
                        /\ session \in {Given(a, <<>>, <<>>), Given(a, <<"live">>, <<"live">>),
                                        Given(a, <<"gone">>, <<"live">>)}
  BY InitFacts
<1>2. \A u \in Pair : session[u] \in {<<>>, <<"live">>, <<"gone">>}
  BY <1>1 DEF Given
<1>3. \A rows \in {<<>>, <<"live">>, <<"gone">>} : Live(rows) = First(rows)
  BY ShortRows
<1>4. \A u \in Pair : SessionsOf(u)
  BY <1>1, <1>2, <1>3 DEF SessionsOf, InitSessions
<1>5. Alone /\ \A r \in Req : SessionAt(r)
  BY <1>1 DEF InitSessions, Alone, Active, SessionAt
<1>6. QED
  BY <1>4, <1>5 DEF SessionInv

\* As long as requests do not overlap and no deletion is given up, however many
\* requests open, list and delete sessions, whichever statements fail and whenever a
\* key expires: a user has at most one session with another, his cached list is what
\* the table has, and the cached session is not one of two.
THEOREM SessionsCorrect == Spec => []SessionsAgree
<1>1. Typed /\ SessionInv => SessionsAgree
  <2> SUFFICES ASSUME SessionInv, ~loose, Quiet, NEW u \in Pair
               PROVE  SessionsOf(u) /\ \A r \in Req : pc[r] # "unlist"
    BY DEF SessionsAgree, SessionsOf
  <2>1. QED
    BY DEF SessionInv, Quiet
<1>2. Typed /\ SessionInv /\ [Next]_vars => Typed' /\ SessionInv'
  BY TypedNext, SessionNext
<1>3. Init => Typed /\ SessionInv
  BY TypedInit, SessionInit
<1>4. QED
  BY <1>1, <1>2, <1>3, PTL DEF Spec

-------------------------------------------------------------------------------
(* Contacts                                                                   *)

Rows(u) == Cardinality(Live(contact[u]))
NoRows(u) == Live(contact[u]) = {}

\* What BothSides and ListedIsContact say of the tables.
Balanced == \A u \in Pair : Rows(u) = Rows(Peer(u))
Known == \A u \in Pair : StatusOf(u) = "black" => StatusOf(Peer(u)) = "beblack"
Unapproved == \A u \in Pair : NoRows(u) => \A i \in Live(apply[u]) : apply[u][i] # "agree"
Listed == \A u \in Pair : cachedContacts[u] # NoList => cachedContacts[u] \subseteq Live(contact[u])
Even == Balanced /\ Known /\ Unapproved /\ Listed

\* And what they say while the only request under way is r: one side is written
\* before the other; a deletion starts from tables that may not be even.
Stage(r) ==
  /\ op(r) = "delete" =>
       /\ pc[r] = "other" => NoRows(who(r))
       /\ pc[r] \in {"tx", "uncache"} => \A u \in Pair : NoRows(u)
       /\ pc[r] = "uncache" => \A u \in Pair : Live(apply[u]) = {}
  /\ op(r) # "delete" =>
       /\ Listed
       /\ Balanced \/ (op(r) = "pass" /\ pc[r] = "other")
       /\ Known \/ (op(r) = "black" /\ pc[r] = "other")
       /\ Unapproved \/ (op(r) = "pass" /\ pc[r] \in {"own", "other"})
       /\ op(r) = "pass" /\ pc[r] = "other" => Rows(who(r)) = Rows(Peer(who(r))) + 1
       /\ op(r) = "black" /\ pc[r] = "other" => StatusOf(who(r)) \in {"black", "none"}
       /\ pc[r] \in {"save", "saveAgain"} =>
            /\ mine[r] = First(contact[who(r)])
            /\ StatusOf(who(r)) = IF pc[r] = "save" THEN "black" ELSE "normal"
       /\ pc[r] = "keepContacts" => mine[r] \subseteq Live(contact[who(r)])

ContactInv ==
  ~torn => Alone /\ (Quiet => Even) /\ (\A r \in Req : Active(r) => Stage(r))

\* A request's step keeps the invariant if the tables are even when it is over, and
\* as its stage says before.
LEMMA ContactSteps ==
  ASSUME Typed, ContactInv, UNCHANGED req, torn => torn', NEW r \in Req, Active(r),
         NEW p, p # "idle", pc' = [pc EXCEPT ![r] = p],
         ~torn' => IF p = "done" THEN Even' ELSE Stage(r)'
  PROVE  ContactInv'
<1> SUFFICES ASSUME ~torn' PROVE Alone' /\ (Quiet' => Even') /\ (\A s \in Req : Active(s)' => Stage(s)')
  BY DEF ContactInv
<1>1. pc'[r] = p /\ \A s \in Req : s # r => pc'[s] = pc[s] /\ ~Active(s)
  BY DEF ContactInv, Alone, Typed, RequestTypes
<1>2. Alone'
  BY <1>1 DEF Alone, Active
<1>3. Quiet' => p = "done"
  BY <1>1 DEF Quiet
<1>4. \A s \in Req : Active(s)' => s = r /\ p # "done"
  BY <1>1 DEF Active
<1>5. QED
  BY <1>2, <1>3, <1>4

\* Counting rows, asking whether there are any, and asking for a status.
LEMMA RowsFacts ==
  ASSUME Typed, NEW u \in Pair
  PROVE  /\ contact[u] \in Seq(Status) /\ Rows(u) \in Nat
         /\ Rows(u) = 0 <=> NoRows(u)
         /\ StatusOf(u) = RowStatus(contact[u])
         /\ StatusOf(u) = "none" <=> NoRows(u)
         /\ First(contact[u]) \subseteq Live(contact[u])
<1>1. contact[u] \in Seq(Status) /\ "none" \notin Status
  BY DEF Typed, ContactTypes, Status
<1>2. /\ IsFiniteSet(Live(contact[u])) /\ Cardinality(Live(contact[u])) \in Nat
      /\ First(contact[u]) \subseteq Live(contact[u])
  BY <1>1, LiveFacts
<1>3. Rows(u) = 0 <=> NoRows(u)
  BY <1>2, FS_EmptySet DEF Rows, NoRows
<1>4. StatusOf(u) = RowStatus(contact[u])
  BY DEF StatusOf, RowStatus
<1>5. StatusOf(u) = "none" <=> NoRows(u)
  BY <1>1, <1>4, StatusFacts DEF NoRows
<1>6. QED
  BY <1>1, <1>2, <1>3, <1>4, <1>5 DEF Rows

\* Even tables that are left alone stay even.
LEMMA EvenKept ==
  ASSUME UNCHANGED contactVars
  PROVE  Even' <=> Even
<1>1. UNCHANGED <<contact, apply, cachedContacts>>
  BY DEF contactVars
<1>2. QED
  BY <1>1 DEF Even, Balanced, Known, Unapproved, Listed, Rows, NoRows, StatusOf

\* What a request other than a deletion finds and, in most places, leaves.
LEMMA FoundEven ==
  ASSUME ContactInv, ~torn, NEW r \in Req, Active(r), op(r) # "delete",
         pc[r] # "other", op(r) = "pass" => pc[r] # "own"
  PROVE  Even
BY DEF ContactInv, Stage, Even

\* And where there is no more to say of a request than that the tables are even.
LEMMA LeftEven ==
  ASSUME NEW r \in Req, Even', op(r)' # "delete",
         pc'[r] \notin {"other", "save", "saveAgain", "keepContacts"}
  PROVE  Stage(r)'
BY DEF Stage, Even

\* The steps of the sessions' requests.
LEMMA ContactSession ==
  ASSUME Typed, ContactInv, NEW r \in Req, Session(r)
  PROVE  ContactInv'
<1>1. UNCHANGED contactVars /\ UNCHANGED <<req, torn>> /\ Active(r)
  BY DEF Session, OpenSession, Keep, CreateSession, Unlist, GetUserSessionList, DeleteSession, Active
<1>2. PICK p \in {"keep", "create", "done", "unlist", "keepSessions"} : pc' = [pc EXCEPT ![r] = p]
  BY DEF Session, OpenSession, Keep, CreateSession, Unlist, GetUserSessionList, DeleteSession, Goto, Answer
<1>3. op(r) \in {"open", "message", "sessions", "close"}
      /\ pc[r] \in {"open", "keep", "create", "unlist", "sessions", "keepSessions", "close"}
  BY DEF Session, OpenSession, Keep, CreateSession, Unlist, GetUserSessionList, DeleteSession,
     Typed, RequestTypes, At
<1>4. pc'[r] = p /\ op(r)' = op(r) /\ who(r)' = who(r)
  BY <1>1, <1>2 DEF Typed, RequestTypes, op, who
<1>5. ASSUME ~torn PROVE IF p = "done" THEN Even' ELSE Stage(r)'
  <2>1. Even'
    BY <1>1, <1>3, <1>5, FoundEven, EvenKept
  <2>2. QED
    BY <1>3, <1>4, <2>1, LeftEven
<1>6. QED
  BY <1>1, <1>2, <1>5, ContactSteps

\* The deletions by RPC, and statements that fail.
LEMMA ContactDeletes ==
  ASSUME Typed, ContactInv, NEW r \in Req, DeleteSessions(r) \/ SessionFails(r) \/ StatementFails(r)
  PROVE  ContactInv'
<1>1. UNCHANGED contactVars /\ UNCHANGED req /\ Active(r) /\ (torn => torn')
  <2>1. UNCHANGED contactVars /\ UNCHANGED req /\ Active(r)
    BY DEF DeleteSessions, SessionFails, StatementFails, Active
  <2>2. torn => torn'
    BY DEF DeleteSessions, SessionFails, StatementFails
  <2>3. QED
    BY <2>1, <2>2
<1>2. PICK p \in {"done", "uncache", "own", "peerSession"} :
        /\ pc' = [pc EXCEPT ![r] = p]
        /\ p = "uncache" => op(r) = "black"
        /\ p \in {"own", "peerSession"} => op(r) = "delete"
        /\ p = "done" /\ op(r) = "delete" => torn'
        /\ pc[r] = "other" \/ (op(r) = "pass" /\ pc[r] = "own") => torn'
  <2>1. At(pc[r], op(r))
    BY DEF Typed, RequestTypes
  <2>2. CASE DeleteSessions(r)
    BY <2>1, <2>2 DEF DeleteSessions, Goto, Answer, At
  <2>3. CASE SessionFails(r)
    BY <2>1, <2>3 DEF SessionFails, Goto, Answer, At
  <2>4. CASE StatementFails(r)
    BY <2>1, <2>4 DEF StatementFails, Goto, Answer, At
  <2>5. QED
    BY <2>2, <2>3, <2>4
<1>3. pc'[r] = p /\ op(r)' = op(r) /\ who(r)' = who(r)
  BY <1>1, <1>2 DEF Typed, RequestTypes, op, who
<1>4. ASSUME ~torn' PROVE IF p = "done" THEN Even' ELSE Stage(r)'
  <2>1. CASE op(r) = "delete"
    BY <1>2, <1>3, <1>4, <2>1 DEF Stage
  <2>2. CASE op(r) # "delete"
    <3>1. Even'
      BY <1>1, <1>2, <1>4, <2>2, FoundEven, EvenKept
    <3>2. QED
      BY <1>2, <1>3, <2>2, <3>1, LeftEven
  <2>3. QED
    BY <2>1, <2>2
<1>5. QED
  BY <1>1, <1>2, <1>4, ContactSteps

\* The steps that look for what is there.
LEMMA ContactReads ==
  ASSUME Typed, ContactInv, NEW r \in Req, FindApply(r) \/ FindBlack(r) \/ Check(r)
  PROVE  ContactInv'
<1>1. UNCHANGED contactVars /\ UNCHANGED <<req, torn>> /\ Active(r)
  BY DEF FindApply, FindBlack, Check, Active
<1>2. /\ At(pc[r], op(r)) /\ who(r) \in Pair /\ DOMAIN mine = Req
      /\ pc[r] \in {"find", "findBlack", "check"}
  BY <1>1 DEF Typed, RequestTypes, FindApply, FindBlack, Check
<1>3. op(r) # "delete" /\ op(r)' = op(r) /\ who(r)' = who(r)
  BY <1>1, <1>2 DEF At, op, who
<1>4. ~torn => Even /\ Even'
  BY <1>1, <1>2, <1>3, FoundEven, EvenKept
<1>5. CASE FindApply(r)
  <2>1. PICK p \in {"createApply", "saveApply", "done"} : pc' = [pc EXCEPT ![r] = p]
    BY <1>5 DEF FindApply, Goto, Answer
  <2>2. pc'[r] = p
    BY <2>1 DEF Typed, RequestTypes
  <2>3. ~torn => Stage(r)'
    BY <1>3, <1>4, <2>2, LeftEven
  <2>4. QED
    BY <1>1, <1>4, <2>1, <2>3, ContactSteps
<1>6. CASE FindBlack(r)
  <2> DEFINE rows == contact[who(r)]
  <2>1. PICK p \in {"save", "done"} :
          /\ pc' = [pc EXCEPT ![r] = p] /\ mine' = [mine EXCEPT ![r] = First(rows)]
          /\ p = "save" => \E i \in First(rows) : rows[i] = "black"
    BY <1>6 DEF FindBlack, Goto, Answer, Read, MayCancel
  <2>2. pc'[r] = p /\ mine'[r] = First(rows)
    BY <1>2, <2>1 DEF Typed, RequestTypes
  <2>3. p = "save" => StatusOf(who(r)) = "black"
    BY <1>2, <2>1, RowsFacts, StatusFacts
  <2>4. ASSUME ~torn, p = "save" PROVE Stage(r)'
    <3>1. StatusOf(who(r))' = "black" /\ mine'[r] = First(contact[who(r)])'
      BY <1>1, <1>3, <2>2, <2>3, <2>4 DEF contactVars, StatusOf
    <3>2. QED
      BY <1>3, <1>4, <2>2, <2>4, <3>1 DEF Stage, Even
  <2>5. QED
    BY <1>1, <1>4, <2>1, <2>4, ContactSteps
<1>7. CASE Check(r)
  <2>1. PICK p \in {"open", "done"} : pc' = [pc EXCEPT ![r] = p]
    BY <1>7 DEF Check, Goto, Answer
  <2>2. pc'[r] = p
    BY <2>1 DEF Typed, RequestTypes
  <2>3. ~torn => Stage(r)'
    BY <1>3, <1>4, <2>2, LeftEven
  <2>4. QED
    BY <1>1, <1>4, <2>1, <2>3, ContactSteps
<1>8. QED
  BY <1>5, <1>6, <1>7

\* The steps that write applications.
LEMMA ContactApply ==
  ASSUME Typed, ContactInv, NEW r \in Req, CreateApply(r) \/ SaveApply(r) \/ DeleteApplies(r)
  PROVE  ContactInv'
<1>1. /\ UNCHANGED <<contact, cachedContacts, req, torn>> /\ Active(r)
      /\ pc[r] \in {"createApply", "saveApply", "tx"}
  BY DEF CreateApply, SaveApply, DeleteApplies, Active
<1>2. /\ At(pc[r], op(r)) /\ who(r) \in Pair /\ op(r)' = op(r) /\ who(r)' = who(r)
      /\ apply \in [Pair -> Seq(ApplyStatus)]
  BY <1>1 DEF Typed, RequestTypes, ContactTypes, op, who
<1>3. Applicant(r) \in Pair
  BY <1>2, PairFacts DEF Applicant
<1>4. /\ Balanced' <=> Balanced
      /\ Known' <=> Known
      /\ Listed' <=> Listed
      /\ \A u \in Pair : NoRows(u)' <=> NoRows(u)
  BY <1>1 DEF Balanced, Known, Listed, Rows, NoRows, StatusOf
<1>5. CASE CreateApply(r)
  <2> DEFINE u == who(r)  new == Append(apply[u], "pending")
  <2>1. apply' = [apply EXCEPT ![u] = new] /\ pc' = [pc EXCEPT ![r] = "saveApply"]
    BY <1>5 DEF CreateApply, Goto
  <2>2. op(r) = "apply" /\ pc'[r] = "saveApply"
    BY <1>2, <1>5, <2>1 DEF CreateApply, At, Typed, RequestTypes
  <2>3. Live(new) = Live(apply[u]) \cup {Len(apply[u]) + 1}
        /\ \A i \in Live(new) : new[i] = "pending" \/ (i \in Live(apply[u]) /\ new[i] = apply[u][i])
    <3>1. "none" \notin ApplyStatus /\ "pending" \in ApplyStatus /\ apply[u] \in Seq(ApplyStatus)
      BY <1>2 DEF ApplyStatus
    <3>2. Live(new) = Live(apply[u]) \cup {Len(apply[u]) + 1}
      BY <3>1, AppendedFacts
    <3>3. Live(apply[u]) \subseteq 1 .. Len(apply[u]) /\ Len(apply[u]) \in Nat
      BY <3>1, LiveFacts
    <3>4. /\ \A i \in 1 .. Len(apply[u]) : new[i] = apply[u][i]
          /\ new[Len(apply[u]) + 1] = "pending"
      BY <3>1, AppendProperties
    <3>5. QED
      BY <3>2, <3>3, <3>4
  <2>4. Unapproved => Unapproved'
    BY <1>2, <1>4, <2>1, <2>3 DEF Unapproved
  <2>5. ~torn => Stage(r)'
    <3>1. ~torn => Even
      BY <1>1, <2>2, FoundEven
    <3>2. ~torn => Even'
      BY <1>4, <2>4, <3>1 DEF Even
    <3>3. QED
      BY <1>2, <2>2, <3>2, LeftEven
  <2>6. QED
    BY <1>1, <2>1, <2>5, ContactSteps
<1>6. CASE SaveApply(r)
  <2> DEFINE u == Applicant(r)
  <2>1. op(r) \in {"apply", "pass", "refuse", "bar"} /\ pc[r] = "saveApply"
    BY <1>2, <1>6 DEF SaveApply, At
  <2>2. PICK x \in {"pending", "agree", "refuse", "black"} :
          /\ apply' = [apply EXCEPT ![u] = Updated(@, mine[r], x)]
          /\ x = "agree" => op(r) = "pass"
    BY <1>6, <2>1 DEF SaveApply
  <2>3. PICK p \in {"own", "done"} : pc' = [pc EXCEPT ![r] = p] /\ (p = "own" <=> op(r) = "pass")
    BY <1>6 DEF SaveApply, Goto, Answer
  <2>4. pc'[r] = p
    BY <2>3 DEF Typed, RequestTypes
  <2>5. apply'[u] = Updated(apply[u], mine[r], x) /\ \A v \in Pair : v # u => apply'[v] = apply[v]
    BY <1>2, <1>3, <2>2
  <2>6. \A i \in Live(apply'[u]) : apply'[u][i] = x \/ (i \in Live(apply[u]) /\ apply'[u][i] = apply[u][i])
    BY <2>5 DEF Updated, Live
  <2>7. x # "agree" /\ Unapproved => Unapproved'
    BY <1>3, <1>4, <2>5, <2>6 DEF Unapproved
  <2>8. ~torn => Even
    BY <1>1, <2>1, FoundEven
  <2>9. ~torn => IF p = "done" THEN Even' ELSE Stage(r)'
    <3>1. CASE p = "done"
      BY <1>4, <2>2, <2>3, <2>7, <2>8, <3>1 DEF Even
    <3>2. CASE p = "own"
      BY <1>2, <1>4, <2>3, <2>4, <2>8, <3>2 DEF Even, Stage
    <3>3. QED
      BY <3>1, <3>2
  <2>10. QED
    BY <1>1, <2>3, <2>9, ContactSteps
<1>7. CASE DeleteApplies(r)
  <2>1. /\ apply' = [u \in Pair |-> Cleared(apply[u])] /\ pc' = [pc EXCEPT ![r] = "uncache"]
        /\ pc[r] = "tx"
    BY <1>7 DEF DeleteApplies, Goto
  <2>2. op(r) = "delete" /\ pc'[r] = "uncache"
    BY <1>2, <2>1 DEF At, Typed, RequestTypes
  <2>3. \A u \in Pair : Live(apply'[u]) = {}
    <3> SUFFICES ASSUME NEW u \in Pair PROVE Live(Cleared(apply[u])) = {}
      BY <2>1
    <3>1. apply[u] \in Seq(ApplyStatus) /\ "gone" \in ApplyStatus
      BY <1>2 DEF ApplyStatus
    <3>2. Live(Updated(apply[u], Live(apply[u]), "gone")) = Live(apply[u]) \ Live(apply[u])
      BY <3>1, UpdatedFacts
    <3>3. QED
      BY <3>2 DEF Cleared
  <2>4. ~torn => \A u \in Pair : NoRows(u)
    BY <1>1, <2>1, <2>2 DEF ContactInv, Stage
  <2>5. ~torn => Stage(r)'
    BY <1>2, <1>4, <2>2, <2>3, <2>4 DEF Stage
  <2>6. QED
    BY <1>1, <2>1, <2>5, ContactSteps
<1>8. QED
  BY <1>5, <1>6, <1>7

\* The first statement of a change: the requester's own rows.
LEMMA ContactOwn ==
  ASSUME Typed, ContactInv, NEW r \in Req, Own(r)
  PROVE  ContactInv'
<1>0. PICK u, v, new : /\ u \in Pair /\ v \in Pair /\ u = who(r) /\ v = Peer(u)
                        /\ new = Changed(r, contact[u])
  BY PairFacts DEF Own, Typed, RequestTypes, Active
<1>1. /\ UNCHANGED <<apply, cachedContacts, req, torn>> /\ Active(r) /\ pc[r] = "own"
      /\ contact' = [contact EXCEPT ![u] = new] /\ pc' = [pc EXCEPT ![r] = "other"]
  BY <1>0 DEF Own, Goto, Active
<1>2. /\ op(r) \in {"pass", "black", "delete"} /\ u \in Pair /\ contact \in [Pair -> Seq(Status)]
      /\ op(r)' = op(r) /\ who(r) = u /\ who(r)' = u /\ pc'[r] = "other"
  BY <1>0, <1>1 DEF Typed, RequestTypes, ContactTypes, At, op, who, Active
<1>3. v \in Pair /\ v # u /\ Peer(u) = v /\ Peer(v) = u /\ Pair = {u, v}
  BY <1>0, <1>2, PairFacts
<1>4. contact'[u] = new /\ contact'[v] = contact[v]
  BY <1>1, <1>2, <1>3
<1>5. /\ Rows(v)' = Rows(v) /\ (NoRows(v)' <=> NoRows(v)) /\ StatusOf(v)' = StatusOf(v)
      /\ Rows(u)' = Cardinality(Live(new)) /\ (NoRows(u)' <=> Live(new) = {}) /\ StatusOf(u)' = RowStatus(new)
  BY <1>4 DEF Rows, NoRows, StatusOf, RowStatus
<1>6. /\ Rows(u) = Cardinality(Live(contact[u])) /\ (NoRows(u) <=> Live(contact[u]) = {})
      /\ StatusOf(u) = RowStatus(contact[u])
  BY DEF Rows, NoRows, StatusOf, RowStatus
<1>7. Live(contact[u]) \subseteq Live(new) => (Listed => Listed')
  BY <1>1, <1>3, <1>4 DEF Listed
<1>8. contact[u] \in Seq(Status) /\ new = Changed(r, contact[u])
  BY <1>0, <1>2
<1>9. ASSUME ~torn, op(r) = "pass" PROVE Stage(r)'
  <2>1. Balanced /\ Known /\ Listed
    BY <1>1, <1>9 DEF ContactInv, Stage
  <2>2. /\ Cardinality(Live(new)) = Cardinality(Live(contact[u])) + 1
        /\ Live(contact[u]) \subseteq Live(new)
        /\ RowStatus(new) = IF Live(contact[u]) = {} THEN "normal" ELSE RowStatus(contact[u])
    BY <1>2, <1>8, <1>9, ChangedFacts
  <2>3. Rows(u)' = Rows(v)' + 1
    BY <1>2, <1>3, <1>5, <1>6, <2>1, <2>2 DEF Balanced
  <2>4. StatusOf(u)' = IF NoRows(u) THEN "normal" ELSE StatusOf(u)
    BY <1>5, <1>6, <2>2
  <2>5. NoRows(u) <=> NoRows(v)
    BY <1>2, <1>3, <2>1, RowsFacts DEF Balanced
  <2>6. StatusOf(v) = "none" <=> NoRows(v)
    BY <1>3, RowsFacts
  <2>7. Known'
    <3>1. StatusOf(u)' = "black" => StatusOf(v)' = "beblack"
      BY <1>2, <1>3, <1>5, <2>1, <2>4 DEF Known
    <3>2. StatusOf(v)' = "black" => StatusOf(u)' = "beblack"
      BY <1>3, <1>5, <2>1, <2>4, <2>5, <2>6 DEF Known
    <3>3. QED
      BY <1>3, <3>1, <3>2 DEF Known
  <2>8. Listed'
    BY <1>7, <2>1, <2>2
  <2>9. Rows(who(r))' = Rows(Peer(who(r)))' + 1
    BY <1>2, <1>3, <2>3
  <2>10. QED
    BY <1>2, <1>9, <2>7, <2>8, <2>9 DEF Stage
<1>10. ASSUME ~torn, op(r) = "black" PROVE Stage(r)'
  <2>1. Even
    BY <1>1, <1>10, FoundEven
  <2>2. /\ Live(new) = Live(contact[u])
        /\ RowStatus(new) = IF Live(contact[u]) = {} THEN "none" ELSE "black"
    BY <1>1, <1>2, <1>8, <1>10, ChangedFacts
  <2>3. StatusOf(u)' \in {"black", "none"} /\ Rows(u)' = Rows(u) /\ (NoRows(u)' <=> NoRows(u))
    BY <1>5, <1>6, <2>2
  <2>4. Balanced'
    <3>1. Rows(u) = Rows(v)
      BY <1>2, <1>3, <2>1 DEF Even, Balanced
    <3>2. QED
      BY <1>3, <1>5, <2>3, <3>1 DEF Balanced
  <2>5. Unapproved'
    BY <1>1, <1>3, <1>5, <2>1, <2>3 DEF Even, Unapproved
  <2>6. Listed'
    BY <1>7, <2>1, <2>2 DEF Even
  <2>7. QED
    BY <1>2, <1>10, <2>3, <2>4, <2>5, <2>6 DEF Stage
<1>11. ASSUME ~torn, op(r) = "delete" PROVE Stage(r)'
  <2>1. Live(new) = {}
    BY <1>2, <1>8, <1>11, ChangedFacts
  <2>2. NoRows(who(r))'
    BY <1>2, <1>5, <2>1
  <2>3. QED
    BY <1>2, <1>11, <2>2 DEF Stage
<1>12. QED
  BY <1>1, <1>2, <1>9, <1>10, <1>11, ContactSteps

\* The second: the rows of the other user.
LEMMA ContactOther ==
  ASSUME Typed, ContactInv, NEW r \in Req, Other(r)
  PROVE  ContactInv'
<1>0. PICK u, v, new : /\ u \in Pair /\ v \in Pair /\ u = who(r) /\ v = Peer(u)
                        /\ new = Changed(r, contact[v])
  BY PairFacts DEF Other, Typed, RequestTypes, Active
<1>1. /\ UNCHANGED <<apply, cachedContacts, req, torn>> /\ Active(r) /\ pc[r] = "other"
      /\ contact' = [contact EXCEPT ![v] = new]
  BY <1>0 DEF Other, Active
<1>2. /\ op(r) \in {"pass", "black", "delete"} /\ u \in Pair /\ contact \in [Pair -> Seq(Status)]
      /\ op(r)' = op(r) /\ who(r) = u /\ who(r)' = u
  BY <1>0, <1>1 DEF Typed, RequestTypes, ContactTypes, At, op, who, Active
<1>3. PICK p \in {"uncache", "session", "tx"} :
        /\ pc' = [pc EXCEPT ![r] = p]
        /\ op(r) = "pass" => p = "uncache"
        /\ op(r) = "black" => p = "session"
        /\ op(r) = "delete" => p = "tx"
  BY <1>2 DEF Other, Goto
<1>4. pc'[r] = p
  BY <1>3 DEF Typed, RequestTypes
<1>5. v \in Pair /\ v # u /\ Peer(u) = v /\ Peer(v) = u /\ Pair = {u, v}
  BY <1>0, <1>2, PairFacts
<1>6. contact'[v] = new /\ contact'[u] = contact[u]
  BY <1>1, <1>2, <1>5
<1>7. /\ Rows(u)' = Rows(u) /\ (NoRows(u)' <=> NoRows(u)) /\ StatusOf(u)' = StatusOf(u)
      /\ Rows(v)' = Cardinality(Live(new)) /\ (NoRows(v)' <=> Live(new) = {}) /\ StatusOf(v)' = RowStatus(new)
  BY <1>6 DEF Rows, NoRows, StatusOf, RowStatus
<1>8. /\ Rows(v) = Cardinality(Live(contact[v])) /\ (NoRows(v) <=> Live(contact[v]) = {})
      /\ StatusOf(v) = RowStatus(contact[v])
  BY DEF Rows, NoRows, StatusOf, RowStatus
<1>9. Live(contact[v]) \subseteq Live(new) => (Listed => Listed')
  BY <1>1, <1>5, <1>6 DEF Listed
<1>10. /\ contact[v] \in Seq(Status) /\ new = Changed(r, contact[v])
       /\ Rows(u) \in Nat /\ Rows(v) \in Nat /\ (Rows(u) = 0 <=> NoRows(u)) /\ (Rows(v) = 0 <=> NoRows(v))
       /\ (StatusOf(u) = "none" <=> NoRows(u)) /\ (StatusOf(v) = "none" <=> NoRows(v))
  BY <1>0, <1>2, <1>5, RowsFacts
<1>11. ~torn => Stage(r)
  BY <1>1 DEF ContactInv
<1>12. ASSUME ~torn, op(r) = "pass" PROVE Stage(r)'
  <2>1. Known /\ Listed /\ Rows(u) = Rows(v) + 1
    BY <1>1, <1>2, <1>5, <1>11, <1>12 DEF Stage
  <2>2. /\ Cardinality(Live(new)) = Cardinality(Live(contact[v])) + 1
        /\ Live(contact[v]) \subseteq Live(new) /\ Live(new) # {}
        /\ RowStatus(new) = IF Live(contact[v]) = {} THEN "normal" ELSE RowStatus(contact[v])
    BY <1>2, <1>10, <1>12, ChangedFacts
  <2>3. Balanced'
    <3>1. Rows(u)' = Rows(v)'
      BY <1>7, <1>8, <2>1, <2>2
    <3>2. QED
      BY <1>5, <3>1 DEF Balanced
  <2>4. StatusOf(v)' = IF NoRows(v) THEN "normal" ELSE StatusOf(v)
    BY <1>7, <1>8, <2>2
  <2>5. Known'
    <3>1. StatusOf(u)' = "black" => StatusOf(v)' = "beblack"
      BY <1>2, <1>5, <1>7, <1>10, <2>1, <2>4 DEF Known
    <3>2. StatusOf(v)' = "black" => StatusOf(u)' = "beblack"
      BY <1>5, <1>7, <2>1, <2>4 DEF Known
    <3>3. QED
      BY <1>5, <3>1, <3>2 DEF Known
  <2>6. ~NoRows(u) /\ ~NoRows(v)'
    BY <1>7, <1>10, <2>1, <2>2
  <2>7. Unapproved'
    BY <1>5, <1>7, <2>6 DEF Unapproved
  <2>8. Listed'
    BY <1>9, <2>1, <2>2
  <2>9. QED
    BY <1>2, <1>3, <1>4, <1>12, <2>3, <2>5, <2>7, <2>8 DEF Stage
<1>13. ASSUME ~torn, op(r) = "black" PROVE Stage(r)'
  <2>1. Balanced /\ Unapproved /\ Listed /\ StatusOf(u) \in {"black", "none"}
    BY <1>1, <1>2, <1>11, <1>13 DEF Stage
  <2>2. /\ Live(new) = Live(contact[v])
        /\ RowStatus(new) = IF Live(contact[v]) = {} THEN "none" ELSE "beblack"
    BY <1>1, <1>2, <1>10, <1>13, ChangedFacts
  <2>3. /\ StatusOf(v)' = IF NoRows(v) THEN "none" ELSE "beblack"
        /\ Rows(v)' = Rows(v) /\ (NoRows(v)' <=> NoRows(v))
    BY <1>7, <1>8, <2>2
  <2>4. Rows(u) = Rows(v)
    BY <1>2, <1>5, <2>1 DEF Balanced
  <2>5. Balanced'
    BY <1>5, <1>7, <2>3, <2>4 DEF Balanced
  <2>6. Known'
    <3>1. StatusOf(u)' = "black" => StatusOf(v)' = "beblack"
      BY <1>7, <1>10, <2>3, <2>4
    <3>2. StatusOf(v)' # "black"
      BY <2>3
    <3>3. QED
      BY <1>5, <3>1, <3>2 DEF Known
  <2>7. Unapproved'
    BY <1>1, <1>5, <1>7, <2>1, <2>3 DEF Unapproved
  <2>8. Listed'
    BY <1>9, <2>1, <2>2
  <2>9. QED
    BY <1>2, <1>3, <1>4, <1>13, <2>5, <2>6, <2>7, <2>8 DEF Stage
<1>14. ASSUME ~torn, op(r) = "delete" PROVE Stage(r)'
  <2>1. NoRows(u)
    BY <1>1, <1>2, <1>11, <1>14 DEF Stage
  <2>2. Live(new) = {}
    BY <1>2, <1>10, <1>14, ChangedFacts
  <2>3. \A w \in Pair : NoRows(w)'
    BY <1>5, <1>7, <2>1, <2>2
  <2>4. QED
    BY <1>2, <1>3, <1>4, <1>14, <2>3 DEF Stage
<1>15. QED
  BY <1>1, <1>2, <1>3, <1>12, <1>13, <1>14, ContactSteps

\* CancelBlackContact makes the first of its user's rows normal, twice.
LEMMA ContactSave ==
  ASSUME Typed, ContactInv, NEW r \in Req, SaveContact(r)
  PROVE  ContactInv'
<1>0. PICK u, v, new : /\ u \in Pair /\ v \in Pair /\ u = who(r) /\ v = Peer(u)
                        /\ new = Updated(contact[u], mine[r], "normal")
  BY PairFacts DEF SaveContact, Typed, RequestTypes, Active
<1>1. /\ UNCHANGED <<apply, cachedContacts, req, mine, torn>> /\ Active(r)
      /\ pc[r] \in {"save", "saveAgain"} /\ contact' = [contact EXCEPT ![u] = new]
  BY <1>0 DEF SaveContact, Active
<1>2. /\ op(r) = "cancel" /\ u \in Pair /\ contact \in [Pair -> Seq(Status)]
      /\ op(r)' = op(r) /\ who(r) = u /\ who(r)' = u
  BY <1>0, <1>1 DEF Typed, RequestTypes, ContactTypes, At, op, who, Active
<1>3. PICK p \in {"saveAgain", "done"} : pc' = [pc EXCEPT ![r] = p]
  BY DEF SaveContact, Goto, Answer
<1>4. pc'[r] = p
  BY <1>3 DEF Typed, RequestTypes
<1>5. v \in Pair /\ v # u /\ Peer(u) = v /\ Peer(v) = u /\ Pair = {u, v}
  BY <1>0, <1>2, PairFacts
<1>6. contact'[u] = new /\ contact'[v] = contact[v]
  BY <1>1, <1>2, <1>5
<1>7. /\ Rows(v)' = Rows(v) /\ (NoRows(v)' <=> NoRows(v)) /\ StatusOf(v)' = StatusOf(v)
      /\ Rows(u)' = Cardinality(Live(new)) /\ (NoRows(u)' <=> Live(new) = {}) /\ StatusOf(u)' = RowStatus(new)
  BY <1>6 DEF Rows, NoRows, StatusOf, RowStatus
<1>8. ASSUME ~torn PROVE Even' /\ Stage(r)'
  <2>1. /\ Even /\ mine[r] = First(contact[u])
        /\ StatusOf(u) \in {"black", "normal"} /\ (StatusOf(u) = "normal" \/ pc[r] = "save")
    <3>1. Stage(r) /\ Even
      BY <1>1, <1>2, <1>8, FoundEven DEF ContactInv
    <3>2. QED
      BY <1>1, <1>2, <3>1 DEF Stage
  <2>2. contact[u] \in Seq(Status) /\ ~NoRows(u)
        /\ First(contact[u]) \subseteq Live(contact[u])
    BY <1>2, <2>1, RowsFacts
  <2>3. /\ Live(new) = Live(contact[u]) /\ First(new) = First(contact[u])
        /\ RowStatus(new) = IF Live(contact[u]) = {} THEN "none" ELSE "normal"
    <3>1. "none" \notin Status /\ "normal" \in Status /\ "normal" # "gone"
      BY DEF Status
    <3>2. mine[r] \in SUBSET Live(contact[u]) /\ First(contact[u]) \subseteq mine[r]
      BY <2>1, <2>2
    <3>3. contact[u] \in Seq(Status) /\ new = Updated(contact[u], mine[r], "normal")
      BY <1>0, <2>2
    <3>4. QED
      BY ONLY <3>1, <3>2, <3>3, KeptFacts
  <2>4. /\ StatusOf(u)' = "normal" /\ Rows(u)' = Rows(u) /\ (NoRows(u)' <=> NoRows(u))
    BY <1>7, <2>2, <2>3 DEF Rows, NoRows
  <2>5. Balanced'
    <3>1. Rows(u) = Rows(v)
      BY <1>2, <1>5, <2>1 DEF Even, Balanced
    <3>2. QED
      BY <1>5, <1>7, <2>4, <3>1 DEF Balanced
  <2>6. Known'
    <3>1. StatusOf(v) # "black"
      BY <1>5, <2>1 DEF Even, Known
    <3>2. QED
      BY <1>5, <1>7, <2>4, <3>1 DEF Known
  <2>7. Unapproved'
    BY <1>1, <1>5, <1>7, <2>1, <2>4 DEF Even, Unapproved
  <2>8. Listed'
    BY <1>1, <1>5, <1>6, <2>1, <2>3 DEF Even, Listed
  <2>9. mine'[r] = First(contact[who(r)])'
    BY <1>1, <1>2, <1>6, <2>1, <2>3
  <2>10. QED
    BY <1>2, <1>4, <2>4, <2>5, <2>6, <2>7, <2>8, <2>9 DEF Stage, Even
<1>9. QED
  BY <1>1, <1>3, <1>8, ContactSteps

\* The steps that write the cached list.
LEMMA ContactLists ==
  ASSUME Typed, ContactInv, NEW r \in Req, Uncache(r) \/ GetUserList(r)
  PROVE  ContactInv'
<1>1. UNCHANGED <<contact, apply, req, torn>> /\ Active(r) /\ pc[r] \in {"uncache", "contacts", "keepContacts"}
  BY DEF Uncache, GetUserList, Active
<1>2. /\ At(pc[r], op(r)) /\ who(r) \in Pair /\ op(r)' = op(r) /\ who(r)' = who(r)
      /\ cachedContacts \in [Pair -> SUBSET Nat] /\ DOMAIN mine = Req
  BY <1>1 DEF Typed, RequestTypes, ContactTypes, op, who, Active
<1>3. /\ Balanced' <=> Balanced
      /\ Known' <=> Known
      /\ Unapproved' <=> Unapproved
      /\ \A u \in Pair : NoRows(u)' <=> NoRows(u)
  BY <1>1 DEF Balanced, Known, Unapproved, Rows, NoRows, StatusOf
<1>4. ~torn => Stage(r)
  BY <1>1 DEF ContactInv
<1>5. CASE Uncache(r)
  <2>1. /\ cachedContacts' = [u \in Pair |-> IF u \in Uncached(r) THEN NoList ELSE cachedContacts[u]]
        /\ pc' = [pc EXCEPT ![r] = "done"] /\ pc[r] = "uncache"
    BY <1>5 DEF Uncache, Answer
  <2>2. CASE op(r) = "delete"
    <3>1. ~torn => \A u \in Pair : NoRows(u) /\ Live(apply[u]) = {}
      BY <1>4, <2>1, <2>2 DEF Stage
    <3>2. \A u \in Pair : cachedContacts'[u] = NoList
      BY <2>1, <2>2 DEF Uncached
    <3>3. ~torn => \A u \in Pair : Peer(u) \in Pair /\ Rows(u) = 0 /\ StatusOf(u) = "none"
      BY <3>1, PairFacts, RowsFacts
    <3>4. ~torn => Balanced /\ Known /\ Unapproved
      BY <3>1, <3>3 DEF Balanced, Known, Unapproved
    <3>5. Listed'
      BY <3>2 DEF Listed
    <3>6. ~torn => Even'
      BY <1>3, <3>4, <3>5 DEF Even
    <3>7. QED
      BY <1>1, <2>1, <3>6, ContactSteps
  <2>3. CASE op(r) # "delete"
    <3>1. ~torn => Even
      BY <1>1, <2>1, <2>3, FoundEven
    <3>2. Listed => Listed'
      BY <1>1, <2>1 DEF Listed
    <3>3. ~torn => Even'
      BY <1>3, <3>1, <3>2 DEF Even
    <3>4. QED
      BY <1>1, <2>1, <3>3, ContactSteps
  <2>4. QED
    BY <2>2, <2>3
<1>6. CASE GetUserList(r)
  <2>1. op(r) = "contacts"
    BY <1>2, <1>6 DEF GetUserList, At
  <2>2. ~torn => Even
    BY <1>1, <1>6, <2>1, FoundEven DEF GetUserList
  <2>3. CASE pc[r] = "contacts"
    <3>1. PICK p \in {"done", "keepContacts"} :
            /\ pc' = [pc EXCEPT ![r] = p] /\ UNCHANGED cachedContacts
            /\ p = "keepContacts" => mine' = [mine EXCEPT ![r] = Live(contact[who(r)])]
      BY <1>6, <2>3 DEF GetUserList, Goto, Answer, Read
    <3>2. pc'[r] = p
      BY <3>1 DEF Typed, RequestTypes
    <3>3. ~torn => Even'
      BY <1>1, <2>2, <3>1, EvenKept DEF contactVars
    <3>4. p = "keepContacts" => mine'[r] \subseteq Live(contact[who(r)])'
      BY <1>1, <1>2, <3>1
    <3>5. ~torn /\ p = "keepContacts" => Stage(r)'
      BY <1>2, <2>1, <3>2, <3>3, <3>4 DEF Stage, Even
    <3>6. QED
      BY <1>1, <3>1, <3>3, <3>5, ContactSteps
  <2>4. CASE pc[r] = "keepContacts"
    <3>1. /\ pc' = [pc EXCEPT ![r] = "done"]
          /\ cachedContacts' = [cachedContacts EXCEPT ![who(r)] = mine[r]]
      BY <1>6, <2>4 DEF GetUserList, Answer
    <3>2. ~torn => mine[r] \subseteq Live(contact[who(r)])
      BY <1>4, <2>1, <2>4 DEF Stage
    <3>3. ~torn => Listed'
      BY <1>1, <1>2, <2>2, <3>1, <3>2 DEF Even, Listed
    <3>4. ~torn => Even'
      BY <1>3, <2>2, <3>3 DEF Even
    <3>5. QED
      BY <1>1, <3>1, <3>4, ContactSteps
  <2>5. QED
    BY <1>6, <2>3, <2>4 DEF GetUserList
<1>7. QED
  BY <1>5, <1>6

\* A request that begins on its own: any, on even tables; a deletion, on any.
LEMMA ContactBegin ==
  ASSUME Typed, ContactInv, NEW r \in Req, Begin(r)
  PROVE  ContactInv'
<1> SUFFICES ASSUME ~torn' PROVE Alone' /\ (Quiet' => Even') /\ (\A s \in Req : Active(s)' => Stage(s)')
  BY DEF ContactInv
<1>1. PICK o \in DOMAIN Entry, u \in Pair :
        /\ pc' = [pc EXCEPT ![r] = Entry[o]] /\ req' = [req EXCEPT ![r] = [op |-> o, who |-> u]]
        /\ torn' = (~Quiet \/ (torn /\ o # "delete"))
  BY DEF Begin, Goto
<1>2. PICK p : p = Entry[o]
  OBVIOUS
<1>3. /\ p \notin {"idle", "done", "other", "tx", "uncache", "save", "saveAgain", "keepContacts"}
      /\ p # "own" \/ o # "pass"
  BY <1>2 DEF Entry
<1>4. Quiet /\ (~torn \/ o = "delete") /\ UNCHANGED contactVars
  BY <1>1 DEF Begin
<1>5. /\ pc'[r] = p /\ op(r)' = o
      /\ \A s \in Req : s # r => pc'[s] = pc[s]
  BY <1>1, <1>2 DEF Typed, RequestTypes, op
<1>6. \A s \in Req : pc[s] \in {"idle", "done"}
  BY <1>4 DEF Quiet
<1>7. Alone' /\ ~Quiet' /\ \A s \in Req : Active(s)' => s = r
  BY <1>3, <1>5, <1>6 DEF Alone, Active, Quiet
<1>8. Stage(r)'
  <2>1. CASE o = "delete"
    BY <1>3, <1>5, <2>1 DEF Stage
  <2>2. CASE o # "delete"
    <3>1. Even'
      BY <1>4, <2>2, EvenKept DEF ContactInv
    <3>2. QED
      BY <1>3, <1>5, <2>2, <3>1, LeftEven
  <2>3. QED
    BY <2>1, <2>2
<1>9. QED
  BY <1>7, <1>8

\* A key's time is over.
LEMMA ContactExpire ==
  ASSUME Typed, ContactInv, Expire
  PROVE  ContactInv'
<1> SUFFICES ASSUME ~torn' PROVE Alone' /\ (Quiet' => Even') /\ (\A s \in Req : Active(s)' => Stage(s)')
  BY DEF ContactInv
<1>1. UNCHANGED <<contact, apply, pc, req, mine, torn>>
  BY DEF Expire, ExpireSession, reqVars, contactVars
<1>2. \/ cachedContacts' = cachedContacts
      \/ \E u \in Pair : cachedContacts' = [cachedContacts EXCEPT ![u] = NoList]
  BY DEF Expire, contactVars
<1>3. \A u \in Pair : cachedContacts'[u] \in {cachedContacts[u], NoList}
  BY <1>2 DEF Typed, ContactTypes
<1>4. Listed => Listed'
  BY <1>1, <1>3 DEF Listed
<1>5. /\ Balanced' <=> Balanced
      /\ Known' <=> Known
      /\ Unapproved' <=> Unapproved
  BY <1>1 DEF Balanced, Known, Unapproved, Rows, NoRows, StatusOf
<1>6. Alone' /\ (Quiet' => Even')
  BY <1>1, <1>4, <1>5 DEF ContactInv, Even, Alone, Active, Quiet
<1>7. ASSUME NEW s \in Req, Active(s)' PROVE Stage(s)'
  <2>1. Stage(s)
    BY <1>1, <1>7 DEF ContactInv, Active
  <2>2. /\ op(s)' = op(s) /\ who(s)' = who(s) /\ pc'[s] = pc[s] /\ mine'[s] = mine[s]
        /\ NoRows(who(s))' <=> NoRows(who(s))
        /\ Rows(who(s))' = Rows(who(s)) /\ Rows(Peer(who(s)))' = Rows(Peer(who(s)))
        /\ StatusOf(who(s))' = StatusOf(who(s)) /\ contact'[who(s)] = contact[who(s)]
        /\ \A u \in Pair : NoRows(u)' <=> NoRows(u)
    BY <1>1 DEF op, who, NoRows, Rows, StatusOf
  <2>3. op(s) # "delete" => Stage(s)'
    BY <1>1, <1>4, <1>5, <2>1, <2>2 DEF Stage
  <2>4. op(s) = "delete" => Stage(s)'
    BY <1>1, <2>1, <2>2 DEF Stage
  <2>5. QED
    BY <2>3, <2>4
<1>8. QED
  BY <1>6, <1>7

\* Every step keeps the invariant of the contacts.
LEMMA ContactNext ==
  ASSUME Typed, ContactInv, [Next]_vars
  PROVE  ContactInv'
<1>1. CASE UNCHANGED vars
  <2>1. UNCHANGED <<contact, apply, cachedContacts, pc, req, mine, torn>>
    BY <1>1 DEF vars, contactVars, reqVars
  <2>2. Even' <=> Even
    BY <2>1, EvenKept DEF contactVars
  <2>3. \A r \in Req : Stage(r)' <=> Stage(r)
    BY <2>1 DEF Stage, Balanced, Known, Unapproved, Listed, Rows, NoRows, StatusOf, op, who
  <2>4. (Alone' <=> Alone) /\ (Quiet' <=> Quiet) /\ \A r \in Req : Active(r)' <=> Active(r)
    BY <2>1 DEF Alone, Active, Quiet
  <2>5. QED
    BY <2>1, <2>2, <2>3, <2>4 DEF ContactInv
<1>2. CASE Expire
  BY <1>2, ContactExpire
<1>3. ASSUME NEW r \in Req, Begin(r)
      PROVE  ContactInv'
  BY <1>3, ContactBegin
<1>4. ASSUME NEW r \in Req, DeleteSessions(r) \/ SessionFails(r) \/ StatementFails(r)
      PROVE  ContactInv'
  BY <1>4, ContactDeletes
<1>5. ASSUME NEW r \in Req, FindApply(r) \/ FindBlack(r) \/ Check(r)
      PROVE  ContactInv'
  BY <1>5, ContactReads
<1>6. ASSUME NEW r \in Req, CreateApply(r) \/ SaveApply(r) \/ DeleteApplies(r)
      PROVE  ContactInv'
  BY <1>6, ContactApply
<1>7. ASSUME NEW r \in Req, Own(r) \/ Other(r) \/ SaveContact(r)
      PROVE  ContactInv'
  BY <1>7, ContactOwn, ContactOther, ContactSave
<1>8. ASSUME NEW r \in Req, Uncache(r) \/ GetUserList(r)
      PROVE  ContactInv'
  BY <1>8, ContactLists
<1>9. ASSUME NEW r \in Req, Session(r)
      PROVE  ContactInv'
  BY <1>9, ContactSession
<1>10. QED
  BY <1>1, <1>2, <1>3, <1>4, <1>5, <1>6, <1>7, <1>8, <1>9 DEF Next

\* The tables are even at the start.
LEMMA ContactInit == Init => ContactInv
<1> SUFFICES ASSUME Init PROVE ContactInv
  OBVIOUS
<1>1. PICK a \in Pair :
        /\ \/ contact = Given(a, <<>>, <<>>) /\ apply \in {Given(a, <<>>, <<>>), Given(a, <<"pending">>, <<>>)}
           \/ contact = Given(a, <<"normal">>, <<"normal">>)
           \/ contact = Given(a, <<"black">>, <<"beblack">>)
        /\ cachedContacts = [u \in Pair |-> NoList] /\ InitSessions
  BY InitFacts
<1>2. \A u \in Pair : Peer(u) \in Pair /\ Peer(u) # u /\ Pair = {u, Peer(u)}
  BY PairFacts
<1>3. /\ \A u \in Pair : StatusOf(u) = RowStatus(contact[u])
      /\ Live(<<>>) = {} /\ RowStatus(<<>>) = "none"
      /\ Live(<<"normal">>) = {1} /\ RowStatus(<<"normal">>) = "normal"
      /\ Live(<<"black">>) = {1} /\ RowStatus(<<"black">>) = "black"
      /\ Live(<<"beblack">>) = {1} /\ RowStatus(<<"beblack">>) = "beblack"
      /\ Live(<<"pending">>) = {1}
  BY ShortRows DEF StatusOf, RowStatus
<1>4. Balanced
  <2>1. \A u, v \in Pair : Live(contact[u]) = Live(contact[v])
    BY <1>1, <1>3 DEF Given
  <2>2. QED
    BY <1>2, <2>1 DEF Balanced, Rows
<1>5. Known
  BY <1>1, <1>2, <1>3 DEF Given, Known
<1>6. Unapproved
  <2> SUFFICES ASSUME NEW u \in Pair, NoRows(u), NEW i \in Live(apply[u]) PROVE apply[u][i] # "agree"
    BY DEF Unapproved
  <2>1. apply[u] \in {<<>>, <<"pending">>}
    BY <1>1, <1>3 DEF Given, NoRows
  <2>2. apply[u] = <<"pending">> /\ i = 1
    BY <1>3, <2>1
  <2>3. QED
    BY <2>2
<1>7. Listed
  BY <1>1 DEF Listed
<1>8. Alone /\ \A r \in Req : ~Active(r)
  BY <1>1 DEF InitSessions, Alone, Active
<1>9. QED
  BY <1>4, <1>5, <1>6, <1>7, <1>8 DEF ContactInv, Even

\* The tables are even whenever no request is under way, as long as none overlapped
\* or stopped halfway.
LEMMA ContactCorrect == Spec => [](Typed /\ ContactInv)
<1>1. Init => Typed /\ ContactInv
  BY TypedInit, ContactInit
<1>2. (Typed /\ ContactInv) /\ [Next]_vars => (Typed /\ ContactInv)'
  BY TypedNext, ContactNext
<1>3. QED
  BY <1>1, <1>2, PTL DEF Spec

\* As long as requests do not overlap and none stops halfway, and again after a
\* deletion that does neither: both users have the same number of rows of each other,
\* who has blacked the other is known to the other's row, and strangers have no
\* approved application.
THEOREM SidesAgree == Spec => []BothSides
<1>1. Typed /\ ContactInv => BothSides
  <2> SUFFICES ASSUME Typed, ContactInv, ~torn, Quiet, NEW u \in Pair
               PROVE  /\ Rows(u) = Rows(Peer(u))
                      /\ StatusOf(u) = "black" => StatusOf(Peer(u)) = "beblack"
                      /\ StatusOf(u) = "none" => \A i \in Live(apply[u]) : apply[u][i] # "agree"
    BY DEF BothSides, Rows
  <2>1. Balanced /\ Known /\ Unapproved
    BY DEF ContactInv, Even
  <2>2. QED
    BY <2>1, RowsFacts DEF Balanced, Known, Unapproved
<1>2. QED
  BY <1>1, ContactCorrect, PTL

\* Under the same condition a cached list of contacts shows no one who is not one.
THEOREM ListsAreOfContacts == Spec => []ListedIsContact
<1>1. Typed /\ ContactInv => ListedIsContact
  BY DEF ContactInv, Even, Listed, ListedIsContact
<1>2. QED
  BY <1>1, ContactCorrect, PTL

\* As long as requests do not overlap and none stops halfway, no step makes who has
\* been blacked a contact of status normal again: no application that is passed, and
\* no cancellation, in whatever state the request making it has found the rows. They
\* must be deleted, or their user black the other, first.
THEOREM BlackedStays == Spec => NoWayBack
<1>1. ASSUME Typed, ContactInv, [Next]_vars
      PROVE  [\A u \in Pair : ~torn /\ StatusOf(u) = "beblack" => StatusOf(u)' # "normal"]_vars
  <2> SUFFICES ASSUME ~torn, NEW u \in Pair, StatusOf(u) = "beblack", StatusOf(u)' = "normal", Next
               PROVE  FALSE
    BY <1>1
  <2>1. contact' # contact
    BY DEF StatusOf
  <2>2. PICK r \in Req : Own(r) \/ Other(r) \/ SaveContact(r)
    <3>1. Expire => contact' = contact
      BY DEF Expire, ExpireSession, contactVars
    <3>2. \A r \in Req : Begin(r) \/ StatementFails(r) \/ FindApply(r) \/ FindBlack(r) \/ Check(r)
                         \/ CreateApply(r) \/ SaveApply(r) \/ DeleteApplies(r) \/ Uncache(r)
                         \/ GetUserList(r) => contact' = contact
      BY DEF Begin, StatementFails, FindApply, FindBlack, Check, CreateApply, SaveApply,
         DeleteApplies, Uncache, GetUserList, contactVars
    <3>3. \A r \in Req : DeleteSessions(r) \/ SessionFails(r) \/ Session(r) => contact' = contact
      BY DEF DeleteSessions, SessionFails, Session, contactVars
    <3>4. QED
      BY <2>1, <3>1, <3>2, <3>3 DEF Next
  <2>3. /\ contact[u] \in Seq(Status) /\ ~NoRows(u) /\ StatusOf(u) = RowStatus(contact[u])
        /\ contact \in [Pair -> Seq(Status)]
    BY <1>1, RowsFacts DEF Typed, ContactTypes
  <2>4. StatusOf(u)' = RowStatus(contact'[u])
    BY DEF StatusOf, RowStatus
  <2>5. At(pc[r], op(r)) /\ who(r) \in Pair /\ Peer(who(r)) \in Pair /\ Active(r)
    BY <1>1, <2>2, PairFacts DEF Typed, RequestTypes, Own, Other, SaveContact, Active
  <2>6. CASE Own(r) \/ Other(r)
    <3>1. op(r) \in {"pass", "black", "delete"}
      BY <2>5, <2>6 DEF Own, Other, At
    <3>2. contact'[u] \in {contact[u], Changed(r, contact[u])}
      BY <2>3, <2>5, <2>6 DEF Own, Other
    <3>3. contact'[u] = Changed(r, contact[u])
      BY <2>3, <2>4, <3>2
    <3>4. RowStatus(Changed(r, contact[u])) \in {"beblack", "black", "none"}
      <4>1. Live(contact[u]) # {}
        BY <2>3 DEF NoRows
      <4>2. CASE op(r) # "delete"
        BY <2>3, <3>1, <4>1, <4>2, ChangedFacts
      <4>3. CASE op(r) = "delete"
        <5>1. Changed(r, contact[u]) \in Seq(Status) /\ Live(Changed(r, contact[u])) = {} /\ "none" \notin Status
          BY <2>3, <3>1, <4>3, ChangedFacts DEF Status
        <5>2. QED
          BY <5>1, StatusFacts
      <4>4. QED
        BY <4>2, <4>3
    <3>5. QED
      BY <2>4, <3>3, <3>4
  <2>7. CASE SaveContact(r)
    <3>1. pc[r] \in {"save", "saveAgain"} /\ op(r) = "cancel"
          /\ \A w \in Pair : w # who(r) => contact'[w] = contact[w]
      BY <2>3, <2>5, <2>7 DEF SaveContact, At
    <3>2. StatusOf(who(r)) \in {"black", "normal"}
      BY <1>1, <2>5, <3>1 DEF ContactInv, Stage
    <3>3. u # who(r)
      BY <3>2
    <3>4. QED
      BY <2>3, <2>4, <3>1, <3>3
  <2>8. QED
    BY <2>2, <2>6, <2>7
<1>2. QED
  BY <1>1, ContactCorrect, PTL DEF Spec, NoWayBack

-------------------------------------------------------------------------------
(* Deletions                                                                  *)

\* A deletion has deleted the sessions before it writes the rows.
NoSessions(u) == Live(session[u]) = {}
Parting(r) ==
  op(r) = "delete" =>
    /\ pc[r] = "peerSession" => NoSessions(who(r))
    /\ pc[r] \in {"own", "other", "tx", "uncache"} => \A u \in Pair : NoSessions(u)

DeletionInv == ~torn /\ ~loose => \A r \in Req : Active(r) => Parting(r)

Settled == Typed /\ SessionInv /\ ContactInv /\ DeletionInv

\* A step of a request keeps the invariant if it is parting as far as it has come.
LEMMA DeletionSteps ==
  ASSUME Settled, UNCHANGED req, torn => torn', loose => loose', NEW r \in Req, Active(r),
         NEW p, p # "idle", pc' = [pc EXCEPT ![r] = p],
         ~torn' /\ ~loose' /\ p # "done" => Parting(r)'
  PROVE  DeletionInv'
<1> SUFFICES ASSUME ~torn', ~loose' PROVE \A s \in Req : Active(s)' => Parting(s)'
  BY DEF DeletionInv
<1>1. pc'[r] = p /\ \A s \in Req : s # r => pc'[s] = pc[s] /\ ~Active(s)
  BY DEF Settled, ContactInv, Alone, Typed, RequestTypes
<1>2. \A s \in Req : Active(s)' => s = r /\ p # "done"
  BY <1>1 DEF Active
<1>3. QED
  BY <1>2

\* The steps of the sessions' requests, none of which is a deletion.
LEMMA DeletionSession ==
  ASSUME Settled, NEW r \in Req, Session(r)
  PROVE  DeletionInv'
<1>1. UNCHANGED <<req, torn, loose>> /\ Active(r)
  BY DEF Session, OpenSession, Keep, CreateSession, Unlist, GetUserSessionList, DeleteSession, Active
<1>2. PICK p \in {"keep", "create", "done", "unlist", "keepSessions"} : pc' = [pc EXCEPT ![r] = p]
  BY DEF Session, OpenSession, Keep, CreateSession, Unlist, GetUserSessionList, DeleteSession, Goto, Answer
<1>3. op(r) # "delete"
  BY DEF Session, OpenSession, Keep, CreateSession, Unlist, GetUserSessionList, DeleteSession,
     Settled, Typed, RequestTypes, At
<1>4. Parting(r)'
  BY <1>1, <1>3 DEF Parting, op
<1>5. QED
  BY <1>1, <1>2, <1>4, DeletionSteps

\* Deleting sessions creates none.
LEMMA FewerSessions ==
  ASSUME NEW rows, NEW ids
  PROVE  Live(Updated(rows, ids, "gone")) \subseteq Live(rows)
BY DEF Live, Updated

\* The deletions by RPC.
LEMMA DeletionCalls ==
  ASSUME Settled, NEW r \in Req, DeleteSessions(r)
  PROVE  DeletionInv'
<1>1. PICK u \in Pair : DeleteSessionsByUsers(u) /\ u = IF pc[r] = "session" THEN who(r) ELSE Peer(who(r))
  BY PairFacts DEF DeleteSessions, Sender, Settled, Typed, RequestTypes, Active
<1>2. /\ UNCHANGED contact /\ UNCHANGED <<req, torn, loose>> /\ Active(r)
      /\ pc[r] \in {"session", "peerSession"} /\ op(r)' = op(r) /\ who(r)' = who(r)
      /\ session' = [session EXCEPT ![u] = Updated(@, First(@), "gone")]
      /\ session \in [Pair -> Seq({"live", "gone"})]
  BY <1>1 DEF DeleteSessions, DeleteSessionsByUsers, Active, op, who, contactVars, Settled, Typed,
     SessionTypes, SessionsTypeOK
<1>3. /\ who(r) \in Pair /\ Pair = {who(r), Peer(who(r))} /\ Peer(who(r)) # who(r)
      /\ op(r) \in {"black", "delete"}
  BY <1>2, PairFacts DEF Settled, Typed, RequestTypes, At
<1>4. PICK p \in {"done", "uncache", "own", "peerSession"} :
        /\ pc' = [pc EXCEPT ![r] = p]
        /\ op(r) = "delete" => p = IF pc[r] = "session" THEN "peerSession" ELSE "own"
  BY <1>2 DEF DeleteSessions, Goto, Answer
<1>5. pc'[r] = p
  BY <1>4 DEF Settled, Typed, RequestTypes
<1>6. \A v \in Pair : Live(session'[v]) \subseteq Live(session[v])
  BY <1>2, FewerSessions
<1>7. CASE op(r) = "black"
  <2>1. Parting(r)'
    BY <1>2, <1>7 DEF Parting
  <2>2. QED
    BY <1>2, <1>4, <2>1, DeletionSteps
<1>8. CASE op(r) = "delete"
  <2>1. ~loose => NoSessions(u)'
    <3>1. ~loose => Live(session[u]) = First(session[u])
      BY <1>2, FoundSessions DEF Settled
    <3>2. session[u] \in Seq({"live", "gone"}) /\ session'[u] = Updated(session[u], First(session[u]), "gone")
      BY <1>2
    <3>3. QED
      BY <3>1, <3>2, OnlyRow DEF NoSessions
  <2>2. pc[r] = "peerSession" /\ ~torn /\ ~loose => NoSessions(who(r))
    BY <1>2, <1>8 DEF Settled, DeletionInv, Parting
  <2>3. NoSessions(who(r)) => NoSessions(who(r))'
    BY <1>2, <1>3, <1>6 DEF NoSessions
  <2>4. CASE pc[r] = "session"
    <3>1. ~loose => NoSessions(who(r))'
      BY <1>1, <1>2, <2>1, <2>4
    <3>2. ~loose => Parting(r)'
      BY <1>2, <1>4, <1>5, <1>8, <2>4, <3>1 DEF Parting
    <3>3. QED
      BY <1>2, <1>4, <1>8, <2>4, <3>2, DeletionSteps
  <2>5. CASE pc[r] = "peerSession"
    <3>1. ~torn /\ ~loose => NoSessions(who(r))' /\ NoSessions(Peer(who(r)))'
      <4>1. u = Peer(who(r))
        BY <1>1, <2>5
      <4>2. Peer(who(r))' = Peer(who(r))
        BY <1>2
      <4>3. QED
        BY <2>1, <2>2, <2>3, <2>5, <4>1, <4>2 DEF NoSessions
    <3>2. ~torn /\ ~loose => \A v \in Pair : NoSessions(v)'
      BY <1>2, <1>3, <3>1 DEF NoSessions
    <3>3. ~torn /\ ~loose => Parting(r)'
      BY <1>2, <1>4, <1>5, <1>8, <2>5, <3>2 DEF Parting
    <3>4. QED
      BY <1>2, <1>4, <1>8, <2>5, <3>3, DeletionSteps
  <2>6. QED
    BY <1>2, <2>4, <2>5
<1>9. QED
  BY <1>3, <1>7, <1>8

\* The requests that concern contacts, and statements that fail.
LEMMA DeletionContact ==
  ASSUME Settled, NEW r \in Req, ContactStep(r) \/ StatementFails(r)
  PROVE  DeletionInv'
<1>1. UNCHANGED session /\ UNCHANGED <<req, loose>> /\ Active(r) /\ (torn => torn')
  <2>1. UNCHANGED sessionVars /\ UNCHANGED <<req, loose>>
    BY DEF ContactStep, StatementFails, FindApply, CreateApply, SaveApply, Own, Other, DeleteApplies,
       Uncache, FindBlack, SaveContact, GetUserList, Check
  <2>2. Active(r)
    BY DEF ContactStep, StatementFails, FindApply, CreateApply, SaveApply, Own, Other, DeleteApplies,
       Uncache, FindBlack, SaveContact, GetUserList, Check, Active
  <2>3. torn => torn'
    BY DEF ContactStep, StatementFails, FindApply, CreateApply, SaveApply, Own, Other, DeleteApplies,
       Uncache, FindBlack, SaveContact, GetUserList, Check
  <2>4. QED
    BY <2>1, <2>2, <2>3 DEF sessionVars
<1>2. At(pc[r], op(r)) /\ op(r)' = op(r) /\ who(r)' = who(r)
  BY <1>1 DEF Settled, Typed, RequestTypes, op, who
<1>3. PICK p : /\ p # "idle" /\ pc' = [pc EXCEPT ![r] = p]
               /\ op(r) = "delete" /\ p # "done" => pc[r] \in {"own", "other", "tx"}
  <2>1. CASE FindApply(r) \/ CreateApply(r) \/ SaveApply(r) \/ DeleteApplies(r) \/ StatementFails(r)
    BY <1>2, <2>1 DEF FindApply, CreateApply, SaveApply, DeleteApplies, StatementFails, Goto, Answer, At
  <2>2. CASE Own(r) \/ Other(r)
    <3>1. op(r) \in {"pass", "black", "delete"}
      BY <1>2, <2>2 DEF Own, Other, At
    <3>2. QED
      BY <2>2, <3>1 DEF Own, Other, Goto, Answer
  <2>3. CASE Uncache(r) \/ FindBlack(r) \/ SaveContact(r) \/ GetUserList(r) \/ Check(r)
    BY <1>2, <2>3 DEF Uncache, FindBlack, SaveContact, GetUserList, Check, Goto, Answer, At
  <2>4. QED
    BY <2>1, <2>2, <2>3 DEF ContactStep
<1>4. ASSUME ~torn', ~loose', p # "done" PROVE Parting(r)'
  <2>1. Parting(r)
    BY <1>1, <1>4 DEF Settled, DeletionInv
  <2>2. \A u \in Pair : NoSessions(u)' <=> NoSessions(u)
    BY <1>1 DEF NoSessions
  <2>3. op(r) = "delete" => \A u \in Pair : NoSessions(u)'
    BY <1>3, <1>4, <2>1, <2>2 DEF Parting
  <2>4. op(r) = "delete" => who(r)' \in Pair
    BY <1>1, <1>2 DEF Settled, Typed, RequestTypes
  <2>5. QED
    BY <1>2, <2>3, <2>4 DEF Parting
<1>5. QED
  BY <1>1, <1>3, <1>4, DeletionSteps

\* A deletion begins with the sessions.
LEMMA DeletionBegin ==
  ASSUME Settled, NEW r \in Req, Begin(r)
  PROVE  DeletionInv'
<1> SUFFICES ASSUME ~torn', ~loose' PROVE \A s \in Req : Active(s)' => Parting(s)'
  BY DEF DeletionInv
<1>1. PICK o \in DOMAIN Entry, u \in Pair :
        pc' = [pc EXCEPT ![r] = Entry[o]] /\ req' = [req EXCEPT ![r] = [op |-> o, who |-> u]]
  BY DEF Begin, Goto
<1>2. PICK p : p = Entry[o]
  OBVIOUS
<1>3. o = "delete" => p = "session"
  BY <1>2 DEF Entry
<1>4. Quiet
  BY DEF Begin
<1>5. pc'[r] = p /\ op(r)' = o /\ \A s \in Req : s # r => pc'[s] = pc[s]
  BY <1>1, <1>2 DEF Settled, Typed, RequestTypes, op
<1>6. \A s \in Req : Active(s)' => s = r
  BY <1>4, <1>5 DEF Quiet, Active
<1>7. Parting(r)'
  BY <1>3, <1>5 DEF Parting
<1>8. QED
  BY <1>6, <1>7

\* Every step keeps the invariant of the deletions.
LEMMA DeletionNext ==
  ASSUME Settled, [Next]_vars
  PROVE  DeletionInv'
<1>1. CASE UNCHANGED vars \/ Expire
  <2>1. UNCHANGED <<session, pc, req, torn, loose>>
    BY <1>1 DEF vars, contactVars, sessionVars, reqVars, Expire, ExpireSession
  <2>2. \A r \in Req : (Active(r)' <=> Active(r)) /\ (Parting(r)' <=> Parting(r))
    BY <2>1 DEF Active, Parting, NoSessions, op, who
  <2>3. QED
    BY <2>1, <2>2 DEF Settled, DeletionInv
<1>2. ASSUME NEW r \in Req, Begin(r)
      PROVE  DeletionInv'
  BY <1>2, DeletionBegin
<1>3. ASSUME NEW r \in Req, ContactStep(r) \/ StatementFails(r)
      PROVE  DeletionInv'
  BY <1>3, DeletionContact
<1>4. ASSUME NEW r \in Req, DeleteSessions(r)
      PROVE  DeletionInv'
  BY <1>4, DeletionCalls
<1>5. ASSUME NEW r \in Req, SessionFails(r)
      PROVE  DeletionInv'
  BY <1>5 DEF SessionFails, DeletionInv
<1>6. ASSUME NEW r \in Req, Session(r)
      PROVE  DeletionInv'
  BY <1>6, DeletionSession
<1>7. QED
  BY <1>1, <1>2, <1>3, <1>4, <1>5, <1>6 DEF Next, ContactStep

\* DeleteContact, when nothing overlaps it and it does not stop halfway, leaves no
\* contact rows, applications and cached lists of either user, whatever was half done
\* when it began; and no sessions, if no two were ever made in one direction.
THEOREM DeletionsAreComplete == Spec => DeletionLeavesNothing
<1>1. ASSUME Settled, NEW r \in Req, op(r) = "delete", ~torn, Uncache(r), NEW u \in Pair
      PROVE  /\ Live(contact'[u]) = {} /\ Live(apply'[u]) = {} /\ cachedContacts'[u] = NoList
             /\ ~loose => Live(session'[u]) = {}
  <2>1. /\ pc[r] = "uncache" /\ Active(r) /\ UNCHANGED <<contact, apply, session>>
        /\ cachedContacts'[u] = NoList
    BY <1>1 DEF Uncache, Uncached, Active, sessionVars
  <2>2. NoRows(u) /\ Live(apply[u]) = {}
    BY <1>1, <2>1 DEF Settled, ContactInv, Stage
  <2>3. ~loose => NoSessions(u)
    BY <1>1, <2>1 DEF Settled, DeletionInv, Parting
  <2>4. QED
    BY <2>1, <2>2, <2>3 DEF NoRows, NoSessions
<1>2. Settled =>
        [\A r \in Req : op(r) = "delete" /\ ~torn /\ Uncache(r) => \A u \in Pair :
           /\ Live(contact'[u]) = {} /\ Live(apply'[u]) = {} /\ cachedContacts'[u] = NoList
           /\ ~loose => Live(session'[u]) = {}]_vars
  BY <1>1
<1>3. Settled /\ [Next]_vars => Settled'
  BY TypedNext, SessionNext, ContactNext, DeletionNext DEF Settled
<1>4. Init => Settled
  <2>1. Init => DeletionInv
    BY DEF Init, InitSessions, DeletionInv, Active
  <2>2. QED
    BY <2>1, TypedInit, SessionInit, ContactInit DEF Settled
<1>5. QED
  BY <1>2, <1>3, <1>4, PTL DEF Spec, DeletionLeavesNothing

===============================================================================
