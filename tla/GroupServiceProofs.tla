--------------------------- MODULE GroupServiceProofs ---------------------------
(*****************************************************************************)
(* Theorems about GroupService.tla, for any users, members and number of      *)
(* requests, whichever statements and calls fail.                             *)
(*****************************************************************************)
EXTENDS GroupService, TLAPS, SequenceTheorems, WellFoundedInduction

-------------------------------------------------------------------------------
(* Lists                                                                      *)

\* What holds of 0, and of every number up to n when of the one before it, holds of all
\* of them: there is no least exception.
LEMMA Induction ==
  ASSUME NEW T, NEW n \in Nat, 0 \in T, \A i \in 1..n : i - 1 \in T => i \in T
  PROVE  \A i \in 0..n : i \in T
<1> DEFINE Missing == {i \in 0..n : i \notin T}
<1> SUFFICES ASSUME Missing # {} PROVE FALSE
  OBVIOUS
<1>1. IsWellFoundedOn(OpToRel(<, Nat), Nat)
  BY NatLessThanWellFounded
<1>2. Missing \subseteq Nat
  OBVIOUS
<1> HIDE DEF Missing
<1>3. PICK i \in Missing : \A j \in Missing : ~(<<j, i>> \in OpToRel(<, Nat))
  BY <1>1, <1>2, WFMin
<1>4. \A j \in Missing : ~(j < i)
  BY <1>2, <1>3 DEF OpToRel
<1> USE DEF Missing
<1>5. i \in 1..n /\ i - 1 \in 0..n /\ i - 1 < i /\ i \notin T
  OBVIOUS
<1>6. i - 1 \notin T
  BY <1>5
<1>7. QED
  BY <1>4, <1>5, <1>6

\* What the loop of Select does, step by step.
Loop(kept, s, P, n) ==
    /\ kept[0] = <<>>
    /\ \A i \in 1..n : kept[i] = IF s[i] \in P THEN Append(kept[i - 1], s[i]) ELSE kept[i - 1]

\* Select returns what the loop has kept in the end, and lists stay lists.
LEMMA SelectIsLoop ==
  ASSUME NEW S, NEW s \in Seq(S), NEW P
  PROVE  \E kept \in [0..Len(s) -> Seq(S)] :
            Loop(kept, s, P, Len(s)) /\ Select(s, P) = kept[Len(s)]
<1> DEFINE Step(ks, i) == IF s[i] \in P THEN Append(ks, s[i]) ELSE ks
           Built == {n \in 0..Len(s) : \E f \in [0..n -> Seq(S)] : Loop(f, s, P, n)}
           Eq(f) == f = [n \in 0..Len(s) |-> IF n = 0 THEN <<>>
                           ELSE IF s[n] \in P THEN Append(f[n - 1], s[n]) ELSE f[n - 1]]
           kept == CHOOSE f : Eq(f)
           Typed == {n \in 0..Len(s) : kept[n] \in Seq(S)}
<1>1. Len(s) \in Nat /\ \A i \in 1..Len(s) : s[i] \in S
  BY LenProperties, ElementOfSeq
<1>2. \A ks \in Seq(S), i \in 1..Len(s) : Step(ks, i) \in Seq(S)
  BY <1>1, AppendProperties
<1>3. 0 \in Built
  <2> DEFINE f == [i \in 0..0 |-> <<>>]
  <2>1. f \in [0..0 -> Seq(S)] /\ Loop(f, s, P, 0)
    BY EmptySeq DEF Loop
  <2> HIDE DEF f
  <2>2. 0 \in 0..Len(s)
    BY <1>1
  <2>3. QED
    BY <2>1, <2>2
<1>4. ASSUME NEW n \in 1..Len(s), n - 1 \in Built
      PROVE  n \in Built
  <2>1. PICK f \in [0..(n - 1) -> Seq(S)] : Loop(f, s, P, n - 1)
    BY <1>4
  <2> DEFINE g == [i \in 0..n |-> IF i = n THEN Step(f[n - 1], n) ELSE f[i]]
  <2>2. n - 1 \in 0..(n - 1) /\ f[n - 1] \in Seq(S)
    BY <1>1
  <2>3. Step(f[n - 1], n) \in Seq(S)
    BY <1>2, <2>2
  <2> HIDE DEF Step
  <2>4. g \in [0..n -> Seq(S)]
    BY <1>1, <2>3
  <2>5. g[0] = <<>>
    BY <1>1, <2>1 DEF Loop
  <2>6. ASSUME NEW i \in 1..n
        PROVE  g[i] = Step(g[i - 1], i)
    <3>1. CASE i = n
      BY <1>1, <3>1
    <3>2. CASE i # n
      <4>1. i \in 1..(n - 1) /\ i - 1 \in 0..n /\ i - 1 # n
        BY <1>1, <3>2
      <4>2. f[i] = Step(f[i - 1], i)
        BY <2>1, <4>1 DEF Loop, Step
      <4>3. QED
        BY <3>2, <4>1, <4>2
    <3>3. QED
      BY <3>1, <3>2
  <2>7. Loop(g, s, P, n)
    BY <2>5, <2>6 DEF Loop, Step
  <2> HIDE DEF g
  <2>8. QED
    BY <2>4, <2>7
<1>5. Len(s) \in Built
  <2> HIDE DEF Built
  <2>1. \A i \in 0..Len(s) : i \in Built
    BY <1>1, <1>3, <1>4, Induction
  <2>2. QED
    BY <1>1, <2>1
<1>6. \E f : Eq(f)
  <2>1. PICK f \in [0..Len(s) -> Seq(S)] : Loop(f, s, P, Len(s))
    BY <1>5
  <2>2. ASSUME NEW n \in 0..Len(s)
        PROVE  f[n] = IF n = 0 THEN <<>>
                      ELSE IF s[n] \in P THEN Append(f[n - 1], s[n]) ELSE f[n - 1]
    <3>1. CASE n = 0
      BY <2>1, <3>1 DEF Loop
    <3>2. CASE n # 0
      <4>1. n \in 1..Len(s)
        BY <1>1, <3>2
      <4>2. QED
        BY <2>1, <3>2, <4>1 DEF Loop
    <3>3. QED
      BY <3>1, <3>2
  <2>3. Eq(f)
    BY <2>1, <2>2
  <2>4. QED
    BY <2>3
<1>7. Eq(kept)
  <2> HIDE DEF Eq
  <2>1. QED
    BY <1>6
<1>8. Select(s, P) = kept[Len(s)]
  BY DEF Select
<1> HIDE DEF kept
<1>9. Loop(kept, s, P, Len(s))
  <2>1. kept[0] = <<>>
    BY <1>1, <1>7
  <2>2. ASSUME NEW i \in 1..Len(s)
        PROVE  kept[i] = IF s[i] \in P THEN Append(kept[i - 1], s[i]) ELSE kept[i - 1]
    <3>1. i \in 0..Len(s) /\ i # 0
      BY <1>1
    <3>2. QED
      BY <1>7, <3>1
  <2>3. QED
    BY <2>1, <2>2 DEF Loop
<1>10. \A n \in 0..Len(s) : n \in Typed
  <2>1. 0 \in Typed
    <3>1. kept[0] = <<>> /\ 0 \in 0..Len(s)
      BY <1>1, <1>9 DEF Loop
    <3>2. QED
      BY <3>1, EmptySeq
  <2>2. ASSUME NEW n \in 1..Len(s), n - 1 \in Typed
        PROVE  n \in Typed
    <3>1. kept[n] = Step(kept[n - 1], n) /\ kept[n - 1] \in Seq(S)
      BY <1>9, <2>2 DEF Loop
    <3>2. Step(kept[n - 1], n) \in Seq(S)
      <4> HIDE DEF Step
      <4>1. QED
        BY <1>2, <3>1
    <3>3. n \in 0..Len(s)
      BY <1>1
    <3> HIDE DEF Step
    <3>4. QED
      BY <3>1, <3>2, <3>3
  <2> HIDE DEF Typed
  <2>3. QED
    BY <1>1, <2>1, <2>2, Induction
<1>11. kept \in [0..Len(s) -> Seq(S)]
  <2>1. kept = [n \in 0..Len(s) |-> kept[n]]
    BY <1>7
  <2>2. QED
    BY <1>10, <2>1
<1>12. QED
  BY <1>8, <1>9, <1>11

\* A list with one more user has that user and those it had.
LEMMA AddFacts ==
  ASSUME NEW ms \in Seq(User), NEW v \in User
  PROVE  /\ Append(ms, v) \in Seq(User) /\ ms \o <<v>> = Append(ms, v)
         /\ Len(Append(ms, v)) = Len(ms) + 1
         /\ \A u \in User : InList(u, Append(ms, v)) <=> InList(u, ms) \/ u = v
<1>1. /\ Append(ms, v) \in Seq(User) /\ Len(Append(ms, v)) = Len(ms) + 1
      /\ \A i \in 1..Len(ms) : Append(ms, v)[i] = ms[i]
      /\ Append(ms, v)[Len(ms) + 1] = v
  BY AppendProperties
<1>2. /\ DOMAIN ms = 1..Len(ms) /\ Len(ms) \in Nat
      /\ DOMAIN Append(ms, v) = 1..(Len(ms) + 1)
  BY <1>1, LenProperties
<1>3. ms \o <<v>> = Append(ms, v)
  BY AppendIsConcat
<1>4. ASSUME NEW u \in User
      PROVE  InList(u, Append(ms, v)) <=> InList(u, ms) \/ u = v
  <2>1. CASE u = v
    BY <1>1, <1>2, <2>1 DEF InList
  <2>2. CASE u # v
    BY <1>1, <1>2, <2>2 DEF InList
  <2>3. QED
    BY <2>1, <2>2
<1>5. QED
  BY <1>1, <1>3, <1>4

\* Filtering a member list yields a list of the users that remain, and of all of them.
LEMMA WithoutFacts ==
  ASSUME NEW ms \in Seq(User), NEW us \in SUBSET User
  PROVE  /\ Without(ms, us) \in Seq(User)
         /\ \A u \in User : InList(u, Without(ms, us)) <=> InList(u, ms) /\ u \notin us
<1>1. PICK kept \in [0..Len(ms) -> Seq(User)] :
         Loop(kept, ms, User \ us, Len(ms)) /\ Select(ms, User \ us) = kept[Len(ms)]
  BY SelectIsLoop
<1>2. Len(ms) \in Nat /\ DOMAIN ms = 1..Len(ms) /\ \A i \in 1..Len(ms) : ms[i] \in User
  BY LenProperties, ElementOfSeq
<1>3. ASSUME NEW u \in User
      PROVE  InList(u, kept[Len(ms)]) <=> InList(u, ms) /\ u \notin us
  <2> DEFINE Right == {n \in 0..Len(ms) :
                         InList(u, kept[n]) <=> u \notin us /\ \E i \in 1..n : ms[i] = u}
  <2>1. 0 \in Right
    <3>1. kept[0] = <<>> /\ 0 \in 0..Len(ms)
      BY <1>1, <1>2 DEF Loop
    <3>2. ~InList(u, kept[0])
      BY <3>1 DEF InList
    <3>3. QED
      BY <3>1, <3>2
  <2>2. ASSUME NEW n \in 1..Len(ms), n - 1 \in Right
        PROVE  n \in Right
    <3>1. /\ n \in 0..Len(ms) /\ n - 1 \in 0..Len(ms) /\ kept[n - 1] \in Seq(User)
          /\ ms[n] \in User
          /\ InList(u, kept[n - 1]) <=> u \notin us /\ \E i \in 1..(n - 1) : ms[i] = u
      BY <1>2, <2>2
    <3>2. (\E i \in 1..n : ms[i] = u) <=> (\E i \in 1..(n - 1) : ms[i] = u) \/ ms[n] = u
      BY <1>2
    <3>3. CASE ms[n] \in us
      <4>1. kept[n] = kept[n - 1]
        BY <1>1, <3>3 DEF Loop
      <4>2. QED
        BY <3>1, <3>2, <3>3, <4>1
    <3>4. CASE ms[n] \notin us
      <4>1. kept[n] = Append(kept[n - 1], ms[n])
        BY <1>1, <3>1, <3>4 DEF Loop
      <4>2. InList(u, kept[n]) <=> InList(u, kept[n - 1]) \/ ms[n] = u
        BY <3>1, <4>1, AddFacts
      <4>3. QED
        BY <3>1, <3>2, <3>4, <4>2
    <3>5. QED
      BY <3>3, <3>4
  <2>3. \A n \in 0..Len(ms) : n \in Right
    <3> HIDE DEF Right
    <3>1. QED
      BY <1>2, <2>1, <2>2, Induction
  <2>4. Len(ms) \in Right
    BY <1>2, <2>3
  <2>5. QED
    BY <1>2, <2>4 DEF InList
<1>4. kept[Len(ms)] \in Seq(User)
  BY <1>2
<1>5. QED
  BY <1>1, <1>3, <1>4 DEF Without

-------------------------------------------------------------------------------
(* Programs                                                                   *)

\* Where a request of an operation may stand.
Points(op) == {Program[op][i] : i \in DOMAIN Program[op]}
AllPoints == {"read", "save", "contact", "session", "apply", "commit", "uncache", "agree",
              "find", "create", "write", "open", "get", "fetch", "put"}
InTransaction == {"save", "contact", "apply", "session", "commit"}

\* The statements of each operation, and what follows them.
LEMMA EnterProgram ==
  /\ Points("enter") = {"read", "save", "contact", "commit", "uncache"}
  /\ Follow("enter", "read") = "save" /\ Follow("enter", "save") = "contact"
  /\ Follow("enter", "contact") = "commit" /\ Follow("enter", "commit") = "uncache"
  /\ Follow("enter", "uncache") = "done"
<1>1. Program["enter"] = <<"read", "save", "contact", "commit", "uncache">>
  BY DEF Program
<1>2. QED
  BY <1>1 DEF Points, Follow

\* UpdateGroupInfo reads, saves, commits and deletes the keys.
LEMMA UpdateProgram ==
  /\ Points("update") = {"read", "save", "commit", "uncache"}
  /\ Follow("update", "read") = "save" /\ Follow("update", "save") = "commit"
  /\ Follow("update", "commit") = "uncache" /\ Follow("update", "uncache") = "done"
<1>1. Program["update"] = <<"read", "save", "commit", "uncache">>
  BY DEF Program
<1>2. QED
  BY <1>1 DEF Points, Follow

\* LeaveGroup deletes the session before the contact and the application.
LEMMA LeaveProgram ==
  /\ Points("leave") = {"read", "save", "session", "contact", "apply", "commit", "uncache"}
  /\ Follow("leave", "read") = "save" /\ Follow("leave", "save") = "session"
  /\ Follow("leave", "session") = "contact" /\ Follow("leave", "contact") = "apply"
  /\ Follow("leave", "apply") = "commit" /\ Follow("leave", "commit") = "uncache"
  /\ Follow("leave", "uncache") = "done"
<1>1. Program["leave"] = <<"read", "save", "session", "contact", "apply", "commit", "uncache">>
  BY DEF Program
<1>2. QED
  BY <1>1 DEF Points, Follow

\* RemoveGroupMembers saves the group's row last.
LEMMA RemoveProgram ==
  /\ Points("remove") = {"read", "session", "contact", "apply", "save", "commit", "uncache"}
  /\ Follow("remove", "read") = "session" /\ Follow("remove", "session") = "contact"
  /\ Follow("remove", "contact") = "apply" /\ Follow("remove", "apply") = "save"
  /\ Follow("remove", "save") = "commit" /\ Follow("remove", "commit") = "uncache"
  /\ Follow("remove", "uncache") = "done"
<1>1. Program["remove"] = <<"read", "session", "contact", "apply", "save", "commit", "uncache">>
  BY DEF Program
<1>2. QED
  BY <1>1 DEF Points, Follow

\* DismissGroup writes the contacts before it deletes the sessions.
LEMMA DismissProgram ==
  /\ Points("dismiss") = {"read", "save", "contact", "session", "apply", "commit", "uncache"}
  /\ Follow("dismiss", "read") = "save" /\ Follow("dismiss", "save") = "contact"
  /\ Follow("dismiss", "contact") = "session" /\ Follow("dismiss", "session") = "apply"
  /\ Follow("dismiss", "apply") = "commit" /\ Follow("dismiss", "commit") = "uncache"
  /\ Follow("dismiss", "uncache") = "done"
<1>1. Program["dismiss"] = <<"read", "save", "contact", "session", "apply", "commit", "uncache">>
  BY DEF Program
<1>2. QED
  BY <1>1 DEF Points, Follow

\* ApplyContact for a group.
LEMMA ApplyProgram ==
  /\ Points("apply") = {"read", "agree"}
  /\ Follow("apply", "read") = "agree" /\ Follow("apply", "agree") = "done"
<1>1. Program["apply"] = <<"read", "agree">>
  BY DEF Program
<1>2. QED
  BY <1>1 DEF Points, Follow

\* PassContactApply for a group, without a transaction.
LEMMA PassProgram ==
  /\ Points("pass") = {"find", "read", "agree", "create", "write"}
  /\ Follow("pass", "find") = "read" /\ Follow("pass", "read") = "agree"
  /\ Follow("pass", "agree") = "create" /\ Follow("pass", "create") = "write"
  /\ Follow("pass", "write") = "done"
<1>1. Program["pass"] = <<"find", "read", "agree", "create", "write">>
  BY DEF Program
<1>2. QED
  BY <1>1 DEF Points, Follow

\* OpenSession.
LEMMA OpenProgram == Points("open") = {"open"} /\ Follow("open", "open") = "done"
<1>1. Program["open"] = <<"open">>
  BY DEF Program
<1>2. QED
  BY <1>1 DEF Points, Follow

\* GetGroupMemberList, a cache-aside read.
LEMMA ListProgram ==
  /\ Points("list") = {"get", "fetch", "put"}
  /\ Follow("list", "get") = "fetch" /\ Follow("list", "fetch") = "put"
  /\ Follow("list", "put") = "done"
<1>1. Program["list"] = <<"get", "fetch", "put">>
  BY DEF Program
<1>2. QED
  BY <1>1 DEF Points, Follow

\* A statement is followed by another of its operation or by the end; within a
\* transaction by one of the transaction, until the commit.
LEMMA FollowFacts ==
  ASSUME NEW op \in DOMAIN Program, NEW s \in Points(op)
  PROVE  /\ Follow(op, s) \in Points(op) \cup {"done"}
         /\ s \in {"save", "contact", "apply", "session"} => Follow(op, s) \in InTransaction
         /\ s \in AllPoints
<1>1. op \in {"enter", "update", "leave", "remove", "dismiss", "apply", "pass", "open", "list"}
  BY DEF Program
<1> DEFINE Good(o) == \A x \in Points(o) :
                        /\ Follow(o, x) \in Points(o) \cup {"done"}
                        /\ x \in {"save", "contact", "apply", "session"} => Follow(o, x) \in InTransaction
                        /\ x \in AllPoints
<1>2. Good("enter")
  BY EnterProgram DEF InTransaction, AllPoints
<1>3. Good("update")
  BY UpdateProgram DEF InTransaction, AllPoints
<1>4. Good("leave")
  BY LeaveProgram DEF InTransaction, AllPoints
<1>5. Good("remove")
  BY RemoveProgram DEF InTransaction, AllPoints
<1>6. Good("dismiss")
  BY DismissProgram DEF InTransaction, AllPoints
<1>7. Good("apply")
  BY ApplyProgram DEF InTransaction, AllPoints
<1>8. Good("pass")
  BY PassProgram DEF InTransaction, AllPoints
<1>9. Good("open")
  BY OpenProgram DEF InTransaction, AllPoints
<1>10. Good("list")
  BY ListProgram DEF InTransaction, AllPoints
<1>11. QED
  BY <1>1, <1>2, <1>3, <1>4, <1>5, <1>6, <1>7, <1>8, <1>9, <1>10

\* A request begins with its first statement.
LEMMA HeadFacts == \A op \in DOMAIN Program : Head(Program[op]) \in Points(op)
BY DEF Program, Points

-------------------------------------------------------------------------------
(* Types                                                                      *)

RowType == [members : Seq(User), cnt : Nat, alive : BOOLEAN]
Lock == {"group", "contact", "apply"} \X User

\* A request that is not over stands at a statement of its own operation, and is
\* about one user, or about some if it is to remove them.
OfItsOperation(r) ==
    /\ req[r].op \in Ops /\ pc[r] \in Points(req[r].op)
    /\ IF req[r].op = "remove" THEN req[r].who # {} ELSE \E u \in User : req[r].who = {u}
Typed ==
    /\ row \in RowType /\ mine \in [Req -> RowType]
    /\ contact \in [User -> Nat] /\ apply \in [User -> BOOLEAN] /\ sess \in [User -> BOOLEAN]
    /\ guests \subseteq User /\ cached \in Seq(User) /\ client \in BOOLEAN
    /\ pc \in [Req -> AllPoints \cup Over]
    /\ req \in [Req -> [op : Ops \cup {"none"}, who : SUBSET User]]
    /\ creates \in [Req -> BOOLEAN] /\ todo \in [Req -> SUBSET User]
    /\ held \in [Req -> SUBSET Lock] /\ ret \in [Req -> Results]
    /\ torn \in BOOLEAN /\ passed \in BOOLEAN
    /\ \A r \in Req : pc[r] \notin Over => OfItsOperation(r)

\* Locks are held within a transaction, each by one request; an answer is an end.
LocksOK ==
    \A r \in Req : /\ held[r] # {} => pc[r] \in InTransaction \cup {"leaked"}
                   /\ \A q \in Req \ {r} : held[r] \cap held[q] = {}
EndsOK == \A r \in Req : pc[r] = "done" <=> ret[r] # "none" /\ pc[r] # "leaked"
TypeInv == Typed /\ LocksOK /\ EndsOK

\* What is claimed of every state follows from what is inductive.
LEMMA TypeInvImpliesTypeOK == TypeInv => TypeOK
<1> SUFFICES ASSUME TypeInv PROVE TypeOK
  OBVIOUS
<1>1. \A x \in RowType : IsRow(x)
  BY DEF RowType, IsRow
<1>2. IsRow(row) /\ \A r \in Req : IsRow(mine[r])
  BY <1>1 DEF TypeInv, Typed
<1>3. QED
  BY <1>2 DEF TypeInv, Typed, LocksOK, EndsOK, TypeOK, InTransaction

\* What a request computes from the row it reads: the users it adds are in the new
\* list, those it removes are not, and the count follows the list.
LEMMA NewRowFacts ==
  ASSUME row \in RowType, NEW op \in DOMAIN Program, NEW who \in SUBSET User,
         op # "remove" => \E u \in User : who = {u}
  PROVE  /\ NewRow(op, who) \in RowType
         /\ NewRow(op, who).alive = row.alive
         /\ row.cnt = Len(row.members) => NewRow(op, who).cnt = Len(NewRow(op, who).members)
         /\ op \in {"enter", "pass"} =>
              \A u \in User : InList(u, NewRow(op, who).members) <=> InList(u, row.members) \/ u \in who
         /\ op \in {"leave", "remove"} =>
              \A u \in User : InList(u, NewRow(op, who).members) <=> InList(u, row.members) /\ u \notin who
         /\ op \notin {"enter", "pass", "leave", "remove"} => NewRow(op, who) = row
<1>1. row.members \in Seq(User) /\ row.cnt \in Nat /\ row.alive \in BOOLEAN
  BY DEF RowType
<1>2. CASE op \in {"enter", "pass"}
  <2>1. PICK v \in User : who = {v}
    BY <1>2
  <2>2. (CHOOSE u \in who : TRUE) = v
    BY <2>1
  <2> DEFINE ms == Append(row.members, v)
  <2>3. /\ row.members \o <<CHOOSE u \in who : TRUE>> = ms /\ ms \in Seq(User)
        /\ Len(ms) = Len(row.members) + 1 /\ Len(ms) \in Nat
        /\ \A u \in User : InList(u, ms) <=> InList(u, row.members) \/ u = v
    BY <1>1, <2>2, AddFacts, LenProperties
  <2> HIDE DEF ms
  <2>4. CASE op = "enter"
    <3>1. NewRow(op, who) = [row EXCEPT !.members = ms, !.cnt = row.cnt + 1]
      BY <2>3, <2>4 DEF NewRow
    <3> DEFINE c == row.cnt + 1
    <3>2. c \in Nat /\ NewRow(op, who) = [row EXCEPT !.members = ms, !.cnt = c]
      BY <1>1, <3>1
    <3> HIDE DEF c
    <3>3. /\ NewRow(op, who) \in RowType
          /\ NewRow(op, who).members = ms /\ NewRow(op, who).cnt = c
          /\ NewRow(op, who).alive = row.alive
      BY <1>1, <2>3, <3>2 DEF RowType
    <3>4. QED
      BY <2>1, <2>3, <2>4, <3>3 DEF c
  <2>5. CASE op = "pass"
    <3>1. NewRow(op, who) = [row EXCEPT !.members = ms, !.cnt = Len(ms)]
      BY <2>3, <2>5 DEF NewRow
    <3>2. QED
      BY <1>1, <2>1, <2>3, <2>5, <3>1 DEF RowType
  <2>6. QED
    BY <1>2, <2>4, <2>5
<1>3. CASE op \in {"leave", "remove"}
  <2> DEFINE ms == Without(row.members, who)
  <2>1. /\ ms \in Seq(User) /\ Len(ms) \in Nat
        /\ \A u \in User : InList(u, ms) <=> InList(u, row.members) /\ u \notin who
    BY <1>1, WithoutFacts, LenProperties
  <2>2. NewRow(op, who) = [row EXCEPT !.members = ms, !.cnt = Len(ms)]
    BY <1>3 DEF NewRow
  <2> HIDE DEF ms
  <2>3. QED
    BY <1>1, <1>3, <2>1, <2>2 DEF RowType
<1>4. CASE op \notin {"enter", "pass", "leave", "remove"}
  <2>1. NewRow(op, who) = row
    BY <1>4 DEF NewRow
  <2>2. QED
    BY <1>4, <2>1
<1>5. QED
  BY <1>2, <1>3, <1>4

\* At the start no request is under way and nobody holds a lock.
LEMMA TypeInit == Init => TypeInv
<1> SUFFICES ASSUME Init PROVE TypeInv
  OBVIOUS
<1>1. /\ <<Owner>> \o Joined \in Seq(User) /\ Len(Joined) \in Nat
      /\ Owner \in User
  <2>1. Joined \in Seq(User) /\ <<Owner>> \in Seq(User) /\ Owner \in User
    BY OwnerAssumption, SeqMonotonic
  <2>2. QED
    BY <2>1, ConcatProperties, LenProperties
<1>2. row \in RowType
  BY <1>1 DEF Init, RowType
<1>3. Typed
  BY <1>2, EmptySeq DEF Init, Typed, NoList, NoReq, Over, Results
<1>4. QED
  BY <1>3 DEF Init, TypeInv, LocksOK, EndsOK, Over


\* A request goes on to the next statement of its operation, or ends with success.
LEMMA AdvanceTypes ==
  ASSUME Typed, EndsOK, NEW r \in Req, pc[r] \notin Over, Advance(r), UNCHANGED req
  PROVE  /\ pc' \in [Req -> AllPoints \cup Over] /\ ret' \in [Req -> Results] /\ EndsOK'
         /\ \A q \in Req : pc'[q] \notin Over => OfItsOperation(q)'
         /\ \A q \in Req \ {r} : pc'[q] = pc[q]
         /\ pc'[r] = Follow(req[r].op, pc[r])
         /\ pc[r] \in {"save", "contact", "apply", "session"} => pc'[r] \in InTransaction
<1> DEFINE next == Follow(req[r].op, pc[r])
<1>1. /\ OfItsOperation(r) /\ req[r].op \in DOMAIN Program /\ pc[r] \in Points(req[r].op)
  BY OpsAssumption DEF Typed, OfItsOperation
<1>2. /\ next \in Points(req[r].op) \cup {"done"}
      /\ pc[r] \in {"save", "contact", "apply", "session"} => next \in InTransaction
      /\ next \in AllPoints \cup {"done"}
  BY <1>1, FollowFacts
<1>3. "idle" \notin AllPoints /\ "leaked" \notin AllPoints /\ "done" \notin AllPoints
  BY DEF AllPoints
<1> HIDE DEF next
<1>4. /\ pc' = [pc EXCEPT ![r] = next]
      /\ ret' = [ret EXCEPT ![r] = IF pc'[r] = "done" THEN "ok" ELSE @]
  BY DEF Advance, next
<1>5. /\ pc'[r] = next /\ \A q \in Req \ {r} : pc'[q] = pc[q] /\ ret'[q] = ret[q]
      /\ pc' \in [Req -> AllPoints \cup Over] /\ ret' \in [Req -> Results]
      /\ ret'[r] = IF next = "done" THEN "ok" ELSE ret[r]
  BY <1>2, <1>4 DEF Typed, Over, Results
<1>6. EndsOK'
  <2>1. ret[r] = "none"
    BY DEF EndsOK, Over
  <2>2. QED
    BY <1>2, <1>3, <1>5, <2>1 DEF EndsOK
<1>7. ASSUME NEW q \in Req, pc'[q] \notin Over
      PROVE  OfItsOperation(q)'
  <2>1. CASE q = r
    BY <1>1, <1>2, <1>5, <1>7, <2>1 DEF OfItsOperation, Over
  <2>2. CASE q # r
    <3>1. pc'[q] = pc[q] /\ OfItsOperation(q)
      BY <1>5, <1>7, <2>2 DEF Typed
    <3>2. QED
      BY <3>1 DEF OfItsOperation
  <2>3. QED
    BY <2>1, <2>2
<1>8. QED
  BY <1>2, <1>5, <1>6, <1>7 DEF next

\* The end of a request, with its locks given back.
LEMMA EndTypes ==
  ASSUME Typed, LocksOK, EndsOK, NEW r \in Req, NEW answer \in Results \ {"none"},
         End(r, answer), UNCHANGED req
  PROVE  /\ pc' \in [Req -> AllPoints \cup Over] /\ ret' \in [Req -> Results]
         /\ held' \in [Req -> SUBSET Lock] /\ LocksOK' /\ EndsOK'
         /\ \A q \in Req : pc'[q] \notin Over => OfItsOperation(q)'
         /\ pc'[r] = "done" /\ \A q \in Req \ {r} : pc'[q] = pc[q]
<1>1. /\ pc' = [pc EXCEPT ![r] = "done"] /\ ret' = [ret EXCEPT ![r] = answer]
      /\ held' = [held EXCEPT ![r] = {}]
  BY DEF End
<1>2. /\ pc' \in [Req -> AllPoints \cup Over] /\ ret' \in [Req -> Results]
      /\ held' \in [Req -> SUBSET Lock]
      /\ pc'[r] = "done" /\ ret'[r] = answer /\ held'[r] = {}
      /\ \A q \in Req \ {r} : pc'[q] = pc[q] /\ ret'[q] = ret[q] /\ held'[q] = held[q]
  BY <1>1 DEF Typed, Over
<1>3. LocksOK'
  BY <1>2 DEF LocksOK
<1>4. EndsOK'
  BY <1>2 DEF EndsOK
<1>5. ASSUME NEW q \in Req, pc'[q] \notin Over
      PROVE  OfItsOperation(q)'
  <2>1. q # r /\ pc'[q] = pc[q] /\ OfItsOperation(q)
    BY <1>2, <1>5 DEF Typed, Over
  <2>2. QED
    BY <2>1 DEF OfItsOperation
<1>6. QED
  BY <1>2, <1>3, <1>4, <1>5

\* What a request holds it keeps until its commit.
LEMMA LocksKept ==
  ASSUME Typed, LocksOK, EndsOK, NEW r \in Req, pc[r] \notin Over \cup {"commit"}, Advance(r),
         UNCHANGED <<req, held>>
  PROVE  LocksOK' /\ held' \in [Req -> SUBSET Lock]
<1>1. /\ \A q \in Req \ {r} : pc'[q] = pc[q]
      /\ pc[r] \in {"save", "contact", "apply", "session"} => pc'[r] \in InTransaction
  BY AdvanceTypes
<1>2. held[r] # {} => pc[r] \in {"save", "contact", "apply", "session"}
  BY DEF LocksOK, InTransaction, Over
<1>3. QED
  BY <1>1, <1>2 DEF LocksOK, Typed


\* The locks of a request that commits are free.
LEMMA LocksGiven ==
  ASSUME Typed, LocksOK, NEW r \in Req, held' = [held EXCEPT ![r] = {}],
         \A q \in Req \ {r} : pc'[q] = pc[q]
  PROVE  LocksOK' /\ held' \in [Req -> SUBSET Lock]
BY DEF LocksOK, Typed

\* A new request stands at the first statement of its own operation.
LEMMA TypeBegin ==
  ASSUME TypeInv, NEW r \in Req, Begin(r)
  PROVE  TypeInv'
<1> USE DEF TypeInv
<1>1. PICK op \in Ops, who \in SUBSET User :
        /\ IF op = "remove" THEN who # {} ELSE \E u \in User : who = {u}
        /\ req' = [req EXCEPT ![r] = [op |-> op, who |-> who]]
        /\ pc' = [pc EXCEPT ![r] = Head(Program[op])]
  BY DEF Begin
<1>2. Head(Program[op]) \in Points(op) /\ Head(Program[op]) \in AllPoints
  BY OpsAssumption, HeadFacts, FollowFacts
<1>3. "idle" \notin AllPoints /\ "leaked" \notin AllPoints /\ "done" \notin AllPoints
  BY DEF AllPoints
<1> DEFINE first == Head(Program[op])
<1> HIDE DEF first
<1>4. /\ pc[r] = "idle" /\ pc' = [pc EXCEPT ![r] = first]
      /\ first \in Points(op) /\ first \in AllPoints
      /\ UNCHANGED <<row, contact, apply, sess, guests, cached, client, mine, creates, todo, held, ret, passed>>
      /\ torn' = (torn \/ ~Quiet)
  BY <1>1, <1>2 DEF Begin, dbVars, first
<1>5. /\ req' \in [Req -> [op : Ops \cup {"none"}, who : SUBSET User]]
      /\ req'[r].op = op /\ req'[r].who = who /\ \A q \in Req \ {r} : req'[q] = req[q]
  BY <1>1 DEF Typed
<1>6. /\ pc' \in [Req -> AllPoints \cup Over]
      /\ pc'[r] = first /\ \A q \in Req \ {r} : pc'[q] = pc[q]
  BY <1>4 DEF Typed
<1>7. ASSUME NEW q \in Req, pc'[q] \notin Over
      PROVE  OfItsOperation(q)'
  <2>1. CASE q = r
    BY <1>1, <1>4, <1>5, <1>6, <2>1 DEF OfItsOperation
  <2>2. CASE q # r
    BY <1>5, <1>6, <1>7, <2>2 DEF Typed, OfItsOperation
  <2>3. QED
    BY <2>1, <2>2
<1>8. Typed'
  <2>1. torn' \in BOOLEAN
    BY <1>4 DEF Typed, Quiet
  <2>2. QED
    BY <1>4, <1>5, <1>6, <1>7, <2>1 DEF Typed
<1>9. LocksOK'
  BY <1>4, <1>6 DEF LocksOK, InTransaction
<1>10. EndsOK'
  BY <1>3, <1>4, <1>6 DEF EndsOK
<1>11. QED
  BY <1>8, <1>9, <1>10

\* The row a request computes has users for members, and a list of them.
LEMMA TypeReadGroup ==
  ASSUME TypeInv, NEW r \in Req, ReadGroup(r)
  PROVE  TypeInv'
<1> USE DEF TypeInv
<1>1. /\ pc[r] = "read" /\ pc[r] \notin Over \cup {"commit"}
      /\ UNCHANGED <<row, contact, apply, sess, guests, cached, client, req, torn, passed>>
  BY DEF ReadGroup, Over, dbVars
<1>2. /\ pc' \in [Req -> AllPoints \cup Over] /\ ret' \in [Req -> Results]
      /\ held' \in [Req -> SUBSET Lock] /\ LocksOK' /\ EndsOK'
      /\ \A q \in Req : pc'[q] \notin Over => OfItsOperation(q)'
  <2>1. CASE Advance(r) /\ UNCHANGED held
    BY <1>1, <2>1, AdvanceTypes, LocksKept
  <2>2. CASE End(r, "refused")
    BY <1>1, <2>2, EndTypes DEF Results
  <2>3. CASE End(r, "ok")
    BY <1>1, <2>3, EndTypes DEF Results
  <2>4. QED
    BY <2>1, <2>2, <2>3 DEF ReadGroup
<1>3. NewRow(req[r].op, req[r].who) \in RowType
  <2>1. /\ req[r].op \in DOMAIN Program /\ req[r].who \in SUBSET User
        /\ req[r].op # "remove" => \E u \in User : req[r].who = {u}
    BY <1>1, OpsAssumption DEF Typed, OfItsOperation
  <2>2. row \in RowType
    BY DEF Typed
  <2>3. QED
    BY <2>1, <2>2, NewRowFacts
<1>4. mine' \in [Req -> RowType]
  <2>1. mine' = [mine EXCEPT ![r] = IF pc'[r] = "done" THEN @ ELSE NewRow(req[r].op, req[r].who)]
    BY DEF ReadGroup
  <2>2. QED
    BY <1>3, <2>1 DEF Typed
<1>5. creates' \in [Req -> BOOLEAN]
  <2>1. creates' = [creates EXCEPT ![r] = req[r].op = "enter" /\ \A u \in req[r].who : contact[u] = 0]
    BY DEF ReadGroup
  <2>2. QED
    BY <2>1 DEF Typed
<1>6. todo' \in [Req -> SUBSET User]
  <2>1. todo' = [todo EXCEPT ![r] =
                   CASE pc'[r] = "done" -> {}
                     [] req[r].op = "dismiss" -> {u \in User : InList(u, row.members)}
                     [] req[r].op \in {"leave", "remove"} -> req[r].who
                     [] OTHER -> {}]
    BY DEF ReadGroup
  <2> DEFINE new == CASE pc'[r] = "done" -> {}
                     [] req[r].op = "dismiss" -> {u \in User : InList(u, row.members)}
                     [] req[r].op \in {"leave", "remove"} -> req[r].who
                     [] OTHER -> {}
  <2>2. new \in SUBSET User
    BY DEF Typed
  <2>3. todo' = [todo EXCEPT ![r] = new]
    BY <2>1
  <2> HIDE DEF new
  <2>4. QED
    BY <2>2, <2>3 DEF Typed
<1>7. QED
  BY <1>1, <1>2, <1>4, <1>5, <1>6 DEF Typed

\* A write takes locks that nobody else holds.
LEMMA TypeWrite ==
  ASSUME TypeInv, NEW r \in Req, Write(r)
  PROVE  TypeInv'
<1> USE DEF TypeInv
<1>1. /\ pc[r] \in {"save", "contact", "apply"} /\ pc[r] \notin Over
      /\ Free(r) /\ Advance(r)
      /\ held' = [held EXCEPT ![r] = held[r] \cup RowsOf(r)]
      /\ UNCHANGED <<row, contact, apply, sess, guests, cached, client, req, mine, creates, todo, torn, passed>>
  BY DEF Write, Over, dbVars
<1>2. /\ pc' \in [Req -> AllPoints \cup Over] /\ ret' \in [Req -> Results] /\ EndsOK'
      /\ \A q \in Req : pc'[q] \notin Over => OfItsOperation(q)'
      /\ \A q \in Req \ {r} : pc'[q] = pc[q]
      /\ pc'[r] \in InTransaction
  BY <1>1, AdvanceTypes
<1>3. RowsOf(r) \in SUBSET Lock
  <2>1. Affected(r) \in SUBSET User /\ req[r].who \in SUBSET User /\ GroupRow \in Lock
    BY OwnerAssumption DEF Typed, Affected, GroupRow, Lock
  <2>2. QED
    BY <1>1, <2>1 DEF RowsOf, Lock
<1>4. held' \in [Req -> SUBSET Lock]
  BY <1>1, <1>3 DEF Typed
<1>5. /\ held'[r] = held[r] \cup RowsOf(r)
      /\ \A q \in Req \ {r} : held'[q] = held[q] /\ held[q] \cap RowsOf(r) = {}
  BY <1>1 DEF Typed, Free
<1>6. LocksOK'
  <2> SUFFICES ASSUME NEW p \in Req
               PROVE  /\ held'[p] # {} => pc'[p] \in InTransaction \cup {"leaked"}
                      /\ \A q \in Req \ {p} : held'[p] \cap held'[q] = {}
    BY DEF LocksOK
  <2>1. CASE p = r
    BY <1>2, <1>5, <2>1 DEF LocksOK
  <2>2. CASE p # r
    BY <1>2, <1>5, <2>2 DEF LocksOK
  <2>3. QED
    BY <2>1, <2>2
<1>7. QED
  BY <1>1, <1>2, <1>4, <1>6 DEF Typed


\* A failed statement ends the request, which gives its locks back.
LEMMA TypeStatementFails ==
  ASSUME TypeInv, NEW r \in Req, StatementFails(r)
  PROVE  TypeInv'
<1> USE DEF TypeInv
<1>1. /\ End(r, "failed") /\ torn' = (torn \/ pc[r] \in {"create", "write"})
      /\ UNCHANGED <<row, contact, apply, sess, guests, cached, client, req, mine, creates, todo, passed>>
  BY DEF StatementFails, dbVars
<1>2. /\ pc' \in [Req -> AllPoints \cup Over] /\ ret' \in [Req -> Results]
      /\ held' \in [Req -> SUBSET Lock] /\ LocksOK' /\ EndsOK'
      /\ \A q \in Req : pc'[q] \notin Over => OfItsOperation(q)'
  BY <1>1, EndTypes DEF Results
<1>3. QED
  BY <1>1, <1>2 DEF Typed

\* Without a client the transaction may stay open, and keeps its locks.
LEMMA TypeNoClient ==
  ASSUME TypeInv, NEW r \in Req, NoClient(r)
  PROVE  TypeInv'
<1> USE DEF TypeInv
<1>1. /\ pc[r] = "session"
      /\ UNCHANGED <<row, contact, apply, sess, guests, cached, client, req, mine, creates, todo, torn, passed>>
  BY DEF NoClient, dbVars
<1>2. CASE End(r, "failed")
  <2>1. /\ pc' \in [Req -> AllPoints \cup Over] /\ ret' \in [Req -> Results]
        /\ held' \in [Req -> SUBSET Lock] /\ LocksOK' /\ EndsOK'
        /\ \A q \in Req : pc'[q] \notin Over => OfItsOperation(q)'
    BY <1>1, <1>2, EndTypes DEF Results
  <2>2. QED
    BY <1>1, <2>1 DEF Typed
<1>3. CASE /\ pc' = [pc EXCEPT ![r] = "leaked"] /\ ret' = [ret EXCEPT ![r] = "failed"]
           /\ UNCHANGED held
  <2>1. /\ pc'[r] = "leaked" /\ ret'[r] = "failed"
        /\ \A q \in Req \ {r} : pc'[q] = pc[q] /\ ret'[q] = ret[q]
        /\ pc' \in [Req -> AllPoints \cup Over] /\ ret' \in [Req -> Results]
    BY <1>3 DEF Typed, Over, Results
  <2>2. LocksOK' /\ EndsOK'
    BY <1>1, <1>3, <2>1 DEF LocksOK, EndsOK
  <2>3. ASSUME NEW q \in Req, pc'[q] \notin Over
        PROVE  OfItsOperation(q)'
    BY <1>1, <2>1, <2>3 DEF Typed, OfItsOperation, Over
  <2>4. QED
    BY <1>1, <1>3, <2>1, <2>2, <2>3 DEF Typed
<1>4. QED
  BY <1>2, <1>3 DEF NoClient

\* The session service's deletion is one more statement of the request.
LEMMA TypeDeleteSession ==
  ASSUME TypeInv, NEW r \in Req, DeleteSession(r)
  PROVE  TypeInv'
<1> USE DEF TypeInv
<1>1. /\ pc[r] = "session" /\ pc[r] \notin Over \cup {"commit"}
      /\ UNCHANGED <<row, contact, apply, cached, client, req, mine, creates, torn, passed>>
  BY DEF DeleteSession, Over
<1>2. CASE Advance(r) /\ UNCHANGED <<sess, guests, todo, held>>
  <2>1. /\ pc' \in [Req -> AllPoints \cup Over] /\ ret' \in [Req -> Results]
        /\ held' \in [Req -> SUBSET Lock] /\ LocksOK' /\ EndsOK'
        /\ \A q \in Req : pc'[q] \notin Over => OfItsOperation(q)'
    BY <1>1, <1>2, AdvanceTypes, LocksKept
  <2>2. QED
    BY <1>1, <1>2, <2>1 DEF Typed
<1>3. ASSUME NEW u \in todo[r],
             SessionGone(u),
             todo' = [todo EXCEPT ![r] = todo[r] \ {u}],
             End(r, "refused") \/ UNCHANGED <<pc, ret, held>>
      PROVE  TypeInv'
  <2>1. /\ sess' \in [User -> BOOLEAN] /\ todo' \in [Req -> SUBSET User]
        /\ guests' \subseteq User
    BY <1>3 DEF Typed, SessionGone
  <2>2. /\ pc' \in [Req -> AllPoints \cup Over] /\ ret' \in [Req -> Results]
        /\ held' \in [Req -> SUBSET Lock] /\ LocksOK' /\ EndsOK'
        /\ \A q \in Req : pc'[q] \notin Over => OfItsOperation(q)'
    <3>1. CASE End(r, "refused")
      BY <1>1, <3>1, EndTypes DEF Results
    <3>2. CASE UNCHANGED <<pc, ret, held>>
      BY <1>1, <3>2 DEF Typed, LocksOK, EndsOK, OfItsOperation
    <3>3. QED
      BY <1>3, <3>1, <3>2
  <2>3. QED
    BY <1>1, <2>1, <2>2 DEF Typed
<1>4. QED
  BY <1>2, <1>3 DEF DeleteSession

\* A failed call ends the request, with an error or with a panic.
LEMMA TypeSessionFails ==
  ASSUME TypeInv, NEW r \in Req, SessionFails(r)
  PROVE  TypeInv'
<1> USE DEF TypeInv
<1>1. /\ UNCHANGED <<row, contact, apply, cached, client, req, mine, creates, todo, torn, passed>>
      /\ End(r, "failed") \/ End(r, "panicked")
      /\ \E u \in todo[r] : SessionGone(u) \/ UNCHANGED <<sess, guests>>
  BY DEF SessionFails
<1>2. /\ pc' \in [Req -> AllPoints \cup Over] /\ ret' \in [Req -> Results]
      /\ held' \in [Req -> SUBSET Lock] /\ LocksOK' /\ EndsOK'
      /\ \A q \in Req : pc'[q] \notin Over => OfItsOperation(q)'
  BY <1>1, EndTypes DEF Results
<1>3. sess' \in [User -> BOOLEAN] /\ guests' \subseteq User
  BY <1>1 DEF Typed, SessionGone
<1>4. QED
  BY <1>1, <1>2, <1>3 DEF Typed

\* A commit gives the locks back.
LEMMA TypeCommit ==
  ASSUME TypeInv, NEW r \in Req, Commit(r)
  PROVE  TypeInv'
<1> USE DEF TypeInv
<1>1. /\ pc[r] = "commit" /\ pc[r] \notin Over /\ Advance(r)
      /\ held' = [held EXCEPT ![r] = {}]
      /\ row' = IF req[r].op = "dismiss" THEN [row EXCEPT !.alive = FALSE] ELSE mine[r]
      /\ contact' = ContactsAfter(r)
      /\ apply' = [u \in User |-> apply[u] /\ (req[r].op \in {"enter", "update"} \/ u \notin Affected(r))]
      /\ UNCHANGED <<sess, guests, cached, client, req, mine, creates, todo, torn, passed>>
  BY DEF Commit, Over
<1>2. /\ pc' \in [Req -> AllPoints \cup Over] /\ ret' \in [Req -> Results] /\ EndsOK'
      /\ \A q \in Req : pc'[q] \notin Over => OfItsOperation(q)'
      /\ LocksOK' /\ held' \in [Req -> SUBSET Lock]
  BY <1>1, AdvanceTypes, LocksGiven
<1>3. row' \in RowType
  BY <1>1 DEF Typed, RowType
<1>4. contact' \in [User -> Nat]
  BY <1>1 DEF Typed, ContactsAfter
<1>5. apply' \in [User -> BOOLEAN]
  BY <1>1 DEF Typed
<1>6. QED
  BY <1>1, <1>2, <1>3, <1>4, <1>5 DEF Typed

\* Deleting the key is the last statement.
LEMMA TypeUncache ==
  ASSUME TypeInv, NEW r \in Req, Uncache(r)
  PROVE  TypeInv'
<1> USE DEF TypeInv
<1>1. /\ pc[r] \notin Over \cup {"commit"} /\ Advance(r) /\ cached' = <<>>
      /\ UNCHANGED <<row, contact, apply, sess, guests, client, req, mine, creates, todo, held, torn, passed>>
  BY DEF Uncache, Over, NoList
<1>2. /\ pc' \in [Req -> AllPoints \cup Over] /\ ret' \in [Req -> Results]
      /\ held' \in [Req -> SUBSET Lock] /\ LocksOK' /\ EndsOK'
      /\ \A q \in Req : pc'[q] \notin Over => OfItsOperation(q)'
  BY <1>1, AdvanceTypes, LocksKept
<1>3. QED
  BY <1>1, <1>2, EmptySeq DEF Typed

\* PassContactApply and the end of ApplyContact.
LEMMA TypeApplications ==
  ASSUME TypeInv, NEW r \in Req, Find(r) \/ Agree(r) \/ CreateContact(r) \/ WriteGroup(r)
  PROVE  TypeInv'
<1> USE DEF TypeInv
<1>1. /\ pc[r] \notin Over \cup {"commit"}
      /\ UNCHANGED <<sess, guests, cached, client, req, mine, creates, todo>>
  BY DEF Find, Agree, CreateContact, WriteGroup, Over, dbVars
<1>2. /\ pc' \in [Req -> AllPoints \cup Over] /\ ret' \in [Req -> Results]
      /\ held' \in [Req -> SUBSET Lock] /\ LocksOK' /\ EndsOK'
      /\ \A q \in Req : pc'[q] \notin Over => OfItsOperation(q)'
  <2>1. CASE Advance(r) /\ UNCHANGED held
    BY <1>1, <2>1, AdvanceTypes, LocksKept
  <2>2. CASE End(r, "failed")
    BY <1>1, <2>2, EndTypes DEF Results
  <2>3. QED
    BY <2>1, <2>2 DEF Find, Agree, CreateContact, WriteGroup
<1>3. /\ row' \in RowType /\ contact' \in [User -> Nat] /\ apply' \in [User -> BOOLEAN]
      /\ torn' \in BOOLEAN /\ passed' \in BOOLEAN
  <2>1. CASE Find(r)
    BY <2>1 DEF Find, Typed, dbVars
  <2>2. CASE Agree(r)
    BY <2>2 DEF Agree, Typed
  <2>3. CASE CreateContact(r)
    <3>1. contact' = [u \in User |-> contact[u] + (IF u \in req[r].who THEN 1 ELSE 0)]
      BY <2>3 DEF CreateContact
    <3>2. contact' \in [User -> Nat]
      BY <3>1 DEF Typed
    <3>3. UNCHANGED <<row, apply, passed>> /\ torn' \in BOOLEAN
      BY <2>3 DEF CreateContact, Typed
    <3>4. QED
      BY <3>2, <3>3 DEF Typed
  <2>4. CASE WriteGroup(r)
    BY <2>4 DEF WriteGroup, Typed
  <2>5. QED
    BY <2>1, <2>2, <2>3, <2>4
<1>4. QED
  BY <1>1, <1>2, <1>3 DEF Typed

\* A session is opened, and the member list asked for.
LEMMA TypeAsk ==
  ASSUME TypeInv, NEW r \in Req, OpenSession(r) \/ GetMemberList(r)
  PROVE  TypeInv'
<1> USE DEF TypeInv
<1>1. /\ pc[r] \notin Over \cup {"commit"}
      /\ UNCHANGED <<row, contact, apply, client, req, creates, todo, torn, passed>>
  BY DEF OpenSession, GetMemberList, Over
<1>2. /\ pc' \in [Req -> AllPoints \cup Over] /\ ret' \in [Req -> Results]
      /\ held' \in [Req -> SUBSET Lock] /\ LocksOK' /\ EndsOK'
      /\ \A q \in Req : pc'[q] \notin Over => OfItsOperation(q)'
  <2>1. CASE Advance(r) /\ UNCHANGED held
    BY <1>1, <2>1, AdvanceTypes, LocksKept
  <2>2. CASE \E answer \in {"refused", "failed", "ok"} : End(r, answer)
    BY <1>1, <2>2, EndTypes DEF Results
  <2>3. QED
    BY <2>1, <2>2 DEF OpenSession, GetMemberList
<1>3. /\ sess' \in [User -> BOOLEAN] /\ guests' \subseteq User
      /\ mine' \in [Req -> RowType] /\ cached' \in Seq(User)
  <2>1. CASE OpenSession(r)
    <3>1. UNCHANGED <<cached, mine>>
      BY <2>1 DEF OpenSession
    <3>2. \/ UNCHANGED <<sess, guests>>
          \/ /\ sess' = [u \in User |-> sess[u] \/ u \in req[r].who]
             /\ guests' = guests \cup {u \in req[r].who : ~sess[u] /\ contact[u] = 0}
      BY <2>1 DEF OpenSession
    <3>3. req[r].who \subseteq User
      BY DEF Typed
    <3>4. sess' \in [User -> BOOLEAN] /\ guests' \subseteq User
      BY <3>2, <3>3 DEF Typed
    <3>5. QED
      BY <3>1, <3>4 DEF Typed
  <2>2. CASE GetMemberList(r)
    <3>1. UNCHANGED <<sess, guests>>
      BY <2>2 DEF GetMemberList
    <3>2. mine' = mine \/ mine' = [mine EXCEPT ![r] = row]
      BY <2>2 DEF GetMemberList
    <3>3. cached' = cached \/ cached' = mine[r].members
      BY <2>2 DEF GetMemberList
    <3>4. mine[r].members \in Seq(User)
      BY DEF Typed, RowType
    <3>5. QED
      BY <3>1, <3>2, <3>3, <3>4 DEF Typed
  <2>3. QED
    BY <2>1, <2>2
<1>4. QED
  BY <1>1, <1>2, <1>3 DEF Typed

\* Every step keeps the types, one lemma per action.
LEMMA TypeStep == TypeInv /\ [Next]_vars => TypeInv'
<1> SUFFICES ASSUME TypeInv, [Next]_vars PROVE TypeInv'
  OBVIOUS
<1>1. CASE UNCHANGED vars
  BY <1>1 DEF vars, dbVars, TypeInv, Typed, LocksOK, EndsOK, OfItsOperation
<1>2. CASE Expire
  BY <1>2, EmptySeq DEF Expire, NoList, TypeInv, Typed, LocksOK, EndsOK, OfItsOperation
<1>3. CASE ClientReady
  BY <1>3 DEF ClientReady, TypeInv, Typed, LocksOK, EndsOK, OfItsOperation
<1>4. ASSUME NEW r \in Req,
             \/ Begin(r) \/ ReadGroup(r) \/ Write(r) \/ StatementFails(r)
             \/ NoClient(r) \/ DeleteSession(r) \/ SessionFails(r)
             \/ Commit(r) \/ Uncache(r)
             \/ Find(r) \/ Agree(r) \/ CreateContact(r) \/ WriteGroup(r)
             \/ OpenSession(r) \/ GetMemberList(r)
      PROVE  TypeInv'
  BY <1>4, TypeBegin, TypeReadGroup, TypeWrite, TypeStatementFails, TypeNoClient,
     TypeDeleteSession, TypeSessionFails, TypeCommit, TypeUncache, TypeApplications, TypeAsk
<1>5. QED
  BY <1>1, <1>2, <1>3, <1>4 DEF Next

\* TypeInv is an invariant.
LEMMA TypesHold == Spec => []TypeInv
BY TypeInit, TypeStep, PTL DEF Spec

\* The group service's requests and MySQL's locks: a transaction holds locks only while
\* it is open or leaked, no row is locked by two, and a request has an answer when, and
\* only when, it has come to an end.
THEOREM TypeCorrect == Spec => []TypeOK
BY TypesHold, TypeInvImpliesTypeOK, PTL


-------------------------------------------------------------------------------
(* The row                                                                    *)

\* The row, and every row that a request has in hand, counts its members and has the
\* owner among them.
Right(x) == x.cnt = Len(x.members) /\ InList(Owner, x.members)
RowInv == Right(row) /\ \A r \in Req : Right(mine[r])

\* The first group lists its owner, and counts its members.
LEMMA RowInit == Init => RowInv
<1> SUFFICES ASSUME Init PROVE RowInv
  OBVIOUS
<1> DEFINE ms == <<Owner>> \o Joined
<1>1. /\ Joined \in Seq(User) /\ <<Owner>> \in Seq(User) /\ Owner \in User
      /\ Len(<<Owner>>) = 1 /\ <<Owner>>[1] = Owner
  BY OwnerAssumption, SeqMonotonic
<1>2. /\ ms \in Seq(User) /\ Len(ms) = 1 + Len(Joined) /\ Len(Joined) \in Nat
      /\ \A i \in 1..1 : ms[i] = <<Owner>>[i]
  BY <1>1, ConcatProperties, LenProperties
<1>3. ms[1] = Owner /\ 1 \in DOMAIN ms
  BY <1>1, <1>2, LenProperties
<1> HIDE DEF ms
<1>4. row.members = ms /\ row.cnt = 1 + Len(Joined) /\ \A r \in Req : mine[r] = row
  BY DEF Init, ms
<1>5. QED
  BY <1>2, <1>3, <1>4 DEF RowInv, Right, InList

\* What a request accepts and computes from a right row is right: nobody takes the
\* owner out.
LEMMA RightNewRow ==
  ASSUME TypeInv, Right(row), NEW r \in Req, pc[r] = "read", Accepts(req[r].op, req[r].who)
  PROVE  Right(NewRow(req[r].op, req[r].who))
<1>1. /\ req[r].op \in DOMAIN Program /\ req[r].who \in SUBSET User
      /\ req[r].op # "remove" => \E u \in User : req[r].who = {u}
      /\ row \in RowType /\ Owner \in User
  BY OpsAssumption, OwnerAssumption DEF TypeInv, Typed, OfItsOperation, Over
<1>2. req[r].op \in {"leave", "remove"} => Owner \notin req[r].who
  BY DEF Accepts
<1>3. QED
  BY <1>1, <1>2, NewRowFacts DEF Right

\* Every step keeps the rows right: the table's changes at a commit or a save, to the
\* row that the request had in hand.
LEMMA RowStep == TypeInv /\ RowInv /\ [Next]_vars => RowInv'
<1> SUFFICES ASSUME TypeInv, RowInv, [Next]_vars PROVE RowInv'
  OBVIOUS
<1>1. CASE UNCHANGED <<row, mine>>
  BY <1>1 DEF RowInv, Right, InList
<1>2. ASSUME NEW r \in Req, ReadGroup(r)
      PROVE  RowInv'
  <2>1. /\ pc[r] = "read" /\ UNCHANGED row
        /\ mine' = [mine EXCEPT ![r] = IF pc'[r] = "done" THEN @ ELSE NewRow(req[r].op, req[r].who)]
        /\ Accepts(req[r].op, req[r].who) \/ pc' = [pc EXCEPT ![r] = "done"]
    BY <1>2 DEF ReadGroup, End, dbVars
  <2>2. pc'[r] = "done" \/ Accepts(req[r].op, req[r].who)
    BY <2>1 DEF TypeInv, Typed
  <2>3. Right(mine'[r])
    BY <2>1, <2>2, RightNewRow DEF RowInv, TypeInv, Typed
  <2>4. \A q \in Req \ {r} : mine'[q] = mine[q]
    BY <2>1 DEF TypeInv, Typed
  <2>5. \A q \in Req : Right(mine'[q])
    BY <2>3, <2>4 DEF RowInv
  <2>6. QED
    BY <2>1, <2>5 DEF RowInv, Right, InList
<1>3. ASSUME NEW r \in Req, Commit(r)
      PROVE  RowInv'
  <2>1. /\ UNCHANGED mine
        /\ row' = IF req[r].op = "dismiss" THEN [row EXCEPT !.alive = FALSE] ELSE mine[r]
    BY <1>3 DEF Commit
  <2>2. Right(row)'
    BY <2>1 DEF RowInv, Right, InList, TypeInv, Typed, RowType
  <2>3. QED
    BY <2>1, <2>2 DEF RowInv, Right, InList
<1>4. ASSUME NEW r \in Req, WriteGroup(r)
      PROVE  RowInv'
  BY <1>4 DEF WriteGroup, RowInv, Right, InList
<1>5. ASSUME NEW r \in Req, GetMemberList(r)
      PROVE  RowInv'
  <2>1. UNCHANGED row /\ (mine' = mine \/ mine' = [mine EXCEPT ![r] = row])
    BY <1>5 DEF GetMemberList
  <2>2. \A q \in Req : mine'[q] = mine[q] \/ mine'[q] = row
    BY <2>1 DEF TypeInv, Typed
  <2>3. QED
    BY <2>1, <2>2 DEF RowInv, Right, InList
<1>6. ASSUME NEW r \in Req,
             \/ Begin(r) \/ Write(r) \/ StatementFails(r) \/ NoClient(r) \/ DeleteSession(r)
             \/ SessionFails(r) \/ Uncache(r) \/ Find(r) \/ Agree(r) \/ CreateContact(r)
             \/ OpenSession(r)
      PROVE  UNCHANGED <<row, mine>>
  BY <1>6 DEF Begin, Write, StatementFails, NoClient, DeleteSession, SessionFails, Uncache,
              Find, Agree, CreateContact, OpenSession, dbVars
<1>7. Expire \/ ClientReady \/ UNCHANGED vars => UNCHANGED <<row, mine>>
  BY DEF Expire, ClientReady, vars, dbVars
<1>8. QED
  BY <1>1, <1>2, <1>3, <1>4, <1>5, <1>6, <1>7 DEF Next

\* RowInv is an invariant.
LEMMA RowsHold == Spec => []RowInv
<1>1. Init /\ [][Next]_vars /\ []TypeInv => []RowInv
  BY RowInit, RowStep, PTL
<1>2. QED
  BY <1>1, TypesHold, PTL DEF Spec

\* group_info_service.go saves the list and the count it computed in one row: whoever
\* overwrites whom, the count that is shown is that of the list.
THEOREM CountsAreRight == Spec => []CountIsLen
<1>1. RowInv => CountIsLen
  BY DEF RowInv, Right, CountIsLen
<1>2. QED
  BY <1>1, RowsHold, PTL

\* LeaveGroup and RemoveGroupMembers refuse to take out the owner, and what anyone
\* saves was computed from a row with the owner in it: he is never lost.
THEOREM OwnersStay == Spec => []OwnerStays
<1>1. RowInv => OwnerStays
  BY DEF RowInv, Right, OwnerStays
<1>2. QED
  BY <1>1, RowsHold, PTL

-------------------------------------------------------------------------------
(* Requests that do not overlap                                               *)

Alone == \A q, r \in Req : pc[q] \notin Over /\ pc[r] \notin Over => q = r

\* Between the read of the row and its save a request has the new row in hand.
HasRow(r) ==
    \/ pc[r] \in InTransaction \cup {"create", "write"}
    \/ pc[r] = "agree" /\ req[r].op = "pass"

\* Operations that take users out, and where they stand once the sessions are deleted.
Deletes == {"leave", "remove", "dismiss"}
PastSessions(r) ==
    \/ pc[r] \in {"apply", "commit"}
    \/ pc[r] = "contact" /\ req[r].op \in {"leave", "remove"}
    \/ pc[r] = "save" /\ req[r].op = "remove"

\* What a request relies on where it stands: that what it read is still so, that whom
\* it lets in is not in, and that it has deleted the sessions it was to delete.
Grounded(r) ==
    /\ HasRow(r) => mine[r] = NewRow(req[r].op, req[r].who)
    /\ pc[r] \in InTransaction =>
         /\ row.alive
         /\ req[r].op = "enter" => creates[r] /\ \A u \in req[r].who : ~InList(u, row.members)
         /\ req[r].op \in Deletes => /\ \A u \in Affected(r) \ todo[r] : sess[u] => u \in guests
                                     /\ PastSessions(r) => todo[r] = {}
    /\ pc[r] = "write" => mine[r].alive /\ \A u \in User : InList(u, mine[r].members) <=> contact[u] > 0
    /\ pc[r] = "put" => mine[r] = row /\ row.alive

\* The three records agree, but for an approval between its two, and a list that is
\* about to be deleted.
RecordsAgree ==
    /\ \A u \in User : sess[u] => contact[u] > 0 \/ u \in guests
    /\ ~row.alive => \A u \in User : contact[u] = 0
    /\ row.alive /\ (\A r \in Req : pc[r] # "write") =>
         \A u \in User : InList(u, row.members) <=> contact[u] > 0
    /\ cached # NoList /\ ~passed /\ (\A r \in Req : pc[r] # "uncache") =>
         row.alive /\ cached = row.members

Serial == Alone /\ RecordsAgree /\ \A r \in Req : Grounded(r)
SerialInv == ~torn => Serial

-------------------------------------------------------------------------------
(* What the other requests, which are over, have to do with a step: nothing       *)

\* RecordsAgree as it reads while only r runs.
RecordsFor(r) ==
    /\ \A u \in User : sess[u] => contact[u] > 0 \/ u \in guests
    /\ ~row.alive => \A u \in User : contact[u] = 0
    /\ row.alive /\ pc[r] # "write" =>
         \A u \in User : InList(u, row.members) <=> contact[u] > 0
    /\ cached # NoList /\ ~passed /\ pc[r] # "uncache" => row.alive /\ cached = row.members

\* The request that takes a step is the only one under way, so Serial after the step
\* is what the step owes for that request alone.
LEMMA OthersAreOver ==
  ASSUME Serial, NEW r \in Req, pc[r] \notin Over, \A q \in Req \ {r} : pc'[q] = pc[q]
  PROVE  /\ Grounded(r) /\ RecordsFor(r)
         /\ \A q \in Req \ {r} : pc[q] \in Over
         /\ Grounded(r)' /\ RecordsFor(r)' => Serial'
<1>1. Alone /\ RecordsAgree /\ \A q \in Req : Grounded(q)
  BY DEF Serial
<1>2. \A q \in Req \ {r} : pc[q] \in Over
  BY <1>1 DEF Alone
<1>3. \A q \in Req \ {r} : pc[q] \notin {"write", "uncache"}
  BY <1>2 DEF Over
<1>4. RecordsFor(r)
  BY <1>1, <1>3 DEF RecordsAgree, RecordsFor
<1>5. ASSUME Grounded(r)', RecordsFor(r)'
      PROVE  Serial'
  <2>1. Alone'
    BY <1>2 DEF Alone
  <2>2. ASSUME NEW q \in Req \ {r}
        PROVE  Grounded(q)'
    <3>1. pc'[q] \in Over
      BY <1>2
    <3>2. /\ ~HasRow(q)' /\ pc'[q] \notin InTransaction
          /\ pc'[q] # "write" /\ pc'[q] # "put"
      BY <3>1 DEF Over, HasRow, InTransaction
    <3>3. QED
      BY <3>2 DEF Grounded
  <2>3. RecordsAgree'
    <3>1. /\ pc'[r] # "write" <=> \A q \in Req : pc'[q] # "write"
          /\ pc'[r] # "uncache" <=> \A q \in Req : pc'[q] # "uncache"
      BY <1>3
    <3>2. QED
      BY <1>5, <3>1 DEF RecordsFor, RecordsAgree
  <2>4. \A q \in Req : Grounded(q)'
    BY <1>5, <2>2
  <2>5. QED
    BY <2>1, <2>3, <2>4 DEF Serial
<1>6. QED
  BY <1>1, <1>2, <1>4, <1>5

\* A request that ends, or is left with its transaction open, and has deleted at most
\* sessions, leaves the records in agreement.
LEMMA EndIsSerial ==
  ASSUME TypeInv, Serial, NEW r \in Req, pc[r] \notin Over \cup {"write", "uncache"},
         NEW e \in {"done", "leaked"}, pc' = [pc EXCEPT ![r] = e],
         UNCHANGED <<row, contact, cached, passed>>,
         \A u \in User : sess'[u] => sess[u] /\ (u \in guests => u \in guests')
  PROVE  Serial'
<1>1. pc'[r] = e /\ \A q \in Req \ {r} : pc'[q] = pc[q]
  BY DEF TypeInv, Typed
<1>2. RecordsFor(r)
  BY <1>1, OthersAreOver
<1>3. Grounded(r)'
  <2>1. /\ ~HasRow(r)' /\ pc'[r] \notin InTransaction
        /\ pc'[r] # "write" /\ pc'[r] # "put"
    BY <1>1 DEF HasRow, InTransaction
  <2>2. QED
    BY <2>1 DEF Grounded
<1>4. RecordsFor(r)'
  BY <1>1, <1>2 DEF RecordsFor, InList
<1>5. QED
  BY <1>1, <1>3, <1>4, OthersAreOver

\* Where a request goes from where it stands.
LEMMA Ways ==
  ASSUME Typed, EndsOK, NEW r \in Req, pc[r] \notin Over, Advance(r), UNCHANGED req
  PROVE  /\ pc'[r] = Follow(req[r].op, pc[r]) /\ \A q \in Req \ {r} : pc'[q] = pc[q]
         /\ req[r].op \in DOMAIN Program /\ pc[r] \in Points(req[r].op)
         /\ req[r].op \in {"enter", "update", "leave", "remove", "dismiss", "apply", "pass",
                           "open", "list"}
<1>1. req[r].op \in DOMAIN Program /\ pc[r] \in Points(req[r].op)
  BY OpsAssumption DEF Typed, OfItsOperation
<1>2. QED
  BY <1>1, AdvanceTypes DEF Program


-------------------------------------------------------------------------------
(* Each step                                                                  *)

\* At the start the contacts are those of the members.
LEMMA SerialInit == Init => SerialInv
<1> SUFFICES ASSUME Init PROVE Serial
  BY DEF SerialInv
<1>1. \A r \in Req : pc[r] = "idle"
  BY DEF Init
<1>2. Alone /\ \A r \in Req : Grounded(r)
  BY <1>1 DEF Alone, Over, Grounded, HasRow, InTransaction
<1>3. /\ row.alive /\ cached = NoList
      /\ contact = [u \in User |-> IF InList(u, row.members) THEN 1 ELSE 0]
      /\ \A u \in User : sess[u] => contact[u] > 0
  BY DEF Init
<1>4. RecordsAgree
  BY <1>3 DEF RecordsAgree
<1>5. QED
  BY <1>2, <1>4 DEF Serial

\* A request that begins while all others are over.
LEMMA SerialBegin ==
  ASSUME TypeInv, SerialInv, NEW r \in Req, Begin(r)
  PROVE  SerialInv'
<1> SUFFICES ASSUME ~torn' PROVE Serial'
  BY DEF SerialInv
<1>1. PICK op \in Ops, who \in SUBSET User :
        /\ req' = [req EXCEPT ![r] = [op |-> op, who |-> who]]
        /\ pc' = [pc EXCEPT ![r] = Head(Program[op])]
  BY DEF Begin
<1>2. /\ Serial /\ \A q \in Req : pc[q] \in Over
      /\ UNCHANGED <<row, contact, apply, sess, guests, cached, client, mine, creates, todo, held, ret, passed>>
  BY DEF Begin, dbVars, SerialInv, Quiet
<1>3. Head(Program[op]) \in {"read", "find", "open", "get"}
  BY OpsAssumption DEF Program
<1>4. pc'[r] \in {"read", "find", "open", "get"} /\ \A q \in Req \ {r} : pc'[q] \in Over
  BY <1>1, <1>2, <1>3 DEF TypeInv, Typed
<1>5. Alone'
  BY <1>4 DEF Alone
<1>6. ASSUME NEW q \in Req
      PROVE  Grounded(q)'
  <2>1. pc'[q] \in {"read", "find", "open", "get"} \cup Over
    BY <1>4
  <2>2. /\ ~HasRow(q)' /\ pc'[q] \notin InTransaction
        /\ pc'[q] # "write" /\ pc'[q] # "put"
    BY <2>1 DEF Over, HasRow, InTransaction
  <2>3. QED
    BY <2>2 DEF Grounded
<1>7. RecordsAgree'
  <2>1. \A q \in Req : pc[q] # "write" /\ pc[q] # "uncache"
    BY <1>2 DEF Over
  <2>2. RecordsAgree
    BY <1>2 DEF Serial
  <2>3. QED
    BY <1>2, <2>1, <2>2 DEF RecordsAgree, InList
<1>8. QED
  BY <1>5, <1>6, <1>7 DEF Serial

\* Where the read of the row leads.
LEMMA AfterRead ==
  ASSUME NEW op \in {"enter", "update", "leave", "remove", "dismiss", "apply", "pass", "open", "list"},
         "read" \in Points(op)
  PROVE  /\ op \in {"enter", "update", "leave", "dismiss"} => Follow(op, "read") = "save"
         /\ op = "remove" => Follow(op, "read") = "session"
         /\ op \in {"apply", "pass"} => Follow(op, "read") = "agree"
         /\ op \notin {"open", "list"}
BY EnterProgram, UpdateProgram, LeaveProgram, RemoveProgram, DismissProgram, ApplyProgram,
   PassProgram, OpenProgram, ListProgram

\* A request reads the row when the three records agree: whoever enters has no contact
\* row, and whom it is not to take a session from has none.
LEMMA SerialReadGroup ==
  ASSUME TypeInv, SerialInv, NEW r \in Req, ReadGroup(r)
  PROVE  SerialInv'
<1> SUFFICES ASSUME ~torn' PROVE Serial'
  BY DEF SerialInv
<1> USE DEF TypeInv
<1> DEFINE op == req[r].op
           who == req[r].who
<1>1. /\ Serial /\ pc[r] = "read" /\ pc[r] \notin Over \cup {"write", "uncache"}
      /\ UNCHANGED <<row, contact, apply, sess, guests, cached, client, req, torn, passed>>
  BY DEF ReadGroup, dbVars, SerialInv, Over
<1>2. ASSUME NEW answer, End(r, answer)
      PROVE  Serial'
  BY <1>1, <1>2, EndIsSerial DEF End
<1>3. CASE Accepts(op, who) /\ Advance(r)
  <2>1. /\ pc'[r] = Follow(op, "read") /\ \A q \in Req \ {r} : pc'[q] = pc[q]
        /\ "read" \in Points(op)
        /\ op \in {"enter", "update", "leave", "remove", "dismiss", "apply", "pass", "open", "list"}
    BY <1>1, <1>3, Ways
  <2>2. /\ pc'[r] \in {"save", "session", "agree"}
        /\ op \in {"enter", "update", "leave", "dismiss"} => pc'[r] = "save"
        /\ op = "remove" => pc'[r] = "session"
        /\ op \in {"apply", "pass"} => pc'[r] = "agree"
    BY <2>1, AfterRead
  <2>3. RecordsFor(r)
    BY <1>1, <2>1, OthersAreOver
  <2>4. /\ mine' = [mine EXCEPT ![r] = IF pc'[r] = "done" THEN @ ELSE NewRow(op, who)]
        /\ creates' = [creates EXCEPT ![r] = op = "enter" /\ \A u \in who : contact[u] = 0]
        /\ todo' = [todo EXCEPT ![r] =
                     CASE pc'[r] = "done" -> {}
                       [] op = "dismiss" -> {u \in User : InList(u, row.members)}
                       [] op \in {"leave", "remove"} -> who
                       [] OTHER -> {}]
    BY DEF ReadGroup
  <2>5. mine'[r] = NewRow(op, who)
    BY <2>2, <2>4 DEF Typed
  <2>6. NewRow(op, who)' = NewRow(op, who)
    BY <1>1 DEF NewRow
  <2>7. pc'[r] \in InTransaction => row.alive
    BY <1>3, <2>1, <2>2 DEF Accepts, InTransaction
  <2>8. op = "enter" => creates'[r] /\ \A u \in who : ~InList(u, row.members)
    <3> SUFFICES ASSUME op = "enter"
                 PROVE  creates'[r] /\ \A u \in who : ~InList(u, row.members)
      OBVIOUS
    <3>1. row.alive /\ \A u \in who : ~InList(u, row.members)
      BY <1>3 DEF Accepts
    <3>2. \A u \in who : u \in User /\ contact[u] \in Nat
      BY DEF Typed
    <3>3. \A u \in who : contact[u] = 0
      BY <1>1, <2>3, <3>1, <3>2 DEF RecordsFor
    <3>4. creates'[r] = (op = "enter" /\ \A u \in who : contact[u] = 0)
      BY <2>4 DEF Typed
    <3>5. QED
      BY <3>1, <3>3, <3>4
  <2>9. op \in Deletes => \A u \in Affected(r) \ todo'[r] : sess[u] => u \in guests
    <3>1. CASE op = "dismiss"
      <4>1. todo'[r] = {u \in User : InList(u, row.members)} /\ Affected(r) = User
        BY <2>2, <2>4, <3>1 DEF Typed, Affected
      <4>2. row.alive
        BY <1>3, <3>1 DEF Accepts
      <4>3. QED
        BY <1>1, <2>3, <4>1, <4>2 DEF RecordsFor
    <3>2. CASE op \in {"leave", "remove"}
      <4>1. todo'[r] = who /\ Affected(r) = who
        BY <2>2, <2>4, <3>2 DEF Typed, Affected
      <4>2. QED
        BY <4>1
    <3>3. QED
      BY <3>1, <3>2 DEF Deletes
  <2>10. ~PastSessions(r)'
    BY <1>1, <2>2 DEF PastSessions
  <2>11. Grounded(r)'
    <3>1. Affected(r)' = Affected(r)
      BY <1>1 DEF Affected
    <3>2. pc'[r] # "write" /\ pc'[r] # "put"
      BY <2>2
    <3>3. QED
      BY <1>1, <2>5, <2>6, <2>7, <2>8, <2>9, <2>10, <3>1, <3>2 DEF Grounded, InList
  <2>12. RecordsFor(r)'
    BY <1>1, <2>3, <2>2 DEF RecordsFor, InList
  <2>13. QED
    BY <1>1, <2>1, <2>11, <2>12, OthersAreOver
<1>4. QED
  BY <1>2, <1>3 DEF ReadGroup


\* The requests that take users out have deleted the sessions before they go on to the
\* statements after them.
LEMMA DeletingWays ==
  ASSUME NEW op \in {"enter", "update", "leave", "remove", "dismiss", "apply", "pass", "open", "list"},
         NEW s \in Points(op)
  PROVE  /\ s \in {"session", "apply"} => op \in Deletes
         /\ s \in {"save", "contact", "apply"} /\ op \in Deletes =>
              /\ Follow(op, s) \in {"apply", "commit"}
                   => s = "apply" \/ (s = "save" /\ op = "remove")
                      \/ (s = "contact" /\ op \in {"leave", "remove"})
              /\ Follow(op, s) = "contact" => op = "dismiss"
              /\ Follow(op, s) = "save" => op = "remove" /\ s = "apply"
<1> DEFINE Good(o) == \A x \in Points(o) :
             /\ x \in {"session", "apply"} => o \in Deletes
             /\ x \in {"save", "contact", "apply"} /\ o \in Deletes =>
                  /\ Follow(o, x) \in {"apply", "commit"}
                       => x = "apply" \/ (x = "save" /\ o = "remove")
                          \/ (x = "contact" /\ o \in {"leave", "remove"})
                  /\ Follow(o, x) = "contact" => o = "dismiss"
                  /\ Follow(o, x) = "save" => o = "remove" /\ x = "apply"
<1>1. Good("enter")
  BY EnterProgram DEF Deletes
<1>2. Good("update")
  BY UpdateProgram DEF Deletes
<1>3. Good("leave")
  BY LeaveProgram DEF Deletes
<1>4. Good("remove")
  BY RemoveProgram DEF Deletes
<1>5. Good("dismiss")
  BY DismissProgram DEF Deletes
<1>6. Good("apply")
  BY ApplyProgram DEF Deletes
<1>7. Good("pass")
  BY PassProgram DEF Deletes
<1>8. Good("open")
  BY OpenProgram DEF Deletes
<1>9. Good("list")
  BY ListProgram DEF Deletes
<1>10. QED
  BY <1>1, <1>2, <1>3, <1>4, <1>5, <1>6, <1>7, <1>8, <1>9

\* The other statements are where the programs say they are.
LEMMA WriteWays ==
  ASSUME NEW op \in {"enter", "update", "leave", "remove", "dismiss", "apply", "pass", "open", "list"},
         NEW s \in Points(op)
  PROVE  /\ s \in {"agree", "create", "write"} => op \in {"apply", "pass"}
         /\ s = "agree" /\ op = "apply" => Follow(op, s) = "done"
         /\ s = "agree" /\ op = "pass" => Follow(op, s) = "create"
         /\ s = "create" => op = "pass" /\ Follow(op, s) = "write"
         /\ s \in {"write", "uncache", "open", "put"} => Follow(op, s) = "done"
         /\ s = "commit" => op \in {"enter", "update"} \cup Deletes /\ Follow(op, s) = "uncache"
         /\ s = "find" => Follow(op, s) = "read"
         /\ s = "get" => Follow(op, s) = "fetch"
         /\ s = "fetch" => Follow(op, s) = "put"
<1> DEFINE Good(o) == \A x \in Points(o) :
             /\ x \in {"agree", "create", "write"} => o \in {"apply", "pass"}
             /\ x = "agree" /\ o = "apply" => Follow(o, x) = "done"
             /\ x = "agree" /\ o = "pass" => Follow(o, x) = "create"
             /\ x = "create" => o = "pass" /\ Follow(o, x) = "write"
             /\ x \in {"write", "uncache", "open", "put"} => Follow(o, x) = "done"
             /\ x = "commit" => o \in {"enter", "update"} \cup Deletes /\ Follow(o, x) = "uncache"
             /\ x = "find" => Follow(o, x) = "read"
             /\ x = "get" => Follow(o, x) = "fetch"
             /\ x = "fetch" => Follow(o, x) = "put"
<1>1. Good("enter")
  BY EnterProgram DEF Deletes
<1>2. Good("update")
  BY UpdateProgram DEF Deletes
<1>3. Good("leave")
  BY LeaveProgram DEF Deletes
<1>4. Good("remove")
  BY RemoveProgram DEF Deletes
<1>5. Good("dismiss")
  BY DismissProgram DEF Deletes
<1>6. Good("apply")
  BY ApplyProgram DEF Deletes
<1>7. Good("pass")
  BY PassProgram DEF Deletes
<1>8. Good("open")
  BY OpenProgram DEF Deletes
<1>9. Good("list")
  BY ListProgram DEF Deletes
<1>10. QED
  BY <1>1, <1>2, <1>3, <1>4, <1>5, <1>6, <1>7, <1>8, <1>9

\* A write changes nothing yet but where the request stands.
LEMMA SerialWrite ==
  ASSUME TypeInv, SerialInv, NEW r \in Req, Write(r)
  PROVE  SerialInv'
<1> SUFFICES ASSUME ~torn' PROVE Serial'
  BY DEF SerialInv
<1> USE DEF TypeInv
<1>1. /\ Serial /\ pc[r] \in {"save", "contact", "apply"} /\ pc[r] \notin Over /\ Advance(r)
      /\ UNCHANGED <<row, contact, apply, sess, guests, cached, client, req, mine, creates, todo, torn, passed>>
  BY DEF Write, dbVars, SerialInv, Over
<1>2. /\ pc'[r] = Follow(req[r].op, pc[r]) /\ \A q \in Req \ {r} : pc'[q] = pc[q]
      /\ pc[r] \in Points(req[r].op)
      /\ req[r].op \in {"enter", "update", "leave", "remove", "dismiss", "apply", "pass", "open", "list"}
      /\ pc'[r] \in InTransaction
  BY <1>1, Ways, AdvanceTypes
<1>3. Grounded(r) /\ RecordsFor(r)
  BY <1>1, <1>2, OthersAreOver
<1>4. req[r].op \in Deletes /\ PastSessions(r)' => PastSessions(r)
  BY <1>1, <1>2, DeletingWays DEF PastSessions
<1>5. Grounded(r)'
  <2>1. /\ NewRow(req[r].op, req[r].who)' = NewRow(req[r].op, req[r].who)
        /\ Affected(r)' = Affected(r)
    BY <1>1 DEF NewRow, Affected
  <2>2. /\ pc'[r] # "write" /\ pc'[r] # "put"
        /\ pc[r] \in InTransaction /\ HasRow(r)
    BY <1>1, <1>2 DEF InTransaction, HasRow
  <2>3. QED
    BY <1>1, <1>2, <1>3, <1>4, <2>1, <2>2 DEF Grounded, InList
<1>6. RecordsFor(r)'
  BY <1>1, <1>2, <1>3 DEF RecordsFor, InTransaction, InList
<1>7. QED
  BY <1>1, <1>2, <1>5, <1>6, OthersAreOver

\* A statement that fails undoes the transaction; halfway through an approval, which has
\* none, what is left is torn.
LEMMA SerialStatementFails ==
  ASSUME TypeInv, SerialInv, NEW r \in Req, StatementFails(r)
  PROVE  SerialInv'
<1> SUFFICES ASSUME ~torn' PROVE Serial'
  BY DEF SerialInv
<1>1. /\ Serial /\ pc[r] \notin Over \cup {"write", "uncache"}
      /\ pc' = [pc EXCEPT ![r] = "done"]
      /\ UNCHANGED <<row, contact, cached, passed, sess, guests>>
  BY DEF StatementFails, End, dbVars, SerialInv
<1>2. QED
  BY <1>1, EndIsSerial

\* Without a client nothing is deleted, and nothing committed.
LEMMA SerialNoClient ==
  ASSUME TypeInv, SerialInv, NEW r \in Req, NoClient(r)
  PROVE  SerialInv'
<1> SUFFICES ASSUME ~torn' PROVE Serial'
  BY DEF SerialInv
<1>1. /\ Serial /\ pc[r] \notin Over \cup {"write", "uncache"}
      /\ pc' = [pc EXCEPT ![r] = "done"] \/ pc' = [pc EXCEPT ![r] = "leaked"]
      /\ UNCHANGED <<row, contact, cached, passed, sess, guests>>
  BY DEF NoClient, End, dbVars, SerialInv, Over
<1>2. QED
  BY <1>1, EndIsSerial

\* The sessions deleted are gone whether or not the request commits.
LEMMA SerialDeleteSession ==
  ASSUME TypeInv, SerialInv, NEW r \in Req, DeleteSession(r)
  PROVE  SerialInv'
<1> SUFFICES ASSUME ~torn' PROVE Serial'
  BY DEF SerialInv
<1> USE DEF TypeInv
<1>1. /\ Serial /\ pc[r] = "session" /\ pc[r] \notin Over \cup {"write", "uncache"}
      /\ UNCHANGED <<row, contact, apply, cached, client, req, mine, creates, torn, passed>>
  BY DEF DeleteSession, SerialInv, Over
<1>2. /\ NewRow(req[r].op, req[r].who)' = NewRow(req[r].op, req[r].who)
      /\ Affected(r)' = Affected(r) /\ Affected(r) \in SUBSET User
  BY <1>1 DEF NewRow, Affected, Typed
<1>3. CASE todo[r] = {} /\ Advance(r) /\ UNCHANGED <<sess, guests, todo, held>>
  <2>1. /\ pc'[r] \in InTransaction /\ \A q \in Req \ {r} : pc'[q] = pc[q]
    BY <1>1, <1>3, AdvanceTypes
  <2>2. Grounded(r) /\ RecordsFor(r)
    BY <1>1, <2>1, OthersAreOver
  <2>3. Grounded(r)'
    <3>1. /\ pc'[r] # "write" /\ pc'[r] # "put"
          /\ pc[r] \in InTransaction /\ HasRow(r)
      BY <1>1, <2>1 DEF InTransaction, HasRow
    <3>2. QED
      BY <1>1, <1>2, <1>3, <2>1, <2>2, <3>1 DEF Grounded, InList
  <2>4. RecordsFor(r)'
    BY <1>1, <1>3, <2>1, <2>2 DEF RecordsFor, InTransaction, InList
  <2>5. QED
    BY <1>1, <2>1, <2>3, <2>4, OthersAreOver
<1>4. ASSUME NEW u \in todo[r],
             SessionGone(u),
             todo' = [todo EXCEPT ![r] = todo[r] \ {u}],
             End(r, "refused") \/ UNCHANGED <<pc, ret, held>>
      PROVE  Serial'
  <2>1. /\ \A v \in User : sess'[v] => sess[v] /\ (v \in guests => v \in guests')
        /\ ~sess'[u] /\ u \in User
        /\ todo'[r] = todo[r] \ {u}
    BY <1>4 DEF Typed, SessionGone
  <2>2. CASE End(r, "refused")
    BY <1>1, <2>1, <2>2, EndIsSerial DEF End
  <2>3. CASE UNCHANGED <<pc, ret, held>>
    <3>1. Grounded(r) /\ RecordsFor(r)
      BY <1>1, <2>3, OthersAreOver
    <3>2. Grounded(r)'
      <4>1. ~PastSessions(r)' /\ pc'[r] = "session" /\ HasRow(r) /\ pc[r] \in InTransaction
        BY <1>1, <2>3 DEF PastSessions, HasRow, InTransaction
      <4>2. \A v \in Affected(r) \ todo'[r] : v = u \/ v \in Affected(r) \ todo[r]
        BY <2>1
      <4>3. req[r].op \in Deletes => \A v \in Affected(r) \ todo'[r] : sess'[v] => v \in guests'
        BY <1>2, <2>1, <3>1, <4>1, <4>2 DEF Grounded
      <4>4. QED
        BY <1>1, <1>2, <3>1, <4>1, <4>3 DEF Grounded, InList
    <3>3. RecordsFor(r)'
      BY <1>1, <2>1, <2>3, <3>1 DEF RecordsFor, InList
    <3>4. QED
      BY <1>1, <2>3, <3>2, <3>3, OthersAreOver
  <2>4. QED
    BY <1>4, <2>2, <2>3
<1>5. QED
  BY <1>3, <1>4 DEF DeleteSession

\* The call that fails may have deleted a session.
LEMMA SerialSessionFails ==
  ASSUME TypeInv, SerialInv, NEW r \in Req, SessionFails(r)
  PROVE  SerialInv'
<1> SUFFICES ASSUME ~torn' PROVE Serial'
  BY DEF SerialInv
<1>1. /\ Serial /\ pc[r] \notin Over \cup {"write", "uncache"}
      /\ pc' = [pc EXCEPT ![r] = "done"]
      /\ UNCHANGED <<row, contact, cached, passed>>
  BY DEF SessionFails, End, SerialInv, Over
<1>2. \A u \in User : sess'[u] => sess[u] /\ (u \in guests => u \in guests')
  BY DEF SessionFails, SessionGone, TypeInv, Typed
<1>3. QED
  BY <1>1, <1>2, EndIsSerial


\* A commit changes the row and the contact rows together, and whom it takes out has no
\* session any more.
LEMMA SerialCommit ==
  ASSUME TypeInv, SerialInv, NEW r \in Req, Commit(r)
  PROVE  SerialInv'
<1> SUFFICES ASSUME ~torn' PROVE Serial'
  BY DEF SerialInv
<1> USE DEF TypeInv
<1> DEFINE op == req[r].op
           who == req[r].who
<1>1. /\ Serial /\ pc[r] = "commit" /\ pc[r] \notin Over /\ Advance(r)
      /\ UNCHANGED <<sess, guests, cached, client, req, mine, creates, todo, torn, passed>>
      /\ row' = IF op = "dismiss" THEN [row EXCEPT !.alive = FALSE] ELSE mine[r]
      /\ contact' = ContactsAfter(r)
  BY DEF Commit, SerialInv, Over
<1>2. /\ pc'[r] = Follow(op, "commit") /\ \A q \in Req \ {r} : pc'[q] = pc[q]
      /\ "commit" \in Points(op) /\ op \in DOMAIN Program
      /\ op \in {"enter", "update", "leave", "remove", "dismiss", "apply", "pass", "open", "list"}
  BY <1>1, Ways
<1>3. pc'[r] = "uncache" /\ op \in {"enter", "update"} \cup Deletes
  BY <1>2, WriteWays
<1>4. /\ Grounded(r) /\ RecordsFor(r) /\ HasRow(r) /\ PastSessions(r)
      /\ pc[r] \in InTransaction
  BY <1>1, <1>2, OthersAreOver DEF HasRow, PastSessions, InTransaction
<1>5. /\ mine[r] = NewRow(op, who) /\ row.alive
      /\ op = "enter" => creates[r] /\ \A u \in who : ~InList(u, row.members)
      /\ op \in Deletes => \A u \in Affected(r) : sess[u] => u \in guests
  <2>1. op \in Deletes => todo[r] = {} /\ \A u \in Affected(r) \ todo[r] : sess[u] => u \in guests
    BY <1>4 DEF Grounded
  <2>2. QED
    BY <1>4, <2>1 DEF Grounded
<1>6. \A u \in User : InList(u, row.members) <=> contact[u] > 0
  BY <1>1, <1>4, <1>5 DEF RecordsFor
<1>7. /\ \A u \in User : contact[u] \in Nat
      /\ \A u \in User : sess[u] => contact[u] > 0 \/ u \in guests
      /\ who \in SUBSET User /\ row \in RowType
      /\ op # "remove" => \E u \in User : who = {u}
  BY <1>1, <1>4 DEF Typed, OfItsOperation, RecordsFor
<1>8. Affected(r) = IF op = "dismiss" THEN User ELSE who
  BY DEF Affected
<1>9. \A u \in User : contact'[u] =
         IF u \notin Affected(r) \/ op = "update" THEN contact[u]
         ELSE IF op = "enter" THEN contact[u] + (IF creates[r] THEN 1 ELSE 0)
         ELSE 0
  BY <1>1 DEF ContactsAfter
<1>10. /\ NewRow(op, who).alive = row.alive
       /\ op = "enter" =>
            \A u \in User : InList(u, NewRow(op, who).members) <=> InList(u, row.members) \/ u \in who
       /\ op \in {"leave", "remove"} =>
            \A u \in User : InList(u, NewRow(op, who).members) <=> InList(u, row.members) /\ u \notin who
       /\ op = "update" => NewRow(op, who) = row
  BY <1>2, <1>7, NewRowFacts
<1>11. /\ \A u \in User : sess[u] => contact'[u] > 0 \/ u \in guests
       /\ ~row'.alive => \A u \in User : contact'[u] = 0
       /\ row'.alive => \A u \in User : InList(u, row'.members) <=> contact'[u] > 0
  <2>1. CASE op = "enter"
    <3>1. row' = NewRow(op, who) /\ row'.alive
      BY <1>1, <1>5, <1>10, <2>1
    <3>2. \A u \in User : contact'[u] = IF u \in who THEN contact[u] + 1 ELSE contact[u]
      BY <1>5, <1>8, <1>9, <2>1
    <3>3. \A u \in User : contact'[u] > 0 <=> contact[u] > 0 \/ u \in who
      BY <1>7, <3>2
    <3>4. QED
      BY <1>6, <1>7, <1>10, <2>1, <3>1, <3>3
  <2>2. CASE op = "update"
    <3>1. row' = row
      BY <1>1, <1>5, <1>10, <2>2
    <3>2. \A u \in User : contact'[u] = contact[u]
      BY <1>9, <2>2
    <3>3. QED
      BY <1>5, <1>6, <1>7, <3>1, <3>2
  <2>3. CASE op \in {"leave", "remove"}
    <3>1. row' = NewRow(op, who) /\ row'.alive
      BY <1>1, <1>5, <1>10, <2>3
    <3>2. \A u \in User : contact'[u] = IF u \in who THEN 0 ELSE contact[u]
      BY <1>8, <1>9, <2>3
    <3>3. \A u \in who : sess[u] => u \in guests
      BY <1>5, <1>8, <2>3 DEF Deletes
    <3>4. QED
      BY <1>6, <1>7, <1>10, <2>3, <3>1, <3>2, <3>3
  <2>4. CASE op = "dismiss"
    <3>1. ~row'.alive
      BY <1>1, <1>7, <2>4 DEF RowType
    <3>2. \A u \in User : contact'[u] = 0 /\ (sess[u] => u \in guests)
      BY <1>5, <1>8, <1>9, <2>4 DEF Deletes
    <3>3. QED
      BY <3>1, <3>2
  <2>5. QED
    BY <1>3, <2>1, <2>2, <2>3, <2>4 DEF Deletes
<1>12. RecordsFor(r)'
  BY <1>1, <1>3, <1>11 DEF RecordsFor, InList
<1>13. Grounded(r)'
  <2>1. /\ ~HasRow(r)' /\ pc'[r] \notin InTransaction
        /\ pc'[r] # "write" /\ pc'[r] # "put"
    BY <1>3 DEF HasRow, InTransaction
  <2>2. QED
    BY <2>1 DEF Grounded
<1>14. QED
  BY <1>1, <1>2, <1>12, <1>13, OthersAreOver

\* The cached list, which may be of before, is deleted.
LEMMA SerialUncache ==
  ASSUME TypeInv, SerialInv, NEW r \in Req, Uncache(r)
  PROVE  SerialInv'
<1> SUFFICES ASSUME ~torn' PROVE Serial'
  BY DEF SerialInv
<1> USE DEF TypeInv
<1>1. /\ Serial /\ pc[r] = "uncache" /\ pc[r] \notin Over /\ Advance(r) /\ cached' = NoList
      /\ UNCHANGED <<row, contact, sess, guests, req, torn, passed>>
  BY DEF Uncache, SerialInv, Over
<1>2. pc'[r] = "done" /\ \A q \in Req \ {r} : pc'[q] = pc[q]
  BY <1>1, Ways, WriteWays
<1>3. RecordsFor(r)
  BY <1>1, <1>2, OthersAreOver
<1>4. RecordsFor(r)'
  BY <1>1, <1>2, <1>3 DEF RecordsFor, InList
<1>5. Grounded(r)'
  BY <1>2 DEF Grounded, HasRow, InTransaction
<1>6. QED
  BY <1>1, <1>2, <1>4, <1>5, OthersAreOver

\* An application is looked up, or written: the three records are untouched.
LEMMA SerialApplication ==
  ASSUME TypeInv, SerialInv, NEW r \in Req, Find(r) \/ Agree(r)
  PROVE  SerialInv'
<1> SUFFICES ASSUME ~torn' PROVE Serial'
  BY DEF SerialInv
<1> USE DEF TypeInv
<1>1. /\ Serial /\ pc[r] \in {"find", "agree"} /\ pc[r] \notin Over \cup {"write", "uncache"}
      /\ UNCHANGED <<row, contact, sess, guests, cached, req, mine, creates, todo, torn, passed>>
      /\ Advance(r) \/ End(r, "failed")
  BY DEF Find, Agree, SerialInv, Over, dbVars
<1>2. CASE End(r, "failed")
  BY <1>1, <1>2, EndIsSerial DEF End
<1>3. CASE Advance(r)
  <2>1. /\ \A q \in Req \ {r} : pc'[q] = pc[q]
        /\ pc'[r] \in {"read", "done", "create"}
        /\ pc'[r] = "create" => pc[r] = "agree" /\ req[r].op = "pass"
    BY <1>1, <1>3, Ways, WriteWays
  <2>2. Grounded(r) /\ RecordsFor(r)
    BY <1>1, <2>1, OthersAreOver
  <2>3. RecordsFor(r)'
    BY <1>1, <2>1, <2>2 DEF RecordsFor, InList
  <2>4. Grounded(r)'
    <3>1. NewRow(req[r].op, req[r].who)' = NewRow(req[r].op, req[r].who)
      BY <1>1 DEF NewRow
    <3>2. HasRow(r)' => HasRow(r)
      BY <2>1 DEF HasRow, InTransaction
    <3>3. /\ pc'[r] \notin InTransaction
          /\ pc'[r] # "write" /\ pc'[r] # "put"
      BY <2>1 DEF InTransaction
    <3>4. QED
      BY <1>1, <2>2, <3>1, <3>2, <3>3 DEF Grounded
  <2>5. QED
    BY <1>1, <2>1, <2>3, <2>4, OthersAreOver
<1>4. QED
  BY <1>1, <1>2, <1>3

\* Between the contact row and the group's row the list to be written has the user, the
\* one in the table does not.
LEMMA SerialCreateContact ==
  ASSUME TypeInv, SerialInv, NEW r \in Req, CreateContact(r)
  PROVE  SerialInv'
<1> SUFFICES ASSUME ~torn' PROVE Serial'
  BY DEF SerialInv
<1> USE DEF TypeInv
<1> DEFINE op == req[r].op
           who == req[r].who
<1>1. /\ Serial /\ pc[r] = "create" /\ pc[r] \notin Over
      /\ contact' = [u \in User |-> contact[u] + (IF u \in who THEN 1 ELSE 0)]
      /\ mine[r].alive /\ Advance(r)
      /\ UNCHANGED <<row, sess, guests, cached, req, mine, creates, todo, passed>>
  BY DEF CreateContact, SerialInv, Over
<1>2. /\ pc'[r] = "write" /\ \A q \in Req \ {r} : pc'[q] = pc[q]
      /\ op = "pass" /\ op \in DOMAIN Program
  BY <1>1, Ways, WriteWays
<1>3. Grounded(r) /\ RecordsFor(r) /\ HasRow(r)
  BY <1>1, <1>2, OthersAreOver DEF HasRow
<1>4. /\ \A u \in User : contact[u] \in Nat
      /\ who \in SUBSET User /\ row \in RowType /\ \E u \in User : who = {u}
  BY <1>1, <1>2 DEF Typed, OfItsOperation
<1>5. mine[r] = NewRow(op, who)
  BY <1>3 DEF Grounded
<1>6. /\ mine[r].alive = row.alive
      /\ \A u \in User : InList(u, mine[r].members) <=> InList(u, row.members) \/ u \in who
  BY <1>2, <1>4, <1>5, NewRowFacts
<1>7. \A u \in User : InList(u, row.members) <=> contact[u] > 0
  BY <1>1, <1>3, <1>6 DEF RecordsFor
<1>8. \A u \in User : contact'[u] > 0 <=> contact[u] > 0 \/ u \in who
  <2>1. \A u \in User : contact'[u] = IF u \in who THEN contact[u] + 1 ELSE contact[u]
    BY <1>1, <1>4
  <2>2. QED
    BY <1>4, <2>1
<1>9. \A u \in User : InList(u, mine[r].members) <=> contact'[u] > 0
  BY <1>6, <1>7, <1>8
<1>10. Grounded(r)'
  <2>1. NewRow(op, who)' = NewRow(op, who)
    BY <1>1 DEF NewRow
  <2>2. /\ pc'[r] \notin InTransaction /\ pc'[r] # "put"
    BY <1>2 DEF InTransaction
  <2>3. QED
    BY <1>1, <1>5, <1>9, <2>1, <2>2 DEF Grounded, InList
<1>11. RecordsFor(r)'
  BY <1>1, <1>2, <1>3, <1>6, <1>8 DEF RecordsFor
<1>12. QED
  BY <1>1, <1>2, <1>10, <1>11, OthersAreOver

\* The approval is complete.
LEMMA SerialWriteGroup ==
  ASSUME TypeInv, SerialInv, NEW r \in Req, WriteGroup(r)
  PROVE  SerialInv'
<1> SUFFICES ASSUME ~torn' PROVE Serial'
  BY DEF SerialInv
<1> USE DEF TypeInv
<1>1. /\ Serial /\ pc[r] = "write" /\ pc[r] \notin Over /\ Advance(r)
      /\ row' = mine[r] /\ passed'
      /\ UNCHANGED <<contact, sess, guests, req>>
  BY DEF WriteGroup, SerialInv, Over
<1>2. pc'[r] = "done" /\ \A q \in Req \ {r} : pc'[q] = pc[q]
  BY <1>1, Ways, WriteWays
<1>3. Grounded(r) /\ RecordsFor(r)
  BY <1>1, <1>2, OthersAreOver
<1>4. row'.alive /\ \A u \in User : InList(u, row'.members) <=> contact[u] > 0
  BY <1>1, <1>3 DEF Grounded
<1>5. RecordsFor(r)'
  BY <1>1, <1>3, <1>4 DEF RecordsFor, InList
<1>6. Grounded(r)'
  BY <1>2 DEF Grounded, HasRow, InTransaction
<1>7. QED
  BY <1>1, <1>2, <1>5, <1>6, OthersAreOver

\* Who opens a session is a contact, or is a guest from then on.
LEMMA SerialOpenSession ==
  ASSUME TypeInv, SerialInv, NEW r \in Req, OpenSession(r)
  PROVE  SerialInv'
<1> SUFFICES ASSUME ~torn' PROVE Serial'
  BY DEF SerialInv
<1> USE DEF TypeInv
<1>1. /\ Serial /\ pc[r] = "open" /\ pc[r] \notin Over \cup {"write", "uncache"}
      /\ UNCHANGED <<row, contact, cached, req, mine, creates, todo, torn, passed>> /\ Advance(r)
      /\ \/ UNCHANGED <<sess, guests>>
         \/ /\ sess' = [u \in User |-> sess[u] \/ u \in req[r].who]
            /\ guests' = guests \cup {u \in req[r].who : ~sess[u] /\ contact[u] = 0}
  BY DEF OpenSession, SerialInv, Over
<1>2. pc'[r] = "done" /\ \A q \in Req \ {r} : pc'[q] = pc[q]
  BY <1>1, Ways, WriteWays
<1>3. RecordsFor(r) /\ \A u \in User : contact[u] \in Nat
  BY <1>1, <1>2, OthersAreOver DEF Typed
<1>4. ASSUME NEW u \in User, sess'[u]
      PROVE  contact[u] > 0 \/ u \in guests'
  <2>1. guests \subseteq guests'
    BY <1>1
  <2>2. CASE sess[u]
    BY <1>3, <2>1, <2>2 DEF RecordsFor
  <2>3. CASE ~sess[u]
    <3>1. u \in req[r].who /\ guests' = guests \cup {v \in req[r].who : ~sess[v] /\ contact[v] = 0}
      BY <1>1, <1>4, <2>3
    <3>2. contact[u] = 0 => u \in guests'
      BY <2>3, <3>1
    <3>3. QED
      BY <1>3, <3>2
  <2>4. QED
    BY <2>2, <2>3
<1>5. RecordsFor(r)'
  BY <1>1, <1>2, <1>3, <1>4 DEF RecordsFor, InList
<1>6. Grounded(r)'
  BY <1>2 DEF Grounded, HasRow, InTransaction
<1>7. QED
  BY <1>1, <1>2, <1>5, <1>6, OthersAreOver

\* The list does not change between its read and its being put into the cache.
LEMMA SerialGetMemberList ==
  ASSUME TypeInv, SerialInv, NEW r \in Req, GetMemberList(r)
  PROVE  SerialInv'
<1> SUFFICES ASSUME ~torn' PROVE Serial'
  BY DEF SerialInv
<1> USE DEF TypeInv
<1>1. /\ Serial /\ pc[r] \in {"get", "fetch", "put"} /\ pc[r] \notin Over \cup {"write", "uncache"}
      /\ UNCHANGED <<row, contact, sess, guests, req, creates, todo, torn, passed>>
  BY DEF GetMemberList, SerialInv, Over
<1>2. ASSUME NEW answer, End(r, answer), UNCHANGED cached
      PROVE  Serial'
  BY <1>1, <1>2, EndIsSerial DEF End
<1>3. ASSUME Advance(r)
      PROVE  /\ \A q \in Req \ {r} : pc'[q] = pc[q]
             /\ pc[r] = "get" => pc'[r] = "fetch"
             /\ pc[r] = "fetch" => pc'[r] = "put"
             /\ pc[r] = "put" => pc'[r] = "done"
             /\ Grounded(r) /\ RecordsFor(r)
  BY <1>1, <1>3, Ways, WriteWays, OthersAreOver
<1>4. CASE pc[r] = "get" /\ Advance(r) /\ UNCHANGED cached
  <2>1. Grounded(r)'
    BY <1>3, <1>4 DEF Grounded, HasRow, InTransaction
  <2>2. RecordsFor(r)'
    BY <1>1, <1>3, <1>4 DEF RecordsFor, InList
  <2>3. QED
    BY <1>1, <1>3, <1>4, <2>1, <2>2, OthersAreOver
<1>5. CASE /\ pc[r] = "fetch" /\ row.alive /\ Advance(r) /\ UNCHANGED cached
           /\ mine' = [mine EXCEPT ![r] = row]
  <2>1. mine'[r] = row' /\ row'.alive
    BY <1>1, <1>5 DEF Typed
  <2>2. Grounded(r)'
    BY <1>3, <1>5, <2>1 DEF Grounded, HasRow, InTransaction
  <2>3. RecordsFor(r)'
    BY <1>1, <1>3, <1>5 DEF RecordsFor, InList
  <2>4. QED
    BY <1>1, <1>3, <1>5, <2>2, <2>3, OthersAreOver
<1>6. CASE pc[r] = "put" /\ Advance(r) /\ cached' = mine[r].members
  <2>1. cached' = row.members /\ row.alive
    BY <1>3, <1>6 DEF Grounded
  <2>2. Grounded(r)'
    BY <1>3, <1>6 DEF Grounded, HasRow, InTransaction
  <2>3. RecordsFor(r)'
    BY <1>1, <1>3, <1>6, <2>1 DEF RecordsFor, InList
  <2>4. QED
    BY <1>1, <1>3, <1>6, <2>2, <2>3, OthersAreOver
<1>7. QED
  BY <1>2, <1>4, <1>5, <1>6 DEF GetMemberList

\* Every step keeps the records in step, one lemma per action.
LEMMA SerialStep == TypeInv /\ SerialInv /\ [Next]_vars => SerialInv'
<1> SUFFICES ASSUME TypeInv, SerialInv, [Next]_vars PROVE SerialInv'
  OBVIOUS
<1>1. CASE UNCHANGED <<row, contact, sess, guests, pc, req, mine, creates, todo, torn, passed>> /\ cached' \in {cached, NoList}
  <2> SUFFICES ASSUME ~torn' PROVE Serial'
    BY DEF SerialInv
  <2>1. Serial
    BY <1>1 DEF SerialInv
  <2>2. Alone'
    BY <1>1, <2>1 DEF Serial, Alone
  <2>3. RecordsAgree'
    BY <1>1, <2>1 DEF Serial, RecordsAgree, InList
  <2>4. ASSUME NEW r \in Req
        PROVE  Grounded(r)'
    <3>1. Grounded(r) /\ UNCHANGED <<row, contact, sess, guests, pc, req, mine, creates, todo>>
      BY <1>1, <2>1 DEF Serial
    <3>2. /\ NewRow(req[r].op, req[r].who)' = NewRow(req[r].op, req[r].who)
          /\ Affected(r)' = Affected(r)
          /\ HasRow(r)' <=> HasRow(r)
          /\ PastSessions(r)' <=> PastSessions(r)
      BY <3>1 DEF NewRow, Affected, HasRow, PastSessions
    <3>3. QED
      BY <3>1, <3>2 DEF Grounded, InList
  <2>5. QED
    BY <2>2, <2>3, <2>4 DEF Serial
<1>2. Expire \/ ClientReady \/ UNCHANGED vars =>
        UNCHANGED <<row, contact, sess, guests, pc, req, mine, creates, todo, torn, passed>> /\ cached' \in {cached, NoList}
  BY DEF Expire, ClientReady, vars, dbVars
<1>3. ASSUME NEW r \in Req,
             \/ Begin(r) \/ ReadGroup(r) \/ Write(r) \/ StatementFails(r)
             \/ NoClient(r) \/ DeleteSession(r) \/ SessionFails(r)
             \/ Commit(r) \/ Uncache(r)
             \/ Find(r) \/ Agree(r) \/ CreateContact(r) \/ WriteGroup(r)
             \/ OpenSession(r) \/ GetMemberList(r)
      PROVE  SerialInv'
  BY <1>3, SerialBegin, SerialReadGroup, SerialWrite, SerialStatementFails, SerialNoClient,
     SerialDeleteSession, SerialSessionFails, SerialCommit, SerialUncache, SerialApplication,
     SerialCreateContact, SerialWriteGroup, SerialOpenSession, SerialGetMemberList
<1>4. QED
  BY <1>1, <1>2, <1>3 DEF Next

\* The member list and count, the contact rows and the sessions of a group are written
\* by different statements and services: as long as requests do not overlap and no
\* approval stops halfway, they agree whenever no request runs, for any number of users
\* and requests and whatever fails.
THEOREM RecordsStayInStep == Spec => []SerialAgree
<1>1. Init /\ [][Next]_vars /\ []TypeInv => []SerialInv
  BY SerialInit, SerialStep, PTL
<1>2. SerialInv => SerialAgree
  <2> SUFFICES ASSUME SerialInv, ~torn, Quiet
               PROVE  /\ row.alive => \A u \in User : InList(u, row.members) <=> contact[u] > 0
                      /\ ~row.alive => \A u \in User : contact[u] = 0
                      /\ \A u \in User : sess[u] => contact[u] > 0 \/ u \in guests
                      /\ cached # NoList /\ ~passed => row.alive /\ cached = row.members
    BY DEF SerialAgree
  <2>1. RecordsAgree /\ \A r \in Req : pc[r] # "write" /\ pc[r] # "uncache"
    BY DEF SerialInv, Serial, Quiet, Over
  <2>2. QED
    BY <2>1 DEF RecordsAgree
<1>3. QED
  BY <1>1, <1>2, TypesHold, PTL DEF Spec

===============================================================================
