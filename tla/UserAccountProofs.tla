--------------------------- MODULE UserAccountProofs ---------------------------
(*****************************************************************************)
(* Theorems about UserAccount.tla, for any number of requests and any faults. *)
(*****************************************************************************)
EXTENDS UserAccount, TLAPS, SequenceTheorems, FiniteSetTheorems

-------------------------------------------------------------------------------
(* Types                                                                      *)

Active(r) == pc[r] \notin {"idle", "done"}
Rows == DOMAIN account

\* A request of operation o may stand at p.
At(p, o) ==
  /\ p \in {"idle", "done", "send", "code", "burn", "phone", "create", "read", "save",
            "set", "erase", "contacts", "sessions", "uncache", "info", "keep"}
  /\ p = "send" => o = "sms"
  /\ p \in {"code", "burn"} => o \in {"register", "smsLogin"}
  /\ p = "phone" => o \in {"register", "smsLogin", "login"}
  /\ p = "create" => o = "register"
  /\ p \in {"read", "save"} => o \in {"update", "admin"}
  /\ p = "set" => o \in {"able", "disable"}
  /\ p \in {"erase", "contacts", "sessions"} => o = "delete"
  /\ p = "uncache" => o \in {"update", "able", "disable", "delete"}
  /\ p \in {"info", "keep"} => o = "info"

\* What TypeOK says of the tables, and of the requests: each stands in its program
\* and names a row there is.
TableTypes ==
  /\ account \in Seq(Account) /\ info \in Seq(Account)
  /\ ties \in Seq(SUBSET Ties) /\ verdict \in Seq({"normal", "disabled"})
  /\ Len(info) = Len(account) /\ Len(ties) = Len(account) /\ Len(verdict) = Len(account)
  /\ \A i \in DOMAIN info : info[i] = NoInfo \/ info[i].alive
RequestTypes ==
  /\ mine \in [Req -> Account] /\ ret \in [Req -> Results]
  /\ DOMAIN pc = Req /\ DOMAIN req = Req
  /\ \A r \in Req :
       /\ pc[r] = "done" <=> ret[r] # "none"
       /\ pc[r] \in {"save", "keep"} => mine[r].alive
       /\ At(pc[r], op(r))
       /\ Active(r) /\ op(r) \notin ByPhone => id(r) \in Rows
Typed == TableTypes /\ RequestTypes

\* The rows, and the columns beside them, are numbered alike.
LEMMA RowFacts ==
  ASSUME TableTypes
  PROVE  /\ Rows = 1 .. Len(account) /\ Len(account) \in Nat
         /\ DOMAIN info = Rows /\ DOMAIN ties = Rows /\ DOMAIN verdict = Rows
         /\ \A i \in Rows : /\ account[i] \in Account /\ info[i] \in Account
                            /\ ties[i] \in SUBSET Ties /\ verdict[i] \in {"normal", "disabled"}
BY LenProperties DEF TableTypes, Rows

\* Writing one row leaves the others, and the numbering, alone.
LEMMA PutFacts ==
  ASSUME NEW S, NEW s \in Seq(S), NEW i \in DOMAIN s, NEW x \in S
  PROVE  /\ [s EXCEPT ![i] = x] \in Seq(S)
         /\ Len([s EXCEPT ![i] = x]) = Len(s)
         /\ DOMAIN [s EXCEPT ![i] = x] = DOMAIN s
BY ExceptSeq, LenProperties

\* A request's first statement is its program's.
LEMMA EntryFacts ==
  ASSUME NEW o \in DOMAIN Entry
  PROVE  Entry[o] \notin {"idle", "done", "save", "keep"} /\ At(Entry[o], o)
BY DEF Entry, At

\* A request begins.
LEMMA TypedBegin ==
  ASSUME Typed, NEW r \in Req, Begin(r)
  PROVE  Typed'
<1>1. PICK o \in DOMAIN Entry :
        /\ \E i \in IF o \in ByPhone THEN {0} ELSE DOMAIN account :
             req' = [req EXCEPT ![r] = [op |-> o, id |-> i]]
        /\ pc' = [pc EXCEPT ![r] = Entry[o]] /\ ret' = ret
  BY DEF Begin, Goto
<1>2. PICK i \in IF o \in ByPhone THEN {0} ELSE DOMAIN account :
        req' = [req EXCEPT ![r] = [op |-> o, id |-> i]]
  BY <1>1
<1>3. UNCHANGED <<account, info, ties, verdict, mine, ret>> /\ pc[r] = "idle"
  BY DEF Begin, Goto, dbVars
<1>4. PICK p : p = Entry[o]
  OBVIOUS
<1>5. p \notin {"idle", "done", "save", "keep"} /\ At(p, o)
  BY <1>4, EntryFacts
<1>6. /\ pc'[r] = p /\ req'[r].op = o /\ req'[r].id = i
      /\ \A s \in Req : s # r => pc'[s] = pc[s] /\ req'[s] = req[s]
      /\ DOMAIN pc' = Req /\ DOMAIN req' = Req
  BY <1>1, <1>2, <1>4 DEF Typed, RequestTypes
<1>7. o \notin ByPhone => i \in Rows
  BY <1>2 DEF Rows
<1>8. RequestTypes'
  BY <1>3, <1>5, <1>6, <1>7 DEF Typed, RequestTypes, op, id, Active, Rows
<1>9. QED
  BY <1>3, <1>8 DEF Typed, TableTypes

\* A request takes a step to p, or answers.
Steps(r, p) ==
  \/ p # "done" /\ p # "idle" /\ Goto(r, p)
  \/ p = "done" /\ \E a \in {"ok", "refused", "failed"} : Answer(r, a)

\* If p is in its program, and what it saves there an account, it stays typed.
LEMMA TypedSteps ==
  ASSUME Typed, NEW r \in Req, Active(r), NEW p, Steps(r, p), At(p, op(r)), UNCHANGED req,
         Rows \subseteq Rows',
         \/ mine' = mine /\ p \notin {"save", "keep"}
         \/ \E x \in Account : x.alive /\ mine' = [mine EXCEPT ![r] = x]
  PROVE  RequestTypes'
<1>1. /\ pc' = [pc EXCEPT ![r] = p]
      /\ \/ p # "done" /\ ret' = ret
         \/ p = "done" /\ \E a \in {"ok", "refused", "failed"} : ret' = [ret EXCEPT ![r] = a]
  BY DEF Steps, Goto, Answer
<1>2. ret[r] = "none"
  BY DEF Active, Typed, RequestTypes, Results
<1>3. ret' \in [Req -> Results] /\ \A s \in Req : pc'[s] = "done" <=> ret'[s] # "none"
  BY <1>1, <1>2 DEF Typed, RequestTypes, Results
<1>4. mine' \in [Req -> Account] /\ \A s \in Req : pc'[s] \in {"save", "keep"} => mine'[s].alive
  BY <1>1 DEF Typed, RequestTypes
<1>5. \A s \in Req : At(pc'[s], op(s)')
  BY <1>1 DEF Typed, RequestTypes, op
<1>6. \A s \in Req : Active(s)' /\ op(s)' \notin ByPhone => id(s)' \in Rows'
  BY <1>1 DEF Typed, RequestTypes, op, id, Active
<1>7. DOMAIN pc' = Req /\ DOMAIN req' = Req
  BY <1>1 DEF Typed, RequestTypes
<1>8. QED
  BY <1>3, <1>4, <1>5, <1>6, <1>7 DEF RequestTypes

\* The steps that leave the tables alone.
LEMMA TypedQuiet ==
  ASSUME Typed, NEW r \in Req,
         \/ SendSmsCode(r) \/ CompareCode(r) \/ BurnCode(r) \/ FindPhone(r)
         \/ ReadAccount(r) \/ StatementFails(r)
  PROVE  Typed'
<1>1. UNCHANGED <<account, info, ties, verdict, req>>
  BY DEF SendSmsCode, CompareCode, BurnCode, FindPhone, ReadAccount, StatementFails, dbVars
<1>2. TableTypes' /\ Rows \subseteq Rows'
  BY <1>1 DEF Typed, TableTypes, Rows
<1>3. At(pc[r], op(r))
  BY DEF Typed, RequestTypes
<1>4. CASE ReadAccount(r) /\ account[id(r)].alive
  <2>1. /\ pc[r] = "read" /\ Steps(r, "save")
        /\ mine' = [mine EXCEPT ![r] = Edited(r, account[id(r)])]
    BY <1>4 DEF ReadAccount, Steps
  <2>2. account[id(r)] \in Account
    BY <2>1, <1>3, RowFacts DEF Typed, RequestTypes, Active, At, ByPhone
  <2>3. Edited(r, account[id(r)]) \in Account /\ Edited(r, account[id(r)]).alive
    BY <1>4, <2>2 DEF Edited, Account
  <2>4. At("save", op(r)) /\ Active(r)
    BY <1>3, <2>1 DEF At, Active
  <2>5. RequestTypes'
    BY <1>1, <1>2, <2>1, <2>3, <2>4, TypedSteps
  <2>6. QED
    BY <1>2, <2>5 DEF Typed
<1>5. CASE ~(ReadAccount(r) /\ account[id(r)].alive)
  <2>1. Active(r) /\ mine' = mine
    BY <1>5 DEF SendSmsCode, CompareCode, BurnCode, FindPhone, ReadAccount, StatementFails, Active
  <2>2. PICK p : Steps(r, p) /\ At(p, op(r)) /\ p \notin {"save", "keep"}
    <3>1. CASE SendSmsCode(r) \/ StatementFails(r) \/ ReadAccount(r)
      BY <1>3, <1>5, <3>1 DEF SendSmsCode, StatementFails, ReadAccount, Steps, At
    <3>2. CASE CompareCode(r)
      BY <1>3, <3>2 DEF CompareCode, Steps, At
    <3>3. CASE BurnCode(r)
      BY <1>3, <3>3 DEF BurnCode, Steps, At
    <3>4. CASE FindPhone(r)
      BY <1>3, <3>4 DEF FindPhone, Steps, At
    <3>5. QED
      BY <3>1, <3>2, <3>3, <3>4
  <2>3. RequestTypes'
    BY <1>1, <1>2, <2>1, <2>2, TypedSteps
  <2>4. QED
    BY <1>2, <2>3 DEF Typed
<1>6. QED
  BY <1>4, <1>5

\* The steps that write a table: what each writes, and where the request goes.
LEMMA TypedWrite ==
  ASSUME Typed, NEW r \in Req,
         \/ CreateAccount(r) \/ SaveAccount(r) \/ SetStatus(r)
         \/ Erase(r) \/ DropTies(r) \/ Uncache(r) \/ GetUserInfo(r)
  PROVE  Typed'
<1> DEFINE i == id(r)
<1>0. At(pc[r], op(r)) /\ (Active(r) /\ op(r) \notin ByPhone => i \in Rows)
  BY DEF Typed, RequestTypes
<1>1. CASE CreateAccount(r)
  <2>1. /\ account' = Append(account, NewAccount) /\ ties' = Append(ties, {})
        /\ info' = Append(info, NoInfo) /\ verdict' = Append(verdict, "normal")
        /\ Steps(r, "done") /\ Active(r) /\ UNCHANGED <<req, mine>>
    BY <1>1 DEF CreateAccount, Steps, Active
  <2>2. NewAccount \in Account /\ NoInfo \in Account
    BY DEF NewAccount, NoInfo, Account
  <2>3. /\ account' \in Seq(Account) /\ Len(account') = Len(account) + 1
        /\ ties' \in Seq(SUBSET Ties) /\ Len(ties') = Len(account) + 1
        /\ verdict' \in Seq({"normal", "disabled"}) /\ Len(verdict') = Len(account) + 1
    BY <2>1, <2>2, AppendProperties DEF Typed, TableTypes
  <2>4. /\ info' \in Seq(Account) /\ Len(info') = Len(account) + 1
        /\ \A j \in DOMAIN info' : info'[j] = NoInfo \/ info'[j].alive
    BY <2>1, <2>2, AppendProperties, LenProperties DEF Typed, TableTypes
  <2>5. Rows \subseteq Rows'
    BY <2>3, LenProperties DEF Rows, Typed, TableTypes
  <2>6. RequestTypes'
    BY <1>0, <2>1, <2>5, TypedSteps DEF At
  <2>7. QED
    BY <2>3, <2>4, <2>6 DEF Typed, TableTypes
<1>2. CASE SaveAccount(r) \/ SetStatus(r) \/ Erase(r)
  <2>1. /\ pc[r] \in {"save", "set", "erase"} /\ UNCHANGED <<info, ties, req, mine>>
        /\ Active(r)
    BY <1>2 DEF SaveAccount, SetStatus, Erase, Active
  <2>2. i \in Rows /\ account[i] \in Account /\ mine[r] \in Account
    BY <1>0, <2>1, RowFacts DEF At, ByPhone, Typed, RequestTypes
  <2>3. \/ account' = account
        \/ \E x \in Account : account' = [account EXCEPT ![i] = x]
    <3>1. CASE SaveAccount(r)
      BY <2>2, <3>1 DEF SaveAccount
    <3>2. CASE SetStatus(r)
      <4>1. \/ account' = account
            \/ \E x \in {"normal", "disabled"} : account' = [account EXCEPT ![i] = [account[i] EXCEPT !.status = x]]
        BY <3>2 DEF SetStatus
      <4>2. \A x \in {"normal", "disabled"} : [account[i] EXCEPT !.status = x] \in Account
        BY <2>2 DEF Account
      <4>3. QED
        BY <4>1, <4>2
    <3>3. CASE Erase(r)
      <4>1. \/ account' = account
            \/ account' = [account EXCEPT ![i] = [account[i] EXCEPT !.alive = FALSE]]
        BY <3>3 DEF Erase
      <4>2. [account[i] EXCEPT !.alive = FALSE] \in Account
        BY <2>2 DEF Account
      <4>3. QED
        BY <4>1, <4>2
    <3>4. QED
      BY <1>2, <3>1, <3>2, <3>3
  <2>4. \/ verdict' = verdict
        \/ \E x \in {"normal", "disabled"} : verdict' = [verdict EXCEPT ![i] = x]
    BY <1>2 DEF SaveAccount, SetStatus, Erase
  <2>5. account' \in Seq(Account) /\ Len(account') = Len(account) /\ Rows' = Rows
    BY <2>2, <2>3, PutFacts DEF Rows, Typed, TableTypes
  <2>6. verdict' \in Seq({"normal", "disabled"}) /\ Len(verdict') = Len(verdict)
    <3>1. verdict \in Seq({"normal", "disabled"}) /\ i \in DOMAIN verdict
      BY <2>2, RowFacts DEF Typed, TableTypes
    <3>2. QED
      BY ONLY <2>4, <3>1, PutFacts
  <2>7. PICK p \in {"done", "uncache", "contacts"} : Steps(r, p) /\ At(p, op(r))
    BY <1>0, <1>2, <2>1 DEF SaveAccount, SetStatus, Erase, Finish, Uncaches, Steps, At
  <2>8. RequestTypes'
    BY <2>1, <2>5, <2>7, TypedSteps
  <2>9. QED
    BY <2>1, <2>5, <2>6, <2>8 DEF Typed, TableTypes
<1>3. CASE DropTies(r)
  <2>1. /\ pc[r] \in {"contacts", "sessions"} /\ UNCHANGED <<account, info, verdict, req, mine>>
        /\ Active(r) /\ (ties' = ties \/ \E x \in Ties : ties' = [ties EXCEPT ![i] = @ \ {x}])
    BY <1>3 DEF DropTies, Active, Ties, dbVars
  <2>2. i \in Rows /\ ties[i] \in SUBSET Ties
    BY <1>0, <2>1, RowFacts DEF At, ByPhone, Typed
  <2>3. ties' = ties \/ \E y \in SUBSET Ties : ties' = [ties EXCEPT ![i] = y]
    BY <2>1, <2>2
  <2>4. ties' \in Seq(SUBSET Ties) /\ Len(ties') = Len(ties)
    BY <2>2, <2>3, PutFacts, RowFacts DEF Typed, TableTypes
  <2>5. PICK p \in {"done", "uncache", "sessions"} : Steps(r, p) /\ At(p, op(r))
    BY <1>0, <1>3 DEF DropTies, Finish, Uncaches, Steps, At
  <2>6. RequestTypes'
    BY <2>1, <2>5, TypedSteps DEF Rows
  <2>7. QED
    BY <2>1, <2>4, <2>6 DEF Typed, TableTypes
<1>4. CASE Uncache(r) \/ GetUserInfo(r)
  <2>1. /\ pc[r] \in {"uncache", "info", "keep"} /\ UNCHANGED <<account, ties, verdict, req>>
        /\ Active(r)
    BY <1>4 DEF Uncache, GetUserInfo, Active
  <2>2. i \in Rows /\ account[i] \in Account /\ mine[r] \in Account
        /\ (pc[r] = "keep" => mine[r].alive)
    BY <1>0, <2>1, RowFacts DEF At, ByPhone, Typed, RequestTypes
  <2>3. info' = info \/ \E x \in Account : (x = NoInfo \/ x.alive) /\ info' = [info EXCEPT ![i] = x]
    BY <1>4, <2>2 DEF Uncache, GetUserInfo, NoInfo, NewAccount, Account
  <2>4. /\ info' \in Seq(Account) /\ Len(info') = Len(info)
        /\ \A j \in DOMAIN info' : info'[j] = NoInfo \/ info'[j].alive
    <3>1. CASE info' = info
      BY <3>1 DEF Typed, TableTypes
    <3>2. ASSUME NEW x \in Account, x = NoInfo \/ x.alive, info' = [info EXCEPT ![i] = x]
          PROVE  /\ info' \in Seq(Account) /\ Len(info') = Len(info)
                 /\ \A j \in DOMAIN info' : info'[j] = NoInfo \/ info'[j].alive
      BY <2>2, <3>2, PutFacts, RowFacts DEF Typed, TableTypes
    <3>3. QED
      BY <2>3, <3>1, <3>2
  <2>5. PICK p \in {"done", "keep"} :
          /\ Steps(r, p) /\ At(p, op(r))
          /\ \/ mine' = mine /\ p = "done"
             \/ \E x \in Account : x.alive /\ mine' = [mine EXCEPT ![r] = x]
    BY <1>0, <1>4, <2>2 DEF Uncache, GetUserInfo, Found, Steps, At
  <2>6. RequestTypes'
    BY <2>1, <2>5, TypedSteps DEF Rows
  <2>7. QED
    BY <2>1, <2>4, <2>6 DEF Typed, TableTypes
<1>5. QED
  BY <1>1, <1>2, <1>3, <1>4

\* A key's time is over.
LEMMA TypedExpire ==
  ASSUME Typed, Expire
  PROVE  Typed'
<1>1. UNCHANGED <<account, ties, verdict, pc, req, mine, ret>>
  BY DEF Expire
<1>2. RequestTypes'
  BY <1>1 DEF Typed, RequestTypes, At, Active, op, id, Rows
<1>3. info' = info \/ \E i \in DOMAIN info : info' = [info EXCEPT ![i] = NoInfo]
  BY DEF Expire
<1>4. NoInfo \in Account
  BY DEF NoInfo, NewAccount, Account
<1>5. /\ info' \in Seq(Account) /\ Len(info') = Len(info)
      /\ \A j \in DOMAIN info' : info'[j] = NoInfo \/ info'[j].alive
  <2>1. info \in Seq(Account) /\ \A j \in DOMAIN info : info[j] = NoInfo \/ info[j].alive
    BY DEF Typed, TableTypes
  <2>2. QED
    BY ONLY <1>3, <1>4, <2>1, PutFacts
<1>6. QED
  BY <1>1, <1>2, <1>5 DEF Typed, TableTypes

\* Typed holds in every reachable state.
LEMMA TypedCorrect == Spec => []Typed
<1>1. Init => Typed
  <2> SUFFICES ASSUME Init PROVE Typed
    OBVIOUS
  <2>1. NewAccount \in Account /\ NoInfo \in Account
    BY DEF NewAccount, NoInfo, Account
  <2>2. RequestTypes
    BY <2>1 DEF Init, RequestTypes, At, Active, Results
  <2>3. TableTypes
    BY <2>1 DEF Init, TableTypes
  <2>4. QED
    BY <2>2, <2>3 DEF Typed
<1>2. Typed /\ [Next]_vars => Typed'
  <2> SUFFICES ASSUME Typed, [Next]_vars PROVE Typed'
    OBVIOUS
  <2>1. CASE Next /\ ~Expire
    BY <2>1, TypedBegin, TypedQuiet, TypedWrite DEF Next
  <2>2. CASE Expire
    BY <2>2, TypedExpire
  <2>3. CASE UNCHANGED vars
    BY <2>3 DEF vars, dbVars, Typed, TableTypes, RequestTypes, At, Active, op, id, Rows
  <2>4. QED
    BY <2>1, <2>2, <2>3 DEF Next
<1>3. QED
  BY <1>1, <1>2, PTL DEF Spec

\* Rows, caches and requests stay well formed however requests interleave: what is
\* cached, or about to be saved, was an account that was there.
THEOREM TypeCorrect == Spec => []TypeOK
<1>1. Typed => TypeOK
  BY DEF Typed, TableTypes, RequestTypes, TypeOK
<1>2. QED
  BY <1>1, TypedCorrect, PTL

-------------------------------------------------------------------------------
(* One account, one verdict                                                   *)

\* A request that writes and is not over.
WritesNow(r) == Active(r) /\ op(r) \in Writers
Deleting(r, i) == pc[r] \in {"contacts", "sessions"} /\ id(r) = i

\* Unless requests that write have overlapped, or one has failed halfway: a request
\* that writes finds the table as it has read it, and a deletion under way accounts
\* for what a deleted user still has.
Orderly ==
  /\ \A r, s \in Req : WritesNow(r) /\ WritesNow(s) => r = s
  /\ \A i, j \in Rows : account[i].alive /\ account[j].alive => i = j
  /\ \A r \in Req : pc[r] = "create" => \A i \in Rows : ~account[i].alive
  /\ \A r \in Req : pc[r] = "save" =>
       account[id(r)].alive /\ mine[r] = Edited(r, account[id(r)])
  /\ \A i \in Rows : account[i].alive \/ ties[i] = {} \/ \E r \in Req : Deleting(r, i)
  /\ \A r \in Req : pc[r] = "sessions" => ties[id(r)] \subseteq {"sessions"}
  /\ \A i \in Rows : account[i].status = verdict[i]

FreshInfo(i) ==
  account[i].alive /\ info[i].name = account[i].name /\ info[i].status = account[i].status

\* If no requests at all have overlapped, what is cached, or about to be, is what the
\* table holds, or the request that has changed the row is about to uncache it.
Serial ==
  /\ \A r, s \in Req : Active(r) /\ Active(s) => r = s
  /\ \A r \in Req : pc[r] = "keep" => mine[r] = account[id(r)]
  /\ \A i \in Rows : info[i] # NoInfo =>
       FreshInfo(i) \/ \E r \in Req : pc[r] \in {"contacts", "sessions", "uncache"} /\ id(r) = i

\* While a request writes no other one does.
LEMMA OneWriter ==
  ASSUME Typed, Orderly, NEW r \in Req, WritesNow(r), NEW s \in Req, s # r
  PROVE  pc[s] \notin {"create", "save", "contacts", "sessions"} /\ ~WritesNow(s)
BY DEF Orderly, WritesNow, Active, Typed, RequestTypes, At, Writers

\* A step that changes no row, and starts or ends none of the requests that are about
\* to, keeps the order.
LEMMA OrderlyQuiet ==
  ASSUME Typed, Orderly, NEW r \in Req, NEW p,
         UNCHANGED <<account, ties, verdict, req>>, pc' = [pc EXCEPT ![r] = p],
         \A s \in Req : s # r => mine'[s] = mine[s],
         Active(r), pc[r] \notin {"contacts", "sessions"},
         p \notin {"create", "save", "contacts", "sessions"}
  PROVE  Orderly'
<1>1. \A s \in Req : s # r => pc'[s] = pc[s] /\ mine'[s] = mine[s]
  BY DEF Typed, RequestTypes
<1>2. pc'[r] = p
  BY DEF Typed, RequestTypes
<1>3. \A s \in Req : WritesNow(s)' => WritesNow(s)
  BY <1>1, <1>2 DEF WritesNow, Active, op
<1>4. \A i : \A s \in Req : Deleting(s, i) => Deleting(s, i)'
  BY <1>1 DEF Deleting, id
<1>5. QED
  BY <1>1, <1>2, <1>3, <1>4 DEF Orderly, Edited, op, id, Rows

\* A request begins: if it writes, no other one does.
LEMMA OrderlyBegin ==
  ASSUME Typed, Orderly, ~torn', NEW r \in Req, Begin(r)
  PROVE  Orderly'
<1>1. PICK o \in DOMAIN Entry :
        /\ \E i : req' = [req EXCEPT ![r] = [op |-> o, id |-> i]]
        /\ pc' = [pc EXCEPT ![r] = Entry[o]]
        /\ o \in Writers => ~Writing
  BY DEF Begin, Goto
<1>2. UNCHANGED <<account, ties, verdict, mine>> /\ pc[r] = "idle"
  BY DEF Begin, dbVars
<1>3. PICK p : p = Entry[o]
  OBVIOUS
<1>4. /\ pc'[r] = p /\ req'[r].op = o
      /\ \A s \in Req : s # r => pc'[s] = pc[s] /\ req'[s] = req[s]
  BY <1>1, <1>3 DEF Typed, RequestTypes
<1>5. p \notin {"create", "save", "contacts", "sessions"}
  BY <1>3 DEF Entry
<1>6. \A s, t \in Req : WritesNow(s)' /\ WritesNow(t)' => s = t
  BY <1>1, <1>4 DEF WritesNow, Active, op, Writing, Orderly
<1>7. \A i : \A s \in Req : Deleting(s, i) => Deleting(s, i)'
  BY <1>2, <1>4 DEF Deleting, id
<1>8. QED
  BY <1>2, <1>4, <1>5, <1>6, <1>7 DEF Orderly, Edited, op, id, Rows

\* A request goes from p to q, both among what one that writes goes through.
LEMMA WriterMoves ==
  ASSUME Typed, Orderly, NEW r \in Req, WritesNow(r), NEW q,
         UNCHANGED req, pc' = [pc EXCEPT ![r] = q]
  PROVE  /\ pc'[r] = q
         /\ \A s \in Req : s # r => pc'[s] = pc[s]
         /\ \A s, t \in Req : WritesNow(s)' /\ WritesNow(t)' => s = t
         /\ \A s \in Req : s # r => pc'[s] \notin {"create", "save", "contacts", "sessions"}
<1>1. pc'[r] = q /\ \A s \in Req : s # r => pc'[s] = pc[s]
  BY DEF Typed, RequestTypes
<1>2. \A s \in Req : WritesNow(s)' => s = r
  BY <1>1, OneWriter DEF WritesNow, Active, op
<1>3. QED
  BY <1>1, <1>2, OneWriter

\* The telephone is looked up: a request that goes on to create has found no account.
LEMMA OrderlyFind ==
  ASSUME Typed, Orderly, ~torn', NEW r \in Req, FindPhone(r)
  PROVE  Orderly'
<1>1. /\ UNCHANGED <<account, ties, verdict, req, mine>> /\ pc[r] = "phone"
      /\ \/ pc' = [pc EXCEPT ![r] = "create"] /\ op(r) = "register" /\ ~Taken
         \/ \E p \in {"done", "code"} : pc' = [pc EXCEPT ![r] = p]
  BY DEF FindPhone, Goto, Answer, dbVars
<1>2. CASE \E p \in {"done", "code"} : pc' = [pc EXCEPT ![r] = p]
  BY <1>1, <1>2, OrderlyQuiet DEF Active
<1>3. CASE pc' = [pc EXCEPT ![r] = "create"] /\ op(r) = "register" /\ ~Taken
  <2>1. WritesNow(r)
    BY <1>1, <1>3 DEF WritesNow, Active, Writers
  <2>2. \A i \in Rows : ~account[i].alive
    BY <1>3 DEF Taken, Alive, Rows
  <2>3. \A i : \A s \in Req : Deleting(s, i) => Deleting(s, i)'
    BY <1>1, <1>3, <2>1, WriterMoves DEF Deleting, id
  <2>4. /\ \A s, t \in Req : WritesNow(s)' /\ WritesNow(t)' => s = t
        /\ \A s \in Req : pc'[s] \notin {"save", "sessions"}
    BY <1>1, <1>3, <2>1, WriterMoves
  <2>5. QED
    BY <1>1, <2>2, <2>3, <2>4 DEF Orderly, Rows
<1>4. QED
  BY <1>1, <1>2, <1>3

\* A row is read: what is about to be saved is that row, edited.
LEMMA OrderlyRead ==
  ASSUME Typed, Orderly, NEW r \in Req, ReadAccount(r)
  PROVE  Orderly'
<1>1. /\ UNCHANGED <<account, ties, verdict, req>> /\ pc[r] = "read"
      /\ \/ /\ pc' = [pc EXCEPT ![r] = "save"] /\ account[id(r)].alive
            /\ mine' = [mine EXCEPT ![r] = Edited(r, account[id(r)])]
         \/ pc' = [pc EXCEPT ![r] = "done"] /\ mine' = mine
  BY DEF ReadAccount, Goto, Answer, dbVars
<1>2. CASE pc' = [pc EXCEPT ![r] = "done"] /\ mine' = mine
  BY <1>1, <1>2, OrderlyQuiet DEF Active
<1>3. CASE /\ pc' = [pc EXCEPT ![r] = "save"] /\ account[id(r)].alive
           /\ mine' = [mine EXCEPT ![r] = Edited(r, account[id(r)])]
  <2>1. WritesNow(r)
    BY <1>1 DEF WritesNow, Active, Writers, Typed, RequestTypes, At
  <2>2. mine'[r] = Edited(r, account[id(r)])
    BY <1>3 DEF Typed, RequestTypes
  <2>3. \A i : \A s \in Req : Deleting(s, i) => Deleting(s, i)'
    BY <1>1, <1>3, <2>1, WriterMoves DEF Deleting, id
  <2>4. \A s \in Req : pc'[s] = "save" => s = r
    BY <1>1, <1>3, <2>1, WriterMoves
  <2>5. \A s \in Req : pc'[s] \notin {"create", "sessions"}
    BY <1>1, <1>3, <2>1, WriterMoves
  <2>6. \A s, t \in Req : WritesNow(s)' /\ WritesNow(t)' => s = t
    BY <1>1, <1>3, <2>1, WriterMoves
  <2>7. id(r)' = id(r) /\ Edited(r, account[id(r)])' = Edited(r, account[id(r)])
    BY <1>1 DEF id, Edited, op
  <2>8. Rows' = Rows /\ UNCHANGED <<account, ties, verdict>>
    BY <1>1 DEF Rows
  <2>9. QED
    BY <1>3, <2>2, <2>3, <2>4, <2>5, <2>6, <2>7, <2>8 DEF Orderly
<1>4. QED
  BY <1>1, <1>2, <1>3

\* An account is created: it is the only one.
LEMMA OrderlyCreate ==
  ASSUME Typed, Orderly, NEW r \in Req, CreateAccount(r)
  PROVE  Orderly'
<1>1. /\ account' = Append(account, NewAccount) /\ ties' = Append(ties, {})
      /\ verdict' = Append(verdict, "normal")
      /\ pc' = [pc EXCEPT ![r] = "done"] /\ pc[r] = "create" /\ UNCHANGED <<req, mine>>
  BY DEF CreateAccount, Answer
<1>2. WritesNow(r)
  BY <1>1 DEF WritesNow, Active, Writers, Typed, RequestTypes, At
<1>3. PICK n : n = Len(account) + 1
  OBVIOUS
<1>4. NewAccount \in Account /\ NewAccount.alive /\ NewAccount.status = "normal"
  BY DEF NewAccount, Account
<1>5. /\ Rows = 1 .. Len(account) /\ Rows' = 1 .. n /\ Len(account) \in Nat
      /\ \A i \in Rows : account'[i] = account[i] /\ ties'[i] = ties[i] /\ verdict'[i] = verdict[i]
      /\ account'[n] = NewAccount /\ ties'[n] = {} /\ verdict'[n] = "normal"
  BY <1>1, <1>3, <1>4, AppendProperties, LenProperties DEF Typed, TableTypes, Rows
<1>6. \A i \in Rows : ~account[i].alive
  BY <1>1 DEF Orderly
<1>7. \A i \in Rows' : i = n \/ i \in Rows
  BY <1>3, <1>5
<1>8. \A i : \A s \in Req : Deleting(s, i) => Deleting(s, i)'
  BY <1>1, <1>2, WriterMoves DEF Deleting, id
<1>9. \A s \in Req : pc'[s] \notin {"create", "save", "sessions"}
  BY ONLY Typed, Orderly, r \in Req, <1>1, <1>2, WriterMoves
<1>10. \A s, t \in Req : WritesNow(s)' /\ WritesNow(t)' => s = t
  BY <1>1, <1>2, WriterMoves
<1>11. \A j \in Rows' : account'[j].alive => j = n
  BY <1>5, <1>6, <1>7
<1>12. \A j \in Rows' : account'[j].status = verdict'[j]
  BY <1>4, <1>5, <1>7 DEF Orderly
<1>13. \A j \in Rows' : account'[j].alive \/ ties'[j] = {} \/ \E s \in Req : Deleting(s, j)'
  BY <1>5, <1>7, <1>8 DEF Orderly
<1>14. QED
  BY <1>9, <1>10, <1>11, <1>12, <1>13 DEF Orderly

\* A row is saved, or given a status: it is there, and has the last verdict.
LEMMA OrderlySave ==
  ASSUME Typed, Orderly, NEW r \in Req, SaveAccount(r) \/ SetStatus(r)
  PROVE  Orderly'
<1> DEFINE i == id(r)
<1>1. /\ UNCHANGED <<ties, req, mine>> /\ pc[r] \in {"save", "set"}
      /\ \E p \in {"done", "uncache"} : pc' = [pc EXCEPT ![r] = p]
  BY DEF SaveAccount, SetStatus, Finish, Goto, Answer
<1>2. WritesNow(r) /\ i \in Rows /\ account[i] \in Account /\ mine[r] \in Account
  BY <1>1, RowFacts DEF WritesNow, Active, Writers, ByPhone, Typed, RequestTypes, At
<1>3. CASE UNCHANGED <<account, verdict>>
  BY <1>1, <1>2, <1>3, OrderlyQuiet DEF WritesNow
<1>4. CASE ~UNCHANGED <<account, verdict>>
  <2>1. PICK row \in Account, v \in {"normal", "disabled"} :
          /\ account' = [account EXCEPT ![i] = row] /\ row.alive /\ row.status = v
          /\ verdict' = [verdict EXCEPT ![i] = v]
          /\ account[i].alive
    <3>1. CASE SaveAccount(r)
      <4>1. /\ account' = [account EXCEPT ![i] = mine[r]] /\ verdict' = verdict
            /\ mine[r] = Edited(r, account[i]) /\ account[i].alive
            /\ account[i].status = verdict[i]
        BY <1>2, <3>1 DEF SaveAccount, Orderly
      <4>2. mine[r].alive /\ mine[r].status = verdict[i]
        BY <1>2, <4>1 DEF Edited, Account
      <4>3. verdict' = [verdict EXCEPT ![i] = verdict[i]] /\ verdict[i] \in {"normal", "disabled"}
        BY <1>2, <4>1, RowFacts DEF Typed, TableTypes
      <4>4. QED
        BY <1>2, <4>1, <4>2, <4>3
    <3>2. CASE SetStatus(r)
      <4>1. PICK v \in {"normal", "disabled"} :
              /\ account' = [account EXCEPT ![i] = [account[i] EXCEPT !.status = v]]
              /\ verdict' = [verdict EXCEPT ![i] = v] /\ account[i].alive
        BY <1>4, <3>2 DEF SetStatus
      <4>2. /\ [account[i] EXCEPT !.status = v] \in Account
            /\ [account[i] EXCEPT !.status = v].alive /\ [account[i] EXCEPT !.status = v].status = v
        BY <1>2, <4>1 DEF Account
      <4>3. QED
        BY <4>1, <4>2
    <3>3. QED
      BY <3>1, <3>2
  <2>2. /\ Rows' = Rows /\ account'[i] = row /\ verdict'[i] = v
        /\ \A j \in Rows : j # i => account'[j] = account[j] /\ verdict'[j] = verdict[j]
    BY <1>2, <2>1, RowFacts DEF Rows, Typed
  <2>3. \A j \in Rows : account'[j].alive <=> account[j].alive
    BY <2>1, <2>2
  <2>4. \A j : \A s \in Req : Deleting(s, j) => Deleting(s, j)'
    BY <1>1, <1>2, WriterMoves DEF Deleting, id
  <2>5. \A s \in Req : pc'[s] \notin {"create", "save", "sessions"}
    BY <1>1, <1>2, WriterMoves
  <2>6. \A s, t \in Req : WritesNow(s)' /\ WritesNow(t)' => s = t
    BY <1>1, <1>2, WriterMoves
  <2>7. \A j \in Rows' : account'[j].status = verdict'[j]
    BY <2>1, <2>2 DEF Orderly
  <2>8. \A j \in Rows' : account'[j].alive \/ ties'[j] = {} \/ \E s \in Req : Deleting(s, j)'
    BY <1>1, <2>2, <2>3, <2>4 DEF Orderly
  <2>9. \A j, k \in Rows' : account'[j].alive /\ account'[k].alive => j = k
    BY <2>2, <2>3 DEF Orderly
  <2>10. QED
    BY <2>5, <2>6, <2>7, <2>8, <2>9 DEF Orderly
<1>5. QED
  BY <1>3, <1>4

\* A deletion: what the user has left goes while the request is under way.
LEMMA OrderlyDelete ==
  ASSUME Typed, Orderly, ~torn', NEW r \in Req, Erase(r) \/ DropTies(r)
  PROVE  Orderly'
<1>0. PICK i : i = id(r)
  OBVIOUS
<1>1. /\ pc[r] \in {"erase", "contacts", "sessions"} /\ UNCHANGED <<verdict, req, mine>>
      /\ op(r) = "delete"
  BY DEF Erase, DropTies, dbVars, Typed, RequestTypes, At
<1>2. WritesNow(r) /\ i \in Rows /\ account[i] \in Account /\ ties[i] \in SUBSET Ties
  BY <1>0, <1>1, RowFacts DEF WritesNow, Active, Writers, ByPhone, Typed, RequestTypes
<1>3. CASE Erase(r) /\ ~account[i].alive
  <2>1. UNCHANGED <<account, ties>> /\ pc' = [pc EXCEPT ![r] = "done"] /\ pc[r] = "erase"
    BY <1>0, <1>3 DEF Erase, Answer
  <2>2. QED
    BY <1>1, <1>2, <2>1, OrderlyQuiet DEF WritesNow
<1>4. CASE Erase(r) /\ account[i].alive
  <2>1. /\ account' = [account EXCEPT ![i] = [account[i] EXCEPT !.alive = FALSE]]
        /\ ties' = ties /\ pc' = [pc EXCEPT ![r] = "contacts"] /\ pc[r] = "erase"
    BY <1>0, <1>4 DEF Erase, Goto
  <2>2. PICK row \in Account :
          /\ row = [account[i] EXCEPT !.alive = FALSE]
          /\ ~row.alive /\ row.status = account[i].status
    <3>1. /\ [account[i] EXCEPT !.alive = FALSE] \in Account
          /\ ~[account[i] EXCEPT !.alive = FALSE].alive
          /\ [account[i] EXCEPT !.alive = FALSE].status = account[i].status
      BY <1>2 DEF Account
    <3>2. QED
      BY <3>1
  <2>3. /\ Rows' = Rows /\ account'[i] = row
        /\ \A j \in Rows : j # i => account'[j] = account[j]
    BY <1>2, <2>1, <2>2, RowFacts DEF Rows, Typed
  <2>4. Deleting(r, i)' /\ \A j : \A s \in Req : Deleting(s, j) => Deleting(s, j)'
    BY <1>0, <1>1, <1>2, <2>1, WriterMoves DEF Deleting, id
  <2>5. \A s \in Req : pc'[s] \notin {"create", "save", "sessions"}
    BY <1>1, <1>2, <2>1, WriterMoves
  <2>6. \A s, t \in Req : WritesNow(s)' /\ WritesNow(t)' => s = t
    BY <1>1, <1>2, <2>1, WriterMoves
  <2>7. \A j \in Rows' : account'[j].status = verdict'[j]
    BY <1>1, <2>2, <2>3 DEF Orderly
  <2>8. \A j \in Rows' : account'[j].alive \/ ties'[j] = {} \/ \E s \in Req : Deleting(s, j)'
    <3>1. ASSUME NEW j \in Rows
          PROVE  account'[j].alive \/ ties'[j] = {} \/ \E s \in Req : Deleting(s, j)'
      <4>1. CASE j = i
        BY <2>4, <4>1
      <4>2. CASE j # i
        <5>1. account[j].alive \/ ties[j] = {} \/ \E s \in Req : Deleting(s, j)
          BY DEF Orderly
        <5>2. QED
          BY <2>1, <2>3, <2>4, <4>2, <5>1
      <4>3. QED
        BY <4>1, <4>2
    <3>2. QED
      BY <2>3, <3>1
  <2>9. \A j, k \in Rows' : account'[j].alive /\ account'[k].alive => j = k
    <3>1. \A j \in Rows : account'[j].alive => account[j].alive
      BY <2>2, <2>3
    <3>2. QED
      BY <2>3, <3>1 DEF Orderly
  <2>10. QED
    BY <2>5, <2>6, <2>7, <2>8, <2>9 DEF Orderly
<1>5. CASE DropTies(r)
  <2>1. /\ account' = account
        /\ \/ /\ pc[r] = "contacts" /\ pc' = [pc EXCEPT ![r] = "sessions"]
              /\ ties' = [ties EXCEPT ![i] = @ \ {"contacts"}]
           \/ /\ pc[r] = "sessions" /\ pc' = [pc EXCEPT ![r] = "uncache"]
              /\ ties' = [ties EXCEPT ![i] = @ \ {"sessions"}]
    BY <1>0, <1>1, <1>5 DEF DropTies, Finish, Uncaches, Goto
  <2>2. Rows' = Rows /\ \A j \in Rows : j # i => ties'[j] = ties[j]
    BY <1>2, <2>1, RowFacts DEF Rows, Typed
  <2>3. \/ pc'[r] = "sessions" /\ ties'[i] \subseteq {"sessions"}
        \/ pc'[r] = "uncache" /\ ties'[i] = {}
    <3>1. pc[r] = "sessions" => ties[i] \subseteq {"sessions"}
      BY <1>0 DEF Orderly
    <3>2. DOMAIN ties = Rows
      BY RowFacts DEF Typed
    <3>3. CASE pc[r] = "contacts"
      <4>1. pc'[r] = "sessions" /\ ties'[i] = ties[i] \ {"contacts"}
        BY <1>1, <1>2, <2>1, <3>2, <3>3, WriterMoves
      <4>2. QED
        BY <1>2, <4>1 DEF Ties
    <3>4. CASE pc[r] = "sessions"
      <4>1. pc'[r] = "uncache" /\ ties'[i] = ties[i] \ {"sessions"}
        BY <1>1, <1>2, <2>1, <3>2, <3>4, WriterMoves
      <4>2. QED
        BY <3>1, <3>4, <4>1
    <3>5. QED
      BY <2>1, <3>3, <3>4
  <2>4. \A s \in Req : s # r => pc'[s] \notin {"create", "save", "contacts", "sessions"}
    BY <1>1, <1>2, <2>1, WriterMoves
  <2>5. \A s, t \in Req : WritesNow(s)' /\ WritesNow(t)' => s = t
    BY <1>1, <1>2, <2>1, WriterMoves
  <2>6. \A j \in Rows : j # i => \A s \in Req : Deleting(s, j) => FALSE
    BY <1>0, <1>2, OneWriter DEF Deleting
  <2>7. id(r)' = i
    BY <1>0, <1>1 DEF id
  <2>8. ties'[i] = {} \/ Deleting(r, i)'
    BY <2>3, <2>7 DEF Deleting
  <2>9. \A j \in Rows' : account'[j].alive \/ ties'[j] = {} \/ \E s \in Req : Deleting(s, j)'
    <3>1. ASSUME NEW j \in Rows
          PROVE  account'[j].alive \/ ties'[j] = {} \/ \E s \in Req : Deleting(s, j)'
      <4>1. CASE j = i
        BY <2>8, <4>1
      <4>2. CASE j # i
        <5>1. account[j].alive \/ ties[j] = {} \/ \E s \in Req : Deleting(s, j)
          BY DEF Orderly
        <5>2. QED
          BY <2>1, <2>2, <2>6, <4>2, <5>1
      <4>3. QED
        BY <4>1, <4>2
    <3>2. QED
      BY <2>2, <3>1
  <2>10. \A s \in Req : pc'[s] = "sessions" => ties'[id(s)'] \subseteq {"sessions"}
    BY <2>3, <2>4, <2>7
  <2>11. \A s \in Req : pc'[s] \notin {"create", "save"}
    BY <2>3, <2>4
  <2>12. QED
    BY <1>1, <2>1, <2>2, <2>5, <2>9, <2>10, <2>11 DEF Orderly
<1>6. QED
  BY <1>3, <1>4, <1>5

\* Every step keeps the order, unless requests that write overlap or one fails
\* halfway.
LEMMA OrderlyStep ==
  ASSUME Typed, torn \/ Orderly, [Next]_vars, ~torn'
  PROVE  ~torn /\ Orderly /\ Orderly'
<1>1. ~torn
  <2>1. ASSUME NEW r \in Req, Next, ~Expire PROVE ~torn
    BY <2>1 DEF Next, Begin, StatementFails, SendSmsCode, CompareCode, BurnCode, FindPhone, CreateAccount,
       ReadAccount, SaveAccount, SetStatus, Erase, DropTies, Uncache, GetUserInfo
  <2>2. QED
    BY <2>1 DEF Next, Expire, vars
<1>2. CASE UNCHANGED vars \/ Expire
  <2>1. UNCHANGED <<account, ties, verdict, pc, req, mine>>
    BY <1>2 DEF vars, dbVars, Expire
  <2>2. Orderly /\ Rows' = Rows
    BY <1>1, <2>1 DEF Rows
  <2>3. \A r \in Req : /\ op(r)' = op(r) /\ id(r)' = id(r) /\ WritesNow(r)' = WritesNow(r)
                       /\ \A x : Edited(r, x)' = Edited(r, x) /\ Deleting(r, x)' = Deleting(r, x)
    BY <2>1 DEF op, id, WritesNow, Active, Edited, Deleting
  <2>4. Orderly'
    BY ONLY <2>1, <2>2, <2>3 DEF Orderly, Edited, op
  <2>5. QED
    BY <1>1, <2>2, <2>4
<1>3. ASSUME NEW r \in Req,
             SendSmsCode(r) \/ CompareCode(r) \/ BurnCode(r) \/ StatementFails(r) \/ Uncache(r) \/ GetUserInfo(r)
      PROVE  Orderly'
  <2>1. /\ UNCHANGED <<account, ties, verdict, req>>
        /\ pc[r] \notin {"idle", "done", "contacts", "sessions"}
        /\ \E p \in {"done", "burn", "phone", "keep"} : pc' = [pc EXCEPT ![r] = p]
    BY <1>3 DEF SendSmsCode, CompareCode, BurnCode, StatementFails, Uncache, GetUserInfo, Goto, Answer, dbVars
  <2>2. \A s \in Req : s # r => mine'[s] = mine[s]
    BY <1>3 DEF SendSmsCode, CompareCode, BurnCode, StatementFails, Uncache, GetUserInfo, Typed, RequestTypes
  <2>3. QED
    BY <1>1, <2>1, <2>2, OrderlyQuiet DEF Active
<1>4. QED
  BY <1>1, <1>2, <1>3, OrderlyBegin, OrderlyFind, OrderlyRead, OrderlyCreate, OrderlySave, OrderlyDelete
     DEF Next

\* As long as requests that write do not overlap, and none fails halfway, requests
\* find the tables as they have read them.
LEMMA OrderlyCorrect == Spec => [](torn \/ Orderly)
<1>1. Init => Orderly
  <2> SUFFICES ASSUME Init PROVE Orderly
    OBVIOUS
  <2>1. /\ \A r \in Req : pc[r] = "idle"
        /\ Rows \subseteq {1} /\ \A i \in Rows : account[i] = NewAccount /\ verdict[i] = "normal"
    BY DEF Init, Rows
  <2>2. QED
    BY <2>1 DEF Orderly, WritesNow, Active, NewAccount
<1>2. Typed /\ (torn \/ Orderly) /\ [Next]_vars => (torn \/ Orderly)'
  BY OrderlyStep
<1>3. QED
  BY <1>1, <1>2, TypedCorrect, PTL DEF Spec

\* A request that finds the telephone taken does not create an account, and a deletion
\* ends with what the user had: as long as writing requests neither overlap nor fail
\* halfway, a telephone has one account, and deleted accounts leave nothing.
THEOREM AccountsAreOne == Spec => []OneAccount
<1>1. Typed /\ (torn \/ Orderly) => OneAccount
  <2> SUFFICES ASSUME Typed, Orderly
               PROVE  /\ Cardinality(Alive) <= 1
                      /\ ~Writing => \A i \in DOMAIN account : ~account[i].alive => ties[i] = {}
    BY DEF OneAccount
  <2>1. Cardinality(Alive) <= 1
    <3>1. \A i, j \in Alive : i = j
      BY DEF Orderly, Alive, Rows
    <3>2. CASE Alive = {}
      BY <3>2, FS_EmptySet
    <3>3. CASE Alive # {}
      <4>1. PICK i : Alive = {i}
        BY <3>1, <3>3
      <4>2. QED
        BY <4>1, FS_Singleton
    <3>4. QED
      BY <3>2, <3>3
  <2>2. ~Writing => \A i : \A r \in Req : ~Deleting(r, i)
    BY DEF Writing, Deleting, Typed, RequestTypes, At, Writers
  <2>3. QED
    BY <2>1, <2>2 DEF Orderly, Rows
<1>2. QED
  BY <1>1, TypedCorrect, OrderlyCorrect, PTL

\* Under the same condition a user who changes his account keeps the status that an
\* administrator gave it last.
THEOREM BanStands == Spec => []VerdictStands
<1>1. torn \/ Orderly => VerdictStands
  BY DEF Orderly, VerdictStands, Alive, Rows
<1>2. QED
  BY <1>1, OrderlyCorrect, PTL

-------------------------------------------------------------------------------
(* The cached answer                                                          *)

\* While a request is under way, no other one is, and it alone may leave a stale
\* answer behind.
LEMMA OneRequest ==
  ASSUME Typed, Serial, NEW r \in Req, Active(r)
  PROVE  /\ \A s \in Req : s # r => ~Active(s)
         /\ \A i \in Rows : info[i] # NoInfo =>
              FreshInfo(i) \/ (pc[r] \in {"contacts", "sessions", "uncache"} /\ id(r) = i)
BY DEF Serial, Active, Deleting

\* A step of the only request: what it must show of the cached answers.
LEMMA SerialMoves ==
  ASSUME Typed, Serial, NEW r \in Req, Active(r), NEW q,
         UNCHANGED req, pc' = [pc EXCEPT ![r] = q],
         q = "keep" => mine'[r] = account'[id(r)],
         \A j \in Rows' : info'[j] # NoInfo =>
           \/ account'[j].alive /\ info'[j].name = account'[j].name /\ info'[j].status = account'[j].status
           \/ q \in {"contacts", "sessions", "uncache"} /\ id(r) = j
  PROVE  Serial'
<1>1. pc'[r] = q /\ \A s \in Req : s # r => pc'[s] = pc[s]
  BY DEF Typed, RequestTypes
<1>2. \A s \in Req : Active(s)' => s = r
  BY <1>1, OneRequest DEF Active
<1>3. \A s \in Req : pc'[s] = "keep" => s = r
  BY <1>2 DEF Active
<1>4. id(r)' = id(r)
  BY DEF id
<1>5. \A s \in Req : pc'[s] = "keep" => mine'[s] = account'[id(s)']
  BY <1>1, <1>3, <1>4
<1>6. \A j \in Rows' : info'[j] # NoInfo =>
        FreshInfo(j)' \/ \E s \in Req : pc'[s] \in {"contacts", "sessions", "uncache"} /\ id(s)' = j
  BY <1>1, <1>4 DEF FreshInfo
<1>7. QED
  BY <1>2, <1>5, <1>6 DEF Serial, Deleting

\* A step that changes neither rows nor cached answers, by a request that does not
\* delete.
LEMMA SerialQuiet ==
  ASSUME Typed, Serial, NEW r \in Req, Active(r), NEW q, q # "keep",
         pc[r] \notin {"contacts", "sessions", "uncache"},
         UNCHANGED <<account, info, req>>, pc' = [pc EXCEPT ![r] = q]
  PROVE  Serial'
<1>1. \A j \in Rows : info[j] # NoInfo => FreshInfo(j)
  BY OneRequest
<1>2. Rows' = Rows
  BY DEF Rows
<1>3. QED
  BY <1>1, <1>2, SerialMoves DEF FreshInfo

\* A new account has no cached answer.
LEMMA SerialCreate ==
  ASSUME Typed, Serial, NEW r \in Req, CreateAccount(r)
  PROVE  Serial'
<1>1. /\ account' = Append(account, NewAccount) /\ info' = Append(info, NoInfo)
      /\ pc' = [pc EXCEPT ![r] = "done"] /\ pc[r] = "create" /\ req' = req
  BY DEF CreateAccount, Answer
<1>2. NewAccount \in Account /\ NoInfo \in Account
  BY DEF NewAccount, NoInfo, Account
<1>3. /\ Rows' = 1 .. (Len(account) + 1) /\ Rows = 1 .. Len(account) /\ Len(account) \in Nat
      /\ \A j \in Rows : account'[j] = account[j] /\ info'[j] = info[j]
      /\ info'[Len(account) + 1] = NoInfo
  BY <1>1, <1>2, AppendProperties, LenProperties DEF Typed, TableTypes, Rows
<1>4. \A j \in Rows' : info'[j] # NoInfo => j \in Rows
  BY <1>3
<1>5. Active(r) /\ \A j \in Rows : info[j] # NoInfo => FreshInfo(j)
  BY <1>1, OneRequest DEF Active
<1>6. \A j \in Rows' : info'[j] # NoInfo =>
        account'[j].alive /\ info'[j].name = account'[j].name /\ info'[j].status = account'[j].status
  BY <1>3, <1>4, <1>5 DEF FreshInfo
<1>7. QED
  BY <1>1, <1>5, <1>6, SerialMoves

\* A change of a row is seen in the cache, or is followed by its removal there; an
\* administrator's rights are not part of what InfoIsFresh compares.
LEMMA SerialWrite ==
  ASSUME Typed, Orderly, Serial, ~torn', NEW r \in Req,
         SaveAccount(r) \/ SetStatus(r) \/ Erase(r) \/ DropTies(r)
  PROVE  Serial'
<1>0. PICK i : i = id(r)
  OBVIOUS
<1>1. /\ pc[r] \in {"save", "set", "erase", "contacts", "sessions"} /\ UNCHANGED <<info, req>>
      /\ At(pc[r], op(r)) /\ Active(r)
  BY DEF SaveAccount, SetStatus, Erase, DropTies, dbVars, Active, Typed, RequestTypes
<1>2. i \in Rows /\ account[i] \in Account
  BY <1>0, <1>1, RowFacts DEF Typed, RequestTypes, At, ByPhone
<1>3. /\ Rows' = Rows
      /\ \A j \in Rows : j # i => account'[j] = account[j]
  BY <1>0, <1>1, <1>2 DEF SaveAccount, SetStatus, Erase, DropTies, dbVars, Rows
<1>4. ASSUME NEW j \in Rows, j # i, info[j] # NoInfo
      PROVE  /\ account'[j].alive /\ info'[j].name = account'[j].name
             /\ info'[j].status = account'[j].status
  BY <1>0, <1>1, <1>3, <1>4, OneRequest DEF FreshInfo
<1>5. CASE \E q \in {"contacts", "sessions", "uncache"} : pc' = [pc EXCEPT ![r] = q]
  BY <1>0, <1>1, <1>3, <1>4, <1>5, SerialMoves
<1>6. CASE ~\E q \in {"contacts", "sessions", "uncache"} : pc' = [pc EXCEPT ![r] = q]
  <2>1. ~DropTies(r)
    BY <1>1, <1>6 DEF DropTies, Finish, Uncaches, Goto, At
  <2>2. pc' = [pc EXCEPT ![r] = "done"] /\ pc[r] \in {"save", "set", "erase"}
    BY <1>1, <1>6, <2>1 DEF SaveAccount, SetStatus, Erase, Finish, Goto, Answer
  <2>3. CASE account' = account
    BY <1>1, <2>2, <2>3, SerialQuiet
  <2>4. CASE account' # account
    <3>1. SaveAccount(r) /\ op(r) = "admin"
      BY <1>1, <1>6, <2>1, <2>4 DEF SaveAccount, SetStatus, Erase, Finish, Uncaches, Goto, At
    <3>2. /\ account' = [account EXCEPT ![i] = mine[r]] /\ account[i].alive
          /\ mine[r] = [account[i] EXCEPT !.admin = ~@]
      BY <1>0, <3>1 DEF SaveAccount, Orderly, Edited
    <3>3. /\ account'[i].alive /\ account'[i].name = account[i].name
          /\ account'[i].status = account[i].status
      BY <1>2, <3>2 DEF Account, Rows
    <3>4. info[i] # NoInfo => FreshInfo(i)
      BY <1>1, <1>2, <2>2, OneRequest
    <3>5. \A j \in Rows' : info'[j] # NoInfo =>
            account'[j].alive /\ info'[j].name = account'[j].name /\ info'[j].status = account'[j].status
      BY <1>1, <1>3, <1>4, <3>3, <3>4 DEF FreshInfo
    <3>6. QED
      BY <1>1, <2>2, <3>5, SerialMoves
  <2>5. QED
    BY <2>3, <2>4
<1>7. QED
  BY <1>5, <1>6

\* What is cached is what was read, and nobody has changed it since.
LEMMA SerialCache ==
  ASSUME Typed, Serial, NEW r \in Req, Uncache(r) \/ GetUserInfo(r)
  PROVE  Serial'
<1>0. PICK i : i = id(r)
  OBVIOUS
<1>1. /\ pc[r] \in {"uncache", "info", "keep"} /\ UNCHANGED <<account, req>>
      /\ At(pc[r], op(r)) /\ Active(r)
  BY DEF Uncache, GetUserInfo, Active, Typed, RequestTypes
<1>2. i \in Rows /\ DOMAIN info = Rows /\ Rows' = Rows /\ DOMAIN mine = Req
  BY <1>0, <1>1, RowFacts DEF Typed, RequestTypes, At, ByPhone, Rows
<1>3. \A j \in Rows : j # i /\ info[j] # NoInfo => FreshInfo(j)
  BY <1>0, <1>1, OneRequest
<1>4. CASE Uncache(r)
  <2>1. info' = [info EXCEPT ![i] = NoInfo] /\ pc' = [pc EXCEPT ![r] = "done"]
    BY <1>0, <1>4 DEF Uncache, Answer
  <2>2. QED
    BY <1>1, <1>2, <1>3, <2>1, SerialMoves DEF FreshInfo
<1>5. CASE GetUserInfo(r) /\ pc[r] = "keep"
  <2>1. info' = [info EXCEPT ![i] = mine[r]] /\ pc' = [pc EXCEPT ![r] = "done"]
    BY <1>0, <1>5 DEF GetUserInfo, Answer
  <2>2. mine[r] = account[i] /\ mine[r].alive
    BY <1>0, <1>5 DEF Serial, Typed, RequestTypes
  <2>3. \A j \in Rows : info'[j] # NoInfo =>
          account[j].alive /\ info'[j].name = account[j].name /\ info'[j].status = account[j].status
    BY <1>2, <1>3, <2>1, <2>2 DEF FreshInfo
  <2>4. QED
    BY <1>1, <1>2, <2>1, <2>3, SerialMoves
<1>6. CASE GetUserInfo(r) /\ pc[r] = "info"
  <2>1. /\ info' = info
        /\ \/ pc' = [pc EXCEPT ![r] = "done"]
           \/ pc' = [pc EXCEPT ![r] = "keep"] /\ mine' = [mine EXCEPT ![r] = account[i]]
    BY <1>0, <1>6 DEF GetUserInfo, Goto, Answer
  <2>2. \A j \in Rows : info[j] # NoInfo => FreshInfo(j)
    BY <1>1, <1>6, OneRequest
  <2>3. CASE pc' = [pc EXCEPT ![r] = "done"]
    BY <1>1, <1>6, <2>1, <2>3, SerialQuiet
  <2>4. CASE pc' = [pc EXCEPT ![r] = "keep"] /\ mine' = [mine EXCEPT ![r] = account[i]]
    <3>1. mine'[r] = account'[id(r)]
      BY <1>0, <1>1, <1>2, <2>4
    <3>2. \A j \in Rows' : info'[j] # NoInfo =>
            account'[j].alive /\ info'[j].name = account'[j].name /\ info'[j].status = account'[j].status
      BY <1>1, <1>2, <2>1, <2>2 DEF FreshInfo
    <3>3. QED
      BY <1>1, <2>4, <3>1, <3>2, SerialMoves
  <2>5. QED
    BY <2>1, <2>3, <2>4
<1>7. QED
  BY <1>1, <1>4, <1>5, <1>6 DEF GetUserInfo

\* Every step keeps it, unless requests overlap or one fails halfway.
LEMMA SerialStep ==
  ASSUME Typed, torn \/ Orderly, torn \/ mixed \/ Serial, [Next]_vars, ~torn', ~mixed'
  PROVE  Serial'
<1>1. ~torn /\ Orderly
  BY OrderlyStep
<1>2. ~mixed
  <2>1. ASSUME NEW r \in Req, Next, ~Expire PROVE ~mixed
    BY <2>1 DEF Next, Begin, StatementFails, SendSmsCode, CompareCode, BurnCode, FindPhone, CreateAccount,
       ReadAccount, SaveAccount, SetStatus, Erase, DropTies, Uncache, GetUserInfo
  <2>2. QED
    BY <2>1 DEF Next, Expire, vars
<1>3. Serial
  BY <1>1, <1>2
<1>4. CASE UNCHANGED vars
  BY <1>3, <1>4 DEF vars, dbVars, Serial, Active, FreshInfo, id, Rows
<1>5. CASE Expire
  <2>1. UNCHANGED <<account, pc, req, mine>> /\ \A i \in Rows : info'[i] \in {info[i], NoInfo}
    BY <1>5, RowFacts DEF Expire, Typed
  <2>2. QED
    BY <1>3, <2>1 DEF Serial, Active, FreshInfo, id, Rows
<1>6. ASSUME NEW r \in Req, Begin(r)
      PROVE  Serial'
  <2>1. Quiet /\ UNCHANGED <<account, info, mine>>
    BY <1>2, <1>6 DEF Begin, dbVars
  <2>2. PICK p : p # "keep" /\ pc' = [pc EXCEPT ![r] = p]
    BY <1>6, EntryFacts DEF Begin, Goto
  <2>3. pc'[r] = p /\ \A s \in Req : s # r => pc'[s] = pc[s]
    BY <2>2 DEF Typed, RequestTypes
  <2>4. \A s \in Req : (Active(s)' => s = r) /\ pc'[s] # "keep"
    BY <2>1, <2>2, <2>3 DEF Quiet, Active
  <2>5. \A j \in Rows : info[j] # NoInfo => FreshInfo(j)
    BY <1>3, <2>1 DEF Serial, Quiet
  <2>6. QED
    BY <2>1, <2>4, <2>5 DEF Serial, FreshInfo, Rows
<1>7. ASSUME NEW r \in Req,
             \/ SendSmsCode(r) \/ CompareCode(r) \/ BurnCode(r) \/ FindPhone(r)
             \/ ReadAccount(r) \/ StatementFails(r)
      PROVE  Serial'
  <2>1. /\ UNCHANGED <<account, info, req>>
        /\ pc[r] \notin {"idle", "done", "contacts", "sessions", "uncache"}
        /\ \E p \in {"done", "burn", "phone", "create", "code", "save"} : pc' = [pc EXCEPT ![r] = p]
    BY <1>7 DEF SendSmsCode, CompareCode, BurnCode, FindPhone, ReadAccount, StatementFails, Goto, Answer, dbVars
  <2>2. QED
    BY <1>3, <2>1, SerialQuiet DEF Active
<1>8. QED
  BY <1>1, <1>3, <1>4, <1>5, <1>6, <1>7, SerialCreate, SerialWrite, SerialCache DEF Next

\* As long as no requests overlap and none fails halfway, whoever asks for a user is
\* told, from the cache or not, the name and status of an account that is there.
THEOREM CacheIsFresh == Spec => []InfoIsFresh
<1>1. Init => Serial
  BY DEF Init, Serial, Active, Rows
<1>2. Typed /\ (torn \/ Orderly) /\ (torn \/ mixed \/ Serial) /\ [Next]_vars
        => (torn \/ mixed \/ Serial)'
  BY SerialStep
<1>3. Typed /\ (torn \/ mixed \/ Serial) => InfoIsFresh
  BY RowFacts DEF InfoIsFresh, Serial, Quiet, FreshInfo, Typed
<1>4. QED
  BY <1>1, <1>2, <1>3, TypedCorrect, OrderlyCorrect, PTL DEF Spec

===============================================================================
