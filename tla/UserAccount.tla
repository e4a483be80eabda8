------------------------------ MODULE UserAccount ------------------------------
(*****************************************************************************)
(* The accounts of one telephone number (user_info_service.go): rows of       *)
(* user_info, which nothing but checkTelephoneExist keeps from being two; the *)
(* verification code, which is compared and then deleted; and the cached      *)
(* answer of GetUserInfo. Administrators ban, unban and delete accounts while *)
(* their users change them.                                                   *)
(*                                                                            *)
(* Requests are sequences of statements and interleave. UpdateUserInfo and    *)
(* SetAdmin read a row and Save all of its columns; a Save of a row that was  *)
(* deleted meanwhile brings it back.                                          *)
(*****************************************************************************)
EXTENDS Integers, Sequences, FiniteSets

CONSTANTS
    Req,        \* requests that may be made
    Faults      \* "statement": of MySQL; "rpc": a call of the session service

ASSUME FaultAssumption == Faults \subseteq {"statement", "rpc"}

VARIABLES
    account,    \* the rows with this telephone, in the order of their ids
    ties,       \* per row, what its user has left: contact rows, sessions
    code,       \* auth_code_<telephone> is in the cache
    info,       \* per row, what is under user_info_<uuid>, or NoInfo
    pc, req,    \* where a request stands, and what it is
    mine,       \* the row a request has read, and changed
    ret,        \* the answer of a request
    verdict,    \* history: per row, what an administrator last said of it
    torn,       \* history: requests that write overlapped, or one failed halfway
    mixed       \* history: any requests overlapped

dbVars == <<account, ties, code, info>>
vars == <<dbVars, pc, req, mine, ret, verdict, torn, mixed>>

NewAccount == [name |-> "old", status |-> "normal", admin |-> FALSE, alive |-> TRUE]
NoInfo == [NewAccount EXCEPT !.alive = FALSE]
NoReq == [op |-> "none", id |-> 0]
Ties == {"contacts", "sessions"}
Results == {"none", "ok", "refused", "failed"}

\* The first statement of each request.
Entry == [ sms |-> "send", register |-> "code", smsLogin |-> "phone", login |-> "phone",
           update |-> "read", admin |-> "read", able |-> "set", disable |-> "set",
           delete |-> "erase", info |-> "info" ]
Writers == {"register", "update", "admin", "able", "disable", "delete"}
ByPhone == {"sms", "register", "smsLogin", "login"}

op(r) == req[r].op
id(r) == req[r].id
Quiet == \A r \in Req : pc[r] \in {"idle", "done"}
Writing == \E r \in Req : pc[r] \notin {"idle", "done"} /\ op(r) \in Writers
Alive == {i \in DOMAIN account : account[i].alive}

Goto(r, step) == pc' = [pc EXCEPT ![r] = step] /\ UNCHANGED ret
Answer(r, answer) == pc' = [pc EXCEPT ![r] = "done"] /\ ret' = [ret EXCEPT ![r] = answer]

\* Nobody has registered, or somebody has, with contacts and sessions by now.
Init ==
    /\ account \in {<<>>, <<NewAccount>>}
    /\ ties = [i \in DOMAIN account |-> Ties]
    /\ code = FALSE
    /\ info = [i \in DOMAIN account |-> NoInfo]
    /\ pc = [r \in Req |-> "idle"] /\ req = [r \in Req |-> NoReq]
    /\ mine = [r \in Req |-> NoInfo] /\ ret = [r \in Req |-> "none"]
    /\ verdict = [i \in DOMAIN account |-> "normal"]
    /\ torn = FALSE /\ mixed = FALSE

Begin(r) ==
    /\ pc[r] = "idle"
    /\ \E o \in DOMAIN Entry :
         /\ \E i \in IF o \in ByPhone THEN {0} ELSE DOMAIN account :
              req' = [req EXCEPT ![r] = [op |-> o, id |-> i]]
         /\ Goto(r, Entry[o])
         /\ torn' = (torn \/ (o \in Writers /\ Writing))
    /\ mixed' = (mixed \/ ~Quiet)
    /\ UNCHANGED <<dbVars, mine, verdict>>

-------------------------------------------------------------------------------
(* The code, the telephone and the new account                                *)

\* SendSmsCode: the code of a second message replaces that of the first.
SendSmsCode(r) ==
    /\ pc[r] = "send"
    /\ code' = TRUE
    /\ Answer(r, "ok")
    /\ UNCHANGED <<account, ties, info, req, mine, verdict, torn, mixed>>

\* GetKey and the comparison with what the user was sent.
CompareCode(r) ==
    /\ pc[r] = "code"
    /\ IF code THEN Goto(r, "burn") ELSE Answer(r, "refused")
    /\ UNCHANGED <<dbVars, req, mine, verdict, torn, mixed>>

BurnCode(r) ==
    /\ pc[r] = "burn"
    /\ code' = FALSE
    /\ IF op(r) = "register" THEN Goto(r, "phone") ELSE Answer(r, "ok")
    /\ UNCHANGED <<account, ties, info, req, mine, verdict, torn, mixed>>

\* mutant: only an account that is not banned counts
Taken_IfNormal == \E i \in Alive : account[i].status = "normal"
Taken == Alive # {}

\* Login, SmsLogin and checkTelephoneExist look for an account by its telephone.
\* Register answers with success, and no account, when there is one - and goes on
\* when the query failed.
FindPhone(r) ==
    /\ pc[r] = "phone"
    /\ \/ /\ op(r) = "register"
          /\ IF Taken THEN Answer(r, "ok") ELSE Goto(r, "create")
          /\ UNCHANGED torn
       \/ /\ op(r) = "register" /\ "statement" \in Faults
          /\ Goto(r, "create")
          /\ torn' = TRUE
       \/ /\ op(r) # "register"
          /\ IF ~Taken THEN Answer(r, "refused")
             ELSE IF op(r) = "login" THEN Answer(r, "ok") ELSE Goto(r, "code")
          /\ UNCHANGED torn
    /\ UNCHANGED <<dbVars, req, mine, verdict, mixed>>

CreateAccount(r) ==
    /\ pc[r] = "create"
    /\ account' = Append(account, NewAccount)
    /\ ties' = Append(ties, {}) /\ info' = Append(info, NoInfo)
    /\ verdict' = Append(verdict, "normal")
    /\ Answer(r, "ok")
    /\ UNCHANGED <<code, req, mine, torn, mixed>>

-------------------------------------------------------------------------------
(* UpdateUserInfo and SetAdmin: a row is read, changed and saved              *)

\* mutant: the row that is saved is a new one with the fields of the request
Edited_Anew(r, row) ==
    IF op(r) = "update" THEN [NewAccount EXCEPT !.name = "new"]
    ELSE [NewAccount EXCEPT !.admin = ~row.admin]
Edited(r, row) ==
    IF op(r) = "update" THEN [row EXCEPT !.name = "new"] ELSE [row EXCEPT !.admin = ~@]

\* mutant: the answer stays cached when a user is banned
Uncaches_NotBans(r) == op(r) \in {"update", "delete"}
\* SetAdmin leaves the cached answer as it is.
Uncaches(r) == op(r) # "admin"
Finish(r) == IF Uncaches(r) THEN Goto(r, "uncache") ELSE Answer(r, "ok")

\* An update of nobody fails, and nobody is made an administrator with success.
ReadAccount(r) ==
    LET row == account[id(r)] IN
    /\ pc[r] = "read"
    /\ IF row.alive THEN Goto(r, "save") /\ mine' = [mine EXCEPT ![r] = Edited(r, row)]
       ELSE Answer(r, IF op(r) = "update" THEN "failed" ELSE "ok") /\ UNCHANGED mine
    /\ UNCHANGED <<dbVars, req, verdict, torn, mixed>>

SaveAccount(r) ==
    /\ pc[r] = "save"
    /\ account' = [account EXCEPT ![id(r)] = mine[r]]
    /\ Finish(r)
    /\ UNCHANGED <<ties, code, info, req, mine, verdict, torn, mixed>>

-------------------------------------------------------------------------------
(* AbleUsers, DisableUsers, DeleteUser                                        *)

\* One UPDATE; if it changed nothing the cache is left alone too.
SetStatus(r) ==
    LET row == account[id(r)]
        s == IF op(r) = "able" THEN "normal" ELSE "disabled"
    IN /\ pc[r] = "set"
       /\ IF row.alive /\ row.status # s
            THEN /\ account' = [account EXCEPT ![id(r)].status = s]
                 /\ verdict' = [verdict EXCEPT ![id(r)] = s]
                 /\ Finish(r)
            ELSE Answer(r, "refused") /\ UNCHANGED <<account, verdict>>
       /\ UNCHANGED <<ties, code, info, req, mine, torn, mixed>>

Erase(r) ==
    /\ pc[r] = "erase"
    /\ IF account[id(r)].alive
         THEN account' = [account EXCEPT ![id(r)].alive = FALSE] /\ Goto(r, "contacts")
         ELSE Answer(r, "refused") /\ UNCHANGED account
    /\ UNCHANGED <<ties, code, info, req, mine, verdict, torn, mixed>>

\* The user's own contact rows; then, by RPC, the sessions with those contacts. An
\* error code is logged; without a client, or with a nil response, it ends here.
DropTies(r) ==
    \/ /\ pc[r] = "contacts"
       /\ ties' = [ties EXCEPT ![id(r)] = @ \ {"contacts"}]
       /\ Goto(r, "sessions")
       /\ UNCHANGED <<account, code, info, req, mine, verdict, torn, mixed>>
    \/ /\ pc[r] = "sessions"
       /\ ties' = [ties EXCEPT ![id(r)] = @ \ {"sessions"}]
       /\ Finish(r)
       /\ UNCHANGED <<account, code, info, req, mine, verdict, torn, mixed>>
    \/ /\ pc[r] = "sessions" /\ "rpc" \in Faults
       /\ Finish(r) \/ Answer(r, "failed")
       /\ torn' = TRUE
       /\ UNCHANGED <<dbVars, req, mine, verdict, mixed>>

Uncache(r) ==
    /\ pc[r] = "uncache"
    /\ info' = [info EXCEPT ![id(r)] = NoInfo]
    /\ Answer(r, "ok")
    /\ UNCHANGED <<account, ties, code, req, mine, verdict, torn, mixed>>

\* A deletion that stops after the row is not repeated: the user is not found.
StatementFails(r) ==
    /\ "statement" \in Faults
    /\ pc[r] \in {"phone", "create", "read", "save", "set", "erase", "contacts", "info"}
    /\ op(r) = "register" => pc[r] = "create"
    /\ Answer(r, "failed")
    /\ torn' = (torn \/ pc[r] = "contacts")
    /\ UNCHANGED <<dbVars, req, mine, verdict, mixed>>

-------------------------------------------------------------------------------
\* mutant: what was read is cached also when the user is gone
Found_Always(row) == TRUE
Found(row) == row.alive

\* GetUserInfo: from the cache, or from the table and into the cache.
GetUserInfo(r) ==
    LET i == id(r) IN
    /\ \/ /\ pc[r] = "info"
          /\ IF info[i] # NoInfo THEN Answer(r, "ok") /\ UNCHANGED mine
             ELSE IF ~Found(account[i]) THEN Answer(r, "refused") /\ UNCHANGED mine
             ELSE Goto(r, "keep") /\ mine' = [mine EXCEPT ![r] = account[i]]
          /\ UNCHANGED info
       \/ /\ pc[r] = "keep"
          /\ info' = [info EXCEPT ![i] = mine[r]]
          /\ Answer(r, "ok") /\ UNCHANGED mine
    /\ UNCHANGED <<account, ties, code, req, verdict, torn, mixed>>

\* A key's time to live, of one minute, is over.
Expire ==
    /\ \/ code /\ code' = FALSE /\ UNCHANGED info
       \/ \E i \in DOMAIN info :
            info[i] # NoInfo /\ info' = [info EXCEPT ![i] = NoInfo] /\ UNCHANGED code
    /\ UNCHANGED <<account, ties, pc, req, mine, ret, verdict, torn, mixed>>

Next ==
    \/ \E r \in Req :
         \/ Begin(r) \/ StatementFails(r)
         \/ SendSmsCode(r) \/ CompareCode(r) \/ BurnCode(r) \/ FindPhone(r) \/ CreateAccount(r)
         \/ ReadAccount(r) \/ SaveAccount(r) \/ SetStatus(r)
         \/ Erase(r) \/ DropTies(r) \/ Uncache(r) \/ GetUserInfo(r)
    \/ Expire

Spec == Init /\ [][Next]_vars

-------------------------------------------------------------------------------
Account == [name : {"old", "new"}, status : {"normal", "disabled"}, admin : BOOLEAN, alive : BOOLEAN]

\* The state is well formed: what is cached, or about to be saved, is an account
\* that was there when it was read.
TypeOK ==
    /\ account \in Seq(Account) /\ info \in Seq(Account)
    /\ ties \in Seq(SUBSET Ties) /\ verdict \in Seq({"normal", "disabled"})
    /\ Len(info) = Len(account) /\ Len(ties) = Len(account) /\ Len(verdict) = Len(account)
    /\ \A i \in DOMAIN info : info[i] = NoInfo \/ info[i].alive
    /\ mine \in [Req -> Account] /\ ret \in [Req -> Results]
    /\ \A r \in Req :
         /\ pc[r] = "done" <=> ret[r] # "none"
         /\ pc[r] \in {"save", "keep"} => mine[r].alive

\* As long as requests that write do not overlap, and none fails halfway - whoever
\* logs in, asks, or lets codes expire meanwhile -, a telephone has one account,
\* and a deleted one has no contacts or sessions left.
OneAccount ==
    ~torn => /\ Cardinality(Alive) <= 1
             /\ ~Writing => \A i \in DOMAIN account : ~account[i].alive => ties[i] = {}

\* Under the same condition an account has the status an administrator last gave it,
\* however its user changes it: a ban is not undone by a Save.
VerdictStands ==
    ~torn => \A i \in Alive : account[i].status = verdict[i]

\* As long as no requests overlap, a cached answer has the name and the status of an
\* account that is there. (Not whether it is an administrator's.)
InfoIsFresh ==
    ~mixed /\ ~torn /\ Quiet =>
      \A i \in DOMAIN info : info[i] # NoInfo =>
        /\ account[i].alive
        /\ info[i].name = account[i].name /\ info[i].status = account[i].status

===============================================================================
