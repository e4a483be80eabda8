----------------------------- MODULE GroupService -----------------------------
(*****************************************************************************)
(* One group in the user service (group_info_service.go), and the parts of    *)
(* user_contact_service.go and session_service.go that work on it.            *)
(*                                                                            *)
(* Who is in the group is written down three times: in the group's row, as a  *)
(* list and a count; in a contact row per member; in a session per member,    *)
(* which belongs to another service and is deleted by RPC. Every request runs *)
(* in a goroutine of its own, most of them in a transaction: they read the    *)
(* group's row, compute a new one, and save it whole.                         *)
(*                                                                            *)
(* MySQL (outside src/) as the code meets it, at REPEATABLE READ: a read sees *)
(* what is committed and takes no lock - the "gorm:query_option" with which   *)
(* the code asks for one is of GORM 1, and GORM 2 ignores it; a write locks   *)
(* its rows until the end of the transaction; a write that waits for a lock   *)
(* may be given up, as a deadlock or after a timeout. Save writes every       *)
(* column, and inserts the row anew when it was deleted meanwhile.            *)
(*****************************************************************************)
EXTENDS Lists, FiniteSets

CONSTANTS
    User, Owner,
    Joined,     \* the users who joined before, in order
    Req,        \* requests that may be made, each of any operation in Ops
    Ops,
    Faults      \* which calls to the outside may fail: see FaultSet

\* What a request does, statement by statement.
Program ==
    [ enter   |-> <<"read", "save", "contact", "commit", "uncache">>,
      update  |-> <<"read", "save", "commit", "uncache">>,
      leave   |-> <<"read", "save", "session", "contact", "apply", "commit", "uncache">>,
      remove  |-> <<"read", "session", "contact", "apply", "save", "commit", "uncache">>,
      dismiss |-> <<"read", "save", "contact", "session", "apply", "commit", "uncache">>,
      apply   |-> <<"read", "agree">>,
      pass    |-> <<"find", "read", "agree", "create", "write">>,
      open    |-> <<"open">>,
      list    |-> <<"get", "fetch", "put">> ]

\* "statement": one of a transaction; "rpc": a call of the session service.
FaultSet == {"statement", "rpc"}

ASSUME OwnerAssumption == Owner \in User /\ Joined \in Seq(User \ {Owner})
ASSUME OpsAssumption == Ops \subseteq DOMAIN Program /\ Faults \subseteq FaultSet

VARIABLES
    row,        \* the group's row: members, cnt, alive (deleted_at is null)
    contact,    \* number of live contact rows of a user with the group
    apply,      \* the user has a live application to the group
    sess,       \* the user has a live session with the group
    guests,     \* history: users who opened theirs without a contact row
    cached,     \* the list under group_memberlist_<id>, or NoList
    client,     \* main.go has initialised the client of the session service
    pc, req,    \* where a request stands, and what it is
    mine,       \* the row a request has computed from the one it read
    creates,    \* the entering user had no contact row when the row was read
    todo,       \* users whose sessions a request has still to delete
    held,       \* rows locked by the transaction of a request
    ret,        \* the answer of a request
    torn,       \* history: requests overlapped, or an approval stopped halfway
    passed      \* history: an application was approved

dbVars == <<row, contact, apply, sess, guests, cached, client>>
vars == <<dbVars, pc, req, mine, creates, todo, held, ret, torn, passed>>

NoList == <<>>
NoReq == [op |-> "none", who |-> {}]
Results == {"none", "ok", "refused", "failed", "panicked"}

InList(u, ms) == \E i \in DOMAIN ms : ms[i] = u
Without(ms, us) == Select(ms, User \ us)
Over == {"idle", "done", "leaked"}
Quiet == \A r \in Req : pc[r] \in Over

\* CreateGroup, and the users who joined since; some have opened a session.
Init ==
    /\ row = [members |-> <<Owner>> \o Joined, cnt |-> 1 + Len(Joined), alive |-> TRUE]
    /\ contact = [u \in User |-> IF InList(u, row.members) THEN 1 ELSE 0]
    /\ sess \in {s \in [User -> BOOLEAN] : \A u \in User : s[u] => contact[u] > 0}
    /\ guests = {}
    /\ apply = [u \in User |-> FALSE]
    /\ cached = NoList
    /\ client \in BOOLEAN
    /\ pc = [r \in Req |-> "idle"] /\ req = [r \in Req |-> NoReq]
    /\ mine = [r \in Req |-> row]
    /\ creates = [r \in Req |-> FALSE]
    /\ todo = [r \in Req |-> {}]
    /\ held = [r \in Req |-> {}]
    /\ ret = [r \in Req |-> "none"]
    /\ torn = FALSE /\ passed = FALSE

-------------------------------------------------------------------------------
(* Requests and their transactions                                            *)

Follow(op, s) ==
    LET p == Program[op]
        i == CHOOSE j \in DOMAIN p : p[j] = s
    IN IF i = Len(p) THEN "done" ELSE p[i + 1]

Advance(r) ==
    /\ pc' = [pc EXCEPT ![r] = Follow(req[r].op, @)]
    /\ ret' = [ret EXCEPT ![r] = IF pc'[r] = "done" THEN "ok" ELSE @]

\* The request returns; its transaction, if it is open, is rolled back.
End(r, answer) ==
    /\ pc' = [pc EXCEPT ![r] = "done"]
    /\ ret' = [ret EXCEPT ![r] = answer]
    /\ held' = [held EXCEPT ![r] = {}]

\* The users a request is about.
Affected(r) == IF req[r].op = "dismiss" THEN User ELSE req[r].who

GroupRow == <<"group", Owner>>
RowsOf(r) ==
    CASE pc[r] \in {"save", "write"} -> {GroupRow}
      [] pc[r] = "contact" /\ req[r].op = "enter" ->
            IF creates[r] THEN {"contact"} \X req[r].who ELSE {}
      [] pc[r] \in {"contact", "create"} -> {"contact"} \X Affected(r)
      [] pc[r] \in {"apply", "agree"} -> {"apply"} \X Affected(r)
      [] OTHER -> {}
Free_Unchecked(r) == TRUE               \* mutant: a write does not wait
Free(r) == \A q \in Req \ {r} : held[q] \cap RowsOf(r) = {}

Begin(r) ==
    /\ pc[r] = "idle"
    /\ \E op \in Ops, who \in SUBSET User :
         /\ IF op = "remove" THEN who # {} ELSE \E u \in User : who = {u}
         /\ op \in {"update", "dismiss", "list"} => who = {Owner}
         /\ req' = [req EXCEPT ![r] = [op |-> op, who |-> who]]
         /\ pc' = [pc EXCEPT ![r] = Head(Program[op])]
    /\ torn' = (torn \/ ~Quiet)
    /\ UNCHANGED <<dbVars, mine, creates, todo, held, ret, passed>>

-------------------------------------------------------------------------------
(* The group's row: read, checked, changed and saved                          *)

\* mutant: LeaveGroup does not ask who leaves
Accepts_AnyoneMayLeave(op, who) ==
    /\ op # "pass" => row.alive
    /\ op = "enter" => \A u \in who : ~InList(u, row.members)
    /\ op \in {"leave", "remove"} => \A u \in who : InList(u, row.members)

\* Pass looks for a group that may be gone; for the others it must be there, and
\* the users in it or not in it. RemoveGroupMembers gives up on a member who is in
\* the list twice.
Accepts(op, who) ==
    /\ op # "pass" => row.alive
    /\ op = "enter" => \A u \in who : ~InList(u, row.members)
    /\ op \in {"leave", "remove"} => Owner \notin who /\ \A u \in who : InList(u, row.members)
    /\ op = "remove" => Len(Without(row.members, who)) = Len(row.members) - Cardinality(who)

\* mutant: the count is taken before the member is removed
NewRow_StaleCount(op, who) ==
    CASE op \in {"enter", "pass"} ->
            LET ms == row.members \o <<CHOOSE u \in who : TRUE>>
            IN [row EXCEPT !.members = ms, !.cnt = Len(ms)]
      [] op \in {"leave", "remove"} -> [row EXCEPT !.members = Without(@, who)]
      [] OTHER -> row
\* EnterGroupDirectly counts one up, the others count the list.
NewRow(op, who) ==
    CASE op = "enter" -> [row EXCEPT !.members = @ \o <<CHOOSE u \in who : TRUE>>, !.cnt = @ + 1]
      [] op = "pass" ->
            LET ms == row.members \o <<CHOOSE u \in who : TRUE>>
            IN [row EXCEPT !.members = ms, !.cnt = Len(ms)]
      [] op \in {"leave", "remove"} ->
            LET ms == Without(row.members, who)
            IN [row EXCEPT !.members = ms, !.cnt = Len(ms)]
      [] OTHER -> row

\* An update that changes nothing returns at once.
ReadGroup(r) ==
    LET op == req[r].op
        who == req[r].who
    IN /\ pc[r] = "read"
       /\ \/ Accepts(op, who) /\ Advance(r) /\ UNCHANGED held
          \/ ~Accepts(op, who) /\ End(r, "refused")
          \/ op = "update" /\ row.alive /\ End(r, "ok")
       /\ mine' = [mine EXCEPT ![r] = IF pc'[r] = "done" THEN @ ELSE NewRow(op, who)]
       /\ creates' = [creates EXCEPT ![r] = op = "enter" /\ \A u \in who : contact[u] = 0]
       /\ todo' = [todo EXCEPT ![r] =
                     CASE pc'[r] = "done" -> {}
                       [] op = "dismiss" -> {u \in User : InList(u, row.members)}
                       [] op \in {"leave", "remove"} -> who
                       [] OTHER -> {}]
       /\ UNCHANGED <<dbVars, req, torn, passed>>

\* The statements that write: their effect is seen at the commit.
Write(r) ==
    /\ pc[r] \in {"save", "contact", "apply"}
    /\ Free(r)
    /\ held' = [held EXCEPT ![r] = @ \cup RowsOf(r)]
    /\ Advance(r)
    /\ UNCHANGED <<dbVars, req, mine, creates, todo, torn, passed>>

\* A statement or a commit fails, or a write's wait for a lock is given up.
StatementFails(r) ==
    /\ pc[r] \notin Over \cup {"session", "uncache", "open", "get", "put"}
    /\ "statement" \in Faults \/ ~Free(r)
    /\ End(r, "failed")
    /\ torn' = (torn \/ pc[r] \in {"create", "write"})
    /\ UNCHANGED <<dbVars, req, mine, creates, todo, passed>>

-------------------------------------------------------------------------------
(* The sessions: deleted by RPC, whatever becomes of the transaction          *)

\* Without a client, LeaveGroup and RemoveGroupMembers return and leave the
\* transaction open, with its locks.
NoClient(r) ==
    /\ pc[r] = "session" /\ ~client
    /\ IF req[r].op = "dismiss"
         THEN End(r, "failed")
         ELSE /\ pc' = [pc EXCEPT ![r] = "leaked"]
              /\ ret' = [ret EXCEPT ![r] = "failed"]
              /\ UNCHANGED held
    /\ UNCHANGED <<dbVars, req, mine, creates, todo, torn, passed>>

SessionGone(u) ==
    /\ sess' = [sess EXCEPT ![u] = FALSE]
    /\ guests' = guests \ {u}

\* A user without a session is passed over, but LeaveGroup gives up.
DeleteSession(r) ==
    /\ pc[r] = "session" /\ client
    /\ \/ /\ todo[r] = {}
          /\ Advance(r) /\ UNCHANGED <<sess, guests, todo, held>>
       \/ \E u \in todo[r] :
            /\ SessionGone(u)
            /\ todo' = [todo EXCEPT ![r] = @ \ {u}]
            /\ IF req[r].op = "leave" /\ ~sess[u]
                 THEN End(r, "refused")
                 ELSE UNCHANGED <<pc, ret, held>>
    /\ UNCHANGED <<row, contact, apply, cached, client, req, mine, creates, torn, passed>>

\* The call fails, before or after its effect. An error code is answered as a
\* failure; the nil response of a failed call panics, and the request, rolled
\* back by its deferred function, returns the zero values: code 0, success.
SessionFails(r) ==
    /\ pc[r] = "session" /\ client /\ "rpc" \in Faults
    /\ \E u \in todo[r] : SessionGone(u) \/ UNCHANGED <<sess, guests>>
    /\ End(r, "failed") \/ End(r, "panicked")
    /\ UNCHANGED <<row, contact, apply, cached, client, req, mine, creates, todo, torn, passed>>

-------------------------------------------------------------------------------
(* The end of a transaction                                                   *)

\* mutant: DismissGroup leaves the contact rows alone
ContactsAfter_DismissForgets(r) ==
    [u \in User |->
       IF u \notin Affected(r) \/ req[r].op \in {"update", "dismiss"} THEN contact[u]
       ELSE IF req[r].op = "enter" THEN contact[u] + (IF creates[r] THEN 1 ELSE 0)
       ELSE 0]
ContactsAfter(r) ==
    [u \in User |->
       IF u \notin Affected(r) \/ req[r].op = "update" THEN contact[u]
       ELSE IF req[r].op = "enter" THEN contact[u] + (IF creates[r] THEN 1 ELSE 0)
       ELSE 0]

\* DismissGroup updates two columns; the others save the whole row they computed.
Commit(r) ==
    /\ pc[r] = "commit"
    /\ row' = IF req[r].op = "dismiss" THEN [row EXCEPT !.alive = FALSE] ELSE mine[r]
    /\ contact' = ContactsAfter(r)
    /\ apply' = [u \in User |-> apply[u] /\ (req[r].op \in {"enter", "update"} \/ u \notin Affected(r))]
    /\ held' = [held EXCEPT ![r] = {}]
    /\ Advance(r)
    /\ UNCHANGED <<sess, guests, cached, client, req, mine, creates, todo, torn, passed>>

Uncache(r) ==
    /\ pc[r] = "uncache"
    /\ cached' = NoList
    /\ Advance(r)
    /\ UNCHANGED <<row, contact, apply, sess, guests, client, req, mine, creates, todo, held, torn, passed>>

-------------------------------------------------------------------------------
(* Applications: statements that commit on their own                          *)

\* PassContactApply looks the application up, whatever its status.
Find(r) ==
    /\ pc[r] = "find"
    /\ IF \A u \in req[r].who : apply[u] THEN Advance(r) /\ UNCHANGED held
                                          ELSE End(r, "failed")
    /\ UNCHANGED <<dbVars, req, mine, creates, todo, torn, passed>>

\* The application is created or saved, by ApplyContact or PassContactApply.
Agree(r) ==
    /\ pc[r] = "agree" /\ Free(r)
    /\ apply' = [u \in User |-> apply[u] \/ u \in req[r].who]
    /\ Advance(r)
    /\ UNCHANGED <<row, contact, sess, guests, cached, client, req, mine, creates, todo, held, torn, passed>>

\* The contact row; a group that was not found has no member list to parse.
CreateContact(r) ==
    /\ pc[r] = "create" /\ Free(r)
    /\ contact' = [u \in User |-> contact[u] + (IF u \in req[r].who THEN 1 ELSE 0)]
    /\ IF mine[r].alive THEN Advance(r) /\ UNCHANGED <<held, torn>>
                        ELSE End(r, "failed") /\ torn' = TRUE
    /\ UNCHANGED <<row, apply, sess, guests, cached, client, req, mine, creates, todo, passed>>

\* The group's row; the key of the member list is not deleted.
WriteGroup(r) ==
    /\ pc[r] = "write" /\ Free(r)
    /\ row' = mine[r]
    /\ Advance(r)
    /\ passed' = TRUE
    /\ UNCHANGED <<contact, apply, sess, guests, cached, client, req, mine, creates, todo, held, torn>>

-------------------------------------------------------------------------------
(* Sessions and the member list                                               *)

\* OpenSession asks the cache first, which may hold a session deleted since; it
\* creates the session if neither the cache nor the table has it. It does not ask who
\* is in the group: what CheckOpenSessionAllowed answers is for the client to heed.
OpenSession(r) ==
    /\ pc[r] = "open"
    /\ \/ UNCHANGED <<sess, guests>>
       \/ /\ sess' = [u \in User |-> sess[u] \/ u \in req[r].who]
          /\ guests' = guests \cup {u \in req[r].who : ~sess[u] /\ contact[u] = 0}
    /\ Advance(r)
    /\ UNCHANGED <<row, contact, apply, cached, client, req, mine, creates, todo, held, torn, passed>>

\* GetGroupMemberList: from the cache, or from the database and into the cache.
GetMemberList(r) ==
    /\ \/ /\ pc[r] = "get"
          /\ IF cached = NoList THEN Advance(r) /\ UNCHANGED held ELSE End(r, "ok")
          /\ UNCHANGED <<mine, cached>>
       \/ /\ pc[r] = "fetch"
          /\ IF row.alive THEN Advance(r) /\ UNCHANGED held ELSE End(r, "refused")
          /\ mine' = [mine EXCEPT ![r] = row]
          /\ UNCHANGED cached
       \/ /\ pc[r] = "put"
          /\ cached' = mine[r].members
          /\ Advance(r)
          /\ UNCHANGED <<mine, held>>
    /\ UNCHANGED <<row, contact, apply, sess, guests, client, req, creates, todo, torn, passed>>

\* The key's time to live is over; the session service has been found.
Expire ==
    /\ cached' = NoList /\ cached # NoList
    /\ UNCHANGED <<row, contact, apply, sess, guests, client, pc, req, mine, creates, todo, held, ret, torn, passed>>
ClientReady ==
    /\ ~client /\ client' = TRUE
    /\ UNCHANGED <<row, contact, apply, sess, guests, cached, pc, req, mine, creates, todo, held, ret, torn, passed>>

Next ==
    \/ \E r \in Req :
         \/ Begin(r) \/ ReadGroup(r) \/ Write(r) \/ StatementFails(r)
         \/ NoClient(r) \/ DeleteSession(r) \/ SessionFails(r)
         \/ Commit(r) \/ Uncache(r)
         \/ Find(r) \/ Agree(r) \/ CreateContact(r) \/ WriteGroup(r)
         \/ OpenSession(r) \/ GetMemberList(r)
    \/ Expire \/ ClientReady

Spec == Init /\ [][Next]_vars

-------------------------------------------------------------------------------
IsRow(x) ==
    /\ DOMAIN x = {"members", "cnt", "alive"}
    /\ x.members \in Seq(User) /\ x.cnt \in Nat /\ x.alive \in BOOLEAN

\* The state is well formed: a transaction holds locks while it is open only, and
\* a row is locked by one.
TypeOK ==
    /\ IsRow(row) /\ \A r \in Req : IsRow(mine[r])
    /\ contact \in [User -> Nat]
    /\ apply \in [User -> BOOLEAN] /\ sess \in [User -> BOOLEAN] /\ guests \subseteq User
    /\ cached \in Seq(User)
    /\ \A r \in Req :
         /\ ret[r] \in Results
         /\ pc[r] = "done" <=> ret[r] # "none" /\ pc[r] # "leaked"
         /\ held[r] # {} => pc[r] \in {"save", "contact", "apply", "session", "commit", "leaked"}
         /\ \A q \in Req \ {r} : held[r] \cap held[q] = {}

\* However requests overlap and fail, the count that is shown is that of the list.
CountIsLen == row.cnt = Len(row.members)

\* No interleaving of leaving, removing and saving loses the group's owner.
OwnerStays == InList(Owner, row.members)

\* As long as requests do not overlap (and no approval stops halfway), whatever
\* order they come in and wherever they fail, the three records agree once they
\* are over: the members are the users with a contact row; who was taken out of the
\* group has no session, so that nobody without a contact row has one but who opened
\* it so; a dismissed group has no contact rows; and a cached list is the list, if no
\* application was approved.
SerialAgree ==
    ~torn /\ Quiet =>
      /\ row.alive => \A u \in User : InList(u, row.members) <=> contact[u] > 0
      /\ ~row.alive => \A u \in User : contact[u] = 0
      /\ \A u \in User : sess[u] => contact[u] > 0 \/ u \in guests
      /\ cached # NoList /\ ~passed => row.alive /\ cached = row.members

-------------------------------------------------------------------------------
(* What the repository says of the program and the code does not keep         *)

\* group_info_service.go:491: the row is locked, so that users who enter at the
\* same time do not overwrite each other's member list.
EntersAreKept ==
    \A r \in Req : req[r].op = "enter" /\ ret[r] = "ok" =>
      \A u \in req[r].who : InList(u, row.members)

===============================================================================
