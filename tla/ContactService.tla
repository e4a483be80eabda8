---------------------------- MODULE ContactService ----------------------------
(*****************************************************************************)
(* Two users as contacts of each other (user_contact_service.go), and their   *)
(* sessions (SessionService). What they are to each other is written down in  *)
(* a contact row per direction and an application row per direction, none of  *)
(* them unique, and changed statement by statement without a transaction: only*)
(* the deletion of the applications by DeleteContact has one.                 *)
(*                                                                            *)
(* An Update writes the live rows of a direction; a Save writes every column  *)
(* of the row that was read, and brings it back when it was deleted meanwhile.*)
(*****************************************************************************)
EXTENDS SessionService

CONSTANT
    Loose       \* bound: so many requests may overlap; if they did, only
                \* DeleteContact is requested after them

ASSUME LooseAssumption == Loose \in Nat

VARIABLES
    contact,        \* per user, the status of his rows of the other one
    apply,          \* per user, the status of his applications to the other one
    cachedContacts, \* contact_user_list_<u>: the rows listed of the other one
    torn            \* history: requests overlapped, or one stopped halfway

contactVars == <<contact, apply, cachedContacts>>
vars == <<contactVars, torn, sessionVars, reqVars>>

Status == {"normal", "black", "beblack", "gone"}
ApplyStatus == {"pending", "agree", "refuse", "black", "gone"}

\* The first statement of each request.
Entry == [ apply |-> "find", pass |-> "find", refuse |-> "find", bar |-> "find",
           black |-> "own", cancel |-> "findBlack", delete |-> "session",
           contacts |-> "contacts", open |-> "open", message |-> "check",
           sessions |-> "sessions", close |-> "close" ]

op(r) == req[r].op

\* Strangers, one of whom may have applied; contacts with a session each, as an
\* approval left them; or contacts one of whom has blacked the other.
Init ==
    \E a, b \in Pair :
      LET Of(x, y) == [u \in Pair |-> IF u = a THEN x ELSE y]
      IN /\ a # b
         /\ \/ /\ contact = Of(<<>>, <<>>)
               /\ apply \in {Of(<<>>, <<>>), Of(<<"pending">>, <<>>)}
               /\ session = Of(<<>>, <<>>)
            \/ /\ contact = Of(<<"normal">>, <<"normal">>)
               /\ apply = Of(<<"agree">>, <<>>)
               /\ session = Of(<<"live">>, <<"live">>)
            \/ /\ contact = Of(<<"black">>, <<"beblack">>)
               /\ apply = Of(<<"agree">>, <<>>)
               /\ session = Of(<<"gone">>, <<"live">>)
         /\ cachedContacts = [u \in Pair |-> NoList]
         /\ torn = FALSE
         /\ InitSessions

Begin(r) ==
    /\ pc[r] = "idle"
    /\ \E o \in DOMAIN Entry, u \in Pair :
         /\ \/ Cardinality({q \in Req : pc[q] # "idle"}) < Loose
            \/ Quiet /\ (torn => o = "delete")
         /\ req' = [req EXCEPT ![r] = [op |-> o, who |-> u]]
         /\ Goto(r, Entry[o])
         /\ torn' = (~Quiet \/ (torn /\ o # "delete"))
    /\ loose' = (loose \/ ~Quiet)
    /\ UNCHANGED <<contactVars, sessionVars, mine>>

\* What a request has done so far stays done. (A deletion is meant to be repeated.)
StatementFails(r) ==
    /\ "statement" \in Faults
    /\ pc[r] \in {"find", "createApply", "saveApply", "own", "other", "tx", "findBlack",
                  "save", "saveAgain", "contacts", "open", "create", "sessions", "close"}
    /\ Answer(r, "failed")
    /\ torn' = (torn \/ pc[r] \in {"own", "other", "tx"} \/ op(r) = "delete")
    /\ UNCHANGED <<contactVars, sessionVars, req, mine, loose>>

-------------------------------------------------------------------------------
(* Applications                                                               *)

Applicant(r) == IF op(r) = "apply" THEN who(r) ELSE Peer(who(r))

\* mutant: an application that is not found is saved
Missing_Ignored(r) == FALSE
Missing(r) == First(apply[Applicant(r)]) = {}
Barred(r) == op(r) = "apply" /\ \E i \in First(apply[Applicant(r)]) : apply[Applicant(r)][i] = "black"

\* Passing looks at the status of the user, not at that of the application.
FindApply(r) ==
    /\ pc[r] = "find"
    /\ Read(r, First(apply[Applicant(r)]))
    /\ \/ Missing(r) /\ op(r) = "apply" /\ Goto(r, "createApply")
       \/ Missing(r) /\ op(r) # "apply" /\ Answer(r, "failed")
       \/ Barred(r) /\ Answer(r, "refused")
       \/ ~Missing(r) /\ ~Barred(r) /\ Goto(r, "saveApply")
       \/ ~Missing(r) /\ op(r) = "pass" /\ Answer(r, "refused")
    /\ UNCHANGED <<contactVars, sessionVars, req, loose, torn>>

CreateApply(r) ==
    LET u == who(r) IN
    /\ pc[r] = "createApply"
    /\ apply' = [apply EXCEPT ![u] = Append(@, "pending")]
    /\ Read(r, {Len(apply'[u])})
    /\ Goto(r, "saveApply")
    /\ UNCHANGED <<contact, cachedContacts, sessionVars, req, loose, torn>>

SaveApply(r) ==
    LET s == CASE op(r) = "apply" -> "pending" [] op(r) = "pass" -> "agree"
               [] op(r) = "refuse" -> "refuse" [] op(r) = "bar" -> "black"
    IN /\ pc[r] = "saveApply"
       /\ apply' = [apply EXCEPT ![Applicant(r)] = Updated(@, mine[r], s)]
       /\ IF op(r) = "pass" THEN Goto(r, "own") ELSE Answer(r, "ok")
       /\ UNCHANGED <<contact, cachedContacts, sessionVars, req, mine, loose, torn>>

-------------------------------------------------------------------------------
(* Contact rows: PassContactApply, BlackContact, DeleteContact                *)

\* mutant: BlackContact leaves the other user's row alone
Changed_OneSide(r, rows) ==
    CASE op(r) = "pass" -> Append(rows, "normal")
      [] op(r) = "black" -> IF pc[r] = "own" THEN Updated(rows, Live(rows), "black") ELSE rows
      [] op(r) = "delete" -> Updated(rows, Live(rows), "gone")
Changed(r, rows) ==
    CASE op(r) = "pass" -> Append(rows, "normal")
      [] op(r) = "black" -> Updated(rows, Live(rows), IF pc[r] = "own" THEN "black" ELSE "beblack")
      [] op(r) = "delete" -> Updated(rows, Live(rows), "gone")

\* One's own row, then that of the other user.
Own(r) ==
    LET u == who(r) IN
    /\ pc[r] = "own"
    /\ contact' = [contact EXCEPT ![u] = Changed(r, @)]
    /\ Goto(r, "other")
    /\ UNCHANGED <<apply, cachedContacts, sessionVars, req, mine, loose, torn>>

Other(r) ==
    LET v == Peer(who(r)) IN
    /\ pc[r] = "other"
    /\ contact' = [contact EXCEPT ![v] = Changed(r, @)]
    /\ Goto(r, CASE op(r) = "pass" -> "uncache" [] op(r) = "black" -> "session"
                 [] op(r) = "delete" -> "tx")
    /\ UNCHANGED <<apply, cachedContacts, sessionVars, req, mine, loose, torn>>

Cleared(rows) == Updated(rows, Live(rows), "gone")
\* The transaction: the applications of both.
DeleteApplies(r) ==
    /\ pc[r] = "tx"
    /\ apply' = [u \in Pair |-> Cleared(apply[u])]
    /\ Goto(r, "uncache")
    /\ UNCHANGED <<contact, cachedContacts, sessionVars, req, mine, loose, torn>>

\* mutant: only the one who deletes has his list deleted
Uncached_Own(r) == {who(r)}
\* The lists of both users after a deletion, else the requester's.
Uncached(r) == IF op(r) = "delete" THEN Pair ELSE {who(r)}
Uncache(r) ==
    /\ pc[r] = "uncache"
    /\ cachedContacts' = [u \in Pair |-> IF u \in Uncached(r) THEN NoList ELSE cachedContacts[u]]
    /\ Answer(r, "ok")
    /\ UNCHANGED <<contact, apply, sessionVars, req, mine, loose, torn>>

-------------------------------------------------------------------------------
(* Sessions, deleted by RPC before a deletion and after a blacking            *)

\* mutant: the second call has its arguments in the order of the first
Sender_Same(r) == who(r)
\* The first call is for one's own session, the second for that of the other user.
Sender(r) == IF pc[r] = "session" THEN who(r) ELSE Peer(who(r))

\* DeleteContact goes on whatever the answer; BlackContact, without a session to
\* delete, ends here.
DeleteSessions(r) ==
    /\ pc[r] \in {"session", "peerSession"}
    /\ DeleteSessionsByUsers(Sender(r))
    /\ IF op(r) = "black" /\ Live(session[Sender(r)]) = {} THEN Answer(r, "refused")
       ELSE Goto(r, IF op(r) = "black" THEN "uncache"
                    ELSE IF pc[r] = "session" THEN "peerSession" ELSE "own")
    /\ UNCHANGED <<contactVars, req, mine, loose, torn>>

\* There is no client, or the call fails before or after its effect. An error code
\* does not keep DeleteContact from going on; a nil response panics.
SessionFails(r) ==
    /\ pc[r] \in {"session", "peerSession"} /\ "rpc" \in Faults
    /\ DeleteSessionsByUsers(Sender(r)) \/ UNCHANGED sessionVars
    /\ \/ Answer(r, "failed") /\ torn' = (torn \/ op(r) = "delete")
       \/ /\ op(r) = "delete"
          /\ Goto(r, IF pc[r] = "session" THEN "peerSession" ELSE "own")
          /\ UNCHANGED torn
    /\ loose' = TRUE
    /\ UNCHANGED <<contactVars, req, mine>>

-------------------------------------------------------------------------------
(* CancelBlackContact                                                         *)

\* mutant: the status is not looked at
MayCancel_Any(status) == TRUE
MayCancel(status) == status = "black"

FindBlack(r) ==
    LET rows == contact[who(r)] IN
    /\ pc[r] = "findBlack"
    /\ Read(r, First(rows))
    /\ \/ First(rows) = {} /\ Answer(r, "failed")
       \/ \E i \in First(rows) : IF MayCancel(rows[i]) THEN Goto(r, "save") ELSE Answer(r, "refused")
    /\ UNCHANGED <<contactVars, sessionVars, req, loose, torn>>

\* The row is saved twice; the other user's is left as it is.
SaveContact(r) ==
    /\ pc[r] \in {"save", "saveAgain"}
    /\ contact' = [contact EXCEPT ![who(r)] = Updated(@, mine[r], "normal")]
    /\ IF pc[r] = "save" THEN Goto(r, "saveAgain") ELSE Answer(r, "ok")
    /\ UNCHANGED <<apply, cachedContacts, sessionVars, req, mine, loose, torn>>

-------------------------------------------------------------------------------
(* What is asked about contacts                                               *)

\* GetUserList
GetUserList(r) ==
    LET u == who(r) IN
    /\ \/ /\ pc[r] = "contacts"
          /\ IF cachedContacts[u] # NoList THEN Answer(r, "ok") /\ UNCHANGED mine
                                           ELSE Goto(r, "keepContacts") /\ Read(r, Live(contact[u]))
          /\ UNCHANGED cachedContacts
       \/ /\ pc[r] = "keepContacts"
          /\ cachedContacts' = [cachedContacts EXCEPT ![u] = mine[r]]
          /\ Answer(r, "ok")
          /\ UNCHANGED mine
    /\ UNCHANGED <<contact, apply, sessionVars, req, loose, torn>>

\* GetContactStatus, which the hub asks whether a message may pass.
StatusOf(u) == IF First(contact[u]) = {} THEN "none" ELSE contact[u][CHOOSE i \in First(contact[u]) : TRUE]

\* A message from the other user opens a session if he has its receiver for a contact
\* of the status normal. The request to open one asks nothing: what
\* CheckOpenSessionAllowed answers is for the client to heed.
Admitted(r) == StatusOf(Peer(who(r))) = "normal"

Check(r) ==
    /\ pc[r] = "check"
    /\ \/ Admitted(r) /\ Goto(r, "open")
       \/ ~Admitted(r) /\ Answer(r, "refused")
       \/ "rpc" \in Faults /\ Answer(r, "failed")
    /\ UNCHANGED <<contactVars, sessionVars, req, mine, loose, torn>>

-------------------------------------------------------------------------------
Session(r) ==
    /\ \/ OpenSession(r) \/ Keep(r) \/ CreateSession(r) \/ Unlist(r)
       \/ GetUserSessionList(r) \/ DeleteSession(r)
    /\ UNCHANGED <<contactVars, torn>>

Expire ==
    \/ ExpireSession /\ UNCHANGED <<contactVars, torn>>
    \/ \E u \in Pair :
         /\ cachedContacts[u] # NoList
         /\ cachedContacts' = [cachedContacts EXCEPT ![u] = NoList]
         /\ UNCHANGED <<contact, apply, torn, sessionVars, reqVars>>

Next ==
    \/ \E r \in Req :
         \/ Begin(r) \/ StatementFails(r)
         \/ FindApply(r) \/ CreateApply(r) \/ SaveApply(r)
         \/ Own(r) \/ Other(r) \/ DeleteApplies(r) \/ Uncache(r)
         \/ DeleteSessions(r) \/ SessionFails(r)
         \/ FindBlack(r) \/ SaveContact(r)
         \/ GetUserList(r) \/ Check(r) \/ Session(r)
    \/ Expire

Spec == Init /\ [][Next]_vars

-------------------------------------------------------------------------------
\* The state is well formed: a cached list and a row in a request's hands are of
\* rows there are or were, and a request is answered once it is over.
TypeOK ==
    /\ SessionsTypeOK
    /\ contact \in [Pair -> Seq(Status)] /\ apply \in [Pair -> Seq(ApplyStatus)]
    /\ \A u \in Pair : cachedContacts[u] = NoList \/ cachedContacts[u] \subseteq DOMAIN contact[u]
    /\ \A r \in Req :
         /\ ret[r] \in Results
         /\ pc[r] = "done" <=> ret[r] # "none"
         /\ pc[r] = "saveApply" => mine[r] # {} /\ mine[r] \subseteq DOMAIN apply[Applicant(r)]
         /\ pc[r] \in {"save", "saveAgain"} => mine[r] # {} /\ mine[r] \subseteq DOMAIN contact[who(r)]
         /\ pc[r] = "keep" => mine[r] # {} /\ mine[r] \subseteq DOMAIN session[who(r)]

\* As long as requests do not overlap and none stops halfway, and again after a
\* deletion that does neither: both users have the same number of rows of each
\* other; who has blacked the other is known to the other's row; and strangers have
\* no approved application, from which one could take them for contacts.
BothSides ==
    ~torn /\ Quiet => \A u \in Pair :
      /\ Cardinality(Live(contact[u])) = Cardinality(Live(contact[Peer(u)]))
      /\ StatusOf(u) = "black" => StatusOf(Peer(u)) = "beblack"
      /\ StatusOf(u) = "none" => \A i \in Live(apply[u]) : apply[u][i] # "agree"

\* A deletion that nothing overlaps and that does not stop halfway leaves nothing of
\* either user, whatever was half done when it began: no rows, no applications, no
\* lists; and no sessions, if there never were two in one direction. (From then on
\* anyone may open a session again.)
DeletionLeavesNothing ==
    [][ \A r \in Req : op(r) = "delete" /\ ~torn /\ Uncache(r) => \A u \in Pair :
          /\ Live(contact'[u]) = {} /\ Live(apply'[u]) = {} /\ cachedContacts'[u] = NoList
          /\ ~loose => Live(session'[u]) = {} ]_vars

\* Under the condition of BothSides a cached list shows no one who is not a contact.
\* (It may lack one: passing an application deletes the list of one side only.)
ListedIsContact ==
    ~torn /\ Quiet => \A u \in Pair :
      cachedContacts[u] # NoList => cachedContacts[u] \subseteq Live(contact[u])

\* Who has been blacked is refused until the contact is deleted or he has blacked
\* the other himself - as long as requests do not overlap.
NoWayBack ==
    [][ \A u \in Pair : ~torn /\ StatusOf(u) = "beblack" => StatusOf(u)' # "normal" ]_vars

===============================================================================
