---------------------------- MODULE SessionService ----------------------------
(*****************************************************************************)
(* The sessions of two users with each other (session_service.go): a row in   *)
(* each direction, which is looked for before it is created; its copy in the  *)
(* cache, from which OpenSession answers first; and the cached list of a      *)
(* user's sessions. Rows are deleted softly, so a row keeps its place.        *)
(*                                                                            *)
(* A request is a sequence of statements, and requests interleave between     *)
(* them. A look into the cache that finds nothing and the query that follows  *)
(* are one step. This module has the statements; ContactService, whose        *)
(* requests use some of them by RPC, says which request runs through which.   *)
(*****************************************************************************)
EXTENDS Integers, Sequences, FiniteSets

CONSTANTS
    Pair, NoUser, \* the two users, and none
    Req,        \* requests that may be made
    Faults      \* which calls may fail: see FaultSet

\* "statement": a statement of MySQL; "rpc": a call of the other service.
FaultSet == {"statement", "rpc"}

ASSUME PairAssumption == \E a, b \in Pair : a # b /\ Pair = {a, b}
ASSUME FaultAssumption == Faults \subseteq FaultSet

VARIABLES
    session,        \* per sender, the rows of his sessions with the other one
    cachedSession,  \* session_<s>_<r>: the row that is cached, or none
    cachedSessions, \* session_list_<s>: the rows that are listed, or NoList
    pc, req,        \* where a request stands, and what it is
    mine,           \* the rows a request has read
    ret,            \* the answer of a request
    loose           \* history: requests overlapped, or a session was not deleted

sessionVars == <<session, cachedSession, cachedSessions>>
reqVars == <<pc, req, mine, ret, loose>>

Peer(u) == CHOOSE v \in Pair : v # u

\* Rows that are not deleted; First is the one of them with the lowest id.
Live(rows) == {i \in DOMAIN rows : rows[i] # "gone"}
First(rows) == {i \in Live(rows) : \A j \in Live(rows) : i <= j}
Updated(rows, ids, value) == [i \in DOMAIN rows |-> IF i \in ids THEN value ELSE rows[i]]

NoList == {0}
NoReq == [op |-> "none", who |-> NoUser]
Results == {"none", "ok", "refused", "failed"}
Quiet == \A r \in Req : pc[r] \in {"idle", "done"}
who(r) == req[r].who

Goto(r, step) == pc' = [pc EXCEPT ![r] = step] /\ UNCHANGED ret
Answer(r, answer) == pc' = [pc EXCEPT ![r] = "done"] /\ ret' = [ret EXCEPT ![r] = answer]
Read(r, ids) == mine' = [mine EXCEPT ![r] = ids]

InitSessions ==
    /\ cachedSession = [u \in Pair |-> {}]
    /\ cachedSessions = [u \in Pair |-> NoList]
    /\ pc = [r \in Req |-> "idle"] /\ req = [r \in Req |-> NoReq]
    /\ mine = [r \in Req |-> {}] /\ ret = [r \in Req |-> "none"]
    /\ loose = FALSE

-------------------------------------------------------------------------------
(* OpenSession                                                                *)

\* The cache is asked first; it may answer with a session deleted since.
OpenSession(r) ==
    LET u == who(r) IN
    /\ pc[r] = "open"
    /\ IF cachedSession[u] # {} THEN Answer(r, "ok") /\ UNCHANGED mine
       ELSE /\ Goto(r, IF First(session[u]) # {} THEN "keep" ELSE "create")
            /\ Read(r, First(session[u]))
    /\ UNCHANGED <<sessionVars, req, loose>>

\* What was found goes into the cache.
Keep(r) ==
    /\ pc[r] = "keep"
    /\ cachedSession' = [cachedSession EXCEPT ![who(r)] = mine[r]]
    /\ Answer(r, "ok")
    /\ UNCHANGED <<session, cachedSessions, req, mine, loose>>

\* CreateSession: the new row does not go into the cache.
CreateSession(r) ==
    /\ pc[r] = "create"
    /\ session' = [session EXCEPT ![who(r)] = Append(@, "live")]
    /\ Goto(r, "unlist")
    /\ UNCHANGED <<cachedSession, cachedSessions, req, mine, loose>>

\* The end of CreateSession and of DeleteSession.
Unlist(r) ==
    /\ pc[r] = "unlist"
    /\ cachedSessions' = [cachedSessions EXCEPT ![who(r)] = NoList]
    /\ Answer(r, "ok")
    /\ UNCHANGED <<session, cachedSession, req, mine, loose>>

-------------------------------------------------------------------------------
(* The list of sessions, and deletions                                        *)

GetUserSessionList(r) ==
    LET u == who(r) IN
    /\ \/ /\ pc[r] = "sessions"
          /\ IF cachedSessions[u] # NoList THEN Answer(r, "ok") /\ UNCHANGED mine
                                           ELSE Goto(r, "keepSessions") /\ Read(r, Live(session[u]))
          /\ UNCHANGED cachedSessions
       \/ /\ pc[r] = "keepSessions"
          /\ cachedSessions' = [cachedSessions EXCEPT ![u] = mine[r]]
          /\ Answer(r, "ok")
          /\ UNCHANGED mine
    /\ UNCHANGED <<session, cachedSession, req, loose>>

\* By id; the session's own key in the cache is not deleted.
DeleteSession(r) ==
    LET u == who(r) IN
    /\ pc[r] = "close"
    /\ \/ Live(session[u]) = {} /\ Answer(r, "refused") /\ UNCHANGED session
       \/ \E i \in Live(session[u]) :
            /\ session' = [session EXCEPT ![u] = Updated(@, {i}, "gone")]
            /\ Goto(r, "unlist")
    /\ UNCHANGED <<cachedSession, cachedSessions, req, mine, loose>>

\* mutant: the list of the other user is deleted from the cache
Unlisted_Receiver(u) == Peer(u)
\* DeleteSessionBySendIdAndReceiveId, called by the user service: the first
\* session of the sender, and his list.
Unlisted(u) == u
DeleteSessionsByUsers(u) ==
    /\ session' = [session EXCEPT ![u] = Updated(@, First(@), "gone")]
    /\ cachedSessions' = IF Live(session[u]) = {} THEN cachedSessions
                         ELSE [cachedSessions EXCEPT ![Unlisted(u)] = NoList]
    /\ UNCHANGED cachedSession

-------------------------------------------------------------------------------
\* A key's time to live is over.
ExpireSession ==
    \E u \in Pair :
      /\ \/ /\ cachedSession[u] # {}
            /\ cachedSession' = [cachedSession EXCEPT ![u] = {}]
            /\ UNCHANGED cachedSessions
         \/ /\ cachedSessions[u] # NoList
            /\ cachedSessions' = [cachedSessions EXCEPT ![u] = NoList]
            /\ UNCHANGED cachedSession
      /\ UNCHANGED <<session, reqVars>>

SessionsTypeOK ==
    /\ session \in [Pair -> Seq({"live", "gone"})]
    /\ \A u \in Pair :
         /\ cachedSession[u] \subseteq DOMAIN session[u]
         /\ cachedSessions[u] = NoList \/ cachedSessions[u] \subseteq DOMAIN session[u]

\* As long as requests do not overlap and no deletion is given up, whatever order
\* sessions are opened, deleted and forgotten by the cache in: a user has at most
\* one session with another; his cached list is what the table has; and the key of
\* a session that was deleted answers only as long as there is no new one.
SessionsAgree ==
    ~loose /\ Quiet => \A u \in Pair :
      /\ Live(session[u]) = First(session[u])
      /\ cachedSessions[u] # NoList => cachedSessions[u] = Live(session[u])
      /\ cachedSession[u] # {} /\ Live(session[u]) # {} => cachedSession[u] = Live(session[u])

===============================================================================
