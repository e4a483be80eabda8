----------------------------- MODULE MessageCache -----------------------------
(*****************************************************************************)
(* Message histories and their cache: message_service.go reads them, and the  *)
(* hub of server.go (or the consumer of kafka_server.go) writes them.         *)
(*                                                                            *)
(* The table of messages is the history. A user who opens a conversation gets *)
(* it from the Redis key message_list_<he>_<other>, or, if that is gone, from *)
(* the table and then puts it under the key for a minute. Groups have a key   *)
(* of their own, which all members read. The hub stores a message, delivers   *)
(* it, and appends it to the key of the send direction, if there is one: the  *)
(* read and the write of the key are two calls, and nothing keeps the readers *)
(* out in between.                                                            *)
(*                                                                            *)
(* ChatServer models how a message is delivered; here delivery is the time    *)
(* that passes between the hub's calls. In mode kafka no message is refused.  *)
(*****************************************************************************)
EXTENDS Lists, FiniteSets

CONSTANTS
    User, Group, Msg, NoMsg,
    Sender, Target,     \* of a message: a user; a user or a group
    Kind,               \* "post": a text or a file; "call": a stored call signal
    Asked,              \* the histories that are asked for
    Request,            \* the requests for a history that run at the same time
    Faults              \* which outside calls may fail: see FaultSet

FaultSet == {"store", "load", "cache", "crash"}

ASSUME MsgAssumption ==
    /\ NoMsg \notin Msg
    /\ Sender \in [Msg -> User] /\ Target \in [Msg -> User \cup Group]
    /\ Kind \in [Msg -> {"post", "call"}]
    /\ \A m \in Msg : Kind[m] = "call" => Target[m] \in User
    /\ Faults \subseteq FaultSet

VARIABLES
    table,      \* the stored messages, ORDER BY created_at
    cached,     \* the keys that exist in Redis
    list,       \* the messages under a key; empty if there is no key
    hubAt, hubMsg, hubList,     \* the hub: its next call, its message, the list it read
    readAt, readKey, readList,  \* the same of a request
    handled,    \* history: the messages the hub has taken, in order
    delivered,  \* history: those it has not refused
    torn        \* history: the hub and a request overlapped, or a call failed

hubVars == <<hubAt, hubMsg, hubList, handled, delivered>>
readVars == <<readAt, readKey, readList>>
vars == <<table, cached, list, hubVars, readVars, torn>>

InGroup(m) == Target[m] \in Group
Key == {k \in User \X User : k[1] # k[2]} \cup {<<g>> : g \in Group}

\* message_list_<send>_<receive> or group_messagelist_<group>.
KeyOf(m) == IF InGroup(m) THEN <<Target[m]>> ELSE <<Sender[m], Target[m]>>

\* What the table has for a key: for two users, what either sent to the other.
Concerns(m, k) ==
    IF InGroup(m) THEN k = <<Target[m]>>
                  ELSE k \in {<<Sender[m], Target[m]>>, <<Target[m], Sender[m]>>}
History(k) == Select(table, {m \in Msg : Concerns(m, k)})

ASSUME AskedAssumption == Asked \subseteq Key /\ Key # {}

HubFree == hubAt = "select"
NobodyReads == \A r \in Request : readAt[r] = "idle"

Init ==
    /\ table = <<>> /\ cached = {} /\ list = [k \in Key |-> <<>>]
    /\ hubAt = "select" /\ hubMsg = NoMsg /\ hubList = <<>>
    /\ readAt = [r \in Request |-> "idle"]
    /\ readKey = [r \in Request |-> CHOOSE k \in Key : TRUE]
    /\ readList = [r \in Request |-> <<>>]
    /\ handled = <<>> /\ delivered = {} /\ torn = FALSE

-------------------------------------------------------------------------------
(* Redis                                                                      *)

\* A value for a minute; and the minute over.
SetKeyEx(k, ms) ==
    /\ cached' = cached \cup {k}
    /\ list' = [list EXCEPT ![k] = ms]
Expire(k) ==
    /\ k \in cached
    /\ cached' = cached \ {k}
    /\ list' = [list EXCEPT ![k] = <<>>]
    /\ UNCHANGED <<table, hubVars, readVars, torn>>

-------------------------------------------------------------------------------
(* The hub                                                                    *)

\* mutant: the list read for one message is still there for the next
HubDone_KeepsList == hubAt' = "select" /\ hubMsg' = NoMsg /\ hubList' = hubList
HubDone == hubAt' = "select" /\ hubMsg' = NoMsg /\ hubList' = <<>>

\* Delivered; call signals are not in the cache's format, and not appended.
Accept(m) ==
    /\ hubAt' = IF Kind[m] = "post" THEN "get" ELSE "select"
    /\ hubMsg' = IF Kind[m] = "post" THEN m ELSE NoMsg
    /\ hubList' = <<>>
    /\ delivered' = delivered \cup {m}

\* A message is stored - a failure is only logged - and, if it is to a user, goes
\* on to the friendship check.
Store(m) ==
    /\ HubFree /\ \A i \in DOMAIN handled : handled[i] # m
    /\ \/ table' = Append(table, m)
       \/ "store" \in Faults /\ table' = table
    /\ IF InGroup(m)
         THEN Accept(m)
         ELSE hubAt' = "validate" /\ hubMsg' = m /\ UNCHANGED <<hubList, delivered>>
    /\ handled' = Append(handled, m)
    /\ torn' = (torn \/ ~NobodyReads)
    /\ UNCHANGED <<cached, list, readVars>>

\* Who is refused is told so, and nothing else happens to the message.
Validate ==
    /\ hubAt = "validate"
    /\ \/ Accept(hubMsg)
       \/ HubDone /\ UNCHANGED delivered
    /\ UNCHANGED <<table, cached, list, readVars, handled, torn>>

\* mutant: a missing key is taken for an empty list
HubGet_MissAsEmpty ==
    /\ hubAt = "get"
    /\ hubAt' = "set" /\ hubList' = list[KeyOf(hubMsg)]
    /\ UNCHANGED <<hubMsg, torn, table, cached, list, readVars, handled, delivered>>

\* The key is read: without one there is nothing to append to.
HubGet ==
    /\ hubAt = "get"
    /\ \/ /\ KeyOf(hubMsg) \in cached
          /\ hubAt' = "set" /\ hubList' = list[KeyOf(hubMsg)]
          /\ UNCHANGED <<hubMsg, torn>>
       \/ KeyOf(hubMsg) \notin cached /\ HubDone /\ UNCHANGED torn
       \/ "cache" \in Faults /\ HubDone /\ torn' = TRUE
    /\ UNCHANGED <<table, cached, list, readVars, handled, delivered>>

\* mutant: the message is put first
HubSet_Prepend ==
    /\ hubAt = "set"
    /\ SetKeyEx(KeyOf(hubMsg), <<hubMsg>> \o hubList)
    /\ HubDone
    /\ UNCHANGED <<table, readVars, handled, delivered, torn>>
\* The list read is written back with the message, for another minute.
HubSet ==
    /\ hubAt = "set"
    /\ \/ SetKeyEx(KeyOf(hubMsg), Append(hubList, hubMsg)) /\ UNCHANGED torn
       \/ "cache" \in Faults /\ torn' = TRUE /\ UNCHANGED <<cached, list>>
    /\ HubDone
    /\ UNCHANGED <<table, readVars, handled, delivered>>

-------------------------------------------------------------------------------
(* GetMessageList and GetGroupMessageList                                     *)

ReadDone(r) ==
    /\ readAt' = [readAt EXCEPT ![r] = "idle"]
    /\ readList' = [readList EXCEPT ![r] = <<>>]
    /\ readKey' = [readKey EXCEPT ![r] = CHOOSE k \in Key : TRUE]

\* The key is read. A hit, or an error of Redis, is answered and changes nothing.
Get(r, k) ==
    /\ readAt[r] = "idle" /\ k \notin cached
    /\ readAt' = [readAt EXCEPT ![r] = "fetch"]
    /\ readKey' = [readKey EXCEPT ![r] = k]
    /\ torn' = (torn \/ ~HubFree)
    /\ UNCHANGED <<table, cached, list, hubVars, readList>>

\* mutant: only one direction is selected
Fetch_OwnSide(r) ==
    /\ readAt[r] = "fetch"
    /\ readList' = [readList EXCEPT ![r] = Select(table, {m \in Msg : KeyOf(m) = readKey[r]})]
    /\ readAt' = [readAt EXCEPT ![r] = "put"]
    /\ UNCHANGED <<readKey, table, cached, list, hubVars, torn>>

Fetch(r) ==
    /\ readAt[r] = "fetch"
    /\ \/ /\ readList' = [readList EXCEPT ![r] = History(readKey[r])]
          /\ readAt' = [readAt EXCEPT ![r] = "put"]
          /\ UNCHANGED readKey
       \/ "load" \in Faults /\ ReadDone(r)
    /\ UNCHANGED <<table, cached, list, hubVars, torn>>

\* Put into the cache, whatever is there by now; answered even if that fails.
Put(r) ==
    /\ readAt[r] = "put"
    /\ \/ SetKeyEx(readKey[r], readList[r])
       \/ "cache" \in Faults /\ UNCHANGED <<cached, list>>
    /\ ReadDone(r)
    /\ UNCHANGED <<table, hubVars, torn>>

-------------------------------------------------------------------------------
\* The service ends and is started again; the table and Redis are elsewhere.
Restart ==
    /\ "crash" \in Faults
    /\ HubDone
    /\ readAt' = [r \in Request |-> "idle"]
    /\ readKey' = [r \in Request |-> CHOOSE k \in Key : TRUE]
    /\ readList' = [r \in Request |-> <<>>]
    /\ torn' = (torn \/ ~HubFree)
    /\ UNCHANGED <<table, cached, list, handled, delivered>>

Hub == Validate \/ HubGet \/ HubSet
Answer(r) == Fetch(r) \/ Put(r)

Next ==
    \/ \E m \in Msg : Store(m)
    \/ Hub
    \/ \E r \in Request : Answer(r) \/ \E k \in Asked : Get(r, k)
    \/ \E k \in Key : Expire(k)
    \/ Restart

\* The hub and the requests go on, and Redis drops a key when its time is over.
Fairness ==
    /\ WF_vars(Hub)
    /\ \A r \in Request : WF_vars(Answer(r))
    /\ \A k \in Key : WF_vars(Expire(k))

Spec == Init /\ [][Next]_vars /\ Fairness

-------------------------------------------------------------------------------
\* The state is well formed: nothing is under a key that does not exist, and the
\* hub and a request hold a list only between their two calls.
TypeOK ==
    /\ table \in Seq(Msg) /\ handled \in Seq(Msg) /\ delivered \subseteq Msg
    /\ cached \subseteq Key /\ list \in [Key -> Seq(Msg)]
    /\ \A k \in Key : k \notin cached => list[k] = <<>>
    /\ hubAt \in {"select", "validate", "get", "set"}
    /\ hubAt = "select" <=> hubMsg = NoMsg
    /\ hubMsg \in Msg \cup {NoMsg}
    /\ hubList \in Seq(Msg) /\ (hubAt # "set" => hubList = <<>>)
    /\ readAt \in [Request -> {"idle", "fetch", "put"}]
    /\ readKey \in [Request -> Key] /\ readList \in [Request -> Seq(Msg)]
    /\ \A r \in Request : readAt[r] # "put" => readList[r] = <<>>
    /\ torn \in BOOLEAN

\* When the hub took m.
Turn(m) == CHOOSE i \in DOMAIN handled : handled[i] = m

\* However appends and slow fills overwrite each other, a cached history is in the
\* order in which the hub took the messages, and shows none of them three times.
\* (It may show one twice: filled after the message was stored, appended to after.)
CachedInOrder ==
    \A k \in cached :
      /\ \A i, j \in DOMAIN list[k] : i < j => Turn(list[k][i]) <= Turn(list[k][j])
      /\ \A m \in Msg : Cardinality({i \in DOMAIN list[k] : list[k][i] = m}) <= 2

\* As long as no request overlaps the handling of a message and the calls of Redis
\* do not fail, a user's cached history has every post he sent exactly once, and a
\* group's every post of anyone - also if keys expire between the hub's two calls.
OwnPostsAreCached ==
    ~torn /\ HubFree =>
      \A m \in delivered :
        /\ Kind[m] = "post" /\ KeyOf(m) \in cached
        /\ \E i \in DOMAIN table : table[i] = m
        => Cardinality({i \in DOMAIN list[KeyOf(m)] : list[KeyOf(m)][i] = m}) = 1

\* Histories that lack a message, show one twice, or show one that was never
\* stored, are gone for good once nothing new is sent: from some time on, every
\* cached history is the table's.
HistoryCatchesUp == <>[](\A k \in cached : list[k] = History(k))

===============================================================================
