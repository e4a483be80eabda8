--------------------------- MODULE ServiceDiscovery ---------------------------
(*****************************************************************************)
(* How the services find each other: main.go of the three services, etcd      *)
(* (register.go, discover.go) and the one-time initialisation of the gRPC     *)
(* clients (user_client.go, session_client.go).                               *)
(*                                                                            *)
(* A service that starts writes its address to etcd, without a lease, then    *)
(* serves. For every service it needs, a goroutine asks etcd for addresses    *)
(* every ten seconds until there are some, and initialises the client with    *)
(* the first. sync.Once sees to it that this is tried once per process: the   *)
(* goroutine goes on until a call returns no error, but a second call returns *)
(* none whatever came of the first.                                           *)
(*                                                                            *)
(* A service has one instance at a time. It ends and is started again, at the *)
(* address it had or, redeployed, at another.                                 *)
(*****************************************************************************)
EXTENDS Integers, FiniteSets

CONSTANTS
    Service,
    Addr,       \* the addresses a service may be started at, in the order of keys
    Link,       \* <<p, s>>: p needs a client of s
    Blocking,   \* the services whose client dials before it is stored
    MaxStarts   \* bound: how often a service is started

ASSUME ServiceAssumption ==
    /\ Addr \in [Service -> SUBSET (Nat \ {0})]
    /\ Link \subseteq Service \X Service /\ Blocking \subseteq Service
    /\ MaxStarts \in Nat

VARIABLES
    etcd,       \* the addresses under /services/<s>/
    phase, at,  \* of a service: is it up, and at which address (or 0)
    starts,
    loop,       \* the goroutine of a link: its next step
    found,      \* addr[0], between the lookup and the initialisation
    once,       \* the sync.Once of a link is used up
    client      \* the address of the stored client, or 0

vars == <<etcd, phase, at, starts, loop, found, once, client>>
linkVars == <<loop, found, once, client>>

Up(s) == phase[s] # "down"
\* What a link's variables are while its process is (or was) not running.
Fresh(f, p, v) == [l \in Link |-> IF l[1] = p THEN v ELSE f[l]]

Init ==
    /\ etcd = [s \in Service |-> {}]
    /\ phase = [s \in Service |-> "down"] /\ at = [s \in Service |-> 0]
    /\ starts = [s \in Service |-> 0]
    /\ loop = [l \in Link |-> "off"] /\ found = [l \in Link |-> 0]
    /\ once = [l \in Link |-> FALSE] /\ client = [l \in Link |-> 0]

-------------------------------------------------------------------------------
(* main(): a process                                                          *)

\* mutant: a failed write is only logged, and the service serves
Register_Unchecked(s, a) == UNCHANGED etcd \/ etcd' = [etcd EXCEPT ![s] = @ \cup {a}]
\* The key ends with the address: an earlier one stays. If the write fails, the
\* process ends.
Register(s, a) == etcd' = [etcd EXCEPT ![s] = @ \cup {a}]

Start(s, a) ==
    /\ ~Up(s) /\ starts[s] < MaxStarts
    /\ starts' = [starts EXCEPT ![s] = @ + 1]
    /\ Register(s, a)
    /\ phase' = [phase EXCEPT ![s] = "started"]
    /\ at' = [at EXCEPT ![s] = a]
    /\ loop' = Fresh(loop, s, "lookup")
    /\ UNCHANGED <<found, once, client>>

\* Listen and Serve, in a goroutine of their own.
Serve(s) ==
    /\ phase[s] = "started"
    /\ phase' = [phase EXCEPT ![s] = "serving"]
    /\ UNCHANGED <<etcd, at, starts, linkVars>>

\* The process ends, by a signal or otherwise; nothing is taken back from etcd.
Stop(s) ==
    /\ Up(s)
    /\ phase' = [phase EXCEPT ![s] = "down"] /\ at' = [at EXCEPT ![s] = 0]
    /\ loop' = Fresh(loop, s, "off") /\ found' = Fresh(found, s, 0)
    /\ once' = Fresh(once, s, FALSE) /\ client' = Fresh(client, s, 0)
    /\ UNCHANGED <<etcd, starts>>

-------------------------------------------------------------------------------
(* The goroutine that initialises a client                                    *)

\* etcd's answer is sorted by key, and the loop takes addr[0].
First(s) == CHOOSE a \in etcd[s] : \A b \in etcd[s] : a <= b

\* mutant: an empty answer ends the loop
GetServiceAddr_GivesUp(l) ==
    /\ loop[l] = "lookup"
    /\ IF etcd[l[2]] = {}
         THEN loop' = [loop EXCEPT ![l] = "done"] /\ UNCHANGED found
         ELSE /\ found' = [found EXCEPT ![l] = First(l[2])]
              /\ loop' = [loop EXCEPT ![l] = "init"]
    /\ UNCHANGED <<etcd, phase, at, starts, once, client>>

\* Addresses of the service, sorted by key. An error of etcd, or none, changes
\* nothing: the goroutine sleeps and asks again.
GetServiceAddr(l) ==
    /\ loop[l] = "lookup" /\ etcd[l[2]] # {}
    /\ found' = [found EXCEPT ![l] = First(l[2])]
    /\ loop' = [loop EXCEPT ![l] = "init"]
    /\ UNCHANGED <<etcd, phase, at, starts, once, client>>

\* The session client waits five seconds for the service; the user client is
\* made without asking whether anyone is there.
Reachable(s, a) == s \notin Blocking \/ (phase[s] = "serving" /\ at[s] = a)

\* InitGlobal...Client, and what the loop does with its answer.
InitClient(l) ==
    /\ loop[l] = "init"
    /\ IF once[l]
         THEN loop' = [loop EXCEPT ![l] = "done"] /\ UNCHANGED <<once, client>>
         ELSE /\ once' = [once EXCEPT ![l] = TRUE]
              /\ \/ /\ Reachable(l[2], found[l])
                    /\ client' = [client EXCEPT ![l] = found[l]]
                    /\ loop' = [loop EXCEPT ![l] = "done"]
                 \/ /\ l[2] \in Blocking
                    /\ loop' = [loop EXCEPT ![l] = "lookup"]
                    /\ UNCHANGED client
    /\ found' = [found EXCEPT ![l] = 0]
    /\ UNCHANGED <<etcd, phase, at, starts>>

-------------------------------------------------------------------------------
Next ==
    \/ \E s \in Service : Serve(s) \/ Stop(s) \/ \E a \in Addr[s] : Start(s, a)
    \/ \E l \in Link : GetServiceAddr(l) \/ InitClient(l)

\* A started service comes to serve, and etcd answers again some time: the loops
\* ask for ever. Nothing is assumed of when services are started or end.
Fairness ==
    /\ \A s \in Service : WF_vars(Serve(s))
    /\ \A l \in Link : WF_vars(GetServiceAddr(l)) /\ WF_vars(InitClient(l))

Spec == Init /\ [][Next]_vars /\ Fairness

-------------------------------------------------------------------------------
\* The client of a link, as GetGlobal...Client returns it, reaches its service.
Usable(l) == client[l] # 0 /\ phase[l[2]] = "serving" /\ client[l] = at[l[2]]
\* The first dial of this process failed: there will be no second.
Spent(l) == once[l] /\ client[l] = 0

\* The state is well formed: a process that is not running has no goroutines and
\* no clients, and only one that serves can have been dialled.
TypeOK ==
    /\ etcd \in [Service -> SUBSET Nat]
    /\ phase \in [Service -> {"down", "started", "serving"}]
    /\ \A s \in Service : at[s] \in (IF Up(s) THEN etcd[s] ELSE {0})
    /\ starts \in [Service -> 0..MaxStarts]
    /\ loop \in [Link -> {"off", "lookup", "init", "done"}]
    /\ once \in [Link -> BOOLEAN]
    /\ \A l \in Link :
         /\ loop[l] = "off" <=> ~Up(l[1])
         /\ loop[l] = "off" => ~once[l]
         /\ found[l] \in (IF loop[l] = "init" THEN etcd[l[2]] ELSE {0})
         /\ client[l] \in {0} \cup etcd[l[2]]
         /\ client[l] # 0 => once[l]

\* A service that stays up at the first of its addresses, as etcd sorts them, is
\* reached in the end by everyone who stays up and needs it, whatever the order in
\* which the services came up, ended and came back - unless his first dial failed,
\* or he still has an address from which the service has moved away.
Settled(l) ==
    LET p == l[1]
        s == l[2]
    IN /\ Up(p) /\ phase[s] = "serving" /\ at[s] = First(s)
       /\ {found[l], client[l]} \subseteq {0, at[s]}
ComesToBeUsable ==
    \A l \in Link : Settled(l) ~> (Usable(l) \/ Spent(l) \/ ~Settled(l))

===============================================================================
