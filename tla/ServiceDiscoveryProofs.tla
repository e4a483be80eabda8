------------------------- MODULE ServiceDiscoveryProofs -------------------------
(*****************************************************************************)
(* Theorems about ServiceDiscovery.tla, for any services, addresses, links    *)
(* and numbers of starts.                                                     *)
(*****************************************************************************)
EXTENDS ServiceDiscovery, TLAPS, WellFoundedInduction

\* A set of addresses that is not empty has a first one.
LEMMA LowestAddr ==
  ASSUME NEW addrs \in SUBSET Nat, addrs # {}
  PROVE  \E a \in addrs : \A b \in addrs : a <= b
<1>1. IsWellFoundedOn(OpToRel(<, Nat), Nat)
  BY NatLessThanWellFounded
<1>2. PICK a \in addrs : \A b \in addrs : ~(<<b, a>> \in OpToRel(<, Nat))
  BY <1>1, WFMin
<1>3. \A b \in addrs : ~(b < a)
  BY <1>2 DEF OpToRel
<1>4. QED
  BY <1>3

\* What the goroutines find under a key is one of its addresses.
LEMMA FirstFacts ==
  ASSUME NEW s \in Service, etcd[s] \in SUBSET Nat, etcd[s] # {}
  PROVE  First(s) \in etcd[s]
BY LowestAddr DEF First

-------------------------------------------------------------------------------
(* Types                                                                      *)

\* TypeOK speaks of the values of at, found and client; that they are functions of
\* the services and the links makes it inductive.
Shape ==
    /\ at \in [Service -> Nat]
    /\ found \in [Link -> Nat] /\ client \in [Link -> Nat]

\* Nothing is up or known at the start.
LEMMA TypeInit == Init => Shape /\ TypeOK
BY ServiceAssumption DEF Init, Shape, TypeOK, Up

\* A start adds an address, and begins the loops of the process, which were off.
LEMMA TypeStart ==
  ASSUME Shape, TypeOK, NEW s \in Service, NEW a \in Addr[s], Start(s, a)
  PROVE  Shape' /\ TypeOK'
<1> USE ServiceAssumption
<1>1. a \in Nat /\ phase[s] = "down"
  BY DEF Start, Up, TypeOK
<1>2. Shape'
  BY <1>1 DEF Shape, Start
<1>3. /\ etcd' \in [Service -> SUBSET Nat]
      /\ phase' \in [Service -> {"down", "started", "serving"}]
      /\ starts' \in [Service -> 0..MaxStarts]
      /\ loop' \in [Link -> {"off", "lookup", "init", "done"}]
      /\ once' \in [Link -> BOOLEAN]
  BY <1>1 DEF TypeOK, Start, Register, Fresh
<1>4. \A p \in Service : at'[p] \in (IF phase'[p] # "down" THEN etcd'[p] ELSE {0})
  BY <1>1 DEF Shape, TypeOK, Start, Register, Up
<1>5. \A l \in Link : etcd[l[2]] \subseteq etcd'[l[2]] /\ l[1] \in Service /\ l[2] \in Service
  BY DEF TypeOK, Start, Register
<1>6. ASSUME NEW l \in Link
      PROVE  /\ loop'[l] = "off" <=> ~Up(l[1])'
             /\ loop'[l] = "off" => ~once'[l]
             /\ found'[l] \in (IF loop'[l] = "init" THEN etcd'[l[2]] ELSE {0})
             /\ client'[l] \in {0} \cup etcd'[l[2]]
             /\ client'[l] # 0 => once'[l]
  <2>1. CASE l[1] = s
    BY <1>1, <1>5, <2>1 DEF TypeOK, Start, Fresh, Up
  <2>2. CASE l[1] # s
    BY <1>5, <2>2 DEF TypeOK, Start, Fresh, Up
  <2>3. QED
    BY <2>1, <2>2
<1>7. QED
  BY <1>2, <1>3, <1>4, <1>6 DEF TypeOK, Up

\* A started service comes to serve.
LEMMA TypeServe ==
  ASSUME Shape, TypeOK, NEW s \in Service, Serve(s)
  PROVE  Shape' /\ TypeOK'
BY ServiceAssumption DEF Shape, TypeOK, Serve, Up, linkVars

\* The end of a process ends its loops and takes its clients.
LEMMA TypeStop ==
  ASSUME Shape, TypeOK, NEW s \in Service, Stop(s)
  PROVE  Shape' /\ TypeOK'
<1> USE ServiceAssumption
<1>1. Shape'
  BY DEF Shape, Stop, Fresh
<1>2. /\ etcd' \in [Service -> SUBSET Nat]
      /\ phase' \in [Service -> {"down", "started", "serving"}]
      /\ starts' \in [Service -> 0..MaxStarts]
      /\ loop' \in [Link -> {"off", "lookup", "init", "done"}]
      /\ once' \in [Link -> BOOLEAN]
  BY DEF TypeOK, Stop, Fresh
<1>3. \A p \in Service : at'[p] \in (IF phase'[p] # "down" THEN etcd'[p] ELSE {0})
  BY DEF Shape, TypeOK, Stop, Up
<1>4. ASSUME NEW l \in Link
      PROVE  /\ loop'[l] = "off" <=> ~Up(l[1])'
             /\ loop'[l] = "off" => ~once'[l]
             /\ found'[l] \in (IF loop'[l] = "init" THEN etcd'[l[2]] ELSE {0})
             /\ client'[l] \in {0} \cup etcd'[l[2]]
             /\ client'[l] # 0 => once'[l]
  <2>1. CASE l[1] = s
    BY <2>1 DEF TypeOK, Stop, Fresh, Up
  <2>2. CASE l[1] # s
    BY <2>2 DEF TypeOK, Stop, Fresh, Up
  <2>3. QED
    BY <2>1, <2>2
<1>5. QED
  BY <1>1, <1>2, <1>3, <1>4 DEF TypeOK, Up

\* A loop that has asked has one of the addresses there were.
LEMMA TypeGetServiceAddr ==
  ASSUME Shape, TypeOK, NEW l \in Link, GetServiceAddr(l)
  PROVE  Shape' /\ TypeOK'
<1>1. l[2] \in Service
  BY ServiceAssumption
<1>2. First(l[2]) \in etcd[l[2]] /\ First(l[2]) \in Nat
  BY <1>1, FirstFacts DEF TypeOK, GetServiceAddr
<1>3. QED
  BY <1>2 DEF Shape, TypeOK, GetServiceAddr, Up

\* A client is stored with the address that was found, by the first call only.
LEMMA TypeInitClient ==
  ASSUME Shape, TypeOK, NEW l \in Link, InitClient(l)
  PROVE  Shape' /\ TypeOK'
<1>1. found[l] \in etcd[l[2]] /\ found[l] \in Nat
  BY DEF Shape, TypeOK, InitClient
<1>2. CASE once[l]
  <2>1. /\ loop' = [loop EXCEPT ![l] = "done"] /\ found' = [found EXCEPT ![l] = 0]
        /\ UNCHANGED <<etcd, phase, at, starts, once, client>> /\ loop[l] = "init"
    BY <1>2 DEF InitClient
  <2>2. QED
    BY <1>1, <2>1 DEF Shape, TypeOK, Up
<1>3. CASE ~once[l]
  <2>1. /\ once' = [once EXCEPT ![l] = TRUE] /\ found' = [found EXCEPT ![l] = 0]
        /\ UNCHANGED <<etcd, phase, at, starts>> /\ loop[l] = "init"
    BY <1>3 DEF InitClient
  <2>2. CASE client' = [client EXCEPT ![l] = found[l]] /\ loop' = [loop EXCEPT ![l] = "done"]
    BY <1>1, <2>1, <2>2 DEF Shape, TypeOK, Up
  <2>3. CASE loop' = [loop EXCEPT ![l] = "lookup"] /\ UNCHANGED client
    BY <1>1, <2>1, <2>3 DEF Shape, TypeOK, Up
  <2>4. QED
    BY <1>3, <2>2, <2>3 DEF InitClient
<1>4. QED
  BY <1>2, <1>3

\* Every step keeps the types, one lemma per action.
LEMMA TypeStep == Shape /\ TypeOK /\ [Next]_vars => Shape' /\ TypeOK'
<1> SUFFICES ASSUME Shape, TypeOK, [Next]_vars
             PROVE  Shape' /\ TypeOK'
  OBVIOUS
<1>1. CASE UNCHANGED vars
  BY <1>1 DEF vars, linkVars, Shape, TypeOK, Up
<1>2. CASE Next
  BY <1>2, TypeStart, TypeServe, TypeStop, TypeGetServiceAddr, TypeInitClient DEF Next
<1>3. QED
  BY <1>1, <1>2

\* main.go of the services, register.go, discover.go and the two clients: a process
\* that is not running has neither loops nor clients, and every address that a loop
\* has found or a client was stored with is one that etcd still has.
THEOREM TypeCorrect == Spec => []TypeOK
<1>1. Spec => [](Shape /\ TypeOK)
  BY TypeInit, TypeStep, PTL DEF Spec
<1>2. QED
  BY <1>1, PTL

===============================================================================
