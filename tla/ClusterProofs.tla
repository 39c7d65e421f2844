--------------------------- MODULE ClusterProofs ---------------------------
(***************************************************************************)
(* Proofs of the safety properties of Cluster, for any set of nodes, any   *)
(* scores, true or claimed, any timeout and any number of crashes, losses  *)
(* and requests.                                                           *)
(***************************************************************************)
EXTENDS Cluster, TLAPS

-----------------------------------------------------------------------------
(* The election *)

\* Of the entries of two different nodes, one beats the other: addresses are
\* different.
LEMMA BeatsTotal ==
  ASSUME NEW p \in Nodes, NEW q \in Nodes, p # q, NEW i \in Nat, NEW j \in Nat
  PROVE  Beats(<<p, i>>, <<q, j>>) \/ Beats(<<q, j>>, <<p, i>>)
<1>1. Ip[p] \in Nat /\ Ip[q] \in Nat /\ Ip[p] # Ip[q]
  BY ConstantsAssumption
<1> QED
  BY <1>1 DEF Beats

\* A node without peers elects itself.
LEMMA AloneWins ==
  ASSUME NEW n \in Nodes, NEW h
  PROVE  <<n, Score[n]>> \in Winners(Entries(n, {}, h))
<1>1. Score[n] \in Nat /\ Ip[n] \in Nat
  BY ConstantsAssumption
<1>2. ~ Beats(<<n, Score[n]>>, <<n, Score[n]>>)
  BY <1>1 DEF Beats
<1> QED
  BY <1>2 DEF Winners, Entries

-----------------------------------------------------------------------------
(* Type correctness *)

\* An election stores a node and a role.
LEMMA ElectedType ==
  ASSUME TypeOK, NEW n \in Nodes, NEW P \in SUBSET Nodes, NEW h, Elected(n, P, h)
  PROVE  /\ coord' \in [Nodes -> Nodes]
         /\ state' \in [Nodes -> State]
<1>1. PICK w \in Winners(Entries(n, P, h)) :
        /\ coord' = [coord EXCEPT ![n] = w[1]]
        /\ state' = [state EXCEPT ![n] = Role(n, w[1], P)]
  BY DEF Elected
<1>2. w[1] \in Nodes
  BY DEF Winners, Entries
<1>3. Role(n, w[1], P) \in State
  BY DEF Role, State
<1> QED
  BY <1>1, <1>2, <1>3 DEF TypeOK

\* The scores of answers are true, and natural numbers.
LEMMA HeardType ==
  ASSUME NEW h \in [Nodes -> Nat], NEW D
  PROVE  Heard(h, D) \in [Nodes -> Nat]
  BY ConstantsAssumption DEF Heard

\* A thread of a node goes to a label.
LEMMA GoToType ==
  ASSUME TypeOK, NEW n \in Nodes, NEW t \in Threads, NEW label \in Pc, GoTo(n, t, label)
  PROVE  pc' \in [Nodes -> [Threads -> Pc]]
<1>1. pc[n] \in [Threads -> Pc]
  BY DEF TypeOK
<1>2. [pc[n] EXCEPT ![t] = label] \in [Threads -> Pc]
  BY <1>1
<1> QED
  BY <1>2 DEF TypeOK, GoTo

\* Counting an event, or none, and a discovery, which may.
LEMMA EventType ==
  ASSUME TypeOK
  PROVE  /\ Event => events' \in Nat
         /\ \A n, D : Finds(n, D) => events' \in Nat
  BY DEF TypeOK, Event, Finds

LEMMA TypeInit == Init => TypeOK
<1> SUFFICES ASSUME Init PROVE TypeOK
  OBVIOUS
<1>1. 0 \in 0 .. Timeout - 1
  BY ConstantsAssumption
<1>2. Idle \in [Threads -> Pc]
  BY DEF Idle, Pc
<1> QED
  BY <1>1, <1>2 DEF Init, TypeOK, State

LEMMA TypeNext == TypeOK /\ [Next]_vars => TypeOK'
<1> SUFFICES ASSUME TypeOK, [Next]_vars PROVE TypeOK'
  OBVIOUS
<1>a. 0 \in 0 .. Timeout - 1
  BY ConstantsAssumption
<1>b. \A t : After(t) \in Pc
  BY DEF After, Pc
<1>c. "hb" \in Threads /\ "rq" \in Threads
  BY DEF Threads
<1>1. ASSUME NEW n \in Nodes, Boot(n) PROVE TypeOK'
  <2>1. engine' \in [Nodes -> SUBSET Nodes]
    BY <1>1 DEF Boot, TypeOK
  <2>2. pc' \in [Nodes -> [Threads -> Pc]]
    BY <1>1, <1>c, GoToType DEF Boot, Pc
  <2> QED
    BY <1>1, <2>1, <2>2 DEF Boot, TypeOK
<1>2. ASSUME NEW n \in Nodes, Join(n) PROVE TypeOK'
  <2>1. PICK D \in SUBSET (up \ {n}) :
          /\ Finds(n, D)
          /\ peers' = [peers EXCEPT ![n] = D]
          /\ held' = [held EXCEPT ![n] = Heard(held[n], D)]
          /\ Elected(n, D, Heard(held[n], D))
    BY <1>2 DEF Join
  <2>2. D \in SUBSET Nodes
    BY <2>1 DEF TypeOK
  <2>3. pc' \in [Nodes -> [Threads -> Pc]]
    BY <1>2, <1>c, GoToType DEF Join, Pc
  <2>4. events' \in Nat
    BY <2>1, EventType
  <2>5. coord' \in [Nodes -> Nodes] /\ state' \in [Nodes -> State]
    BY <2>1, <2>2, ElectedType
  <2>6. held' \in [Nodes -> [Nodes -> Nat]]
    BY <2>1, HeardType DEF TypeOK
  <2> QED
    BY <1>2, <2>1, <2>2, <2>3, <2>4, <2>5, <2>6 DEF Join, TypeOK
<1>3. ASSUME NEW n \in Nodes, Crash(n) PROVE TypeOK'
  <2>1. Idle \in [Threads -> Pc]
    BY DEF Idle, Pc
  <2>2. events' \in Nat
    BY <1>3, EventType DEF Crash
  <2> QED
    BY <1>3, <1>a, <2>1, <2>2 DEF Crash, TypeOK, State
<1>4. ASSUME NEW n \in Nodes, EngineEnds(n) PROVE TypeOK'
  <2>1. events' \in Nat
    BY <1>4, EventType DEF EngineEnds
  <2>2. engine' \in [Nodes -> SUBSET Nodes]
    BY <1>4 DEF EngineEnds, TypeOK
  <2> QED
    BY <1>4, <2>1, <2>2 DEF EngineEnds, TypeOK
<1>5. ASSUME NEW n \in Nodes, Expire(n) PROVE TypeOK'
  <2>1. PICK d \in 1 .. (IF slow[n] = 1 THEN Timeout ELSE 1) :
          /\ peers' = [peers EXCEPT ![n] = @ \ Expired(n, d)]
          /\ held' = [held EXCEPT ![n] =
                        [p \in Nodes |-> IF p \in Expired(n, d) THEN 0 ELSE held[n][p]]]
          /\ age' = [age EXCEPT ![n] =
                       [p \in Nodes |-> IF p \in peers[n] \ Expired(n, d)
                                        THEN age[n][p] + d ELSE 0]]
          /\ GoTo(n, "hb", IF Expired(n, d) = {} THEN "discover" ELSE "cbE")
    BY <1>5 DEF Expire
  <2>2. d \in Nat
    BY ConstantsAssumption
  <2>3. \A p \in Nodes : age[n][p] \in Nat
    BY ConstantsAssumption DEF TypeOK
  <2>4. ASSUME NEW p \in Nodes, p \in peers[n] \ Expired(n, d)
        PROVE  age[n][p] + d \in 0 .. Timeout - 1
    <3>1. ~ (age[n][p] + d >= Timeout)
      BY <2>4 DEF Expired
    <3> QED
      BY <3>1, <2>2, <2>3, ConstantsAssumption
  <2>5. age' \in [Nodes -> [Nodes -> 0 .. Timeout - 1]]
    BY <2>1, <2>4, <1>a DEF TypeOK
  <2>6. peers' \in [Nodes -> SUBSET Nodes]
    BY <2>1 DEF TypeOK
  <2>7. pc' \in [Nodes -> [Threads -> Pc]]
    BY <2>1, <1>c, GoToType DEF Pc
  <2>8. held' \in [Nodes -> [Nodes -> Nat]]
    BY <2>1 DEF TypeOK
  <2> QED
    BY <1>5, <2>5, <2>6, <2>7, <2>8 DEF Expire, TypeOK
<1>6. ASSUME NEW n \in Nodes, Discover(n) PROVE TypeOK'
  <2>1. PICK D \in SUBSET (up \ {n}) :
          /\ Finds(n, D)
          /\ peers' = [peers EXCEPT ![n] = @ \cup D]
          /\ held' = [held EXCEPT ![n] = Heard(held[n], D)]
          /\ age' = [age EXCEPT ![n] = [p \in Nodes |-> IF p \in D THEN 0 ELSE age[n][p]]]
    BY <1>6 DEF Discover
  <2>2. peers' \in [Nodes -> SUBSET Nodes]
    BY <2>1 DEF TypeOK
  <2>3. age' \in [Nodes -> [Nodes -> 0 .. Timeout - 1]]
    BY <2>1, <1>a DEF TypeOK
  <2>4. pc' \in [Nodes -> [Threads -> Pc]]
    BY <1>6, <1>c, GoToType DEF Discover, Pc
  <2>5. events' \in Nat
    BY <2>1, EventType
  <2>6. held' \in [Nodes -> [Nodes -> Nat]]
    BY <2>1, HeardType DEF TypeOK
  <2> QED
    BY <1>6, <2>2, <2>3, <2>4, <2>5, <2>6 DEF Discover, TypeOK
<1>7. ASSUME NEW n \in Nodes, NEW t \in Threads, RunElection(n, t) PROVE TypeOK'
  <2>1. peers[n] \in SUBSET Nodes
    BY DEF TypeOK
  <2>2. coord' \in [Nodes -> Nodes] /\ state' \in [Nodes -> State]
    BY <1>7, <2>1, ElectedType DEF RunElection
  <2>3. (IF state'[n] # state[n] THEN "cb" ELSE After(t)) \in Pc
    BY <1>b DEF Pc
  <2>4. pc' \in [Nodes -> [Threads -> Pc]]
    BY <1>7, <2>3, GoToType DEF RunElection
  <2> QED
    BY <1>7, <2>2, <2>4 DEF RunElection, TypeOK
<1>8. ASSUME NEW n \in Nodes, NEW t \in Threads, CallbackStops(n, t) PROVE TypeOK'
  <2>1. /\ (IF pc[n][t] = "cbE" THEN "discover" ELSE After(t)) \in Pc
        /\ (IF pc[n][t] = "cbE" THEN "spawnE" ELSE "spawn") \in Pc
    BY <1>b DEF Pc
  <2>2. pc' \in [Nodes -> [Threads -> Pc]]
    BY <1>8, <2>1, GoToType DEF CallbackStops
  <2>3. engine' \in [Nodes -> SUBSET Nodes]
    BY <1>8 DEF CallbackStops, TypeOK
  <2> QED
    BY <1>8, <2>2, <2>3 DEF CallbackStops, TypeOK
<1>9. ASSUME NEW n \in Nodes, NEW t \in Threads, CallbackSpawns(n, t) PROVE TypeOK'
  <2>1. (IF pc[n][t] = "spawnE" THEN "discover" ELSE After(t)) \in Pc
    BY <1>b DEF Pc
  <2>2. pc' \in [Nodes -> [Threads -> Pc]]
    BY <1>9, <2>1, GoToType DEF CallbackSpawns
  <2>3. {n} \cup peers[n] \in SUBSET Nodes /\ {} \in SUBSET Nodes /\ {n} \in SUBSET Nodes
    BY DEF TypeOK
  <2>4. PICK e \in SUBSET Nodes : engine' = [engine EXCEPT ![n] = e]
    BY <1>9, <2>3 DEF CallbackSpawns
  <2>5. engine' \in [Nodes -> SUBSET Nodes]
    BY <2>4 DEF TypeOK
  <2>6. events' \in Nat
    BY <1>9, EventType DEF CallbackSpawns, TypeOK
  <2>7. slow' \in [Nodes -> {0, 1}]
    BY <1>9 DEF CallbackSpawns, TypeOK
  <2> QED
    BY <1>9, <2>2, <2>5, <2>6, <2>7 DEF CallbackSpawns, TypeOK
<1>10. ASSUME NEW n \in Nodes, Recover(n) PROVE TypeOK'
  <2>1. pc' \in [Nodes -> [Threads -> Pc]]
    BY <1>10, <1>c, GoToType DEF Recover, Pc
  <2>2. engine' \in [Nodes -> SUBSET Nodes]
    <3>1. {n} \in SUBSET Nodes
      OBVIOUS
    <3> QED
      BY <1>10, <3>1 DEF Recover, TypeOK
  <2>3. slow' \in [Nodes -> {0, 1}]
    BY <1>10 DEF Recover, TypeOK
  <2> QED
    BY <1>10, <2>1, <2>2, <2>3 DEF Recover, TypeOK
<1>11. ASSUME NEW n \in Nodes, Reload(n) PROVE TypeOK'
  <2>1. pc' \in [Nodes -> [Threads -> Pc]]
    BY <1>11, <1>c, GoToType DEF Reload, Pc
  <2>2. events' \in Nat
    BY <1>11, EventType DEF Reload
  <2> QED
    BY <1>11, <2>1, <2>2 DEF Reload, TypeOK
<1>12. ASSUME NEW n \in Nodes, NEW p \in Nodes, NEW s \in Claims \cup {Score[p]}, AddPeer(n, p, s)
       PROVE  TypeOK'
  <2>1. pc' \in [Nodes -> [Threads -> Pc]]
    BY <1>12, <1>c, GoToType DEF AddPeer, Pc
  <2>2. events' \in Nat
    BY <1>12, EventType DEF AddPeer
  <2>3. peers' \in [Nodes -> SUBSET Nodes]
    BY <1>12 DEF AddPeer, TypeOK
  <2>4. age[n] \in [Nodes -> 0 .. Timeout - 1]
    BY DEF TypeOK
  <2>5. age' \in [Nodes -> [Nodes -> 0 .. Timeout - 1]]
    BY <1>12, <1>a, <2>4 DEF AddPeer, TypeOK
  <2>6. s \in Nat
    BY ConstantsAssumption
  <2>7. held' \in [Nodes -> [Nodes -> Nat]]
    BY <1>12, <2>6 DEF AddPeer, TypeOK
  <2> QED
    BY <1>12, <2>1, <2>2, <2>3, <2>5, <2>7 DEF AddPeer, TypeOK
<1>13. ASSUME UNCHANGED vars PROVE TypeOK'
  BY <1>13 DEF vars, TypeOK
<1> QED
  BY <1>1, <1>2, <1>3, <1>4, <1>5, <1>6, <1>7, <1>8, <1>9, <1>10, <1>11, <1>12,
     <1>13, <1>c DEF Next, Heartbeat, Runs

\* Type correctness of the mesh: in particular no peer older than the timeout
\* is left by expire_peers, however long a heartbeat took.
THEOREM TypeCorrect == Spec => []TypeOK
  BY TypeInit, TypeNext, PTL DEF Spec

-----------------------------------------------------------------------------
(* One coordinator *)

\* What node n holds as coordinator_ and state_ is what an election about its
\* peers of now decides.
StandsFor(n) ==
    \E w \in Winners(Entries(n, peers[n], held[n])) :
        /\ coord[n] = w[1]
        /\ state[n] = Role(n, w[1], peers[n])

\* No election is due at node n.
Rests(n) == n \notin up \/ Decided(n)

\* So it is at every node where no election is due.
DecidedInv == \A n \in Nodes : Rests(n) => StandsFor(n)

\* A node whose peers and role stay the same, and that does not come to
\* rest, keeps the invariant.
LEMMA Kept ==
  ASSUME NEW m, Rests(m) => StandsFor(m), Rests(m)' => Rests(m),
         peers'[m] = peers[m], held'[m] = held[m],
         coord'[m] = coord[m], state'[m] = state[m]
  PROVE  Rests(m)' => StandsFor(m)'
  BY DEF StandsFor, Winners, Entries, Role, Beats

\* So does a node where nothing happens.
LEMMA Elsewhere ==
  ASSUME NEW m, Rests(m) => StandsFor(m), pc'[m] = pc[m],
         peers'[m] = peers[m], held'[m] = held[m],
         coord'[m] = coord[m], state'[m] = state[m],
         m \in up' <=> m \in up
  PROVE  Rests(m)' => StandsFor(m)'
<1>1. Rests(m)' => Rests(m)
  BY DEF Rests, Decided
<1> QED
  BY <1>1, Kept

\* run_election decides on the peers that it finds.
LEMMA ElectionDecides ==
  ASSUME TypeOK, NEW n \in Nodes, Elected(n, peers'[n], held'[n])
  PROVE  StandsFor(n)'
<1>1. PICK w \in Winners(Entries(n, peers'[n], held'[n])) :
        /\ coord' = [coord EXCEPT ![n] = w[1]]
        /\ state' = [state EXCEPT ![n] = Role(n, w[1], peers'[n])]
  BY DEF Elected
<1>2. coord'[n] = w[1] /\ state'[n] = Role(n, w[1], peers'[n])
  BY <1>1 DEF TypeOK
<1> QED
  BY <1>2 DEF StandsFor, Winners, Entries, Role, Beats

LEMMA DecidedInit == Init => DecidedInv
<1> SUFFICES ASSUME Init, NEW n \in Nodes PROVE StandsFor(n)
  BY DEF DecidedInv
<1>1. coord[n] = n /\ state[n] = "standalone" /\ peers[n] = {}
  BY DEF Init
<1>2. <<n, Score[n]>> \in Winners(Entries(n, peers[n], held[n]))
  BY <1>1, AloneWins
<1>3. Role(n, n, peers[n]) = "standalone"
  BY <1>1 DEF Role
<1> QED
  BY <1>1, <1>2, <1>3 DEF StandsFor

LEMMA DecidedNext == TypeOK /\ DecidedInv /\ [Next]_vars => DecidedInv'
<1> SUFFICES ASSUME TypeOK, DecidedInv, [Next]_vars, NEW m \in Nodes
             PROVE  Rests(m)' => StandsFor(m)'
  BY DEF DecidedInv
<1>a. Rests(m) => StandsFor(m)
  BY DEF DecidedInv
<1>b. "hb" \in Threads /\ "rq" \in Threads /\ "hb" # "rq"
  BY DEF Threads
<1>c. \A n \in Nodes : pc[n] \in [Threads -> Pc]
  BY DEF TypeOK
<1>1. ASSUME NEW n \in Nodes, Boot(n) PROVE Rests(m)' => StandsFor(m)'
  <2>1. Rests(m)' => Rests(m)
    BY <1>1 DEF Boot, GoTo, Decided, Rests, TypeOK
  <2> QED
    BY <1>1, <1>a, <2>1, Kept DEF Boot
<1>2. ASSUME NEW n \in Nodes, Join(n) PROVE Rests(m)' => StandsFor(m)'
  <2>1. PICK D \in SUBSET (up \ {n}) :
          /\ peers' = [peers EXCEPT ![n] = D]
          /\ held' = [held EXCEPT ![n] = Heard(held[n], D)]
          /\ Elected(n, D, Heard(held[n], D))
    BY <1>2 DEF Join
  <2>2. CASE m = n
    <3>1. peers'[n] = D /\ held'[n] = Heard(held[n], D)
      BY <2>1 DEF TypeOK
    <3> QED
      BY <2>1, <2>2, <3>1, ElectionDecides
  <2>3. CASE m # n
    <3>1. coord'[m] = coord[m] /\ state'[m] = state[m]
      BY <2>1, <2>3 DEF Elected, TypeOK
    <3>2. /\ pc'[m] = pc[m] /\ peers'[m] = peers[m] /\ held'[m] = held[m]
          /\ (m \in up' <=> m \in up)
      BY <1>2, <2>1, <2>3 DEF Join, GoTo, TypeOK
    <3> QED
      BY <1>a, <3>1, <3>2, Elsewhere
  <2> QED
    BY <2>2, <2>3
<1>3. ASSUME NEW n \in Nodes, Crash(n) PROVE Rests(m)' => StandsFor(m)'
  <2>1. CASE m = n
    <3>1. coord'[m] = m /\ state'[m] = "standalone" /\ peers'[m] = {}
      BY <1>3, <2>1 DEF Crash, TypeOK
    <3>2. <<m, Score[m]>> \in Winners(Entries(m, peers'[m], held'[m]))
      BY <3>1, AloneWins
    <3>3. Role(m, m, peers'[m]) = "standalone"
      BY <3>1 DEF Role
    <3> QED
      BY <3>1, <3>2, <3>3 DEF StandsFor, Winners, Entries, Role, Beats
  <2>2. CASE m # n
    <3>1. /\ coord'[m] = coord[m] /\ state'[m] = state[m] /\ pc'[m] = pc[m]
          /\ peers'[m] = peers[m] /\ held'[m] = held[m] /\ (m \in up' <=> m \in up)
      BY <1>3, <2>2 DEF Crash, TypeOK
    <3> QED
      BY <1>a, <3>1, Elsewhere
  <2> QED
    BY <2>1, <2>2
<1>4. ASSUME NEW n \in Nodes, Expire(n) \/ Discover(n) PROVE Rests(m)' => StandsFor(m)'
  <2>1. CASE m = n
    <3>1. pc'[n]["hb"] \in {"cbE", "discover", "elect"}
      BY <1>4, <1>b, <1>c DEF Expire, Discover, GoTo, TypeOK
    <3> QED
      BY <1>4, <2>1, <3>1 DEF Rests, Decided, Expire, Discover
  <2>2. CASE m # n
    <3>1. /\ coord'[m] = coord[m] /\ state'[m] = state[m] /\ pc'[m] = pc[m]
          /\ peers'[m] = peers[m] /\ held'[m] = held[m] /\ (m \in up' <=> m \in up)
      BY <1>4, <2>2 DEF Expire, Discover, GoTo, TypeOK
    <3> QED
      BY <1>a, <3>1, Elsewhere
  <2> QED
    BY <2>1, <2>2
<1>5. ASSUME NEW n \in Nodes, NEW t \in Threads, RunElection(n, t)
      PROVE  Rests(m)' => StandsFor(m)'
  <2>1. UNCHANGED <<peers, held>> /\ Elected(n, peers[n], held[n])
    BY <1>5 DEF RunElection
  <2>2. CASE m = n
    BY <2>1, <2>2, ElectionDecides
  <2>3. CASE m # n
    <3>1. /\ coord'[m] = coord[m] /\ state'[m] = state[m] /\ pc'[m] = pc[m]
          /\ (m \in up' <=> m \in up)
      BY <1>5, <2>1, <2>3 DEF RunElection, Elected, GoTo, TypeOK
    <3> QED
      BY <1>a, <2>1, <3>1, Elsewhere
  <2> QED
    BY <2>2, <2>3
<1>6. ASSUME NEW n \in Nodes, NEW t \in Threads, CallbackStops(n, t) \/ CallbackSpawns(n, t)
      PROVE  Rests(m)' => StandsFor(m)'
  <2>1. Rests(m)' => Rests(m)
    <3>1. CASE t = "hb"
      <4>1. pc'[n]["rq"] = pc[n]["rq"]
        BY <1>6, <3>1, <1>b, <1>c DEF CallbackStops, CallbackSpawns, GoTo, TypeOK
      <4>2. pc'[n]["hb"] \in {"spawn", "recover"} => pc[n]["hb"] \in {"cb", "spawn"}
        BY <1>6, <3>1, <1>b, <1>c DEF CallbackStops, CallbackSpawns, GoTo, After, TypeOK
      <4>3. pc'[n]["hb"] \in {"discover", "spawnE", "spawn", "recover"}
        BY <1>6, <3>1, <1>b, <1>c DEF CallbackStops, CallbackSpawns, GoTo, After, TypeOK
      <4> QED
        BY <1>6, <4>1, <4>2, <4>3 DEF CallbackStops, CallbackSpawns, GoTo, Decided, Rests, TypeOK
    <3>2. CASE t = "rq"
      <4>1. pc'[n]["hb"] = pc[n]["hb"]
        BY <1>6, <3>2, <1>b, <1>c DEF CallbackStops, CallbackSpawns, GoTo, TypeOK
      <4>2. pc[n]["rq"] # "elect"
        BY <1>6, <3>2 DEF CallbackStops, CallbackSpawns
      <4> QED
        BY <1>6, <4>1, <4>2 DEF CallbackStops, CallbackSpawns, GoTo, Decided, Rests, TypeOK
    <3> QED
      BY <3>1, <3>2 DEF Threads
  <2> QED
    BY <1>6, <1>a, <2>1, Kept DEF CallbackStops, CallbackSpawns
<1>7. ASSUME NEW n \in Nodes, Recover(n) PROVE Rests(m)' => StandsFor(m)'
  <2>1. Rests(m)' => Rests(m)
    BY <1>7, <1>b, <1>c DEF Recover, GoTo, Decided, Rests, TypeOK
  <2> QED
    BY <1>7, <1>a, <2>1, Kept DEF Recover
<1>8. ASSUME NEW n \in Nodes, Reload(n) PROVE Rests(m)' => StandsFor(m)'
  <2>1. Rests(m)' => Rests(m)
    BY <1>8, <1>b, <1>c DEF Reload, GoTo, Decided, Rests, TypeOK
  <2> QED
    BY <1>8, <1>a, <2>1, Kept DEF Reload
<1>9. ASSUME NEW n \in Nodes, NEW p \in Nodes, NEW s, AddPeer(n, p, s)
      PROVE  Rests(m)' => StandsFor(m)'
  <2>1. CASE m = n
    <3>1. pc'[n]["rq"] = "elect"
      BY <1>9, <1>b, <1>c DEF AddPeer, GoTo, TypeOK
    <3> QED
      BY <1>9, <2>1, <3>1 DEF Rests, Decided, AddPeer, Free
  <2>2. CASE m # n
    <3>1. /\ coord'[m] = coord[m] /\ state'[m] = state[m] /\ pc'[m] = pc[m]
          /\ peers'[m] = peers[m] /\ held'[m] = held[m] /\ (m \in up' <=> m \in up)
      BY <1>9, <2>2 DEF AddPeer, GoTo, TypeOK
    <3> QED
      BY <1>a, <3>1, Elsewhere
  <2> QED
    BY <2>1, <2>2
<1>10. ASSUME NEW n \in Nodes, EngineEnds(n) PROVE Rests(m)' => StandsFor(m)'
  BY <1>10, <1>a, Elsewhere DEF EngineEnds
<1>11. ASSUME UNCHANGED vars PROVE Rests(m)' => StandsFor(m)'
  BY <1>11, <1>a, Elsewhere DEF vars
<1> QED
  BY <1>1, <1>2, <1>3, <1>4, <1>5, <1>6, <1>7, <1>8, <1>9, <1>10, <1>11, <1>b
  DEF Next, Heartbeat, Runs

\* A node that has decided, knows another by its real score and is no worker beats
\* it.
LEMMA CoordinatorBeats ==
  ASSUME TypeOK, DecidedInv, NEW m \in Nodes, NEW n \in Nodes, m # n,
         Knows(m, n), Decided(m), state[m] # "worker"
  PROVE  ~ Beats(<<n, Score[n]>>, <<m, Score[m]>>)
<1>1. n \in peers[m] /\ held[m][n] = Score[n] /\ (m \in peers[m] => held[m][m] = Score[m])
  BY DEF Knows
<1>2. PICK w \in Winners(Entries(m, peers[m], held[m])) : state[m] = Role(m, w[1], peers[m])
  BY DEF DecidedInv, Rests, StandsFor
<1>3. w[1] = m
  BY <1>1, <1>2 DEF Role
<1>4. w \in Entries(m, peers[m], held[m])
  BY DEF Winners
<1>5. w = <<m, Score[m]>>
  <2>1. CASE w = <<m, Score[m]>>
    BY <2>1
  <2>2. CASE w \in {<<p, held[m][p]>> : p \in peers[m]}
    <3>1. PICK p \in peers[m] : w = <<p, held[m][p]>>
      BY <2>2
    <3>2. p = m
      BY <1>3, <3>1
    <3> QED
      BY <1>1, <3>1, <3>2
  <2> QED
    BY <1>4, <2>1, <2>2 DEF Entries
<1>6. <<n, Score[n]>> \in Entries(m, peers[m], held[m])
  BY <1>1 DEF Entries
<1> QED
  BY <1>2, <1>5, <1>6 DEF Winners

\* Two nodes that know each other truly and have decided never both act as
\* coordinator, whatever the number of nodes, the scores, what requests have claimed
\* before, the order of discoveries and the failures.
THEOREM OneCoordinatorAlways == Spec => []OneCoordinator
<1>1. TypeOK /\ DecidedInv => OneCoordinator
  <2> SUFFICES ASSUME TypeOK, DecidedInv, NEW m \in up, NEW n \in up, m # n,
                      Knows(m, n), Knows(n, m), Decided(m), Decided(n),
                      state[m] # "worker", state[n] # "worker"
               PROVE  FALSE
    BY DEF OneCoordinator
  <2>1. m \in Nodes /\ n \in Nodes /\ Score[m] \in Nat /\ Score[n] \in Nat
    BY ConstantsAssumption DEF TypeOK
  <2>2. ~ Beats(<<n, Score[n]>>, <<m, Score[m]>>)
    BY <2>1, CoordinatorBeats
  <2>3. ~ Beats(<<m, Score[m]>>, <<n, Score[n]>>)
    BY <2>1, CoordinatorBeats
  <2> QED
    BY <2>1, <2>2, <2>3, BeatsTotal
<1>2. Spec => []DecidedInv
  BY DecidedInit, DecidedNext, TypeCorrect, PTL DEF Spec
<1> QED
  BY <1>1, <1>2, TypeCorrect, PTL
=============================================================================
