------------------------------ MODULE Cluster ------------------------------
(***************************************************************************)
(* The mesh of Llamaste nodes: ClusterManager (cluster.cpp), and the       *)
(* threads of child_main that drive it - start-up, the heartbeat (expire,  *)
(* discover, elect), the reload tool and the add-peer endpoint - with the  *)
(* topology callback that restarts llama-server for the peers.             *)
(*                                                                         *)
(* A method of ClusterManager holds mu_ and is one step.  The callback     *)
(* runs outside it: it looks at the role and stops the engine in one step, *)
(* and starts the new one on the peers of that moment in another.  mDNS    *)
(* answers may be lost.  Age is counted in heartbeats of 30 s.  The races  *)
(* of the engine's own process are the subject of LlamaServer.             *)
(*                                                                         *)
(* A node advertises the RAM and cores it uses for itself; the add-peer    *)
(* endpoint takes them from the request, which may state anything.         *)
(* Assumed: every node is known to all others by one address and port.     *)
(***************************************************************************)
EXTENDS Naturals

CONSTANTS
    Nodes,
    Score,        \* election_score of each node
    Ip,           \* its address, as a number: only the order is used
    Claims,       \* scores that the RAM and cores of a request may amount to
    Timeout,      \* heartbeats after which a peer expires (90 s / 30 s = 3)
    MaxEvents     \* bound: crashes, requests, discoveries that miss a node and
                  \* engines that end or do not start with their peers

ASSUME ConstantsAssumption ==
    /\ Score \in [Nodes -> Nat]
    /\ Ip \in [Nodes -> Nat] /\ \A m, n \in Nodes : Ip[m] = Ip[n] => m = n
    /\ Claims \in SUBSET Nat
    /\ Timeout \in Nat \ {0}
    /\ MaxEvents \in Nat

VARIABLES
    up,         \* nodes whose child_main runs
    peers,      \* peers_ of each node
    held,       \* the score that each of them is held to have, 0 for no peer
    age,        \* heartbeats since each was last seen
    state,      \* state_
    coord,      \* coordinator_
    engine,     \* endpoints its llama-server was started with: {} if it is not
                \* running, only the node itself if it runs alone
    pc,         \* where the heartbeat and the request thread of each node are
    slow,       \* 1: the heartbeat has waited for an engine since it last
                \* discovered peers
    events      \* events so far (bound)

vars == <<up, peers, held, age, state, coord, engine, pc, slow, events>>

Threads == {"hb", "rq"}
Pc == {"boot", "idle", "cbE", "spawnE", "discover", "elect", "cb", "spawn", "recover"}
State == {"standalone", "coordinator", "worker"}

\* Only peers have an age, and none is as old as the timeout once the thread
\* that expires them has passed.
TypeOK ==
    /\ up \in SUBSET Nodes
    /\ peers \in [Nodes -> SUBSET Nodes]
    /\ held \in [Nodes -> [Nodes -> Nat]]
    /\ age \in [Nodes -> [Nodes -> 0 .. Timeout - 1]]
    /\ state \in [Nodes -> State]
    /\ coord \in [Nodes -> Nodes]
    /\ engine \in [Nodes -> SUBSET Nodes]
    /\ pc \in [Nodes -> [Threads -> Pc]]
    /\ slow \in [Nodes -> {0, 1}]
    /\ events \in Nat

Idle == [t \in Threads |-> "idle"]

Init ==
    /\ up = {}
    /\ peers = [n \in Nodes |-> {}]
    /\ held = [n \in Nodes |-> [p \in Nodes |-> 0]]
    /\ age = [n \in Nodes |-> [p \in Nodes |-> 0]]
    /\ state = [n \in Nodes |-> "standalone"]
    /\ coord = [n \in Nodes |-> n]
    /\ engine = [n \in Nodes |-> {}]
    /\ pc = [n \in Nodes |-> Idle]
    /\ slow = [n \in Nodes |-> 0]
    /\ events = 0

-----------------------------------------------------------------------------
(* Election *)

\* What elect_coordinator compares: a node and the score it is held to have,
\* for node n itself and each of the peers P with the scores h.
Entries(n, P, h) == {<<n, Score[n]>>} \cup {<<p, h[p]>> : p \in P}

\* Mutant of Beats: no tie-break.
Beats_NoTie(x, y) == x[2] > y[2]

\* elect_coordinator: the higher score, then the lower address.
Beats(x, y) == x[2] > y[2] \/ (x[2] = y[2] /\ Ip[x[1]] < Ip[y[1]])

\* It starts from self and takes each peer that beats the best so far: whatever
\* the order of peers_, no entry beats the result.
Winners(V) == {w \in V : \A x \in V : ~Beats(x, w)}

\* run_election's new state_, with the peers P.
Role(n, w, P) ==
    IF P = {} THEN "standalone"
    ELSE IF w = n THEN "coordinator" ELSE "worker"

\* What run_election stores at node n with the peers P and their scores h.
Elected(n, P, h) ==
    \E w \in Winners(Entries(n, P, h)) :
        /\ coord' = [coord EXCEPT ![n] = w[1]]
        /\ state' = [state EXCEPT ![n] = Role(n, w[1], P)]

\* One of the events that happen at most MaxEvents times.
Event == events < MaxEvents /\ events' = events + 1

\* A discovery finds the nodes that are up, or some of them.
Finds(n, D) ==
    \/ D = up \ {n} /\ UNCHANGED events
    \/ D # up \ {n} /\ Event

\* The scores h after add_peer for each answer of the nodes D: theirs are true.
Heard(h, D) == [p \in Nodes |-> IF p \in D THEN Score[p] ELSE h[p]]

GoTo(n, t, label) == pc' = [pc EXCEPT ![n] = [pc[n] EXCEPT ![t] = label]]

\* What follows an election: the heartbeat goes on to look after the engine.
After(t) == IF t = "hb" THEN "recover" ELSE "idle"

-----------------------------------------------------------------------------
(* Start and crash of a node *)

\* child_main: the engine starts alone (a model may be missing) and the node is
\* advertised.
Boot(n) ==
    /\ n \notin up
    /\ up' = up \cup {n}
    /\ \E e \in {{}, {n}} : engine' = [engine EXCEPT ![n] = e]
    /\ GoTo(n, "hb", "boot")
    /\ UNCHANGED <<peers, held, age, state, coord, slow, events>>

\* Peers are discovered for 2 s, and the election comes before the callback is
\* registered.  Then the heartbeat and the HTTP server start.
Join(n) ==
    /\ n \in up /\ pc[n]["hb"] = "boot"
    /\ \E D \in SUBSET (up \ {n}) :
        /\ Finds(n, D)
        /\ peers' = [peers EXCEPT ![n] = D]
        /\ held' = [held EXCEPT ![n] = Heard(held[n], D)]
        /\ Elected(n, D, Heard(held[n], D))
    /\ GoTo(n, "hb", "idle")
    /\ UNCHANGED <<up, age, engine, slow>>

\* The node is gone, with its engine and its memory.
Crash(n) ==
    /\ n \in up /\ Event
    /\ up' = up \ {n}
    /\ engine' = [engine EXCEPT ![n] = {}]
    /\ peers' = [peers EXCEPT ![n] = {}]
    /\ held' = [held EXCEPT ![n] = [p \in Nodes |-> 0]]
    /\ age' = [age EXCEPT ![n] = [p \in Nodes |-> 0]]
    /\ state' = [state EXCEPT ![n] = "standalone"]
    /\ coord' = [coord EXCEPT ![n] = n]
    /\ pc' = [pc EXCEPT ![n] = Idle]
    /\ slow' = [slow EXCEPT ![n] = 0]

\* llama-server ends; the monitor restarts it alone, or has itself ended.
EngineEnds(n) ==
    /\ n \in up /\ engine[n] # {} /\ Event
    /\ \E e \in {{}, {n}} : engine' = [engine EXCEPT ![n] = e]
    /\ UNCHANGED <<up, peers, held, age, state, coord, pc, slow>>

-----------------------------------------------------------------------------
(* The heartbeat *)

\* Mutant of Expired: a peer of exactly 90 s stays.
Expired_Later(n, d) == {p \in peers[n] : age[n][p] + d > Timeout}

\* The peers that d more heartbeats make too old.
Expired(n, d) == {p \in peers[n] : age[n][p] + d >= Timeout}

\* Wake up and expire_peers(90).  One heartbeat has passed since the last one,
\* more if an engine was waited for after the discovery.
Expire(n) ==
    /\ n \in up /\ pc[n]["hb"] = "idle"
    /\ \E d \in 1 .. (IF slow[n] = 1 THEN Timeout ELSE 1) :
        /\ peers' = [peers EXCEPT ![n] = @ \ Expired(n, d)]
        /\ held' = [held EXCEPT ![n] =
                      [p \in Nodes |-> IF p \in Expired(n, d) THEN 0 ELSE held[n][p]]]
        /\ age' = [age EXCEPT ![n] =
                     [p \in Nodes |-> IF p \in peers[n] \ Expired(n, d)
                                      THEN age[n][p] + d ELSE 0]]
        /\ GoTo(n, "hb", IF Expired(n, d) = {} THEN "discover" ELSE "cbE")
    /\ slow' = [slow EXCEPT ![n] = 0]
    /\ UNCHANGED <<up, state, coord, engine, events>>

\* Mutant of Discover: a peer that is known already is not refreshed.
Discover_NoRefresh(n) ==
    /\ n \in up /\ pc[n]["hb"] = "discover"
    /\ \E D \in SUBSET (up \ {n}) :
        /\ Finds(n, D)
        /\ peers' = [peers EXCEPT ![n] = @ \cup D]
        /\ held' = [held EXCEPT ![n] = Heard(held[n], D)]
    /\ GoTo(n, "hb", "elect")
    /\ UNCHANGED <<up, age, state, coord, engine, slow>>

\* Mutant of Discover: only the time of a peer that is known is refreshed.
Discover_KeepsScore(n) ==
    /\ n \in up /\ pc[n]["hb"] = "discover"
    /\ \E D \in SUBSET (up \ {n}) :
        /\ Finds(n, D)
        /\ peers' = [peers EXCEPT ![n] = @ \cup D]
        /\ held' = [held EXCEPT ![n] = Heard(held[n], D \ peers[n])]
        /\ age' = [age EXCEPT ![n] = [p \in Nodes |-> IF p \in D THEN 0 ELSE age[n][p]]]
    /\ GoTo(n, "hb", "elect")
    /\ UNCHANGED <<up, state, coord, engine, slow>>

\* discover_services and add_peer for each answer, which replaces the entry.
Discover(n) ==
    /\ n \in up /\ pc[n]["hb"] = "discover"
    /\ \E D \in SUBSET (up \ {n}) :
        /\ Finds(n, D)
        /\ peers' = [peers EXCEPT ![n] = @ \cup D]
        /\ held' = [held EXCEPT ![n] = Heard(held[n], D)]
        /\ age' = [age EXCEPT ![n] = [p \in Nodes |-> IF p \in D THEN 0 ELSE age[n][p]]]
    /\ GoTo(n, "hb", "elect")
    /\ UNCHANGED <<up, state, coord, engine, slow>>

\* run_election: the callback is called only if the role has changed.
RunElection(n, t) ==
    /\ n \in up /\ pc[n][t] = "elect"
    /\ Elected(n, peers[n], held[n])
    /\ GoTo(n, t, IF state'[n] # state[n] THEN "cb" ELSE After(t))
    /\ UNCHANGED <<up, peers, held, age, engine, slow, events>>

-----------------------------------------------------------------------------
(* The topology callback *)

\* Mutant of CallbackStops: the callback of expire_peers does nothing.
CallbackStops_AfterElection(n, t) ==
    /\ n \in up /\ pc[n][t] \in {"cbE", "cb"}
    /\ IF state[n] = "worker" \/ pc[n][t] = "cbE"
       THEN /\ GoTo(n, t, IF pc[n][t] = "cbE" THEN "discover" ELSE After(t))
            /\ UNCHANGED engine
       ELSE /\ GoTo(n, t, "spawn")
            /\ engine' = [engine EXCEPT ![n] = {}]
    /\ UNCHANGED <<up, peers, held, age, state, coord, slow, events>>

\* if (!is_coordinator()) return; kill and reap the engine.
CallbackStops(n, t) ==
    /\ n \in up /\ pc[n][t] \in {"cbE", "cb"}
    /\ IF state[n] = "worker"
       THEN /\ GoTo(n, t, IF pc[n][t] = "cbE" THEN "discover" ELSE After(t))
            /\ UNCHANGED engine
       ELSE /\ GoTo(n, t, IF pc[n][t] = "cbE" THEN "spawnE" ELSE "spawn")
            /\ engine' = [engine EXCEPT ![n] = {}]
    /\ UNCHANGED <<up, peers, held, age, state, coord, slow, events>>

\* rpc_endpoint_list and the spawn; with peers that do not answer, the engine
\* is started alone or not at all.
CallbackSpawns(n, t) ==
    /\ n \in up /\ pc[n][t] \in {"spawnE", "spawn"}
    /\ \/ engine' = [engine EXCEPT ![n] = {n} \cup peers[n]] /\ UNCHANGED events
       \/ /\ \E e \in {{}, {n}} : engine' = [engine EXCEPT ![n] = e]
          /\ Event
    /\ slow' = [slow EXCEPT ![n] = IF t = "hb" /\ pc[n][t] = "spawn" THEN 1 ELSE @]
    /\ GoTo(n, t, IF pc[n][t] = "spawnE" THEN "discover" ELSE After(t))
    /\ UNCHANGED <<up, peers, held, age, state, coord>>

\* The rest of the heartbeat: an engine that is down is started alone, if its
\* model is there.
Recover(n) ==
    /\ n \in up /\ pc[n]["hb"] = "recover"
    /\ \/ UNCHANGED <<engine, slow>>
       \/ /\ engine[n] = {}
          /\ engine' = [engine EXCEPT ![n] = {n}]
          /\ slow' = [slow EXCEPT ![n] = 1]
    /\ GoTo(n, "hb", "idle")
    /\ UNCHANGED <<up, peers, held, age, state, coord, events>>

-----------------------------------------------------------------------------
(* Requests *)

\* The HTTP server of a node that has booted has a free thread.
Free(n) == n \in up /\ pc[n]["hb"] # "boot" /\ pc[n]["rq"] = "idle"

\* cluster.reload.
Reload(n) ==
    /\ Free(n) /\ Event
    /\ GoTo(n, "rq", "elect")
    /\ UNCHANGED <<up, peers, held, age, state, coord, engine, slow>>

\* POST /llamaste/cluster/add-peer: any node, up or not, even this one, with the
\* RAM and cores that the request states; then an election.
AddPeer(n, p, s) ==
    /\ Free(n) /\ Event
    /\ peers' = [peers EXCEPT ![n] = @ \cup {p}]
    /\ held' = [held EXCEPT ![n] = [held[n] EXCEPT ![p] = s]]
    /\ age' = [age EXCEPT ![n] = [age[n] EXCEPT ![p] = 0]]
    /\ GoTo(n, "rq", "elect")
    /\ UNCHANGED <<up, state, coord, engine, slow>>

-----------------------------------------------------------------------------

Runs(n, t) == RunElection(n, t) \/ CallbackStops(n, t) \/ CallbackSpawns(n, t)
Heartbeat(n) == Join(n) \/ Expire(n) \/ Discover(n) \/ Runs(n, "hb") \/ Recover(n)

Next ==
    \E n \in Nodes :
        \/ Boot(n) \/ Crash(n) \/ EngineEnds(n)
        \/ Heartbeat(n)
        \/ Runs(n, "rq")
        \/ Reload(n) \/ \E p \in Nodes : \E s \in Claims \cup {Score[p]} : AddPeer(n, p, s)

Spec == Init /\ [][Next]_vars

\* The threads of a node that is up keep running.
Fairness == \A n \in Nodes : WF_vars(Heartbeat(n)) /\ WF_vars(Runs(n, "rq"))

FairSpec == Spec /\ Fairness

-----------------------------------------------------------------------------
(* Properties *)

\* Node n has run an election since the last change of its peers: no thread is
\* about to, and the heartbeat has not expired or discovered any on its way there.
Decided(n) ==
    /\ pc[n]["hb"] \notin {"cbE", "spawnE", "discover", "elect"}
    /\ pc[n]["rq"] # "elect"

\* Node m has node n among its peers, and holds no false score of either.
Knows(m, n) ==
    /\ n \in peers[m]
    /\ \A p \in {m, n} \cap peers[m] : held[m][p] = Score[p]

\* Two running nodes both act as coordinator only while one of them does not know
\* the other, was told a false score of one of the two, or has yet to decide: what
\* the order of peers_, an expired entry, a crash or a request on another thread
\* has left behind never lasts beyond the next election.
OneCoordinator ==
    \A m, n \in up :
        /\ m # n /\ Knows(m, n) /\ Knows(n, m)
        /\ Decided(m) /\ Decided(n)
        => state[m] = "worker" \/ state[n] = "worker"

\* Once nodes have stopped crashing, answers are not lost and requests tell no
\* false scores any more, every running node follows the same coordinator, the best
\* of those that run, and only that one acts as coordinator.
Settled ==
    \A n \in up : \E w \in Winners({<<p, Score[p]>> : p \in up}) :
        /\ coord[n] = w[1]
        /\ state[n] = Role(n, w[1], up \ {n})
Converges == <>[]Settled

\* A node that is not a worker stops using a dead peer: it expires, and the
\* engine is restarted without it.  However the nodes fail, again and again none
\* of them uses a dead one.
Uses(n, p) == n \in up /\ p \notin up /\ p \in engine[n] /\ state[n] # "worker"
DeadPeerDropped == []<>(\A n, p \in Nodes : ~Uses(n, p))

\* llama-server is not restarted for ever: once nothing happens any more, the
\* heartbeats of the nodes leave the engines alone, though a callback that took
\* long lets all peers of a node expire.
EngineSettles == <>[][UNCHANGED engine]_vars

\* The design's "Node joins": llama-server is respawned with the new endpoints.
\* So a coordinator with an engine does not go on without one of its peers.
Ignores(n, p) ==
    /\ n \in up /\ p \in peers[n] /\ state[n] = "coordinator"
    /\ engine[n] # {} /\ p \notin engine[n]
JoinedPeerUsed == \A n, p \in Nodes : Ignores(n, p) ~> ~Ignores(n, p)
=============================================================================
