------------------------- MODULE LlamaServerProofs -------------------------
(***************************************************************************)
(* Proofs about LlamaServer, for any number of processes, monitors, threads *)
(* that run the callback and topology changes, with and without the        *)
(* heartbeat and the shutdown.                                             *)
(*                                                                         *)
(* Until two restarts have overlapped, every process that is not yet reaped *)
(* is the one in g_llama_pid, and a thread that is about to spawn knows    *)
(* that there is none (EngineInv).  From that follow OneServer and, with   *)
(* the monitors counted in, LoadedIsWatched.                               *)
(***************************************************************************)
EXTENDS LlamaServer, TLAPS

AllFree == \A s \in Pids : proc[s] = "free"
MonitorDown(m) == mpc[m] \in {"reaped", "sleep"}

\* What overlap records.
NoOverlapInv == overlap = 0 => ~RestartsOverlap

\* Before the HTTP server starts there is no monitor, no callback and no
\* heartbeat.
BootInv ==
    /\ main \in {"boot", "health"} =>
          /\ loaded = 0
          /\ \A m \in Monitors : mpc[m] = "off"
          /\ \A r \in Restarters : cpc[r] = "idle"
    /\ main = "boot" => AllFree
    /\ main \in {"stop", "kill", "exited"} => running = 0

\* A monitor starts to count from 0.
RetriesInv == \A m \in Monitors : mpc[m] = "off" => retries[m] = 0

\* Only the engine in g_llama_pid is not reaped; who is about to spawn has seen
\* it reaped; one monitor at most has reaped it; a callback kills and reaps the
\* engine of the day.
EngineInv ==
    overlap = 0 /\ ChildAlive =>
        /\ \A s \in Pids : proc[s] # "free" => s = pid
        /\ \A m \in Monitors : MonitorDown(m) => AllFree
        /\ \A m, n \in Monitors : MonitorDown(m) /\ MonitorDown(n) => m = n
        /\ \A r \in Restarters :
              /\ cpc[r] \in {"term", "reap"} => cpid[r] = pid
              /\ cpc[r] \in {"clear", "died"} => AllFree
              /\ cpc[r] \in {"spawn", "respawn"} => pid = NoPid

InCallback == {"load", "term", "reap", "clear", "spawn", "health"}

\* While a callback or the heartbeat starts an engine, none is advertised.
UnloadedInv ==
    \A r \in Restarters :
        /\ cpc[r] \notin InCallback => solo[r] = 0
        /\ (/\ overlap = 0 /\ running = 1
            /\ solo[r] = 1 \/ cpc[r] \in {"spawn", "health", "respawn", "rehealth"})
              => loaded = 0

\* A loaded engine has been found dead just now, or it has a monitor.
EngineIsWatched ==
    pid \in Pids /\ proc[pid] # "free" /\ \E m \in Monitors : Watches(m)
WatchedInv ==
    overlap = 0 /\ running = 1 /\ loaded = 1 =>
        \/ \E r \in Restarters : cpc[r] \in {"clear", "died"}
        \/ \E m \in Monitors : mpc[m] = "reaped"
        \/ EngineIsWatched

RestartInv ==
    /\ TypeOK /\ NoOverlapInv /\ BootInv /\ RetriesInv
    /\ EngineInv /\ UnloadedInv /\ WatchedInv /\ OneServer

ProcType == [Pids -> {"free", "loading", "up", "wedged", "zombie"}]

-----------------------------------------------------------------------------
(* Type correctness.                                                        *)

\* What the system calls make of a process is again a process state.
LEMMA SpawnType ==
    ASSUME TypeOK, SpawnLlamaServer \/ SpawnFails
    PROVE  proc' \in ProcType /\ pid' \in PidOrNone
BY DEF TypeOK, SpawnLlamaServer, SpawnFails, PidOrNone, ProcType

LEMMA SignalType ==
    ASSUME TypeOK, NEW s,
           Sigterm(s) \/ Sigkill(s) \/ Reaps(s) \/ NoChild(s)
    PROVE  proc' \in ProcType
BY DEF TypeOK, Sigterm, Sigkill, Reaps, NoChild, ProcType

\* A monitor that starts or ends keeps the types of the monitors.
LEMMA StartMonitorType ==
    ASSUME TypeOK, StartMonitor
    PROVE  /\ mpc' \in [Monitors -> MonPc]
           /\ mpid' \in [Monitors -> PidOrNone]
           /\ retries' \in [Monitors -> 0..MaxRetries]
BY DEF TypeOK, StartMonitor, MonPc

LEMMA MonitorEndsType ==
    ASSUME TypeOK, NEW m \in Monitors, MonitorEnds(m)
    PROVE  /\ mpc' \in [Monitors -> MonPc]
           /\ mpid' \in [Monitors -> PidOrNone]
           /\ retries' \in [Monitors -> 0..MaxRetries]
BY ConstantsAssumption DEF TypeOK, MonitorEnds, MonitorAt, MonPc, PidOrNone

\* So does a callback that returns.
LEMMA CallbackReturnsType ==
    ASSUME TypeOK, NEW r \in Restarters, CallbackReturns(r)
    PROVE  /\ cpc' \in [Restarters -> CbPc]
           /\ cpid' \in [Restarters -> PidOrNone]
           /\ solo' \in [Restarters -> {0, 1}]
BY DEF TypeOK, CallbackReturns, GoTo, Home, CbPc, PidOrNone

\* Every step of every thread keeps the types.
LEMMA TypeInductive ==
    ASSUME TypeOK, [Next]_vars
    PROVE  TypeOK'
<1> USE DEF flags, mainVars, monVars, cbVars, pollVars, ProcType
<1>o. overlap' \in {0, 1}
  BY DEF TypeOK, Next, NoteOverlap, vars
<1> USE <1>o
<1>1. CASE Server
  BY <1>1 DEF TypeOK, Server, ServerUp, ServerWedges, ServerUnwedges, ServerDies
<1>2. CASE Main
  <2>1. CASE BootSpawn
    BY <2>1, SpawnType DEF BootSpawn, TypeOK, MainPc
  <2>2. CASE BootHealth
    BY <2>2, StartMonitorType DEF BootHealth, TypeOK, MainPc
  <2>3. CASE Terminate
    BY <2>3 DEF Terminate, TypeOK
  <2>4. CASE StopTerm
    BY <2>4, SignalType DEF StopTerm, TypeOK, MainPc
  <2>5. CASE StopWait
    BY <2>5, SignalType DEF StopWait, TypeOK, MainPc
  <2>6. CASE StopKill
    BY <2>6, SignalType DEF StopKill, TypeOK, MainPc, PidOrNone
  <2> QED
    BY <1>2, <2>1, <2>2, <2>3, <2>4, <2>5, <2>6 DEF Main
<1>3. ASSUME NEW m \in Monitors, Monitor(m)
      PROVE  TypeOK'
  <2>1. CASE MonitorTop(m)
    BY <2>1, MonitorEndsType DEF MonitorTop, MonitorAt, TypeOK, MonPc
  <2>2. CASE MonitorWait(m)
    BY <2>2, SignalType, MonitorEndsType
    DEF MonitorWait, MonitorAt, TypeOK, MonPc, PidOrNone
  <2>3. CASE MonitorReaped(m)
    BY <2>3, MonitorEndsType, ConstantsAssumption
    DEF MonitorReaped, MonitorCounts, MonitorAt, TypeOK, MonPc
  <2>4. CASE MonitorRespawn(m)
    BY <2>4, SpawnType DEF MonitorRespawn, MonitorAt, TypeOK, MonPc
  <2>5. CASE MonitorHealth(m)
    BY <2>5, ConstantsAssumption DEF MonitorHealth, MonitorAt, TypeOK, MonPc
  <2> QED
    BY <1>3, <2>1, <2>2, <2>3, <2>4, <2>5 DEF Monitor
<1>4. CASE Poller
  <2>1. CASE PollWake
    BY <2>1, ConstantsAssumption DEF PollWake, TypeOK
  <2>2. CASE PollProbe
    BY <2>2, ConstantsAssumption DEF PollProbe, TypeOK
  <2>3. CASE PollKill
    BY <2>3, SignalType DEF PollKill, TypeOK
  <2> QED
    BY <1>4, <2>1, <2>2, <2>3 DEF Poller
<1>5. ASSUME NEW r \in Restarters, Callback(r)
      PROVE  TypeOK'
  <2>1. CASE CallbackFires(r)
    BY <2>1, ConstantsAssumption DEF CallbackFires, GoTo, TypeOK, CbPc
  <2>2. CASE CallbackLoad(r)
    BY <2>2 DEF CallbackLoad, GoTo, TypeOK, CbPc
  <2>3. CASE CallbackTerm(r)
    BY <2>3, SignalType DEF CallbackTerm, GoTo, TypeOK, CbPc
  <2>4. CASE CallbackReap(r)
    BY <2>4, SignalType DEF CallbackReap, GoTo, TypeOK, CbPc
  <2>5. CASE CallbackClear(r)
    BY <2>5 DEF CallbackClear, GoTo, TypeOK, CbPc, PidOrNone
  <2>6. CASE CallbackSpawn(r)
    BY <2>6, SpawnType, CallbackReturnsType DEF CallbackSpawn, GoTo, TypeOK, CbPc
  <2>7. CASE CallbackHealth(r)
    BY <2>7, StartMonitorType, CallbackReturnsType
    DEF CallbackHealth, GoTo, TypeOK, CbPc
  <2> QED
    BY <1>5, <2>1, <2>2, <2>3, <2>4, <2>5, <2>6, <2>7 DEF Callback, CallbackRuns
<1>6. CASE HeartbeatStep
  <2> HB \in Restarters
    BY DEF Restarters
  <2>1. CASE HeartbeatTick \/ HeartbeatElected \/ HeartbeatWatch \/ HeartbeatRecover
    BY <2>1 DEF HeartbeatTick, HeartbeatElected, HeartbeatWatch, HeartbeatRecover,
       GoTo, TypeOK, CbPc
  <2>2. CASE HeartbeatDied
    BY <2>2 DEF HeartbeatDied, GoTo, TypeOK, CbPc, PidOrNone
  <2>3. CASE HeartbeatRespawn
    BY <2>3, SpawnType DEF HeartbeatRespawn, GoTo, TypeOK, CbPc
  <2>4. CASE HeartbeatHealth
    BY <2>4, StartMonitorType DEF HeartbeatHealth, GoTo, TypeOK, CbPc
  <2> QED
    BY <1>6, <2>1, <2>2, <2>3, <2>4 DEF HeartbeatStep
<1>7. CASE UNCHANGED vars
  BY <1>7 DEF vars, TypeOK
<1> QED
  BY <1>1, <1>2, <1>3, <1>4, <1>5, <1>6, <1>7 DEF Next, Step

\* The state components have their types in every reachable state, for any
\* number of processes, monitors and callback threads; in particular no monitor
\* counts beyond max_retries and the poller not beyond FAIL_THRESHOLD.
THEOREM TypeCorrect == Spec => []TypeOK
<1>1. Init => TypeOK
  BY ConstantsAssumption DEF Init, TypeOK, MainPc, MonPc, CbPc, PidOrNone
<1>2. TypeOK /\ [Next]_vars => TypeOK'
  BY TypeInductive
<1> QED
  BY <1>1, <1>2, PTL DEF Spec
-----------------------------------------------------------------------------
(* One restart at a time.                                                   *)

\* A signal or a waitpid brings no process to life and undoes no waitpid.
LEMMA SignalKills ==
    ASSUME TypeOK, NEW s,
           Sigterm(s) \/ Sigkill(s) \/ Reaps(s) \/ NoChild(s)
    PROVE  /\ \A t \in Pids : Alive(t)' => Alive(t)
           /\ \A t \in Pids : proc'[t] # "free" => proc[t] # "free"
BY DEF TypeOK, Sigterm, Sigkill, Reaps, NoChild, Alive

LEMMA SignalKeeps ==
    ASSUME TypeOK, NEW s, Sigterm(s) \/ Sigkill(s), NEW t \in Pids
    PROVE  proc'[t] = "free" => proc[t] = "free"
BY DEF TypeOK, Sigterm, Sigkill

\* So does the engine by itself; only waitpid frees it.
LEMMA ServerQuiet ==
    ASSUME TypeOK, Server
    PROVE  \A t \in Pids :
              /\ Alive(t)' => Alive(t)
              /\ proc'[t] # "free" <=> proc[t] # "free"
BY DEF TypeOK, Server, ServerUp, ServerWedges, ServerUnwedges, ServerDies, Alive

\* spawn_llama_server, called when every engine is reaped.
LEMMA SpawnAlone ==
    ASSUME TypeOK, SpawnLlamaServer, AllFree
    PROVE  /\ pid' \in Pids /\ proc'[pid'] # "free"
           /\ \A s \in Pids : proc'[s] # "free" => s = pid'
BY DEF TypeOK, SpawnLlamaServer, AllFree

\* Where a new monitor starts.
LEMMA StartMonitorTop ==
    ASSUME TypeOK, StartMonitor
    PROVE  /\ \E m \in Monitors : mpc[m] = "off" /\ mpc'[m] = "top"
           /\ \A m \in Monitors : mpc'[m] = mpc[m] \/ (mpc[m] = "off" /\ mpc'[m] = "top")
           /\ mpid' = mpid /\ retries' = retries
<1>1. PICK m \in Monitors : mpc[m] = "off" /\ mpc' = [mpc EXCEPT ![m] = "top"]
  BY DEF StartMonitor
<1>2. mpid' = mpid /\ retries' = retries
  BY DEF StartMonitor
<1>3. mpc'[m] = "top" /\ \A n \in Monitors : n # m => mpc'[n] = mpc[n]
  BY <1>1 DEF TypeOK
<1> QED
  BY <1>1, <1>2, <1>3

\* Nobody restarts the engine beside a callback or the heartbeat that does.
LEMMA Alone ==
    ASSUME NoOverlapInv, overlap = 0, NEW r \in Restarters, ThreadRestarts(r)
    PROVE  /\ \A q \in Restarters : ThreadRestarts(q) => q = r
           /\ \A m \in Monitors : ~MonitorRestarts(m)
BY DEF NoOverlapInv, RestartsOverlap

LEMMA NoOverlapKept ==
    ASSUME NoOverlapInv, Next
    PROVE  NoOverlapInv' /\ (overlap' = 0 => overlap = 0)
BY DEF NoOverlapInv, Next, NoteOverlap

\* A step that takes nobody nearer to a spawn and makes no engine.
EngineQuiet ==
    /\ pid' = pid
    /\ \A s \in Pids : proc'[s] # "free" => proc[s] # "free"
    /\ \A m \in Monitors : MonitorDown(m)' => MonitorDown(m)
    /\ \A r \in Restarters :
          /\ cpc'[r] \in {"term", "reap"} => cpc[r] \in {"term", "reap"} /\ cpid'[r] = cpid[r]
          /\ cpc'[r] \in {"clear", "died"} => cpc[r] \in {"clear", "died"}
          /\ cpc'[r] \in {"spawn", "respawn"} => cpc[r] \in {"spawn", "respawn"}

LEMMA QuietKeeps ==
    ASSUME EngineInv, EngineQuiet, overlap' = 0 => overlap = 0, ChildAlive' => ChildAlive
    PROVE  EngineInv'
BY DEF EngineInv, EngineQuiet, AllFree
\* One engine that is not reaped, and nobody about to spawn beside it.
LEMMA EngineKept ==
    ASSUME RestartInv, Next
    PROVE  EngineInv'
<1> SUFFICES ASSUME overlap' = 0, ChildAlive'
             PROVE  EngineInv'
  BY DEF EngineInv
<1> USE DEF flags, mainVars, monVars, cbVars, pollVars
<1>t. TypeOK /\ EngineInv /\ NoOverlapInv /\ overlap = 0
  BY NoOverlapKept DEF RestartInv
<1>s. Step
  BY DEF Next
<1>a. ChildAlive
  BY <1>s DEF Step, Server, Main, BootSpawn, BootHealth, Terminate, StopTerm, StopWait,
     StopKill, Monitor, Poller, Callback, HeartbeatStep, ChildAlive
<1>q. EngineQuiet => EngineInv'
  BY <1>t, <1>a, QuietKeeps
<1>e. /\ \A s \in Pids : proc[s] # "free" => s = pid
      /\ \A m \in Monitors : MonitorDown(m) => AllFree
      /\ \A m, n \in Monitors : MonitorDown(m) /\ MonitorDown(n) => m = n
      /\ \A r \in Restarters :
            /\ cpc[r] \in {"term", "reap"} => cpid[r] = pid
            /\ cpc[r] \in {"clear", "died"} => AllFree
            /\ cpc[r] \in {"spawn", "respawn"} => pid = NoPid
  BY <1>t, <1>a DEF EngineInv
<1>1. CASE Server
  BY <1>1, <1>t, <1>q, ServerQuiet DEF Server, EngineQuiet, MonitorDown
<1>2. CASE BootSpawn
  <2>1. /\ AllFree
        /\ \A m \in Monitors : mpc'[m] = "off"
        /\ \A r \in Restarters : cpc'[r] = "idle"
    BY <1>2 DEF BootSpawn, RestartInv, BootInv
  <2>2. CASE SpawnLlamaServer
    BY <1>t, <2>1, <2>2, SpawnAlone DEF EngineInv, MonitorDown
  <2>3. CASE SpawnFails
    BY <2>1, <2>3, <1>t, <1>q DEF SpawnFails, EngineQuiet, MonitorDown
  <2> QED
    BY <1>2, <2>2, <2>3 DEF BootSpawn
<1>3. CASE BootHealth
  <2>1. UNCHANGED <<proc, pid, cbVars>> /\ \A m \in Monitors : MonitorDown(m)' => MonitorDown(m)
    BY <1>3, <1>t, StartMonitorTop DEF BootHealth, MonitorDown
  <2> QED
    BY <2>1, <1>q DEF EngineQuiet
<1>4. CASE Terminate
  BY <1>4, <1>q DEF Terminate, EngineQuiet, MonitorDown
<1>5. CASE StopTerm \/ StopWait \/ StopKill
  BY <1>5, <1>t, <1>q, SignalKills
  DEF StopTerm, StopWait, StopKill, EngineQuiet, MonitorDown, ChildAlive
<1>6. ASSUME NEW m \in Monitors, Monitor(m)
      PROVE  EngineInv'
  <2>1. CASE MonitorTop(m) \/ MonitorReaped(m) \/ MonitorHealth(m)
    <3>1. UNCHANGED <<proc, pid, cbVars>>
      BY <2>1 DEF MonitorTop, MonitorReaped, MonitorHealth
    <3>2. \A n \in Monitors : MonitorDown(n)' => MonitorDown(n)
      BY <2>1, <1>t DEF MonitorTop, MonitorReaped, MonitorHealth, MonitorCounts, MonitorEnds,
         MonitorAt, MonitorDown, TypeOK
    <3> QED
      BY <3>1, <3>2, <1>q DEF EngineQuiet
  <2>2. CASE MonitorWait(m)
    <3>1. UNCHANGED <<pid, cbVars>>
      BY <2>2 DEF MonitorWait
    <3>2. CASE NoChild(mpid[m])
      BY <2>2, <3>1, <3>2, <1>t, <1>q
      DEF MonitorWait, NoChild, Reaps, MonitorEnds, MonitorAt, MonitorDown, EngineQuiet, TypeOK
    <3>3. CASE Reaps(mpid[m]) /\ MonitorAt(m, "reaped")
      <4>1. mpid[m] \in Pids /\ mpid[m] = pid /\ ~AllFree
        BY <3>3, <1>e DEF Reaps, AllFree
      <4>2. AllFree'
        BY <3>3, <4>1, <1>t, <1>e DEF Reaps, AllFree, TypeOK
      <4>3. \A n \in Monitors : MonitorDown(n)' => n = m
        BY <3>3, <4>1, <1>t, <1>e DEF MonitorAt, MonitorDown, TypeOK
      <4> QED
        BY <3>1, <4>2, <4>3, <1>e DEF EngineInv, AllFree
    <3> QED
      BY <2>2, <3>2, <3>3 DEF MonitorWait
  <2>3. CASE MonitorRespawn(m)
    <3>1. AllFree /\ (\A n \in Monitors : MonitorDown(n) => n = m) /\ MonitorDown(m)
      BY <2>3, <1>e DEF MonitorRespawn, MonitorDown
    <3>2. \A r \in Restarters : ~ThreadRestarts(r)
      BY <2>3, <1>t, Alone DEF MonitorRespawn, MonitorRestarts
    <3>3. /\ cpc' = cpc /\ cpid' = cpid
          /\ \A n \in Monitors : ~MonitorDown(n)'
      BY <2>3, <3>1, <1>t DEF MonitorRespawn, MonitorAt, MonitorDown, TypeOK
    <3>4. CASE SpawnLlamaServer
      BY <3>1, <3>2, <3>3, <3>4, <1>t, SpawnAlone DEF EngineInv, ThreadRestarts
    <3>5. CASE SpawnFails
      BY <3>3, <3>5, <1>q DEF SpawnFails, EngineQuiet
    <3> QED
      BY <2>3, <3>4, <3>5 DEF MonitorRespawn
  <2> QED
    BY <1>6, <2>1, <2>2, <2>3 DEF Monitor
<1>7. CASE Poller
  BY <1>7, <1>t, <1>q, SignalKills
  DEF Poller, PollWake, PollProbe, PollKill, EngineQuiet, MonitorDown
<1>8. ASSUME NEW r \in Restarters, Callback(r)
      PROVE  EngineInv'
  <2>a. CASE CallbackFires(r)
    BY <2>a, <1>t, <1>q DEF CallbackFires, GoTo, EngineQuiet, MonitorDown, TypeOK
  <2> SUFFICES ASSUME CallbackRuns(r)
               PROVE  EngineInv'
    BY <1>8, <2>a DEF Callback
  <2>r. ThreadRestarts(r)
    BY DEF CallbackRuns, CallbackLoad, CallbackTerm, CallbackReap, CallbackClear,
       CallbackSpawn, CallbackHealth, ThreadRestarts
  <2>o. /\ \A q \in Restarters : ThreadRestarts(q) => q = r
        /\ \A m \in Monitors : ~MonitorDown(m)
    BY <2>r, <1>t, Alone DEF MonitorDown, MonitorRestarts
  <2>n. \A q \in Restarters : q # r => cpc'[q] = cpc[q] /\ cpid'[q] = cpid[q]
    BY <1>t DEF CallbackRuns, CallbackLoad, CallbackTerm, CallbackReap, CallbackClear,
       CallbackSpawn, CallbackHealth, CallbackReturns, GoTo, TypeOK
  <2>p. \A q \in Restarters : q # r => cpc'[q] \in {"idle", "elect", "watch", "recover"}
    BY <2>o, <2>n DEF ThreadRestarts
  <2>m. \A m \in Monitors : ~MonitorDown(m)'
    BY <2>o, <1>t, StartMonitorTop DEF CallbackRuns, CallbackLoad, CallbackTerm, CallbackReap,
       CallbackClear, CallbackSpawn, CallbackHealth, MonitorDown
  <2>1. CASE CallbackLoad(r)
    <3>1. proc' = proc /\ pid' = pid
      BY <2>1 DEF CallbackLoad
    <3>2. cpid'[r] = pid /\ cpc'[r] = IF pid = NoPid THEN "spawn" ELSE "term"
      BY <2>1, <1>t DEF CallbackLoad, GoTo, TypeOK
    <3>3. cpc'[r] = "term" \/ (cpc'[r] = "spawn" /\ pid = NoPid)
      BY <3>2
    <3> QED
      BY <3>1, <3>2, <3>3, <2>p, <2>m, <1>e DEF EngineInv
  <2>2. CASE CallbackTerm(r)
    <3>1. /\ pid' = pid /\ \A s \in Pids : proc'[s] # "free" => proc[s] # "free"
          /\ cpc[r] = "term" /\ cpc'[r] = "reap" /\ cpid'[r] = cpid[r]
      BY <2>2, <1>t, SignalKills DEF CallbackTerm, GoTo, TypeOK
    <3> QED
      BY <3>1, <2>p, <2>m, <1>e DEF EngineInv
  <2>3. CASE CallbackReap(r)
    <3>1. cpid[r] = pid /\ pid' = pid /\ cpc'[r] = "clear"
      BY <2>3, <1>t, <1>e DEF CallbackReap, GoTo, TypeOK
    <3>2. AllFree'
      BY <2>3, <3>1, <1>t, <1>e DEF CallbackReap, Reaps, NoChild, AllFree, TypeOK
    <3> QED
      BY <3>1, <3>2, <2>p, <2>m DEF EngineInv, AllFree
  <2>4. CASE CallbackClear(r)
    <3>1. AllFree' /\ pid' = NoPid /\ cpc'[r] = "spawn"
      BY <2>4, <1>t, <1>e DEF CallbackClear, GoTo, AllFree, TypeOK
    <3> QED
      BY <3>1, <2>p, <2>m DEF EngineInv, AllFree
  <2>5. CASE CallbackSpawn(r)
    <3>1. AllFree /\ pid = NoPid
      BY <2>5, <1>e DEF CallbackSpawn, AllFree, NoPid, Pids
    <3>2. cpc'[r] \in {"health", "elect", "idle"}
      BY <2>5, <1>t DEF CallbackSpawn, CallbackReturns, Home, GoTo, TypeOK
    <3>3. CASE SpawnLlamaServer
      BY <3>1, <3>2, <3>3, <2>p, <2>m, <1>t, SpawnAlone DEF EngineInv
    <3>4. CASE SpawnFails
      BY <3>1, <3>2, <3>4, <2>p, <2>m DEF EngineInv, SpawnFails, AllFree
    <3> QED
      BY <2>5, <3>3, <3>4 DEF CallbackSpawn
  <2>6. CASE CallbackHealth(r)
    <3>1. proc' = proc /\ pid' = pid /\ cpc'[r] \in {"load", "elect", "idle"}
      BY <2>6, <1>t DEF CallbackHealth, CallbackReturns, Home, GoTo, TypeOK
    <3> QED
      BY <3>1, <2>p, <2>m, <1>e DEF EngineInv
  <2> QED
    BY <2>1, <2>2, <2>3, <2>4, <2>5, <2>6 DEF CallbackRuns
<1>9. CASE HeartbeatStep
  <2>h. HB \in Restarters /\ cpid' = cpid
    BY <1>9 DEF Restarters, HeartbeatStep, HeartbeatTick, HeartbeatElected, HeartbeatWatch,
       HeartbeatDied, HeartbeatRecover, HeartbeatRespawn, HeartbeatHealth
  <2>n. \A q \in Restarters : q # HB => cpc'[q] = cpc[q]
    BY <1>9, <1>t DEF HeartbeatStep, HeartbeatTick, HeartbeatElected, HeartbeatWatch,
       HeartbeatDied, HeartbeatRecover, HeartbeatRespawn, HeartbeatHealth, GoTo, TypeOK
  <2>m. \A m \in Monitors : MonitorDown(m)' => MonitorDown(m)
    BY <1>9, <1>t, StartMonitorTop
    DEF HeartbeatStep, HeartbeatTick, HeartbeatElected, HeartbeatWatch,
        HeartbeatDied, HeartbeatRecover, HeartbeatRespawn, HeartbeatHealth, MonitorDown
  <2>1. CASE HeartbeatTick \/ HeartbeatElected \/ HeartbeatHealth
    <3>1. proc' = proc /\ pid' = pid /\ cpc'[HB] \in {"elect", "watch", "idle"}
      BY <2>1, <2>h, <1>t DEF HeartbeatTick, HeartbeatElected, HeartbeatHealth, GoTo, TypeOK
    <3> QED
      BY <3>1, <2>h, <2>n, <2>m, <1>q DEF EngineQuiet
  <2>2. CASE HeartbeatWatch
    <3>1. /\ proc' = proc /\ pid' = pid
          /\ \/ cpc'[HB] = "recover"
             \/ cpc'[HB] = "died" /\ pid \in Pids /\ proc[pid] = "free"
      BY <2>2, <2>h, <1>t DEF HeartbeatWatch, GoTo, TypeOK
    <3>2. cpc'[HB] = "died" => AllFree'
      BY <3>1, <1>e DEF AllFree
    <3>3. \A q \in Restarters : cpc'[q] \in {"clear", "died"} => AllFree'
      BY <3>1, <3>2, <2>n, <1>e DEF AllFree
    <3> QED
      BY <3>1, <3>3, <2>h, <2>n, <2>m, <1>e DEF EngineInv, AllFree
  <2>3. CASE HeartbeatRecover
    <3>1. /\ proc' = proc /\ pid' = pid
          /\ cpc'[HB] = "idle" \/ (cpc'[HB] = "respawn" /\ pid = NoPid)
      BY <2>3, <2>h, <1>t DEF HeartbeatRecover, GoTo, TypeOK
    <3> QED
      BY <3>1, <2>h, <2>n, <2>m, <1>e DEF EngineInv, AllFree
  <2>4. CASE HeartbeatDied \/ HeartbeatRespawn
    <3>r. ThreadRestarts(HB)
      BY <2>4 DEF HeartbeatDied, HeartbeatRespawn, ThreadRestarts
    <3>p. \A q \in Restarters : q # HB => cpc'[q] \in {"idle", "elect", "watch", "recover"}
      BY <3>r, <2>h, <2>n, <1>t, Alone DEF ThreadRestarts
    <3>m. \A m \in Monitors : ~MonitorDown(m)'
      BY <3>r, <2>h, <2>m, <1>t, Alone DEF MonitorDown, MonitorRestarts
    <3>f. AllFree /\ cpc'[HB] \in {"recover", "idle", "rehealth"}
      BY <2>4, <2>h, <1>t, <1>e
      DEF HeartbeatDied, HeartbeatRespawn, GoTo, AllFree, NoPid, Pids, TypeOK
    <3>1. CASE HeartbeatDied \/ SpawnFails
      <4>1. AllFree'
        BY <3>1, <2>4, <3>f DEF HeartbeatDied, SpawnFails, AllFree, HeartbeatRespawn
      <4> QED
        BY <4>1, <3>f, <3>p, <3>m DEF EngineInv, AllFree
    <3>2. CASE SpawnLlamaServer
      BY <3>2, <3>f, <3>p, <3>m, <1>t, SpawnAlone DEF EngineInv
    <3> QED
      BY <2>4, <3>1, <3>2 DEF HeartbeatRespawn
  <2> QED
    BY <1>9, <2>1, <2>2, <2>3, <2>4 DEF HeartbeatStep
<1> QED
  BY <1>s, <1>1, <1>2, <1>3, <1>4, <1>5, <1>6, <1>7, <1>8, <1>9 DEF Step, Main
\* The threads start after the boot code, and SIGTERM precedes the shutdown.
LEMMA BootKept ==
    ASSUME RestartInv, Next
    PROVE  BootInv'
<1> USE DEF flags, mainVars, monVars, cbVars, pollVars
<1>t. TypeOK /\ BootInv
  BY DEF RestartInv
<1>s. Step
  BY DEF Next
<1>1. CASE Server
  BY <1>1, <1>t, ServerQuiet DEF Server, BootInv, AllFree
<1>2. CASE Main
  BY <1>2, <1>t DEF Main, BootSpawn, BootHealth, Terminate, StopTerm, StopWait, StopKill,
     BootInv, AllFree
<1>3. ASSUME NEW m \in Monitors, Monitor(m)
      PROVE  BootInv'
  <2>1. main \notin {"boot", "health"}
    BY <1>3, <1>t DEF Monitor, MonitorTop, MonitorWait, MonitorReaped, MonitorRespawn,
       MonitorHealth, BootInv
  <2>2. main' = main /\ running' = running
    BY <1>3 DEF Monitor, MonitorTop, MonitorWait, MonitorReaped, MonitorRespawn, MonitorHealth
  <2> QED
    BY <2>1, <2>2, <1>t DEF BootInv
<1>4. CASE Poller
  <2>1. UNCHANGED <<main, running, loaded, mpc, cpc>>
    BY <1>4 DEF Poller, PollWake, PollProbe, PollKill
  <2>2. \A s \in Pids : proc'[s] # "free" => proc[s] # "free"
    BY <1>4, <1>t, SignalKills DEF Poller, PollWake, PollProbe, PollKill
  <2> QED
    BY <2>1, <2>2, <1>t DEF BootInv, AllFree
<1>5. ASSUME NEW r \in Restarters, Callback(r) \/ HeartbeatStep
      PROVE  BootInv'
  <2>1. main \notin {"boot", "health"}
    BY <1>5, <1>t
    DEF Callback, CallbackRuns, CallbackFires, CallbackLoad, CallbackTerm, CallbackReap,
        CallbackClear, CallbackSpawn, CallbackHealth, HeartbeatStep, HeartbeatTick,
        HeartbeatElected, HeartbeatWatch, HeartbeatDied, HeartbeatRecover,
        HeartbeatRespawn, HeartbeatHealth, Restarters, BootInv
  <2>2. main' = main /\ running' = running
    BY <1>5
    DEF Callback, CallbackRuns, CallbackFires, CallbackLoad, CallbackTerm, CallbackReap,
        CallbackClear, CallbackSpawn, CallbackHealth, HeartbeatStep, HeartbeatTick,
        HeartbeatElected, HeartbeatWatch, HeartbeatDied, HeartbeatRecover,
        HeartbeatRespawn, HeartbeatHealth
  <2> QED
    BY <2>1, <2>2, <1>t DEF BootInv
<1> QED
  BY <1>s, <1>1, <1>2, <1>3, <1>4, <1>5 DEF Step, Restarters

\* A monitor that ends leaves a count of 0.
LEMMA RetriesKept ==
    ASSUME RestartInv, Next
    PROVE  RetriesInv'
<1> USE DEF flags, mainVars, monVars, cbVars, pollVars
<1>t. TypeOK /\ RetriesInv
  BY DEF RestartInv
<1>s. Step
  BY DEF Next
<1>1. ASSUME NEW m \in Monitors, Monitor(m)
      PROVE  RetriesInv'
  <2>1. /\ mpc[m] # "off"
        /\ mpc'[m] # "off" \/ retries'[m] = 0
        /\ \A n \in Monitors : n # m => mpc'[n] = mpc[n] /\ retries'[n] = retries[n]
    BY <1>1, <1>t DEF Monitor, MonitorTop, MonitorWait, MonitorReaped, MonitorCounts,
       MonitorRespawn, MonitorHealth, MonitorEnds, MonitorAt, TypeOK
  <2> QED
    BY <2>1, <1>t DEF RetriesInv
<1>2. CASE StartMonitor
  BY <1>2, <1>t, StartMonitorTop DEF RetriesInv
<1>3. CASE UNCHANGED monVars
  BY <1>3, <1>t DEF RetriesInv
<1>4. CASE Server \/ Main \/ Poller
  BY <1>4, <1>2, <1>3
  DEF Server, Main, BootSpawn, BootHealth, Terminate, StopTerm, StopWait, StopKill,
      Poller, PollWake, PollProbe, PollKill
<1>5. ASSUME NEW r \in Restarters, Callback(r) \/ HeartbeatStep
      PROVE  RetriesInv'
  BY <1>5, <1>2, <1>3
  DEF Callback, CallbackRuns, CallbackFires, CallbackLoad, CallbackTerm, CallbackReap,
      CallbackClear, CallbackSpawn, CallbackHealth, HeartbeatStep, HeartbeatTick,
      HeartbeatElected, HeartbeatWatch, HeartbeatDied, HeartbeatRecover,
      HeartbeatRespawn, HeartbeatHealth
<1> QED
  BY <1>s, <1>1, <1>4, <1>5 DEF Step, Restarters

\* One engine at a time: while child_main lives, the one in g_llama_pid.
LEMMA OneServerKept ==
    ASSUME RestartInv, Next
    PROVE  OneServer'
<1> SUFFICES ASSUME overlap' = 0
             PROVE  AtMostOneAlive'
  BY DEF OneServer
<1>t. TypeOK /\ TypeOK' /\ EngineInv' /\ AtMostOneAlive
  BY NoOverlapKept, TypeInductive, EngineKept DEF RestartInv, OneServer
<1>1. CASE ChildAlive'
  BY <1>1, <1>t DEF EngineInv, AtMostOneAlive, Alive
<1>2. CASE ~ChildAlive'
  <2>1. Server \/ StopTerm \/ StopKill \/ UNCHANGED proc
    BY <1>2 DEF Next, Step, Main, BootSpawn, BootHealth, Terminate, StopWait, Monitor,
       Poller, Callback, HeartbeatStep, ChildAlive, MonitorTop, MonitorWait, MonitorReaped,
       MonitorRespawn, MonitorHealth, PollWake, PollProbe, PollKill, CallbackRuns,
       CallbackFires, CallbackLoad, CallbackTerm, CallbackReap, CallbackClear, CallbackSpawn,
       CallbackHealth, HeartbeatTick, HeartbeatElected, HeartbeatWatch, HeartbeatDied,
       HeartbeatRecover, HeartbeatRespawn, HeartbeatHealth, mainVars
  <2>2. \A s \in Pids : Alive(s)' => Alive(s)
    BY <2>1, <1>t, ServerQuiet, SignalKills DEF StopTerm, StopKill, Alive
  <2> QED
    BY <2>2, <1>t DEF AtMostOneAlive
<1> QED
  BY <1>1, <1>2
\* What a monitor, the boot code and the poller leave to the other threads.
LEMMA OthersQuiet ==
    ASSUME RestartInv, Server \/ Main \/ Poller \/ \E m \in Monitors : Monitor(m)
    PROVE  cbVars' = cbVars /\ (running' = 1 => running = 1)
BY DEF Server, Main, BootSpawn, BootHealth, Terminate, StopTerm, StopWait, StopKill,
   Poller, PollWake, PollProbe, PollKill, Monitor, MonitorTop, MonitorWait, MonitorReaped,
   MonitorRespawn, MonitorHealth, flags, mainVars, monVars, cbVars, pollVars, RestartInv, TypeOK

\* g_model_loaded is false while a callback or the heartbeat starts an engine.
LEMMA UnloadedKept ==
    ASSUME RestartInv, Next
    PROVE  UnloadedInv'
<1> USE DEF flags, mainVars, monVars, cbVars, pollVars
<1>t. TypeOK /\ UnloadedInv /\ NoOverlapInv /\ BootInv /\ WatchedInv
  BY DEF RestartInv
<1>o. overlap' = 0 => overlap = 0
  BY <1>t, NoOverlapKept
<1>s. Step
  BY DEF Next
<1>1. CASE Server \/ Main \/ Poller \/ \E m \in Monitors : Monitor(m)
  <2>1. cbVars' = cbVars /\ (running' = 1 => running = 1)
    BY <1>1, OthersQuiet
  <2>2. CASE loaded' = loaded \/ loaded' = 0
    BY <2>1, <2>2, <1>t, <1>o DEF UnloadedInv, ThreadRestarts, InCallback
  <2>3. CASE BootHealth
    <3>1. \A r \in Restarters : cpc[r] = "idle"
      BY <2>3, <1>t DEF BootHealth, BootInv
    <3> QED
      BY <3>1, <2>1, <1>t DEF UnloadedInv, ThreadRestarts, InCallback
  <2>4. ASSUME NEW m \in Monitors, MonitorHealth(m)
        PROVE  UnloadedInv'
    <3>1. overlap = 0 => \A r \in Restarters : ~ThreadRestarts(r)
      BY <2>4, <1>t, Alone DEF MonitorHealth, MonitorRestarts
    <3>2. overlap = 0 =>
            \A r \in Restarters : cpc[r] \in {"idle", "elect", "watch", "recover"} /\ solo[r] = 0
      BY <3>1, <1>t DEF UnloadedInv, ThreadRestarts, InCallback
    <3> QED
      BY <3>2, <2>1, <1>o, <1>t DEF UnloadedInv, ThreadRestarts, InCallback
  <2> QED
    BY <1>1, <2>2, <2>3, <2>4
    DEF Server, Main, BootSpawn, Terminate, StopTerm, StopWait, StopKill, Poller, PollWake,
        PollProbe, PollKill, Monitor, MonitorTop, MonitorWait, MonitorReaped, MonitorRespawn
<1>2. ASSUME NEW r \in Restarters, Callback(r)
      PROVE  UnloadedInv'
  <2>n. /\ running' = running
        /\ \A q \in Restarters : q # r => cpc'[q] = cpc[q] /\ solo'[q] = solo[q]
    BY <1>2, <1>t DEF Callback, CallbackRuns, CallbackFires, CallbackLoad, CallbackTerm,
       CallbackReap, CallbackClear, CallbackSpawn, CallbackHealth, CallbackReturns, GoTo, TypeOK
  <2>a. CASE CallbackFires(r)
    <3>1. cpc'[r] = "load" /\ solo'[r] = 0 /\ loaded' = loaded
      BY <2>a, <1>t
      DEF CallbackFires, GoTo, TypeOK, UnloadedInv, ThreadRestarts, InCallback, Home
    <3> QED
      BY <3>1, <2>n, <1>o, <1>t DEF UnloadedInv, ThreadRestarts, InCallback
  <2> SUFFICES ASSUME CallbackRuns(r)
               PROVE  UnloadedInv'
    BY <1>2, <2>a DEF Callback
  <2>r. ThreadRestarts(r)
    BY DEF CallbackRuns, CallbackLoad, CallbackTerm, CallbackReap, CallbackClear,
       CallbackSpawn, CallbackHealth, ThreadRestarts
  <2>q. overlap = 0 => \A q \in Restarters : q # r =>
          cpc'[q] \in {"idle", "elect", "watch", "recover"} /\ solo'[q] = 0
    BY <2>r, <2>n, <1>t, Alone DEF UnloadedInv, ThreadRestarts, InCallback
  <2>s. \A q \in Restarters : q # r => (cpc'[q] \notin InCallback => solo'[q] = 0)
    BY <2>n, <1>t DEF UnloadedInv, ThreadRestarts, InCallback
  <2>g. ASSUME \/ cpc'[r] \in InCallback
               \/ solo'[r] = 0,
               overlap = 0 /\ running = 1 =>
                  \/ loaded' = 0
                  \/ solo'[r] = 0 /\ cpc'[r] \notin {"spawn", "health", "respawn", "rehealth"}
        PROVE  UnloadedInv'
    BY <2>g, <2>n, <2>q, <2>s, <1>o DEF UnloadedInv, ThreadRestarts, InCallback
  <2>1. CASE CallbackLoad(r)
    <3>1. /\ cpc[r] = "load" /\ solo' = solo /\ loaded' = loaded
          /\ cpc'[r] = IF pid = NoPid THEN "spawn" ELSE "term"
      BY <2>1, <1>t DEF CallbackLoad, GoTo, TypeOK
    <3>2. overlap = 0 /\ running = 1 /\ pid = NoPid => loaded = 0
      <4>1. overlap = 0 => /\ \A q \in Restarters : cpc[q] \notin {"clear", "died"}
                           /\ \A m \in Monitors : mpc[m] # "reaped"
        BY <3>1, <2>r, <1>t, Alone DEF ThreadRestarts, MonitorRestarts
      <4> QED
        BY <4>1, <1>t DEF WatchedInv, EngineIsWatched, NoPid, Pids, TypeOK
    <3>3. (cpc'[r] = "spawn" /\ pid = NoPid) \/ cpc'[r] = "term"
      BY <3>1
    <3> QED
      BY <3>1, <3>2, <3>3, <2>g, <1>t DEF UnloadedInv, ThreadRestarts, InCallback, TypeOK
  <2>2. CASE CallbackTerm(r) \/ CallbackReap(r)
    <3>1. /\ cpc'[r] \in {"reap", "clear"} /\ solo' = solo /\ loaded' = loaded
      BY <2>2, <1>t DEF CallbackTerm, CallbackReap, GoTo, TypeOK
    <3> QED
      BY <3>1, <2>g, <1>t DEF UnloadedInv, ThreadRestarts, InCallback, TypeOK
  <2>3. CASE CallbackClear(r)
    <3>1. /\ cpc'[r] = "spawn" /\ solo' = solo
          /\ loaded' = 0 \/ (solo[r] = 1 /\ loaded' = loaded)
      BY <2>3, <1>t DEF CallbackClear, GoTo, TypeOK
    <3> QED
      BY <3>1, <2>g, <1>t DEF UnloadedInv, ThreadRestarts, InCallback
  <2>4. CASE CallbackSpawn(r)
    <3>1. /\ cpc[r] = "spawn" /\ loaded' = loaded
          /\ \/ cpc'[r] = "health" /\ solo' = solo
             \/ solo'[r] = 0
      BY <2>4, <1>t DEF CallbackSpawn, CallbackReturns, GoTo, TypeOK
    <3> QED
      BY <3>1, <2>g, <1>t DEF UnloadedInv, ThreadRestarts, InCallback
  <2>5. CASE CallbackHealth(r)
    <3>1. /\ cpc[r] = "health"
          /\ \/ cpc'[r] \in {"idle", "elect"} /\ solo'[r] = 0
             \/ cpc'[r] = "load" /\ loaded' = loaded
      BY <2>5, <1>t DEF CallbackHealth, CallbackReturns, Home, GoTo, TypeOK
    <3> QED
      BY <3>1, <2>g, <1>t DEF UnloadedInv, ThreadRestarts, InCallback
  <2> QED
    BY <2>1, <2>2, <2>3, <2>4, <2>5 DEF CallbackRuns
<1>3. CASE HeartbeatStep
  <2>h. HB \in Restarters
    BY DEF Restarters
  <2>n. /\ running' = running /\ solo' = solo
        /\ \A q \in Restarters : q # HB => cpc'[q] = cpc[q]
    BY <1>3, <1>t DEF HeartbeatStep, HeartbeatTick, HeartbeatElected, HeartbeatWatch,
       HeartbeatDied, HeartbeatRecover, HeartbeatRespawn, HeartbeatHealth, GoTo, TypeOK
  <2>1. CASE HeartbeatTick \/ HeartbeatElected \/ HeartbeatWatch
    <3>1. /\ cpc'[HB] \in {"elect", "watch", "died", "recover"} /\ loaded' = loaded
          /\ ~ThreadRestarts(HB)
      BY <2>1, <2>h, <1>t DEF HeartbeatTick, HeartbeatElected, HeartbeatWatch, GoTo, TypeOK,
         ThreadRestarts
    <3> QED
      BY <3>1, <2>h, <2>n, <1>o, <1>t DEF UnloadedInv, ThreadRestarts, InCallback
  <2>2. CASE HeartbeatRecover
    <3>1. /\ cpc[HB] = "recover" /\ loaded' = loaded
          /\ cpc'[HB] = IF loaded = 0 /\ pid = NoPid THEN "respawn" ELSE "idle"
      BY <2>2, <2>h, <1>t DEF HeartbeatRecover, GoTo, TypeOK
    <3>2. \/ cpc'[HB] = "idle"
          \/ cpc'[HB] = "respawn" /\ loaded' = 0
      BY <3>1
    <3> QED
      BY <3>1, <3>2, <2>h, <2>n, <1>o, <1>t DEF UnloadedInv, ThreadRestarts, InCallback
  <2>3. CASE HeartbeatDied \/ HeartbeatRespawn \/ HeartbeatHealth
    <3>1. ThreadRestarts(HB)
      BY <2>3 DEF HeartbeatDied, HeartbeatRespawn, HeartbeatHealth, ThreadRestarts
    <3>2. overlap = 0 => \A q \in Restarters : q # HB =>
             cpc'[q] \in {"idle", "elect", "watch", "recover"} /\ solo'[q] = 0
      BY <3>1, <2>h, <2>n, <1>t, Alone DEF UnloadedInv, ThreadRestarts, InCallback
    <3>3. solo[HB] = 0
      BY <2>3, <2>h, <1>t DEF HeartbeatDied, HeartbeatRespawn, HeartbeatHealth,
         UnloadedInv, InCallback
    <3>4. \/ cpc'[HB] \in {"recover", "idle"}
          \/ cpc[HB] = "respawn" /\ loaded' = loaded
      BY <2>3, <2>h, <1>t DEF HeartbeatDied, HeartbeatRespawn, HeartbeatHealth, GoTo, TypeOK
    <3> QED
      BY <3>2, <3>3, <3>4, <2>h, <2>n, <1>o, <1>t DEF UnloadedInv, ThreadRestarts, InCallback
  <2> QED
    BY <1>3, <2>1, <2>2, <2>3 DEF HeartbeatStep
<1> QED
  BY <1>s, <1>1, <1>2, <1>3 DEF Step
\* A step that takes nobody's eyes off the engine.
WatchQuiet ==
    /\ loaded = 1 /\ pid' = pid
    /\ \A s \in Pids : proc'[s] = "free" => proc[s] = "free"
    /\ \A r \in Restarters : cpc[r] \in {"clear", "died"} => cpc'[r] \in {"clear", "died"}
    /\ \A m \in Monitors :
          /\ mpc[m] = "reaped" => mpc'[m] = "reaped"
          /\ Watches(m) => Watches(m)'

\* A probe is answered by the engine in g_llama_pid.
LEMMA HealthyEngine ==
    ASSUME RestartInv, overlap = 0, ChildAlive, Healthy
    PROVE  pid \in Pids /\ proc[pid] # "free"
BY DEF RestartInv, EngineInv, Healthy

\* A loaded engine has a monitor, or has just been found dead.
LEMMA WatchedKept ==
    ASSUME RestartInv, Next
    PROVE  WatchedInv'
<1> SUFFICES ASSUME overlap' = 0, running' = 1, loaded' = 1
             PROVE  \/ \E r \in Restarters : cpc'[r] \in {"clear", "died"}
                    \/ \E m \in Monitors : mpc'[m] = "reaped"
                    \/ EngineIsWatched'
  BY DEF WatchedInv
<1> USE DEF flags, mainVars, monVars, cbVars, pollVars
<1>t. TypeOK /\ TypeOK' /\ EngineInv /\ NoOverlapInv /\ overlap = 0
  BY NoOverlapKept, TypeInductive DEF RestartInv
<1>i. UnloadedInv /\ BootInv /\ WatchedInv /\ RetriesInv
  BY DEF RestartInv
<1>s. Step
  BY DEF Next
<1>r. running = 1 /\ ChildAlive
  <2>1. ASSUME NEW r \in Restarters, Callback(r) \/ HeartbeatStep
        PROVE  running' = running
    BY <2>1 DEF Callback, CallbackRuns, CallbackFires, CallbackLoad, CallbackTerm,
       CallbackReap, CallbackClear, CallbackSpawn, CallbackHealth, HeartbeatStep,
       HeartbeatTick, HeartbeatElected, HeartbeatWatch, HeartbeatDied, HeartbeatRecover,
       HeartbeatRespawn, HeartbeatHealth
  <2>2. running = 1
    BY <1>s, <2>1, OthersQuiet DEF Step, Restarters
  <2> QED
    BY <2>2, <1>i DEF BootInv, ChildAlive
<1>q. ASSUME WatchQuiet
      PROVE  \/ \E r \in Restarters : cpc'[r] \in {"clear", "died"}
             \/ \E m \in Monitors : mpc'[m] = "reaped"
             \/ EngineIsWatched'
  <2>1. EngineIsWatched => EngineIsWatched'
    <3> SUFFICES ASSUME EngineIsWatched
                 PROVE  EngineIsWatched'
      OBVIOUS
    <3>1. PICK m \in Monitors : Watches(m)
      BY DEF EngineIsWatched
    <3>2. Watches(m)' /\ pid' \in Pids /\ proc'[pid'] # "free"
      BY <1>q, <3>1 DEF WatchQuiet, EngineIsWatched, Watches
    <3> QED
      BY <3>2 DEF EngineIsWatched, Watches
  <2>2. \/ \E r \in Restarters : cpc[r] \in {"clear", "died"}
        \/ \E m \in Monitors : mpc[m] = "reaped"
        \/ EngineIsWatched
    BY <1>q, <1>t, <1>i, <1>r DEF WatchQuiet, WatchedInv
  <2>3. /\ \A r \in Restarters : cpc[r] \in {"clear", "died"} => cpc'[r] \in {"clear", "died"}
        /\ \A m \in Monitors : mpc[m] = "reaped" => mpc'[m] = "reaped"
    BY <1>q DEF WatchQuiet, Watches
  <2>4. CASE \E r \in Restarters : cpc[r] \in {"clear", "died"}
    BY <2>3, <2>4
  <2>5. CASE \E m \in Monitors : mpc[m] = "reaped"
    BY <2>3, <2>5
  <2> QED
    BY <2>1, <2>2, <2>4, <2>5
<1>h. ASSUME Healthy, StartMonitor, proc' = proc, pid' = pid
      PROVE  EngineIsWatched'
  <2>1. PICK m \in Monitors : mpc[m] = "off" /\ mpc'[m] = "top" /\ retries' = retries
    BY <1>h, <1>t, StartMonitorTop
  <2>2. retries'[m] < MaxRetries
    BY <2>1, <1>i, ConstantsAssumption DEF RetriesInv
  <2> QED
    BY <2>1, <2>2, <1>h, <1>t, <1>r, HealthyEngine DEF EngineIsWatched, Watches
<1>1. CASE Server
  <2>1. WatchQuiet
    BY <1>1, <1>t, ServerQuiet DEF Server, WatchQuiet, Watches
  <2> QED
    BY <2>1, <1>q
<1>2. CASE Main
  <2>1. BootHealth
    BY <1>2, <1>i, <1>r DEF Main, BootSpawn, Terminate, StopTerm, StopWait, StopKill, BootInv
  <2>2. Healthy /\ StartMonitor /\ proc' = proc /\ pid' = pid
    BY <2>1, <1>i DEF BootHealth, BootInv
  <2> QED
    BY <2>2, <1>h
<1>3. ASSUME NEW m \in Monitors, Monitor(m)
      PROVE  \/ \E r \in Restarters : cpc'[r] \in {"clear", "died"}
             \/ \E n \in Monitors : mpc'[n] = "reaped"
             \/ EngineIsWatched'
  <2>n. \A n \in Monitors : n # m =>
          mpc'[n] = mpc[n] /\ mpid'[n] = mpid[n] /\ retries'[n] = retries[n]
    BY <1>3, <1>t DEF Monitor, MonitorTop, MonitorWait, MonitorReaped, MonitorCounts,
       MonitorRespawn, MonitorHealth, MonitorEnds, MonitorAt, TypeOK
  <2>1. CASE MonitorTop(m)
    <3>1. /\ loaded = 1 /\ UNCHANGED <<proc, pid, cpc>> /\ mpc[m] = "top"
          /\ \/ mpc'[m] = "wait" /\ mpid'[m] = pid
             \/ retries[m] >= MaxRetries \/ pid = NoPid
      BY <2>1, <1>t, <1>r DEF MonitorTop, MonitorAt, TypeOK
    <3>2. CASE mpc'[m] = "wait" /\ mpid'[m] = pid
      <4>1. WatchQuiet
        BY <3>1, <3>2, <2>n DEF WatchQuiet, Watches
      <4> QED
        BY <4>1, <1>q
    <3>3. CASE pid = NoPid
      BY <3>1, <3>3, <2>n, <1>t, <1>i, <1>r DEF WatchedInv, EngineIsWatched, NoPid, Pids
    <3>4. CASE retries[m] >= MaxRetries
      <4>1. ~Watches(m)
        BY <3>1, <3>4, <1>t, ConstantsAssumption DEF Watches, TypeOK
      <4>2. WatchQuiet
        BY <3>1, <4>1, <2>n DEF WatchQuiet, Watches
      <4> QED
        BY <4>2, <1>q
    <3> QED
      BY <3>1, <3>2, <3>3, <3>4
  <2>2. CASE MonitorWait(m)
    <3>1. /\ loaded = 1 /\ UNCHANGED <<pid, cpc>> /\ mpc[m] = "wait"
          /\ \/ mpc'[m] = "reaped"
             \/ proc' = proc /\ mpid[m] \in Pids /\ proc[mpid[m]] = "free"
      BY <2>2, <1>t DEF MonitorWait, NoChild, MonitorAt, TypeOK
    <3>2. CASE proc' = proc /\ mpid[m] \in Pids /\ proc[mpid[m]] = "free"
      <4>1. EngineIsWatched => ~Watches(m)
        BY <3>1, <3>2 DEF EngineIsWatched, Watches
      <4>2. EngineIsWatched => EngineIsWatched'
        BY <3>1, <3>2, <4>1, <2>n DEF EngineIsWatched, Watches
      <4> QED
        BY <3>1, <4>2, <2>n, <1>t, <1>i, <1>r DEF WatchedInv
    <3> QED
      BY <3>1, <3>2
  <2>3. CASE MonitorReaped(m)
    BY <2>3, <1>r DEF MonitorReaped
  <2>4. CASE MonitorRespawn(m)
    <3>1. /\ AllFree /\ loaded = 1 /\ mpc[m] = "sleep"
          /\ \A n \in Monitors : mpc[n] # "reaped"
      BY <2>4, <1>t, <1>r DEF MonitorRespawn, EngineInv, MonitorDown
    <3>2. \A r \in Restarters : cpc[r] \notin {"clear", "died"}
      BY <3>1, <1>t, Alone DEF MonitorRestarts, ThreadRestarts
    <3> QED
      BY <3>1, <3>2, <1>t, <1>i, <1>r DEF WatchedInv, EngineIsWatched, AllFree
  <2>5. CASE MonitorHealth(m)
    <3>1. /\ UNCHANGED <<proc, pid, cpc>> /\ mpc[m] = "health" /\ mpc'[m] = "top"
          /\ \/ Healthy /\ retries'[m] = 0
             \/ loaded = 1
      BY <2>5, <1>t DEF MonitorHealth, MonitorAt, TypeOK
    <3>2. CASE Healthy /\ retries'[m] = 0
      <4>1. retries'[m] < MaxRetries
        BY <3>2, ConstantsAssumption
      <4> QED
        BY <3>1, <3>2, <4>1, <1>t, <1>r, HealthyEngine DEF EngineIsWatched, Watches
    <3>3. CASE loaded = 1
      <4>1. WatchQuiet
        BY <3>1, <3>3, <2>n DEF WatchQuiet, Watches
      <4> QED
        BY <4>1, <1>q
    <3> QED
      BY <3>1, <3>2, <3>3
  <2> QED
    BY <1>3, <2>1, <2>2, <2>3, <2>4, <2>5 DEF Monitor
<1>4. CASE Poller
  <2>1. WatchQuiet
    BY <1>4, <1>t, SignalKeeps DEF Poller, PollWake, PollProbe, PollKill, WatchQuiet, Watches
  <2> QED
    BY <2>1, <1>q
<1>5. ASSUME NEW r \in Restarters, Callback(r)
      PROVE  \/ \E q \in Restarters : cpc'[q] \in {"clear", "died"}
             \/ \E m \in Monitors : mpc'[m] = "reaped"
             \/ EngineIsWatched'
  <2>n. \A q \in Restarters : q # r => cpc'[q] = cpc[q]
    BY <1>5, <1>t DEF Callback, CallbackRuns, CallbackFires, CallbackLoad, CallbackTerm,
       CallbackReap, CallbackClear, CallbackSpawn, CallbackHealth, CallbackReturns, GoTo, TypeOK
  <2>1. CASE CallbackFires(r) \/ CallbackLoad(r)
    <3>1. /\ loaded = 1 /\ UNCHANGED <<proc, pid, monVars>>
          /\ cpc[r] \notin {"clear", "died"}
      BY <2>1 DEF CallbackFires, CallbackLoad, Home
    <3>2. WatchQuiet
      BY <3>1, <2>n DEF WatchQuiet, Watches
    <3> QED
      BY <3>2, <1>q
  <2>2. CASE CallbackTerm(r)
    <3>1. /\ loaded = 1 /\ UNCHANGED <<pid, monVars>> /\ cpc[r] = "term"
          /\ \A s \in Pids : proc'[s] = "free" => proc[s] = "free"
      BY <2>2, <1>t, SignalKeeps DEF CallbackTerm
    <3>2. WatchQuiet
      BY <3>1, <2>n DEF WatchQuiet, Watches
    <3> QED
      BY <3>2, <1>q
  <2>3. CASE CallbackReap(r)
    BY <2>3, <1>t DEF CallbackReap, GoTo, TypeOK
  <2>4. CASE CallbackClear(r) \/ CallbackSpawn(r)
    BY <2>4, <1>t, <1>i, <1>r DEF CallbackClear, CallbackSpawn, UnloadedInv
  <2>5. CASE CallbackHealth(r)
    <3>1. Healthy /\ StartMonitor /\ proc' = proc /\ pid' = pid
      BY <2>5, <1>t, <1>i, <1>r DEF CallbackHealth, UnloadedInv
    <3> QED
      BY <3>1, <1>h
  <2> QED
    BY <1>5, <2>1, <2>2, <2>3, <2>4, <2>5 DEF Callback, CallbackRuns
<1>6. CASE HeartbeatStep
  <2>h. HB \in Restarters
    BY DEF Restarters
  <2>n. \A q \in Restarters : q # HB => cpc'[q] = cpc[q]
    BY <1>6, <1>t DEF HeartbeatStep, HeartbeatTick, HeartbeatElected, HeartbeatWatch,
       HeartbeatDied, HeartbeatRecover, HeartbeatRespawn, HeartbeatHealth, GoTo, TypeOK
  <2>1. CASE HeartbeatTick \/ HeartbeatElected \/ HeartbeatWatch \/ HeartbeatRecover
    <3>1. /\ loaded = 1 /\ UNCHANGED <<proc, pid, monVars>>
          /\ cpc[HB] \notin {"clear", "died"}
      BY <2>1 DEF HeartbeatTick, HeartbeatElected, HeartbeatWatch, HeartbeatRecover
    <3>2. WatchQuiet
      BY <3>1, <2>n DEF WatchQuiet, Watches
    <3> QED
      BY <3>2, <1>q
  <2>2. CASE HeartbeatDied
    BY <2>2 DEF HeartbeatDied
  <2>3. CASE HeartbeatRespawn
    BY <2>3, <2>h, <1>t, <1>i, <1>r DEF HeartbeatRespawn, UnloadedInv
  <2>4. CASE HeartbeatHealth
    <3>1. Healthy /\ StartMonitor /\ proc' = proc /\ pid' = pid
      BY <2>4, <2>h, <1>t, <1>i, <1>r DEF HeartbeatHealth, UnloadedInv
    <3> QED
      BY <3>1, <1>h
  <2> QED
    BY <1>6, <2>1, <2>2, <2>3, <2>4 DEF HeartbeatStep
<1> QED
  BY <1>s, <1>1, <1>2, <1>3, <1>4, <1>5, <1>6 DEF Step

LEMMA RestartInductive ==
    ASSUME RestartInv, [Next]_vars
    PROVE  RestartInv'
<1>1. CASE Next
  BY <1>1, TypeInductive, NoOverlapKept, BootKept, RetriesKept, EngineKept, UnloadedKept,
     WatchedKept, OneServerKept DEF RestartInv
<1>2. CASE UNCHANGED vars
  BY <1>2, TypeInductive
  DEF vars, flags, mainVars, monVars, cbVars, pollVars, RestartInv, NoOverlapInv, BootInv,
      RetriesInv, EngineInv, UnloadedInv, WatchedInv, EngineIsWatched, OneServer,
      AtMostOneAlive, RestartsOverlap, ThreadRestarts, MonitorRestarts, MonitorDown, AllFree,
      Alive, Watches, ChildAlive
<1> QED
  BY <1>1, <1>2

LEMMA RestartAlways == Spec => []RestartInv
<1>1. Init => RestartInv
  BY ConstantsAssumption
  DEF Init, RestartInv, TypeOK, NoOverlapInv, BootInv, RetriesInv, EngineInv, UnloadedInv,
      WatchedInv, OneServer, AtMostOneAlive, RestartsOverlap, ThreadRestarts, MonitorDown,
      AllFree, Alive, InCallback, MainPc, MonPc, CbPc, PidOrNone
<1>2. RestartInv /\ [Next]_vars => RestartInv'
  BY RestartInductive
<1> QED
  BY <1>1, <1>2, PTL DEF Spec

\* Two llama-server processes run at once only if a restart by the callback or
\* the heartbeat overlapped another restart: as long as none has, there is at
\* most one, however often the engine crashes, wedges, is killed by the poller or
\* is restarted for the cluster.
THEOREM OneServerAlways == Spec => []OneServer
<1>1. RestartInv => OneServer
  BY DEF RestartInv
<1> QED
  BY <1>1, RestartAlways, PTL

\* Until two restarts have overlapped, an engine that is advertised as loaded is
\* the one in g_llama_pid and a monitor thread waits for exactly that process,
\* unless a restart is under way.
THEOREM LoadedAlwaysWatched == Spec => []LoadedIsWatched
<1>1. RestartInv => LoadedIsWatched
  <2> SUFFICES ASSUME RestartInv, overlap = 0, loaded = 1, running = 1
               PROVE  RestartUnderWay \/ EngineIsWatched
    BY DEF LoadedIsWatched, EngineIsWatched
  <2> QED
    BY DEF RestartInv, WatchedInv, RestartUnderWay, ThreadRestarts, MonitorRestarts
<1> QED
  BY <1>1, RestartAlways, PTL
=============================================================================
