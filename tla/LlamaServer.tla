---------------------------- MODULE LlamaServer ----------------------------
(***************************************************************************)
(* How child_main keeps one llama-server process running: the start at     *)
(* boot, llama_monitor_thread (waitpid and respawn), the health poller     *)
(* (kills a wedged engine), the topology-change callback (restarts the     *)
(* engine for the cluster), the watchdog and the recovery of the cluster   *)
(* heartbeat, and the clean shutdown.                                      *)
(*                                                                         *)
(* These are threads of one process.  They share the atomics g_llama_pid,  *)
(* g_model_loaded and g_inference_ready; g_llama_mutex only serialises     *)
(* spawn_llama_server itself.  An action is one access to the shared       *)
(* state, together with the local work around it.  Storing the pid right   *)
(* after the spawn, and g_inference_fn and the thread start next to        *)
(* g_model_loaded, are part of the step they follow.                       *)
(*                                                                         *)
(* A model file is present (g_model_name is never empty), as after any     *)
(* boot that found one.                                                    *)
(***************************************************************************)
EXTENDS Integers

CONSTANTS
    MaxPid,          \* bound: process ids llama-server may get
    MaxMonitors,     \* bound: llama_monitor_thread threads at once
    Callers,         \* threads, other than the heartbeat, that fire the callback
    Heartbeat,       \* 1: the 30 s heartbeat ticks in the period considered
    MaxRetries,      \* max_retries of llama_monitor_thread (3)
    FailThreshold,   \* FAIL_THRESHOLD of the health poller (3)
    MaxFires,        \* bound: topology changes
    Stops            \* 1: SIGTERM arrives in the period considered

HB == "heartbeat"

ASSUME ConstantsAssumption ==
    /\ MaxPid \in Nat /\ MaxMonitors \in Nat
    /\ HB \notin Callers
    /\ Heartbeat \in {0, 1} /\ Stops \in {0, 1}
    /\ MaxRetries \in Nat \ {0} /\ FailThreshold \in Nat \ {0}
    /\ MaxFires \in Nat

VARIABLES
    proc,       \* the llama-server processes
    pid,        \* g_llama_pid
    loaded,     \* g_model_loaded (and g_inference_fn = llama_inference)
    ready,      \* g_inference_ready
    running,    \* g_running
    main,       \* where the main thread of child_main is
    mainPid,    \* the process it stops
    mpc,        \* where each monitor thread is
    mpid,       \* the pid it has loaded
    retries,    \* and its count of crashes
    cpc,        \* where each thread that may run the callback is
    cpid,       \* the pid it has loaded
    solo,       \* 1: it retries without RPC
    ppc,        \* where the health poller is
    fails,      \* consecutive_fails
    fires,      \* topology changes so far
    overlap     \* history: 1 once a restart of the engine ran beside another

flags == <<loaded, ready, running>>
mainVars == <<main, mainPid>>
monVars == <<mpc, mpid, retries>>
cbVars == <<cpc, cpid, solo, fires>>
pollVars == <<ppc, fails>>
vars == <<proc, pid, flags, mainVars, monVars, cbVars, pollVars, overlap>>

NoPid == 0
Pids == 1..MaxPid
Monitors == 1..MaxMonitors
Restarters == Callers \cup {HB}
PidOrNone == Pids \cup {NoPid}

MainPc == {"boot", "health", "serve", "stop", "kill", "exited"}
MonPc == {"off", "top", "wait", "reaped", "sleep", "health"}
CbPc == {"idle", "load", "term", "reap", "clear", "spawn", "health",
         "elect", "watch", "died", "recover", "respawn", "rehealth"}

TypeOK ==
    /\ proc \in [Pids -> {"free", "loading", "up", "wedged", "zombie"}]
    /\ pid \in PidOrNone
    /\ loaded \in {0, 1} /\ ready \in {0, 1} /\ running \in {0, 1}
    /\ main \in MainPc /\ mainPid \in PidOrNone
    /\ mpc \in [Monitors -> MonPc]
    /\ mpid \in [Monitors -> PidOrNone]
    /\ retries \in [Monitors -> 0..MaxRetries]
    /\ cpc \in [Restarters -> CbPc]
    /\ cpid \in [Restarters -> PidOrNone]
    /\ solo \in [Restarters -> {0, 1}]
    /\ ppc \in {"sleep", "probe", "kill"} /\ fails \in 0..FailThreshold
    /\ fires \in 0..MaxFires
    /\ overlap \in {0, 1}

Init ==
    /\ proc = [s \in Pids |-> "free"]
    /\ pid = NoPid
    /\ loaded = 0 /\ ready = 1 /\ running = 1
    /\ main = "boot" /\ mainPid = NoPid
    /\ mpc = [m \in Monitors |-> "off"]
    /\ mpid = [m \in Monitors |-> NoPid]
    /\ retries = [m \in Monitors |-> 0]
    /\ cpc = [r \in Restarters |-> "idle"]
    /\ cpid = [r \in Restarters |-> NoPid]
    /\ solo = [r \in Restarters |-> 0]
    /\ ppc = "sleep" /\ fails = 0
    /\ fires = 0
    /\ overlap = 0

(***************************************************************************)
(* The process itself, and the system calls on it.                         *)
(***************************************************************************)

Alive(s) == proc[s] \in {"loading", "up", "wedged"}

\* A probe of /health reaches the process that has bound the port.
Healthy == \E s \in Pids : proc[s] = "up"

\* A pid is not handed out again while anyone remembers it.
Fresh(s) ==
    /\ proc[s] = "free" /\ s # pid /\ s # mainPid
    /\ \A m \in Monitors : mpid[m] # s
    /\ \A r \in Restarters : cpid[r] # s

\* SIGTERM ends a process unless it is wedged: then it may or may not.
Sigterm(s) ==
    \/ /\ s \in Pids /\ Alive(s)
       /\ proc' = [proc EXCEPT ![s] = "zombie"]
    \/ /\ s \in Pids => proc[s] \in {"free", "zombie", "wedged"}
       /\ proc' = proc

Sigkill(s) ==
    proc' = IF s \in Pids /\ Alive(s) THEN [proc EXCEPT ![s] = "zombie"] ELSE proc

\* waitpid(s) returns s ...
Reaps(s) ==
    /\ s \in Pids /\ proc[s] = "zombie"
    /\ proc' = [proc EXCEPT ![s] = "free"]

\* ... or fails with ECHILD: someone else has reaped it.
NoChild(s) ==
    /\ s \in Pids /\ proc[s] = "free"
    /\ proc' = proc

\* spawn_llama_server succeeds.  Which pid it gets is of no interest: the
\* lowest one.
SpawnLlamaServer ==
    \E s \in Pids :
        /\ Fresh(s)
        /\ \A t \in Pids : Fresh(t) => s <= t
        /\ proc' = [proc EXCEPT ![s] = "loading"]
        /\ pid' = s

\* safe_spawn returned a negative pid.
SpawnFails == UNCHANGED <<proc, pid>>

\* The model is in memory and the port is bound.
ServerUp(s) ==
    /\ proc[s] = "loading"
    /\ \A t \in Pids : proc[t] \notin {"up", "wedged"}
    /\ proc' = [proc EXCEPT ![s] = "up"]

ServerWedges(s) == proc[s] = "up" /\ proc' = [proc EXCEPT ![s] = "wedged"]
ServerUnwedges(s) == proc[s] = "wedged" /\ proc' = [proc EXCEPT ![s] = "up"]
ServerDies(s) == Alive(s) /\ proc' = [proc EXCEPT ![s] = "zombie"]

Server ==
    /\ \E s \in Pids :
          ServerUp(s) \/ ServerWedges(s) \/ ServerUnwedges(s) \/ ServerDies(s)
    /\ UNCHANGED <<pid, flags, mainVars, monVars, cbVars, pollVars>>

\* The detached threads end with the process.
ChildAlive == main # "exited"

\* A new llama_monitor_thread, in a slot that no thread uses.
StartMonitor ==
    \E m \in Monitors :
        /\ mpc[m] = "off"
        /\ \A n \in Monitors : mpc[n] = "off" => m <= n
        /\ mpc' = [mpc EXCEPT ![m] = "top"]
        /\ UNCHANGED <<mpid, retries>>

(***************************************************************************)
(* child_main: the start at boot and the clean shutdown.                   *)
(***************************************************************************)

BootSpawn ==
    /\ main = "boot"
    /\ \/ SpawnLlamaServer /\ main' = "health"
       \/ SpawnFails /\ main' = "serve"
    /\ UNCHANGED <<mainPid, flags, monVars, cbVars, pollVars>>

\* The monitor starts whether or not the engine became healthy in 60 s.
BootHealth ==
    /\ main = "health"
    /\ loaded' = IF Healthy THEN 1 ELSE loaded
    /\ StartMonitor
    /\ main' = "serve"
    /\ UNCHANGED <<proc, pid, ready, running, mainPid, cbVars, pollVars>>

\* child_signal: SIGTERM or SIGINT clears g_running.
Terminate ==
    /\ Stops = 1 /\ running = 1 /\ ChildAlive
    /\ running' = 0
    /\ UNCHANGED <<proc, pid, loaded, ready, mainVars, monVars, cbVars, pollVars>>

\* svr.listen has returned: SIGTERM to the engine.
StopTerm ==
    /\ main = "serve" /\ running = 0
    /\ Sigterm(pid)
    /\ main' = IF pid = NoPid THEN "exited" ELSE "stop"
    /\ mainPid' = pid
    /\ UNCHANGED <<pid, flags, monVars, cbVars, pollVars>>

\* waitpid(WNOHANG) for up to 5 s.
StopWait ==
    /\ main = "stop"
    /\ \/ Reaps(mainPid)
       \/ NoChild(mainPid)
       \/ mainPid \in Pids /\ Alive(mainPid) /\ proc' = proc
    /\ main' = "kill"
    /\ UNCHANGED <<pid, flags, mainPid, monVars, cbVars, pollVars>>

StopKill ==
    /\ main = "kill"
    /\ Sigkill(mainPid)
    /\ pid' = NoPid
    /\ main' = "exited"
    /\ UNCHANGED <<flags, mainPid, monVars, cbVars, pollVars>>

Main == BootSpawn \/ BootHealth \/ Terminate \/ StopTerm \/ StopWait \/ StopKill

(***************************************************************************)
(* llama_monitor_thread.                                                   *)
(***************************************************************************)

MonitorAt(m, pc) == mpc' = [mpc EXCEPT ![m] = pc]

\* The thread leaves its loop.
MonitorEnds(m) ==
    /\ MonitorAt(m, "off")
    /\ mpid' = [mpid EXCEPT ![m] = NoPid]
    /\ retries' = [retries EXCEPT ![m] = 0]

MonitorTop(m) ==
    /\ mpc[m] = "top"
    /\ \/ /\ running = 1 /\ retries[m] < MaxRetries /\ pid # NoPid
          /\ MonitorAt(m, "wait")
          /\ mpid' = [mpid EXCEPT ![m] = pid]
          /\ UNCHANGED retries
       \/ /\ running = 0 \/ retries[m] >= MaxRetries \/ pid = NoPid
          /\ MonitorEnds(m)
    /\ UNCHANGED <<proc, pid, flags, mainVars, cbVars, pollVars>>

\* Mutant: waitpid with WNOHANG, whose 0 is taken for an exit.
MonitorWait_NoHang(m) ==
    /\ mpc[m] = "wait"
    /\ MonitorAt(m, "reaped")
    /\ mpid' = [mpid EXCEPT ![m] = NoPid]
    /\ UNCHANGED <<proc, pid, retries, flags, mainVars, cbVars, pollVars>>

\* waitpid: the engine has exited, or another thread has reaped it.
MonitorWait(m) ==
    /\ mpc[m] = "wait"
    /\ \/ /\ Reaps(mpid[m])
          /\ MonitorAt(m, "reaped")
          /\ mpid' = [mpid EXCEPT ![m] = NoPid]
          /\ UNCHANGED retries
       \/ /\ NoChild(mpid[m])
          /\ MonitorEnds(m)
    /\ UNCHANGED <<pid, flags, mainVars, cbVars, pollVars>>

\* Mutant: the crash is not counted.
MonitorCounts_Never(m) == MonitorAt(m, "sleep") /\ UNCHANGED <<mpid, retries>>

\* max_retries crashes: the stub stays.  Otherwise sleep 2 s.
MonitorCounts(m) ==
    \/ /\ retries[m] + 1 >= MaxRetries
       /\ MonitorEnds(m)
    \/ /\ retries[m] + 1 < MaxRetries
       /\ MonitorAt(m, "sleep")
       /\ retries' = [retries EXCEPT ![m] = @ + 1]
       /\ UNCHANGED mpid

\* Mutant: g_model_loaded is left set.
MonitorReaped_StaysLoaded(m) ==
    /\ mpc[m] = "reaped"
    /\ \/ running = 0 /\ MonitorEnds(m)
       \/ running = 1 /\ MonitorCounts(m)
    /\ UNCHANGED <<proc, pid, flags, mainVars, cbVars, pollVars>>

\* Shutting down: leave.  Otherwise back to the stub, and count the crash.
MonitorReaped(m) ==
    /\ mpc[m] = "reaped"
    /\ \/ running = 0 /\ MonitorEnds(m) /\ UNCHANGED loaded
       \/ running = 1 /\ MonitorCounts(m) /\ loaded' = 0
    /\ UNCHANGED <<proc, pid, ready, running, mainVars, cbVars, pollVars>>

\* After 2 s.
MonitorRespawn(m) ==
    /\ mpc[m] = "sleep"
    /\ \/ SpawnLlamaServer /\ MonitorAt(m, "health")
       \/ SpawnFails /\ MonitorAt(m, "top")
    /\ UNCHANGED <<mpid, retries, flags, mainVars, cbVars, pollVars>>

\* wait_for_llama_server(60): healthy, or the time is up.
MonitorHealth(m) ==
    /\ mpc[m] = "health"
    /\ \/ /\ Healthy
          /\ loaded' = 1
          /\ retries' = [retries EXCEPT ![m] = 0]
       \/ /\ ~Healthy
          /\ UNCHANGED <<loaded, retries>>
    /\ MonitorAt(m, "top")
    /\ UNCHANGED <<proc, pid, mpid, ready, running, mainVars, cbVars, pollVars>>

Monitor(m) ==
    /\ ChildAlive
    /\ \/ MonitorTop(m) \/ MonitorWait(m) \/ MonitorReaped(m)
       \/ MonitorRespawn(m) \/ MonitorHealth(m)

(***************************************************************************)
(* llama_health_poll_thread.                                               *)
(***************************************************************************)

\* Mutant: the count of failures starts again at every probe.
PollWake_Resets ==
    /\ ppc = "sleep" /\ running = 1 /\ main \notin {"boot", "health"}
    /\ fails' = 0
    /\ ppc' = IF loaded = 0 THEN "sleep" ELSE "probe"
    /\ UNCHANGED <<proc, pid, flags, mainVars, monVars, cbVars>>

\* Every 5 s, once child_main has started it; no model, nothing to probe.
PollWake ==
    /\ ppc = "sleep" /\ running = 1 /\ main \notin {"boot", "health"}
    /\ \/ loaded = 0 /\ fails' = 0 /\ ppc' = "sleep"
       \/ loaded = 1 /\ fails' = fails /\ ppc' = "probe"
    /\ UNCHANGED <<proc, pid, flags, mainVars, monVars, cbVars>>

\* Mutant: one failure too many is waited for.
PollProbe_OffByOne ==
    /\ ppc = "probe"
    /\ \/ Healthy /\ fails' = 0 /\ ppc' = "sleep"
       \/ /\ ~Healthy
          /\ fails' = fails + 1
          /\ ppc' = IF fails < FailThreshold THEN "sleep" ELSE "kill"
    /\ UNCHANGED <<proc, pid, flags, mainVars, monVars, cbVars>>

PollProbe ==
    /\ ppc = "probe"
    /\ \/ Healthy /\ fails' = 0 /\ ppc' = "sleep" /\ ready' = 1
       \/ ~Healthy /\ fails + 1 < FailThreshold
          /\ fails' = fails + 1 /\ ppc' = "sleep" /\ ready' = ready
       \/ ~Healthy /\ fails + 1 >= FailThreshold
          /\ fails' = 0 /\ ppc' = "kill" /\ ready' = 0
    /\ UNCHANGED <<proc, pid, loaded, running, mainVars, monVars, cbVars>>

PollKill ==
    /\ ppc = "kill"
    /\ Sigkill(pid)
    /\ ppc' = "sleep"
    /\ UNCHANGED <<pid, fails, flags, mainVars, monVars, cbVars>>

Poller == ChildAlive /\ (PollWake \/ PollProbe \/ PollKill)

(***************************************************************************)
(* The topology-change callback.  It runs on the heartbeat thread, or on a *)
(* thread of its own (cluster.add_peer, the end of an auto-upgrade).  Its  *)
(* second half, solo = 1, retries without RPC after a timeout.             *)
(***************************************************************************)

GoTo(r, pc) == cpc' = [cpc EXCEPT ![r] = pc]

\* Where a thread that runs the callback comes from and goes back to: the
\* heartbeat from its election, the others only exist for the callback.
Home(r) == IF r = HB THEN "elect" ELSE "idle"

CallbackReturns(r) ==
    /\ GoTo(r, Home(r))
    /\ cpid' = [cpid EXCEPT ![r] = NoPid]
    /\ solo' = [solo EXCEPT ![r] = 0]

CallbackFires(r) ==
    /\ cpc[r] = Home(r)
    /\ main = "serve" /\ fires < MaxFires
    /\ fires' = fires + 1
    /\ GoTo(r, "load")
    /\ UNCHANGED <<proc, pid, cpid, solo, flags, mainVars, monVars, pollVars>>

CallbackLoad(r) ==
    /\ cpc[r] = "load"
    /\ cpid' = [cpid EXCEPT ![r] = pid]
    /\ GoTo(r, IF pid = NoPid THEN "spawn" ELSE "term")
    /\ UNCHANGED <<proc, pid, solo, fires, flags, mainVars, monVars, pollVars>>

CallbackTerm(r) ==
    /\ cpc[r] = "term"
    /\ Sigterm(cpid[r])
    /\ GoTo(r, "reap")
    /\ UNCHANGED <<pid, cpid, solo, fires, flags, mainVars, monVars, pollVars>>

\* waitpid(pid, nullptr, 0): the result is not looked at.
CallbackReap(r) ==
    /\ cpc[r] = "reap"
    /\ Reaps(cpid[r]) \/ NoChild(cpid[r])
    /\ GoTo(r, "clear")
    /\ UNCHANGED <<pid, cpid, solo, fires, flags, mainVars, monVars, pollVars>>

\* Killing the stuck RPC process leaves g_model_loaded alone.
CallbackClear(r) ==
    /\ cpc[r] = "clear"
    /\ pid' = NoPid
    /\ loaded' = IF solo[r] = 1 THEN loaded ELSE 0
    /\ cpid' = [cpid EXCEPT ![r] = NoPid]
    /\ GoTo(r, "spawn")
    /\ UNCHANGED <<proc, solo, fires, ready, running, mainVars, monVars, pollVars>>

CallbackSpawn(r) ==
    /\ cpc[r] = "spawn"
    /\ \/ SpawnLlamaServer /\ GoTo(r, "health") /\ UNCHANGED <<cpid, solo>>
       \/ SpawnFails /\ CallbackReturns(r)
    /\ UNCHANGED <<fires, flags, mainVars, monVars, pollVars>>

\* Mutant: the restarted engine gets no monitor (the one from boot is to stay).
CallbackHealth_NoMonitor(r) ==
    /\ cpc[r] = "health"
    /\ \/ Healthy /\ loaded' = 1 /\ CallbackReturns(r)
       \/ /\ ~Healthy /\ solo[r] = 0
          /\ solo' = [solo EXCEPT ![r] = 1]
          /\ GoTo(r, "load")
          /\ UNCHANGED <<loaded, cpid>>
       \/ ~Healthy /\ solo[r] = 1 /\ CallbackReturns(r) /\ UNCHANGED loaded
    /\ UNCHANGED <<proc, pid, fires, ready, running, mainVars, monVars, pollVars>>

\* Healthy: back in service, with a monitor of its own.  After 30 s without an
\* answer: once more, without RPC.  After 60 s without one: left as it is.  (The
\* list of RPC endpoints starts with this node and is never empty.)
CallbackHealth(r) ==
    /\ cpc[r] = "health"
    /\ \/ Healthy /\ loaded' = 1 /\ StartMonitor /\ CallbackReturns(r)
       \/ /\ ~Healthy /\ solo[r] = 0
          /\ solo' = [solo EXCEPT ![r] = 1]
          /\ GoTo(r, "load")
          /\ UNCHANGED <<loaded, cpid, monVars>>
       \/ /\ ~Healthy /\ solo[r] = 1
          /\ CallbackReturns(r)
          /\ UNCHANGED <<loaded, monVars>>
    /\ UNCHANGED <<proc, pid, fires, ready, running, mainVars, pollVars>>

CallbackRuns(r) ==
    \/ CallbackLoad(r) \/ CallbackTerm(r) \/ CallbackReap(r)
    \/ CallbackClear(r) \/ CallbackSpawn(r) \/ CallbackHealth(r)

Callback(r) == ChildAlive /\ (CallbackFires(r) \/ CallbackRuns(r))

(***************************************************************************)
(* The cluster heartbeat: expire and re-elect (which may run the           *)
(* callback), watchdog, recovery.                                          *)
(***************************************************************************)

HeartbeatTick ==
    /\ Heartbeat = 1 /\ cpc[HB] = "idle"
    /\ running = 1 /\ main = "serve"
    /\ GoTo(HB, "elect")
    /\ UNCHANGED <<proc, pid, flags, mainVars, monVars, cpid, solo, fires, pollVars>>

\* The election changed nothing (more).
HeartbeatElected ==
    /\ cpc[HB] = "elect"
    /\ GoTo(HB, "watch")
    /\ UNCHANGED <<proc, pid, flags, mainVars, monVars, cpid, solo, fires, pollVars>>

\* kill(lpid, 0) fails with ESRCH only once the process has been reaped.
HeartbeatWatch ==
    /\ cpc[HB] = "watch"
    /\ GoTo(HB, IF loaded = 1 /\ pid \in Pids /\ proc[pid] = "free"
                THEN "died" ELSE "recover")
    /\ UNCHANGED <<proc, pid, flags, mainVars, monVars, cpid, solo, fires, pollVars>>

HeartbeatDied ==
    /\ cpc[HB] = "died"
    /\ pid' = NoPid
    /\ loaded' = 0
    /\ GoTo(HB, "recover")
    /\ UNCHANGED <<proc, ready, running, mainVars, monVars, cpid, solo, fires, pollVars>>

HeartbeatRecover ==
    /\ cpc[HB] = "recover"
    /\ GoTo(HB, IF loaded = 0 /\ pid = NoPid THEN "respawn" ELSE "idle")
    /\ UNCHANGED <<proc, pid, flags, mainVars, monVars, cpid, solo, fires, pollVars>>

HeartbeatRespawn ==
    /\ cpc[HB] = "respawn"
    /\ \/ SpawnLlamaServer /\ GoTo(HB, "rehealth")
       \/ SpawnFails /\ GoTo(HB, "idle")
    /\ UNCHANGED <<flags, mainVars, monVars, cpid, solo, fires, pollVars>>

HeartbeatHealth ==
    /\ cpc[HB] = "rehealth"
    /\ \/ Healthy /\ loaded' = 1 /\ StartMonitor
       \/ ~Healthy /\ UNCHANGED <<loaded, monVars>>
    /\ GoTo(HB, "idle")
    /\ UNCHANGED <<proc, pid, ready, running, mainVars, cpid, solo, fires, pollVars>>

HeartbeatStep ==
    /\ ChildAlive
    /\ \/ HeartbeatTick \/ HeartbeatElected \/ HeartbeatWatch \/ HeartbeatDied
       \/ HeartbeatRecover \/ HeartbeatRespawn \/ HeartbeatHealth

(***************************************************************************)
(* A restart lasts from the moment a thread takes the engine down, or      *)
(* finds it dead, to the end of its wait for the new one.  No lock is held *)
(* over it.                                                                *)
(***************************************************************************)

MonitorRestarts(m) == mpc[m] \in {"reaped", "sleep", "health"}
ThreadRestarts(r) == cpc[r] \notin {"idle", "elect", "watch", "recover"}

\* A callback or the heartbeat restarts the engine while another thread does.
RestartsOverlap ==
    \E r \in Restarters :
        /\ ThreadRestarts(r)
        /\ \/ \E q \in Restarters : q # r /\ ThreadRestarts(q)
           \/ \E m \in Monitors : MonitorRestarts(m)

NoteOverlap == overlap' = IF RestartsOverlap' THEN 1 ELSE overlap

Step ==
    \/ Server
    \/ Main
    \/ \E m \in Monitors : Monitor(m)
    \/ Poller
    \/ \E r \in Restarters : Callback(r)
    \/ HeartbeatStep

Next == Step /\ NoteOverlap

Spec == Init /\ [][Next]_vars

\* Every thread keeps running.  A topology change, a signal and what the engine
\* does are not owed to anyone.
Fairness ==
    /\ WF_vars(/\ BootSpawn \/ BootHealth \/ StopTerm \/ StopWait \/ StopKill
               /\ NoteOverlap)
    /\ \A m \in Monitors : WF_vars(Monitor(m) /\ NoteOverlap)
    /\ WF_vars(Poller /\ NoteOverlap)
    /\ \A r \in Restarters : WF_vars(ChildAlive /\ CallbackRuns(r) /\ NoteOverlap)
    /\ WF_vars(HeartbeatStep /\ NoteOverlap)

FairSpec == Spec /\ Fairness

(***************************************************************************)
(* Properties.                                                             *)
(***************************************************************************)

AtMostOneAlive == \A s, t \in Pids : Alive(s) /\ Alive(t) => s = t

\* At most one llama-server runs (two would fight for port 8088 and the RAM, and
\* g_llama_pid names only one of them), whatever the boot code, the monitors,
\* the poller, the heartbeat and the topology callback do, as long as no restart
\* by the callback or the heartbeat ran at the same time as another restart.
OneServer == overlap = 0 => AtMostOneAlive

\* While the model is advertised as loaded, and until two restarts have
\* overlapped, g_llama_pid names a process that has not been reaped and a
\* monitor thread is waiting, or is about to wait, for exactly that process;
\* or a restart is under way.
Watches(m) ==
    \/ mpc[m] = "top" /\ retries[m] < MaxRetries
    \/ mpc[m] = "wait" /\ mpid[m] = pid
RestartUnderWay ==
    \/ \E r \in Restarters : ThreadRestarts(r)
    \/ \E m \in Monitors : MonitorRestarts(m)
LoadedIsWatched ==
    overlap = 0 /\ loaded = 1 /\ running = 1 =>
        \/ RestartUnderWay
        \/ pid \in Pids /\ proc[pid] # "free" /\ \E m \in Monitors : Watches(m)

\* An engine that is wedged while the model is loaded is put down: the poller
\* counts FAIL_THRESHOLD failures in a row and kills it, also while the heartbeat
\* works beside it.  (A second engine, left by overlapping restarts, would answer
\* the probe in its place.)
WedgeEnds ==
    (loaded = 1 /\ running = 1 /\ pid \in Pids /\ proc[pid] = "wedged")
        ~> (running = 0 \/ overlap = 1 \/ pid \notin Pids \/ proc[pid] # "wedged")

\* A dead engine does not stay advertised as loaded: a monitor or the heartbeat
\* takes the advertisement back, until two restarts have overlapped.
DeadNotLoaded ==
    (main = "serve" /\ loaded = 1 /\ pid \in Pids /\ ~Alive(pid))
        ~> (running = 0 \/ overlap = 1 \/ loaded = 0 \/ (pid \in Pids /\ Alive(pid)))

\* No crash loop: the engine is spawned again and again only if it keeps
\* becoming healthy in between.  A model that never loads is given up after
\* max_retries by every monitor, and the heartbeat does not step in for it.
NoCrashLoop == []<><<SpawnLlamaServer>>_vars => []<>Healthy

\* "Recovery: ... Fires within one heartbeat cycle (30s) of any crash -
\* regardless of whether the monitor thread is still watching or has already
\* exited": while no engine runs, someone is about to spawn one.
Respawning == cpc[HB] = "respawn" \/ \E m \in Monitors : mpc[m] = "sleep"
RecoveryFires ==
    (main = "serve" /\ loaded = 0 /\ \A s \in Pids : ~Alive(s))
        ~> (running = 0 \/ Respawning \/ \E s \in Pids : Alive(s))
=============================================================================
