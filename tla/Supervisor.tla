----------------------------- MODULE Supervisor -----------------------------
(***************************************************************************)
(* PID 1 of Llamaste (supervisor.cpp): the loop that forks child_main,     *)
(* waits for any of its children with waitpid(-1), respawns the one that   *)
(* exited, and on a shutdown or reboot request waits for child_main to go  *)
(* before it unmounts /data and calls reboot(2).                           *)
(*                                                                         *)
(* Six actors interleave: the main thread of the supervisor, its SIGCHLD   *)
(* handler (which may run on any thread that does not block the signal),   *)
(* the console input thread, the watchdog kicker thread, child_main (with  *)
(* the thread that turns SIGTERM into svr.stop()), and the other children  *)
(* of PID 1: dbus-daemon, bluetoothd and processes it does not know.       *)
(*                                                                         *)
(* Time is abstracted: whether a crash came within 60 s of the previous    *)
(* one, and whether the 300 s restart window of a daemon is over, are      *)
(* choices made when the code looks at the clock.                          *)
(***************************************************************************)
EXTENDS Naturals

CONSTANTS
    HasDaemons,    \* dbus-daemon and bluetoothd were started by init
    CrashLimit,    \* rapid crashes tolerated before the long pause (3)
    RestartLimit,  \* restarts of a daemon per window (3)
    MaxOthers      \* bound: children of PID 1 it does not know

ASSUME ConstantsAssumption ==
    /\ HasDaemons \in BOOLEAN
    /\ CrashLimit \in Nat
    /\ RestartLimit \in Nat
    /\ MaxOthers \in Nat

VARIABLES
    pc,            \* where the main thread is in supervisor_run
    exited,        \* g_child_exited
    pidref,        \* g_child_pid: what the stored pid denotes
    shutdown,      \* g_shutdown_requested
    reboot,        \* g_reboot_requested
    crashCount,    \* crash_count
    sigchld,       \* SIGCHLD is pending for PID 1
    child,         \* life of the child_main process forked last
    running,       \* g_running in child_main
    watcher,       \* the shutdown_watcher thread of child_main
    console,       \* console_input_thread while it executes a confirmed "Y"
    first,         \* the request that set g_shutdown_requested (history)
    watchdog,      \* the watchdog device and watchdog_kicker_thread
    machine,       \* the machine under PID 1
    dbus, bt,      \* dbus-daemon, bluetoothd
    dbusRestarts,  \* dbus_restarts
    btRestarts,    \* bt_restarts
    others         \* children the supervisor does not know, and their zombies

mainVars   == <<pc, pidref, crashCount>>
flagVars   == <<shutdown, reboot, first>>
childVars  == <<child, running, watcher>>
daemonVars == <<dbus, bt, dbusRestarts, btRestarts, others>>
vars == <<mainVars, exited, flagVars, sigchld, childVars, console, watchdog,
          machine, daemonVars>>

MainPC == {"top", "fork", "publish", "check", "wait", "after", "pause",
           "final", "reap", "close", "halt"}

\* "forked": still under the handlers inherited from PID 1.  "starting": its
\* own handlers installed, routes being registered.  "prelisten": the
\* shutdown_watcher runs, svr.listen() not reached.  "none": reaped, or the
\* first fork not made.
ChildPhase == {"none", "forked", "starting", "prelisten", "listening",
               "stopping", "zombie"}
Alive      == ChildPhase \ {"none", "zombie"}
\* Phases in which child_main runs code that can ask PID 1 to stop.
Serving    == {"starting", "prelisten", "listening", "stopping"}

TypeOK ==
    /\ pc \in MainPC
    /\ exited \in {0, 1}
    /\ pidref \in {"zero", "failed", "current", "stale"}
    /\ shutdown \in {0, 1}
    /\ reboot \in {0, 1}
    /\ crashCount \in 0..CrashLimit
    /\ sigchld \in {0, 1}
    /\ child \in ChildPhase
    /\ running \in {0, 1}
    /\ watcher \in {"off", "polling", "done"}
    /\ console \in {"idle", "reboot", "flagReboot", "flag", "kill"}
    /\ first \in {"none", "poweroff", "reboot"}
    /\ watchdog \in {"none", "kicked", "unkicked"}
    /\ machine \in {"on", "off", "rebooting", "wdreset"}
    /\ dbus \in {"none", "up", "zombie"}
    /\ bt \in {"none", "up", "zombie"}
    /\ dbusRestarts \in 0..RestartLimit
    /\ btRestarts \in 0..RestartLimit
    /\ others \in [alive : Nat, dead : Nat]

\* supervisor_run reaches its loop with no child_main; preflight may have left
\* processes behind that PID 1 inherited.
Init ==
    /\ pc = "top"
    /\ exited = 0
    /\ pidref = "zero"
    /\ shutdown = 0
    /\ reboot = 0
    /\ crashCount = 0
    /\ sigchld = 0
    /\ child = "none"
    /\ running = 1
    /\ watcher = "off"
    /\ console = "idle"
    /\ first = "none"
    /\ watchdog \in {"none", "kicked"}     \* open_watchdog() may fail
    /\ machine = "on"
    /\ dbus = IF HasDaemons THEN "up" ELSE "none"
    /\ bt = IF HasDaemons THEN "up" ELSE "none"
    /\ dbusRestarts = 0
    /\ btRestarts = 0
    /\ \E n \in 0..MaxOthers : others = [alive |-> n, dead |-> 0]

-----------------------------------------------------------------------------
(* Signals between the two processes *)

\* kill(g_child_pid, SIGTERM): a stale pid denotes nobody.  A child that has
\* not yet replaced the handlers it inherited runs supervisor_sigterm on its
\* own copy of the flags, which child_main never reads; afterwards
\* child_signal clears g_running.
KillChild ==
    running' = IF pidref = "current" /\ child \in Serving THEN 0 ELSE running

\* The first writer of g_shutdown_requested decides what was asked for.
Request(kind) ==
    /\ shutdown' = 1
    /\ first' = IF shutdown = 1 THEN first ELSE kind

\* supervisor_sigchld: waitpid(g_child_pid, WNOHANG) on whichever thread got
\* the signal, at any moment of the main thread.
SigchldHandler ==
    /\ machine = "on" /\ sigchld = 1
    /\ sigchld' = 0
    /\ IF pidref = "current" /\ child = "zombie"
       THEN child' = "none" /\ exited' = 1
       ELSE UNCHANGED <<child, exited>>
    /\ UNCHANGED <<mainVars, flagVars, running, watcher, console, watchdog,
                   machine, daemonVars>>

\* supervisor_sigterm: POST /llamaste/shutdown and the shutdown tool, in
\* child_main, signal PID 1.
SigTerm ==
    /\ machine = "on" /\ child \in Serving
    /\ Request("poweroff")
    /\ KillChild
    /\ UNCHANGED <<mainVars, exited, reboot, sigchld, child, watcher, console,
                   watchdog, machine, daemonVars>>

\* supervisor_sigusr1: POST /llamaste/reboot and the reboot tool.
SigUsr1 ==
    /\ machine = "on" /\ child \in Serving
    /\ reboot' = 1
    /\ Request("reboot")
    /\ KillChild
    /\ UNCHANGED <<mainVars, exited, sigchld, child, watcher, console,
                   watchdog, machine, daemonVars>>

-----------------------------------------------------------------------------
(* console_input_thread: "Y" at a shutdown or reboot prompt.  The thread runs
   beside the main thread, so its three writes are three steps. *)

ConsoleYes ==
    /\ machine = "on" /\ console = "idle" /\ shutdown = 0
    /\ console' \in {"reboot", "flag"}
    /\ UNCHANGED <<mainVars, exited, flagVars, sigchld, childVars, watchdog,
                   machine, daemonVars>>

\* Mutant of ConsoleSetReboot: g_reboot_requested is never raised.
ConsoleSetReboot_Forgotten ==
    /\ machine = "on" /\ console = "reboot"
    /\ console' = "flagReboot"
    /\ UNCHANGED <<mainVars, exited, flagVars, sigchld, childVars, watchdog,
                   machine, daemonVars>>

ConsoleSetReboot ==
    /\ machine = "on" /\ console = "reboot"
    /\ reboot' = 1
    /\ console' = "flagReboot"
    /\ UNCHANGED <<mainVars, exited, shutdown, first, sigchld, childVars,
                   watchdog, machine, daemonVars>>

ConsoleSetShutdown ==
    /\ machine = "on" /\ console \in {"flagReboot", "flag"}
    /\ Request(IF console = "flagReboot" THEN "reboot" ELSE "poweroff")
    /\ console' = "kill"
    /\ UNCHANGED <<mainVars, exited, reboot, sigchld, childVars, watchdog,
                   machine, daemonVars>>

ConsoleKill ==
    /\ machine = "on" /\ console = "kill"
    /\ KillChild
    /\ console' = "idle"
    /\ UNCHANGED <<mainVars, exited, flagVars, sigchld, child, watcher,
                   watchdog, machine, daemonVars>>

ConsoleStep == ConsoleSetReboot \/ ConsoleSetShutdown \/ ConsoleKill

-----------------------------------------------------------------------------
(* child_main, as far as PID 1 can tell *)

ChildInstallHandlers ==
    /\ machine = "on" /\ child = "forked"
    /\ child' = "starting"
    /\ UNCHANGED <<mainVars, exited, flagVars, sigchld, running, watcher,
                   console, watchdog, machine, daemonVars>>

ChildStartWatcher ==
    /\ machine = "on" /\ child = "starting"
    /\ child' = "prelisten"
    /\ watcher' = "polling"
    /\ UNCHANGED <<mainVars, exited, flagVars, sigchld, running, console,
                   watchdog, machine, daemonVars>>

ChildListen ==
    /\ machine = "on" /\ child = "prelisten"
    /\ child' = "listening"
    /\ UNCHANGED <<mainVars, exited, flagVars, sigchld, running, watcher,
                   console, watchdog, machine, daemonVars>>

\* Mutant of WatcherStops: the thread ends without svr.stop().
WatcherStops_NoStop ==
    /\ machine = "on" /\ child \in Serving
    /\ watcher = "polling" /\ running = 0
    /\ watcher' = "done"
    /\ UNCHANGED <<mainVars, exited, flagVars, sigchld, child, running,
                   console, watchdog, machine, daemonVars>>

\* shutdown_watcher: once g_running is false it calls svr.stop() and ends.
\* stop() does nothing to a server that is not running yet.
WatcherStops ==
    /\ machine = "on" /\ child \in Serving
    /\ watcher = "polling" /\ running = 0
    /\ watcher' = "done"
    /\ child' = IF child = "listening" THEN "stopping" ELSE child
    /\ UNCHANGED <<mainVars, exited, flagVars, sigchld, running, console,
                   watchdog, machine, daemonVars>>

\* The process becomes a zombie and PID 1 is sent SIGCHLD.
Dies ==
    /\ child' = "zombie"
    /\ sigchld' = 1
    /\ UNCHANGED <<mainVars, exited, flagVars, running, watcher, console,
                   watchdog, machine, daemonVars>>

\* svr.listen() returned: schedulers, mDNS and the llama processes are stopped
\* and child_main returns.
ChildExits == machine = "on" /\ child = "stopping" /\ Dies

\* A crash, a failed bind, or the OOM killer: at any time.
ChildCrashes == machine = "on" /\ child \in Alive /\ Dies

ChildStep == ChildInstallHandlers \/ ChildStartWatcher \/ ChildListen \/ ChildExits

-----------------------------------------------------------------------------
(* The other children of PID 1 *)

DbusExits ==
    /\ machine = "on" /\ dbus = "up"
    /\ others.alive + others.dead < MaxOthers     \* bound
    /\ dbus' = "zombie" /\ sigchld' = 1
    /\ UNCHANGED <<mainVars, exited, flagVars, childVars, console, watchdog,
                   machine, bt, dbusRestarts, btRestarts, others>>

BluetoothdExits ==
    /\ machine = "on" /\ bt = "up"
    /\ bt' = "zombie" /\ sigchld' = 1
    /\ UNCHANGED <<mainVars, exited, flagVars, childVars, console, watchdog,
                   machine, dbus, dbusRestarts, btRestarts, others>>

OtherExits ==
    /\ machine = "on" /\ others.alive > 0
    /\ others' = [alive |-> others.alive - 1, dead |-> others.dead + 1]
    /\ sigchld' = 1
    /\ UNCHANGED <<mainVars, exited, flagVars, childVars, console, watchdog,
                   machine, dbus, bt, dbusRestarts, btRestarts>>

-----------------------------------------------------------------------------
(* supervisor_run, main thread *)

\* while (!g_shutdown_requested)
Top ==
    /\ machine = "on" /\ pc = "top"
    /\ pc' = IF shutdown = 1 THEN "final" ELSE "fork"
    /\ UNCHANGED <<pidref, crashCount, exited, flagVars, sigchld,
                   childVars, console, watchdog, machine, daemonVars>>

\* Mutant of Fork: g_child_exited is not cleared.
Fork_KeepsFlag ==
    /\ machine = "on" /\ pc = "fork"
    /\ pidref' = IF pidref = "current" THEN "stale" ELSE pidref
    /\ child' = "forked" /\ running' = 1 /\ watcher' = "off"
    /\ pc' = "publish"
    /\ UNCHANGED <<crashCount, exited, flagVars, sigchld, console,
                   watchdog, machine, daemonVars>>

\* g_child_exited = 0, then fork(): the child exists before its pid is stored,
\* and until then g_child_pid denotes the process before it.
Fork ==
    /\ machine = "on" /\ pc = "fork"
    /\ exited' = 0
    /\ pidref' = IF pidref = "current" THEN "stale" ELSE pidref
    /\ child' = "forked" /\ running' = 1 /\ watcher' = "off"
    /\ pc' = "publish"
    /\ UNCHANGED <<crashCount, flagVars, sigchld, console,
                   watchdog, machine, daemonVars>>

\* fork() failed: g_child_pid = -1, sleep(5), continue.
ForkFails ==
    /\ machine = "on" /\ pc = "fork"
    /\ exited' = 0
    /\ pidref' = "failed"
    /\ pc' = "pause"
    /\ UNCHANGED <<crashCount, flagVars, sigchld, childVars, console,
                   watchdog, machine, daemonVars>>

\* g_child_pid = the value fork() returned.
PublishPid ==
    /\ machine = "on" /\ pc = "publish"
    /\ pidref' = "current"
    /\ pc' = "check"
    /\ UNCHANGED <<crashCount, exited, flagVars, sigchld, childVars,
                   console, watchdog, machine, daemonVars>>

\* if (g_child_exited) break;
CheckExited ==
    /\ machine = "on" /\ pc = "check"
    /\ pc' = IF exited = 1 THEN "after" ELSE "wait"
    /\ UNCHANGED <<pidref, crashCount, exited, flagVars, sigchld,
                   childVars, console, watchdog, machine, daemonVars>>

\* waitpid(-1) returns child_main.
WaitChild ==
    /\ machine = "on" /\ pc = "wait" /\ child = "zombie"
    /\ child' = "none"
    /\ exited' = 1
    /\ pc' = "after"
    /\ UNCHANGED <<pidref, crashCount, flagVars, sigchld, running,
                   watcher, console, watchdog, machine, daemonVars>>

\* Mutant of WaitFails: an error of waitpid is retried.
WaitFails_Retries ==
    /\ machine = "on" /\ pc = "wait"
    /\ child = "none" /\ dbus = "none" /\ bt = "none"
    /\ others.alive = 0 /\ others.dead = 0
    /\ UNCHANGED vars

\* waitpid(-1) returns -1: PID 1 has no child at all.
WaitFails ==
    /\ machine = "on" /\ pc = "wait"
    /\ child = "none" /\ dbus = "none" /\ bt = "none"
    /\ others.alive = 0 /\ others.dead = 0
    /\ pc' = "after"
    /\ UNCHANGED <<pidref, crashCount, exited, flagVars, sigchld,
                   childVars, console, watchdog, machine, daemonVars>>

\* The counter of a daemon when its exit is handled; `expired' says that the
\* window was more than 300 s old.
Counted(restarts, expired) == IF expired THEN 0 ELSE restarts

\* waitpid(-1) returns g_dbus_pid: restart it below the limit, then bluetoothd,
\* whose old process gets SIGTERM and is reaped only if it is already dead;
\* otherwise it stays behind as a child with no name.  Either start may fail.
WaitDbus ==
    /\ machine = "on" /\ pc = "wait" /\ dbus = "zombie"
    /\ \E expired, dbusStarts, btStarts \in BOOLEAN :
        LET n == Counted(dbusRestarts, expired) IN
        IF n < RestartLimit
        THEN /\ dbusRestarts' = n + 1
             /\ dbus' = IF dbusStarts THEN "up" ELSE "none"
             /\ bt' = IF btStarts \/ bt = "up" THEN "up" ELSE "none"
             /\ others' = IF btStarts /\ bt = "up"
                          THEN [others EXCEPT !.alive = @ + 1] ELSE others
        ELSE /\ dbusRestarts' = n
             /\ dbus' = "none"
             /\ UNCHANGED <<bt, others>>
    /\ pc' = "check"
    /\ UNCHANGED <<pidref, crashCount, exited, flagVars, sigchld,
                   childVars, console, watchdog, machine, btRestarts>>

\* waitpid(-1) returns g_bluetoothd_pid.
WaitBluetoothd ==
    /\ machine = "on" /\ pc = "wait" /\ bt = "zombie"
    /\ \E expired, btStarts \in BOOLEAN :
        LET n == Counted(btRestarts, expired) IN
        /\ btRestarts' = IF n < RestartLimit THEN n + 1 ELSE n
        /\ bt' = IF n < RestartLimit /\ btStarts THEN "up" ELSE "none"
    /\ pc' = "check"
    /\ UNCHANGED <<pidref, crashCount, exited, flagVars, sigchld,
                   childVars, console, watchdog, machine, dbus, dbusRestarts,
                   others>>

\* Mutant of WaitOther: any process that exits is taken for child_main.
WaitOther_AsChild ==
    /\ machine = "on" /\ pc = "wait" /\ others.dead > 0
    /\ others' = [others EXCEPT !.dead = @ - 1]
    /\ pc' = "after"
    /\ UNCHANGED <<pidref, crashCount, exited, flagVars, sigchld,
                   childVars, console, watchdog, machine, dbus, bt,
                   dbusRestarts, btRestarts>>

\* waitpid(-1) returns a process nobody recorded: ignored.
WaitOther ==
    /\ machine = "on" /\ pc = "wait" /\ others.dead > 0
    /\ others' = [others EXCEPT !.dead = @ - 1]
    /\ pc' = "check"
    /\ UNCHANGED <<pidref, crashCount, exited, flagVars, sigchld,
                   childVars, console, watchdog, machine, dbus, bt,
                   dbusRestarts, btRestarts>>

\* The crash counter after this exit: one more if the last crash was less
\* than 60 s ago, else 1.
CrashesNow(rapid) == IF rapid THEN crashCount + 1 ELSE 1

\* Mutant of CountAfterPause: no fresh count after the long pause.
CountAfterPause_NoReset(n) == n

\* More than three crashes in a row: a pause of 30 s and a fresh count; else a
\* pause of 2 s.
CountAfterPause(n) == IF n > CrashLimit THEN 0 ELSE n

\* After the wait loop: leave on a request, else count the crash and choose
\* the pause.
After ==
    /\ machine = "on" /\ pc = "after"
    /\ IF shutdown = 1
       THEN pc' = "final" /\ UNCHANGED crashCount
       ELSE /\ pc' = "pause"
            /\ \E rapid \in BOOLEAN :
                crashCount' = CountAfterPause(CrashesNow(rapid))
    /\ UNCHANGED <<pidref, exited, flagVars, sigchld, childVars, console,
                   watchdog, machine, daemonVars>>

PauseEnds ==
    /\ machine = "on" /\ pc = "pause"
    /\ pc' = "top"
    /\ UNCHANGED <<pidref, crashCount, exited, flagVars, sigchld,
                   childVars, console, watchdog, machine, daemonVars>>

\* if (g_child_pid > 0) kill(g_child_pid, SIGTERM) ...
FinalKill ==
    /\ machine = "on" /\ pc = "final"
    /\ KillChild
    /\ pc' = IF pidref \in {"current", "stale"} THEN "reap" ELSE "close"
    /\ UNCHANGED <<pidref, crashCount, exited, flagVars, sigchld,
                   child, watcher, console, watchdog, machine, daemonVars>>

\* ... and waitpid(g_child_pid): returns the zombie, or fails at once when the
\* pid is no longer a child.  PID 1 has no handler for the alarm, so a child
\* that lives on is waited for.
FinalReap ==
    /\ machine = "on" /\ pc = "reap"
    /\ pidref = "current" => child \notin Alive
    /\ child' = IF pidref = "current" THEN "none" ELSE child
    /\ pc' = "close"
    /\ UNCHANGED <<pidref, crashCount, exited, flagVars, sigchld,
                   running, watcher, console, watchdog, machine, daemonVars>>

\* Nothing of the user space survives.
MachineStops ==
    /\ sigchld' = 0 /\ console' = "idle"
    /\ dbus' = "none" /\ bt' = "none" /\ others' = [alive |-> 0, dead |-> 0]
    /\ UNCHANGED <<dbusRestarts, btRestarts>>

\* "V" and close on the watchdog; sync and umount of /data; reboot(2).  What
\* child_main was at that moment is kept.
CloseAndUnmount ==
    /\ machine = "on" /\ pc = "close"
    /\ pc' = "halt"
    /\ machine' = IF reboot = 1 THEN "rebooting" ELSE "off"
    /\ MachineStops
    /\ UNCHANGED <<pidref, crashCount, exited, flagVars, childVars, watchdog>>

Main ==
    \/ Top \/ Fork \/ ForkFails \/ PublishPid \/ CheckExited
    \/ WaitChild \/ WaitFails \/ WaitDbus \/ WaitBluetoothd \/ WaitOther
    \/ After \/ PauseEnds \/ FinalKill \/ FinalReap
    \/ CloseAndUnmount

-----------------------------------------------------------------------------
(* Watchdog *)

\* Mutant of KickerEnds: the loop does not look at g_shutdown_requested.
KickerEnds_Never ==
    /\ machine = "on" /\ watchdog = "kicked" /\ shutdown = 1
    /\ UNCHANGED vars

\* watchdog_kicker_thread leaves its loop once a shutdown is requested.
KickerEnds ==
    /\ machine = "on" /\ watchdog = "kicked" /\ shutdown = 1
    /\ watchdog' = "unkicked"
    /\ UNCHANGED <<mainVars, exited, flagVars, sigchld, childVars, console,
                   machine, daemonVars>>

\* 300 s without a kick: possible only when nobody kicks any more.
WatchdogFires ==
    /\ machine = "on" /\ watchdog = "unkicked"
    /\ machine' = "wdreset"
    /\ child' = "none" /\ watcher' = "off"
    /\ MachineStops
    /\ UNCHANGED <<mainVars, exited, flagVars, running, watchdog>>

Next ==
    \/ Main
    \/ SigchldHandler \/ SigTerm \/ SigUsr1
    \/ ConsoleYes \/ ConsoleStep
    \/ ChildStep \/ WatcherStops \/ ChildCrashes
    \/ DbusExits \/ BluetoothdExits \/ OtherExits
    \/ KickerEnds \/ WatchdogFires

\* Threads and processes that can run are scheduled, signals are delivered and
\* the watchdog counts.  Nothing makes a process crash, a daemon exit, or a
\* user ask for a shutdown.
Fairness ==
    /\ WF_vars(Main)
    /\ WF_vars(SigchldHandler)
    /\ WF_vars(ConsoleStep)
    /\ WF_vars(ChildStep)
    /\ WF_vars(WatcherStops)
    /\ WF_vars(KickerEnds)
    /\ WF_vars(WatchdogFires)

Spec == Init /\ [][Next]_vars
FairSpec == Spec /\ Fairness

-----------------------------------------------------------------------------
(* Safety *)

\* supervisor_run never forks a second child_main while the previous one lives
\* or waits to be reaped: whichever of the handler and the wait loop reaped it,
\* the loop came round only afterwards (both would bind the same port and
\* write the same files).
OneChild == pc = "fork" => child = "none"

\* When PID 1 unmounts /data and calls reboot(2), child_main is gone and
\* writes nothing under /data any more.  (Other processes are not meant.)
QuiescentHalt == machine \in {"off", "rebooting"} => child = "none"

\* If the request that started the shutdown was a reboot (console R/Y or
\* SIGUSR1), the machine is not powered off: g_reboot_requested is visible
\* before g_shutdown_requested on every path.
RebootHonoured == first = "reboot" => machine # "off"

\* g_child_exited is raised only for a child that really was reaped, by either
\* of its two writers, and a fork clears it before the next child can exit.
ExitedMeansReaped == exited = 1 => child = "none"

(* Liveness *)

\* PID 1 has a child other than child_main, alive or not yet reaped.
HasOtherChild == dbus # "none" \/ bt # "none" \/ others.alive + others.dead > 0

\* Once child_main is dead the loop reaches the next fork or leaves for a
\* shutdown, whichever of the handler and the wait loop reaped it, as long as
\* PID 1 has no other child.
RespawnWhenAlone ==
    (child = "zombie") ~>
        (pc = "fork" \/ shutdown = 1 \/ machine # "on" \/ HasOtherChild)

\* What the comment on supervisor_sigchld and the README say: the race between
\* the handler and waitpid(-1) is closed, a child that crashes is respawned.
RespawnAfterExit ==
    (child = "zombie") ~> (pc = "fork" \/ shutdown = 1 \/ machine # "on")

\* A request for shutdown ends.  With a watchdog always: PID 1 powers off or reboots or,
\* when child_main does not react or PID 1 waits for the wrong process, the watchdog that
\* nobody kicks any more resets the machine.  Without one, SIGTERM that finds the HTTP
\* server listening takes the machine down, through svr.stop(), the exit of child_main and
\* its reaping.
EndsWithWatchdog == (shutdown = 1 /\ watchdog # "none") ~> (machine # "on")
EndsWhileListening ==
    (/\ shutdown = 1 /\ watchdog = "none" /\ ~HasOtherChild
     /\ child = "listening" /\ watcher = "polling" /\ running = 0)
        ~> (machine # "on" \/ HasOtherChild)
RequestEnds == EndsWithWatchdog /\ EndsWhileListening
=============================================================================
