-------------------------- MODULE SupervisorProofs --------------------------
(***************************************************************************)
(* Theorems about Supervisor, for every value of its constants.            *)
(***************************************************************************)
EXTENDS Supervisor, TLAPS

\* Every variable keeps its type: in particular crash_count never exceeds the
\* limit of rapid crashes and the restart counters never exceed theirs.
THEOREM TypeCorrect == Spec => []TypeOK
<1>1. Init => TypeOK
  BY ConstantsAssumption DEF Init, TypeOK, MainPC, ChildPhase
<1>2. TypeOK /\ [Next]_vars => TypeOK'
  <2> SUFFICES ASSUME TypeOK, [Next]_vars PROVE TypeOK'
    OBVIOUS
  <2> USE ConstantsAssumption DEF TypeOK
  <2>1. CASE Main
    <3>1. CASE Top
      BY <3>1 DEF Top, MainPC, flagVars, childVars, daemonVars
    <3>2. CASE Fork \/ ForkFails
      BY <3>2 DEF Fork, ForkFails, MainPC, ChildPhase, flagVars, childVars, daemonVars
    <3>3. CASE PublishPid \/ CheckExited
      BY <3>3 DEF PublishPid, CheckExited, MainPC, flagVars, childVars, daemonVars
    <3>4. CASE WaitChild \/ WaitFails
      BY <3>4 DEF WaitChild, WaitFails, MainPC, ChildPhase, flagVars, childVars, daemonVars
    <3>5. CASE WaitDbus
      BY <3>5 DEF WaitDbus, Counted, MainPC, flagVars, childVars
    <3>6. CASE WaitBluetoothd
      BY <3>6 DEF WaitBluetoothd, Counted, MainPC, flagVars, childVars
    <3>7. CASE WaitOther
      BY <3>7 DEF WaitOther, MainPC, flagVars, childVars
    <3>8. CASE After
      <4>1. \A n \in 0..(CrashLimit + 1) : CountAfterPause(n) \in 0..CrashLimit
        BY DEF CountAfterPause
      <4>2. \A rapid \in BOOLEAN : CrashesNow(rapid) \in 1..(CrashLimit + 1)
        BY DEF CrashesNow
      <4>3. crashCount' \in 0..CrashLimit
        BY <3>8, <4>1, <4>2 DEF After
      <4>4. QED
        BY <3>8, <4>3 DEF After, MainPC, flagVars, childVars, daemonVars
    <3>9. CASE PauseEnds \/ FinalKill
      BY <3>9 DEF PauseEnds, FinalKill, KillChild, MainPC, flagVars, childVars, daemonVars
    <3>10. CASE FinalReap \/ CloseAndUnmount
      BY <3>10 DEF FinalReap, CloseAndUnmount, MachineStops, MainPC, ChildPhase, flagVars, childVars, daemonVars
    <3>11. QED
      BY <2>1, <3>1, <3>2, <3>3, <3>4, <3>5, <3>6, <3>7, <3>8, <3>9, <3>10 DEF Main
  <2>2. CASE SigchldHandler
    BY <2>2 DEF SigchldHandler, ChildPhase, mainVars, flagVars, daemonVars
  <2>3. CASE SigTerm \/ SigUsr1
    BY <2>3 DEF SigTerm, SigUsr1, Request, KillChild, mainVars, daemonVars
  <2>4. CASE ConsoleYes \/ ConsoleStep
    BY <2>4 DEF ConsoleYes, ConsoleStep, ConsoleSetReboot, ConsoleSetShutdown, ConsoleKill,
                Request, KillChild, mainVars, flagVars, childVars, daemonVars
  <2>5. CASE ChildStep \/ WatcherStops \/ ChildCrashes
    BY <2>5 DEF ChildStep, ChildInstallHandlers, ChildStartWatcher, ChildListen, ChildExits,
                WatcherStops, ChildCrashes, Dies, ChildPhase, mainVars, flagVars, daemonVars
  <2>6. CASE DbusExits \/ BluetoothdExits
    BY <2>6 DEF DbusExits, BluetoothdExits, mainVars, flagVars, childVars
  <2>7. CASE OtherExits
    BY <2>7 DEF OtherExits, mainVars, flagVars, childVars
  <2>8. CASE KickerEnds \/ WatchdogFires
    BY <2>8 DEF KickerEnds, WatchdogFires, MachineStops, ChildPhase, mainVars, flagVars, childVars, daemonVars
  <2>9. CASE UNCHANGED vars
    BY <2>9 DEF vars, mainVars, flagVars, childVars, daemonVars
  <2>10. QED
    BY <2>1, <2>2, <2>3, <2>4, <2>5, <2>6, <2>7, <2>8, <2>9 DEF Next
<1>3. QED
  BY <1>1, <1>2, PTL DEF Spec

-----------------------------------------------------------------------------
(* The strengthening behind the safety theorem.  The main thread is between
   fork() and the end of the wait loop, or there is no child_main at all; the
   machine has stopped only at the last line of supervisor_run; and the reboot
   flag is raised before anybody can act on the request. *)

MayHaveChild == {"publish", "check", "wait"}

ReapedOutsideWait == pc \in MainPC \ MayHaveChild => child = "none"
StoppedAtHalt     == machine \in {"off", "rebooting"} => pc = "halt"
RebootFlagFirst   == (first = "reboot" \/ console = "flagReboot") => reboot = 1
StopMatchesFlag   == machine = "off" => reboot = 0

SafetyInv ==
    /\ TypeOK
    /\ ReapedOutsideWait
    /\ ExitedMeansReaped
    /\ StoppedAtHalt
    /\ RebootFlagFirst
    /\ StopMatchesFlag

\* SafetyInv is inductive: one case per group of actions of one actor.
LEMMA SafetyInductive == Spec => []SafetyInv
<1> USE DEF ReapedOutsideWait, ExitedMeansReaped, StoppedAtHalt,
            RebootFlagFirst, StopMatchesFlag, MayHaveChild, MainPC
<1>1. Init => SafetyInv
  <2>1. Init => TypeOK
    BY ConstantsAssumption DEF Init, TypeOK, MainPC, ChildPhase
  <2>2. QED
    BY <2>1 DEF Init, SafetyInv
<1>2. SafetyInv /\ TypeOK' /\ [Next]_vars => SafetyInv'
  <2> SUFFICES ASSUME SafetyInv, TypeOK', [Next]_vars PROVE SafetyInv'
    OBVIOUS
  <2> USE DEF SafetyInv
  <2>1. CASE Main
    <3>1. CASE Top \/ CheckExited \/ PauseEnds
      BY <3>1 DEF Top, CheckExited, PauseEnds, flagVars, childVars
    <3>2. CASE Fork \/ ForkFails \/ PublishPid
      BY <3>2 DEF Fork, ForkFails, PublishPid, flagVars, childVars
    <3>3. CASE WaitChild \/ WaitFails
      BY <3>3 DEF WaitChild, WaitFails, flagVars, childVars
    <3>4. CASE WaitDbus \/ WaitBluetoothd \/ WaitOther
      BY <3>4 DEF WaitDbus, WaitBluetoothd, WaitOther, flagVars, childVars
    <3>5. CASE After
      BY <3>5 DEF After, flagVars, childVars
    <3>6. CASE FinalKill \/ FinalReap
      BY <3>6 DEF FinalKill, FinalReap, flagVars, childVars
    <3>7. CASE CloseAndUnmount
      BY <3>7 DEF CloseAndUnmount, MachineStops, TypeOK, flagVars, childVars
    <3>8. QED
      BY <2>1, <3>1, <3>2, <3>3, <3>4, <3>5, <3>6, <3>7 DEF Main
  <2>2. CASE SigchldHandler
    BY <2>2 DEF SigchldHandler, mainVars, flagVars
  <2>3. CASE SigTerm \/ SigUsr1
    BY <2>3 DEF SigTerm, SigUsr1, Request, mainVars
  <2>4. CASE ConsoleYes \/ ConsoleStep
    BY <2>4 DEF ConsoleYes, ConsoleStep, ConsoleSetReboot, ConsoleSetShutdown,
                ConsoleKill, Request, mainVars, flagVars, childVars
  <2>5. CASE ChildStep \/ WatcherStops \/ ChildCrashes
    BY <2>5 DEF ChildStep, ChildInstallHandlers, ChildStartWatcher, ChildListen,
                ChildExits, WatcherStops, ChildCrashes, Dies, Serving, Alive,
                ChildPhase, mainVars, flagVars, TypeOK
  <2>6. CASE DbusExits \/ BluetoothdExits \/ OtherExits
    BY <2>6 DEF DbusExits, BluetoothdExits, OtherExits, mainVars, flagVars, childVars
  <2>7. CASE KickerEnds \/ WatchdogFires
    BY <2>7 DEF KickerEnds, WatchdogFires, MachineStops, mainVars, flagVars, childVars
  <2>8. CASE UNCHANGED vars
    BY <2>8 DEF vars, mainVars, flagVars, childVars
  <2>9. QED
    BY <2>1, <2>2, <2>3, <2>4, <2>5, <2>6, <2>7, <2>8 DEF Next
<1>3. QED
  BY <1>1, <1>2, TypeCorrect, PTL DEF Spec

\* No second child_main is forked before the first is reaped, whatever the
\* signal handler, the console and the daemons do in between.
THEOREM OneChildAlways == Spec => []OneChild
<1>1. SafetyInv => OneChild
  BY DEF SafetyInv, ReapedOutsideWait, OneChild, MayHaveChild, MainPC
<1>2. QED
  BY <1>1, SafetyInductive, PTL

\* g_child_exited never survives into the life of the next child.
THEOREM ExitedAlwaysReaped == Spec => []ExitedMeansReaped
<1>1. SafetyInv => ExitedMeansReaped
  BY DEF SafetyInv
<1>2. QED
  BY <1>1, SafetyInductive, PTL

\* /data is unmounted and reboot(2) called only with child_main gone.
THEOREM HaltIsQuiescent == Spec => []QuiescentHalt
<1>1. SafetyInv => QuiescentHalt
  BY DEF SafetyInv, ReapedOutsideWait, StoppedAtHalt, QuiescentHalt, MayHaveChild, MainPC
<1>2. QED
  BY <1>1, SafetyInductive, PTL

\* A shutdown that began as a reboot never ends as a power-off.
THEOREM RebootAlwaysHonoured == Spec => []RebootHonoured
<1>1. SafetyInv => RebootHonoured
  BY DEF SafetyInv, RebootFlagFirst, StopMatchesFlag, RebootHonoured
<1>2. QED
  BY <1>1, SafetyInductive, PTL
=============================================================================
