------------------------------ MODULE ABUpdate ------------------------------
(***************************************************************************)
(* The A/B update of Llamaste: install_update and mark_boot_success        *)
(* (updater.cpp), the rollback tool (tools_update.cpp), the rollback logic *)
(* of grub.cfg and the root selection of the initramfs.                    *)
(*                                                                         *)
(* State that survives a power cycle: the two system partitions and the    *)
(* three grubenv variables.  State that does not: the slot the kernel was  *)
(* started from, the boot_success_thread of child_main and the requests    *)
(* that are installing an update; these are separate threads without a     *)
(* lock.  Power may fail between any two steps.                            *)
(*                                                                         *)
(* Rejected update files (bad magic, version, signature, size or SHA-256)  *)
(* change nothing and are no step here; an image that passes may still be  *)
(* one whose child_main does not live for the 5 s after which the code     *)
(* calls a boot successful.                                                *)
(***************************************************************************)
EXTENDS Integers

CONSTANT Ops       \* requests that may install at the same time

Slot == {"A", "B"}

\* inactive_slot(active): anything that is not "A" has "A" as its other slot.
InactiveSlot(active) == IF active = "A" THEN "B" ELSE "A"

\* "empty": no squashfs, as slot B leaves the factory.  "torn": a write that
\* was cut short or mixed with another.  "bad": an authentic image whose
\* child_main does not survive 5 s.
Image == {"empty", "torn", "bad", "good"}

Unset == -1        \* boot_counter absent or empty

VARIABLES
    part,        \* contents of the system partitions
    env,         \* grubenv
    phase,       \* what the machine is doing
    booted,      \* llamaste.slot on the kernel command line
    marker,      \* boot_success_thread of the current child_main
    copy,        \* the variables that thread has read from grubenv
    op,          \* the installing requests
    attempts,    \* boots of the slot on trial since it was armed (history)
    irregular    \* 1: something the protocol does not provide for has happened
                 \* (history): child_main was respawned between a switch and the
                 \* reboot, a request came before the boot was confirmed, or
                 \* power failed between the two save_env of grub.cfg

vars == <<part, env, phase, booted, marker, copy, op, attempts, irregular>>

GrubEnv == [active : Slot, success : {0, 1}, counter : {Unset} \cup 0..3]

NoOp == [st |-> "idle", img |-> "good", clean |-> "yes"]

TypeOK ==
    /\ part \in [Slot -> Image]
    /\ env \in GrubEnv
    /\ phase \in {"off", "grub", "start", "up", "failing", "stuck"}
    /\ booted \in Slot
    /\ marker \in {"none", "sleeping", "read", "ok", "failed"}
    /\ copy \in GrubEnv
    /\ op \in [Ops -> [st : {"idle", "writing", "written"},
                       img : {"bad", "good"}, clean : {"yes", "no"}]]
    /\ attempts \in 0..3
    /\ irregular \in {0, 1}

\* post_image.sh: slot A installed and marked good, slot B without a system.
FactoryEnv == [active |-> "A", success |-> 1, counter |-> Unset]

Init ==
    /\ part = [s \in Slot |-> IF s = "A" THEN "good" ELSE "empty"]
    /\ env = FactoryEnv
    /\ phase = "off"
    /\ booted = "A"
    /\ marker = "none"
    /\ copy = FactoryEnv
    /\ op = [o \in Ops |-> NoOp]
    /\ attempts = 0
    /\ irregular = 0

\* grub.cfg looks at the counter only while the boot is not confirmed.
Armed == env.success = 0 /\ env.counter # Unset

-----------------------------------------------------------------------------
(* grub.cfg *)

\* The chain of ifs in grub.cfg: each line sees what the one before it set.
GrubDecrement(c) ==
    LET c1 == IF c = 3 THEN 2 ELSE c
        c2 == IF c1 = 2 THEN 1 ELSE c1
    IN  IF c2 = 1 THEN 0 ELSE c2

\* Mutant of GrubCount: a counter of 0 is counted down like the others.
GrubCount_NeverSwitches ==
    /\ phase = "off" /\ Armed
    /\ env' = [env EXCEPT !.counter = GrubDecrement(env.counter)]
    /\ phase' = "start" /\ booted' = env.active
    /\ attempts' = IF attempts < 3 THEN attempts + 1 ELSE 3
    /\ UNCHANGED <<part, marker, copy, op, irregular>>

\* boot_counter is 3, 2 or 1: count it down, save it, boot the slot.
GrubCount ==
    /\ phase = "off" /\ Armed /\ env.counter # 0
    /\ env' = [env EXCEPT !.counter = GrubDecrement(env.counter)]
    /\ phase' = "start" /\ booted' = env.active
    /\ attempts' = IF attempts < 3 THEN attempts + 1 ELSE 3
    /\ UNCHANGED <<part, marker, copy, op, irregular>>

\* boot_counter is 0: the other slot becomes active and is saved ...
GrubSwitch ==
    /\ phase = "off" /\ Armed /\ env.counter = 0
    /\ env' = [env EXCEPT !.active = InactiveSlot(env.active)]
    /\ phase' = "grub"
    /\ UNCHANGED <<part, booted, marker, copy, op, attempts, irregular>>

\* ... and then the empty counter is saved and the slot booted.
GrubClear ==
    /\ phase = "grub"
    /\ env' = [env EXCEPT !.counter = Unset]
    /\ phase' = "start" /\ booted' = env.active
    /\ UNCHANGED <<part, marker, copy, op, attempts, irregular>>

\* Mutant of GrubPlain: active_slot is not loaded from grubenv.
GrubPlain_DefaultsToA ==
    /\ phase = "off" /\ ~Armed
    /\ phase' = "start" /\ booted' = "A"
    /\ UNCHANGED <<part, env, marker, copy, op, attempts, irregular>>

\* The last boot was confirmed, or there is no counter.
GrubPlain ==
    /\ phase = "off" /\ ~Armed
    /\ phase' = "start" /\ booted' = env.active
    /\ UNCHANGED <<part, env, marker, copy, op, attempts, irregular>>

Grub == GrubCount \/ GrubSwitch \/ GrubClear \/ GrubPlain

-----------------------------------------------------------------------------
(* initramfs and child_main *)

\* The initramfs mounts the partition of the slot, or drops to a shell.  PID 1
\* of a mounted image starts child_main, which starts boot_success_thread.
Start ==
    /\ phase = "start"
    /\ phase' = CASE part[booted] = "good" -> "up"
                  [] part[booted] = "bad"  -> "failing"
                  [] OTHER                 -> "stuck"
    /\ marker' = IF part[booted] = "good" THEN "sleeping" ELSE "none"
    /\ UNCHANGED <<part, env, booted, copy, op, attempts, irregular>>

\* 5 s later: mark_boot_success reads grubenv ...
MarkRead ==
    /\ phase = "up" /\ marker = "sleeping"
    /\ copy' = env
    /\ marker' = "read"
    /\ UNCHANGED <<part, env, phase, booted, op, attempts, irregular>>

\* ... sets boot_success, erases boot_counter, and writes everything back.
MarkWrite ==
    /\ phase = "up" /\ marker = "read"
    /\ env' = [copy EXCEPT !.success = 1, !.counter = Unset]
    /\ marker' = "ok"
    /\ UNCHANGED <<part, phase, booted, copy, op, attempts, irregular>>

\* No grubenv was found, or it could not be written.
MarkFails ==
    /\ phase = "up" /\ marker \in {"sleeping", "read"}
    /\ marker' = "failed"
    /\ UNCHANGED <<part, env, phase, booted, copy, op, attempts, irregular>>

\* child_main crashes; the supervisor starts it again, with a new thread that
\* sleeps 5 s.  The requests it was serving are gone.
ChildRespawn ==
    /\ phase = "up"
    /\ marker' = "sleeping"
    /\ op' = [o \in Ops |-> NoOp]
    /\ irregular' = IF env.active = booted THEN irregular ELSE 1
    /\ UNCHANGED <<part, env, phase, booted, copy, attempts>>

-----------------------------------------------------------------------------
(* update.install and update.rollback *)

\* Requests are served as soon as the system is up; nobody waits for the boot
\* to be confirmed.
MayOperate ==
    /\ phase = "up"
    /\ irregular' = IF marker = "ok" THEN irregular ELSE 1

\* Mutant of Target: the running slot is taken from grubenv.
Target_FromGrubenv == InactiveSlot(env.active)

\* detect_current_slot reads the kernel command line.
Target == InactiveSlot(booted)

\* The payload is verified; the first chunk reaches the inactive partition.
\* A second writer may spoil the image of the first, and its own.
InstallStart(o) ==
    /\ MayOperate /\ op[o].st = "idle"
    /\ part' = [part EXCEPT ![Target] = "torn"]
    /\ \E img \in {"bad", "good"} :
        op' = [p \in Ops |->
                 IF p = o
                 THEN [st |-> "writing", img |-> img,
                       clean |-> IF \E q \in Ops : op[q].st = "writing"
                                 THEN "no" ELSE "yes"]
                 ELSE [op[p] EXCEPT !.clean = "no"]]
    /\ UNCHANGED <<env, phase, booted, marker, copy, attempts>>

\* write() failed: an error is returned, the partition stays half written.
InstallWriteFails(o) ==
    /\ phase = "up" /\ op[o].st = "writing"
    /\ op' = [op EXCEPT ![o] = NoOp]
    /\ UNCHANGED <<part, env, phase, booted, marker, copy, attempts, irregular>>

\* The last chunk is written and fsync has returned.
InstallWritten(o) ==
    /\ phase = "up" /\ op[o].st = "writing"
    /\ \E img \in {op[o].img} \cup (IF op[o].clean = "yes" THEN {} ELSE {"torn"}) :
        part' = [part EXCEPT ![Target] = img]
    /\ op' = [op EXCEPT ![o].st = "written"]
    /\ UNCHANGED <<env, phase, booted, marker, copy, attempts, irregular>>

\* Mutant of TrialEnv: boot_success keeps its old value.
TrialEnv_KeepsSuccess(slot) ==
    [active |-> slot, success |-> env.success, counter |-> 3]

\* Mutant of TrialEnv: a counter that grub.cfg has no line for.
TrialEnv_Four(slot) == [active |-> slot, success |-> 0, counter |-> 4]

\* The triple that puts a slot on trial.
TrialEnv(slot) == [active |-> slot, success |-> 0, counter |-> 3]

\* grubenv is replaced (temporary file, fsync, rename) and success reported.
InstallSwitch(o) ==
    /\ phase = "up" /\ op[o].st = "written"
    /\ env' = TrialEnv(Target)
    /\ attempts' = 0
    /\ op' = [op EXCEPT ![o] = NoOp]
    /\ UNCHANGED <<part, phase, booted, marker, copy, irregular>>

\* grubenv was not found or not written: the result is not looked at, and
\* success is reported all the same.
InstallSwitchFails(o) ==
    /\ phase = "up" /\ op[o].st = "written"
    /\ op' = [op EXCEPT ![o] = NoOp]
    /\ UNCHANGED <<part, env, phase, booted, marker, copy, attempts, irregular>>

\* handle_update_rollback: the other slot is put on trial, whatever it holds.
\* When grubenv cannot be written an error is returned and nothing changes.
Rollback ==
    /\ MayOperate
    /\ env' = TrialEnv(Target)
    /\ attempts' = 0
    /\ UNCHANGED <<part, phase, booted, marker, copy, op>>

Install(o) ==
    \/ InstallStart(o) \/ InstallWriteFails(o) \/ InstallWritten(o)
    \/ InstallSwitch(o) \/ InstallSwitchFails(o)

-----------------------------------------------------------------------------
(* Power *)

\* A reboot, a kernel panic (panic=30), the watchdog, or the power button.
PowerCycle ==
    /\ phase # "off"
    /\ phase' = "off"
    /\ marker' = "none"
    /\ op' = [o \in Ops |-> NoOp]
    /\ irregular' = IF phase = "grub" THEN 1 ELSE irregular
    /\ UNCHANGED <<part, env, booted, copy, attempts>>

Next ==
    \/ Grub
    \/ Start \/ MarkRead \/ MarkWrite \/ MarkFails \/ ChildRespawn
    \/ \E o \in Ops : Install(o)
    \/ Rollback
    \/ PowerCycle

Spec == Init /\ [][Next]_vars

\* A started machine boots; somebody switches a machine that does not come up
\* off and on again (a kernel panic does it by itself after 30 s).  Nothing
\* obliges a machine that is up to be rebooted.
Fairness ==
    /\ WF_vars(Grub)
    /\ WF_vars(Start)
    /\ WF_vars(phase \in {"failing", "stuck"} /\ PowerCycle)

FairSpec == Spec /\ Fairness

-----------------------------------------------------------------------------
(* Properties *)

\* However installs, crashes, respawns and power failures fall together, one
\* of the two partitions holds a system that works: an install never touches
\* the slot the machine runs from, even when grubenv already names the other.
SomeGoodSlot == \E s \in Slot : part[s] = "good"

\* A slot that will not come up is only ever started on trial, so that the
\* next boot counts against it, as long as nothing irregular has happened.
BadBootIsTrial ==
    (/\ irregular = 0 /\ phase \in {"start", "failing", "stuck"}
     /\ part[booted] # "good") => Armed

\* A boot is confirmed, by the read and the write of mark_boot_success, only
\* for the slot that was booted - with the same proviso.
MarkConfirmsBooted ==
    [][(irregular = 0 /\ env.success = 0 /\ env'.success = 1)
        => env'.active = booted]_vars

\* A machine that did not come up starts a working slot eventually - with the
\* same proviso.
BadSlotAbandoned ==
    (phase \in {"failing", "stuck"})
        ~> (irregular = 1 \/ (phase = "start" /\ part[booted] = "good"))

\* The design's promise: GRUB gives a slot three boots before it switches.
ThreeAttempts ==
    [][(irregular = 0 /\ phase = "off" /\ env'.active # env.active)
        => attempts >= 3]_vars
=============================================================================
