--------------------------- MODULE ABUpdateProofs ---------------------------
(***************************************************************************)
(* Theorems about ABUpdate, for any set of concurrent requests.            *)
(***************************************************************************)
EXTENDS ABUpdate, TLAPS

\* The slot arithmetic: two slots, each the other of the other.
LEMMA OtherSlot ==
    \A s \in Slot : /\ InactiveSlot(s) \in Slot
                    /\ InactiveSlot(s) # s
                    /\ InactiveSlot(InactiveSlot(s)) = s
  BY DEF Slot, InactiveSlot

\* The if chain of grub.cfg keeps the counter in range.
LEMMA DecrementType == \A c \in 0..3 : GrubDecrement(c) \in 0..3
  BY DEF GrubDecrement

\* Every variable keeps its type.
THEOREM TypeCorrect == Spec => []TypeOK
<1> USE DEF TypeOK
<1>1. Init => TypeOK
  BY DEF Init, Slot, Image, GrubEnv, FactoryEnv, NoOp, Unset
<1>2. TypeOK /\ [Next]_vars => TypeOK'
  <2> SUFFICES ASSUME TypeOK, [Next]_vars PROVE TypeOK'
    OBVIOUS
  <2>1. CASE GrubCount
    <3>1. env.counter \in 0..3
      BY <2>1 DEF GrubCount, Armed, GrubEnv
    <3>2. env' \in GrubEnv
      BY <2>1, <3>1, DecrementType DEF GrubCount, GrubEnv
    <3>3. QED
      BY <2>1, <3>2 DEF GrubCount, GrubEnv
  <2>2. CASE GrubSwitch
    BY <2>2, OtherSlot DEF GrubSwitch, GrubEnv
  <2>3. CASE GrubClear
    BY <2>3 DEF GrubClear, GrubEnv
  <2>4. CASE GrubPlain
    BY <2>4 DEF GrubPlain, GrubEnv
  <2>5. CASE Start
    BY <2>5 DEF Start
  <2>6. CASE MarkRead \/ MarkWrite \/ MarkFails
    BY <2>6 DEF MarkRead, MarkWrite, MarkFails, GrubEnv
  <2>7. CASE ChildRespawn \/ PowerCycle
    BY <2>7 DEF ChildRespawn, PowerCycle, NoOp
  <2>8. ASSUME NEW o \in Ops, Install(o) PROVE TypeOK'
    <3>1. Target \in Slot
      BY OtherSlot DEF Target
    <3>2. CASE InstallStart(o)
      <4>1. part' \in [Slot -> Image]
        BY <3>1, <3>2 DEF InstallStart, Image
      <4>2. op' \in [Ops -> [st : {"idle", "writing", "written"},
                             img : {"bad", "good"}, clean : {"yes", "no"}]]
        BY <3>2 DEF InstallStart
      <4>3. QED
        BY <3>2, <4>1, <4>2 DEF InstallStart, MayOperate
    <3>3. CASE InstallWriteFails(o)
      BY <3>3 DEF InstallWriteFails, NoOp
    <3>4. CASE InstallWritten(o)
      <4>1. PICK img \in {"bad", "good", "torn"} : part' = [part EXCEPT ![Target] = img]
        BY <3>4 DEF InstallWritten
      <4>2. part' \in [Slot -> Image]
        BY <3>1, <4>1 DEF Image
      <4>3. QED
        BY <3>4, <4>2 DEF InstallWritten
    <3>5. CASE InstallSwitch(o)
      BY <3>1, <3>5 DEF InstallSwitch, TrialEnv, GrubEnv, NoOp
    <3>6. CASE InstallSwitchFails(o)
      BY <3>1, <3>6 DEF InstallSwitchFails, NoOp
    <3>7. QED
      BY <2>8, <3>2, <3>3, <3>4, <3>5, <3>6 DEF Install
  <2>9. CASE Rollback
    BY <2>9, OtherSlot DEF Rollback, MayOperate, Target, TrialEnv, GrubEnv
  <2>10. CASE UNCHANGED vars
    BY <2>10 DEF vars
  <2>11. QED
    BY <2>1, <2>2, <2>3, <2>4, <2>5, <2>6, <2>7, <2>8, <2>9, <2>10 DEF Next, Grub
<1>3. QED
  BY <1>1, <1>2, PTL DEF Spec

-----------------------------------------------------------------------------
(* A working slot survives everything.  The strengthening: the slot a system
   is up on works, and only a system that is up writes to a partition - to the
   other one. *)

UpIsGood == phase = "up" => part[booted] = "good"

SlotInv == TypeOK /\ SomeGoodSlot /\ UpIsGood

\* Whatever crashes, respawns, concurrent installs and power failures do, one
\* partition holds a working system.
THEOREM GoodSlotSurvives == Spec => []SomeGoodSlot
<1> USE DEF SomeGoodSlot, UpIsGood
<1>1. Init => SlotInv
  <2>1. Init => TypeOK
    BY DEF Init, TypeOK, Slot, Image, GrubEnv, FactoryEnv, NoOp, Unset
  <2>2. Init => part["A"] = "good" /\ phase # "up"
    BY DEF Init, Slot
  <2>3. QED
    BY <2>1, <2>2 DEF SlotInv, Slot
<1>2. SlotInv /\ TypeOK' /\ [Next]_vars => SlotInv'
  <2> SUFFICES ASSUME SlotInv, TypeOK', [Next]_vars PROVE SlotInv'
    OBVIOUS
  <2> USE DEF SlotInv
  <2>1. CASE Grub
    BY <2>1 DEF Grub, GrubCount, GrubSwitch, GrubClear, GrubPlain
  <2>2. CASE Start
    BY <2>2 DEF Start
  <2>3. CASE MarkRead \/ MarkWrite \/ MarkFails \/ ChildRespawn \/ Rollback
    BY <2>3 DEF MarkRead, MarkWrite, MarkFails, ChildRespawn, Rollback
  <2>4. ASSUME NEW o \in Ops, Install(o) PROVE SlotInv'
    <3>1. phase = "up" /\ phase' = phase /\ booted' = booted
      BY <2>4 DEF Install, InstallStart, InstallWriteFails, InstallWritten,
                  InstallSwitch, InstallSwitchFails, MayOperate
    <3>2. part' = part \/ \E img : part' = [part EXCEPT ![Target] = img]
      BY <2>4 DEF Install, InstallStart, InstallWriteFails, InstallWritten,
                  InstallSwitch, InstallSwitchFails
    <3>3. booted \in Slot /\ Target # booted
      BY OtherSlot DEF TypeOK, Target
    <3>4. part'[booted] = "good"
      BY <3>1, <3>2, <3>3 DEF TypeOK
    <3>5. QED
      BY <3>1, <3>3, <3>4
  <2>5. CASE PowerCycle
    BY <2>5 DEF PowerCycle
  <2>6. CASE UNCHANGED vars
    BY <2>6 DEF vars
  <2>7. QED
    BY <2>1, <2>2, <2>3, <2>4, <2>5, <2>6 DEF Next
<1>3. SlotInv => SomeGoodSlot
  BY DEF SlotInv
<1>4. QED
  BY <1>1, <1>2, <1>3, TypeCorrect, PTL DEF Spec

-----------------------------------------------------------------------------
(* The trial protocol, as long as nothing irregular has happened.  A slot named
   by grubenv either works or is on trial; the other slot of one on trial
   works; and grubenv differs from the running slot only after a request. *)

ActiveGoodOrTrial == phase # "grub" => (part[env.active] = "good" \/ Armed)
TrialHasFallback  == (phase # "grub" /\ Armed) => part[InactiveSlot(env.active)] = "good"
SwitchedToGood    == phase = "grub" => part[env.active] = "good"
BootedIsActive    == phase \in {"start", "failing", "stuck"} => env.active = booted
UnconfirmedIdle   == phase = "up" /\ marker # "ok" =>
                        env.active = booted /\ \A o \in Ops : op[o].st = "idle"
ConfirmedEnv      == phase = "up" /\ marker = "ok" =>
                        \/ env.active = booted /\ ~Armed
                        \/ env.active = InactiveSlot(booted) /\ Armed
CopyIsFresh       == phase = "up" /\ marker = "read" => copy = env
IdleUnlessUp      == phase # "up" => \A o \in Ops : op[o].st = "idle"

Protocol ==
    /\ UpIsGood /\ ActiveGoodOrTrial /\ TrialHasFallback
    /\ SwitchedToGood /\ BootedIsActive /\ UnconfirmedIdle /\ ConfirmedEnv
    /\ CopyIsFresh /\ IdleUnlessUp

TrialInv == TypeOK /\ (irregular = 0 => Protocol)

\* The trial protocol's invariant is inductive.
LEMMA TrialInductive == Spec => []TrialInv
<1> USE DEF UpIsGood, ActiveGoodOrTrial, TrialHasFallback, SwitchedToGood,
            BootedIsActive, UnconfirmedIdle, ConfirmedEnv, CopyIsFresh, IdleUnlessUp
<1>1. Init => TrialInv
  <2>1. Init => TypeOK
    BY DEF Init, TypeOK, Slot, Image, GrubEnv, FactoryEnv, NoOp, Unset
  <2>2. QED
    BY <2>1 DEF Init, TrialInv, Protocol, Slot, FactoryEnv, NoOp, Armed, Unset
<1>2. TrialInv /\ TypeOK' /\ [Next]_vars => TrialInv'
  <2> SUFFICES ASSUME TypeOK, irregular = 0 => Protocol, TypeOK', [Next]_vars,
                      irregular' = 0
               PROVE  Protocol'
    BY DEF TrialInv
  <2>0. irregular = 0 /\ Protocol
    BY DEF Next, Grub, GrubCount, GrubSwitch, GrubClear, GrubPlain, Start, MarkRead,
           MarkWrite, MarkFails, ChildRespawn, Install, InstallStart, InstallWriteFails,
           InstallWritten, InstallSwitch, InstallSwitchFails, Rollback, MayOperate,
           PowerCycle, vars, TypeOK
  <2> USE <2>0 DEF Protocol
  <2>1. CASE GrubCount
    <3>1. env.counter \in 1..3
      BY <2>1 DEF GrubCount, Armed, TypeOK, GrubEnv
    <3>2. GrubDecrement(env.counter) \in 0..3
      BY <3>1, DecrementType
    <3>3. env'.active = env.active /\ env'.success = 0 /\ env'.counter # Unset
      BY <2>1, <3>2 DEF GrubCount, Armed, TypeOK, GrubEnv, Unset
    <3>4. QED
      BY <2>1, <3>3 DEF GrubCount, Armed
  <2>2. CASE GrubSwitch
    BY <2>2 DEF GrubSwitch, TypeOK, GrubEnv
  <2>3. CASE GrubClear
    BY <2>3 DEF GrubClear, TypeOK, GrubEnv, Armed
  <2>4. CASE GrubPlain
    BY <2>4 DEF GrubPlain, Armed
  <2>5. CASE Start
    BY <2>5 DEF Start, Armed
  <2>6. CASE MarkRead \/ MarkFails
    BY <2>6 DEF MarkRead, MarkFails, Armed
  <2>7. CASE MarkWrite
    <3>1. env'.active = booted /\ env'.success = 1
      BY <2>7 DEF MarkWrite, TypeOK, GrubEnv
    <3>2. QED
      BY <2>7, <3>1 DEF MarkWrite, Armed
  <2>8. CASE ChildRespawn
    BY <2>8 DEF ChildRespawn, NoOp, Armed
  <2>9. ASSUME NEW o \in Ops, Install(o) PROVE Protocol'
    <3>1. booted \in Slot /\ Target \in Slot /\ Target # booted
          /\ InactiveSlot(Target) = booted
      BY OtherSlot DEF TypeOK, Target
    <3>2. phase = "up" /\ marker = "ok"
      BY <2>9 DEF Install, InstallStart, InstallWriteFails, InstallWritten,
                  InstallSwitch, InstallSwitchFails, MayOperate
    <3>3. phase' = phase /\ booted' = booted /\ marker' = marker
      BY <2>9 DEF Install, InstallStart, InstallWriteFails, InstallWritten,
                  InstallSwitch, InstallSwitchFails
    <3>4. part'[booted] = "good"
      <4>1. part' = part \/ \E img : part' = [part EXCEPT ![Target] = img]
        BY <2>9 DEF Install, InstallStart, InstallWriteFails, InstallWritten,
                    InstallSwitch, InstallSwitchFails
      <4>2. QED
        BY <3>1, <3>2, <4>1 DEF TypeOK
    <3>5. env' = env \/ env' = TrialEnv(Target)
      BY <2>9 DEF Install, InstallStart, InstallWriteFails, InstallWritten,
                  InstallSwitch, InstallSwitchFails
    <3>6. \/ env'.active = booted /\ ~Armed'
          \/ env'.active = InactiveSlot(booted) /\ Armed'
      BY <3>2, <3>5 DEF TrialEnv, Target, Armed, Unset
    <3>7. QED
      BY <3>1, <3>2, <3>3, <3>4, <3>6 DEF Target
  <2>10. CASE Rollback
    <3>1. booted \in Slot /\ Target # booted /\ InactiveSlot(Target) = booted
      BY OtherSlot DEF TypeOK, Target
    <3>2. phase = "up" /\ marker = "ok"
      BY <2>10 DEF Rollback, MayOperate
    <3>3. env'.active = Target /\ Armed'
      BY <2>10 DEF Rollback, TrialEnv, Armed, Unset
    <3>4. QED
      BY <2>10, <3>1, <3>2, <3>3 DEF Rollback, Target
  <2>11. CASE PowerCycle
    BY <2>11 DEF PowerCycle, NoOp, Armed
  <2>12. CASE UNCHANGED vars
    BY <2>12 DEF vars, Armed
  <2>13. QED
    BY <2>1, <2>2, <2>3, <2>4, <2>5, <2>6, <2>7, <2>8, <2>9, <2>10, <2>11, <2>12
       DEF Next, Grub
<1>3. QED
  BY <1>1, <1>2, TypeCorrect, PTL DEF Spec

\* A slot that does not come up was started on trial, so GRUB's next boots lead
\* away from it, until something irregular happens.
THEOREM BadBootAlwaysTrial == Spec => []BadBootIsTrial
<1>1. TrialInv => BadBootIsTrial
  BY DEF TrialInv, Protocol, ActiveGoodOrTrial, BootedIsActive, BadBootIsTrial
<1>2. QED
  BY <1>1, TrialInductive, PTL

\* boot_success is only ever raised for the slot that is running, until
\* something irregular happens: mark_boot_success is the only writer of 1, and
\* what it read 5 s after the boot is still what grubenv holds.
THEOREM MarkAlwaysBooted == Spec => MarkConfirmsBooted
<1>1. ASSUME TrialInv, [Next]_vars, irregular = 0, env.success = 0, env'.success = 1
      PROVE  env'.active = booted
  <2>1. MarkWrite
    BY <1>1 DEF Next, Grub, GrubCount, GrubSwitch, GrubClear, GrubPlain, Start, MarkRead,
           MarkFails, ChildRespawn, Install, InstallStart, InstallWriteFails,
           InstallWritten, InstallSwitch, InstallSwitchFails, TrialEnv, Rollback,
           PowerCycle, vars, TrialInv, TypeOK, GrubEnv
  <2>2. phase = "up" /\ marker = "read" /\ env'.active = copy.active
    BY <2>1 DEF MarkWrite, TrialInv, TypeOK, GrubEnv
  <2>3. QED
    BY <1>1, <2>2 DEF TrialInv, Protocol, UnconfirmedIdle, CopyIsFresh
<1>2. TrialInv /\ [Next]_vars => [(irregular = 0 /\ env.success = 0 /\ env'.success = 1)
                                     => env'.active = booted]_vars
  BY <1>1
<1>3. QED
  BY <1>2, TrialInductive, PTL DEF Spec, MarkConfirmsBooted
=============================================================================
