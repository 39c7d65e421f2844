-------------------------- MODULE SchedulerProofs --------------------------
(***************************************************************************)
(* Proofs of the safety properties of Scheduler, for any set of ids, any   *)
(* schedules and any number of requests and crashes.                       *)
(***************************************************************************)
EXTENDS Scheduler, WellFoundedInduction, TLAPS

\* The search for the next match returns a time, and a later one or none.
LEMMA NextCronType == \A t \in Nat : NextCron(t) \in Nat
<1> USE ConstantsAssumption
<1> SUFFICES ASSUME NEW t \in Nat PROVE NextCron(t) \in Nat
  OBVIOUS
<1>1. CASE ~ \E m \in CronTimes : m > t
  BY <1>1 DEF NextCron
<1>2. CASE \E m \in CronTimes : m > t
  <2> DEFINE Later == {m \in CronTimes : m > t}
             Less == OpToRel(<, Nat)
  <2>1. Later \subseteq Nat /\ Later # {}
    BY <1>2
  <2>2. IsWellFoundedOn(Less, Nat)
    BY NatLessThanWellFounded, Zenon
  <2>3. \E m \in Later : \A k \in Later : ~ (<<k, m>> \in Less)
    <3> HIDE DEF Later, Less
    <3> QED BY <2>1, <2>2, WFMin
  <2>4. PICK m \in Later : \A k \in Later : ~ (<<k, m>> \in Less)
    BY <2>3
  <2>5. \A k \in Later : m <= k
    <3> SUFFICES ASSUME NEW k \in Later PROVE m <= k
      OBVIOUS
    <3>1. ~ (k < m)
      BY <2>1, <2>4, Zenon DEF OpToRel
    <3> QED
      BY <3>1, <2>1
  <2> QED
    BY <2>5, <1>2 DEF NextCron
<1> QED
  BY <1>1, <1>2

\* The values that the three places give next_run are times.
LEMMA NextType ==
  ASSUME now \in Nat
  PROVE  /\ \A cron \in {0, 1}, at, every \in Nat : NextRun(cron, at, every) \in Nat
         /\ \A t \in Fields : NextLoaded(t) \in Nat /\ NextSettled(t) \in Nat
         /\ \A t \in Fields : Settled(t) \in Fields
  BY NextCronType DEF NextRun, NextLoaded, NextSettled, Settled, Fields

-----------------------------------------------------------------------------
(* Type correctness *)

USE DEF clock, memory, file, thread, history, vars

LEMMA TypeInit == Init => TypeOK
  BY DEF Init, TypeOK, NoFields, Fields

LEMMA TypeNext == TypeOK /\ [Next]_vars => TypeOK'
<1> SUFFICES ASSUME TypeOK, [Next]_vars PROVE TypeOK'
  OBVIOUS
<1> USE DEF TypeOK
<1>1. ASSUME NEW i \in Ids, CreateTask(i) PROVE TypeOK'
  <2>1. PICK cron \in {0, 1}, at \in Ats \cup {0}, every \in Periods \cup {0},
             once \in {0, 1}, enabled \in {0, 1} :
          task' = [task EXCEPT ![i] =
                      [cron |-> cron, at |-> at, every |-> every, once |-> once,
                       enabled |-> enabled, last |-> 0,
                       next |-> NextRun(cron, at, every)]]
    BY ZenonT(40), <1>1 DEF CreateTask
  <2>2. NextRun(cron, at, every) \in Nat
    BY NextType, ConstantsAssumption
  <2>3. task' \in [Ids -> Fields]
    BY <2>1, <2>2, ConstantsAssumption DEF Fields
  <2> QED
    BY <1>1, <2>3 DEF CreateTask, Edit, Save
<1>2. ASSUME NEW i \in Ids, UpdateTask(i) PROVE TypeOK'
  <2>1. PICK once \in {0, 1}, enabled \in {0, 1} :
        \/ task' = [task EXCEPT ![i] =
                      [cron |-> task[i].cron, at |-> task[i].at,
                       every |-> task[i].every, once |-> once,
                       enabled |-> enabled, last |-> task[i].last,
                       next |-> task[i].next]]
        \/ \E cron \in {0, 1}, at \in Ats \cup {0}, every \in Periods \cup {0} :
             task' = [task EXCEPT ![i] =
                        [cron |-> cron, at |-> at, every |-> every, once |-> once,
                         enabled |-> enabled, last |-> task[i].last,
                         next |-> NextRun(cron, at, every)]]
    BY <1>2 DEF UpdateTask
  <2>2. \A cron \in {0, 1}, at \in Ats \cup {0}, every \in Periods \cup {0} :
          NextRun(cron, at, every) \in Nat
    BY NextType, ConstantsAssumption
  <2>3. task' \in [Ids -> Fields]
    BY <2>1, <2>2, ConstantsAssumption DEF Fields
  <2> QED
    BY <1>2, <2>3 DEF UpdateTask, Edit, Save
<1>3. ASSUME NEW i \in Ids, DeleteTask(i) PROVE TypeOK'
  BY <1>3 DEF DeleteTask, Edit, Save
<1>4. CASE Collect
  BY <1>4 DEF Collect
<1>5. ASSUME NEW i \in Ids, FireTask(i) PROVE TypeOK'
  BY <1>5 DEF FireTask
<1>6. CASE SettleTasks
  <2>1. task' \in [Ids -> Fields]
    BY <1>6, NextType DEF SettleTasks
  <2>2. dlive' \in SUBSET Ids /\ dtask' \in [Ids -> Fields] /\ torn' \in {0, 1}
    BY <1>6, <2>1 DEF SettleTasks, Save
  <2> QED
    BY <1>6, <2>1, <2>2 DEF SettleTasks, Finished
<1>7. CASE Tick
  BY <1>7 DEF Tick
<1>8. CASE Crash
  <2>1. task' \in [Ids -> Fields]
    BY <1>8, NextType DEF Crash, Fields
  <2> QED
    BY <1>8, <2>1 DEF Crash
<1>9. CASE UNCHANGED vars
  BY <1>9
<1> QED
  BY <1>1, <1>2, <1>3, <1>4, <1>5, <1>6, <1>7, <1>8, <1>9 DEF Next, Thread

\* The type invariant: what the thread has still to fire is part of what it
\* collected, it holds a snapshot only while it fires, and every next_run is a
\* time.
THEOREM TypeCorrect == Spec => []TypeOK
  BY TypeInit, TypeNext, PTL DEF Spec

-----------------------------------------------------------------------------
(* A removed task never comes back *)

\* No save has been lost: neither memory nor the file holds a removed task.
GoneInv == torn = 0 => live \cap gone = {} /\ dlive \cap gone = {}

LEMMA GoneNext == TypeOK /\ GoneInv /\ [Next]_vars => GoneInv'
<1> SUFFICES ASSUME TypeOK, GoneInv, [Next]_vars, torn' = 0
             PROVE  live' \cap gone' = {} /\ dlive' \cap gone' = {}
  BY DEF GoneInv
<1> USE DEF GoneInv
<1>0. torn \in {0, 1}
  BY DEF TypeOK
<1>1. ASSUME NEW i \in Ids, CreateTask(i) PROVE live' \cap gone' = {} /\ dlive' \cap gone' = {}
  BY <1>1 DEF CreateTask, Save
<1>2. ASSUME NEW i \in Ids, UpdateTask(i) PROVE live' \cap gone' = {} /\ dlive' \cap gone' = {}
  BY <1>2 DEF UpdateTask, Save
<1>3. ASSUME NEW i \in Ids, DeleteTask(i) PROVE live' \cap gone' = {} /\ dlive' \cap gone' = {}
  BY <1>3 DEF DeleteTask, Save
<1>4. CASE Collect
  BY <1>4 DEF Collect
<1>5. ASSUME NEW i \in Ids, FireTask(i) PROVE live' \cap gone' = {} /\ dlive' \cap gone' = {}
  BY <1>5 DEF FireTask
<1>6. CASE SettleTasks
  <2>1. torn = 0
    BY <1>6, <1>0 DEF SettleTasks, Save
  <2>2. CASE due \cap live = {}
    BY <1>6, <2>1, <2>2 DEF SettleTasks, Finished
  <2>3. CASE due \cap live # {}
    <3>1. dlive' = live'
      BY <1>6, <2>3 DEF SettleTasks, Save
    <3> QED
      BY <1>6, <2>1, <3>1 DEF SettleTasks, Finished
  <2> QED
    BY <2>2, <2>3
<1>7. CASE Tick
  BY <1>7 DEF Tick
<1>8. CASE Crash
  BY <1>8, <1>0 DEF Crash
<1>9. CASE UNCHANGED vars
  BY <1>9
<1> QED
  BY <1>1, <1>2, <1>3, <1>4, <1>5, <1>6, <1>7, <1>8, <1>9 DEF Next, Thread

\* A task that was deleted, or removed after it fired, never comes back, however
\* deletions, the phases of check_tasks, saves and restarts interleave.
THEOREM GoneNeverReturns == Spec => []GoneStaysGone
<1>1. Init => GoneInv
  BY DEF Init, GoneInv
<1>2. GoneInv => GoneStaysGone
  BY DEF GoneInv, GoneStaysGone
<1> QED
  BY <1>1, <1>2, GoneNext, TypeCorrect, PTL DEF Spec

-----------------------------------------------------------------------------
(* Periods *)

FullPeriod(t) ==
    (t.cron = 0 /\ t.at = 0 /\ t.every > 0 /\ t.last > 0) => t.next >= t.last + t.every

\* last_run is never in the future, in memory or in the file; without that a
\* reschedule could shorten the period.
PeriodInv ==
    \A i \in Ids : task[i].last <= now /\ dtask[i].last <= now /\ FullPeriod(task[i])

LEMMA PeriodOfNew ==
  ASSUME TypeOK, NEW cron \in {0, 1}, NEW at \in Nat, NEW every \in Nat,
         NEW last \in Nat, last <= now, NEW once, NEW enabled
  PROVE  FullPeriod([cron |-> cron, at |-> at, every |-> every, once |-> once,
                     enabled |-> enabled, last |-> last,
                     next |-> NextRun(cron, at, every)])
  BY DEF TypeOK, FullPeriod, NextRun

LEMMA PeriodOfOld ==
  ASSUME TypeOK, NEW t \in Fields, t.last <= now
  PROVE  /\ FullPeriod(Settled(t))
         /\ FullPeriod([cron |-> t.cron, at |-> t.at, every |-> t.every,
                        once |-> t.once, enabled |-> t.enabled, last |-> t.last,
                        next |-> NextLoaded(t)])
  BY DEF TypeOK, Fields, FullPeriod, Settled, NextSettled, NextLoaded

LEMMA PeriodNext == TypeOK /\ PeriodInv /\ [Next]_vars => PeriodInv'
<1> SUFFICES ASSUME TypeOK, PeriodInv, [Next]_vars PROVE PeriodInv'
  OBVIOUS
<1> DEFINE Fine(i) == task'[i].last <= now' /\ FullPeriod(task'[i])
<1>0. /\ now \in Nat /\ task \in [Ids -> Fields] /\ dtask \in [Ids -> Fields]
      /\ \A j \in Ids : task[j].last <= now /\ dtask[j].last <= now /\ FullPeriod(task[j])
  BY DEF TypeOK, PeriodInv
<1>1. ASSUME NEW i \in Ids, CreateTask(i) PROVE PeriodInv'
  <2>1. PICK cron \in {0, 1}, at \in Ats \cup {0}, every \in Periods \cup {0},
             once \in {0, 1}, enabled \in {0, 1} :
          task' = [task EXCEPT ![i] =
                      [cron |-> cron, at |-> at, every |-> every, once |-> once,
                       enabled |-> enabled, last |-> 0,
                       next |-> NextRun(cron, at, every)]]
    BY ZenonT(40), <1>1 DEF CreateTask
  <2>2. now' = now /\ (dtask' = dtask \/ dtask' = task')
    BY <1>1 DEF CreateTask, Edit, Save
  <2>3. \A j \in Ids : Fine(j)
    <3>1. at \in Nat /\ every \in Nat
      BY ConstantsAssumption
    <3>2. Fine(i)
      BY <1>0, <2>1, <2>2, <3>1, PeriodOfNew
    <3> QED
      BY <1>0, <2>1, <2>2, <3>2
  <2> QED
    BY <1>0, <2>2, <2>3 DEF PeriodInv
<1>2. ASSUME NEW i \in Ids, UpdateTask(i) PROVE PeriodInv'
  <2>1. PICK once \in {0, 1}, enabled \in {0, 1} :
        \/ task' = [task EXCEPT ![i] =
                      [cron |-> task[i].cron, at |-> task[i].at,
                       every |-> task[i].every, once |-> once,
                       enabled |-> enabled, last |-> task[i].last,
                       next |-> task[i].next]]
        \/ \E cron \in {0, 1}, at \in Ats \cup {0}, every \in Periods \cup {0} :
             task' = [task EXCEPT ![i] =
                        [cron |-> cron, at |-> at, every |-> every, once |-> once,
                         enabled |-> enabled, last |-> task[i].last,
                         next |-> NextRun(cron, at, every)]]
    BY <1>2 DEF UpdateTask
  <2>2. now' = now /\ (dtask' = dtask \/ dtask' = task')
    BY <1>2 DEF UpdateTask, Edit, Save
  <2>3. task[i].last \in Nat /\ task[i].last <= now
    BY <1>0 DEF Fields
  <2>4. CASE task' = [task EXCEPT ![i] =
                      [cron |-> task[i].cron, at |-> task[i].at,
                       every |-> task[i].every, once |-> once,
                       enabled |-> enabled, last |-> task[i].last,
                       next |-> task[i].next]]
    BY <1>0, <2>2, <2>4 DEF PeriodInv, FullPeriod
  <2>5. ASSUME NEW cron \in {0, 1}, NEW at \in Ats \cup {0}, NEW every \in Periods \cup {0},
               task' = [task EXCEPT ![i] =
                        [cron |-> cron, at |-> at, every |-> every, once |-> once,
                         enabled |-> enabled, last |-> task[i].last,
                         next |-> NextRun(cron, at, every)]]
        PROVE PeriodInv'
    <3>1. at \in Nat /\ every \in Nat
      BY ConstantsAssumption
    <3>2. Fine(i)
      BY <1>0, <2>2, <2>3, <2>5, <3>1, PeriodOfNew
    <3>3. \A j \in Ids : Fine(j)
      BY <1>0, <2>2, <2>5, <3>2
    <3> QED
      BY <1>0, <2>2, <3>3 DEF PeriodInv
  <2> QED
    BY <2>1, <2>4, <2>5
<1>3. ASSUME NEW i \in Ids, DeleteTask(i) PROVE PeriodInv'
  BY <1>0, <1>3 DEF DeleteTask, Edit, Save, PeriodInv
<1>4. CASE Collect
  BY <1>0, <1>4 DEF Collect, PeriodInv
<1>5. ASSUME NEW i \in Ids, FireTask(i) PROVE PeriodInv'
  BY <1>0, <1>5 DEF FireTask, PeriodInv
<1>6. CASE SettleTasks
  <2>1. now' = now /\ (dtask' = dtask \/ dtask' = task')
    BY <1>6 DEF SettleTasks, Save
  <2>2. task' = [i \in Ids |-> IF i \in due \cap live THEN Settled(task[i]) ELSE task[i]]
    BY <1>6 DEF SettleTasks
  <2>3. \A j \in Ids : FullPeriod(Settled(task[j])) /\ Settled(task[j]).last = now
    BY <1>0, PeriodOfOld DEF Settled
  <2>4. \A j \in Ids : Fine(j)
    BY <1>0, <2>1, <2>2, <2>3
  <2> QED
    BY <1>0, <2>1, <2>4 DEF PeriodInv
<1>7. CASE Tick
  <2>1. now' = now + 1 /\ task' = task /\ dtask' = dtask
    BY <1>7 DEF Tick
  <2>2. \A j \in Ids : task[j].last \in Nat /\ dtask[j].last \in Nat
    BY <1>0 DEF Fields
  <2> QED
    BY <1>0, <2>1, <2>2 DEF PeriodInv
<1>8. CASE Crash
  <2>1. now' = now /\ dtask' = dtask
    BY <1>8 DEF Crash
  <2>2. \A j \in Ids : Fine(j)
    BY <1>0, <1>8, PeriodOfOld DEF Crash
  <2> QED
    BY <1>0, <2>1, <2>2 DEF PeriodInv
<1>9. CASE UNCHANGED vars
  BY <1>0, <1>9 DEF PeriodInv
<1> QED
  BY <1>1, <1>2, <1>3, <1>4, <1>5, <1>6, <1>7, <1>8, <1>9 DEF Next, Thread

\* A task that repeats with a period and has no start time is never due before a
\* full period has passed since its last run, whatever updates and restarts
\* happen between.
THEOREM PeriodAlwaysRespected == Spec => []PeriodRespected
<1>1. Init => PeriodInv
  <2> SUFFICES ASSUME Init PROVE PeriodInv
    OBVIOUS
  <2>1. now = 1 /\ \A i \in Ids : task[i] = NoFields /\ dtask[i] = NoFields
    BY DEF Init
  <2>2. NoFields.last = 0 /\ NoFields.every = 0
    BY DEF NoFields
  <2>3. FullPeriod(NoFields)
    BY <2>2 DEF FullPeriod
  <2>4. NoFields.last <= now
    BY <2>1, <2>2
  <2> QED
    BY <2>1, <2>3, <2>4, Zenon DEF PeriodInv
<1>2. TypeOK /\ PeriodInv => PeriodRespected
  BY DEF TypeOK, PeriodInv, PeriodRespected, FullPeriod
<1> QED
  BY <1>1, <1>2, PeriodNext, TypeCorrect, PTL DEF Spec

-----------------------------------------------------------------------------
(* One-shot tasks *)

SameSchedule(t, u) ==
    t.cron = u.cron /\ t.every = u.every /\ t.once = u.once /\ t.enabled = u.enabled

IsOneShot(t) == t.once = 1 \/ Disables(t)

\* A one-shot task has not been fired yet while it waits to be fired, and once
\* it was fired it is either still to be settled or disabled.
Shot(i) ==
    IsOneShot(task[i]) =>
        /\ i \in firing => fired[i] = 0
        /\ i \in due => fired[i] <= 1
        /\ i \notin due => fired[i] = 0 \/ (fired[i] = 1 /\ task[i].enabled = 0)

\* The file agrees with memory, so that a restart does not re-enable a task;
\* and only ids that were in use have been fired, so that a new task starts
\* with a count of 0.
OnceInv ==
    torn = 0 =>
        /\ dlive = live
        /\ \A i \in live : SameSchedule(dtask[i], task[i]) /\ Shot(i)
        /\ due \subseteq live \cup gone
        /\ \A i \in Ids : i \notin live \cup gone => fired[i] = 0

LEMMA OnceNext == TypeOK /\ OnceInv /\ [Next]_vars => OnceInv'
<1> SUFFICES ASSUME TypeOK, OnceInv, [Next]_vars, torn' = 0
             PROVE  OnceInv'
  BY DEF OnceInv
<1>a. /\ live \subseteq Ids /\ due \subseteq Ids /\ firing \subseteq due
      /\ torn \in {0, 1} /\ fired \in [Ids -> 0..2] /\ DOMAIN task = Ids
      /\ DOMAIN dtask = Ids
      /\ pc = "sleep" => due = {}
  BY DEF TypeOK
<1>b. torn = 0
  BY <1>a DEF Next, Thread, CreateTask, UpdateTask, DeleteTask, Save, Collect,
     FireTask, SettleTasks, Tick, Crash
<1>c. /\ dlive = live
      /\ \A j \in live : SameSchedule(dtask[j], task[j]) /\ Shot(j)
      /\ due \subseteq live \cup gone
      /\ \A j \in Ids : j \notin live \cup gone => fired[j] = 0
  BY <1>b DEF OnceInv
<1>1. ASSUME NEW i \in Ids, CreateTask(i) PROVE OnceInv'
  <2>1. dlive' = live' /\ dtask' = task' /\ live' = live \cup {i} /\ fired' = fired
        /\ gone' = gone /\ due' = due /\ firing' = firing /\ i \notin live \cup gone \cup due
    BY <1>1, <1>b DEF CreateTask, Save
  <2>2. \A j \in Ids \ {i} : task'[j] = task[j]
    BY <1>1, <1>a DEF CreateTask
  <2>3. Shot(i)'
    BY <2>1, <1>a, <1>c DEF Shot
  <2>4. \A j \in live : Shot(j)'
    BY <2>1, <2>2, <1>a, <1>c DEF Shot
  <2> QED
    BY <2>1, <2>3, <2>4, <1>c DEF OnceInv, SameSchedule
<1>2. ASSUME NEW i \in Ids, UpdateTask(i) PROVE OnceInv'
  <2>1. dlive' = live' /\ dtask' = task' /\ live' = live /\ fired' = [fired EXCEPT ![i] = 0]
        /\ gone' = gone /\ due' = due /\ firing' = firing /\ i \in live
    BY <1>2, <1>b DEF UpdateTask, Save
  <2>2. \A j \in Ids \ {i} : task'[j] = task[j]
    BY <1>2, <1>a DEF UpdateTask
  <2>3. Shot(i)'
    BY <2>1, <1>a, <1>c DEF Shot
  <2>4. \A j \in live \ {i} : Shot(j)'
    BY <2>1, <2>2, <1>a, <1>c DEF Shot
  <2> QED
    BY <2>1, <2>3, <2>4, <1>a, <1>c DEF OnceInv, SameSchedule
<1>3. ASSUME NEW i \in Ids, DeleteTask(i) PROVE OnceInv'
  <2>1. dlive' = live' /\ dtask' = task' /\ task' = task /\ live' = live \ {i} /\ fired' = fired
        /\ gone' = gone \cup {i} /\ due' = due /\ firing' = firing /\ i \in live
    BY <1>3, <1>b DEF DeleteTask, Save
  <2>2. \A j \in live' : Shot(j)'
    BY <2>1, <1>c DEF Shot
  <2> QED
    BY <2>1, <2>2, <1>a, <1>c DEF OnceInv, SameSchedule
<1>4. CASE Collect
  <2>1. \A j \in live : Shot(j)'
    <3> SUFFICES ASSUME NEW j \in live, IsOneShot(task[j])
                 PROVE  Shot(j)'
      BY <1>4 DEF Collect, Shot
    <3>1. j \notin due /\ (fired[j] = 0 \/ (fired[j] = 1 /\ task[j].enabled = 0))
      BY <1>4, <1>a, <1>c DEF Collect, Shot
    <3>2. j \in due' => task[j].enabled = 1
      BY <1>4 DEF Collect, IsDue
    <3>3. task' = task /\ fired' = fired /\ firing' = due'
      BY <1>4 DEF Collect
    <3> QED
      BY <3>1, <3>2, <3>3 DEF Shot
  <2>2. due' \subseteq live
    BY <1>4 DEF Collect, IsDue
  <2> QED
    BY <1>4, <2>1, <2>2, <1>c DEF Collect, OnceInv
<1>5. ASSUME NEW i \in Ids, FireTask(i) PROVE OnceInv'
  <2>1. firing' = firing \ {i} /\ i \in firing /\ due' = due /\ live' = live /\ gone' = gone
        /\ task' = task /\ dtask' = dtask /\ dlive' = dlive
        /\ fired' = [fired EXCEPT ![i] = IF @ = 2 THEN 2 ELSE @ + 1]
    BY <1>5 DEF FireTask
  <2>2. \A j \in live : Shot(j)'
    <3> SUFFICES ASSUME NEW j \in live, IsOneShot(task[j])
                 PROVE  Shot(j)'
      BY <2>1 DEF Shot
    <3>1. CASE j = i
      <4>1. fired[i] = 0 /\ i \in due
        BY <3>1, <2>1, <1>a, <1>c DEF Shot
      <4>2. fired'[i] = 1
        BY <4>1, <2>1, <1>a
      <4> QED
        BY <3>1, <4>1, <4>2, <2>1 DEF Shot
    <3>2. CASE j # i
      BY <3>2, <2>1, <1>a, <1>c DEF Shot
    <3> QED
      BY <3>1, <3>2
  <2>3. \A j \in Ids : j \notin live \cup gone => fired'[j] = 0
    <3>1. i \in live \cup gone
      BY <2>1, <1>a, <1>c
    <3> QED
      BY <3>1, <2>1, <1>a, <1>c
  <2> QED
    BY <2>1, <2>2, <2>3, <1>c DEF OnceInv
<1>6. CASE SettleTasks
  <2>1. due' = {} /\ firing' = {} /\ live' = live \ Finished /\ gone' = gone \cup Finished
        /\ fired' = fired
        /\ task' = [j \in Ids |-> IF j \in due \cap live THEN Settled(task[j]) ELSE task[j]]
    BY <1>6 DEF SettleTasks
  <2>2. dlive' = live' /\ \A j \in live' : SameSchedule(dtask'[j], task'[j])
    <3>1. CASE due \cap live = {}
      <4>1. live' = live /\ dlive' = dlive /\ dtask' = dtask
        BY <3>1, <1>6 DEF SettleTasks, Finished
      <4>2. \A j \in live : task'[j] = task[j]
        BY <2>1, <3>1, <1>a
      <4> QED
        BY <4>1, <4>2, <1>c
    <3>2. CASE due \cap live # {}
      BY <3>2, <1>6 DEF SettleTasks, Save, SameSchedule
    <3> QED
      BY <3>1, <3>2
  <2>3. \A j \in live' : Shot(j)'
    <3> SUFFICES ASSUME NEW j \in live', IsOneShot(task'[j])
                 PROVE  fired[j] = 0 \/ (fired[j] = 1 /\ task'[j].enabled = 0)
      BY <2>1 DEF Shot
    <3>0. j \in live /\ j \in Ids
      BY <2>1, <1>a
    <3>1. CASE j \in due
      <4>1. task'[j] = Settled(task[j])
        BY <3>0, <3>1, <2>1
      <4>2. task[j].once # 1
        BY <3>0, <3>1, <2>1 DEF Finished
      <4>3. Disables(task[j])
        BY <4>1, <4>2 DEF IsOneShot, Settled, Disables
      <4>4. task'[j].enabled = 0
        BY <4>1, <4>3 DEF Settled
      <4>5. fired[j] <= 1
        BY <3>0, <3>1, <4>3, <1>c DEF Shot, IsOneShot
      <4> QED
        BY <3>0, <4>4, <4>5, <1>a
    <3>2. CASE j \notin due
      <4>1. task'[j] = task[j]
        BY <3>0, <3>2, <2>1
      <4> QED
        BY <3>0, <3>2, <4>1, <1>c DEF Shot
    <3> QED
      BY <3>1, <3>2
  <2>4. \A j \in Ids : j \notin live' \cup gone' => fired'[j] = 0
    BY <2>1, <1>c
  <2> QED
    BY <2>1, <2>2, <2>3, <2>4 DEF OnceInv
<1>7. CASE Tick
  BY <1>7, <1>c DEF Tick, OnceInv, Shot
<1>8. CASE Crash
  <2>1. live' = live /\ dlive' = dlive /\ dtask' = dtask /\ fired' = fired /\ gone' = gone
        /\ due' = {} /\ firing' = {} /\ due = {}
    BY <1>8, <1>a, <1>c DEF Crash, TypeOK
  <2>2. \A j \in live : SameSchedule(dtask[j], task'[j])
    BY <1>8, <1>a DEF Crash, SameSchedule
  <2>3. \A j \in live : Shot(j)'
    <3> SUFFICES ASSUME NEW j \in live, IsOneShot(task'[j])
                 PROVE  fired[j] = 0 \/ (fired[j] = 1 /\ task'[j].enabled = 0)
      BY <2>1 DEF Shot
    <3>1. SameSchedule(task'[j], task[j])
      BY <2>2, <1>c DEF SameSchedule
    <3>2. IsOneShot(task[j])
      BY <3>1 DEF SameSchedule, IsOneShot, Disables
    <3> QED
      BY <3>1, <3>2, <2>1, <1>c DEF Shot, SameSchedule
  <2> QED
    BY <2>1, <2>2, <2>3, <1>c DEF OnceInv
<1>9. CASE UNCHANGED vars
  BY <1>9, <1>c DEF OnceInv, Shot
<1> QED
  BY <1>1, <1>2, <1>3, <1>4, <1>5, <1>6, <1>7, <1>8, <1>9 DEF Next, Thread

\* A one-shot task is fired at most once for each time a user sets it, restarts
\* included, as long as no save fails and no crash comes while tasks are firing.
THEOREM OneShotFiresOnce == Spec => []OneShotOnce
<1>1. Init => OnceInv
  BY DEF Init, OnceInv
<1>2. TypeOK /\ OnceInv => OneShotOnce
  BY DEF TypeOK, OnceInv, OneShotOnce, OneShot, IsOneShot, Shot
<1> QED
  BY <1>1, <1>2, OnceNext, TypeCorrect, PTL DEF Spec
=============================================================================
