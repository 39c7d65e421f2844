----------------------------- MODULE Scheduler -----------------------------
(***************************************************************************)
(* The task scheduler of child_main (scheduler.cpp).  Its thread collects  *)
(* the tasks that are due under mutex_, fires them without it (inference   *)
(* takes minutes), and settles them under it again; meanwhile the HTTP and *)
(* tool threads create, update and delete tasks.  Every change is written  *)
(* to schedules.json, from which a respawned child_main loads them.        *)
(*                                                                         *)
(* Whatever happens under mutex_ is one action.  A cron expression is the  *)
(* set of times that match it; a task has at most one.  Prompts, results   *)
(* and notifications are left out.                                         *)
(***************************************************************************)
EXTENDS Naturals

CONSTANTS
    Ids,          \* bound: ids that generate_id may return
    CronTimes,    \* the times that match the cron expression in use
    Ats,          \* bound: values of `at'
    Periods,      \* bound: values of every_seconds
    MaxTime,      \* bound: the clock
    MaxEdits,     \* bound: requests
    MaxCrashes    \* bound: crashes of child_main

ASSUME ConstantsAssumption ==
    /\ CronTimes \subseteq Nat
    /\ Ats \subseteq Nat \ {0} /\ Periods \subseteq Nat \ {0}
    /\ MaxTime \in Nat /\ MaxEdits \in Nat /\ MaxCrashes \in Nat

VARIABLES
    now,       \* time(nullptr), in a unit of its own
    live,      \* ids of tasks_
    task,      \* the fields of each task
    dlive,     \* ids in schedules.json
    dtask,     \* the fields saved there
    pc,        \* where the scheduler thread is
    due,       \* the tasks it collected
    firing,    \* those it has not fired yet
    edits, crashes,
    fired,     \* how often each task was fired since it was last edited, where 2
               \* means more than once (history)
    gone,      \* ids that were deleted, or removed after firing (history)
    torn       \* 1: a save failed, or a crash came before the tasks that were
               \* firing were settled (history)

clock == <<now, edits, crashes>>
memory == <<live, task>>
file == <<dlive, dtask>>
thread == <<pc, due, firing>>
history == <<fired, gone, torn>>
vars == <<clock, memory, file, thread, history>>

\* at = 0, every = 0 and cron = 0 stand for a field that is not given.
Fields == [cron : {0, 1}, at : Nat, every : Nat, once : {0, 1},
           enabled : {0, 1}, last : Nat, next : Nat]

TypeOK ==
    /\ now \in Nat /\ edits \in Nat /\ crashes \in Nat
    /\ live \in SUBSET Ids /\ dlive \in SUBSET Ids /\ gone \in SUBSET Ids
    /\ task \in [Ids -> Fields] /\ dtask \in [Ids -> Fields]
    /\ pc \in {"sleep", "fire"}
    /\ due \in SUBSET Ids /\ firing \in SUBSET due
    /\ pc = "sleep" => due = {}
    /\ fired \in [Ids -> 0..2]
    /\ torn \in {0, 1}

NoFields == [cron |-> 0, at |-> 0, every |-> 0, once |-> 0, enabled |-> 0,
             last |-> 0, next |-> 0]

Init ==
    /\ now = 1 /\ edits = 0 /\ crashes = 0
    /\ live = {} /\ dlive = {}
    /\ task = [i \in Ids |-> NoFields] /\ dtask = [i \in Ids |-> NoFields]
    /\ pc = "sleep" /\ due = {} /\ firing = {}
    /\ fired = [i \in Ids |-> 0] /\ gone = {} /\ torn = 0

-----------------------------------------------------------------------------
(* Schedules *)

\* compute_next_cron: the first match after t, 0 if the search finds none.
NextCron(t) ==
    IF \E m \in CronTimes : m > t
    THEN CHOOSE m \in CronTimes : m > t /\ \A k \in CronTimes : k > t => m <= k
    ELSE 0

\* create_task and update_task: cron comes before at, at before every_seconds.
NextRun(cron, at, every) ==
    IF cron = 1 THEN NextCron(now)
    ELSE IF at > 0 THEN at
    ELSE IF every > 0 THEN now + every ELSE 0

\* Mutant of NextLoaded: the period restarts with child_main.
NextLoaded_Soon(t) ==
    IF t.cron = 1 THEN NextCron(now)
    ELSE IF t.at > 0 THEN t.at
    ELSE IF t.every > 0 THEN now + 1 ELSE 0

\* load_tasks: a period that began before the restart is completed.
NextLoaded(t) ==
    IF t.cron = 1 THEN NextCron(now)
    ELSE IF t.at > 0 THEN t.at
    ELSE IF t.every = 0 THEN 0
    ELSE IF t.last = 0 THEN now + t.every
    ELSE IF t.last + t.every <= now THEN now + 1 ELSE t.last + t.every

\* Mutant of NextSettled: the next_run of a cron task is left as it was.
NextSettled_Stale(t) ==
    IF t.cron = 1 THEN t.next
    ELSE IF t.every > 0 THEN now + t.every ELSE 0

\* check_tasks, phase 3: at is not looked at any more; a task with nothing else
\* is disabled.
NextSettled(t) ==
    IF t.cron = 1 THEN NextCron(now)
    ELSE IF t.every > 0 THEN now + t.every ELSE 0
Disables(t) == t.cron = 0 /\ t.every = 0

IsDue(i) == i \in live /\ task[i].enabled = 1 /\ task[i].next > 0 /\ task[i].next <= now

\* save_tasks: next_run is not in the file.  A failure is logged and ignored.
Save(tasks, fields) ==
    \/ dlive' = tasks /\ dtask' = fields /\ torn' = torn
    \/ UNCHANGED file /\ torn' = 1

-----------------------------------------------------------------------------
(* Requests *)

Edit == edits < MaxEdits /\ edits' = edits + 1 /\ UNCHANGED <<now, crashes>>

\* An id is new; at least one kind of schedule is given.
CreateTask(i) ==
    /\ i \notin live \cup gone \cup due
    /\ Edit
    /\ \E cron \in {0, 1}, at \in Ats \cup {0}, every \in Periods \cup {0},
          once, enabled \in {0, 1} :
        /\ cron = 1 \/ at > 0 \/ every > 0
        /\ task' = [task EXCEPT ![i] =
                      [cron |-> cron, at |-> at, every |-> every, once |-> once,
                       enabled |-> enabled, last |-> 0,
                       next |-> NextRun(cron, at, every)]]
    /\ live' = live \cup {i}
    /\ Save(live', task')
    /\ UNCHANGED <<thread, fired, gone>>

\* Any of the fields; next_run changes only if a schedule field is given.
UpdateTask(i) ==
    /\ i \in live
    /\ Edit
    /\ \E once, enabled \in {0, 1} :
        \/ task' = [task EXCEPT ![i] =
                      [cron |-> task[i].cron, at |-> task[i].at,
                       every |-> task[i].every, once |-> once,
                       enabled |-> enabled, last |-> task[i].last,
                       next |-> task[i].next]]
        \/ \E cron \in {0, 1}, at \in Ats \cup {0}, every \in Periods \cup {0} :
             task' = [task EXCEPT ![i] =
                        [cron |-> cron, at |-> at, every |-> every, once |-> once,
                         enabled |-> enabled, last |-> task[i].last,
                         next |-> NextRun(cron, at, every)]]
    /\ fired' = [fired EXCEPT ![i] = 0]
    /\ Save(live, task')
    /\ UNCHANGED <<live, thread, gone>>

DeleteTask(i) ==
    /\ i \in live
    /\ Edit
    /\ live' = live \ {i} /\ gone' = gone \cup {i}
    /\ Save(live', task)
    /\ UNCHANGED <<task, thread, fired>>

-----------------------------------------------------------------------------
(* The scheduler thread: check_tasks every 10 s *)

\* Mutant of Collect: phase 2 goes over tasks_ instead of the snapshot.
Collect_All ==
    /\ pc = "sleep" /\ \E i \in Ids : IsDue(i)
    /\ due' = {i \in Ids : IsDue(i)} /\ firing' = live
    /\ pc' = "fire"
    /\ UNCHANGED <<clock, memory, file, history>>

\* Phase 1, under mutex_.  With nothing due it goes on to the alerts.
Collect ==
    /\ pc = "sleep" /\ \E i \in Ids : IsDue(i)
    /\ due' = {i \in Ids : IsDue(i)} /\ firing' = due'
    /\ pc' = "fire"
    /\ UNCHANGED <<clock, memory, file, history>>

\* Phase 2: fire_task runs the inference on the snapshot, without mutex_.
FireTask(i) ==
    /\ pc = "fire" /\ i \in firing
    /\ firing' = firing \ {i}
    /\ fired' = [fired EXCEPT ![i] = IF @ = 2 THEN 2 ELSE @ + 1]
    /\ UNCHANGED <<clock, memory, file, pc, due, gone, torn>>

Settled(t) ==
    [cron |-> t.cron, at |-> t.at, every |-> t.every, once |-> t.once,
     enabled |-> IF Disables(t) THEN 0 ELSE t.enabled,
     last |-> now, next |-> NextSettled(t)]

\* Mutant of Finished: once-tasks are rescheduled like the others.
Finished_Never == {}

\* The tasks phase 3 removes.
Finished == {i \in due \cap live : task[i].once = 1}

\* Mutant of SettleTasks: the collected tasks are written back.
SettleTasks_Resurrects ==
    /\ pc = "fire" /\ firing = {}
    /\ live' = (live \cup due) \ Finished
    /\ task' = [i \in Ids |-> IF i \in due THEN Settled(task[i]) ELSE task[i]]
    /\ gone' = gone \cup Finished
    /\ Save(live', task')
    /\ pc' = "sleep" /\ due' = {} /\ firing' = {}
    /\ UNCHANGED <<clock, fired>>

\* Phase 3, under mutex_: tasks deleted meanwhile are skipped; once-tasks are
\* removed; the others get last_run and a new next_run, whatever an update has
\* set it to meanwhile.  Saved only if a task is left to settle.
SettleTasks ==
    /\ pc = "fire" /\ firing = {}
    /\ live' = live \ Finished
    /\ task' = [i \in Ids |-> IF i \in due \cap live THEN Settled(task[i]) ELSE task[i]]
    /\ gone' = gone \cup Finished
    /\ IF due \cap live = {} THEN UNCHANGED <<file, torn>> ELSE Save(live', task')
    /\ pc' = "sleep" /\ due' = {} /\ firing' = {}
    /\ UNCHANGED <<clock, fired>>

Thread == Collect \/ (\E i \in Ids : FireTask(i)) \/ SettleTasks

-----------------------------------------------------------------------------
(* Time and crashes *)

Tick ==
    /\ now < MaxTime
    /\ now' = now + 1
    /\ UNCHANGED <<edits, crashes, memory, file, thread, history>>

\* child_main crashes and is respawned: set_data_dir loads schedules.json.
Crash ==
    /\ crashes < MaxCrashes
    /\ crashes' = crashes + 1
    /\ live' = dlive
    /\ task' = [i \in Ids |->
                  [cron |-> dtask[i].cron, at |-> dtask[i].at,
                   every |-> dtask[i].every, once |-> dtask[i].once,
                   enabled |-> dtask[i].enabled, last |-> dtask[i].last,
                   next |-> NextLoaded(dtask[i])]]
    /\ torn' = IF pc = "fire" THEN 1 ELSE torn
    /\ pc' = "sleep" /\ due' = {} /\ firing' = {}
    /\ UNCHANGED <<now, edits, file, fired, gone>>

Next ==
    \/ \E i \in Ids : CreateTask(i) \/ UpdateTask(i) \/ DeleteTask(i)
    \/ Thread
    \/ Tick \/ Crash

Spec == Init /\ [][Next]_vars

\* The scheduler thread keeps running, and inference returns.
Fairness == WF_vars(Thread)

FairSpec == Spec /\ Fairness

-----------------------------------------------------------------------------
(* Properties *)

OneShot(i) == task[i].once = 1 \/ Disables(task[i])

\* A task that is to run once (once, or nothing but `at') is fired once for each
\* time a user sets it, also across restarts, unless a crash interrupts the
\* firing or a save fails.
OneShotOnce ==
    torn = 0 => \A i \in live : OneShot(i) => fired[i] <= 1

\* A task that was deleted, or removed after it fired, never comes back: not
\* when the thread settles what it collected before, not from schedules.json.
GoneStaysGone == torn = 0 => live \cap gone = {}

\* A task that repeats with a period and has no start time is never due earlier
\* than a full period after its last run, restarts of child_main included.  (For
\* one with a start time load_schedules sets next_run to that time at every
\* start, so that a restart makes it due at once.)
PeriodRespected ==
    \A i \in live :
        (task[i].cron = 0 /\ task[i].at = 0 /\ task[i].every > 0 /\ task[i].last > 0)
            => task[i].next >= task[i].last + task[i].every

\* No task stays due for ever: it is fired and rescheduled, disabled or removed.
DueIsServed == \A i \in Ids : IsDue(i) ~> ~IsDue(i)
=============================================================================
