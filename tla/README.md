# TLA+ models of Llamaste

Llamaste is a Linux appliance whose whole user space is one C++ program.  The
kernel starts it as PID 1; PID 1 (the *supervisor*) forks a second copy
(*child_main*) that serves the web interface, runs the language model through a
`llama-server` process, keeps scheduled tasks, forms a cluster with its peers
and installs updates into the inactive one of two system partitions.

This directory holds TLA+ models of those parts of the program in which several
actors can get in each other's way, the TLC configurations that check them, and
TLAPS proofs of what matters most.  Line numbers below are those of the sources
under `src/src/llamaste/` unless another path is given; `PROJECT.json` maps every
definition to the lines it models.

## 1. Inventory

### 1.1 Supervisor, `supervisor.cpp` - modelled in `Supervisor`

State: `g_child_pid`, `g_child_exited`, `g_shutdown_requested`,
`g_reboot_requested`, `crash_count`, the pids and restart counters of dbus-daemon
and bluetoothd, the watchdog device, the console with its confirmation prompt.
Operations: fork and respawn of child_main, `waitpid(-1)` and the SIGCHLD
handler, SIGTERM and SIGUSR1 handlers, console keys, the watchdog kicker, the
final shutdown.  It talks to child_main only through signals, exit and `/data`.
Hard: two places reap the same child; four threads and a signal handler share
plain flags; PID 1 inherits every orphan; a child may ignore SIGTERM.
Correct means: one child_main at a time, a dead one is replaced, a shutdown
always ends, with child_main gone before `/data` is unmounted, and a reboot is not a
power-off.

### 1.2 A/B update and rollback, `updater.cpp`, `tools_update.cpp`, `grub.cfg`, `initramfs-init.sh` - modelled in `ABUpdate`

State: two partitions, and `active_slot`, `boot_success`, `boot_counter` in
grubenv; the kernel command line names the slot that runs.  Operations: install,
rollback, `mark_boot_success` 5 s after start, GRUB's countdown and switch, the
choice of the root by the initramfs.  Hard: power may fail between any two
writes; grubenv is read and written back as a whole by threads that do not know of
each other; `boot_success` is confirmed by a thread, not by the user.
Correct means: some slot always holds a working system, a slot that does not
come up is started only on trial and is given up, only the booted slot is confirmed.

### 1.3 llama-server lifecycle, `child_main.cpp` - modelled in `LlamaServer`

State: `g_llama_pid`, `g_model_loaded`, `g_inference_ready`, `g_inference_fn`, the
retries of each monitor thread, the failures the health poller has seen.
Operations: spawn, wait for health, monitor (waitpid and respawn), health probe
and kill, restart by the topology callback, the watchdog and the recovery of the
cluster heartbeat, stop.  Hard: up to five threads wait for, kill and spawn the
same process and share only atomics.  Correct means: one engine at a time, a
loaded engine is watched, a wedged one is put down, a dead one is not advertised,
and one that never loads is not restarted for ever.

### 1.4 Scheduler, notifications, alerts, `scheduler.cpp`, `tools_schedule.cpp` - tasks modelled in `Scheduler`

State: `tasks_`, `schedules.json`, pending notifications, the time of the last
alert of each kind.  Operations: create, update, delete, list; `check_tasks`;
`check_alerts`; save and load; drain.  Hard: the lock is dropped for minutes
while tasks fire; the file is written after the fact and read after a crash.
Correct means: one-shot tasks run once, removed tasks stay removed, periods
survive restarts, no task stays due.

### 1.5 Cluster manager, `cluster.cpp`, `tools_cluster.cpp`, `child_main.cpp` - modelled in `Cluster`

State of each node: `peers_` with `last_seen`, `state_`, `coordinator_`, and the
endpoints its llama-server was started with.  Operations: the heartbeat (expire,
discover, elect, look after the engine), election at boot, the topology callback,
`cluster.reload`, `add-peer`.  Nodes interact through mDNS answers only.  Hard: answers
get lost; the callback runs outside the lock, waits for minutes and is started by the
heartbeat before the election, by the election, and by requests; nodes come and go.
Correct means: nodes that know each other truly do not both act as coordinator, the mesh
settles on one, dead peers leave the engine, joined ones enter it, and engines are
not restarted without a reason.

### 1.6 Model downloads and the model store, `tools_model_download.cpp`, `tools_model.cpp`, `child_main.cpp` 2153-2259 - modelled in `Download`, `ModelStore`

State: the files under `/data/models` with their `.part` files, `g_dl.active`,
`g_upgrade_downloading`.  Operations: background download, `model.download`, automatic
upgrade from the heartbeat, import from USB.  Hard: three kinds of thread write one
`.part`, each with a descriptor of its own; a resume trusts whatever is there; a crash
falls between the last byte and the rename.  Correct means: a name in the directory
stands for a whole model, no error path leaves a flag set, and the upgrade arrives.

### 1.7 Authentication, `auth.cpp`, `tools_auth.cpp`, routes of `child_main.cpp` - modelled in `Auth`

State: password hash, set-up flag and timeout, in memory and in `device.json`; sessions;
failed logins of an address.  Hard: each method takes the lock, a handler calls several,
and a hash takes a quarter of a second in between.  Correct means: guesses are bounded,
a logout is final, the file holds what is in use.

### 1.8 Agent loop and chat, `agent.cpp`, `tools.cpp`, `child_main.cpp` - modelled in `Agent`

State: conversations, turns under way, the cache of answers.  Hard: a turn ends in many
ways; conversations have no lock; the cache is filled by several threads.  Correct means:
transcripts are legal, also when cut, turns end, and the cache answers what was asked.

### 1.9 Installer, `tools_install.cpp` - modelled in `Installer`

State: the global progress record, the worker, the target disk.  Hard: seven phases of which
some may fail without ending the installation; the flag that keeps a second one out is
tested and set in two steps; the boot disk is recognised by its name.  Correct means: what
is reported as installed boots, a table and its backup agree until a write fails, every end
is reported.

### 1.10 Mount of /data, `init.cpp` - modelled in `DataMount`

State: partition tables, file systems, what the kernel knows of both.  Operations: search,
growth of the table, mount, growth of the file system, format as a last resort.  Hard: power
may fail between any two writes, any call may fail, and the disks may be somebody else's.
Correct means: no data is lost without a fault, file systems fit their partitions, and no
partition that could be mounted is passed over.

### 1.11 MCP server, `mcp_server.cpp` - modelled in `Mcp`

State: the API key in memory and in `mcp_key.txt`, sessions.  Hard: the file is truncated in
place while the process may be killed; the clock is read before the lock is taken.  Correct
means: the key survives restarts, a replaced one does not come back, used sessions stay.

### 1.12 WiFi, `wifi.cpp`, `tools_wifi.cpp` - modelled in `WiFi`

State: the control socket with its unread replies; in wpa_supplicant the networks and the
link.  Hard: nothing ties a reply to a command, replies may be late, the daemon may be
restarted.  Correct means: a reported connection exists, a failed attempt does no lasting harm.

### 1.13 Parts that stay out

| Part | Why |
|---|---|
| `hwdetect.cpp` | reads `/proc` and `/sys`, keeps no state |
| `tools_network.cpp`, `dhcpcd-hook.c` | each call reads or writes kernel configuration |
| `net_mdns.cpp` | encoding and decoding of packets; that answers get lost is part of `Cluster` |
| file, process, configuration, system and debug tools | wrappers of single system calls; a model would restate the file system |
| `prompt_builder.cpp`, the pages under `web/` | text and presentation |
| HTTP routes that only format state | the ones that change state are in the modules above |
| console drawing and first-boot set-up in `supervisor.cpp` | one thread, no state that outlives it but the prompt |
| `json.hpp`, `httplib.h`, `tweetnacl.c`, llama.cpp | third-party code |

The third-party files make up 36 000 of the 60 000 lines of C and C++ under
`src/src/llamaste/`: shares of "the implementation" should be read with that in mind.

### 1.14 How the parts interact

```
 kernel/GRUB/initramfs --slot--> supervisor --fork, SIGTERM--> child_main
       ^    ^                        |  ^                        |   |
   grubenv  partitions          watchdog  SIGTERM, SIGUSR1, exit |   | fork, kill
       |    |                                                    |   v
     updater (a thread of child_main) <--HTTP or tool call-------+  llama-server
 scheduler thread --inference--> llama-server        heartbeat --topology--> callback
```

The supervisor's respawn is visible to the updater (it starts a second
`boot_success_thread`: `ChildRespawn` of `ABUpdate`) and to the scheduler (it
reloads `schedules.json`: `Crash` of `Scheduler`).  The models therefore stay
separate, and each has the neighbour's effect on it as an action.  The services of 1.6 to
1.12 share no state with each other; `MCServices` composes them for one run.

`PROJECT.json` lists the hazards at the line where each bites, with the properties
that would notice it, or the reason why none does.

## 2. Plan

Done, in this order: `Supervisor`, `ABUpdate`, `LlamaServer`, `Scheduler`, `Cluster`, each
with its proofs; `Download` with the abstract `ModelStore`, `Auth`, `Agent`, `Installer`,
`DataMount`, `Mcp`, `WiFi`; the proofs of these services.  Next:

1. Alerts and notifications of the scheduler, the search loop of `compute_next_cron`
   against its reference definition.
2. Capacity and tensor split of `cluster.cpp` as operators.

Runs stay few: one per component of the core and question, one for the services.

## 3. The models

All variables that take part in proofs are numbers, strings or sets; 0 and 1 stand
for the program's flags.  A definition `X_Something` that stands before `X` is a
variant of `X` with a plausible bug; no specification uses it, and a property that no
variant breaks would say nothing of the code.

### 3.1 `Supervisor`

| TLA+ | Code |
|---|---|
| `pc` with `Top`, `Fork`, `PublishPid`, `CheckExited`, `Wait...`, `After`, `PauseEnds`, `FinalKill`, `FinalReap`, `CloseAndUnmount` | `supervisor_run`, 1729-1927, in the order of its statements |
| `SigchldHandler`, `SigTerm`, `SigUsr1` | the handlers, 191-219 |
| `ConsoleYes`, `ConsoleSetReboot`, `ConsoleSetShutdown`, `ConsoleKill` | the three stores and the kill of a confirmed request, 592-629 |
| `KickerEnds`, `WatchdogFires` | the watchdog kicker and the device |
| `ChildInstallHandlers` ... `ChildExits`, `WatcherStops`, `ChildCrashes` | `child_main`, 2262-2268 and 5116-5244 |
| `DbusExits`, `BluetoothdExits`, `OtherExits` | external processes |

What the stored pid denotes is kept (`pidref`: nothing, an error, the current
child, an earlier one) and not the number itself.  fork and the store of its
result are two steps, the test of `g_child_exited` and `waitpid(-1)` are two
steps, and the handler may run between any two.  Clock readings (a crash within
60 s, a restart window of 300 s) are choices made where the code reads the clock.

### 3.2 `ABUpdate`

| TLA+ | Code |
|---|---|
| `part`, `env`, `FactoryEnv` | partitions and grubenv as `post_image.sh` makes them |
| `Grub`, `GrubDecrement` | `grub.cfg`, its `if` chain and both `save_env` |
| `Start` | `initramfs-init.sh` and the first 5 s of child_main |
| `MarkRead`, `MarkWrite`, `MarkFails` | `mark_boot_success`, 650-690: a read and a write of all of grubenv |
| `Install...`, `TrialEnv` | `install_update`, 452-600 |
| `Rollback` | the rollback tool |
| `ChildRespawn`, `PowerCycle` | the supervisor, and the power |

An image is empty, torn, bad (authentic, but its child_main does not live for
5 s) or good.  Rejected update files change nothing and are no step.  Requests in
`Ops` run at the same time, since the code has no lock; writing a partition is two
steps, so that two writers can mix.  `irregular` records three things the
protocol makes no provision for: a respawn of child_main between a switch and the
reboot, a request before the boot is confirmed, a power failure between the two
`save_env` of `grub.cfg`.  Properties about trials are stated with it as a proviso;
`SomeGoodSlot` needs none.

### 3.3 `LlamaServer`

| TLA+ | Code |
|---|---|
| `BootSpawn`, `BootHealth`, `Stop...` | the main thread, start 2384-2424 and clean stop 5203-5244 |
| `Monitor...` | `llama_monitor_thread`, 1540-1588 |
| `Poll...` | the health poller, 1590-1645 |
| `Callback...` | the topology callback, 2541-2649 |
| `Heartbeat...` | the heartbeat's watchdog and recovery, 2652-2762 |
| `Server`, `Sigterm`, `Sigkill`, `Reaps` | llama-server and the kernel (external) |

An action is one access to the shared atomics with the local work around it.  A
zombie keeps its pid until it is waited for, and `kill(pid, 0)` succeeds on it.  The
heartbeat always runs, since child_main starts it unconditionally; the constant `Heartbeat`
only lets an instance leave out its ticks.

The code holds no lock over a restart.  `overlap` is a history variable: it becomes 1 when
a restart by the callback or the heartbeat runs at the same time as another restart (of a
monitor, or of another of these threads), and stays so.  A restart lasts from the moment a
thread takes the engine down, or finds it dead, to the end of its wait for the new one.
`OneServer` and `LoadedIsWatched` hold until then and are false afterwards (section 5).

### 3.4 `Scheduler`

| TLA+ | Code |
|---|---|
| `CreateTask`, `UpdateTask`, `DeleteTask` | 711-877, each under `mutex_`, save included |
| `Collect`, `FireTask`, `SettleTasks` | the three phases of `check_tasks`, 466-536 |
| `Save` | `save_tasks`, 231-286; it may fail, and nobody looks |
| `Crash`, `NextLoaded` | death of child_main and `load_tasks`, 171-229 |
| `NextCron`, `NextRun`, `NextSettled` | the three ways `next_run` is computed |

The cron expression is the set of times that match it.  `fired` counts up to 2
("more than once").  The clock never goes backwards; a change of the system time
is not modelled.

### 3.5 `Cluster`

| TLA+ | Code |
|---|---|
| `Entries`, `Beats`, `Winners`, `Role`, `Elected` | `election_score`, `elect_coordinator`, what `run_election` stores: `cluster.cpp` 10-27, 75-97 |
| `Boot`, `Join` | start of a node in child_main, 2384-2492, and its first discovery and election, 2494-2539 |
| `Expire`, `Discover`, `RunElection`, `Recover` | one pass of the heartbeat, 2652-2749 |
| `CallbackStops`, `CallbackSpawns` | the topology callback, 2541-2643 |
| `Reload`, `AddPeer` | the tool and the endpoint: a second thread per node |
| `Finds`, `Heard` | `discover_services`: all nodes that are up, or fewer; `add_peer` for each |
| `Crash`, `EngineEnds` | external |

A method of `ClusterManager` is one step, since it holds `mu_`.  Time is counted in
heartbeats of 30 s; after the heartbeat has waited for an engine (`slow`) more than one
has passed.  Every node is in the same cluster group with mDNS on and has one address.  It
advertises the RAM and cores it uses for itself; a request of `add-peer` states them as it
likes, so `held` keeps the score at which each node holds each peer: the true one, or one of
`Claims` until the next answer of that peer.  `rpc_endpoint_list` and the spawn that follows
are one step.  The engine is the set of its endpoints; its process, pid and monitors are the
subject of `LlamaServer`.

### 3.6 `ModelStore` and `Download`

`ModelStore` is what a reader of `/data/models` relies on: a file is absent or whole,
becomes whole in one step and stays so.  `Spoil` takes the promise back for single files.

| TLA+ | Code |
|---|---|
| `AsyncTest`, `AsyncSet` | `start_async_download`, 1044-1077: two steps |
| `ToolDownload`, `UsbOpen`, `UsbCopy`, `UsbClose` | the tools, which ask for no flag |
| `AutoUpgradeCheck` | `do_auto_upgrade_check`, `child_main.cpp` 2153-2181, called by the heartbeat without a model (2751) and by the callback |
| `NeedChanges` | what those two look at: whether a model is loaded and an upgrade available |
| `CheckDest`, `StatPart`, `OpenPart`, `Receive`, `CurlError`, `HttpError`, `FlushFails`, `FinishFile` | `download_single_file`, 452-560, and the same in the upgrade |
| `EndJob` | the flags are cleared |
| `DownloadCrash` | death of child_main; files stay |
| `Free...`, `Written`, `Result` | file system and libcurl (external where the map says so) |

Names lead to inodes, so that a thread goes on writing to a file that another has renamed.
`Store` maps `dlDest` and `dlData` to the abstract state, and `dlTainted` to `spoiled`: files
written by two threads at once, imported from USB, whose last bytes were lost at `fclose`, or
whose part kept an error page.  The code gives no promise for those.

`dlNeed` is what would lead to a check: nothing, a bigger model for the cluster, or no model
at all.  It changes freely (`NeedChanges`), since engines and peers come and go, but only
while somebody might look.  `dlCut` is a history variable: child_main has died between the
last byte of a download and its rename.

### 3.7 `Auth`

One action per hold of the lock: `SetupTest`, `ChangeVerify`, `StorePassword`,
`SetSessionTimeout`, `SaveConfig` for the configuration; `LoginCheck`, `LoginVerify`,
`RecordFailedLogin`, `CreateSession` for a login; `RequestCheck`, `RequestTouch`, `Logout`,
`ExpireSessions` for sessions; `AuthRestart` reads `device.json` again.  A password stands for
its hash.  Requests come from one address, which is the unit of the limit.  `auWrong` is a
history: how often, up to each second since the start of the process, that address was told
that a password is wrong.  `GuessesBounded` speaks of every stretch of it, past ones included;
a restart clears the record of failures and the history with it.

### 3.8 `Agent`

`ChatStart` is `handle_chat`, `Ask` and `CacheHit` the lookup, `AnswerText`, `AnswerCalls` and
`AnswerWithoutEngine` what the engine may do, `ToolResult` one dispatch and the end of a
round.  A tool result is cut after 4000 bytes, possibly within a character, and then cannot
be serialised (`Unsendable`): from there on `build_inference_request` throws for this
conversation, outside of any `try` of the loop.  `RequestThrows` ends a turn that way, with
an error 500; in a streamed answer nobody catches it and child_main ends (`ProcessAborts`).
`Truncate` is `ConversationState::truncate`, which is checked on every transcript
that arises and every length.  A conversation that two requests use at once is `Mixed` from
then on and nothing is claimed for it: the code has no lock there.

### 3.9 `Installer`

`InstallTest` and `InstallStart` are the request; `CheckTarget`, `WriteChunk`, `SyncImage`,
`Resize...`, `FormatData`, `FillData` the phases of `install_worker`, each with its failure;
`StreamOpen` and `StreamPoll` the progress stream; `PowerLoss` a restart of the live system.
A disk keeps the pieces of the image it holds, the entries and the header of its table,
the backup, and its data partition.  The outcome of comparing the boot disk's name
with the request is left open (`CheckTarget`): the code compares the two strings as they
are, so that another spelling of the same disk passes, and under `root=LABEL=`, as on the
live medium, there is no name to compare with.  A write that fails may have reached the
disk, in whole or in part.

### 3.10 `DataMount`

One pass of `init_mount_data` per boot: `TryPartition`, `ReadSuperblock`, `GrowTable`,
`WriteEntries`, `WriteHeader`, `WriteBackup`, `MountData`, `RecreateData`; `PowerCycle` at any
moment.  Of a table the end of the last partition is kept, in the entries, in the header's
checksum and in the backup, which is enough to say which copy the kernel takes.

### 3.11 `Mcp`

`LoadKey`, `RegenerateKey`, `OpenKeyFile`, `WriteKeyFile` are the steps at which the file
changes while the lock of the key is held; `ExpireStart`, `CreateMcpSession`, `TouchSession`
the sessions; `McpRestart` a kill at any of them.

### 3.12 `WiFi`

`SendCommand`, `SendFails`, `TakeReply`, `ReplyTimeout` are `wpa()`; `AfterReply` is what
`connect`, `forget`, `disconnect`, `list` and `status` do with the reply they took, which may be
that to an earlier command; `DaemonAnswers`, `LinkUp`, `DaemonRestarts` are wpa_supplicant
(external).  The networks that are saved initially may have a password that is out of date.

## 4. Runs

| Run | Bounds | Properties |
|---|---|---|
| `supervisor_safety` | daemons, one unknown child, limits 1 (763 000 states) | `TypeOK`, `OneChild`, `QuiescentHalt`, `RebootHonoured`, `ExitedMeansReaped` |
| `supervisor_live` | no daemons, one unknown child, limits 1, with and without a watchdog | `RespawnWhenAlone`, `RequestEnds` |
| `supervisor_lost_wakeup` | as above | `RespawnAfterExit` is **violated** |
| `abupdate` | two requests at once; no other bound, the state space is finite | `TypeOK`, `SomeGoodSlot`, `BadBootIsTrial`, `MarkConfirmsBooted`, `BadSlotAbandoned` |
| `abupdate_three` | one request | `ThreeAttempts` is **violated** |
| `llama_full` | heartbeat, one topology change, two pids and monitors, limits 2 and 1 (1.1 million states) | `TypeOK`, `OneServer`, `LoadedIsWatched`, `NoCrashLoop` |
| `llama_live` | the same with a shutdown, the code's limits of 3, up to the first overlap (625 000 states) | `WedgeEnds`, `DeadNotLoaded` |
| `llama_recovery` | heartbeat and one monitor, the code's limits | `RecoveryFires` is **violated** |
| `scheduler` | two tasks, two requests, one crash, clock up to 4 (580 000 states) | `TypeOK`, `OneShotOnce`, `GoneStaysGone`, `PeriodRespected`, `DueIsServed` |
| `cluster` | two nodes with equal scores, expiry after two heartbeats, any two events (469 000 states) | `TypeOK`, `OneCoordinator`, `Converges`, `DeadPeerDropped`, `EngineSettles` |
| `cluster_join` | two nodes, the code's three heartbeats, no failures | `JoinedPeerUsed` is **violated** |
| `services` | see below (1.1 million states) | those of the next table |

`services` runs `MCServices`, in which a variable chosen initially names the service that is at
work; the others rest in an initial state.  That is one state space per service, checked in one run.

| Service | Bounds | Properties, with their parts |
|---|---|---|
| all | | `ServicesTypeOK`: the type invariants of the seven modules |
| `Download` | one file of two pieces, two request threads and the upgrade, two requests, one fault, any need | `ImplementsModelStore`, `UpgradeGetsTheModel` |
| `Download`, `Installer` | | `WorkersAccountedFor`: `FlagMeansRunning`, `EndIsReported` |
| `Auth` | two threads, two passwords, one token, three requests, clock up to 2, one restart, one failing save | `GuessesBounded`; `AnswersStayTrue`: `LogoutIsFinal`, `FileMatchesMemory` |
| `Agent` | two threads, conversations and questions, two rounds of up to two calls, a cache of one entry | `ChatSound`: `TranscriptsPaired`, `TruncateKeepsPairs`, `CacheIsSound`, `TurnsEnd` |
| `Installer` | two requests, three disks (boot disk, larger one, one of the image's size), two faults | `DisksKept`: `ResizeKeepsTable`, `InstalledDiskBoots` |
| `DataMount` | two candidates and a scanned partition on two disks, two boots, two faults, every initial content | `DataKept`: `NoLossWithoutFault`, `ScannedDisksKept`, `NothingSkipped`; `GrowthIsSafe`: `FileSystemFits`, `TableSurvives` |
| `Mcp` | three keys, two sessions, one crash, one failing write | `CredentialsHold`: `KeyPersists`, `RevokedStaysRevoked`, `UsedSessionsKept` |
| `WiFi` | one caller, two names, two calls, two late replies or restarts | `ConnectHonest`: `ConnectTruthful`, `RightPasswordUsed` |

Each part is stated and commented on its own in the module, and for each there is a variant of
a definition (`X_Something`) under which TLC finds that very part violated.

Why the bounds are enough.  A limit of 1 in place of 3 leaves both sides of every
comparison reachable, and the counters have no other use.  One unknown child is
enough to block `waitpid(-1)`; a second adds nothing it does.  Two installing requests are the least that
can write one partition together.  Two pids let an old engine and a new one exist at
once, and a reaped pid may be used again.  Two tasks and two requests (a creation
and a change, or two creations) with one crash meet every phase of `check_tasks`; the period, the `at` and
the match of the cron expression all fall inside the clock's range, so that a
periodic task runs before and after a restart.  In `cluster` an event is a crash, a
discovery that misses a node, a request, or an engine that ends or starts alone; two of
them give a crash during a request's callback, a crash and a lost answer, two crashes.
With a timeout of two heartbeats a peer may miss one discovery and stay, as with three.
Equal scores are the case in which the tie-break decides.  `Claims` is {0}, what a request
without RAM and cores amounts to; a claim that is too high gives the wrong winner just as a
low one does.  `OneCoordinator` for more nodes is what the proof is for.

`llama_live` does not look beyond an overlap (`CONSTRAINT Serial`).  `overlap` stays 1, and
both properties of the run are then fulfilled by their own words, whatever follows; a thread
whose next step would lead there is still owed that step, so that nothing else is lost.

In `services`: two threads are the least that can share a file, a lock or a conversation; one
piece received and one missing is all a resume can tell apart; a limit of one failure leaves
both sides of the comparison and lets two threads pass the check at once; two faults let one
hide another (a failing read and then a failing mount, an error and then a power loss); two
late replies shift the conversation with wpa_supplicant past two commands.

Deadlock is not checked where the system may stop: after power-off (`Supervisor`),
after child_main has ended (`LlamaServer`), when the clock and the requests are used
up (`Scheduler`), when all nodes are down (`Cluster`), when the requests
are used up (`services`).  `ABUpdate` never stops and is checked for it.

### Fairness, and why the code justifies it

* `Supervisor`: threads and processes that can run are scheduled, pending signals
  are delivered, an unkicked watchdog fires.  Nobody has to crash, exit or ask.
* `ABUpdate`: GRUB and the start run by themselves; a machine that did not come up
  is switched off and on (a kernel panic does it, `panic=30`).  A running machine
  need not be rebooted, and an install need not finish.
* `LlamaServer`: each thread keeps running; what the engine does and whether a
  topology changes is owed to nobody.  `NoCrashLoop` carries its own premise and is
  checked without fairness.
* `Scheduler`: the thread's loop goes on and inference returns (it has timeouts).
* `Cluster`: the threads of a node that is up go on; every wait in the callback has a
  timeout.  Nobody has to boot, crash or ask.
* `Download`: the thread of the upgrade goes on, since libcurl gives up on a transfer that
  stalls.  The check is repeated by the heartbeat, and only there: while no model is loaded and
  an upgrade is available (`dlNeed = "model"`).  The callback looks once, for a bigger model,
  and owes nothing.  So `UpgradeGetsTheModel` promises the file if the need for a model lasts.
  Other requests may stop anywhere.
  `TurnsEnd` of `Agent` needs no fairness: it bounds the steps a turn has left.

## 5. What the runs show

The properties that pass hold over every interleaving within the bounds.  Four runs
show a disagreement between the code and what the repository says of it:

* `supervisor_lost_wakeup`.  The comment at `supervisor.cpp:195` says that reaping
  in the handler closes the race with `waitpid(-1)`.  It does for the pid, not for the
  wait: if the handler reaps child_main after line 1802 and PID 1 has any other child,
  `waitpid(-1)` waits for that one, and child_main is not respawned until it exits.
  Without another child `waitpid` fails with ECHILD and the respawn follows
  (`RespawnWhenAlone`).
* `abupdate_three`.  The design promises three attempts.  The chain of `if`s of
  `grub.cfg` (3 to 2, 2 to 1, 1 to 0) has no `else`: one boot runs through all of it, so
  that a slot gets one boot before the switch.
* `llama_recovery`.  The comment on the heartbeat's recovery says it fires within one
  cycle of any crash, also when the monitor has given up.  The monitor leaves the pid
  of the reaped engine in `g_llama_pid` while it clears `g_model_loaded`; the recovery
  wants both cleared, so the engine stays down.
* `cluster_join`.  The design says of a joining node that llama-server is respawned with
  the new endpoints.  `run_election` calls the callback only when the role changes, and
  the election at boot precedes the registration of the callback: a node that boots as
  coordinator goes on alone, and a coordinator that gains a further peer leaves its
  engine as it is.

Further observations, with no run of their own:

* SIGTERM that reaches child_main before `svr.listen()` is lost (5124): `stop()` does
  nothing yet and the watcher ends.  With a watchdog `RequestEnds` covers it.
* A console request between fork and the store of `g_child_pid` (629, 1780) signals
  the previous pid.
* `src/README.md:124` speaks of exponential backoff; the pauses are 2 s and 30 s.
* `mark_boot_success` confirms whatever slot grubenv names (updater 673-676), so a
  respawn after an install confirms the new slot unbooted: the first case of `irregular`.
* The result of writing grubenv is ignored (updater 576, 597); the install is reported
  as done.
* The callback kills the engine and waits for its pid while a monitor waits for the same pid.
  The comment at `child_main.cpp:2598` expects the old monitor to exit early with ECHILD; when
  the monitor is the one that reaps, it takes the exit for a crash, and both spawn.  So can the
  heartbeat and a monitor (2709, 1577).  Two engines then fight for one port, and only the
  last one is known.  `OneServer` and `LoadedIsWatched` hold until two restarts overlap, with
  all threads running: one lock over a restart would be enough.
* The watchdog probes with `kill(pid, 0)` (2702-2707), which succeeds on a zombie: it sees the
  death of an engine only after somebody else has reaped it.  A crashed engine without a
  monitor stays advertised.
* `rpc_endpoint_list` starts with the node itself and is never empty: the branch of the
  callback for an empty list, with its wait of 120 s, is never taken.
* A respawn may follow the stop: the monitor tests `g_running`, sleeps 2 s and spawns (1577).
* After a long callback all peers are expired before they are asked again
  (2669, 2671): the engine is restarted alone, the peers are found a second later, the
  role has not changed, and the engine stays alone.  It is not restarted for ever
  (`EngineSettles`).
* `load_tasks` looks at `at` before `every_seconds` and phase 3 ignores it (scheduler 213):
  a task with both fires again at every restart.
* `add-peer` takes RAM and cores from the request, 0 by default (4484-4489): until the next
  answer of that peer two nodes that know each other may both act as coordinator, or none
  may.  `OneCoordinator` and `Converges` allow for exactly that.
* The mesh design speaks of a 60 s timeout (`2026-03-07-mesh-auto-offload-design.md:126`);
  the code waits 90 s.
* `cluster.h:50` says that a worker runs llama-rpc-server only; a coordinator that
  becomes a worker keeps its llama-server (2543).

Of the services, where the properties carry a proviso or the model made it plain:

* Download: a complete `.part` left by a crash makes the server answer 416 to every attempt of
  the upgrade, which neither renames nor removes it: the upgrade never arrives
  (`dlCut`, the one exception of `UpgradeGetsTheModel` beside spoiled files).  The upgrade keeps and resumes an error page; `download_single_file`
  removes it.  The result of `fclose` is not looked at, nothing is synced before the rename,
  and two requests can pass the test of `active` together (1047).  The USB import truncates the
  final name and ignores write errors.
* Auth: parallel requests get one guess each beyond the limit; a change of the password
  leaves sessions alive.
* Agent: an empty answer is cached for ten minutes; conversations are never freed or
  locked; a turn that runs out of rounds adds no message of the assistant; the separator
  `"\x00"` in the key of the cache is an empty C string.  A tool result that is cut within a
  UTF-8 character (454) stays in the conversation, and each later request of it throws at the
  serialisation (416): the caller gets an error 500, and the streaming route, where the exception
  leaves a content provider, ends child_main.
* Installer: `running` is set at 1081 and never cleared, so that `install.progress` goes on
  reporting it after the end and every further request is refused until a restart; only `finished`
  tells the end (`EndIsReported`).  Failures of fsync, resize, format and mount are reported as
  success; a failed write of the entries (553) may leave a table whose checksum is wrong, under a
  reported success.  The test against the boot disk (802-811) compares strings: it misses another
  spelling of the name, a name that ends in a digit, and every disk under `root=LABEL=`, so no
  property says that the boot disk is spared.  A stream opened before any installation does not end.
* Mount of /data: among the expected names are partitions of other disks, and an ext4 file
  system that the kernel refuses is formatted there.  A torn table is never repaired, and the
  checksum of the header is not verified before the table is rewritten.
* MCP: when the key file cannot be opened the old key is back after a restart.  The
  instructions tell clients to set `confirm`, but `confirmed` is never passed on to dispatch.
* WiFi: a late reply shifts all later ones; three of them, a restart of the daemon during
  the call or two callers can give a false success.  A refused (short) password leaves a network
  without a key behind.  A network that is saved already is selected as it is (496): `connect` cannot replace a
  password that is out of date.
* Outside the models: early returns of `do_console_passwd_setup` leave the prompt open; an
  interface configured by the kernel does not count as Ethernet with an address, so that the
  WiFi fall-back starts (`child_main.cpp`); two threads receive on one mDNS socket; `at` is read
  back as an int (scheduler 201); phase 3 overwrites a schedule that was updated meanwhile
  (517); `schedules.json` is renamed without fsync (272); a node with two interfaces may be known
  by another address than its own (`child_main.cpp` 2487).

## 6. Proofs

| Module | Theorem | States |
|---|---|---|
| `SupervisorProofs` | `TypeCorrect` | `TypeOK` |
| | `OneChildAlways` | `OneChild` |
| | `ExitedAlwaysReaped` | `ExitedMeansReaped` |
| | `HaltIsQuiescent` | `QuiescentHalt` |
| | `RebootAlwaysHonoured` | `RebootHonoured` |
| `ABUpdateProofs` | `TypeCorrect` | `TypeOK` |
| | `GoodSlotSurvives` | `SomeGoodSlot` |
| | `BadBootAlwaysTrial` | `BadBootIsTrial` |
| | `MarkAlwaysBooted` | `MarkConfirmsBooted` |
| `LlamaServerProofs` | `TypeCorrect` | `TypeOK` |
| | `OneServerAlways` | `OneServer`, all threads |
| | `LoadedAlwaysWatched` | `LoadedIsWatched`, all threads |
| `SchedulerProofs` | `TypeCorrect` | `TypeOK` |
| | `GoneNeverReturns` | `GoneStaysGone` |
| | `PeriodAlwaysRespected` | `PeriodRespected` |
| | `OneShotFiresOnce` | `OneShotOnce` |
| `ClusterProofs` | `TypeCorrect` | `TypeOK` |
| | `OneCoordinatorAlways` | `OneCoordinator` |
| `DownloadProofs` | `DownloadTypeCorrect` | `DownloadTypeOK` |
| | `FlagsMeanRunning` | `FlagMeansRunning` |
| | `StoreImplemented` | `ImplementsModelStore` |
| `RequestProofs` | `AgentTypeCorrect` | `AgentTypeOK` |
| | `ChatIsSound` | `ChatSound` |
| | `AuthTypeCorrect` | `AuthTypeOK` |
| | `AnswersAreTrue` | `AnswersStayTrue` |
| | `GuessesAreBounded` | `GuessesBounded` |
| | `McpTypeCorrect` | `McpTypeOK` |
| | `CredentialsAreHeld` | `CredentialsHold` |
| `ServicesProofs` | `InstallTypeCorrect` | `InstallTypeOK` |
| | `EndsAreReported` | `EndIsReported` |
| | `DisksAreKept` | `DisksKept` |
| | `DataMountTypeCorrect` | `DataMountTypeOK` |
| | `DataIsKept` | `DataKept` |
| | `GrowthIsAlwaysSafe` | `GrowthIsSafe` |
| | `WiFiTypeCorrect` | `WiFiTypeOK` |
| | `ConnectIsHonest` | `ConnectHonest` |
| | `ServicesTypesCorrect` | `ServicesTypeOK` |
| | `WorkersAreAccountedFor` | `WorkersAccountedFor` |

They hold for every value of the constants that satisfies the assumption of the module
(`ConstantsAssumption`, or `AuthAssumption`, `WiFiAssumption` and so on): any number of
unknown children, any limits, any number of concurrent installs, pids, tasks, nodes,
requests, threads, disks, networks, faults and crashes.  The assumptions say no more than
that bounds are numbers, that sets which are counted are finite, and that what the code
always has is there: a greatest session timeout, a conversation, a first boot.

**Supervisor.**  `SafetyInv` adds to the properties that outside fork-to-wait
(`publish`, `check`, `wait`) there is no child (`ReapedOutsideWait`): the loop leaves
the wait only on a reaped child, a raised `g_child_exited`, or ECHILD.  `OneChild`
alone is not inductive, since it says nothing of the states before `fork`;
`ExitedMeansReaped` is what makes the early exit at line 1802 safe.  For reboots,
`RebootFlagFirst` says that the reboot flag is already up when a reboot is the first
request, also while the console thread is between its two stores.

**A/B update.**  `SomeGoodSlot` needs `UpIsGood`: a machine that is up runs from a
good slot, and an install writes only the other one, whatever grubenv says.  The trial
properties need `Protocol`: the active slot is good or on trial, the fallback of a
trial is good, what `mark_boot_success` has read is still in grubenv, and no request
runs before the boot is confirmed.  It holds until `irregular` is set.

**llama-server.**  `EngineInv`: until two restarts overlap, a process that has not been reaped
is the one in `g_llama_pid`, at most one monitor is on its way from the reap to the spawn,
and whoever is about to spawn has seen the last engine reaped.  `NoOverlapInv` says that no
restart runs beside another while `overlap` is 0, which is what makes each of these hold from
one step to the next, and `OneServer` follows.  `LoadedIsWatched` needs in addition that nothing is
advertised while an engine is started (`UnloadedInv`) and that the monitor whose engine
answers waits for that very pid (`WatchedInv`).  The theorems are about all threads, any number
of callbacks and the heartbeat; the proviso is `overlap`, and beyond it both statements are
false in the code.

**Scheduler.**  `GoneStaysGone` needs the same fact of the file (`GoneInv`).
`PeriodRespected` needs that no `last_run` is in the future, in memory or on disk
(`PeriodInv`).  `OneShotOnce` needs that file and memory agree on the schedule while
no save has failed, and that a one-shot task is unfired while it waits, and unsettled
or disabled once it was fired (`OnceInv`).  That the search of cron times returns a time
uses the well-foundedness of `<` on the naturals.

**Cluster.**  `OneCoordinator` says nothing of how a role was chosen and is not inductive;
`DecidedInv` adds that a node which has changed nothing since its last election holds the
role its peers and their scores give it (`StandsFor`).  Two nodes that know each other truly
cannot both win, because score and address order any two entries (`BeatsTotal`), for which
addresses must be different, as `ConstantsAssumption` says.

**Downloads.**  `StoreImplemented` is a refinement, proved step by step: each action
maps to a step of `ModelStore` or to a stutter.  `StoreInv` says that an inode belongs to
one shard (`OwnInv`), that a shard with two writers is marked (`SoleInv`), and that the
part of an unmarked one holds a prefix of the model, and its final name the whole
(`CleanInv`).  Without `OwnInv` a rename could put under one name what a descriptor of
another shard still writes.  `NeedChanges` moves none of the files and maps to a stutter.

**Chat.**  `LegalInv` describes a transcript in the middle of a turn: all calls answered,
or those answered so far while a thread still owes the rest.  From it follow the pairing,
whole and cut to any length.  The end of the process empties all transcripts
(`AbortBlanks`).  `TurnsEnd` is an action property: each step of a turn
decreases a measure of rounds and calls.

**Authentication.**  `FileMatchesMemory` needs that who changes the memory is about to save
and that a torn file comes from a save that failed (`Torn`).  The limit on guesses needs
more than the counter: what was told in a recent stretch is in the record of the address
except what threads have yet to count (`CountInv`), and with what threads past the check may
still tell it stays within the limit (`LimitInv`).  A thread that was let in before the
others counted is why the bound is `MaxFailures - 1` plus the number of threads and not
`MaxFailures`.

**MCP.**  The holder of the lock has the newest key, which nobody else knows, and a file it
has truncated is empty until it writes (`HolderInv`); a replaced key is in the file only
when the file could not be opened (`KeysInv`).

**Installer.**  A disk that is not spoiled has one worker, in step with what the disk holds
(`DiskInv`), so the table can be read between any two phases.  Nothing is said of a disk once a
write to it has failed.

**Mount of /data.**  A partition reaches the format without a failing call only if the
kernel refused it, and those before it in the order were ruled out (`SearchInv`).  For the
growth, `TableInv` says of each disk which of entries, header and backup agree at each step,
so that whichever copy the kernel takes ends behind the file system.

**WiFi.**  `HonestInv` relates the datagrams under way to the command each call has
sent.  There is at most one per waiting caller beyond the late ones (`LagInv`).
`StageInv` gives for each stage of `connect()` the queues that up to two late replies
can leave: the reply that is waited for may stand behind none, one or two replies to earlier
commands (`Pend0`, `Pend1`, `Pend2`), and it names the commands these may belong to.  Two
shifts are not enough to make the poll of the state read the link of another network; that
this is as far as it goes is why the property is limited to two.  Without late replies each
reply is that to the last command (`AlignedInv`), and a network of the table without the
right key is one that a `connect()` under way still has to fill or will remove (`DirtyInv`):
together they give `RightPasswordUsed`.

**Services.**  `ServicesImplement` shows that the composition implements each service's own
specification; the two theorems about it follow from those of the parts.

### Only model-checked

All liveness (`RespawnWhenAlone`, `RequestEnds`,
`BadSlotAbandoned`, `WedgeEnds`, `DeadNotLoaded`, `NoCrashLoop`, `DueIsServed`,
`Converges`, `DeadPeerDropped`, `EngineSettles`, `UpgradeGetsTheModel`):
liveness under fairness is beyond the prover.  No module uses recursive operators, so no result depends on induction
over data.  Every invariant, action property and refinement that a passing run checks is
stated by a theorem.

## 7. Not modelled

Besides 1.13: drawing of the console and the first-boot network set-up in
`supervisor.cpp`; the check for updates over HTTP and the parsing of the `.update`
container in `updater.cpp`; alerts and the notification queue in `scheduler.cpp`;
capacity, choice of the model and tensor split in `cluster.cpp`; search, list, deletion and
benchmark of models; hashes, cookies and headers; scan and switching of the WiFi radio; the JSON-RPC
envelope of MCP; the straight line of mounts in `init.cpp`; the contents of prompts, answers and log
lines; integer widths (the truncation of `at` after 2038 among them); power failure between a rename and the disk in
`scheduler.cpp`; a data race on `g_inference_fn`, which is written next to
`g_model_loaded` without a lock.

## 8. Running

```
tlc -workers 2 -config MCSupervisorSafety.cfg MCSupervisor
tlapm SupervisorProofs.tla
```

and likewise for the other configurations (the module of a configuration is in
`PROJECT.json`) and proof modules.
