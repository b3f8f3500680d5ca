# TLA+ models of the cvd start path

These modules model the part of the cvd daemon that handles `cvd start`:
- the persistent instance registry, in `selector/instance_database.cpp`;
- the start request handler and the signal forwarding it sets up, in `server_command/start.cpp`.

Every definition is translated from those sources. Where the code calls a collaborator that is not in `src/` (the InstanceManager, the SubprocessWaiter, the launcher binary), the model follows `spec.md`, and PROJECT.json marks that definition `spec_modelled`.

## 1. The system

| Part (spec.md §2) | Code | State | Operations that change state |
|---|---|---|---|
| A PersistentStore | `viewer_` in instance_database.cpp | the `cvd::PersistentData` file | each operation's closure under `WithSharedLock`/`WithExclusiveLock` |
| B InstanceRegistry | `InstanceDatabase` | ordered `instance_groups` and `acloud_translator_optout` | `AddInstanceGroup`, `RemoveInstanceGroup`, `Clear`, `LoadFromJson`, `SetAcloudTranslatorOptout` |
| C Query engine | static `FindGroups` and `FindInstances` | none | none (pure) |
| D HostToolIntrospector | `FindStartBin` and `host_tool_target_manager_` | none | none (reads files) |
| E ArgEnvRewriter | `UpdateInstanceArgsAndEnvs`, `UpdateArgsAndEnvs`, `ConsumeDaemonModeFlag` | none | none (pure) |
| F GroupCreationPlanner | `GetGroupCreationInfo` (the analyzer is not in src/) | none | none |
| G SubprocessSupervisor | `subprocess_waiter_` (not in src/) | the launcher child | Setup, Wait, Interrupt |
| H SignalBridge | `signal_pipe_write_end`, `InterruptHandler`, `HandleInterruptSignals`, `StopHandlingInterruptSignals`, the interrupter thread | the atomic slot, the pipe, the handler disposition | arm, the handler's three exchanges, disarm, read |
| I StartOrchestrator | `Handle`, `LaunchDeviceInterruptible`, `LaunchDevice`, `AcloudCompatActions`, `CvdResetGroup`, `UpdateInstanceDatabase`, `CreateSymlinks` | one handler thread per request; the group homes, the acloud compatibility paths and the system-wide links | register, launch, compatibility cleanup and links, wait, reset, rollback, default-group links, report |

### How the parts interact

The daemon runs each request on a thread of its own, so start requests run in parallel. A start request goes through these steps:
1. It plans a group (F).
2. It arms the process-wide signal slot (H). This is `start.cpp:716`.
3. It adds the group to the registry under the file lock (B over A).
4. It starts the launcher (G). While the launcher runs, `AcloudCompatActions` first removes the existing `TempDir()/acloud_cvd_temp/local-instance-<id>` paths of its ids, and then links them to the group's HOME. After that the request waits for the launcher.
5. If the launcher fails, the request force-stops the group's `run_cvd` processes (`CvdResetGroup`).
6. On any result other than OK, it removes the group again. This is `start.cpp:822-823`.
7. It disarms the slot and joins the interrupter thread.
8. On success, a default group gets its links under the system-wide home (`CreateSymlinks`). After the disarm, the request looks the group up and writes its status to the client.

Signals can arrive on any thread while the slot is armed. The handler writes the signal number into the pipe. The interrupter thread reads the pipe and interrupts the launcher.

### What is hard here

These behaviours are hard to reach with unit tests. Each is listed in `PROJECT.json` under "hazards":
- **Parallel starts.** Two start handlers share the registry and the single slot.
- **Rollback by name.** The rollback removes a group by name, not by identity.
- **Failed force-stop.** The force-stop of `run_cvd` can itself fail.
- **Handler interleavings.** A signal handler can interleave, exchange by exchange, with another handler invocation or with the disarm.
- **Pipe ends.** Which end of the pipe goes where decides whether any signal is ever delivered and whether the pipe is ever closed.
- **Client flags.** The client's own instance flags, `CUTTLEFISH_INSTANCE` and daemon flags must not reach the launcher in a form that starts other ids or runs it in the foreground.
- **Import without checks.** `LoadFromJson` bypasses the registry's conflict checks.
- **Shared paths.** The compatibility cleanup deletes paths by id. A path may be another group's HOME, or this group's own.

## 2. Modules

### `InstanceDatabase.tla`: parts A, B and C

- **State.** `instance_groups` is a sequence of `[name, home, instances]`. An instance is `[id, name]` (`LocalInstance`). The other variable is `acloud_translator_optout`.
- **Atomicity.** Each public operation runs its whole closure under the file lock, so each is one action. A closure that fails leaves the file untouched, which is a step that changes nothing.
- **Validation.** `IsValidGroupName`, `EnsureDirectoryExists` and the other checks run before the lock. They are abstracted into the constant sets of valid names and homes.

How the definitions correspond to the code:
- **Queries.** `FindGroups` and `FindInstances` follow the static functions of the same name, filter by filter (`instance_database.cpp:157-209`).
- **Add.** `AddConflicts` is the pair of checks under the exclusive lock (`:79-95`). `AddInstanceGroup` appends when neither check fires.
- **Remove.** `RemoveInstanceGroup(name)` erases the first group with that name (`:104-117`). It uses `RemoveFirstMatch` from SequencesExt.
- **Import.** `LoadFromJson` appends without any check (`:223-240`).
- **Query lists.** `ParamFromQueries` folds `ApplyQuery` over the client's (field, value) list with `FoldLeft` (`:119-139`):
  - a later query on a field overwrites an earlier one;
  - an unknown field, or an `instance_id` that `ParseInt` rejects, is an error;
  - a query value is the client's text, and ids are turned into text with `ToString`.

### `StartHandler.tla`: part I, composed with the registry

This module EXTENDS `InstanceDatabase`, so the start requests act on the same registry variables.

- **Requests.** Each request `r` has a program counter `pc[r]`. Its values follow the code's steps: start, arm, register, launch, acloud_clean, acloud_link, wait, settle, disarm, done. A request that was in flight when the daemon restarted ends as lost.
- **The group.** `Plan[r]` is the group the analyzer plans for `r`.
- **Handle.** `Handle(r)` covers the early returns of `Handle` (`start.cpp:636-713`): the config-file load, the failed precondition, the rejected HOME and flags, and `--help`. None of them touches the registry.
- **Arm.** `HandleInterruptSignals(r)` models the pipe2 failure and the CHECK on the slot (`:86-100`). The slot is abstracted to the request that armed it; `SignalBridge` refines this part.
- **Register.** `UpdateInstanceDatabase(r)` is `AddInstanceGroup` with its conflict error (`:869-875`). Before the lock, `EnsureDirectoryExists` creates a missing home (`EnsureHome`, `instance_database.cpp:69-71`).
- **File system.** `fs` maps each path the handler names to `Absent`, `Dir` or `Link(target)`. The paths are the homes, `CompatHome[i]` for each id, and the four kinds of link under the system-wide home. `Exists` is `FileExists`, which follows one link. What the launcher writes inside a home, and `HOME/host_bins`, are left out.
- **Compatibility actions.** `AcloudCompatActions` runs after the launcher started. It is two steps, because the launcher and the other requests run between them:
  - `AcloudCompatCleanup(r)` is its first loop (`start.cpp:258-281`). Unless the request is in `AcloudLaunched`, it tries to remove every existing compatibility path of the group's ids: recursively if it is a directory, unlinked otherwise. Any subset of the removals may fail, and the code only logs that (`:277-280`).
  - `AcloudCompatLinks(r)` is its command sequence (`:283-350`). `mkdir -p HOME` runs first. Then one `ln -T -f -s HOME path` runs per id, except for a path that is the HOME itself (`CompatLinks`). The /dev/null open and the executor may fail before any command runs, and any command may fail. In the model, `Ln` fails on a directory, and an unnamed failure may end the sequence after any prefix. In every case the sequence stops at the first failure, which is only logged (`:342-348`, `:797-801`).
- **Default-group links.** `CreateSymlinks` (`:604-634`) runs inside `SettleLaunch` for a request in `DefaultGroup` whose launch succeeded (`SettleFs`, `:832-840`). It passes `SymlinkPlan`'s (target, link) pairs to `EnsureSymlink` (`:144-157`), in order. Any prefix of them may succeed. A failed `symlink()` after the old entry was removed leaves nothing at that path.
- **Launch and wait.** `LaunchDevice(r)` and `WaitLauncher(r)` split `LaunchDevice` at the wait (`:784-814`).
- **Reset.** `CvdResetGroup(r)` either fails with INTERNAL or kills the group's `run_cvd` processes (`:765-782`).
- **Rollback.** `SettleLaunch(r)` removes the group on any status other than OK (`:816-850`).
  - The code calls `InstanceManager::RemoveInstanceGroup`, which is not in `src/`.
  - The code passes the group's home to that call. The spec (§3, `RemoveGroup(group-name)`) and the registry in `src/` remove by group name, and that is what the model does.
- **Disarm and report.** `StopHandlingInterruptSignals(r)` covers the disarm, the join, and the final FindGroup, status fetch and write, any of which may fail (`:735-750`).
- **Child processes.** The launcher and its background `run_cvd` processes have their own actions: `LauncherStartsRunCvd` and `LauncherExits`. `WaitLauncher` returns the launcher's exit status. `SubprocessWaiter` is not in `src/`, and spec §4.G gives `Wait` no failure, so the model has none.
- **Restart.** `RestartDaemon` restarts the daemon after a CHECK abort. The persisted registry survives and in-flight requests are lost.
- **Refinement mapping.** `RequestPhase(r)` maps each request to the abstract phase of `StartLifecycle`. `Lifecycle == INSTANCE StartLifecycle WITH registered <- ..., phase <- ...` brings in the abstract specification.

### `StartLifecycle.tla`: what a start request promises about its group

- **State.** The abstract state is the set of requests whose group is registered, and each request's phase: `new`, `in`, `out`, `kept`, `dropped` or `lost`.
- **Source.** The lifecycle of spec §3 and the rollback discipline of §4.I.
- **Rules.**
  - A request adds its own group at most once (`Register`).
  - It removes that group only through its own rollback (`Rollback`).
  - It is answered success (`kept`) only while its group is registered. It may be answered with an error and the group still registered (`kept_failed`), as when the final report fails (`start.cpp:742-747`) (`Answer`).
  - A group registered when its request is answered stays registered.
  - A crash loses pending requests and leaves the registry as it is (`Crash`).
  - The module gives only `SafetySpec`, with no fairness. An answer waits on a launcher that may never exit.

### `SignalBridge.tla`: part H

- **Steps.** Each atomic operation is one step: an exchange on `signal_pipe_write_end`, a `write`, a `read` or a `close`.
- **Handler.** `InterruptHandler` (`start.cpp:69-84`) is split into four actions, so that handler invocations on several threads interleave with each other and with the request thread:
  - `HandlerTake`
  - `HandlerWrite`
  - `HandlerRestore`
  - `HandlerClose`
- **Request thread.** `HandleInterruptSignals`, `WaitLauncher`, `RestoreDefaultHandlers`, `StopHandlingInterruptSignals` and `Join` are the request thread's steps (`:86-111`, `:716-738`).
- **Interrupter thread.** `InterrupterRead` is the interrupter thread's loop body, with three outcomes: a byte, end of file, or an error.
- **File descriptors.** A descriptor is `<<k, e>>`, meaning `fds[e]` of the k-th `pipe2`.
  - `pipe2` gives the read end in `fds[0]`.
  - A write to a read end and a read from a write end fail with EBADF.
  - A write or close on a descriptor that is already closed is recorded in `misuse`.
- **SlotEnd.** `SlotEnd == 0`: the code stores `fds[0]`, the read end, in the slot and hands `fds[1]` to the interrupter thread (`start.cpp:95`, `:99`). The model treats a write to a full pipe as failing, which is what a non-blocking write does.

### `SignalSlot.tla`: what part H promises

- **State.** The abstract specification (spec §4.H) has no pipe, no slot and no threads. Its state is the request (`idle`, `armed`, `disarmed`, `finished`), its launcher, and counters of arms and signals.
- **Promise.** A signal may interrupt the launcher only while the request is armed. The request disarms only after its launcher is gone. Under the fairness of `Spec`, a signal received while the launcher runs eventually ends it (spec §4.H, scenario 5).
- **Refinement.** `SignalBridge` defines the mapping `RequestState`, which takes the request thread's `mpc` to the abstract request. `Bridge == INSTANCE SignalSlot WITH req <- RequestState, ...` brings in the abstract specification. Two properties check the refinement:
  - `SignalSlotSafety` is `Bridge!SafetySpec`, the abstract specification without fairness;
  - `SignalSlotSpec` is `Bridge!Spec`, the whole abstract specification. It is violated (`signal_lost`).

### `ArgEnvRewriter.tla`: part E

- **State.** The only state is the inputs and one output. The inputs are the request's arguments, the planned ids, the client environment and the flags the launcher accepts. The output is the launcher command.
- **Action.** `BuildLaunchCommand` computes the command once.
- **Operators.** The handler's three rewriting functions are operators, composed in the order `Handle` calls them (`start.cpp:696-698`, `:456-472`):
  - `ConsumeDaemonModeFlag` (`:559-600`);
  - `UpdateInstanceArgsAndEnvs` (`:372-431`);
  - `UpdateArgsAndEnvs` (`:474-512`).
- **HOME.** `NormalizeHome` drops an empty HOME, refuses one starting with `~`, and makes any other HOME absolute against the client's working directory (`start.cpp:660-688`). `EmulateAbsolutePath` is not in `src/`; `AbsolutePath` follows the spec and appends a relative path to that directory.
- **Data.** An argument is a record of a flag key and a value. An id list stays a sequence of numbers, because the launcher parses `Join`'s text back to the same numbers.
- **Properties.** `LaunchedIds` is the launcher's reading of its flags (spec §4.E). It is the reference that the properties compare the command against.

### Fault variants

Each module defines a few operators named `<Definition><Fault>`, for example `CvdResetGroupNoStop` or `AddConflictsNoKeyCheck`. Each one is a plausible coding error in the definition it precedes. PROJECT.json's "mutants" pairs each property of a passing run with a variant that TLC shows breaks it. No specification uses the variants.

## 3. Runs

| Run | cfg | Expect | What it shows |
|---|---|---|---|
| db_registry | InstanceDatabase.cfg | pass | R1 and R2 hold under every sequence of add, remove, clear and opt-out (3 ids, 2 names, 2 homes, up to 3 groups of up to 2 instances). |
| db_query | InstanceDatabaseQuery.cfg | pass | `FindGroups` and `FindInstances` agree with the spec's filter semantics (spec §4.C) for every filter. The reference is stated over index sets. `ParamFromQueries` refuses a query list exactly on an unknown field or a non-numeric id. Otherwise it selects the groups that every query accepts. This holds for every list of up to two queries on distinct fields. The registries checked include the duplicate ids the JSON import can create. |
| db_load | InstanceDatabaseLoad.cfg | violation | `LoadFromJson` breaks R2. |
| start_handler | StartHandler.cfg | pass | See below. |
| start_same_name | StartHandlerSameName.cfg | violation | The rollback of one request erases the running group of another request with the same name. |
| start_abort | StartHandlerAbort.cfg | violation | Two parallel starts abort the daemon on the CHECK at `start.cpp:96`. After the restart, the group of the request that was launching stays registered when its launcher fails. No handler is left to roll it back (`FailedLaunchUnregistered`). |
| start_compat_home | StartHandlerCompatHome.cfg | violation | Group r1 is kept with HOME `local-instance-2` and ids {1}, and its `run_cvd` is running. The next start, with ids {2}, removes that HOME recursively and then links the path to its own home (`RegisteredHomeNeverRemoved`). |
| signal_bridge | SignalBridge.cfg | pass | With the code's slot end, no descriptor is written or closed after it was closed, and the slot's descriptor is released. The bridge refines the safety part of `SignalSlot`. |
| arg_rewriter | ArgEnvRewriter.cfg | pass | See below. |
| signal_threads | SignalBridgeThreads.cfg | violation | With handlers on two threads, the slot's descriptor leaks. |
| signal_pipe | SignalBridgePipe.cfg | violation | With the code's slot end, `fds[1]` is never closed. |
| signal_lost | SignalBridgeLost.cfg | violation | Two signals arrive while the launcher runs. The handler's writes to the read end fail with EBADF, and the interrupter thread has already exited on its read of the write end. The launcher is never interrupted and the request keeps waiting (`SignalSlotSpec`). |

The `start_handler` run has three requests. All three plan the same group name and home, each with its own id. A third request can therefore register the key after a rollback has freed it. They race through arm, register, launch, the compatibility actions, reset and rollback. Two of them are default groups, and the third is launched by acloud. The host starts as one that acloud and an earlier daemon used:
- `c1` and `c3` are acloud workspace directories;
- `c2` is a stale link to another home;
- the system-wide `cuttlefish` is a legacy directory, and `.cuttlefish_config.json` is a stale link.

It checks:
- **`NoUnregisteredDevice`:** a launcher or `run_cvd` process is never alive without its group in the registry, unless the answer was INTERNAL.
- **`StartLifecycleSafety`:** the handler refines `StartLifecycle!SafetySpec`. Its registry steps only add a request's own group or roll that group back. A request is answered success only while its group is registered. A group registered when its request is answered stays registered, across the abort and the restart. Under the same-name plan of `start_same_name`, this refinement fails too, for the reason that run shows.

The compatibility step makes no promise that a run could check. Its removals and commands may all fail, and the code only logs that. No liveness is checked either, because `Wait` has no timeout.

The `arg_rewriter` run enumerates every request of up to two arguments. The arguments are daemon aliases with six values, client instance flags, and an unrelated flag. It also enumerates every plan of one to three distinct ids from {1,2,3}, client environments with or without `CUTTLEFISH_INSTANCE` and with five kinds of HOME (empty, `~`, `~/w`, relative, absolute), and every subset of the launcher's optional flags. It checks:
- **`LaunchedIdsArePlanned`:** the command starts exactly the planned ids, in order, in daemon mode.
- **`RejectsAsSpecified`:** a request is refused exactly when spec §4.E says it must be.

`ParamFromQueries` lets a later query on a field overwrite an earlier one. The spec calls the filter fields AND-combined, but it does not say what a repeated field means. So the property covers only lists that name each field once.

When force-stopping `run_cvd` fails, the group is removed anyway, and the answer is INTERNAL with "cvd reset" guidance. The spec's §4.I sentence "no orphan run_cvd process lacks a Registry entry" does not allow for that. Its own failure semantics, "INTERNAL with operator guidance", do. `NoUnregisteredDevice` states the code's version.

Spec scenario 2 expects a home conflict for two groups at one home with different names. R1 and the code allow it. This is an inconsistency inside the spec, so no run checks it.

The findings each violation run supports are in PROJECT.json under "findings".

### Bounds

- **Registry: 3 ids, 2 names, 2 homes.** This is enough for every conflict shape:
  - same key;
  - same name at another home;
  - same home under another name;
  - a shared id;
  - a removal that hits the first of two groups with the same name.
- **File system: the paths the plans name.** There is one compatibility path per id and the four system-wide links. The initial host in `start_handler` has a directory, a stale link and an absent entry among them. So every branch of the cleanup, of `ln` and of `EnsureSymlink` is reached. `start_compat_home` starts from a clean host, so that the removed home can only have come from the start handler.
- **Start requests: two or three.** Two is the smallest number that races, and the violation runs use two. `start_handler` uses three, so that a request can register a key a rollback has just freed while the first request is still waiting. Each plans a group of one instance, because the handler's control flow does not depend on the group's size. Between them, the requests exercise every branch:
  - a conflict after the other request registered;
  - a rollback that does or does not race with the other request;
  - the abort, with its restart.
- **ArgEnvRewriter: plans of up to 3 ids.** This reaches both encodings: a run, an unsorted list, and a gap. It also reaches single and multiple instances, every refusal, and a client `CUTTLEFISH_INSTANCE` that collides with the plan. The unsigned `is_consecutive` test is wrong only for a sorted list with a duplicate and at least four ids, for example 1,2,2,4. The model's plans are distinct, because the analyzer that produces them is not in this repository.
- **SignalBridge: one request, two signals, a pipe of capacity one.** This reaches a full pipe, a second signal while the first is buffered, and every order of the handler's three exchanges against the disarm. The `signal_threads` run uses two threads so that handler invocations nest.

### Fairness

- **StartHandler.** These actions are weakly fair:
  - each request's own steps, because a handler thread runs until it blocks;
  - the restart after an abort.

  The launcher's exit is not fair. A launcher that hangs would block `Wait` forever, because the code has no timeout and no signal can interrupt it (`signal_lost`). This is listed as a hazard, and no liveness of the handler is claimed.
- **StartLifecycle.** It has no fairness; `SafetySpec` is the specification the handler refines.
- **SignalBridge.** These steps are weakly fair: a started handler's remaining steps, the request thread, and the interrupter thread. Neither signal delivery nor the launcher's own exit is fair, so the liveness part of `SignalSlotSpec` cannot be met by the launcher exiting on its own. `SignalSlot.Spec` itself is fair on arm, disarm, finish and interrupt only. Each of these is a step the concrete threads take by themselves.

## 4. Not modelled, and the plan

- **Empty and duplicate plans** (`start.cpp:403-406`). `max_element` of an empty list is undefined behaviour. A sorted list with a duplicate, such as 1,2,2,4, passes `is_consecutive` and launches instances 1 to 4. Both need a plan that the creation analyzer would have to produce, and the analyzer is not in this repository.
- **Registry changes by other handlers** (`instance_database.cpp:52-63`, `:104-117`). The handlers that issue `Clear` and `RemoveInstanceGroup` (`cvd clear`, `cvd remove`) are not in this repository. So it is unknown whether they stop a group's devices before erasing its entry. The start handler's own side of that race is a rollback by name on a changed registry, which `start_same_name` already shows.
- **The final lookup** (`start.cpp:742`). It finds the group by name alone, through `InstanceManager::FindGroup`, which is not in `src/`. The model lets it fail nondeterministically.
- **Left out: lockfiles.** `MarkLockfiles`/`MarkLockfilesInUse` (`start.cpp:352-364`, `:847`) act on lockfiles that the creation analyzer acquired, outside `src/`. A failure is only logged.
- **Default-group link consistency.** No property checks it. Default groups share the default HOME, so only one of them can be registered at a time, and no such property could be violated. The prefix-failure behaviour of `CreateSymlinks` is modelled and runs in `start_handler`.
- **Left out: HostToolIntrospector.** It is pure file I/O.
