---------------------------- MODULE StartHandler ----------------------------
(***************************************************************************)
(* The "cvd start" / "launch_cvd" request handler of the cvd daemon        *)
(* (server_command/start.cpp, CvdStartCommandHandler::Handle and the       *)
(* functions it calls), composed with the instance registry it mutates.    *)
(*                                                                         *)
(* Several requests run concurrently, one handler thread each.  A request  *)
(* plans a group (the creation analyzer, outside this module: Plan), arms  *)
(* the process-wide interrupt handler, adds its group to the registry,     *)
(* launches the launcher, waits for it, and either keeps the group or      *)
(* force-stops the group's run_cvd processes and removes the group again.  *)
(* The launcher and the run_cvd processes it leaves in the background are  *)
(* processes of their own, with actions of their own.                      *)
(*                                                                         *)
(* The interrupt handler's slot is abstracted here to the request whose    *)
(* pipe it holds; SignalBridge models its atomic protocol.                 *)
(***************************************************************************)
EXTENDS InstanceDatabase

CONSTANTS
    Requests,   \* concurrent start requests
    Plan,       \* Plan[r]: the group the creation analyzer plans for r
    ClosedFd,   \* CLOSED_FD: no interrupt handler armed
    AcloudLaunched, \* requests whose envs hold LAUNCHED_BY_ACLOUD=true
    DefaultGroup,   \* requests whose plan has is_default_group set
    CompatHome,     \* CompatHome[i]: TempDir()/acloud_cvd_temp/local-instance-<i>
    InitFs          \* what the file system holds when the daemon starts

ASSUME Plan \in [Requests -> Group]
ASSUME ClosedFd \notin Requests

VARIABLES
    pc,                     \* where each request's handler thread is
    signal_pipe_write_end,  \* whose pipe the interrupt handler writes to
    daemon,                 \* "up", or "aborted" after a failed CHECK
    launcher,               \* the launcher child of each request
    run_cvd,                \* run_cvd processes of the request's group alive
    status,                 \* the outcome the handler has reached
    fs                      \* the entries at the paths the handler touches

vars == <<instance_groups, acloud_translator_optout, pc, signal_pipe_write_end,
          daemon, launcher, run_cvd, status, fs>>

(* Outcomes of a request that never reaches the registry.                 *)
EarlyOutcomes == {"load", "failed_precondition", "invalid", "help"}

(* Outcomes of a request that armed the handler.                          *)
LaunchOutcomes == {"none", "ok", "error", "child_failed", "internal", "report_failed"}

Registered(r) == \E k \in DOMAIN instance_groups : instance_groups[k] = Plan[r]

Goto(r, from, to) == pc[r] = from /\ pc' = [pc EXCEPT ![r] = to]

-----------------------------------------------------------------------------
(* The file system, abstracted to the paths the handler names: the group  *)
(* homes, the acloud compatibility paths CompatHome[i], and the legacy    *)
(* links under the system-wide user home.  An entry is absent, a real     *)
(* directory, or a symbolic link to a target path.  What the launcher     *)
(* writes inside a home, and HOME/host_bins, are left out.                *)
Absent == [kind |-> "absent"]
Dir == [kind |-> "dir"]
Link(t) == [kind |-> "link", to |-> t]

SystemPath(name) == <<"system_home", name>>
RuntimeLink(i) == <<"system_home", "cuttlefish_runtime", i>>

SystemPaths ==
    {SystemPath("cuttlefish"), SystemPath(".cuttlefish_config.json"),
     SystemPath("cuttlefish_runtime")} \cup {RuntimeLink(i) : i \in InstanceIds}

Paths == Homes \cup Range(CompatHome) \cup SystemPaths

(* The paths inside a group home the system-wide links point to.          *)
InstanceDir(h, i) == <<h, "cuttlefish/instances/cvd", i>>
CuttlefishDir(h) == <<h, "cuttlefish">>
ConfigFile(h) == <<h, "cuttlefish/assembly/cuttlefish_config.json">>

Targets ==
    Homes \cup {RuntimeLink(i) : i \in InstanceIds} \cup
    {InstanceDir(h, i) : h \in Homes, i \in InstanceIds} \cup
    {CuttlefishDir(h) : h \in Homes} \cup {ConfigFile(h) : h \in Homes}

Entries == {Absent, Dir} \cup {Link(t) : t \in Targets}

ASSUME \A i, j \in InstanceIds : CompatHome[i] = CompatHome[j] => i = j
ASSUME InitFs \in [Paths -> Entries]

(* FileExists(path): a symbolic link counts when its target exists.        *)
Exists(p) ==
    \/ fs[p].kind = "dir"
    \/ fs[p].kind = "link" /\ fs[p].to \in Paths /\ fs[fs[p].to].kind # "absent"

(* EnsureDirectoryExists(home): a missing home is created.                *)
EnsureHome(f, h) == IF f[h].kind = "absent" THEN [f EXCEPT ![h] = Dir] ELSE f

-----------------------------------------------------------------------------
(* Handle(), lines before the interrupt handler is armed: the config-file  *)
(* branch forwards a "cvd load" sub-request, a failed precondition returns *)
(* FAILED_PRECONDITION, a HOME starting with "~", a missing                *)
(* ANDROID_HOST_OUT, a rejected --daemon/--nodaemon value or a failed      *)
(* analysis return an error, --help runs the help child and returns its   *)
(* status; none of them touches the registry.                             *)
Handle(r) ==
    /\ daemon = "up"
    /\ \/ /\ Goto(r, "start", "done")
          /\ \E o \in EarlyOutcomes : status' = [status EXCEPT ![r] = o]
       \/ /\ Goto(r, "start", "arm")
          /\ UNCHANGED status
    /\ UNCHANGED <<instance_groups, acloud_translator_optout, signal_pipe_write_end,
                   daemon, launcher, run_cvd, fs>>

(* HandleInterruptSignals(): a failed pipe2 returns an error; otherwise    *)
(* the pipe is swapped into the process-wide slot and CHECK aborts the     *)
(* daemon if another request's handler was still armed.  The interrupter  *)
(* thread is started in the same step.                                    *)
HandleInterruptSignals(r) ==
    /\ daemon = "up"
    /\ \/ /\ Goto(r, "arm", "done")
          /\ status' = [status EXCEPT ![r] = "error"]
          /\ UNCHANGED <<signal_pipe_write_end, daemon>>
       \/ /\ pc[r] = "arm"
          /\ signal_pipe_write_end' = r
          /\ IF signal_pipe_write_end = ClosedFd
             THEN /\ pc' = [pc EXCEPT ![r] = "register"]
                  /\ UNCHANGED daemon
             ELSE /\ daemon' = "aborted"
                  /\ UNCHANGED pc
          /\ UNCHANGED status
    /\ UNCHANGED <<instance_groups, acloud_translator_optout, launcher, run_cvd, fs>>

(* UpdateInstanceDatabase(): AddInstanceGroup makes sure the home exists, *)
(* then adds the group under the exclusive lock; a conflict is returned   *)
(* as the launch result with nothing to roll back.                        *)
UpdateInstanceDatabase(r) ==
    /\ daemon = "up"
    /\ fs' = EnsureHome(fs, Plan[r].home)
    /\ \/ /\ AddConflicts(instance_groups, Plan[r])
          /\ Goto(r, "register", "disarm")
          /\ status' = [status EXCEPT ![r] = "error"]
          /\ UNCHANGED dbVars
       \/ /\ AddInstanceGroup(Plan[r])
          /\ Goto(r, "register", "launch")
          /\ UNCHANGED status
    /\ UNCHANGED <<signal_pipe_write_end, daemon, launcher, run_cvd>>

(* LaunchDevice() up to the wait: a request asking for WAIT_BEHAVIOR_START *)
(* or a launcher that fails to start is an error; otherwise the launcher   *)
(* runs and the acloud compatibility actions follow.                      *)
LaunchDevice(r) ==
    /\ daemon = "up"
    /\ \/ /\ Goto(r, "launch", "settle")
          /\ status' = [status EXCEPT ![r] = "error"]
          /\ UNCHANGED launcher
       \/ /\ Goto(r, "launch", "acloud_clean")
          /\ launcher' = [launcher EXCEPT ![r] = "running"]
          /\ UNCHANGED status
    /\ UNCHANGED <<instance_groups, acloud_translator_optout, signal_pipe_write_end,
                   daemon, run_cvd, fs>>

(* The compatibility paths of the group's ids that the first loop of       *)
(* AcloudCompatActions() removes: all that exist, unless the request's     *)
(* envs hold LAUNCHED_BY_ACLOUD=true.                                      *)
CompatPathsToRemove(r) ==
    IF r \in AcloudLaunched THEN {}
    ELSE {p \in {CompatHome[i] : i \in Ids(Plan[r])} : Exists(p)}

(* AcloudCompatActions(), first loop, while the launcher already runs: a  *)
(* real directory is removed recursively, anything else unlinked; any    *)
(* removal may fail, which is only logged and leaves the entry.           *)
AcloudCompatCleanup(r) ==
    /\ daemon = "up"
    /\ Goto(r, "acloud_clean", "acloud_link")
    /\ \E failed \in SUBSET CompatPathsToRemove(r) :
           fs' = [p \in Paths |-> IF p \in CompatPathsToRemove(r) \ failed
                                  THEN Absent ELSE fs[p]]
    /\ UNCHANGED <<instance_groups, acloud_translator_optout, signal_pipe_write_end,
                   daemon, launcher, run_cvd, status>>

(* The links the second loop asks for, in instance order: one per id,     *)
(* except a compatibility path that is the home itself.                   *)
CompatLinks(g) ==
    SelectSeq([k \in DOMAIN g.instances |-> CompatHome[g.instances[k].id]],
              LAMBDA p : p # g.home)

(* One "ln -T -f -s target link" of the command sequence: it replaces a   *)
(* file or link and fails on a directory; the sequence stops at the first *)
(* failing command.                                                        *)
Ln(acc, target, link) ==
    IF ~acc.ok \/ acc.fs[link].kind = "dir" THEN [acc EXCEPT !.ok = FALSE]
    ELSE [acc EXCEPT !.fs[link] = Link(target)]

(* AcloudCompatActions(), the command sequence: "mkdir -p HOME" (which    *)
(* fails on a dangling link), then the links.  Opening /dev/null or the   *)
(* executor may fail before any command runs, and a command may fail for  *)
(* a reason the model does not name (a missing acloud_cvd_temp), which    *)
(* ends the sequence after some prefix of the links.  Failure is logged  *)
(* and the launch goes on.                                                 *)
AcloudCompatLinks(r) ==
    LET h == Plan[r].home
        L == CompatLinks(Plan[r])
        made == [fs |-> EnsureHome(fs, h), ok |-> fs[h].kind # "link" \/ Exists(h)]
        Run(n) == FoldLeft(LAMBDA acc, p : Ln(acc, h, p), made, SubSeq(L, 1, n)).fs
    IN /\ daemon = "up"
       /\ Goto(r, "acloud_link", "wait")
       /\ fs' \in {fs} \cup {Run(n) : n \in 0..Len(L)}
       /\ UNCHANGED <<instance_groups, acloud_translator_optout, signal_pipe_write_end,
                      daemon, launcher, run_cvd, status>>

CvdResetGroup(r) ==
    \/ /\ status' = [status EXCEPT ![r] = "internal"]
       /\ UNCHANGED run_cvd
    \/ /\ run_cvd' = [run_cvd EXCEPT ![r] = FALSE]
       /\ status' = [status EXCEPT ![r] = "child_failed"]

(* Fault variant: the raw exit information returned as the outcome.      *)
WaitLauncherRawStatus(r) ==
    /\ daemon = "up"
    /\ Goto(r, "wait", "settle")
    /\ launcher[r] \in {"exited", "failed"}
    /\ status' = [status EXCEPT ![r] = launcher[r]]
    /\ UNCHANGED <<instance_groups, acloud_translator_optout, signal_pipe_write_end,
                   daemon, launcher, run_cvd, fs>>

(* LaunchDevice() after the wait: the subprocess waiter returns once the  *)
(* launcher has exited; an unsuccessful exit resets the group.            *)
WaitLauncher(r) ==
    /\ daemon = "up"
    /\ Goto(r, "wait", "settle")
    /\ launcher[r] \in {"exited", "failed"}
    /\ IF launcher[r] = "exited"
       THEN /\ status' = [status EXCEPT ![r] = "ok"]
            /\ UNCHANGED run_cvd
       ELSE CvdResetGroup(r)
    /\ UNCHANGED <<instance_groups, acloud_translator_optout, signal_pipe_write_end,
                   daemon, launcher, fs>>

(* The (target, link) pairs CreateSymlinks() hands to EnsureSymlink(), in *)
(* order: per instance its runtime link, "cuttlefish" and the config link, *)
(* then "cuttlefish_runtime" to the link of the smallest id.              *)
SymlinkPlan(g) ==
    LET PerInstance(k) ==
            << <<InstanceDir(g.home, g.instances[k].id), RuntimeLink(g.instances[k].id)>>,
               <<CuttlefishDir(g.home), SystemPath("cuttlefish")>>,
               <<ConfigFile(g.home), SystemPath(".cuttlefish_config.json")>> >>
    IN FlattenSeq([k \in DOMAIN g.instances |-> PerInstance(k)]) \o
       << <<RuntimeLink(Min(Ids(g))), SystemPath("cuttlefish_runtime")>> >>

(* EnsureSymlink(target, link) that succeeds: whatever is at link, a      *)
(* directory or a file, is removed and the link made.                     *)
EnsureSymlink(f, pair) == [f EXCEPT ![pair[2]] = Link(pair[1])]

(* CreateSymlinks(): the home is made sure to exist, then the links are    *)
(* made in order; the first failing step ends it, a failed symlink() after *)
(* the old entry was removed leaving nothing at that path.  Its failure is *)
(* only logged.                                                            *)
CreateSymlinks(f, g) ==
    LET L == SymlinkPlan(g)
        After(k) == FoldLeft(EnsureSymlink, EnsureHome(f, g.home), SubSeq(L, 1, k))
    IN {f} \cup {After(k) : k \in 0..Len(L)} \cup
       {[After(k) EXCEPT ![L[k + 1][2]] = Absent] : k \in 0..Len(L) - 1}

(* What a successful launch does to the file system before it answers:   *)
(* the default group's symlinks; the lockfiles it marks in use are the    *)
(* creation analyzer's and are left out.                                  *)
SettleFs(r) ==
    IF r \in DefaultGroup THEN fs' \in CreateSymlinks(fs, Plan[r]) ELSE UNCHANGED fs

(* Fault variant: rollback only when LaunchDevice() itself failed.        *)
SettleLaunchOnlyOnError(r) ==
    /\ daemon = "up"
    /\ Goto(r, "settle", "disarm")
    /\ IF status[r] = "error"
       THEN RemoveInstanceGroup(Plan[r].name) /\ UNCHANGED fs
       ELSE UNCHANGED dbVars /\ SettleFs(r)
    /\ UNCHANGED <<signal_pipe_write_end, daemon, launcher, run_cvd, status>>

(* LaunchDeviceInterruptible() after LaunchDevice(): any result other     *)
(* than OK removes the group again (InstanceManager::RemoveInstanceGroup, *)
(* which the registry serves by group name); OK creates the default-group *)
(* symlinks and marks the lockfiles in use, both best effort.             *)
SettleLaunch(r) ==
    /\ daemon = "up"
    /\ Goto(r, "settle", "disarm")
    /\ IF status[r] # "ok"
       THEN RemoveInstanceGroup(Plan[r].name) /\ UNCHANGED fs
       ELSE UNCHANGED dbVars /\ SettleFs(r)
    /\ UNCHANGED <<signal_pipe_write_end, daemon, launcher, run_cvd, status>>

(* StopHandlingInterruptSignals(), the join, and the rest of Handle(): a  *)
(* successful launch looks its group up, fetches and writes its status;   *)
(* any of those failing turns the response into an error.                 *)
StopHandlingInterruptSignals(r) ==
    /\ daemon = "up"
    /\ Goto(r, "disarm", "done")
    /\ signal_pipe_write_end' = ClosedFd
    /\ \/ status[r] # "ok" /\ UNCHANGED status
       \/ status[r] = "ok" /\ status' = [status EXCEPT ![r] = "report_failed"]
       \/ status[r] = "ok" /\ UNCHANGED status
    /\ UNCHANGED <<instance_groups, acloud_translator_optout, daemon, launcher, run_cvd, fs>>

-----------------------------------------------------------------------------
(* The launcher child: with --daemon=true it leaves run_cvd processes in  *)
(* the background and exits 0 once the devices booted, or fails, possibly *)
(* after run_cvd processes were started.                                  *)
LauncherStartsRunCvd(r) ==
    /\ launcher[r] = "running"
    /\ ~run_cvd[r]
    /\ run_cvd' = [run_cvd EXCEPT ![r] = TRUE]
    /\ UNCHANGED <<instance_groups, acloud_translator_optout, pc, signal_pipe_write_end,
                   daemon, launcher, status, fs>>

LauncherExits(r) ==
    /\ launcher[r] = "running"
    /\ \/ run_cvd[r] /\ launcher' = [launcher EXCEPT ![r] = "exited"]
       \/ launcher' = [launcher EXCEPT ![r] = "failed"]
    /\ UNCHANGED <<instance_groups, acloud_translator_optout, pc, signal_pipe_write_end,
                   daemon, run_cvd, status, fs>>

(* After an abort the daemon is started again: the registry is reread     *)
(* from its file, the interrupt slot starts closed, and requests that      *)
(* were in flight are lost.  Children keep running.                        *)
RestartDaemon ==
    /\ daemon = "aborted"
    /\ daemon' = "up"
    /\ signal_pipe_write_end' = ClosedFd
    /\ pc' = [r \in Requests |-> IF pc[r] \in {"start", "done"} THEN pc[r] ELSE "lost"]
    /\ UNCHANGED <<instance_groups, acloud_translator_optout, launcher, run_cvd, status, fs>>

(* Every request has been answered or lost and every launcher has exited. *)
Quiescent ==
    /\ daemon = "up"
    /\ \A r \in Requests : pc[r] \in {"done", "lost"} /\ launcher[r] # "running"
    /\ UNCHANGED vars

-----------------------------------------------------------------------------
Init ==
    /\ DBInit
    /\ pc = [r \in Requests |-> "start"]
    /\ signal_pipe_write_end = ClosedFd
    /\ daemon = "up"
    /\ launcher = [r \in Requests |-> "none"]
    /\ run_cvd = [r \in Requests |-> FALSE]
    /\ status = [r \in Requests |-> "none"]
    /\ fs = InitFs

RequestStep(r) ==
    \/ Handle(r)
    \/ HandleInterruptSignals(r)
    \/ UpdateInstanceDatabase(r)
    \/ LaunchDevice(r)
    \/ AcloudCompatCleanup(r)
    \/ AcloudCompatLinks(r)
    \/ WaitLauncher(r)
    \/ SettleLaunch(r)
    \/ StopHandlingInterruptSignals(r)

Next ==
    \/ \E r \in Requests : RequestStep(r)
    \/ \E r \in Requests : LauncherStartsRunCvd(r) \/ LauncherExits(r)
    \/ RestartDaemon
    \/ Quiescent

(* Each handler thread keeps running while it can, and a crashed daemon is *)
(* restarted by its next client.  The launcher gets no fairness: Wait has *)
(* no timeout, and nothing forces a hung launcher to exit.               *)
Fairness ==
    /\ \A r \in Requests : WF_vars(RequestStep(r))
    /\ WF_vars(RestartDaemon)

Spec == Init /\ [][Next]_vars /\ Fairness

-----------------------------------------------------------------------------
TypeOK ==
    /\ DBTypeOK
    /\ pc \in [Requests -> {"start", "arm", "register", "launch", "acloud_clean",
                             "acloud_link", "wait", "settle", "disarm", "done", "lost"}]
    /\ signal_pipe_write_end \in Requests \cup {ClosedFd}
    /\ daemon \in {"up", "aborted"}
    /\ launcher \in [Requests -> {"none", "running", "exited", "failed"}]
    /\ run_cvd \in [Requests -> BOOLEAN]
    /\ status \in [Requests -> EarlyOutcomes \cup LaunchOutcomes]
    /\ fs \in [Paths -> Entries]

(* The rollback discipline of the start handler: a launcher or run_cvd    *)
(* process of a request is never alive while the request's group is       *)
(* missing from the registry, unless the handler answered INTERNAL, the   *)
(* answer that tells the user to run "cvd reset" because force-stopping   *)
(* the group's run_cvd processes failed.                                   *)
NoUnregisteredDevice ==
    \A r \in Requests :
        launcher[r] = "running" \/ run_cvd[r] =>
            Registered(r) \/ status[r] = "internal"

(* A group's home is its devices' working directory for as long as the    *)
(* group is registered; AcloudCompatActions() itself logs that a HOME     *)
(* which is an acloud workspace "will be deleted by next cvd start".  So   *)
(* no step removes or replaces the home directory of a registered group,  *)
(* its own start's compatibility cleanup included.                         *)
RegisteredHomeNeverRemoved ==
    [][\A r \in Requests :
          Registered(r) /\ fs[Plan[r].home] = Dir => fs'[Plan[r].home] = Dir]_vars

(* Spec 4.I and the group lifecycle of section 3: a group whose launcher  *)
(* failed is destroyed by its request's rollback, and R5 keeps what the    *)
(* registry holds across a daemon restart.  So a group stays registered    *)
(* with a failed launcher only while its own handler is still waiting or  *)
(* rolling back.  A restart after the CHECK abort in                        *)
(* HandleInterruptSignals() loses the request that would roll it back.     *)
FailedLaunchUnregistered ==
    \A r \in Requests :
        Registered(r) /\ launcher[r] = "failed" => pc[r] \in {"wait", "settle"}
-----------------------------------------------------------------------------
(* The refinement mapping to StartLifecycle: a request is "new" until it   *)
(* reaches the registry step, then "in" or "out" as its group is or is not *)
(* registered; once answered it is "kept" after OK, "kept_failed" after a  *)
(* successful launch whose status report failed, "dropped" otherwise.     *)
RequestPhase(r) ==
    CASE pc[r] = "lost" -> "lost"
      [] pc[r] = "done" -> CASE status[r] = "ok" -> "kept"
                             [] status[r] = "report_failed" -> "kept_failed"
                             [] OTHER -> "dropped"
      [] pc[r] \in {"start", "arm", "register"} -> "new"
      [] OTHER -> IF Registered(r) THEN "in" ELSE "out"

Lifecycle == INSTANCE StartLifecycle
    WITH registered <- {r \in Requests : Registered(r)},
         phase <- [r \in Requests |-> RequestPhase(r)]

(* The start handler implements the safety part of the group lifecycle:  *)
(* its registry steps only ever add a request's own group once or roll    *)
(* that group back, so a rollback never erases another request's group;  *)
(* OK is answered only while the request's group is registered; a group   *)
(* registered when its request is answered stays registered, across the    *)
(* CHECK abort and the restart.                                            *)
StartLifecycleSafety == Lifecycle!SafetySpec
=============================================================================
