--------------------------- MODULE ArgEnvRewriter ---------------------------
(***************************************************************************)
(* How the start handler turns a client's "cvd start" arguments into the   *)
(* launcher's command line (server_command/start.cpp): Handle() consumes   *)
(* the --daemon/--nodaemon flags and appends --daemon=true, then           *)
(* UpdateArgsAndEnvs() replaces the instance flags through                 *)
(* UpdateInstanceArgsAndEnvs() and adds --group_id and the environment.    *)
(*                                                                         *)
(* An argument is a record [key, value]: key is the flag as the matcher    *)
(* sees it ("--daemon" for the exact alias, "--daemon=" for the prefix     *)
(* alias), value what follows it.  Numbers are kept as numbers and an id   *)
(* list as a sequence: android::base::Join and std::to_string produce     *)
(* text the launcher parses back to the same numbers.                      *)
(***************************************************************************)
EXTENDS Naturals, Sequences, SequencesExt, TLC

CONSTANTS
    IdPool,          \* instance ids the creation analyzer may assign
    MaxInstances,    \* largest group
    DaemonValues,    \* values a client may give to --daemon=
    Lower,           \* Lower[v]: v folded to lower case (EqualsIgnoreCase)
    CommaValues,     \* the daemon values that contain a comma
    LauncherFlags    \* flags the launcher may or may not accept (ReadFlag)

ASSUME Lower \in [DaemonValues -> STRING] /\ CommaValues \subseteq DaemonValues

VARIABLES
    args,       \* the subcommand arguments of the request
    ids,        \* the instance ids of the planned group, in creation order
    envs,       \* the request's environment
    supported,  \* the flags the host tool accepts
    cmd         \* the launcher command Handle() builds, or NoCommand

vars == <<args, ids, envs, supported, cmd>>

NoCommand == [ok |-> FALSE, why |-> "pending"]

Arg(k, v) == [key |-> k, value |-> v]

Has(a, k) == \E i \in DOMAIN a : a[i].key = k

(* gflags keeps the last occurrence of a flag.                            *)
ValueOf(a, k) == a[SelectLastInSeq(a, LAMBDA x : x.key = k)].value

-----------------------------------------------------------------------------
(* ConsumeDaemonModeFlag(): every argument matching one of the six        *)
(* aliases is removed; the setter accepts an exact alias without "no",    *)
(* and a value without a comma that equals y, yes or true ignoring case.  *)
(* A value equal to n, no or false, or any other value, is an error.      *)
ExactDaemonKeys == {"-daemon", "--daemon", "-nodaemon", "--nodaemon"}
PrefixDaemonKeys == {"-daemon=", "--daemon="}

IsDaemonFlag(x) == x.key \in ExactDaemonKeys \cup PrefixDaemonKeys

(* Fault variant: an exact alias accepted without looking for "no".       *)
DaemonSetterOkAnyExact(x) ==
    IF x.key = x.value
    THEN TRUE
    ELSE /\ x.value \notin CommaValues
         /\ Lower[x.value] \in {"y", "yes", "true"}

DaemonSetterOk(x) ==
    IF x.key = x.value
    THEN x.key \notin {"-nodaemon", "--nodaemon"}
    ELSE /\ x.value \notin CommaValues
         /\ Lower[x.value] \in {"y", "yes", "true"}

ConsumeDaemonModeFlag(a) ==
    IF \A i \in DOMAIN a : IsDaemonFlag(a[i]) => DaemonSetterOk(a[i])
    THEN [ok |-> TRUE, args |-> SelectSeq(a, LAMBDA x : ~IsDaemonFlag(x))]
    ELSE [ok |-> FALSE, why |-> "daemon"]

-----------------------------------------------------------------------------
(* UpdateInstanceArgsAndEnvs(): discard the old instance flags, then      *)
(* either --instance_nums with every id, or, for a sorted run with        *)
(* max - min = size - 1, --num_instances (more than one id), an optional  *)
(* --base_instance_num and CUTTLEFISH_INSTANCE=min.  A flag the launcher  *)
(* must accept and does not is an error.                                  *)
InstanceKeys == {"--instance_nums=", "--num_instances=", "--base_instance_num="}

(* Fault variant: the client's instance flags are not discarded.          *)
UpdateInstanceArgsAndEnvsKeepOld(a, e, s, sup) ==
    LET max == Max(Range(s))
        min == Min(Range(s))
    IN
    IF max - min # Len(s) - 1 \/ ~IsSorted(s, <=)
    THEN IF "instance_nums" \in sup
         THEN [ok |-> TRUE, args |-> Append(a, Arg("--instance_nums=", s)), envs |-> e]
         ELSE [ok |-> FALSE, why |-> "instance_nums"]
    ELSE IF Len(s) > 1 /\ "num_instances" \notin sup
         THEN [ok |-> FALSE, why |-> "num_instances"]
         ELSE [ok |-> TRUE,
               args |-> a
                        \o (IF Len(s) > 1 THEN <<Arg("--num_instances=", Len(s))>> ELSE <<>>)
                        \o (IF "base_instance_num" \in sup
                            THEN <<Arg("--base_instance_num=", min)>> ELSE <<>>),
               envs |-> ("CUTTLEFISH_INSTANCE" :> min) @@ e]

UpdateInstanceArgsAndEnvs(a, e, s, sup) ==
    LET new_args == SelectSeq(a, LAMBDA x : x.key \notin InstanceKeys)
        max == Max(Range(s))
        min == Min(Range(s))
        is_consecutive == max - min = Len(s) - 1
        is_sorted == IsSorted(s, <=)
    IN
    IF ~is_consecutive \/ ~is_sorted
    THEN IF "instance_nums" \in sup
         THEN [ok |-> TRUE, args |-> Append(new_args, Arg("--instance_nums=", s)),
               envs |-> e]
         ELSE [ok |-> FALSE, why |-> "instance_nums"]
    ELSE IF Len(s) > 1 /\ "num_instances" \notin sup
         THEN [ok |-> FALSE, why |-> "num_instances"]
         ELSE [ok |-> TRUE,
               args |-> new_args
                        \o (IF Len(s) > 1 THEN <<Arg("--num_instances=", Len(s))>> ELSE <<>>)
                        \o (IF "base_instance_num" \in sup
                            THEN <<Arg("--base_instance_num=", min)>> ELSE <<>>),
               envs |-> ("CUTTLEFISH_INSTANCE" :> min) @@ e]

(* UpdateArgsAndEnvs(): the instance flags, then --group_id if the        *)
(* launcher accepts it, then the fixed environment of the launcher.       *)
UpdateArgsAndEnvs(a, e, s, sup) ==
    LET r == UpdateInstanceArgsAndEnvs(a, e, s, sup) IN
    IF ~r.ok THEN r
    ELSE [ok |-> TRUE,
          args |-> IF "group_id" \in sup THEN Append(r.args, Arg("--group_id=", "group"))
                                       ELSE r.args,
          envs |-> ("HOME" :> "home" @@ "ANDROID_HOST_OUT" :> "host_out"
                    @@ "ANDROID_PRODUCT_OUT" :> "product_out"
                    @@ "ANDROID_SOONG_HOST_OUT" :> "host_out" @@ "CVD_MARK" :> "true")
                   @@ r.envs]

(* Handle(), the client's HOME: an empty one is dropped, one starting     *)
(* with "~" refused, any other made absolute against the client's working *)
(* directory by EmulateAbsolutePath(), which appends a relative path to   *)
(* it.                                                                     *)
ClientCwd == "/cwd"

AbsolutePath(p) == IF IsPrefix("/", p) THEN p ELSE ClientCwd \o "/" \o p

NormalizeHome(e) ==
    IF "HOME" \notin DOMAIN e THEN [ok |-> TRUE, envs |-> e]
    ELSE IF e["HOME"] = "" THEN [ok |-> TRUE, envs |-> [k \in DOMAIN e \ {"HOME"} |-> e[k]]]
    ELSE IF IsPrefix("~", e["HOME"]) \/ IsPrefix("~/", e["HOME"])
         THEN [ok |-> FALSE, why |-> "home"]
    ELSE [ok |-> TRUE, envs |-> [e EXCEPT !["HOME"] = AbsolutePath(e["HOME"])]]

(* Handle(): HOME is normalised, the daemon flags are consumed and         *)
(* --daemon=true appended before the analyzer plans the group from the    *)
(* same arguments and environment; the plan then goes through             *)
(* UpdateArgsAndEnvs().                                                     *)
LaunchCommand(a, e, s, sup) ==
    LET h == NormalizeHome(e)
        d == ConsumeDaemonModeFlag(a)
    IN
    IF ~h.ok THEN h
    ELSE IF ~d.ok THEN d
    ELSE UpdateArgsAndEnvs(Append(d.args, Arg("--daemon=", "true")), h.envs, s, sup)

-----------------------------------------------------------------------------
(* The inputs: argument lists of up to two arguments, id lists the        *)
(* analyzer can plan (nonempty, ids distinct), and a client environment  *)
(* with or without its own CUTTLEFISH_INSTANCE or HOME.                  *)
InputArgs ==
    {Arg(k, k) : k \in {"--daemon", "--nodaemon", "-nodaemon"}}
    \cup {Arg("--daemon=", v) : v \in DaemonValues}
    \cup {Arg("--num_instances=", 2), Arg("--base_instance_num=", 5), Arg("--cpus=", 4)}

PlannedIds ==
    { s \in SeqOf(IdPool, MaxInstances) \ {<<>>} :
        \A i, j \in DOMAIN s : s[i] = s[j] => i = j }

ClientEnvs ==
    {<<>>, "CUTTLEFISH_INSTANCE" :> 7} \cup {"HOME" :> v : v \in {"", "~", "~/w", "w", "/h"}}

Init ==
    /\ args \in SeqOf(InputArgs, 2)
    /\ ids \in PlannedIds
    /\ envs \in ClientEnvs
    /\ supported \in SUBSET LauncherFlags
    /\ cmd = NoCommand

BuildLaunchCommand ==
    /\ cmd = NoCommand
    /\ cmd' = LaunchCommand(args, envs, ids, supported)
    /\ UNCHANGED <<args, ids, envs, supported>>

(* The command is built once; the request then goes on with it.           *)
Built ==
    /\ cmd # NoCommand
    /\ UNCHANGED vars

Next == BuildLaunchCommand \/ Built

Spec == Init /\ [][Next]_vars

-----------------------------------------------------------------------------
(* How the launcher reads its command line (spec 4.E): --instance_nums    *)
(* lists the ids; otherwise --num_instances ids (default one) starting at *)
(* --base_instance_num, or else at CUTTLEFISH_INSTANCE.  A launcher given *)
(* neither starts at its own default, which no plan uses (0 here).        *)
LaunchedIds(c) ==
    IF Has(c.args, "--instance_nums=") THEN ValueOf(c.args, "--instance_nums=")
    ELSE LET n == IF Has(c.args, "--num_instances=")
                  THEN ValueOf(c.args, "--num_instances=") ELSE 1
             base == IF Has(c.args, "--base_instance_num=")
                     THEN ValueOf(c.args, "--base_instance_num=")
                     ELSE IF "CUTTLEFISH_INSTANCE" \in DOMAIN c.envs
                          THEN c.envs["CUTTLEFISH_INSTANCE"] ELSE 0
         IN [i \in 1..n |-> base + i - 1]

(* The command the start handler hands to the launcher starts exactly the *)
(* planned instances, in the planned order, whatever instance flags and   *)
(* CUTTLEFISH_INSTANCE the client sent and whichever flags the host tool  *)
(* accepts, and it runs the launcher in daemon mode.                      *)
LaunchedIdsArePlanned ==
    cmd.ok =>
        /\ LaunchedIds(cmd) = ids
        /\ ValueOf(cmd.args, "--daemon=") = "true"

(* Spec 4.E: a request is refused exactly when its HOME starts with "~",   *)
(* when it carries --nodaemon or a --daemon value that is not y/yes/true, *)
(* or when the encoding the spec calls for (--instance_nums unless the    *)
(* ids are a strictly increasing run, --num_instances for a run of        *)
(* several) needs a flag the launcher does not accept.                    *)
SpecDaemonOk(x) ==
    \/ x.key \in {"-daemon", "--daemon"}
    \/ x.key \in PrefixDaemonKeys /\ x.value \notin CommaValues
                                 /\ Lower[x.value] \in {"y", "yes", "true"}

SpecRejects(a, e, s, sup) ==
    LET run == IsSorted(s, <) /\ Max(Range(s)) - Min(Range(s)) = Len(s) - 1 IN
    \/ "HOME" \in DOMAIN e /\ IsPrefix("~", e["HOME"])
    \/ \E i \in DOMAIN a : IsDaemonFlag(a[i]) /\ ~SpecDaemonOk(a[i])
    \/ ~run /\ "instance_nums" \notin sup
    \/ run /\ Len(s) > 1 /\ "num_instances" \notin sup

RejectsAsSpecified ==
    cmd # NoCommand => (~cmd.ok <=> SpecRejects(args, envs, ids, supported))
=============================================================================
