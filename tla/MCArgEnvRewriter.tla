-------------------------- MODULE MCArgEnvRewriter --------------------------
EXTENDS ArgEnvRewriter

(* Daemon values of every kind the setter tells apart: true spellings in   *)
(* several cases, false spellings, a value with a comma, an unknown value. *)
MCDaemonValues == {"true", "Yes", "n", "FALSE", "yes,no", "on"}

MCLower ==
    "true" :> "true" @@ "Yes" :> "yes" @@ "n" :> "n" @@ "FALSE" :> "false"
    @@ "yes,no" :> "yes,no" @@ "on" :> "on"

MCCommaValues == {"yes,no"}

MCLauncherFlags == {"instance_nums", "num_instances", "base_instance_num", "group_id"}
=============================================================================
