-------------------------- MODULE MCStartHandler --------------------------
(* Two concurrent start requests.  PlanSameKey: both plan the same group  *)
(* name and home with different ids, the race the registry's conflict     *)
(* check settles.  PlanSameName: the same group name under two homes.     *)
(* PlanSameKey3: a third request for the same key, which can register     *)
(* after a rollback freed it.                                              *)
(* The file system: c1..c3 are the acloud compatibility paths of ids 1..3. *)
(* MCInitFs is what a host that ran acloud and an earlier cvd looks like:  *)
(* an acloud workspace directory at c1 and c3, a stale link at c2, a      *)
(* legacy directory and a stale link under the system-wide home.          *)
(* PlanCompatHome: a group whose HOME is the compatibility path of another *)
(* group's id, on a clean host.                                            *)
EXTENDS StartHandler, TLC

CONSTANTS c1, c2, c3, g1, g2, h1, h2, n1, r1, r2, r3

MCGroupNames == {g1, g2}
MCHomes == {h1, h2}
MCInstanceNames == {n1}
MCRequests == {r1, r2}

MCRequests3 == {r1, r2, r3}

PlanSameKey ==
    (r1 :> [name |-> g1, home |-> h1, instances |-> <<[id |-> 1, name |-> n1]>>]) @@
    (r2 :> [name |-> g1, home |-> h1, instances |-> <<[id |-> 2, name |-> n1]>>])

PlanSameKey3 ==
    PlanSameKey @@
    (r3 :> [name |-> g1, home |-> h1, instances |-> <<[id |-> 3, name |-> n1]>>])

PlanSameName ==
    (r1 :> [name |-> g1, home |-> h1, instances |-> <<[id |-> 1, name |-> n1]>>]) @@
    (r2 :> [name |-> g1, home |-> h2, instances |-> <<[id |-> 2, name |-> n1]>>])
MCCompatHome2 == (1 :> c1) @@ (2 :> c2)

MCCompatHome == MCCompatHome2 @@ (3 :> c3)

MCInitFs ==
    [p \in Paths |->
        CASE p \in {c1, c3, h2, SystemPath("cuttlefish")} -> Dir
          [] p = c2 -> Link(h2)
          [] p = SystemPath(".cuttlefish_config.json") -> Link(ConfigFile(h2))
          [] OTHER -> Absent]

MCHomesCompat == {h1, c2}

MCCleanFs == [p \in Paths |-> Absent]

PlanCompatHome ==
    (r1 :> [name |-> g1, home |-> c2, instances |-> <<[id |-> 1, name |-> n1]>>]) @@
    (r2 :> [name |-> g2, home |-> h1, instances |-> <<[id |-> 2, name |-> n1]>>])
=============================================================================
