---------------------------- MODULE StartLifecycle ----------------------------
(***************************************************************************)
(* What a start request promises about its registry entry (spec section 3, *)
(* "Lifecycles", and 4.I, "Rollback discipline"), without the interrupt    *)
(* slot, the launcher or the lock: a request adds its own group at most    *)
(* once, and removes it again only by its own rollback.  An answer of     *)
(* success needs the group registered, and a group registered when its    *)
(* request is answered stays so.  An error answer may still leave the     *)
(* group registered: the status report after a successful launch can fail *)
(* (start.cpp:742-747).  A daemon crash loses requests in flight and       *)
(* leaves the registry as it is (R5).                                      *)
(***************************************************************************)
CONSTANTS Requests

VARIABLES
    registered,   \* the requests whose planned group is in the registry
    phase         \* "new", "in" (added), "out" (not added, or rolled back),
                  \* "kept" (answered OK), "kept_failed" (answered an
                  \* error, group registered), "dropped" (answered an error,
                  \* no group), or "lost"

vars == <<registered, phase>>

Pending == {"new", "in", "out"}

Init ==
    /\ registered = {}
    /\ phase = [r \in Requests |-> "new"]

Register(r) ==
    /\ phase[r] = "new"
    /\ registered' = registered \cup {r}
    /\ phase' = [phase EXCEPT ![r] = "in"]

Refuse(r) ==
    /\ phase[r] = "new"
    /\ phase' = [phase EXCEPT ![r] = "out"]
    /\ UNCHANGED registered

Rollback(r) ==
    /\ phase[r] = "in"
    /\ registered' = registered \ {r}
    /\ phase' = [phase EXCEPT ![r] = "out"]

Answer(r) ==
    /\ phase[r] \in Pending
    /\ \E a \in IF phase[r] = "in" THEN {"kept", "kept_failed"} ELSE {"dropped"} :
           phase' = [phase EXCEPT ![r] = a]
    /\ UNCHANGED registered

Crash ==
    \E lost \in SUBSET {r \in Requests : phase[r] \in Pending} :
        /\ phase' = [r \in Requests |-> IF r \in lost THEN "lost" ELSE phase[r]]
        /\ UNCHANGED registered

Next ==
    \/ \E r \in Requests : Register(r) \/ Refuse(r) \/ Rollback(r) \/ Answer(r)
    \/ Crash

(* No fairness: an answer waits on a launcher that may never exit.        *)
SafetySpec == Init /\ [][Next]_vars
=============================================================================
