----------------------------- MODULE SignalSlot -----------------------------
(***************************************************************************)
(* What the interrupt forwarding of the start handler promises (spec 4.H), *)
(* with the pipe, the atomic slot and the threads abstracted away: one     *)
(* request at a time arms the bridge around its launcher; a signal that    *)
(* arrives while it is armed may interrupt the launcher, and nothing else  *)
(* does; the request disarms only after its launcher is gone, and then     *)
(* lets the next request arm.  A signal received while the launcher runs   *)
(* ends it unless it exits first.                                         *)
(***************************************************************************)
EXTENDS Naturals

CONSTANTS
    NumArms,     \* requests that arm the bridge, one after the other
    MaxSignals   \* bound on signals delivered in a behaviour

VARIABLES
    req,      \* the request: "idle", "armed", "disarmed" or "finished"
    child,    \* its launcher: "none", "running", "exited" or "interrupted"
    arms,     \* requests that have armed so far
    signals   \* signals received so far

vars == <<req, child, arms, signals>>

Init ==
    /\ req = "idle"
    /\ child = "none"
    /\ arms = 0
    /\ signals = 0

Arm ==
    /\ req = "idle" /\ arms < NumArms
    /\ req' = "armed"
    /\ child' = "running"
    /\ arms' = arms + 1
    /\ UNCHANGED signals

Signal ==
    /\ req = "armed" /\ signals < MaxSignals
    /\ signals' = signals + 1
    /\ UNCHANGED <<req, child, arms>>

Interrupt ==
    /\ child = "running" /\ signals > 0
    /\ child' = "interrupted"
    /\ UNCHANGED <<req, arms, signals>>

LauncherExits ==
    /\ child = "running"
    /\ child' = "exited"
    /\ UNCHANGED <<req, arms, signals>>

Disarm ==
    /\ req = "armed" /\ child # "running"
    /\ req' = "disarmed"
    /\ UNCHANGED <<child, arms, signals>>

Finish ==
    /\ req = "disarmed"
    /\ req' = IF arms < NumArms THEN "idle" ELSE "finished"
    /\ child' = "none"
    /\ UNCHANGED <<arms, signals>>

Next == Arm \/ Signal \/ Interrupt \/ LauncherExits \/ Disarm \/ Finish

(* The request keeps going, and a received signal is acted on; signals    *)
(* and the launcher's own exit are not forced.                            *)
Spec ==
    /\ Init /\ [][Next]_vars
    /\ WF_vars(Arm) /\ WF_vars(Disarm) /\ WF_vars(Finish) /\ WF_vars(Interrupt)

SafetySpec == Init /\ [][Next]_vars
=============================================================================
