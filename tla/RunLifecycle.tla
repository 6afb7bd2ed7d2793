---------------------------- MODULE RunLifecycle ----------------------------
(***************************************************************************)
(* What a benchmark run promises, without saying how: iterations happen    *)
(* only between Setup and Teardown, at most Budget of them, Teardown       *)
(* happens once when Setup was attempted and only after every iteration    *)
(* ended, and the verdict of the load phase is settled when it stops and   *)
(* can only get worse afterwards.                                          *)
(***************************************************************************)
EXTENDS Naturals

CONSTANTS
    Users,   \* the virtual users
    Budget   \* iterations a bounded run may begin

VARIABLES
    bounded,  \* whether the run is bounded by Budget
    phase,    \* "idle", "setup", "load", "cleanup" or "over"
    running,  \* users with an iteration in progress
    budget,   \* iterations that may still begin
    failed,   \* the run is known to have failed
    cleanups   \* Teardown has run

lifecycleVars == <<bounded, phase, running, budget, failed, cleanups>>

Init ==
    /\ bounded \in BOOLEAN
    /\ phase = "idle"
    /\ running = {}
    /\ budget = Budget
    /\ failed = FALSE
    /\ cleanups = 0

\* The run is refused before Setup: there is nothing to tear down.
Refuse ==
    /\ phase = "idle"
    /\ phase' = "over"
    /\ failed' = TRUE
    /\ UNCHANGED <<bounded, running, budget, cleanups>>

Prepare ==
    /\ phase = "idle"
    /\ phase' = "setup"
    /\ UNCHANGED <<bounded, running, budget, failed, cleanups>>

SetupDone ==
    /\ phase = "setup"
    /\ \/ phase' = "load" /\ UNCHANGED failed
       \/ phase' = "cleanup" /\ failed' = TRUE
    /\ UNCHANGED <<bounded, running, budget, cleanups>>

Begin(u) ==
    /\ phase = "load"
    /\ u \notin running
    /\ running' = running \cup {u}
    /\ bounded => budget > 0
    /\ budget' = IF bounded THEN budget - 1 ELSE budget
    /\ UNCHANGED <<bounded, phase, failed, cleanups>>

End(u) ==
    /\ u \in running
    /\ running' = running \ {u}
    /\ UNCHANGED <<bounded, phase, budget, failed, cleanups>>

LoadDone ==
    /\ phase = "load"
    /\ running = {}
    /\ phase' = "cleanup"
    /\ failed' \in BOOLEAN
    /\ UNCHANGED <<bounded, running, budget, cleanups>>

\* Teardown, exactly once; it may fail a run but not rescue one.
Cleanup ==
    /\ phase = "cleanup"
    /\ phase' = "over"
    /\ cleanups' = cleanups + 1
    /\ failed' \in BOOLEAN
    /\ failed => failed'
    /\ UNCHANGED <<bounded, running, budget>>

Next ==
    \/ Refuse \/ Prepare \/ SetupDone \/ LoadDone \/ Cleanup
    \/ \E u \in Users : Begin(u) \/ End(u)

Spec == Init /\ [][Next]_lifecycleVars

=============================================================================
