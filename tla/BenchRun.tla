------------------------------ MODULE BenchRun ------------------------------
(***************************************************************************)
(* One call of bench.Run (pkg/bench/runtime.go): resolve the workload,     *)
(* open the driver, run Setup, start one goroutine per virtual user (VU),  *)
(* wait for all of them, then unwind the deferred cleanups.  The VUs share *)
(* an atomic iteration counter (or a deadline), a cancellable context and  *)
(* a channel of capacity one for the first fatal error.                    *)
(*                                                                         *)
(* The workload (Setup, Iterate, Teardown) and the driver constructor are  *)
(* the environment: they may succeed, fail, or notice cancellation.        *)
(***************************************************************************)
EXTENDS Integers, FiniteSets

CONSTANTS
    NumVUs,      \* scenarioSpec.vus
    Iterations,  \* scenarioSpec.iterations
    Executors,   \* the values of scenarioSpec.executor
    MaxLoops     \* bound: iterations that fit before a constant-vus deadline

ASSUME BenchRunAssumption ==
    /\ NumVUs \in Nat \ {0}      \* spec() rejects vus < 1
    /\ Iterations \in Nat \ {0}  \* spec() rejects iterations < 1
    /\ Executors \subseteq {"shared-iterations", "constant-vus"}
    /\ MaxLoops \in Nat

VARIABLES
    executor,     \* scenarioSpec.executor, settled before Run starts
    main,         \* where Run (the main goroutine) stands
    result,       \* the kinds of error joined in retErr, {} for nil
    ctxDone,      \* the context passed to Run is cancelled
    cancelled,    \* runScenario's own cancel() has been called
    fatalErrors,  \* content of the fatalErrors channel: a VU, or 0 if empty
    remaining,    \* the shared atomic iteration counter
    expired,      \* time.Now() has passed the constant-vus deadline
    spawned,      \* workers started so far
    pc,           \* where each worker goroutine stands
    returned,     \* how each runWorker returned
    loops,        \* iterations begun by all VUs (iterTest summed)
    late,         \* history: iterations a VU began under a cancelled context
    driver,       \* the opened driver: "none", "open" or "closed"
    teardowns,    \* calls of Workload.Teardown
    metricsUp     \* the meter provider is alive

runVars    == <<executor, main, result, driver, teardowns, metricsUp, spawned>>
cancelVars == <<ctxDone, cancelled, fatalErrors>>
loadVars   == <<remaining, expired, loops, late>>
vars == <<runVars, cancelVars, loadVars, pc, returned>>

VUs == 1..NumVUs

Shared == executor = "shared-iterations"

ErrorKinds == {"rejected", "dispatch", "setup", "fatal", "canceled", "teardown"}

TypeOK ==
    /\ executor \in Executors
    /\ main \in {"define", "open", "setup", "spawning", "waiting", "teardown",
                 "closing", "reporting", "over"}
    /\ result \in SUBSET ErrorKinds
    /\ ctxDone \in BOOLEAN
    /\ cancelled \in BOOLEAN
    /\ fatalErrors \in VUs \cup {0}
    /\ remaining \in Int
    /\ expired \in BOOLEAN
    /\ spawned \in 0..NumVUs
    /\ pc \in [VUs -> {"idle", "keep", "check", "begin", "iterating", "report",
                       "cancel", "stopped"}]
    /\ returned \in [VUs -> {"no", "exhausted", "failed", "canceled", "fatal"}]
    /\ loops \in Nat
    /\ late \in [VUs -> Nat]
    /\ driver \in {"none", "open", "closed"}
    /\ teardowns \in Nat
    /\ metricsUp \in BOOLEAN

Init ==
    /\ executor \in Executors
    /\ main = "define"
    /\ result = {}
    /\ ctxDone = FALSE
    /\ cancelled = FALSE
    /\ fatalErrors = 0
    /\ remaining = Iterations
    /\ expired = FALSE
    /\ spawned = 0
    /\ pc = [v \in VUs |-> "idle"]
    /\ returned = [v \in VUs |-> "no"]
    /\ loops = 0
    /\ late = [v \in VUs |-> 0]
    /\ driver = "none"
    /\ teardowns = 0
    /\ metricsUp = FALSE

-----------------------------------------------------------------------------
(* The main goroutine.                                                     *)

\* scenarioCtx is derived from Run's ctx, so either cancellation ends it.
ScenarioDone == ctxDone \/ cancelled

\* What an operation interrupted by cancellation may add to its own error.
MaybeCanceled(kind) ==
    {{kind}} \cup (IF ctxDone THEN {{kind, "canceled"}} ELSE {})

\* Lookup, defineWorkload, spec or newRootState fails: nothing is deferred yet.
Reject ==
    /\ main = "define"
    /\ main' = "over"
    /\ result' = {"rejected"}
    /\ UNCHANGED <<executor, driver, teardowns, metricsUp, spawned>>
    /\ UNCHANGED <<cancelVars, loadVars, pc, returned>>

\* newRootState succeeds: metrics are live and their deferred cleanup is armed.
NewRoot ==
    /\ main = "define"
    /\ main' = "open"
    /\ metricsUp' = TRUE
    /\ UNCHANGED <<executor, result, driver, teardowns, spawned>>
    /\ UNCHANGED <<cancelVars, loadVars, pc, returned>>

\* A missing driver, a negative timeout or a failed Dispatch returns before the
\* workload's Teardown is deferred; a dispatched driver leads to Setup.
Dispatch ==
    /\ main = "open"
    /\ \/ /\ main' = "setup"
          /\ driver' = "open"
          /\ UNCHANGED result
       \/ /\ main' = "closing"
          /\ result' \in MaybeCanceled("dispatch")
          /\ UNCHANGED driver
    /\ UNCHANGED <<executor, teardowns, metricsUp, spawned>>
    /\ UNCHANGED <<cancelVars, loadVars, pc, returned>>

\* Mutant: Teardown is deferred only once Setup has succeeded.
SkipTeardown == "closing"

\* Teardown is deferred before Setup is called, so a failed Setup leads to it.
AfterFailedSetup == "teardown"

Setup ==
    /\ main = "setup"
    /\ \/ /\ main' = "spawning"
          /\ UNCHANGED result
       \/ /\ main' = AfterFailedSetup
          /\ result' \in MaybeCanceled("setup")
    /\ UNCHANGED <<executor, driver, teardowns, metricsUp, spawned>>
    /\ UNCHANGED <<cancelVars, loadVars, pc, returned>>

\* End of the loop over sc.vus.
AllSpawned(n) == n = NumVUs

\* startWorker for the next VU: the goroutine runs while the others start.
Spawn ==
    /\ main = "spawning"
    /\ spawned' = spawned + 1
    /\ pc' = [pc EXCEPT ![spawned + 1] = "keep"]
    /\ main' = IF AllSpawned(spawned + 1) THEN "waiting" ELSE "spawning"
    /\ UNCHANGED <<executor, result, driver, teardowns, metricsUp>>
    /\ UNCHANGED <<cancelVars, loadVars, returned>>

\* Mutant: a worker joins the WaitGroup only once it has started working.
AllStoppedEarly == \A v \in VUs : pc[v] \in {"keep", "stopped"}

\* wg.Wait: every wg.Go function has returned.
AllStopped == \A v \in VUs : pc[v] = "stopped"

\* Mutant: cancellation masks a fatal error.
CancelFirst ==
    IF ctxDone THEN {{"canceled"}}
    ELSE IF fatalErrors # 0 THEN {{"fatal"}} ELSE {{}}

\* What runScenario returns: a fatal error in the channel outranks ctx.Err().
ScenarioErrors ==
    IF fatalErrors # 0 THEN MaybeCanceled("fatal")
    ELSE IF ctxDone THEN {{"canceled"}} ELSE {{}}

\* wg.Wait returns, the error is chosen and the deferred cancel() runs.
Collect ==
    /\ main = "waiting"
    /\ AllStopped
    /\ main' = "teardown"
    /\ result' \in ScenarioErrors
    /\ cancelled' = TRUE
    /\ UNCHANGED <<executor, driver, teardowns, metricsUp, spawned>>
    /\ UNCHANGED <<ctxDone, fatalErrors, loadVars, pc, returned>>

\* The deferred Workload.Teardown, under a context detached from cancellation.
Teardown ==
    /\ main = "teardown"
    /\ main' = "closing"
    /\ teardowns' = teardowns + 1
    /\ result' \in {result, result \cup {"teardown"}}
    /\ UNCHANGED <<executor, driver, metricsUp, spawned>>
    /\ UNCHANGED <<cancelVars, loadVars, pc, returned>>

\* root.sharedSlots: made empty by newRootState, and no code adds a slot.
SharedSlots == {}

\* RootState.Teardown closes the driver of every shared slot.
RootTeardown ==
    /\ main = "closing"
    /\ main' = "reporting"
    /\ driver' = IF SharedSlots = {} THEN driver ELSE "closed"
    /\ UNCHANGED <<executor, result, teardowns, metricsUp, spawned>>
    /\ UNCHANGED <<cancelVars, loadVars, pc, returned>>

\* sum.print reads the metrics, then shutdownMetrics stops their provider.
ShutdownMetrics ==
    /\ main = "reporting"
    /\ main' = "over"
    /\ metricsUp' = FALSE
    /\ UNCHANGED <<executor, result, driver, teardowns, spawned>>
    /\ UNCHANGED <<cancelVars, loadVars, pc, returned>>

Main == \/ Reject \/ NewRoot \/ Dispatch \/ Setup \/ Spawn \/ Collect
        \/ Teardown \/ RootTeardown \/ ShutdownMetrics

-----------------------------------------------------------------------------
(* The worker goroutines.                                                  *)

Goto(v, label) == pc' = [pc EXCEPT ![v] = label]

Return(v, how, label) ==
    /\ Goto(v, label)
    /\ returned' = [returned EXCEPT ![v] = how]

\* Mutants: the budget is compared off by one, in either direction.
GrantedOneMore(n) == n >= -1
GrantedOneLess(n) == n > 0

\* The counter's new value n entitles the worker to an iteration.
Granted(n) == n >= 0

\* keep() of shared-iterations: an atomic decrement; a refused worker leaves.
KeepShared(v) ==
    /\ Shared
    /\ pc[v] = "keep"
    /\ remaining' = remaining - 1
    /\ \/ /\ Granted(remaining - 1)
          /\ Goto(v, "check")
          /\ UNCHANGED returned
       \/ /\ ~Granted(remaining - 1)
          /\ Return(v, "exhausted", "stopped")
    /\ UNCHANGED <<runVars, cancelVars, expired, loops, late>>

\* keep() of constant-vus compares the clock with the deadline; MaxLoops
\* bounds how many iterations fit before it.
KeepUntilDeadline(v) ==
    /\ ~Shared
    /\ pc[v] = "keep"
    /\ \/ /\ ~expired
          /\ loops < MaxLoops
          /\ Goto(v, "check")
          /\ UNCHANGED returned
       \/ /\ expired
          /\ Return(v, "exhausted", "stopped")
    /\ UNCHANGED <<runVars, cancelVars, loadVars>>

\* Mutant: the loop does not look at its context.
Unchecked == FALSE

\* ctx.Err() # nil at the head of the loop.
ContextErr == ScenarioDone

CheckContext(v) ==
    /\ pc[v] = "check"
    /\ \/ /\ ContextErr
          /\ Return(v, "canceled", "stopped")
       \/ /\ ~ContextErr
          /\ Goto(v, "begin")
          /\ UNCHANGED returned
    /\ UNCHANGED <<runVars, cancelVars, loadVars>>

\* iterTest++ and the call of iterate: the context may be cancelled since.
BeginIteration(v) ==
    /\ pc[v] = "begin"
    /\ Goto(v, "iterating")
    /\ loops' = loops + 1
    /\ late' = [late EXCEPT ![v] = IF ScenarioDone THEN @ + 1 ELSE @]
    /\ UNCHANGED <<runVars, cancelVars, remaining, expired, returned>>

\* iterate returns: nil loops, a fatal error is reported, an error that is the
\* context's own ends the worker as cancelled, any other error only ends it.
FinishIteration(v) ==
    /\ pc[v] = "iterating"
    /\ \/ Goto(v, "keep") /\ UNCHANGED returned
       \/ Return(v, "fatal", "report")
       \/ ScenarioDone /\ Return(v, "canceled", "stopped")
       \/ Return(v, "failed", "stopped")
    /\ UNCHANGED <<runVars, cancelVars, loadVars>>

\* Mutant: the send has no default, so a second fatal error blocks its worker.
ReportFatalBlocking(v) ==
    /\ pc[v] = "report"
    /\ fatalErrors = 0
    /\ fatalErrors' = v
    /\ Goto(v, "cancel")
    /\ UNCHANGED <<runVars, loadVars, ctxDone, cancelled, returned>>

\* select { case fatalErrors <- err: cancel() | default: }
ReportFatal(v) ==
    /\ pc[v] = "report"
    /\ \/ /\ fatalErrors = 0
          /\ fatalErrors' = v
          /\ Goto(v, "cancel")
       \/ /\ fatalErrors # 0
          /\ Goto(v, "stopped")
          /\ UNCHANGED fatalErrors
    /\ UNCHANGED <<runVars, loadVars, ctxDone, cancelled, returned>>

CancelScenario(v) ==
    /\ pc[v] = "cancel"
    /\ cancelled' = TRUE
    /\ Goto(v, "stopped")
    /\ UNCHANGED <<runVars, loadVars, ctxDone, fatalErrors, returned>>

Worker(v) == \/ KeepShared(v) \/ KeepUntilDeadline(v) \/ CheckContext(v)
             \/ BeginIteration(v) \/ FinishIteration(v)
             \/ ReportFatal(v) \/ CancelScenario(v)

-----------------------------------------------------------------------------
(* The environment.                                                        *)

\* The caller cancels Run's context (the first SIGINT or SIGTERM).
CancelRun ==
    /\ ~ctxDone
    /\ main # "over"
    /\ ctxDone' = TRUE
    /\ UNCHANGED <<runVars, loadVars, cancelled, fatalErrors, pc, returned>>

\* The clock passes the deadline set when constant-vus starts its workers.
Deadline ==
    /\ ~Shared
    /\ main \in {"spawning", "waiting"}
    /\ ~expired
    /\ expired' = TRUE
    /\ UNCHANGED <<runVars, cancelVars, remaining, loops, late, pc, returned>>

\* Run has returned.
Over == main = "over" /\ UNCHANGED vars

Next == Main \/ (\E v \in VUs : Worker(v)) \/ CancelRun \/ Deadline \/ Over

Spec == Init /\ [][Next]_vars

\* Every goroutine is eventually scheduled, every workload call returns, and
\* the clock advances; nothing obliges the caller to cancel.
Fairness ==
    /\ WF_vars(Main)
    /\ \A v \in VUs : WF_vars(Worker(v))
    /\ WF_vars(Deadline)

FairSpec == Spec /\ Fairness

-----------------------------------------------------------------------------
(* Properties.                                                             *)

\* runScenario has returned.
Collected ==
    spawned = NumVUs /\ main \in {"teardown", "closing", "reporting", "over"}

\* shared-iterations never begins more iterations than were asked for, however
\* the workers race on the counter (which itself goes down to -NumVUs).
BudgetRespected == Shared => loops <= Iterations

\* A ticket is never dropped: if runScenario reports neither a fatal error nor
\* cancellation and some worker left because the counter ran out, then exactly
\* the requested number of iterations was begun, failed VUs included.
BudgetSpent ==
    (/\ Shared
     /\ Collected
     /\ result \cap {"fatal", "canceled"} = {}
     /\ \E v \in VUs : returned[v] = "exhausted") => loops = Iterations

\* A fatal error is never lost or masked: once runScenario returned, it reports
\* a fatal error exactly when some worker returned one, whatever the order of
\* the select, the cancellation of the others and the caller's own cancellation.
FatalReported ==
    Collected => ("fatal" \in result <=> \E v \in VUs : returned[v] = "fatal")

\* A run some worker of which was cut short by cancellation does not look like
\* a success: it reports the fatal error or the cancellation behind it.
CancelReported ==
    (Collected /\ \E v \in VUs : returned[v] = "canceled")
        => result \cap {"fatal", "canceled"} # {}

\* After cancellation (a signal or another VU's fatal error) a VU begins at most
\* the one iteration whose context check it had already passed.
OneLateIteration == \A v \in VUs : late[v] <= 1

\* Cleanup never overlaps load: from Teardown on no worker is running, and while
\* one runs the driver is open and the metrics it records to are alive.
CleanupAfterLoad ==
    (\E v \in VUs : pc[v] \notin {"idle", "stopped"})
        => /\ main \in {"spawning", "waiting"}
           /\ driver = "open"
           /\ metricsUp

\* The lifecycle every run promises: iterations only between Setup and Teardown
\* and within the budget, one Teardown after them, no failure turned to success.
Lifecycle == INSTANCE RunLifecycle WITH
    Users   <- VUs,
    Budget  <- Iterations,
    bounded <- Shared,
    phase   <- CASE main \in {"define", "open"} -> "idle"
                 [] main = "setup" -> "setup"
                 [] main \in {"spawning", "waiting"} -> "load"
                 [] main = "teardown" -> "cleanup"
                 [] OTHER -> "over",
    running <- {v \in VUs : pc[v] = "iterating"},
    budget  <- IF Shared THEN Iterations - loops ELSE Iterations,
    failed  <- result # {},
    cleanups <- teardowns

\* Every behaviour of Run is a behaviour of the lifecycle.
ImplementsLifecycle == Lifecycle!Spec

\* Run returns, in particular no worker blocks on reporting a fatal error and
\* wg.Wait never waits for a worker that cannot stop.
Terminates == <>(main = "over")

=============================================================================
