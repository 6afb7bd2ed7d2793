---------------------------- MODULE ProcessProofs ----------------------------
(***************************************************************************)
(* Proofs about BenchRun, for every number of VUs and iterations and both  *)
(* executors, about StroppyProcess, which runs it, for every set of        *)
(* signals, and about WorkloadSetup, what the run's workload does to its   *)
(* database, for every number of instances, scales and step filters: the   *)
(* run keeps its budget, its workers and its cleanups in order and         *)
(* implements the lifecycle; the exit status of the process is true and    *)
(* stop() closes the gate; a command that drops, creates and loads the     *)
(* tables is never refused and measures the whole of its data.  The        *)
(* invariants IInv of the run, PInv of the process and SetupIInv of the    *)
(* setup are conjunctions of named parts; each action is shown to preserve *)
(* each part it can disturb.                                               *)
(***************************************************************************)
EXTENDS StroppyProcess, WorkloadSetup, SplitChunksProofs, FiniteSetTheorems, TLAPS

-----------------------------------------------------------------------------
(* The run: its inductive invariant.                                       *)

Cleaning == {"teardown", "closing", "reporting", "over"}
Early    == {"define", "open", "setup"}

\* Workers that took a ticket they have not begun.
Holding == {v \in VUs : pc[v] \in {"check", "begin"}}

\* Tickets handed out: the counter goes on falling below zero.
Issued == IF remaining >= 0 THEN Iterations - remaining ELSE Iterations

\* Where the workers can be in each phase of the main goroutine.
Phases ==
    /\ \A v \in VUs : pc[v] = "idle" <=> v > spawned
    /\ main \in Early => spawned = 0
    /\ main = "spawning" => spawned < NumVUs
    /\ main = "waiting" => spawned = NumVUs
    /\ main \in Cleaning => spawned \in {0, NumVUs}
    /\ main \in Cleaning => \A v \in VUs : pc[v] \in {"idle", "stopped"}
    /\ main \in {"setup", "spawning", "waiting"} => driver = "open"
    /\ main \in {"open", "setup", "spawning", "waiting"} => metricsUp

\* The fatalErrors channel holds a VU that failed fatally, and is filled before
\* any fatal worker leaves.
Channel ==
    /\ \A v \in VUs : pc[v] \in {"report", "cancel"} => returned[v] = "fatal"
    /\ \A v \in VUs : returned[v] = "fatal" => pc[v] = "report" \/ fatalErrors # 0
    /\ \A v \in VUs : pc[v] = "cancel" => fatalErrors = v
    /\ fatalErrors # 0 => returned[fatalErrors] = "fatal"
    /\ \A v \in VUs : pc[v] \in {"idle", "keep", "check", "begin", "iterating"}
           <=> returned[v] = "no"

\* Whoever was cut short was cut short by the caller or by a fatal error.
Cancellation ==
    /\ cancelled /\ main \notin Cleaning => fatalErrors # 0
    /\ \A v \in VUs : returned[v] = "canceled" => ctxDone \/ fatalErrors # 0

\* A VU that began late is past its last context check.
Lateness ==
    \A v \in VUs : /\ late[v] <= 1
                   /\ late[v] = 1 => ScenarioDone /\ pc[v] # "begin"

\* Tickets issued are begun or held; one is dropped only under cancellation.
Tickets ==
    Shared =>
        /\ remaining <= Iterations
        /\ loops + Cardinality(Holding) <= Issued
        /\ ~ScenarioDone => loops + Cardinality(Holding) = Issued
        /\ \A v \in VUs : returned[v] = "exhausted" => remaining < 0

\* What runScenario reported.
Outcome == FatalReported /\ CancelReported /\ BudgetSpent

IInv ==
    TypeOK /\ Phases /\ Channel /\ Cancellation /\ Lateness /\ Tickets /\ Outcome

-----------------------------------------------------------------------------
(* Counting the workers that hold a ticket.                                *)

\* Any set of VUs is finite, so tickets can be counted by cardinality.
LEMMA HoldingFinite ==
    ASSUME NEW S, S \subseteq VUs
    PROVE  IsFiniteSet(S) /\ Cardinality(S) \in Nat
<1>1. IsFiniteSet(VUs)
  BY FS_Interval, BenchRunAssumption DEF VUs
<1>2. IsFiniteSet(S)
  BY <1>1, FS_Subset
<1> QED
  BY <1>2, FS_CardinalityType

\* No step changes the executor.
LEMMA SameExecutor ==
    ASSUME [Next]_vars
    PROVE  executor' = executor /\ Shared' = Shared
<1>1. executor' = executor
  BY DEF Next, Main, Worker, Reject, NewRoot, Dispatch, Setup, Spawn, Collect, Teardown,
     RootTeardown, ShutdownMetrics, KeepShared, KeepUntilDeadline, CheckContext, BeginIteration,
     FinishIteration, ReportFatal, CancelScenario, CancelRun, Deadline, Over, vars, runVars
<1> QED
  BY <1>1 DEF Shared

-----------------------------------------------------------------------------
(* Preservation of each part of the invariant.                             *)

\* Each step keeps the variables in their ranges.
LEMMA TypeStep ==
    ASSUME IInv, [Next]_vars
    PROVE  TypeOK'
<1> USE BenchRunAssumption DEF IInv, TypeOK, runVars, cancelVars, loadVars, VUs
<1>1. CASE Reject
  BY <1>1 DEF Reject, ErrorKinds
<1>2. CASE NewRoot
  BY <1>2 DEF NewRoot
<1>3. CASE Dispatch
  BY <1>3 DEF Dispatch, MaybeCanceled, ErrorKinds
<1>4. CASE Setup
  BY <1>4 DEF Setup, AfterFailedSetup, MaybeCanceled, ErrorKinds
<1>5. CASE Spawn
  BY <1>5 DEF Spawn, AllSpawned, Phases
<1>6. CASE Collect
  BY <1>6 DEF Collect, AllStopped, ScenarioErrors, MaybeCanceled, ErrorKinds
<1>7. CASE Teardown
  BY <1>7 DEF Teardown, ErrorKinds
<1>8. CASE RootTeardown
  BY <1>8 DEF RootTeardown, SharedSlots
<1>9. CASE ShutdownMetrics
  BY <1>9 DEF ShutdownMetrics
<1>10. ASSUME NEW v \in VUs, KeepShared(v) PROVE TypeOK'
  BY <1>10 DEF KeepShared, Return, Goto, Granted
<1>11. ASSUME NEW v \in VUs, KeepUntilDeadline(v) PROVE TypeOK'
  BY <1>11 DEF KeepUntilDeadline, Return, Goto
<1>12. ASSUME NEW v \in VUs, CheckContext(v) PROVE TypeOK'
  BY <1>12 DEF CheckContext, Return, Goto, ContextErr, ScenarioDone
<1>13. ASSUME NEW v \in VUs, BeginIteration(v) PROVE TypeOK'
  BY <1>13 DEF BeginIteration, Goto, ScenarioDone
<1>14. ASSUME NEW v \in VUs, FinishIteration(v) PROVE TypeOK'
  <2>1. CASE Goto(v, "keep") /\ UNCHANGED returned
    BY <1>14, <2>1 DEF FinishIteration, Return, Goto, ScenarioDone
  <2>2. CASE Return(v, "fatal", "report")
    BY <1>14, <2>2 DEF FinishIteration, Return, Goto, ScenarioDone
  <2>3. CASE ScenarioDone /\ Return(v, "canceled", "stopped")
    BY <1>14, <2>3 DEF FinishIteration, Return, Goto, ScenarioDone
  <2>4. CASE Return(v, "failed", "stopped")
    BY <1>14, <2>4 DEF FinishIteration, Return, Goto, ScenarioDone
  <2> QED
    BY <1>14, <2>1, <2>2, <2>3, <2>4 DEF FinishIteration
<1>15. ASSUME NEW v \in VUs, ReportFatal(v) PROVE TypeOK'
  BY <1>15 DEF ReportFatal, Goto
<1>16. ASSUME NEW v \in VUs, CancelScenario(v) PROVE TypeOK'
  BY <1>16 DEF CancelScenario, Goto
<1>17. CASE CancelRun
  BY <1>17 DEF CancelRun, vars
<1>18. CASE Deadline
  BY <1>18 DEF Deadline, vars
<1>19. CASE Over
  BY <1>19 DEF Over, vars
<1>20. CASE UNCHANGED vars
  BY <1>20 DEF vars
<1> QED
  BY <1>1, <1>2, <1>3, <1>4, <1>5, <1>6, <1>7, <1>8, <1>9, <1>10, <1>11, <1>12, <1>13, <1>14,
     <1>15, <1>16, <1>17, <1>18, <1>19, <1>20 DEF Next, Main, Worker

\* Each step keeps the workers where the main goroutine's phase allows.
LEMMA PhasesStep ==
    ASSUME IInv, [Next]_vars
    PROVE  Phases'
<1> USE BenchRunAssumption DEF IInv, TypeOK, Phases, Cleaning, Early, runVars, cancelVars,
   loadVars, VUs
<1>1. CASE Reject
  BY <1>1 DEF Reject, ErrorKinds
<1>2. CASE NewRoot
  BY <1>2 DEF NewRoot
<1>3. CASE Dispatch
  <2>1. CASE main' = "setup" /\ driver' = "open"
    BY <1>3, <2>1 DEF Dispatch, MaybeCanceled, ErrorKinds
  <2>2. CASE main' = "closing"
    BY <1>3, <2>2 DEF Dispatch, MaybeCanceled, ErrorKinds
  <2> QED
    BY <1>3, <2>1, <2>2 DEF Dispatch
<1>4. CASE Setup
  BY <1>4 DEF Setup, AfterFailedSetup, MaybeCanceled, ErrorKinds
<1>5. CASE Spawn
  BY <1>5 DEF Spawn, AllSpawned, Phases
<1>6. CASE Collect
  BY <1>6 DEF Collect, AllStopped, ScenarioErrors, MaybeCanceled, ErrorKinds
<1>7. CASE Teardown
  BY <1>7 DEF Teardown, ErrorKinds
<1>8. CASE RootTeardown
  BY <1>8 DEF RootTeardown, SharedSlots
<1>9. CASE ShutdownMetrics
  BY <1>9 DEF ShutdownMetrics
<1>10. ASSUME NEW v \in VUs, KeepShared(v) PROVE Phases'
  BY <1>10 DEF KeepShared, Return, Goto, Granted
<1>11. ASSUME NEW v \in VUs, KeepUntilDeadline(v) PROVE Phases'
  BY <1>11 DEF KeepUntilDeadline, Return, Goto
<1>12. ASSUME NEW v \in VUs, CheckContext(v) PROVE Phases'
  BY <1>12 DEF CheckContext, Return, Goto, ContextErr, ScenarioDone
<1>13. ASSUME NEW v \in VUs, BeginIteration(v) PROVE Phases'
  BY <1>13 DEF BeginIteration, Goto, ScenarioDone
<1>14. ASSUME NEW v \in VUs, FinishIteration(v) PROVE Phases'
  BY <1>14 DEF FinishIteration, Return, Goto, ScenarioDone
<1>15. ASSUME NEW v \in VUs, ReportFatal(v) PROVE Phases'
  BY <1>15 DEF ReportFatal, Goto
<1>16. ASSUME NEW v \in VUs, CancelScenario(v) PROVE Phases'
  BY <1>16 DEF CancelScenario, Goto
<1>17. CASE CancelRun
  BY <1>17 DEF CancelRun, vars
<1>18. CASE Deadline
  BY <1>18 DEF Deadline, vars
<1>19. CASE Over
  BY <1>19 DEF Over, vars
<1>20. CASE UNCHANGED vars
  BY <1>20 DEF vars
<1> QED
  BY <1>1, <1>2, <1>3, <1>4, <1>5, <1>6, <1>7, <1>8, <1>9, <1>10, <1>11, <1>12, <1>13, <1>14,
     <1>15, <1>16, <1>17, <1>18, <1>19, <1>20 DEF Next, Main, Worker

\* Each step keeps fatalErrors in line with how the workers returned.
LEMMA ChannelStep ==
    ASSUME IInv, [Next]_vars
    PROVE  Channel'
<1> USE BenchRunAssumption DEF IInv, TypeOK, Phases, Channel, Early, Cleaning, runVars,
   cancelVars, loadVars, VUs
<1>1. CASE Reject
  BY <1>1 DEF Reject, ErrorKinds
<1>2. CASE NewRoot
  BY <1>2 DEF NewRoot
<1>3. CASE Dispatch
  BY <1>3 DEF Dispatch, MaybeCanceled, ErrorKinds
<1>4. CASE Setup
  BY <1>4 DEF Setup, AfterFailedSetup, MaybeCanceled, ErrorKinds
<1>5. CASE Spawn
  BY <1>5 DEF Spawn, AllSpawned, Phases
<1>6. CASE Collect
  BY <1>6 DEF Collect, AllStopped, ScenarioErrors, MaybeCanceled, ErrorKinds
<1>7. CASE Teardown
  BY <1>7 DEF Teardown, ErrorKinds
<1>8. CASE RootTeardown
  BY <1>8 DEF RootTeardown, SharedSlots
<1>9. CASE ShutdownMetrics
  BY <1>9 DEF ShutdownMetrics
<1>10. ASSUME NEW v \in VUs, KeepShared(v) PROVE Channel'
  <2>1. CASE Goto(v, "check") /\ UNCHANGED returned
    BY <1>10, <2>1 DEF KeepShared, Return, Goto, Granted
  <2>2. CASE Return(v, "exhausted", "stopped")
    BY <1>10, <2>2 DEF KeepShared, Return, Goto, Granted
  <2> QED
    BY <1>10, <2>1, <2>2 DEF KeepShared
<1>11. ASSUME NEW v \in VUs, KeepUntilDeadline(v) PROVE Channel'
  <2>1. CASE Goto(v, "check") /\ UNCHANGED returned
    BY <1>11, <2>1 DEF KeepUntilDeadline, Return, Goto
  <2>2. CASE Return(v, "exhausted", "stopped")
    BY <1>11, <2>2 DEF KeepUntilDeadline, Return, Goto
  <2> QED
    BY <1>11, <2>1, <2>2 DEF KeepUntilDeadline
<1>12. ASSUME NEW v \in VUs, CheckContext(v) PROVE Channel'
  <2>1. CASE Return(v, "canceled", "stopped")
    BY <1>12, <2>1 DEF CheckContext, Return, Goto, ContextErr, ScenarioDone
  <2>2. CASE Goto(v, "begin") /\ UNCHANGED returned
    BY <1>12, <2>2 DEF CheckContext, Return, Goto, ContextErr, ScenarioDone
  <2> QED
    BY <1>12, <2>1, <2>2 DEF CheckContext
<1>13. ASSUME NEW v \in VUs, BeginIteration(v) PROVE Channel'
  BY <1>13 DEF BeginIteration, Goto, ScenarioDone
<1>14. ASSUME NEW v \in VUs, FinishIteration(v) PROVE Channel'
  <2>1. CASE Goto(v, "keep") /\ UNCHANGED returned
    BY <1>14, <2>1 DEF FinishIteration, Return, Goto, ScenarioDone
  <2>2. CASE Return(v, "fatal", "report")
    BY <1>14, <2>2 DEF FinishIteration, Return, Goto, ScenarioDone
  <2>3. CASE ScenarioDone /\ Return(v, "canceled", "stopped")
    BY <1>14, <2>3 DEF FinishIteration, Return, Goto, ScenarioDone
  <2>4. CASE Return(v, "failed", "stopped")
    BY <1>14, <2>4 DEF FinishIteration, Return, Goto, ScenarioDone
  <2> QED
    BY <1>14, <2>1, <2>2, <2>3, <2>4 DEF FinishIteration
<1>15. ASSUME NEW v \in VUs, ReportFatal(v) PROVE Channel'
  BY <1>15 DEF ReportFatal, Goto
<1>16. ASSUME NEW v \in VUs, CancelScenario(v) PROVE Channel'
  BY <1>16 DEF CancelScenario, Goto
<1>17. CASE CancelRun
  BY <1>17 DEF CancelRun, vars
<1>18. CASE Deadline
  BY <1>18 DEF Deadline, vars
<1>19. CASE Over
  BY <1>19 DEF Over, vars
<1>20. CASE UNCHANGED vars
  BY <1>20 DEF vars
<1> QED
  BY <1>1, <1>2, <1>3, <1>4, <1>5, <1>6, <1>7, <1>8, <1>9, <1>10, <1>11, <1>12, <1>13, <1>14,
     <1>15, <1>16, <1>17, <1>18, <1>19, <1>20 DEF Next, Main, Worker

\* Each step keeps a cause behind every cancellation.
LEMMA CancellationStep ==
    ASSUME IInv, [Next]_vars
    PROVE  Cancellation'
<1> USE BenchRunAssumption DEF IInv, TypeOK, Phases, Channel, Cancellation, Cleaning, Early,
   ScenarioDone, runVars, cancelVars, loadVars, VUs
<1>1. CASE Reject
  BY <1>1 DEF Reject, ErrorKinds
<1>2. CASE NewRoot
  BY <1>2 DEF NewRoot
<1>3. CASE Dispatch
  BY <1>3 DEF Dispatch, MaybeCanceled, ErrorKinds
<1>4. CASE Setup
  BY <1>4 DEF Setup, AfterFailedSetup, MaybeCanceled, ErrorKinds
<1>5. CASE Spawn
  BY <1>5 DEF Spawn, AllSpawned, Phases
<1>6. CASE Collect
  BY <1>6 DEF Collect, AllStopped, ScenarioErrors, MaybeCanceled, ErrorKinds
<1>7. CASE Teardown
  BY <1>7 DEF Teardown, ErrorKinds
<1>8. CASE RootTeardown
  BY <1>8 DEF RootTeardown, SharedSlots
<1>9. CASE ShutdownMetrics
  BY <1>9 DEF ShutdownMetrics
<1>10. ASSUME NEW v \in VUs, KeepShared(v) PROVE Cancellation'
  BY <1>10 DEF KeepShared, Return, Goto, Granted
<1>11. ASSUME NEW v \in VUs, KeepUntilDeadline(v) PROVE Cancellation'
  BY <1>11 DEF KeepUntilDeadline, Return, Goto
<1>12. ASSUME NEW v \in VUs, CheckContext(v) PROVE Cancellation'
  BY <1>12 DEF CheckContext, Return, Goto, ContextErr, ScenarioDone
<1>13. ASSUME NEW v \in VUs, BeginIteration(v) PROVE Cancellation'
  BY <1>13 DEF BeginIteration, Goto, ScenarioDone
<1>14. ASSUME NEW v \in VUs, FinishIteration(v) PROVE Cancellation'
  <2>1. CASE Goto(v, "keep") /\ UNCHANGED returned
    BY <1>14, <2>1 DEF FinishIteration, Return, Goto, ScenarioDone
  <2>2. CASE Return(v, "fatal", "report")
    BY <1>14, <2>2 DEF FinishIteration, Return, Goto, ScenarioDone
  <2>3. CASE ScenarioDone /\ Return(v, "canceled", "stopped")
    BY <1>14, <2>3 DEF FinishIteration, Return, Goto, ScenarioDone
  <2>4. CASE Return(v, "failed", "stopped")
    BY <1>14, <2>4 DEF FinishIteration, Return, Goto, ScenarioDone
  <2> QED
    BY <1>14, <2>1, <2>2, <2>3, <2>4 DEF FinishIteration
<1>15. ASSUME NEW v \in VUs, ReportFatal(v) PROVE Cancellation'
  BY <1>15 DEF ReportFatal, Goto
<1>16. ASSUME NEW v \in VUs, CancelScenario(v) PROVE Cancellation'
  BY <1>16 DEF CancelScenario, Goto
<1>17. CASE CancelRun
  BY <1>17 DEF CancelRun, vars
<1>18. CASE Deadline
  BY <1>18 DEF Deadline, vars
<1>19. CASE Over
  BY <1>19 DEF Over, vars
<1>20. CASE UNCHANGED vars
  BY <1>20 DEF vars
<1> QED
  BY <1>1, <1>2, <1>3, <1>4, <1>5, <1>6, <1>7, <1>8, <1>9, <1>10, <1>11, <1>12, <1>13, <1>14,
     <1>15, <1>16, <1>17, <1>18, <1>19, <1>20 DEF Next, Main, Worker

\* Each step leaves a late VU with no second iteration to begin.
LEMMA LatenessStep ==
    ASSUME IInv, [Next]_vars
    PROVE  Lateness'
<1> USE BenchRunAssumption DEF IInv, TypeOK, Phases, Lateness, Cleaning, Early, ScenarioDone,
   runVars, cancelVars, loadVars, VUs
<1>1. CASE Reject
  BY <1>1 DEF Reject, ErrorKinds
<1>2. CASE NewRoot
  BY <1>2 DEF NewRoot
<1>3. CASE Dispatch
  BY <1>3 DEF Dispatch, MaybeCanceled, ErrorKinds
<1>4. CASE Setup
  BY <1>4 DEF Setup, AfterFailedSetup, MaybeCanceled, ErrorKinds
<1>5. CASE Spawn
  BY <1>5 DEF Spawn, AllSpawned, Phases
<1>6. CASE Collect
  BY <1>6 DEF Collect, AllStopped, ScenarioErrors, MaybeCanceled, ErrorKinds
<1>7. CASE Teardown
  BY <1>7 DEF Teardown, ErrorKinds
<1>8. CASE RootTeardown
  BY <1>8 DEF RootTeardown, SharedSlots
<1>9. CASE ShutdownMetrics
  BY <1>9 DEF ShutdownMetrics
<1>10. ASSUME NEW v \in VUs, KeepShared(v) PROVE Lateness'
  BY <1>10 DEF KeepShared, Return, Goto, Granted
<1>11. ASSUME NEW v \in VUs, KeepUntilDeadline(v) PROVE Lateness'
  BY <1>11 DEF KeepUntilDeadline, Return, Goto
<1>12. ASSUME NEW v \in VUs, CheckContext(v) PROVE Lateness'
  BY <1>12 DEF CheckContext, Return, Goto, ContextErr, ScenarioDone
<1>13. ASSUME NEW v \in VUs, BeginIteration(v) PROVE Lateness'
  BY <1>13 DEF BeginIteration, Goto, ScenarioDone
<1>14. ASSUME NEW v \in VUs, FinishIteration(v) PROVE Lateness'
  BY <1>14 DEF FinishIteration, Return, Goto, ScenarioDone
<1>15. ASSUME NEW v \in VUs, ReportFatal(v) PROVE Lateness'
  BY <1>15 DEF ReportFatal, Goto
<1>16. ASSUME NEW v \in VUs, CancelScenario(v) PROVE Lateness'
  BY <1>16 DEF CancelScenario, Goto
<1>17. CASE CancelRun
  BY <1>17 DEF CancelRun, vars
<1>18. CASE Deadline
  BY <1>18 DEF Deadline, vars
<1>19. CASE Over
  BY <1>19 DEF Over, vars
<1>20. CASE UNCHANGED vars
  BY <1>20 DEF vars
<1> QED
  BY <1>1, <1>2, <1>3, <1>4, <1>5, <1>6, <1>7, <1>8, <1>9, <1>10, <1>11, <1>12, <1>13, <1>14,
     <1>15, <1>16, <1>17, <1>18, <1>19, <1>20 DEF Next, Main, Worker

\* Each step accounts for the tickets: one taken is held, begun, or dropped
\* under cancellation.
LEMMA TicketsStep ==
    ASSUME IInv, [Next]_vars
    PROVE  Tickets'
<1> SUFFICES ASSUME Shared PROVE Tickets'
  BY SameExecutor DEF Tickets
<1> USE BenchRunAssumption DEF runVars, cancelVars, loadVars
<1>0. /\ TypeOK /\ Phases /\ Tickets
      /\ Cardinality(Holding) \in Nat /\ IsFiniteSet(Holding)
  BY HoldingFinite DEF IInv, Holding
<1>1. ASSUME UNCHANGED <<remaining, loops, Holding>>,
             ScenarioDone => ScenarioDone',
             \A v \in VUs : returned'[v] = "exhausted" => returned[v] = "exhausted"
      PROVE  Tickets'
  BY <1>0, <1>1 DEF Tickets, Issued
<1>2. ASSUME pc' = pc, returned' = returned, UNCHANGED <<remaining, loops>>,
             ScenarioDone => ScenarioDone'
      PROVE  Tickets'
  <2>1. Holding' = Holding
    BY <1>2 DEF Holding
  <2> QED
    BY <2>1, <1>1, <1>2
<1>3. CASE Spawn
  <2>1. Holding' = Holding
    BY <1>0, <1>3 DEF Spawn, AllSpawned, Holding, TypeOK, Phases, VUs
  <2> QED
    BY <2>1, <1>1, <1>3 DEF Spawn, ScenarioDone
<1>4. CASE Main /\ ~Spawn
  BY <1>2, <1>4 DEF Main, Reject, NewRoot, Dispatch, Setup, AfterFailedSetup, Collect, Teardown,
     RootTeardown, ShutdownMetrics, ScenarioDone
<1>5. ASSUME NEW v \in VUs, KeepShared(v)
      PROVE  Tickets'
  <2>1. CASE Granted(remaining - 1)
    <3>1. v \notin Holding /\ Holding' = Holding \cup {v}
      BY <1>0, <1>5, <2>1 DEF KeepShared, Goto, Return, Holding, TypeOK
    <3>2. Cardinality(Holding') = Cardinality(Holding) + 1
      BY <1>0, <3>1, FS_AddElement
    <3> QED
      BY <1>0, <1>5, <2>1, <3>2
      DEF KeepShared, Granted, Tickets, Issued, TypeOK, ScenarioDone
  <2>2. CASE ~Granted(remaining - 1)
    <3>1. Holding' = Holding
      BY <1>0, <1>5, <2>2 DEF KeepShared, Goto, Return, Holding, TypeOK
    <3> QED
      BY <1>0, <1>5, <2>2, <3>1
      DEF KeepShared, Granted, Tickets, Issued, TypeOK, ScenarioDone
  <2> QED
    BY <2>1, <2>2
<1>6. ASSUME NEW v \in VUs, CheckContext(v)
      PROVE  Tickets'
  <2>1. CASE ContextErr
    <3>1. v \in Holding /\ Holding' = Holding \ {v}
      BY <1>0, <1>6, <2>1 DEF CheckContext, Goto, Return, Holding, TypeOK
    <3>2. Cardinality(Holding') = Cardinality(Holding) - 1
      BY <1>0, <3>1, FS_RemoveElement
    <3>3. returned' = [returned EXCEPT ![v] = "canceled"]
      BY <1>6, <2>1 DEF CheckContext, Return
    <3> QED
      BY <1>0, <1>6, <2>1, <3>2, <3>3
      DEF CheckContext, ContextErr, Tickets, Issued, TypeOK, ScenarioDone
  <2>2. CASE ~ContextErr
    <3>1. Holding' = Holding
      BY <1>0, <1>6, <2>2 DEF CheckContext, Goto, Return, Holding, TypeOK
    <3> QED
      BY <1>6, <2>2, <3>1, <1>1 DEF CheckContext, ScenarioDone
  <2> QED
    BY <2>1, <2>2
<1>7. ASSUME NEW v \in VUs, BeginIteration(v)
      PROVE  Tickets'
  <2>1. v \in Holding /\ Holding' = Holding \ {v}
    BY <1>0, <1>7 DEF BeginIteration, Goto, Holding, TypeOK
  <2>2. Cardinality(Holding') = Cardinality(Holding) - 1
    BY <1>0, <2>1, FS_RemoveElement
  <2> QED
    BY <1>0, <1>7, <2>2 DEF BeginIteration, Tickets, Issued, TypeOK, ScenarioDone
<1>8. ASSUME NEW v \in VUs, FinishIteration(v)
      PROVE  Tickets'
  <2>1. Holding' = Holding
    BY <1>0, <1>8 DEF FinishIteration, Goto, Return, Holding, TypeOK
  <2>2. \A w \in VUs : returned'[w] = "exhausted" => returned[w] = "exhausted"
    BY <1>0, <1>8 DEF FinishIteration, Goto, Return, TypeOK
  <2> QED
    BY <1>1, <1>8, <2>1, <2>2 DEF FinishIteration, ScenarioDone
<1>9. ASSUME NEW v \in VUs, ReportFatal(v) \/ CancelScenario(v)
      PROVE  Tickets'
  <2>1. Holding' = Holding
    BY <1>0, <1>9 DEF ReportFatal, CancelScenario, Goto, Holding, TypeOK
  <2> QED
    BY <1>1, <1>9, <2>1 DEF ReportFatal, CancelScenario, ScenarioDone
<1>10. CASE CancelRun \/ Deadline \/ Over \/ UNCHANGED vars
  BY <1>2, <1>10 DEF CancelRun, Deadline, Over, vars, ScenarioDone
<1> QED
  BY <1>3, <1>4, <1>5, <1>6, <1>7, <1>8, <1>9, <1>10
  DEF Next, Worker, KeepUntilDeadline

\* Once runScenario returned, nothing that its report depends on changes.
LEMMA OutcomeStep ==
    ASSUME IInv, [Next]_vars
    PROVE  Outcome'
<1> USE BenchRunAssumption DEF runVars, cancelVars, loadVars, VUs
<1>0. TypeOK /\ Phases /\ Channel /\ Cancellation /\ Tickets /\ Outcome
  BY DEF IInv
<1>1. CASE Collect
  <2>1. /\ \A v \in VUs : pc[v] = "stopped"
        /\ result' \in ScenarioErrors
        /\ UNCHANGED <<fatalErrors, ctxDone, returned, loops, remaining, spawned, pc>>
    BY <1>1 DEF Collect, AllStopped
  <2>2. "fatal" \in result' <=> fatalErrors # 0
    BY <2>1 DEF ScenarioErrors, MaybeCanceled
  <2>3. fatalErrors # 0 <=> \E v \in VUs : returned[v] = "fatal"
    BY <1>0, <2>1 DEF Channel, TypeOK
  <2>4. result' \cap {"fatal", "canceled"} = {} => fatalErrors = 0 /\ ~ctxDone
    BY <2>1 DEF ScenarioErrors, MaybeCanceled
  <2>5. ~ctxDone /\ fatalErrors = 0 => ~ScenarioDone
    BY <1>0, <1>1 DEF Collect, Cancellation, Cleaning, ScenarioDone
  <2>6. Cardinality(Holding) = 0
    <3>1. Holding = {}
      BY <2>1 DEF Holding
    <3> QED
      BY <3>1, FS_EmptySet
  <2>7. FatalReported'
    BY <2>1, <2>2, <2>3 DEF FatalReported
  <2>8. CancelReported'
    BY <1>0, <2>1, <2>4 DEF CancelReported, Cancellation
  <2>9. BudgetSpent'
    <3> SUFFICES ASSUME Shared, result' \cap {"fatal", "canceled"} = {},
                        NEW v \in VUs, returned[v] = "exhausted"
                 PROVE  loops = Iterations
      BY <2>1, SameExecutor DEF BudgetSpent
    <3>1. remaining < 0 /\ loops + Cardinality(Holding) = Issued
      BY <1>0, <2>4, <2>5 DEF Tickets
    <3> QED
      BY <1>0, <2>6, <3>1 DEF Issued, TypeOK
  <2> QED
    BY <2>7, <2>8, <2>9 DEF Outcome
<1>2. CASE Collected /\ ~Collect
  <2>1. \A v \in VUs : pc[v] = "stopped"
    BY <1>0, <1>2 DEF Collected, Phases, TypeOK, Cleaning
  <2>2. UNCHANGED <<returned, loops>>
    BY <1>2, <2>1 DEF Collected, Next, Main, Worker, Reject, NewRoot, Dispatch, Setup,
       AfterFailedSetup, Spawn, Teardown, RootTeardown, ShutdownMetrics, KeepShared,
       KeepUntilDeadline, CheckContext, BeginIteration, FinishIteration,
       ReportFatal, CancelScenario, CancelRun, Deadline, Over, vars
  <2>3. result' = result \/ result' = result \cup {"teardown"}
    BY <1>2, <2>1 DEF Collected, Next, Main, Worker, Reject, NewRoot, Dispatch, Setup,
       AfterFailedSetup, Spawn, Teardown, RootTeardown, ShutdownMetrics, KeepShared,
       KeepUntilDeadline, CheckContext, BeginIteration, FinishIteration,
       ReportFatal, CancelScenario, CancelRun, Deadline, Over, vars
  <2>4. /\ FatalReported /\ CancelReported /\ BudgetSpent
        /\ "fatal" \in result' <=> "fatal" \in result
        /\ "canceled" \in result' <=> "canceled" \in result
    BY <1>0, <2>3 DEF Outcome
  <2>5. FatalReported'
    BY <1>2, <2>2, <2>4 DEF FatalReported
  <2>6. CancelReported'
    BY <1>2, <2>2, <2>4 DEF CancelReported
  <2>7. BudgetSpent'
    BY <1>2, <2>2, <2>4, SameExecutor DEF BudgetSpent
  <2> QED
    BY <2>5, <2>6, <2>7 DEF Outcome
<1>3. CASE ~Collected /\ ~Collect
  <2>1. ~Collected'
    BY <1>0, <1>3 DEF Collected, Next, Main, Worker, Reject, NewRoot, Dispatch, Setup,
       AfterFailedSetup, Spawn, AllSpawned, Teardown, RootTeardown, ShutdownMetrics, KeepShared,
       KeepUntilDeadline, CheckContext, BeginIteration, FinishIteration,
       ReportFatal, CancelScenario, CancelRun, Deadline, Over, vars, Phases,
       Cleaning, Early
  <2> QED
    BY <2>1 DEF Outcome, FatalReported, CancelReported, BudgetSpent
<1> QED
  BY <1>1, <1>2, <1>3

\* The initial state satisfies the invariant.
LEMMA Initially == Init => IInv
<1> SUFFICES ASSUME Init PROVE IInv
  OBVIOUS
<1> USE BenchRunAssumption DEF Init, VUs
<1>1. TypeOK /\ Phases
  <2>1. TypeOK
    <3>1. /\ ctxDone \in BOOLEAN /\ cancelled \in BOOLEAN
          /\ expired \in BOOLEAN /\ metricsUp \in BOOLEAN
      BY Zenon
    <3>2. /\ 0 \in 0..NumVUs /\ 0 \in Nat /\ 0 \in VUs \cup {0} /\ Iterations \in Int
          /\ {} \in SUBSET ErrorKinds
      OBVIOUS
    <3> QED
      BY <3>1, <3>2, Zenon DEF TypeOK
  <2>2. Phases
    BY DEF Phases, Cleaning, Early
  <2> QED
    BY <2>1, <2>2
<1>4. Channel
  BY DEF Channel
<1>5. Cancellation /\ Lateness
  BY DEF Cancellation, Lateness
<1>2. Tickets
  <2>1. Holding = {}
    BY DEF Holding
  <2> QED
    BY <2>1, FS_EmptySet DEF Tickets, Issued
<1>3. Outcome
  BY DEF Outcome, FatalReported, CancelReported, BudgetSpent, Collected
<1> QED
  BY <1>1, <1>2, <1>3, <1>4, <1>5 DEF IInv

\* Every step preserves the invariant.
LEMMA Inductive == IInv /\ [Next]_vars => IInv'
  BY TypeStep, PhasesStep, ChannelStep, CancellationStep, LatenessStep,
     TicketsStep, OutcomeStep DEF IInv

\* The inductive invariant holds in every reachable state.
THEOREM Invariance == Spec => []IInv
  BY Initially, Inductive, PTL DEF Spec

-----------------------------------------------------------------------------
(* The properties the runs check, for every instance.                      *)

\* Every variable stays in its declared range.
THEOREM TypeCorrect == Spec => []TypeOK
  BY Invariance, PTL DEF IInv

\* However many VUs race on the counter, shared-iterations begins at most
\* Iterations iterations.
THEOREM Budget == Spec => []BudgetRespected
<1>1. IInv => BudgetRespected
  BY HoldingFinite, BenchRunAssumption
  DEF IInv, TypeOK, Tickets, Issued, Holding, BudgetRespected
<1> QED
  BY <1>1, Invariance, PTL

\* A load phase that ends because the counter ran out has begun exactly
\* Iterations iterations.
THEOREM BudgetIsSpent == Spec => []BudgetSpent
  BY Invariance, PTL DEF IInv, Outcome

\* runScenario reports a fatal error exactly when a worker returned one.
THEOREM FatalIsReported == Spec => []FatalReported
  BY Invariance, PTL DEF IInv, Outcome

\* A load phase some worker of which was cut short is reported as such.
THEOREM CancelIsReported == Spec => []CancelReported
  BY Invariance, PTL DEF IInv, Outcome

\* After cancellation a VU begins at most one more iteration.
THEOREM AtMostOneLate == Spec => []OneLateIteration
<1>1. IInv => OneLateIteration
  BY DEF IInv, Lateness, OneLateIteration
<1> QED
  BY <1>1, Invariance, PTL

\* Workers run only while the driver is open and the metrics are alive.
THEOREM CleanupIsLast == Spec => []CleanupAfterLoad
<1>1. IInv => CleanupAfterLoad
  BY BenchRunAssumption
  DEF IInv, TypeOK, Phases, Cleaning, Early, CleanupAfterLoad, VUs
<1> QED
  BY <1>1, Invariance, PTL

-----------------------------------------------------------------------------
(* Run implements the lifecycle of RunLifecycle.                           *)

\* Run starts where the lifecycle starts.
LEMMA LifecycleInit == Init => Lifecycle!Init
<1>1. Shared \in BOOLEAN
  BY Zenon DEF Shared
<1> QED
  BY <1>1, BenchRunAssumption DEF Init, Lifecycle!Init, VUs

\* Each step of Run is a step of the lifecycle or leaves it unchanged.
LEMMA LifecycleStep ==
    ASSUME IInv, [Next]_vars
    PROVE  [Lifecycle!Next]_(Lifecycle!lifecycleVars)
<1> USE BenchRunAssumption DEF runVars, cancelVars, loadVars, VUs,
        Lifecycle!lifecycleVars
<1>0. TypeOK /\ Phases /\ Shared' = Shared
  BY SameExecutor DEF IInv
<1>1. CASE Reject
  BY <1>0, <1>1 DEF Reject, Lifecycle!Next, Lifecycle!Refuse
<1>2. CASE NewRoot
  BY <1>0, <1>2 DEF NewRoot
<1>3. CASE Dispatch
  BY <1>0, <1>3 DEF Dispatch, MaybeCanceled, Lifecycle!Next, Lifecycle!Prepare, Lifecycle!Refuse
<1>4. CASE Setup
  BY <1>0, <1>4 DEF Setup, AfterFailedSetup, MaybeCanceled, Lifecycle!Next, Lifecycle!SetupDone
<1>5. CASE Spawn
  <2>1. pc[spawned + 1] = "idle" /\ spawned + 1 \in VUs
    BY <1>0, <1>5 DEF Spawn, TypeOK, Phases
  <2>2. {v \in VUs : pc'[v] = "iterating"} = {v \in VUs : pc[v] = "iterating"}
    BY <1>0, <1>5, <2>1 DEF Spawn, TypeOK
  <2> QED
    BY <1>0, <1>5, <2>2 DEF Spawn
<1>6. CASE Collect
  <2>1. {v \in VUs : pc[v] = "iterating"} = {}
    BY <1>0, <1>6 DEF Collect, AllStopped
  <2> QED
    BY <1>0, <1>6, <2>1 DEF Collect, Lifecycle!Next, Lifecycle!LoadDone
<1>7. CASE Teardown
  BY <1>0, <1>7 DEF Teardown, Lifecycle!Next, Lifecycle!Cleanup
<1>8. CASE RootTeardown \/ ShutdownMetrics \/ CancelRun \/ Deadline \/ Over
           \/ UNCHANGED vars
  BY <1>0, <1>8 DEF RootTeardown, ShutdownMetrics, CancelRun, Deadline, Over, vars
<1>9. ASSUME NEW v \in VUs, BeginIteration(v)
      PROVE  Lifecycle!Begin(v)
  <2>1. main \in {"spawning", "waiting"}
    BY <1>0, <1>9 DEF BeginIteration, TypeOK, Phases, Early, Cleaning
  <2>2. Shared => Iterations - loops > 0
    <3>1. v \in Holding /\ IsFiniteSet(Holding) /\ Cardinality(Holding) \in Nat
      BY <1>9, HoldingFinite DEF BeginIteration, Holding
    <3>2. Cardinality(Holding) # 0
      BY <3>1, FS_EmptySet
    <3> QED
      BY <1>0, <3>1, <3>2 DEF IInv, Tickets, Issued, TypeOK
  <2>3. {w \in VUs : pc'[w] = "iterating"} = {w \in VUs : pc[w] = "iterating"} \cup {v}
    BY <1>0, <1>9 DEF BeginIteration, Goto, TypeOK
  <2>4. v \notin {w \in VUs : pc[w] = "iterating"}
    BY <1>0, <1>9 DEF BeginIteration
  <2>5. Shared => Iterations - loops' = (Iterations - loops) - 1
    BY <1>0, <1>9 DEF BeginIteration, TypeOK
  <2>6. UNCHANGED <<main, result, teardowns>>
    BY <1>0, <1>9 DEF BeginIteration
  <2> QED
    BY <2>1, <2>2, <2>3, <2>4, <2>5, <2>6, <1>0 DEF Lifecycle!Begin
<1>10. ASSUME NEW v \in VUs, FinishIteration(v)
       PROVE  Lifecycle!End(v)
  <2>1. {w \in VUs : pc'[w] = "iterating"} = {w \in VUs : pc[w] = "iterating"} \ {v}
    BY <1>0, <1>10 DEF FinishIteration, Goto, Return, TypeOK
  <2> QED
    BY <1>0, <1>10, <2>1 DEF FinishIteration, Lifecycle!End
<1>11. ASSUME NEW v \in VUs,
              KeepShared(v) \/ KeepUntilDeadline(v) \/ CheckContext(v)
                \/ ReportFatal(v) \/ CancelScenario(v)
       PROVE  UNCHANGED Lifecycle!lifecycleVars
  <2>1. {w \in VUs : pc'[w] = "iterating"} = {w \in VUs : pc[w] = "iterating"}
    BY <1>0, <1>11 DEF KeepShared, KeepUntilDeadline, CheckContext, ReportFatal,
       CancelScenario, Goto, Return, TypeOK
  <2>2. UNCHANGED <<main, result, teardowns, loops>>
    BY <1>11 DEF KeepShared, KeepUntilDeadline, CheckContext, ReportFatal,
       CancelScenario
  <2> QED
    BY <1>0, <2>1, <2>2
<1> QED
  BY <1>1, <1>2, <1>3, <1>4, <1>5, <1>6, <1>7, <1>8, <1>9, <1>10, <1>11
  DEF Next, Main, Worker, Lifecycle!Next

\* Every behaviour of Run is one of the lifecycle: iterations only between Setup
\* and Teardown and within the budget, one Teardown, no failure made a success.
THEOREM Implementation == Spec => ImplementsLifecycle
<1>1. IInv /\ [Next]_vars => [Lifecycle!Next]_(Lifecycle!lifecycleVars)
  BY LifecycleStep
<1> QED
  BY <1>1, LifecycleInit, Invariance, PTL
  DEF Spec, ImplementsLifecycle, Lifecycle!Spec

-----------------------------------------------------------------------------
(* The process: its invariant, and the steps of the run in it.             *)

Delivered == IF monitor \in {"check", "cas", "gate", "force"} THEN 1 ELSE 0
Claimed == IF firstSig # 0 THEN 1 ELSE 0

\* A signal the monitor holds was delivered, and so was the one it recorded before; the
\* context is cancelled by the first, or by stop() at its end.
Signalled ==
    /\ monitor \in {"check", "cas", "gate", "force"} => held # 0
    /\ monitor \in {"cancel", "gate", "force"} => firstSig # 0
    /\ firstSig # 0 /\ monitor # "cancel" => ctxDone
    /\ ctxDone /\ firstSig = 0 => command = "exit"
    /\ exit # "forced" => accepted >= Len(sigCh) + Delivered + Claimed
    /\ exit = "forced" => accepted >= 2 /\ firstSig # 0 /\ ctxDone

\* The gate is closed once stop() is past it.
Gated == command \notin {"running", "stop"} => stopped

\* How far the run has come, what it cleaned up, and why it was cancelled.
Cleaned ==
    /\ main = "define" => ~metricsUp
    /\ main \in {"define", "open"} => driver = "none"
    /\ main \in {"setup", "spawning", "waiting", "teardown"} => teardowns = 0
    /\ main \in {"define", "open"} => teardowns = 0
    /\ main \in {"closing", "reporting", "over"} /\ driver = "open" => teardowns = 1
    /\ main = "over" => ~metricsUp
    /\ "canceled" \in result => firstSig # 0

\* The status is that of a run that is over.
Settled ==
    /\ command # "running" => main = "over"
    /\ command # "running" /\ code = 1 => result # {} /\ "canceled" \notin result
    /\ exit = "status" => command = "exit"

PInv == ShutdownTypeOK /\ Signalled /\ Gated /\ Cleaned /\ Settled

-----------------------------------------------------------------------------
(* The invariant.                                                          *)

\* It holds when the process starts.
LEMMA InitPInv == ProcessInit => PInv
<1> SUFFICES ASSUME ProcessInit PROVE PInv
  OBVIOUS
<1> USE DEF ProcessInit, ShutdownInit
<1>1. ShutdownTypeOK
  <2>1. stopped \in BOOLEAN /\ ctxDone \in BOOLEAN /\ doneClosed \in BOOLEAN
    BY Zenon
  <2>2. /\ sigCh \in Seq(Signals) /\ Len(sigCh) <= SignalBufferSize
        /\ accepted \in Nat /\ code \in Nat /\ sent \in 0..MaxSignals
    BY ShutdownAssumption DEF SignalBufferSize
  <2> QED
    BY <2>1, <2>2, Zenon DEF ShutdownTypeOK
<1>2. Signalled
  BY DEF Signalled, Delivered, Claimed
<1>3. Gated
  BY DEF Gated
<1>4. Cleaned
  BY DEF Cleaned, Init
<1>5. Settled
  BY DEF Settled
<1> QED
  BY <1>1, <1>2, <1>3, <1>4, <1>5 DEF PInv

\* The types of the shutdown do not depend on the run.
LEMMA SameTypes ==
    ASSUME ShutdownTypeOK, UNCHANGED <<shutdownVars, ctxDone>>
    PROVE  ShutdownTypeOK'
<1>1. UNCHANGED <<sigCh, stopped, firstSig, doneClosed, ctxDone, monitor, held, command, code,
                  exit, sent, accepted>>
  BY DEF shutdownVars
<1> QED
  BY <1>1 DEF ShutdownTypeOK

\* A step of the run changes nothing of the shutdown, and a worker or the clock nothing of
\* the main goroutine either.
LEMMA RunEffect ==
    ASSUME RunStep
    PROVE  /\ UNCHANGED <<shutdownVars, ctxDone>>
           /\ Main \/ UNCHANGED <<main, result, driver, teardowns, metricsUp>>
<1>1. CASE Main
  BY <1>1 DEF RunStep, Main, Reject, NewRoot, Dispatch, Setup, Spawn,
     Collect, Teardown, RootTeardown, ShutdownMetrics, cancelVars
<1>2. ASSUME NEW v \in VUs, Worker(v)
      PROVE  UNCHANGED <<ctxDone, main, result, driver, teardowns, metricsUp>>
  BY <1>2 DEF Worker, KeepShared, KeepUntilDeadline, CheckContext,
     BeginIteration, FinishIteration, ReportFatal, CancelScenario,
     cancelVars, runVars
<1>3. CASE Deadline
  BY <1>3 DEF RunStep, Deadline, cancelVars, runVars
<1> QED
  BY <1>1, <1>2, <1>3 DEF RunStep

\* A step of the run preserves the invariant: cancellation enters its error only when a
\* signal has cancelled the context.
LEMMA RunStepPInv ==
    ASSUME PInv, RunStep
    PROVE  PInv'
<1>1. UNCHANGED <<shutdownVars, ctxDone>>
  BY RunEffect
<1>2. ShutdownTypeOK' /\ Signalled' /\ Gated'
  <2>1. ShutdownTypeOK'
    BY <1>1, SameTypes DEF PInv
  <2>2. Signalled' /\ Gated'
    BY <1>1 DEF PInv, Signalled, Gated, shutdownVars, Delivered, Claimed
  <2> QED
    BY <2>1, <2>2
<1>3. CASE UNCHANGED <<main, result, driver, teardowns, metricsUp>>
  BY <1>1, <1>2, <1>3 DEF PInv, Cleaned, Settled, shutdownVars
<1>4. CASE Main
  <2>1. main # "over" /\ command = "running"
    BY <1>4 DEF PInv, Settled, Main, Reject, NewRoot, Dispatch, Setup,
       Spawn, Collect, Teardown, RootTeardown, ShutdownMetrics
  <2>2. Settled'
    BY <1>1, <2>1 DEF PInv, Settled, shutdownVars
  <2>3. ctxDone => firstSig # 0
    BY <2>1 DEF PInv, Signalled
  <2>4. firstSig' = firstSig
    BY <1>1 DEF shutdownVars
  <2>5. ASSUME Reject PROVE Cleaned'
    BY <2>3, <2>4, <2>5 DEF PInv, Cleaned, Reject
  <2>6. ASSUME NewRoot PROVE Cleaned'
    BY <2>3, <2>4, <2>6 DEF PInv, Cleaned, NewRoot
  <2>7. ASSUME Dispatch PROVE Cleaned'
    BY <2>3, <2>4, <2>7 DEF PInv, Cleaned, Dispatch, MaybeCanceled
  <2>8. ASSUME Setup PROVE Cleaned'
    BY <2>3, <2>4, <2>8 DEF PInv, Cleaned, Setup, AfterFailedSetup, MaybeCanceled
  <2>9. ASSUME Spawn PROVE Cleaned'
    BY <2>3, <2>4, <2>9 DEF PInv, Cleaned, Spawn
  <2>10. ASSUME Collect PROVE Cleaned'
    BY <2>3, <2>4, <2>10 DEF PInv, Cleaned, Collect, ScenarioErrors, MaybeCanceled
  <2>11. ASSUME Teardown PROVE Cleaned'
    BY <2>3, <2>4, <2>11 DEF PInv, Cleaned, Teardown
  <2>12. ASSUME RootTeardown PROVE Cleaned'
    BY <2>3, <2>4, <2>12 DEF PInv, Cleaned, RootTeardown
  <2>13. ASSUME ShutdownMetrics PROVE Cleaned'
    BY <2>3, <2>4, <2>13 DEF PInv, Cleaned, ShutdownMetrics
  <2> QED
    BY <1>2, <1>4, <2>2, <2>5, <2>6, <2>7, <2>8, <2>9, <2>10, <2>11, <2>12, <2>13
    DEF PInv, Main
<1> QED
  BY <1>3, <1>4, RunEffect

\* What the steps outside the run leave alone.
LEMMA OutsideTheRun ==
    ASSUME PInv, UNCHANGED benchVars, firstSig # 0 => firstSig' # 0
    PROVE  Cleaned'
BY DEF PInv, Cleaned, benchVars

\* The return of the command preserves the invariant: its status is computed from an error
\* that is final.
LEMMA CommandEndsPInv ==
    ASSUME PInv, CommandEnds
    PROVE  PInv'
<1> USE DEF CommandEnds, CommandReturns, Alive
<1>1. ExitCodeFor(result) \in Nat /\ (ExitCodeFor(result) = 1 => result # {} /\ "canceled" \notin result)
  BY ShutdownAssumption DEF PInv, ShutdownTypeOK, Cleaned, ExitCodeFor, ExitStatus,
     ExitCodeSignalBase
<1>2. ShutdownTypeOK'
  BY <1>1 DEF PInv, ShutdownTypeOK
<1>3. Signalled'
  BY DEF PInv, Signalled, Delivered, Claimed
<1>4. Gated'
  BY DEF Gated
<1>5. Cleaned'
  BY OutsideTheRun
<1>6. Settled'
  BY <1>1 DEF PInv, Settled, benchVars
<1> QED
  BY <1>2, <1>3, <1>4, <1>5, <1>6 DEF PInv

\* A signal, delivered, dropped or fatal, preserves the invariant.
LEMMA SendSignalPInv ==
    ASSUME PInv, NEW s \in Signals, SendSignal(s), UNCHANGED benchVars
    PROVE  PInv'
<1> USE ShutdownAssumption DEF SendSignal, Alive, SignalBufferSize
<1>0. sent' \in 0..MaxSignals
  BY DEF PInv, ShutdownTypeOK
<1>1. CASE sigCh' = Append(sigCh, s) /\ accepted' = accepted + 1 /\ UNCHANGED exit
  <2>1. sigCh' \in Seq(Signals) /\ Len(sigCh') = Len(sigCh) + 1 /\ Len(sigCh) \in Nat
    BY <1>1 DEF PInv, ShutdownTypeOK
  <2>2. ShutdownTypeOK'
    <3>1. /\ Len(sigCh) < 2
          /\ UNCHANGED <<stopped, firstSig, doneClosed, ctxDone, monitor, held, command, code>>
      BY <1>1, <2>1 DEF PInv, ShutdownTypeOK
    <3> QED
      BY <1>0, <1>1, <2>1, <3>1 DEF PInv, ShutdownTypeOK
  <2>3. Signalled'
    <3>1. /\ exit = "alive" /\ Delivered' = Delivered /\ Claimed' = Claimed
          /\ Delivered \in Nat /\ Claimed \in Nat /\ accepted \in Nat
          /\ UNCHANGED <<firstSig, ctxDone, monitor, held, command>>
      BY <1>1 DEF PInv, ShutdownTypeOK, Delivered, Claimed
    <3>2. accepted' >= Len(sigCh') + Delivered' + Claimed'
      BY <1>1, <2>1, <3>1 DEF PInv, Signalled
    <3> QED
      BY <1>1, <3>1, <3>2 DEF PInv, Signalled
  <2> QED
    BY <1>1, <2>2, <2>3, OutsideTheRun DEF PInv, Gated, Settled, benchVars
<1>2. CASE /\ exit' \in {exit, "killed"}
         /\ UNCHANGED <<sigCh, accepted, stopped, firstSig, doneClosed, ctxDone, monitor, held,
                        command, code>>
  <2>1. ShutdownTypeOK'
    BY <1>0, <1>2, Zenon DEF PInv, ShutdownTypeOK
  <2>2. Signalled'
    <3>1. exit = "alive" /\ Delivered' = Delivered /\ Claimed' = Claimed
      BY <1>2 DEF Delivered, Claimed
    <3> QED
      BY <1>2, <3>1 DEF PInv, Signalled
  <2> QED
    BY <1>2, <2>1, <2>2, OutsideTheRun DEF PInv, Gated, Settled, benchVars
<1> QED
  BY <1>1, <1>2

\* A step of the monitor goroutine preserves the invariant.
LEMMA MonitorPInv ==
    ASSUME PInv, Monitor, UNCHANGED benchVars
    PROVE  PInv'
<1> USE ShutdownAssumption DEF PInv, MonitorGoto, Alive
<1>0. Len(sigCh) \in Nat
  BY DEF ShutdownTypeOK
<1>1. CASE ReceiveSignal
  <2>1. Head(sigCh) \in Signals /\ Tail(sigCh) \in Seq(Signals) /\ Len(Tail(sigCh)) = Len(sigCh) - 1
        /\ Len(sigCh) \in Nat
    BY <1>1 DEF ReceiveSignal, ShutdownTypeOK
  <2>2. ShutdownTypeOK'
    BY <1>1, <2>1 DEF ReceiveSignal, ShutdownTypeOK, SignalBufferSize
  <2>3. Signalled'
    BY <1>1, <2>1 DEF ReceiveSignal, ShutdownTypeOK, Signalled, Delivered, Claimed
  <2> QED
    BY <1>1, <2>2, <2>3, OutsideTheRun DEF ReceiveSignal, Gated, Settled, benchVars
<1>2. CASE ReceiveDone
  <2>1. ShutdownTypeOK' /\ Signalled'
    BY <1>2 DEF ReceiveDone, ShutdownTypeOK, Signalled, Delivered, Claimed
  <2> QED
    BY <1>2, <2>1, OutsideTheRun DEF ReceiveDone, Gated, Settled, benchVars
<1>3. CASE CheckStopped
  <2>1. monitor' = "exited" \/ monitor' = "cas"
    BY <1>3 DEF CheckStopped
  <2>2. ShutdownTypeOK'
    BY <1>3, <2>1 DEF CheckStopped, ShutdownTypeOK
  <2>3. Signalled'
    <3>1. /\ Delivered = 1 /\ Delivered' \in {0, 1} /\ Claimed' = Claimed
          /\ Claimed \in Nat /\ accepted \in Nat /\ exit = "alive" /\ monitor = "check"
          /\ UNCHANGED <<sigCh, firstSig, ctxDone, held, command, exit, accepted>>
      BY <1>3, <2>1 DEF CheckStopped, ShutdownTypeOK, Delivered, Claimed
    <3>2. accepted' >= Len(sigCh') + Delivered' + Claimed'
      BY <1>0, <3>1 DEF Signalled
    <3> QED
      BY <2>1, <3>1, <3>2 DEF Signalled
  <2> QED
    BY <1>3, <2>2, <2>3, OutsideTheRun DEF CheckStopped, Gated, Settled, benchVars
<1>4. CASE ClaimFirst
  <2>1. firstSig # 0 => firstSig' # 0
    BY <1>4 DEF ClaimFirst
  <2>2. ShutdownTypeOK'
    BY <1>4 DEF ClaimFirst, Recorded, IsFirst, ShutdownTypeOK
  <2>3. Signalled'
    <3>1. CASE firstSig = 0
      BY <1>4, <3>1 DEF ClaimFirst, Recorded, IsFirst, ShutdownTypeOK, Signalled, Delivered,
         Claimed
    <3>2. CASE firstSig # 0
      BY <1>4, <3>2 DEF ClaimFirst, Recorded, IsFirst, ShutdownTypeOK, Signalled, Delivered,
         Claimed
    <3> QED
      BY <3>1, <3>2
  <2> QED
    BY <1>4, <2>1, <2>2, <2>3, OutsideTheRun DEF ClaimFirst, Gated, Settled, benchVars
<1>5. CASE CancelContext
  <2>1. ShutdownTypeOK' /\ Signalled'
    BY <1>5 DEF CancelContext, ShutdownTypeOK, Signalled, Delivered, Claimed
  <2> QED
    BY <1>5, <2>1, OutsideTheRun DEF CancelContext, Gated, Settled, benchVars
<1>6. CASE ClaimGate
  <2>1. ShutdownTypeOK' /\ Signalled'
    BY <1>6 DEF ClaimGate, ClaimsGate, ShutdownTypeOK, Signalled, Delivered, Claimed
  <2> QED
    BY <1>6, <2>1, OutsideTheRun DEF ClaimGate, Gated, Settled, benchVars
<1>7. CASE ForceExit
  <2>1. ShutdownTypeOK'
    BY <1>7 DEF ForceExit, ForcedExitCode, ShutdownTypeOK
  <2>2. Signalled'
    BY <1>7 DEF ForceExit, ShutdownTypeOK, Signalled, Delivered, Claimed
  <2> QED
    BY <1>7, <2>1, <2>2, OutsideTheRun DEF ForceExit, ForcedExitCode, Gated, Settled, benchVars
<1> QED
  BY <1>1, <1>2, <1>3, <1>4, <1>5, <1>6, <1>7 DEF Monitor

\* A statement of stop(), and the exit after it, preserve the invariant.
LEMMA StopPInv ==
    ASSUME PInv, Stop, UNCHANGED benchVars
    PROVE  PInv'
<1> USE DEF PInv, CommandGoto, Alive
<1>1. CASE CloseGate
  <2>1. ShutdownTypeOK' /\ Signalled'
    BY <1>1 DEF CloseGate, ShutdownTypeOK, Signalled, Delivered, Claimed
  <2> QED
    BY <1>1, <2>1, OutsideTheRun DEF CloseGate, Gated, Settled, benchVars
<1>2. CASE Unsubscribe
  <2>1. ShutdownTypeOK' /\ Signalled'
    BY <1>2 DEF Unsubscribe, ShutdownTypeOK, Signalled, Delivered, Claimed
  <2> QED
    BY <1>2, <2>1, OutsideTheRun DEF Unsubscribe, Gated, Settled, benchVars
<1>3. CASE DrainSignals
  <2>1. /\ sigCh' \in Seq(Signals) /\ Len(sigCh') <= Len(sigCh)
        /\ Len(sigCh') \in Nat /\ Len(sigCh) \in Nat
    BY <1>3 DEF DrainSignals, ShutdownTypeOK
  <2>2. /\ command' \in {"drain", "close"} /\ command = "drain" /\ exit = "alive"
        /\ UNCHANGED <<stopped, firstSig, doneClosed, ctxDone, monitor, held, code, exit,
                       sent, accepted>>
    BY <1>3 DEF DrainSignals
  <2>3. ShutdownTypeOK'
    BY <2>1, <2>2 DEF ShutdownTypeOK, SignalBufferSize
  <2>4. Signalled'
    <3>1. Delivered' = Delivered /\ Claimed' = Claimed /\ Delivered \in Nat /\ Claimed \in Nat
      BY <2>2 DEF Delivered, Claimed
    <3> QED
      BY <2>1, <2>2, <3>1 DEF ShutdownTypeOK, Signalled
  <2> QED
    BY <2>2, <2>3, <2>4, OutsideTheRun DEF Gated, Settled, benchVars
<1>4. CASE CloseDone
  <2>1. ShutdownTypeOK' /\ Signalled'
    BY <1>4 DEF CloseDone, ShutdownTypeOK, Signalled, Delivered, Claimed
  <2> QED
    BY <1>4, <2>1, OutsideTheRun DEF CloseDone, Gated, Settled, benchVars
<1>5. CASE CancelOnStop
  <2>1. ShutdownTypeOK' /\ Signalled'
    BY <1>5 DEF CancelOnStop, ShutdownTypeOK, Signalled, Delivered, Claimed
  <2> QED
    BY <1>5, <2>1, OutsideTheRun DEF CancelOnStop, Gated, Settled, benchVars
<1>6. CASE Exit
  <2>1. ShutdownTypeOK' /\ Signalled'
    BY <1>6 DEF Exit, ShutdownTypeOK, Signalled, Delivered, Claimed
  <2> QED
    BY <1>6, <2>1, OutsideTheRun DEF Exit, Gated, Settled, benchVars
<1> QED
  BY <1>1, <1>2, <1>3, <1>4, <1>5, <1>6 DEF Stop

\* The invariant is inductive.
LEMMA NextPInv == PInv /\ [ProcessNext]_processVars => PInv'
<1> SUFFICES ASSUME PInv, [ProcessNext]_processVars PROVE PInv'
  OBVIOUS
<1>1. CASE UNCHANGED processVars
  <2>1. /\ UNCHANGED <<sigCh, stopped, firstSig, ctxDone, monitor, held, command, code, exit,
                       accepted>>
        /\ UNCHANGED <<main, result, driver, teardowns, metricsUp>>
    BY <1>1 DEF processVars, shutdownVars, benchVars
  <2>2. Delivered' = Delivered /\ Claimed' = Claimed
    BY <2>1 DEF Delivered, Claimed
  <2>3. ShutdownTypeOK' /\ Signalled' /\ Gated'
    <3>1. ShutdownTypeOK'
      BY <1>1, SameTypes DEF processVars, PInv
    <3>2. Signalled' /\ Gated'
      BY <2>1, <2>2 DEF PInv, Signalled, Gated
    <3> QED
      BY <3>1, <3>2
  <2>4. Cleaned' /\ Settled'
    BY <2>1 DEF PInv, Cleaned, Settled
  <2> QED
    BY <2>3, <2>4 DEF PInv
<1>2. CASE Ended
  BY <1>1, <1>2 DEF Ended
<1> QED
  BY <1>1, <1>2, RunStepPInv, CommandEndsPInv, SendSignalPInv, MonitorPInv, StopPInv DEF
     ProcessNext

\* The invariant holds in every reachable state of a process.
THEOREM ProcessInvariance == ProcessSpec => []PInv
BY InitPInv, NextPInv, PTL DEF ProcessSpec

\* The variables of the shutdown stay in their ranges; the channel never holds more than
\* its capacity.
THEOREM ShutdownTypeCorrect == ProcessSpec => []ShutdownTypeOK
  BY ProcessInvariance, PTL DEF PInv

\* The exit status tells how the process ended: a cancelled run exits with the status of the
\* signal, a process that exits by itself has cleaned up, a forced exit took two signals.
THEOREM ExitIsTruthful == ProcessSpec => []TruthfulExit
<1>1. PInv => TruthfulExit
  BY DEF PInv, ShutdownTypeOK, Signalled, Cleaned, Settled, TruthfulExit
<1> QED
  BY <1>1, ProcessInvariance, PTL

\* Once stop() has closed the gate, the monitor does not decide to force.
THEOREM GateStaysClosed == ProcessSpec => StopClosesGate
<1>1. PInv /\ [ProcessNext]_processVars =>
        [monitor = "gate" /\ monitor' = "force" => command \in {"running", "stop"}]_processVars
  <2> SUFFICES ASSUME PInv, ProcessNext, monitor = "gate", monitor' = "force",
                      command \notin {"running", "stop"}
               PROVE  FALSE
    BY DEF PInv, ShutdownTypeOK
  <2>1. stopped
    BY DEF PInv, Gated
  <2>2. UNCHANGED monitor \/ Monitor
    BY RunEffect DEF ProcessNext, shutdownVars, CommandEnds, CommandReturns, SendSignal, Stop,
       CloseGate, Unsubscribe, DrainSignals, CloseDone, CancelOnStop, Exit, Ended, processVars
  <2> QED
    BY <2>1, <2>2 DEF Monitor, ReceiveSignal, ReceiveDone, CheckStopped, ClaimFirst, CancelContext,
       ClaimGate, ClaimsGate, ForceExit, MonitorGoto
<1> QED
  BY <1>1, ProcessInvariance, PTL DEF ProcessSpec, StopClosesGate

-----------------------------------------------------------------------------
(* The workloads' setup: its inductive invariant.                          *)

Schemas == {"drop", "create", "drop_procedures"}

\* The order in which a script has its statements; only those of the schema mix.
Rank(op) ==
    CASE op \in Schemas -> 1
      [] op = "create_procedures" -> 2
      [] op = "set_unlogged" -> 3
      [] op = "insert" -> 4
      [] op = "create_index" -> 5
      [] op = "set_logged" -> 6
      [] op = "add_foreign_key" -> 7
      [] op = "analyze" -> 8
      [] op = "validate" -> 9

OnOneTable == {"drop", "create", "set_unlogged", "create_index", "set_logged", "analyze"}

SetupStatements(i) ==
    [op : {"drop_procedures", "create_procedures", "validate"}, tables : {<<>>}]
        \cup [op : {"drop"}, tables : {DropOrder}]
        \cup [op : OnOneTable, tables : {<<t>> : t \in Tables}]
        \cup [op : {"insert"}, tables : {<<t>> : t \in ToSet(LoadOrder(i))}]
        \cup [op : {"add_foreign_key"}, tables : ToSet(ForeignKeys)]

\* The statements come in their order, and from the procedures on each of them once.
Ordered(T) ==
    \A m, n \in DOMAIN T :
        m < n => /\ Rank(T[m].op) <= Rank(T[n].op)
                 /\ Rank(T[m].op) = 1 \/ T[m] # T[n]

Drops(s, t) == s.op = "drop" /\ t \in ToSet(s.tables)
Creates(s, t) == s.op = "create" /\ t \in ToSet(s.tables)

\* What the script T has left to do.
WillDrop(T, t) == \E n \in DOMAIN T : Drops(T[n], t)
Left(T, op, tables) == \E n \in DOMAIN T : T[n] = Do(op, tables)

DatabaseOK ==
    /\ db = [exist |-> db.exist, rows |-> db.rows, twice |-> db.twice,
             unlogged |-> db.unlogged, indexed |-> db.indexed, fks |-> db.fks,
             procs |-> db.procs]
    /\ db.rows = [t \in Tables |-> db.rows[t]]
    /\ db.exist \subseteq Tables /\ db.unlogged \subseteq Tables
    /\ db.fks \subseteq ToSet(ForeignKeys)
    /\ db.procs \in BOOLEAN

SetupTypeOK ==
    /\ <<workload, driverType>> \in Workloads \X DriverTypes
    /\ DatabaseOK
    /\ phase \in [Instances -> {"idle", "setup", "measure", "teardown"}]
    /\ filter = [i \in Instances |-> filter[i]]
    /\ todo = [i \in Instances |-> todo[i]]
    /\ verdict = [i \in Instances |-> verdict[i]]
    /\ hid \in [Instances -> Nat]
    /\ ran \in [Instances -> Nat]
    /\ alone \in [Instances -> BOOLEAN]
    /\ \A i \in Instances : todo[i] \in Seq(SetupStatements(i))

\* Only one command runs while one runs alone.
Sole == \A i, j \in Instances : alone[i] /\ ~Idle(i) /\ i # j => Idle(j)

\* Instance i's command is alone, has laid out the schema or is about to, and has not
\* used its data.
Relaying(i) ==
    /\ alone[i]
    /\ Enabled(filter[i], "drop_schema") /\ Enabled(filter[i], "create_schema")
    /\ \/ phase[i] = "setup"
       \/ phase[i] = "measure" /\ ran[i] = 0

\* Table t as instance i's load leaves it.
Fresh(i, t) == Whole(t, Start(i), ScaleFactor[i])

Loads(i, t) == Enabled(filter[i], "load_data") /\ t \in ToSet(LoadOrder(i))

\* No table is created that exists, and at the end they all exist.
SchemaFits(T) ==
    /\ \A n \in DOMAIN T, t \in Tables :
          Creates(T[n], t) =>
              /\ \A m \in 1..(n - 1) : ~Creates(T[m], t)
              /\ t \notin db.exist \/ \E m \in 1..(n - 1) : Drops(T[m], t)
    /\ \A t \in Tables :
          \/ t \in db.exist /\ ~WillDrop(T, t)
          \/ \E n \in DOMAIN T : Creates(T[n], t) /\ \A m \in (n + 1)..Len(T) : ~Drops(T[m], t)

\* A table that is not dropped any more is as its load and what is left of it make it.
TableFits(i, T, t) ==
    /\ t \notin db.twice
    /\ Loads(i, t) /\ ~Left(T, "insert", <<t>>) =>
           db.rows[t] = Fresh(i, t)
    /\ ~Loads(i, t) \/ Left(T, "insert", <<t>>) => db.rows[t] = EmptyTable
    /\ t \in db.indexed => ~Left(T, "create_index", <<t>>)
    /\ t \in db.unlogged /\ Enabled(filter[i], "set_logged") => Left(T, "set_logged", <<t>>)

TablesFit(i, T) == \A t \in Tables : WillDrop(T, t) \/ TableFits(i, T, t)

\* A foreign key is dropped with its child, in time for its parent, or was just added.
KeysFit(T) ==
    \A fk \in db.fks :
        \/ /\ WillDrop(T, fk[1])
           /\ driverType = "mysql" =>
                  \A n \in DOMAIN T :
                      Drops(T[n], fk[2]) => \E m \in 1..n : Drops(T[m], fk[1])
        \/ /\ \A n \in DOMAIN T : Rank(T[n].op) >= 7
           /\ ~Left(T, "add_foreign_key", fk)

ProceduresFit(T) ==
    driverType = "mysql" /\ db.procs /\ Left(T, "create_procedures", <<>>) =>
        Left(T, "drop_procedures", <<>>)

\* The script fills what it empties, and logs what it unlogs; it inserts what is loaded.
Complete(i, T) ==
    \A t \in Tables :
        /\ Left(T, "insert", <<t>>) => Loads(i, t)
        /\ WillDrop(T, t) /\ Loads(i, t) => Left(T, "insert", <<t>>)
        /\ Enabled(filter[i], "set_logged") /\ Left(T, "set_unlogged", <<t>>)
               => Left(T, "set_logged", <<t>>)

Fits(i) ==
    /\ WarehouseStart[i] = 1
    /\ phase[i] = "measure" => todo[i] = <<>>
    /\ Ordered(todo[i])
    /\ SchemaFits(todo[i])
    /\ TablesFit(i, todo[i])
    /\ KeysFit(todo[i])
    /\ ProceduresFit(todo[i])
    /\ Complete(i, todo[i])

SetupIInv ==
    /\ SetupTypeOK
    /\ Sole
    /\ \A i \in Instances : Relaying(i) => Fits(i)
    /\ RepairsDatabase

-----------------------------------------------------------------------------
(* A script and its head.                                                  *)

\* The rank of each operation.
LEMMA RankValues ==
    /\ Rank("drop") = 1 /\ Rank("create") = 1 /\ Rank("drop_procedures") = 1
    /\ Rank("create_procedures") = 2 /\ Rank("set_unlogged") = 3 /\ Rank("insert") = 4
    /\ Rank("create_index") = 5 /\ Rank("set_logged") = 6 /\ Rank("add_foreign_key") = 7
    /\ Rank("analyze") = 8 /\ Rank("validate") = 9
  BY DEF Rank, Schemas

Operations == Schemas \cup {"create_procedures", "set_unlogged", "insert", "create_index",
                            "set_logged", "add_foreign_key", "analyze", "validate"}

\* Ranks are 1 to 9, and only the schema's statements are of rank 1.
LEMMA RankType ==
    ASSUME NEW op \in Operations
    PROVE  /\ Rank(op) \in 1..9
           /\ Rank(op) = 1 <=> op \in Schemas
  BY RankValues DEF Operations, Schemas

\* A statement is an operation on tables.
LEMMA StatementShape ==
    ASSUME NEW i, NEW s \in SetupStatements(i)
    PROVE  /\ s = Do(s.op, s.tables)
           /\ s.op \in Operations
           /\ s.op \in OnOneTable /\ s.op # "drop" => \E t \in Tables : s.tables = <<t>>
           /\ s.op = "drop" => \/ s.tables = DropOrder
                               \/ \E t \in Tables : s.tables = <<t>>
           /\ s.op = "insert" => \E t \in ToSet(LoadOrder(i)) : s.tables = <<t>>
           /\ s.op = "add_foreign_key" => s.tables \in ToSet(ForeignKeys)
           /\ s.op \in {"drop_procedures", "create_procedures", "validate"} => s.tables = <<>>
  BY DEF SetupStatements, OnOneTable, Operations, Schemas, Do

\* The statements after the head of a script.
LEMMA TailOf ==
    ASSUME NEW S, NEW T \in Seq(S), T # <<>>
    PROVE  /\ Tail(T) \in Seq(S)
           /\ Head(T) = T[1] /\ Head(T) \in S
           /\ Len(T) \in Nat /\ Len(T) >= 1 /\ Len(Tail(T)) = Len(T) - 1
           /\ DOMAIN T = 1..Len(T) /\ DOMAIN Tail(T) = 1..Len(Tail(T))
           /\ \A n \in DOMAIN T : T[n] \in S
           /\ \A n \in DOMAIN Tail(T) : n + 1 \in DOMAIN T /\ Tail(T)[n] = T[n + 1]
           /\ \A n \in DOMAIN T : n = 1 \/ (n - 1 \in DOMAIN Tail(T) /\ Tail(T)[n - 1] = T[n])
  OBVIOUS

\* What a script has left is its head, and what its tail has left.
LEMMA LeftTail ==
    ASSUME NEW S, NEW T \in Seq(S), T # <<>>, NEW op, NEW tables
    PROVE  Left(T, op, tables) <=> Head(T) = Do(op, tables) \/ Left(Tail(T), op, tables)
<1>1. \A n \in DOMAIN Tail(T) : n + 1 \in DOMAIN T /\ Tail(T)[n] = T[n + 1]
  BY TailOf
<1>2. \A n \in DOMAIN T : n = 1 \/ (n - 1 \in DOMAIN Tail(T) /\ Tail(T)[n - 1] = T[n])
  BY TailOf
<1>3. Head(T) = T[1] /\ 1 \in DOMAIN T
  BY TailOf
<1> QED
  BY <1>1, <1>2, <1>3 DEF Left

\* A table a script will drop is dropped by its head or will be by its tail.
LEMMA WillDropTail ==
    ASSUME NEW S, NEW T \in Seq(S), T # <<>>, NEW t
    PROVE  WillDrop(T, t) <=> Drops(Head(T), t) \/ WillDrop(Tail(T), t)
<1>1. \A n \in DOMAIN Tail(T) : n + 1 \in DOMAIN T /\ Tail(T)[n] = T[n + 1]
  BY TailOf
<1>2. \A n \in DOMAIN T : n = 1 \/ (n - 1 \in DOMAIN Tail(T) /\ Tail(T)[n - 1] = T[n])
  BY TailOf
<1>3. Head(T) = T[1] /\ 1 \in DOMAIN T
  BY TailOf
<1> QED
  BY <1>1, <1>2, <1>3 DEF WillDrop

\* The tail of a script in order is in order.
LEMMA OrderedTail ==
    ASSUME NEW S, NEW T \in Seq(S), T # <<>>, Ordered(T)
    PROVE  Ordered(Tail(T))
<1>1. \A n \in DOMAIN Tail(T) : n + 1 \in DOMAIN T /\ Tail(T)[n] = T[n + 1] /\ n \in Nat
  BY TailOf
<1>2. SUFFICES ASSUME NEW m \in DOMAIN Tail(T), NEW n \in DOMAIN Tail(T), m < n
               PROVE  /\ Rank(Tail(T)[m].op) <= Rank(Tail(T)[n].op)
                      /\ Rank(Tail(T)[m].op) = 1 \/ Tail(T)[m] # Tail(T)[n]
  BY DEF Ordered
<1>3. m + 1 \in DOMAIN T /\ n + 1 \in DOMAIN T /\ m + 1 < n + 1
  BY <1>1, <1>2
<1>4. /\ Rank(T[m + 1].op) <= Rank(T[n + 1].op)
      /\ Rank(T[m + 1].op) = 1 \/ T[m + 1] # T[n + 1]
  BY <1>3 DEF Ordered
<1> QED
  BY <1>1, <1>4

\* What the head of an ordered script says of the rest.
LEMMA HeadRank ==
    ASSUME NEW i, NEW T \in Seq(SetupStatements(i)), T # <<>>, Ordered(T)
    PROVE  /\ \A n \in DOMAIN T : Rank(T[n].op) >= Rank(Head(T).op)
           /\ \A op \in Operations : \A tables : Left(T, op, tables) => Rank(op) >= Rank(Head(T).op)
           /\ Rank(Head(T).op) > 1 =>
                  /\ \A t : ~WillDrop(T, t)
                  /\ \A n \in DOMAIN T : \A t : ~Creates(T[n], t)
                  /\ ~Left(Tail(T), Head(T).op, Head(T).tables)
<1> DEFINE h == Head(T)
<1>1. h = T[1] /\ h \in SetupStatements(i) /\ 1 \in DOMAIN T /\ DOMAIN T \subseteq Nat \ {0}
  BY TailOf
<1>2. h = Do(h.op, h.tables) /\ Rank(h.op) \in 1..9
  BY <1>1, StatementShape, RankType
<1>3. ASSUME NEW n \in DOMAIN T
      PROVE  Rank(T[n].op) >= Rank(h.op) /\ T[n] \in SetupStatements(i)
  <2>1. T[n] \in SetupStatements(i)
    BY TailOf
  <2>2. CASE n = 1
    BY <2>1, <2>2, <1>1, <1>2
  <2>3. CASE n # 1
    <3>1. 1 < n
      BY <1>1, <2>3
    <3>2. Rank(T[1].op) <= Rank(T[n].op)
      BY <3>1, <1>1 DEF Ordered
    <3>3. Rank(T[n].op) \in 1..9
      BY <2>1, StatementShape, RankType
    <3> QED
      BY <3>2, <3>3, <2>1, <1>1, <1>2
  <2> QED
    BY <2>2, <2>3
<1>4. ASSUME NEW op \in Operations, NEW tables, Left(T, op, tables)
      PROVE  Rank(op) >= Rank(h.op)
  <2>1. PICK n \in DOMAIN T : T[n] = Do(op, tables)
    BY <1>4 DEF Left
  <2>2. T[n].op = op
    BY <2>1 DEF Do
  <2> QED
    BY <2>2, <1>3
<1>5. ASSUME Rank(h.op) > 1
      PROVE  /\ \A t : ~WillDrop(T, t)
             /\ \A n \in DOMAIN T : \A t : ~Creates(T[n], t)
             /\ ~Left(Tail(T), h.op, h.tables)
  <2>1. \A n \in DOMAIN T : T[n].op # "drop" /\ T[n].op # "create"
    <3> TAKE n \in DOMAIN T
    <3>1. Rank(T[n].op) >= Rank(h.op)
      BY <1>3
    <3> HIDE DEF h
    <3>2. Rank(T[n].op) # 1
      BY <3>1, <1>5, <1>2
    <3> QED
      BY <3>2, RankValues
  <2>2. ASSUME Left(Tail(T), h.op, h.tables) PROVE FALSE
    <3>1. PICK n \in DOMAIN Tail(T) : Tail(T)[n] = Do(h.op, h.tables)
      BY <2>2 DEF Left
    <3>2. n + 1 \in DOMAIN T /\ Tail(T)[n] = T[n + 1]
      BY TailOf
    <3>3. n \in Nat /\ n >= 1
      BY TailOf
    <3>4. T[n + 1] = h
      BY <3>1, <3>2, <1>2
    <3>5. 1 < n + 1
      BY <3>3
    <3>6. Rank(T[1].op) = 1 \/ T[1] # T[n + 1]
      BY <3>2, <3>5, <1>1 DEF Ordered
    <3> QED
      BY <3>4, <3>6, <1>1, <1>2, <1>5
  <2> QED
    BY <2>1, <2>2 DEF WillDrop, Drops, Creates
<1> QED
  BY <1>3, <1>4, <1>5

-----------------------------------------------------------------------------
(* What no step changes: the schema, the loads and the whole of a table.   *)

\* What depends on the workload and its driver alone changes only with them.
LEMMA SameWorkload ==
    ASSUME UNCHANGED env
    PROVE  /\ Tables' = Tables /\ ForeignKeys' = ForeignKeys
           /\ (workload' = workload /\ driverType' = driverType)
           /\ \A i : /\ LoadOrder(i)' = LoadOrder(i)
                     /\ SetupStatements(i)' = SetupStatements(i)
                     /\ \A t : Fresh(i, t)' = Fresh(i, t)
<1>1. workload' = workload /\ driverType' = driverType
  BY DEF env
<1>2. CreateOrder' = CreateOrder
  BY <1>1 DEF CreateOrder
<1>3. Tables' = Tables
  BY <1>2 DEF Tables
<1>4. DropOrder' = DropOrder
  BY <1>1, <1>2 DEF DropOrder
<1>5. ForeignKeys' = ForeignKeys
  BY <1>1 DEF ForeignKeys, Sql
<1>6. ASSUME NEW i PROVE LoadOrder(i)' = LoadOrder(i)
  BY <1>1, <1>2 DEF LoadOrder
<1>7. ASSUME NEW i PROVE SetupStatements(i)' = SetupStatements(i)
  BY <1>3, <1>4, <1>5, <1>6 DEF SetupStatements
<1>8. ASSUME NEW i, NEW t PROVE Fresh(i, t)' = Fresh(i, t)
  BY <1>1 DEF Fresh, Start
<1> QED
  BY <1>1, <1>3, <1>5, <1>6, <1>7, <1>8

-----------------------------------------------------------------------------
(* What a statement does to each part of the database.                     *)

\* The parts of a database.
Parts(d) ==
    d = [exist |-> d.exist, rows |-> d.rows, twice |-> d.twice, unlogged |-> d.unlogged,
         indexed |-> d.indexed, fks |-> d.fks, procs |-> d.procs]

\* A drop, part by part of the database.
LEMMA DroppedFields ==
    ASSUME NEW d, Parts(d), NEW tables
    PROVE  /\ Parts(Dropped(d, tables))
           /\ Dropped(d, tables).exist = d.exist \ tables
           /\ Dropped(d, tables).twice = d.twice \ tables
           /\ Dropped(d, tables).unlogged = d.unlogged \ tables
           /\ Dropped(d, tables).indexed = d.indexed \ tables
           /\ Dropped(d, tables).procs = d.procs
           /\ Dropped(d, tables).fks = {fk \in d.fks : {fk[1], fk[2]} \cap tables = {}}
           /\ Dropped(d, tables).rows =
                  [t \in DOMAIN d.rows |-> IF t \in tables THEN EmptyTable ELSE d.rows[t]]
<1> DEFINE R == [t \in DOMAIN d.rows |-> IF t \in tables THEN EmptyTable ELSE d.rows[t]]
           K == {fk \in d.fks : {fk[1], fk[2]} \cap tables = {}}
           e == Dropped(d, tables)
<1>1. e = [d EXCEPT !.exist = @ \ tables, !.rows = R, !.twice = @ \ tables,
                    !.unlogged = @ \ tables, !.indexed = @ \ tables, !.fks = K]
  BY DEF Dropped
<1> HIDE DEF R, K, e
<1>2. e = [exist |-> d.exist \ tables, rows |-> R, twice |-> d.twice \ tables,
           unlogged |-> d.unlogged \ tables, indexed |-> d.indexed \ tables, fks |-> K,
           procs |-> d.procs]
  BY <1>1 DEF Parts
<1>3. /\ Parts(e) /\ e.exist = d.exist \ tables /\ e.twice = d.twice \ tables
      /\ e.unlogged = d.unlogged \ tables /\ e.indexed = d.indexed \ tables
      /\ e.procs = d.procs /\ e.fks = K /\ e.rows = R
  BY <1>2 DEF Parts
<1> QED
  BY <1>3 DEF R, K, e

\* Instance i's statement s, done, takes the database from d to e.
Executes(i, s, d, e) ==
    /\ Parts(e)
    /\ \A t \in Tables :
          /\ t \in e.exist <=> Creates(s, t) \/ (t \in d.exist /\ ~Drops(s, t))
          /\ e.rows[t] = IF Drops(s, t) THEN EmptyTable
                         ELSE IF s = Do("insert", <<t>>) THEN Fresh(i, t) ELSE d.rows[t]
          /\ t \in e.twice <=> t \in d.twice /\ ~Drops(s, t)
          /\ t \in e.unlogged =>
                /\ ~Drops(s, t) /\ s # Do("set_logged", <<t>>)
                /\ t \in d.unlogged \/ s = Do("set_unlogged", <<t>>)
          /\ t \in e.indexed =>
                /\ ~Drops(s, t)
                /\ t \in d.indexed \/ s = Do("create_index", <<t>>)
    /\ e.rows = [t \in Tables |-> e.rows[t]]
    /\ e.exist \subseteq Tables /\ e.unlogged \subseteq Tables
    /\ \A fk \in e.fks :
          \/ fk \in d.fks /\ ~Drops(s, fk[1])
          \/ s = Do("add_foreign_key", fk) /\ fk \in ToSet(ForeignKeys)
    /\ e.procs \in BOOLEAN
    /\ e.procs => /\ s.op # "drop_procedures"
                  /\ d.procs \/ s.op = "create_procedures"

\* What Effect makes of the database is what a statement done makes of it.
LEMMA EffectExecutes ==
    ASSUME DatabaseOK, NEW i, NEW s \in SetupStatements(i), s.op \notin {"insert", "validate"}
    PROVE  Executes(i, s, db, Effect(s))
<1> DEFINE tables == ToSet(s.tables)
<1>0. /\ Parts(db) /\ db.rows = [t \in Tables |-> db.rows[t]] /\ DOMAIN db.rows = Tables
      /\ db.exist \subseteq Tables /\ db.unlogged \subseteq Tables
      /\ db.fks \subseteq ToSet(ForeignKeys) /\ db.procs \in BOOLEAN
  BY DEF DatabaseOK, Parts
<1>1. s.op \in Operations /\ s = Do(s.op, s.tables)
  BY StatementShape
<1>2. \A t : <<t>> = s.tables => tables = {t}
  BY DEF ToSet
<1>3. \A t : Do(s.op, <<t>>) = s <=> s.tables = <<t>>
  BY <1>1 DEF Do
<1>4. s.op \in OnOneTable /\ s.op # "drop" => \E t \in Tables : s.tables = <<t>> /\ tables = {t}
  BY <1>2, StatementShape
<1>5. /\ \A t : Drops(s, t) <=> s.op = "drop" /\ t \in tables
      /\ \A t : Creates(s, t) <=> s.op = "create" /\ t \in tables
  BY DEF Drops, Creates
<1>6. \A t : s # Do("insert", <<t>>)
  BY DEF Do
<1>a. CASE s.op = "drop"
  <2>1. Effect(s) = Dropped(db, tables)
    BY <1>a DEF Effect
  <2> DEFINE e == Effect(s)
  <2>2. /\ Parts(e)
        /\ e.exist = db.exist \ tables
        /\ e.twice = db.twice \ tables
        /\ e.unlogged = db.unlogged \ tables
        /\ e.indexed = db.indexed \ tables
        /\ e.procs = db.procs
        /\ e.fks = {fk \in db.fks : {fk[1], fk[2]} \cap tables = {}}
        /\ e.rows = [t \in DOMAIN db.rows |-> IF t \in tables THEN EmptyTable ELSE db.rows[t]]
    BY <2>1, <1>0, DroppedFields
  <2> HIDE DEF e, tables
  <2>3. \A t : s # Do("set_logged", <<t>>)
    BY <1>a DEF Do
  <2>4. \A t \in Tables : e.rows[t] = IF t \in tables THEN EmptyTable ELSE db.rows[t]
    BY <2>2, <1>0
  <2>5. e.rows = [t \in Tables |-> e.rows[t]]
    BY <2>2, <1>0
  <2>6. \A fk \in e.fks : fk \in db.fks /\ fk[1] \notin tables
    BY <2>2
  <2> QED
    BY <1>0, <1>5, <1>6, <2>2, <2>3, <2>4, <2>5, <2>6, <1>a DEF Executes, e
<1>b. CASE s.op = "create"
  <2>1. Effect(s) = [db EXCEPT !.exist = @ \cup tables]
    BY <1>b DEF Effect
  <2>2. /\ Parts(Effect(s)) /\ Effect(s).exist = db.exist \cup tables
        /\ Effect(s).rows = db.rows /\ Effect(s).twice = db.twice
        /\ Effect(s).unlogged = db.unlogged /\ Effect(s).indexed = db.indexed
        /\ Effect(s).fks = db.fks /\ Effect(s).procs = db.procs
    BY <2>1, <1>0 DEF Parts
  <2>3. tables \subseteq Tables
    BY <1>4, <1>b DEF OnOneTable
  <2>4. \A t : s # Do("set_logged", <<t>>)
    BY <1>b DEF Do
  <2> HIDE DEF tables
  <2> QED
    BY <1>0, <1>5, <1>6, <2>2, <2>3, <2>4, <1>b DEF Executes
<1>c. CASE s.op \in {"drop_procedures", "create_procedures"}
  <2>1. Effect(s) = [db EXCEPT !.procs = (s.op = "create_procedures")]
    BY <1>c DEF Effect
  <2>2. /\ Parts(Effect(s)) /\ Effect(s).exist = db.exist
        /\ Effect(s).rows = db.rows /\ Effect(s).twice = db.twice
        /\ Effect(s).unlogged = db.unlogged /\ Effect(s).indexed = db.indexed
        /\ Effect(s).fks = db.fks
    BY <2>1, <1>0 DEF Parts
  <2>3. Effect(s).procs = (s.op = "create_procedures")
    BY <2>1, <1>0 DEF Parts
  <2>4. Effect(s).procs \in BOOLEAN /\ (Effect(s).procs => s.op = "create_procedures")
    BY <2>3
  <2>5. \A t : s # Do("set_logged", <<t>>)
    BY <1>c DEF Do
  <2> HIDE DEF tables
  <2> QED
    BY <1>0, <1>5, <1>6, <2>2, <2>4, <2>5, <1>c DEF Executes
<1>d. CASE s.op = "set_unlogged"
  <2>1. Effect(s) = [db EXCEPT !.unlogged = @ \cup tables]
    BY <1>d DEF Effect
  <2>2. /\ Parts(Effect(s)) /\ Effect(s).exist = db.exist
        /\ Effect(s).rows = db.rows /\ Effect(s).twice = db.twice
        /\ Effect(s).unlogged = db.unlogged \cup tables /\ Effect(s).indexed = db.indexed
        /\ Effect(s).fks = db.fks /\ Effect(s).procs = db.procs
    BY <2>1, <1>0 DEF Parts
  <2>3. PICK u \in Tables : s.tables = <<u>> /\ tables = {u}
    BY <1>4, <1>d DEF OnOneTable
  <2>4. s = Do("set_unlogged", <<u>>) /\ \A t : s # Do("set_logged", <<t>>)
    BY <1>1, <1>d, <2>3 DEF Do
  <2> HIDE DEF tables
  <2> QED
    BY <1>0, <1>5, <1>6, <2>2, <2>3, <2>4, <1>d DEF Executes
<1>e. CASE s.op = "set_logged"
  <2>1. Effect(s) = [db EXCEPT !.unlogged = @ \ tables]
    BY <1>e DEF Effect
  <2>2. /\ Parts(Effect(s)) /\ Effect(s).exist = db.exist
        /\ Effect(s).rows = db.rows /\ Effect(s).twice = db.twice
        /\ Effect(s).unlogged = db.unlogged \ tables /\ Effect(s).indexed = db.indexed
        /\ Effect(s).fks = db.fks /\ Effect(s).procs = db.procs
    BY <2>1, <1>0 DEF Parts
  <2>3. \A t \in Tables : s = Do("set_logged", <<t>>) => t \in tables
    BY <1>2 DEF Do
  <2> HIDE DEF tables
  <2> QED
    BY <1>0, <1>5, <1>6, <2>2, <2>3, <1>e DEF Executes
<1>f. CASE s.op = "create_index"
  <2>1. Effect(s) = [db EXCEPT !.indexed = @ \cup tables]
    BY <1>f DEF Effect
  <2>2. /\ Parts(Effect(s)) /\ Effect(s).exist = db.exist
        /\ Effect(s).rows = db.rows /\ Effect(s).twice = db.twice
        /\ Effect(s).unlogged = db.unlogged /\ Effect(s).indexed = db.indexed \cup tables
        /\ Effect(s).fks = db.fks /\ Effect(s).procs = db.procs
    BY <2>1, <1>0 DEF Parts
  <2>3. PICK u \in Tables : s.tables = <<u>> /\ tables = {u}
    BY <1>4, <1>f DEF OnOneTable
  <2>4. s = Do("create_index", <<u>>) /\ \A t : s # Do("set_logged", <<t>>)
    BY <1>1, <1>f, <2>3 DEF Do
  <2> HIDE DEF tables
  <2> QED
    BY <1>0, <1>5, <1>6, <2>2, <2>3, <2>4, <1>f DEF Executes
<1>g. CASE s.op = "add_foreign_key"
  <2>1. Effect(s) = [db EXCEPT !.fks = @ \cup {s.tables}]
    BY <1>g DEF Effect
  <2>2. /\ Parts(Effect(s)) /\ Effect(s).exist = db.exist
        /\ Effect(s).rows = db.rows /\ Effect(s).twice = db.twice
        /\ Effect(s).unlogged = db.unlogged /\ Effect(s).indexed = db.indexed
        /\ Effect(s).fks = db.fks \cup {s.tables} /\ Effect(s).procs = db.procs
    BY <2>1, <1>0 DEF Parts
  <2>3. s = Do("add_foreign_key", s.tables) /\ s.tables \in ToSet(ForeignKeys)
    BY <1>1, <1>g, StatementShape
  <2>4. \A t : s # Do("set_logged", <<t>>)
    BY <1>g DEF Do
  <2> HIDE DEF tables
  <2> QED
    BY <1>0, <1>5, <1>6, <2>2, <2>3, <2>4, <1>g DEF Executes
<1>h. CASE s.op = "analyze"
  <2>1. Effect(s) = db
    BY <1>h DEF Effect
  <2>2. \A t : s # Do("set_logged", <<t>>)
    BY <1>h DEF Do
  <2> HIDE DEF tables
  <2> QED
    BY <1>0, <1>5, <1>6, <2>1, <2>2, <1>h DEF Executes
<1> QED
  BY <1>1, <1>a, <1>b, <1>c, <1>d, <1>e, <1>f, <1>g, <1>h DEF Operations, Schemas

-----------------------------------------------------------------------------
(* A statement that is done leaves what fits the rest of the script.       *)

\* The rest of instance i's script, after its head is done.
Advances(i) ==
    /\ UNCHANGED env
    /\ filter'[i] = filter[i]
    /\ todo'[i] = Tail(todo[i])
    /\ Executes(i, Head(todo[i]), db, db')

\* Instance i has a statement to run, and its command lays out the schema.
AtWork(i) ==
    /\ SetupTypeOK
    /\ i \in Instances
    /\ todo[i] \in Seq(SetupStatements(i))
    /\ todo[i] # <<>>
    /\ Fits(i)

\* The statement an instance at work is at.
LEMMA HeadShape ==
    ASSUME NEW i, AtWork(i)
    PROVE  /\ Head(todo[i]) = todo[i][1] /\ 1 \in DOMAIN todo[i]
           /\ Head(todo[i]) \in SetupStatements(i)
           /\ Head(todo[i]) = Do(Head(todo[i]).op, Head(todo[i]).tables)
           /\ Head(todo[i]).op \in Operations
           /\ Rank(Head(todo[i]).op) \in 1..9
  BY TailOf, StatementShape, RankType DEF AtWork

\* A statement done, no table that exists is created, and at the end they all exist.
LEMMA SchemaAdvances ==
    ASSUME NEW i, AtWork(i), Advances(i)
    PROVE  SchemaFits(todo[i])'
<1> DEFINE T == todo[i]
           R == Tail(T)
           h == Head(T)
<1>1. /\ h = T[1]
      /\ Len(T) \in Nat /\ Len(T) >= 1 /\ Len(R) = Len(T) - 1
      /\ DOMAIN T = 1..Len(T) /\ DOMAIN R = 1..Len(R)
      /\ \A n \in DOMAIN R : n + 1 \in DOMAIN T /\ R[n] = T[n + 1]
      /\ \A n \in DOMAIN T : n = 1 \/ (n - 1 \in DOMAIN R /\ R[n - 1] = T[n])
  BY TailOf DEF AtWork
<1>2. \A t : WillDrop(T, t) <=> Drops(h, t) \/ WillDrop(R, t)
  BY WillDropTail DEF AtWork
<1>3. /\ Tables' = Tables /\ todo'[i] = R
      /\ \A t \in Tables : t \in db'.exist <=> Creates(h, t) \/ (t \in db.exist /\ ~Drops(h, t))
  BY SameWorkload DEF Advances, Executes
<1>4. \A n \in DOMAIN T, t \in Tables :
          Creates(T[n], t) =>
              /\ \A m \in 1..(n - 1) : ~Creates(T[m], t)
              /\ t \notin db.exist \/ \E m \in 1..(n - 1) : Drops(T[m], t)
  BY DEF AtWork, Fits, SchemaFits
<1>5. \A t \in Tables :
          \/ t \in db.exist /\ ~WillDrop(T, t)
          \/ \E n \in DOMAIN T : Creates(T[n], t) /\ \A m \in (n + 1)..Len(T) : ~Drops(T[m], t)
  BY DEF AtWork, Fits, SchemaFits
<1> HIDE DEF T, R, h
<1>6. ASSUME NEW n \in DOMAIN R, NEW t \in Tables, Creates(R[n], t)
      PROVE  /\ \A m \in 1..(n - 1) : ~Creates(R[m], t)
             /\ t \notin db'.exist \/ \E m \in 1..(n - 1) : Drops(R[m], t)
  <2>1. n + 1 \in DOMAIN T /\ Creates(T[n + 1], t) /\ n \in Nat /\ n >= 1
    BY <1>1, <1>6
  <2>2. /\ \A m \in 1..n : ~Creates(T[m], t)
        /\ t \notin db.exist \/ \E m \in 1..n : Drops(T[m], t)
    BY <2>1, <1>4
  <2>3. ASSUME NEW m \in 1..(n - 1) PROVE ~Creates(R[m], t)
    <3>1. m \in DOMAIN R /\ m + 1 \in 1..n
      BY <2>1, <1>1
    <3> QED
      BY <3>1, <2>2, <1>1
  <2>4. ~Creates(h, t)
    BY <2>1, <2>2, <1>1
  <2>5. CASE t \notin db.exist
    BY <2>5, <2>4, <1>3, <2>3
  <2>6. CASE \E m \in 1..n : Drops(T[m], t)
    <3>1. PICK m \in 1..n : Drops(T[m], t)
      BY <2>6
    <3>2. CASE m = 1
      BY <3>1, <3>2, <2>4, <1>1, <1>3, <2>3
    <3>3. CASE m # 1
      <4>1. m \in DOMAIN T /\ m - 1 \in 1..(n - 1)
        BY <3>3, <2>1, <1>1
      <4>2. R[m - 1] = T[m]
        BY <4>1, <3>3, <1>1
      <4> QED
        BY <4>1, <4>2, <3>1, <2>3
    <3> QED
      BY <3>2, <3>3
  <2> QED
    BY <2>2, <2>5, <2>6
<1>7. ASSUME NEW t \in Tables
      PROVE  \/ t \in db'.exist /\ ~WillDrop(R, t)
             \/ \E n \in DOMAIN R :
                   Creates(R[n], t) /\ \A m \in (n + 1)..Len(R) : ~Drops(R[m], t)
  <2>1. CASE t \in db.exist /\ ~WillDrop(T, t)
    BY <2>1, <1>2, <1>3
  <2>2. ASSUME NEW n \in DOMAIN T, Creates(T[n], t),
               \A m \in (n + 1)..Len(T) : ~Drops(T[m], t)
        PROVE  \/ t \in db'.exist /\ ~WillDrop(R, t)
               \/ \E k \in DOMAIN R :
                     Creates(R[k], t) /\ \A m \in (k + 1)..Len(R) : ~Drops(R[m], t)
    <3>1. CASE n = 1
      <4>1. t \in db'.exist
        BY <3>1, <2>2, <1>1, <1>3
      <4>2. ASSUME NEW m \in DOMAIN R PROVE ~Drops(R[m], t)
        <5>1. m + 1 \in (n + 1)..Len(T)
          BY <3>1, <1>1
        <5> QED
          BY <5>1, <2>2, <1>1
      <4> QED
        BY <4>1, <4>2 DEF WillDrop
    <3>2. CASE n # 1
      <4>1. n - 1 \in DOMAIN R /\ R[n - 1] = T[n]
        BY <3>2, <1>1
      <4>2. ASSUME NEW m \in n..Len(R) PROVE ~Drops(R[m], t)
        <5>1. m \in DOMAIN R /\ m + 1 \in (n + 1)..Len(T)
          BY <1>1
        <5> QED
          BY <5>1, <2>2, <1>1
      <4>3. \A m \in ((n - 1) + 1)..Len(R) : ~Drops(R[m], t)
        BY <4>2, <1>1
      <4> QED
        BY <4>1, <4>3, <2>2
    <3> QED
      BY <3>1, <3>2
  <2> QED
    BY <2>1, <2>2, <1>5
<1>8. /\ \A n \in DOMAIN R, t \in Tables :
            Creates(R[n], t) =>
                /\ \A m \in 1..(n - 1) : ~Creates(R[m], t)
                /\ t \notin db'.exist \/ \E m \in 1..(n - 1) : Drops(R[m], t)
      /\ \A t \in Tables :
            \/ t \in db'.exist /\ ~WillDrop(R, t)
            \/ \E n \in DOMAIN R :
                  Creates(R[n], t) /\ \A m \in (n + 1)..Len(R) : ~Drops(R[m], t)
  BY <1>6, <1>7
<1> QED
  BY <1>3, <1>8 DEF SchemaFits

\* A statement done, foreign keys and procedures are still dropped in time.
LEMMA KeysAdvance ==
    ASSUME NEW i, AtWork(i), Advances(i)
    PROVE  KeysFit(todo[i])' /\ ProceduresFit(todo[i])'
<1> DEFINE T == todo[i]
           R == Tail(T)
           h == Head(T)
<1>1. /\ h = T[1] /\ 1 \in DOMAIN T
      /\ Len(T) \in Nat /\ Len(T) >= 1 /\ Len(R) = Len(T) - 1
      /\ DOMAIN T = 1..Len(T) /\ DOMAIN R = 1..Len(R)
      /\ \A n \in DOMAIN R : n + 1 \in DOMAIN T /\ R[n] = T[n + 1]
      /\ \A n \in DOMAIN T : n = 1 \/ (n - 1 \in DOMAIN R /\ R[n - 1] = T[n])
  BY TailOf DEF AtWork
<1>2. /\ \A t : WillDrop(T, t) <=> Drops(h, t) \/ WillDrop(R, t)
      /\ \A op, tables : Left(T, op, tables) <=> h = Do(op, tables) \/ Left(R, op, tables)
  BY WillDropTail, LeftTail DEF AtWork
<1>3. /\ todo'[i] = R /\ driverType' = driverType
      /\ \A fk \in db'.fks :
            \/ fk \in db.fks /\ ~Drops(h, fk[1])
            \/ h = Do("add_foreign_key", fk)
      /\ db'.procs \in BOOLEAN
      /\ db'.procs => /\ h.op # "drop_procedures"
                      /\ db.procs \/ h.op = "create_procedures"
  BY SameWorkload DEF Advances, Executes
<1>4. /\ \A n \in DOMAIN T : Rank(T[n].op) >= Rank(h.op)
      /\ Rank(h.op) > 1 => ~Left(R, h.op, h.tables)
  BY HeadRank DEF AtWork, Fits
<1>5. /\ h = Do(h.op, h.tables) /\ h \in SetupStatements(i)
      /\ h.op \in {"drop_procedures", "create_procedures", "validate"} => h.tables = <<>>
  BY HeadShape, StatementShape
<1>6. \A fk \in db.fks :
          \/ /\ WillDrop(T, fk[1])
             /\ driverType = "mysql" =>
                    \A n \in DOMAIN T :
                        Drops(T[n], fk[2]) => \E m \in 1..n : Drops(T[m], fk[1])
          \/ /\ \A n \in DOMAIN T : Rank(T[n].op) >= 7
             /\ ~Left(T, "add_foreign_key", fk)
  BY DEF AtWork, Fits, KeysFit
<1>7. driverType = "mysql" /\ db.procs /\ Left(T, "create_procedures", <<>>) =>
          Left(T, "drop_procedures", <<>>)
  BY DEF AtWork, Fits, ProceduresFit
<1> HIDE DEF T, R, h
<1>8. ASSUME NEW fk \in db'.fks
      PROVE  \/ /\ WillDrop(R, fk[1])
                /\ driverType = "mysql" =>
                       \A n \in DOMAIN R :
                           Drops(R[n], fk[2]) => \E m \in 1..n : Drops(R[m], fk[1])
             \/ /\ \A n \in DOMAIN R : Rank(R[n].op) >= 7
                /\ ~Left(R, "add_foreign_key", fk)
  <2>1. CASE h = Do("add_foreign_key", fk)
    <3>1. h.op = "add_foreign_key" /\ h.tables = fk
      BY <2>1 DEF Do
    <3>2. Rank(h.op) = 7
      BY <3>1, RankValues
    <3>3. \A n \in DOMAIN R : Rank(R[n].op) >= 7
      BY <3>2, <1>4, <1>1
    <3> QED
      BY <3>1, <3>2, <3>3, <1>4
  <2>2. CASE fk \in db.fks /\ ~Drops(h, fk[1])
    <3>1. CASE /\ WillDrop(T, fk[1])
               /\ driverType = "mysql" =>
                      \A n \in DOMAIN T :
                          Drops(T[n], fk[2]) => \E m \in 1..n : Drops(T[m], fk[1])
      <4>1. WillDrop(R, fk[1])
        BY <3>1, <2>2, <1>2
      <4>2. ASSUME driverType = "mysql", NEW n \in DOMAIN R, Drops(R[n], fk[2])
            PROVE  \E m \in 1..n : Drops(R[m], fk[1])
        <5>1. n + 1 \in DOMAIN T /\ Drops(T[n + 1], fk[2]) /\ n \in Nat
          BY <4>2, <1>1
        <5>2. PICK m \in 1..(n + 1) : Drops(T[m], fk[1])
          BY <5>1, <4>2, <3>1
        <5>3. m # 1
          BY <5>2, <2>2, <1>1
        <5>4. m \in DOMAIN T /\ m - 1 \in 1..n
          BY <5>1, <5>3, <1>1
        <5>5. R[m - 1] = T[m]
          BY <5>3, <5>4, <1>1
        <5> QED
          BY <5>2, <5>4, <5>5
      <4> QED
        BY <4>1, <4>2
    <3>2. CASE /\ \A n \in DOMAIN T : Rank(T[n].op) >= 7
               /\ ~Left(T, "add_foreign_key", fk)
      BY <3>2, <1>1, <1>2
    <3> QED
      BY <3>1, <3>2, <2>2, <1>6
  <2> QED
    BY <2>1, <2>2, <1>3
<1>9. ASSUME driverType = "mysql", db'.procs, Left(R, "create_procedures", <<>>)
      PROVE  Left(R, "drop_procedures", <<>>)
  <2>1. h.op # "create_procedures"
    BY <1>9, <1>4, <1>5, RankValues
  <2>2. h # Do("drop_procedures", <<>>)
    BY <1>3, <1>9 DEF Do
  <2>3. db.procs
    BY <1>3, <1>9, <2>1
  <2> QED
    BY <2>2, <2>3, <1>2, <1>7, <1>9
<1> QED
  BY <1>3, <1>8, <1>9 DEF KeysFit, ProceduresFit

\* A statement done, each table is as its load and what is left of it make it.
LEMMA TablesAdvance ==
    ASSUME NEW i, AtWork(i), Advances(i)
    PROVE  TablesFit(i, todo[i])'
<1> DEFINE T == todo[i]
           R == Tail(T)
           h == Head(T)
           logs == Enabled(filter[i], "set_logged")
<1>2. /\ \A t : WillDrop(T, t) <=> Drops(h, t) \/ WillDrop(R, t)
      /\ \A op, tables : Left(T, op, tables) <=> h = Do(op, tables) \/ Left(R, op, tables)
  BY WillDropTail, LeftTail DEF AtWork
<1>3. /\ todo'[i] = R /\ Tables' = Tables /\ filter'[i] = filter[i]
      /\ \A t : Fresh(i, t)' = Fresh(i, t) /\ (Loads(i, t)' <=> Loads(i, t))
  BY SameWorkload DEF Advances, Loads
<1>4. Rank(h.op) > 1 => ~Left(R, h.op, h.tables)
  BY HeadRank DEF AtWork, Fits
<1>5. \A t \in Tables :
          /\ db'.rows[t] = IF Drops(h, t) THEN EmptyTable
                           ELSE IF h = Do("insert", <<t>>) THEN Fresh(i, t) ELSE db.rows[t]
          /\ t \in db'.twice <=> t \in db.twice /\ ~Drops(h, t)
          /\ t \in db'.unlogged =>
                /\ ~Drops(h, t) /\ h # Do("set_logged", <<t>>)
                /\ t \in db.unlogged \/ h = Do("set_unlogged", <<t>>)
          /\ t \in db'.indexed =>
                /\ ~Drops(h, t)
                /\ t \in db.indexed \/ h = Do("create_index", <<t>>)
  BY DEF Advances, Executes
<1>6. \A t \in Tables : WillDrop(T, t) \/ TableFits(i, T, t)
  BY DEF AtWork, Fits, TablesFit
<1>7. \A t \in Tables :
          /\ WillDrop(T, t) /\ Loads(i, t) => Left(T, "insert", <<t>>)
          /\ logs /\ Left(T, "set_unlogged", <<t>>) => Left(T, "set_logged", <<t>>)
  BY DEF AtWork, Fits, Complete
<1>8. \A t \in Tables : Left(T, "insert", <<t>>) => Loads(i, t)
  BY DEF AtWork, Fits, Complete
<1> HIDE DEF T, R, h
<1>9. ASSUME NEW t \in Tables, ~WillDrop(R, t)
      PROVE  /\ t \notin db'.twice
             /\ Loads(i, t) /\ ~Left(R, "insert", <<t>>) => db'.rows[t] = Fresh(i, t)
             /\ ~Loads(i, t) \/ Left(R, "insert", <<t>>) => db'.rows[t] = EmptyTable
             /\ t \in db'.indexed => ~Left(R, "create_index", <<t>>)
             /\ t \in db'.unlogged /\ logs => Left(R, "set_logged", <<t>>)
  <2> HIDE DEF logs
  <2>1. CASE Drops(h, t)
    <3>1. WillDrop(T, t) /\ h.op = "drop"
      BY <2>1, <1>2 DEF Drops
    <3>2. h # Do("insert", <<t>>)
      BY <3>1 DEF Do
    <3>3. Loads(i, t) => Left(R, "insert", <<t>>)
      BY <3>1, <3>2, <1>2, <1>7
    <3> QED
      BY <2>1, <3>3, <1>5
  <2>2. CASE ~Drops(h, t)
    <3>1. TableFits(i, T, t)
      BY <2>2, <1>2, <1>6, <1>9
    <3>2. /\ t \notin db.twice
          /\ Loads(i, t) /\ ~Left(T, "insert", <<t>>) => db.rows[t] = Fresh(i, t)
          /\ ~Loads(i, t) \/ Left(T, "insert", <<t>>) => db.rows[t] = EmptyTable
          /\ t \in db.indexed => ~Left(T, "create_index", <<t>>)
          /\ t \in db.unlogged /\ logs => Left(T, "set_logged", <<t>>)
      BY <3>1 DEF TableFits, logs
    <3>3. t \notin db'.twice
      BY <3>2, <1>5
    <3>4. ASSUME h = Do("insert", <<t>>)
          PROVE  db'.rows[t] = Fresh(i, t) /\ ~Left(R, "insert", <<t>>) /\ Loads(i, t)
      <4>1. h.op = "insert" /\ h.tables = <<t>> /\ Left(T, "insert", <<t>>)
        BY <3>4, <1>2 DEF Do
      <4> QED
        BY <3>4, <4>1, <2>2, <1>4, <1>5, <1>8, RankValues
    <3>5. ASSUME h # Do("insert", <<t>>)
          PROVE  db'.rows[t] = db.rows[t]
                 /\ (Left(T, "insert", <<t>>) <=> Left(R, "insert", <<t>>))
      BY <3>5, <2>2, <1>2, <1>5
    <3>6. ASSUME t \in db'.indexed PROVE ~Left(R, "create_index", <<t>>)
      <4>1. CASE h = Do("create_index", <<t>>)
        <5>1. h.op = "create_index" /\ h.tables = <<t>>
          BY <4>1 DEF Do
        <5> QED
          BY <5>1, <1>4, RankValues
      <4>2. CASE t \in db.indexed
        BY <4>2, <3>2, <1>2
      <4> QED
        BY <4>1, <4>2, <3>6, <1>5
    <3>7. ASSUME t \in db'.unlogged, logs PROVE Left(R, "set_logged", <<t>>)
      <4>1. Left(T, "set_logged", <<t>>)
        <5>1. CASE h = Do("set_unlogged", <<t>>)
          BY <5>1, <3>7, <1>2, <1>7
        <5>2. CASE t \in db.unlogged
          BY <5>2, <3>2, <3>7
        <5> QED
          BY <5>1, <5>2, <3>7, <1>5
      <4> QED
        BY <4>1, <3>7, <1>2, <1>5
    <3> QED
      BY <3>2, <3>3, <3>4, <3>5, <3>6, <3>7
  <2> QED
    BY <2>1, <2>2
<1>10. \A t \in Tables : WillDrop(R, t) \/
          /\ t \notin db'.twice
          /\ Loads(i, t)' /\ ~Left(R, "insert", <<t>>) => db'.rows[t] = Fresh(i, t)'
          /\ ~Loads(i, t)' \/ Left(R, "insert", <<t>>) => db'.rows[t] = EmptyTable
          /\ t \in db'.indexed => ~Left(R, "create_index", <<t>>)
          /\ t \in db'.unlogged /\ Enabled(filter'[i], "set_logged") => Left(R, "set_logged", <<t>>)
  BY <1>3, <1>9 DEF logs
<1> HIDE DEF logs
<1> QED
  BY <1>3, <1>10 DEF TablesFit, TableFits

\* A statement done, the script still fills what it empties and logs what it unlogs.
LEMMA CompleteAdvances ==
    ASSUME NEW i, AtWork(i), Advances(i)
    PROVE  Complete(i, todo[i])'
<1> DEFINE T == todo[i]
           R == Tail(T)
           h == Head(T)
           logs == Enabled(filter[i], "set_logged")
<1>1. /\ \A t : WillDrop(T, t) <=> Drops(h, t) \/ WillDrop(R, t)
      /\ \A op, tables : Left(T, op, tables) <=> h = Do(op, tables) \/ Left(R, op, tables)
  BY WillDropTail, LeftTail DEF AtWork
<1>2. /\ todo'[i] = R /\ Tables' = Tables /\ filter'[i] = filter[i]
      /\ \A t : Loads(i, t)' <=> Loads(i, t)
  BY SameWorkload DEF Advances, Loads
<1>3. /\ Rank(h.op) > 1 => \A t : ~WillDrop(T, t)
      /\ \A op \in Operations : \A tables : Left(T, op, tables) => Rank(op) >= Rank(h.op)
  BY HeadRank DEF AtWork, Fits
<1>4. /\ \A t \in Tables : Left(T, "insert", <<t>>) => Loads(i, t)
      /\ \A t \in Tables :
          /\ WillDrop(T, t) /\ Loads(i, t) => Left(T, "insert", <<t>>)
          /\ logs /\ Left(T, "set_unlogged", <<t>>) => Left(T, "set_logged", <<t>>)
  BY DEF AtWork, Fits, Complete
<1> HIDE DEF T, R, h
<1>5. ASSUME NEW t \in Tables, WillDrop(R, t), Loads(i, t) PROVE Left(R, "insert", <<t>>)
  <2>1. WillDrop(T, t) /\ Left(T, "insert", <<t>>)
    BY <1>1, <1>4, <1>5
  <2>2. h.op # "insert"
    BY <2>1, <1>3, RankValues
  <2>3. h # Do("insert", <<t>>)
    BY <2>2 DEF Do
  <2> QED
    BY <2>1, <2>3, <1>1
<1>6. ASSUME NEW t \in Tables, logs, Left(R, "set_unlogged", <<t>>)
      PROVE  Left(R, "set_logged", <<t>>)
  <2>1. Left(T, "set_unlogged", <<t>>) /\ Left(T, "set_logged", <<t>>)
    BY <1>1, <1>4, <1>6
  <2>2. Rank("set_unlogged") >= Rank(h.op)
    BY <2>1, <1>3 DEF Operations
  <2>3. h.op # "set_logged"
    BY <2>2, RankValues
  <2>4. h # Do("set_logged", <<t>>)
    BY <2>3 DEF Do
  <2> QED
    BY <2>1, <2>4, <1>1
<1>7. /\ \A t \in Tables : Left(R, "insert", <<t>>) => Loads(i, t)'
      /\ \A t \in Tables :
            /\ WillDrop(R, t) /\ Loads(i, t)' => Left(R, "insert", <<t>>)
            /\ Enabled(filter'[i], "set_logged") /\ Left(R, "set_unlogged", <<t>>)
                   => Left(R, "set_logged", <<t>>)
  BY <1>1, <1>2, <1>4, <1>5, <1>6
<1> QED
  BY <1>2, <1>7 DEF Complete

\* A statement done, the rest of the script fits what it left of the database.
LEMMA FitsAdvances ==
    ASSUME NEW i, AtWork(i), Advances(i), phase'[i] = "setup"
    PROVE  Fits(i)'
<1>1. Ordered(Tail(todo[i]))
  BY OrderedTail DEF AtWork, Fits
<1>2. WarehouseStart[i] = 1 /\ todo'[i] = Tail(todo[i])
  BY DEF AtWork, Fits, Advances
<1>3. Ordered(todo[i])'
  BY <1>1, <1>2 DEF Ordered
<1>4. SchemaFits(todo[i])' /\ TablesFit(i, todo[i])' /\ KeysFit(todo[i])'
      /\ ProceduresFit(todo[i])' /\ Complete(i, todo[i])'
  BY SchemaAdvances, TablesAdvance, KeysAdvance, CompleteAdvances
<1> QED
  BY <1>2, <1>3, <1>4 DEF Fits

-----------------------------------------------------------------------------
(* The rows of a whole table.                                              *)

\* The factors of the row counts are positive.
LEMMA Factors ==
    /\ DistrictsPerWarehouse \in Nat \ {0} /\ CustomersPerDistrict \in Nat \ {0}
    /\ Items \in Nat \ {0} /\ OlCntFixed \in Nat \ {0}
    /\ TellersPerBranch \in Nat \ {0} /\ AccountsPerBranch \in Nat \ {0}
    /\ ReferenceRows \in Nat \ {0} /\ OrdersUndelivered \in Nat \ {0}
  BY PopulationAssumption DEF OrdersUndelivered

\* The keys and the columns of rows are those of their entries.
LEMMA RowsKeys ==
    ASSUME NEW t, NEW E, NEW start
    PROVE  /\ \A k : k \in DOMAIN Rows(t, E, start) <=> \E e \in E : Row(t, e, start).key = k
           /\ \A k \in DOMAIN Rows(t, E, start) :
                 \E e \in E : /\ Row(t, e, start).key = k
                              /\ Rows(t, E, start)[k] = Row(t, e, start).columns
<1> DEFINE rows == {Row(t, e, start) : e \in E}
           f == [k \in {r.key : r \in rows} |-> (CHOOSE r \in rows : r.key = k).columns]
<1>1. Rows(t, E, start) = f
  BY DEF Rows
<1>2. \A k : k \in DOMAIN f <=> \E r \in rows : r.key = k
  OBVIOUS
<1>3. ASSUME NEW k \in DOMAIN f PROVE \E r \in rows : r.key = k /\ f[k] = r.columns
  <2>1. \E r \in rows : r.key = k
    BY <1>2
  <2>2. (CHOOSE r \in rows : r.key = k) \in rows /\ (CHOOSE r \in rows : r.key = k).key = k
    BY <2>1
  <2>3. f[k] = (CHOOSE r \in rows : r.key = k).columns
    OBVIOUS
  <2> QED
    BY <2>2, <2>3
<1>4. \A r : r \in rows <=> \E e \in E : r = Row(t, e, start)
  OBVIOUS
<1> HIDE DEF f, rows
<1> QED
  BY <1>1, <1>2, <1>3, <1>4

\* The same for the whole of a table.
LEMMA WholeKeys ==
    ASSUME NEW t, NEW start, NEW scale
    PROVE  /\ \A k : k \in DOMAIN Whole(t, start, scale) <=>
                       \E e \in 0..(TotalRows(t, scale) - 1) : Row(t, e, start).key = k
           /\ \A k \in DOMAIN Whole(t, start, scale) :
                 \E e \in 0..(TotalRows(t, scale) - 1) :
                    /\ Row(t, e, start).key = k
                    /\ Whole(t, start, scale)[k] = Row(t, e, start).columns
<1> DEFINE E == 0..(TotalRows(t, scale) - 1)
<1>1. Whole(t, start, scale) = Rows(t, E, start)
  BY DEF Whole
<1> HIDE DEF E
<1>2. /\ \A k : k \in DOMAIN Rows(t, E, start) <=> \E e \in E : Row(t, e, start).key = k
      /\ \A k \in DOMAIN Rows(t, E, start) :
            \E e \in E : /\ Row(t, e, start).key = k
                         /\ Rows(t, E, start)[k] = Row(t, e, start).columns
  BY RowsKeys
<1> QED
  BY <1>1, <1>2 DEF E

\* The warehouse, in a slice, of an entry among those of all warehouses.
LEMMA QuotientBelow ==
    ASSUME NEW e \in Nat, NEW b \in Nat \ {0}, NEW scale \in Nat, e < scale * b
    PROVE  e \div b \in 0..(scale - 1)
<1> DEFINE q == e \div b
<1>1. q \in Nat /\ q * b <= e
  OBVIOUS
<1> HIDE DEF q
<1>2. ASSUME q >= scale PROVE FALSE
  <2>1. scale * b <= q * b
    BY <1>1, <1>2, ProductGrows
  <2>2. scale * b \in Nat /\ q * b \in Nat
    BY <1>1
  <2> QED
    BY <1>1, <2>1, <2>2
<1>3. q \in 0..(scale - 1)
  BY <1>1, <1>2
<1> QED
  BY <1>3 DEF q

\* A row of TPC-C's sliced tables is of one of the warehouses of its instance.
LEMMA InSlice ==
    ASSUME NEW t \in TpccSliced, NEW start \in Nat, NEW scale \in Nat,
           NEW e \in 0..(TotalRows(t, scale) - 1)
    PROVE  Row(t, e, start).key[1] \in start..(start + scale - 1)
<1> DEFINE D == DistrictsPerWarehouse
           C == CustomersPerDistrict
           L == OlCntFixed
           U == OrdersUndelivered
<1>0. D \in Nat \ {0} /\ C \in Nat \ {0} /\ L \in Nat \ {0} /\ U \in Nat \ {0}
      /\ Items \in Nat \ {0}
  BY Factors
<1>1. CASE t = "warehouse"
  BY <1>1 DEF TotalRows, Row, WarehouseRow, Entry
<1>2. ASSUME NEW f \in Nat \ {0}, e \in Nat, e < scale * (f * D)
      PROVE  FanOut(e, f, start)[1] \in start..(start + scale - 1)
  <2>1. f * D \in Nat \ {0}
    BY <1>0
  <2>2. e \div (f * D) \in 0..(scale - 1)
    BY <1>2, <2>1, QuotientBelow
  <2>3. FanOut(e, f, start)[1] = e \div (f * D) + start
    BY DEF FanOut
  <2> HIDE DEF D
  <2> QED
    BY <2>2, <2>3
<1>3. CASE t = "district"
  <2>1. e \in Nat /\ e < scale * (1 * D)
    BY <1>0, <1>3 DEF TotalRows
  <2>2. Row(t, e, start).key = FanOut(e, 1, start)
    BY <1>3 DEF Row, DistrictRow, Entry
  <2> QED
    BY <2>1, <2>2, <1>2
<1>4. CASE t \in {"customer", "orders"}
  <2>1. TotalRows(t, scale) = scale * (D * C)
    BY <1>4 DEF TotalRows, CustomersPerWh
  <2>2. D * C = C * D /\ D * C \in Nat
    BY <1>0
  <2>3. e \in Nat /\ e < scale * (C * D)
    BY <2>1, <2>2
  <2>4. \E x : Row(t, e, start).key = Append(FanOut(e, C, start), x)
    BY <1>4 DEF Row, CustomerRow, OrdersRow, Entry
  <2>5. \A x : Append(FanOut(e, C, start), x)[1] = FanOut(e, C, start)[1]
    BY DEF FanOut
  <2> HIDE DEF C, D
  <2> QED
    BY <2>3, <2>4, <2>5, <1>0, <1>2
<1>5. CASE t = "stock"
  <2>1. e \in Nat /\ e < scale * Items
    BY <1>0, <1>5 DEF TotalRows
  <2>2. e \div Items \in 0..(scale - 1)
    BY <2>1, <1>0, QuotientBelow
  <2>3. Row(t, e, start).key[1] = e \div Items + start
    BY <1>5 DEF Row, StockRow, Entry
  <2> QED
    BY <2>2, <2>3
<1>6. CASE t = "order_line"
  <2>1. TotalRows(t, scale) = (scale * (D * C)) * L
    BY <1>6 DEF TotalRows, CustomersPerWh
  <2> HIDE DEF C, D, L
  <2>2. (scale * (D * C)) * L = scale * ((C * L) * D) /\ C * L \in Nat \ {0}
    BY <1>0
  <2>3. (scale * (D * C)) * L \in Nat
    BY <1>0
  <2>4. e \in Nat /\ e < scale * ((C * L) * D)
    BY <2>1, <2>2, <2>3
  <2>5. \E x : Row(t, e, start).key = FanOut(e, C * L, start) \o x /\ x \in Seq(Int)
    <3> DEFINE a == 1 + ((e \div L) % C)
               b == 1 + (e % L)
    <3>1. a \in Int /\ b \in Int
      BY <2>4, <1>0
    <3>2. Row(t, e, start).key = FanOut(e, C * L, start) \o <<a, b>>
      BY <1>6 DEF Row, OrderLineRow, Entry, C, L
    <3> HIDE DEF a, b
    <3>3. <<a, b>> \in Seq(Int)
      BY <3>1
    <3> QED
      BY <3>2, <3>3
  <2>6. FanOut(e, C * L, start) \in Seq(Int) /\ Len(FanOut(e, C * L, start)) = 2
    <3>1. (C * L) * D \in Nat \ {0}
      BY <2>2, <1>0
    <3>2. e \div ((C * L) * D) + start \in Int
      BY <3>1, <2>4
    <3>3. 1 + ((e \div (C * L)) % D) \in Int
      BY <2>2, <2>4, <1>0
    <3> QED
      BY <3>2, <3>3 DEF FanOut, D
  <2>7. \A x \in Seq(Int) : (FanOut(e, C * L, start) \o x)[1] = FanOut(e, C * L, start)[1]
    BY <2>6
  <2> QED
    BY <2>2, <2>4, <2>5, <2>7, <1>2
<1>7. CASE t = "new_order"
  <2>1. TotalRows(t, scale) = (scale * D) * U
    BY <1>7 DEF TotalRows
  <2> HIDE DEF D, U
  <2>2. (scale * D) * U = scale * (U * D) /\ (scale * D) * U \in Nat
    BY <1>0
  <2>3. e \in Nat /\ e < scale * (U * D)
    BY <2>1, <2>2
  <2>4. \E x : Row(t, e, start).key = Append(FanOut(e, U, start), x)
    BY <1>7 DEF Row, NewOrderRow, Entry, U
  <2>5. \A x : Append(FanOut(e, U, start), x)[1] = FanOut(e, U, start)[1]
    BY DEF FanOut
  <2> QED
    BY <2>3, <2>4, <2>5, <1>0, <1>2
<1> QED
  BY <1>1, <1>3, <1>4, <1>5, <1>6, <1>7 DEF TpccSliced

\* The whole of a table lies in the slice it is loaded for.
LEMMA SliceOfWhole ==
    ASSUME NEW t \in TpccSliced, NEW start \in Nat, NEW scale \in Nat
    PROVE  Slice(Whole(t, start, scale), start, scale) = Whole(t, start, scale)
<1> DEFINE W == Whole(t, start, scale)
<1>1. \A k \in DOMAIN W : k[1] \in start..(start + scale - 1)
  <2> SUFFICES ASSUME NEW k \in DOMAIN W
               PROVE  k[1] \in start..(start + scale - 1)
    OBVIOUS
  <2>1. PICK e \in 0..(TotalRows(t, scale) - 1) : Row(t, e, start).key = k
    BY WholeKeys
  <2> QED
    BY <2>1, InSlice
<1>2. W = [k \in DOMAIN W |-> W[k]]
  BY DEF Whole, Rows
<1> HIDE DEF W
<1>3. {k \in DOMAIN W : k[1] \in start..(start + scale - 1)} = DOMAIN W
  BY <1>1
<1>4. Slice(W, start, scale) = W
  BY <1>2, <1>3 DEF Slice
<1> QED
  BY <1>4 DEF W

-----------------------------------------------------------------------------
(* The parents of a loaded table's rows.                                   *)

\* The schema of each workload.
LEMMA SchemaTables ==
    /\ workload = "tpcc" =>
           /\ CreateOrder = <<"warehouse", "district", "customer", "history",
                              "new_order", "orders", "order_line", "item", "stock">>
           /\ Tables = {"warehouse", "district", "customer", "history",
                        "new_order", "orders", "order_line", "item", "stock"}
    /\ workload = "tpcb" =>
           /\ CreateOrder = <<"pgbench_branches", "pgbench_tellers",
                              "pgbench_accounts", "pgbench_history">>
           /\ Tables = {"pgbench_branches", "pgbench_tellers",
                        "pgbench_accounts", "pgbench_history"}
    /\ workload = "tpch" => CreateOrder = <<"orders_h", "lineitem">>
                            /\ Tables = {"orders_h", "lineitem"}
    /\ workload = "tpcds" => CreateOrder = <<"store_sales", "store_returns">>
                             /\ Tables = {"store_sales", "store_returns"}
    /\ workload = "simple" => CreateOrder = <<"stroppy_demo">> /\ Tables = {"stroppy_demo"}
<1>1. CASE workload = "tpcc"
  <2>1. CreateOrder = <<"warehouse", "district", "customer", "history",
                        "new_order", "orders", "order_line", "item", "stock">>
    BY <1>1 DEF CreateOrder
  <2>2. Tables = {"warehouse", "district", "customer", "history",
                  "new_order", "orders", "order_line", "item", "stock"}
    BY <2>1 DEF Tables, ToSet
  <2> QED
    BY <1>1, <2>1, <2>2
<1>2. CASE workload = "tpcb"
  <2>1. CreateOrder = <<"pgbench_branches", "pgbench_tellers",
                        "pgbench_accounts", "pgbench_history">>
    BY <1>2 DEF CreateOrder
  <2>2. Tables = {"pgbench_branches", "pgbench_tellers",
                  "pgbench_accounts", "pgbench_history"}
    BY <2>1 DEF Tables, ToSet
  <2> QED
    BY <1>2, <2>1, <2>2
<1>3. CASE workload = "tpch"
  BY <1>3 DEF CreateOrder, Tables, ToSet
<1>4. CASE workload = "tpcds"
  BY <1>4 DEF CreateOrder, Tables, ToSet
<1>5. CASE workload = "simple"
  BY <1>5 DEF CreateOrder, Tables, ToSet
<1> QED
  BY <1>1, <1>2, <1>3, <1>4, <1>5

\* A foreign key is a child and its parent.
LEMMA ForeignKeyShape ==
    ASSUME SetupTypeOK, NEW fk \in ToSet(ForeignKeys)
    PROVE  /\ fk = <<fk[1], fk[2]>>
           /\ fk[1] \in Tables /\ fk[2] \in Tables /\ fk[1] # fk[2]
           /\ \/ /\ workload = "tpcc"
                 /\ \/ fk[1] \in TpccSliced /\ fk[2] = "warehouse"
                    \/ fk[1] = "stock" /\ fk[2] = "item"
              \/ /\ workload = "tpcb"
                 /\ \/ /\ fk[2] = "pgbench_branches"
                       /\ fk[1] \in {"pgbench_tellers", "pgbench_accounts"}
                    \/ /\ fk[1] = "pgbench_history"
                       /\ fk[2] \in {"pgbench_branches", "pgbench_tellers", "pgbench_accounts"}
<1>1. CASE workload = "tpcc" /\ driverType = "postgres"
  <2>1. ForeignKeys = <<<<"district", "warehouse">>, <<"customer", "warehouse">>,
               <<"new_order", "warehouse">>, <<"orders", "warehouse">>,
               <<"order_line", "warehouse">>, <<"stock", "item">>,
               <<"stock", "warehouse">>>>
    BY <1>1 DEF ForeignKeys
  <2>2. PICK n \in 1..7 : fk = ForeignKeys[n]
    BY <2>1 DEF ToSet
  <2>3. Tables = {"warehouse", "district", "customer", "history",
                  "new_order", "orders", "order_line", "item", "stock"}
    BY <1>1, SchemaTables
  <2> QED
    BY <1>1, <2>1, <2>2, <2>3 DEF TpccSliced
<1>2. CASE workload = "tpcb" /\ Sql
  <2>1. ForeignKeys = <<<<"pgbench_tellers", "pgbench_branches">>,
               <<"pgbench_accounts", "pgbench_branches">>,
               <<"pgbench_history", "pgbench_branches">>,
               <<"pgbench_history", "pgbench_tellers">>,
               <<"pgbench_history", "pgbench_accounts">>>>
    BY <1>2 DEF ForeignKeys
  <2>2. PICK n \in 1..5 : fk = ForeignKeys[n]
    BY <2>1 DEF ToSet
  <2>3. Tables = {"pgbench_branches", "pgbench_tellers", "pgbench_accounts", "pgbench_history"}
    BY <1>2, SchemaTables
  <2> QED
    BY <1>2, <2>1, <2>2, <2>3
<1>3. CASE ~(workload = "tpcc" /\ driverType = "postgres") /\ ~(workload = "tpcb" /\ Sql)
  <2>1. ForeignKeys = <<>>
    BY <1>3 DEF ForeignKeys
  <2> QED
    BY <2>1 DEF ToSet
<1> QED
  BY <1>1, <1>2, <1>3

Distinct(s) == \A m, n \in DOMAIN s : s[m] = s[n] => m = n

\* Sequences without repetitions and elements in common join to one.
LEMMA JoinDistinct ==
    ASSUME NEW S, NEW a \in Seq(S), NEW b \in Seq(S)
    PROVE  /\ a \o b \in Seq(S)
           /\ ToSet(a \o b) = ToSet(a) \cup ToSet(b)
           /\ Distinct(a) /\ Distinct(b) /\ ToSet(a) \cap ToSet(b) = {} => Distinct(a \o b)
<1> DEFINE c == a \o b
           p == Len(a)
           q == Len(b)
<1>1. /\ p \in Nat /\ q \in Nat /\ DOMAIN a = 1..p /\ DOMAIN b = 1..q /\ DOMAIN c = 1..(p + q)
      /\ \A n \in 1..(p + q) : c[n] = IF n <= p THEN a[n] ELSE b[n - p]
      /\ c \in Seq(S)
  OBVIOUS
<1> HIDE DEF c, p, q
<1>2. \A n \in DOMAIN c : \/ n \in DOMAIN a /\ c[n] = a[n]
                          \/ n - p \in DOMAIN b /\ c[n] = b[n - p]
  BY <1>1
<1>3. /\ \A n \in DOMAIN a : n \in DOMAIN c /\ c[n] = a[n]
      /\ \A n \in DOMAIN b : n + p \in DOMAIN c /\ c[n + p] = b[n]
  BY <1>1
<1>4. ToSet(c) = ToSet(a) \cup ToSet(b)
  BY <1>2, <1>3 DEF ToSet
<1>5. ASSUME Distinct(a), Distinct(b), ToSet(a) \cap ToSet(b) = {},
             NEW m \in DOMAIN c, NEW n \in DOMAIN c, c[m] = c[n]
      PROVE  m = n
  <2>1. \A x \in DOMAIN a, y \in DOMAIN b : a[x] # b[y]
    BY <1>5 DEF ToSet
  <2>2. m \in Int /\ n \in Int /\ p \in Int
    BY <1>1
  <2>3. CASE m \in DOMAIN a /\ c[m] = a[m]
    BY <2>1, <2>3, <1>2, <1>5 DEF Distinct
  <2>4. CASE m - p \in DOMAIN b /\ c[m] = b[m - p]
    <3>1. n - p \in DOMAIN b /\ c[n] = b[n - p]
      BY <2>1, <2>4, <1>2, <1>5
    <3>2. m - p = n - p
      BY <3>1, <2>4, <1>5 DEF Distinct
    <3> QED
      BY <3>2, <2>2
  <2> QED
    BY <2>3, <2>4, <1>2
<1>6. Distinct(a) /\ Distinct(b) /\ ToSet(a) \cap ToSet(b) = {} => Distinct(c)
  BY <1>5 DEF Distinct
<1> QED
  BY <1>1, <1>4, <1>6 DEF c

\* A sequence without repetitions loses its last element with its last place.
LEMMA FrontDistinct ==
    ASSUME NEW S, NEW s \in Seq(S), s # <<>>, Distinct(s)
    PROVE  /\ Front(s) \in Seq(S) /\ Distinct(Front(s))
           /\ ToSet(Front(s)) = ToSet(s) \ {s[Len(s)]}
<1> DEFINE f == Front(s)
           p == Len(s)
<1>1. p \in Nat /\ p >= 1 /\ DOMAIN s = 1..p
  OBVIOUS
<1>2. /\ f \in Seq(S) /\ Len(f) = p - 1
      /\ \A n \in 1..(p - 1) : f[n] = s[n]
  BY <1>1 DEF Front
<1>3. DOMAIN f = 1..(p - 1)
  BY <1>2
<1> HIDE DEF f, p
<1>4. Distinct(f)
  BY <1>1, <1>2, <1>3 DEF Distinct
<1>5. \A n \in DOMAIN f : n \in DOMAIN s /\ n # p /\ f[n] = s[n]
  BY <1>1, <1>2, <1>3
<1>6. \A n \in DOMAIN s : n = p \/ n \in DOMAIN f
  BY <1>1, <1>3
<1>7. p \in DOMAIN s
  BY <1>1
<1>8. ToSet(f) = ToSet(s) \ {s[p]}
  <2>1. \A n \in DOMAIN f : s[n] # s[p]
    BY <1>5, <1>7 DEF Distinct
  <2> QED
    BY <2>1, <1>5, <1>6 DEF ToSet
<1> QED
  BY <1>2, <1>4, <1>8 DEF f, p

\* Each table is created once.
LEMMA CreateOrderFacts ==
    ASSUME SetupTypeOK
    PROVE  CreateOrder \in Seq(Tables) /\ Distinct(CreateOrder) /\ CreateOrder # <<>>
<1>0. workload \in {"tpcc", "tpcb", "tpch", "tpcds", "simple"}
  BY DEF SetupTypeOK, Workloads
<1>1. CASE workload = "tpcc"
  <2> DEFINE S == {"warehouse", "district", "customer", "history",
                   "new_order", "orders", "order_line", "item", "stock"}
  <2>1. CreateOrder = <<"warehouse", "district", "customer", "history",
                        "new_order", "orders", "order_line", "item", "stock">>
    BY <1>1, SchemaTables
  <2>2. Tables = S
    BY <1>1, SchemaTables
  <2>3. CreateOrder \in Seq(S)
    BY <2>1
  <2>4. Distinct(CreateOrder)
    BY <2>1 DEF Distinct
  <2>5. CreateOrder # <<>>
    BY <2>1
  <2> QED
    BY <2>2, <2>3, <2>4, <2>5
<1>2. CASE workload = "tpcb"
  <2> DEFINE S == {"pgbench_branches", "pgbench_tellers",
                   "pgbench_accounts", "pgbench_history"}
  <2>1. CreateOrder = <<"pgbench_branches", "pgbench_tellers",
                        "pgbench_accounts", "pgbench_history">>
    BY <1>2, SchemaTables
  <2>2. Tables = S
    BY <1>2, SchemaTables
  <2>3. CreateOrder \in Seq(S)
    BY <2>1
  <2>4. Distinct(CreateOrder)
    BY <2>1 DEF Distinct
  <2>5. CreateOrder # <<>>
    BY <2>1
  <2> QED
    BY <2>2, <2>3, <2>4, <2>5
<1>3. CASE workload = "tpch"
  <2> DEFINE S == {"orders_h", "lineitem"}
  <2>1. CreateOrder = <<"orders_h", "lineitem">>
    BY <1>3, SchemaTables
  <2>2. Tables = S
    BY <1>3, SchemaTables
  <2>3. CreateOrder \in Seq(S)
    BY <2>1
  <2>4. Distinct(CreateOrder)
    BY <2>1 DEF Distinct
  <2>5. CreateOrder # <<>>
    BY <2>1
  <2> QED
    BY <2>2, <2>3, <2>4, <2>5
<1>4. CASE workload = "tpcds"
  <2> DEFINE S == {"store_sales", "store_returns"}
  <2>1. CreateOrder = <<"store_sales", "store_returns">>
    BY <1>4, SchemaTables
  <2>2. Tables = S
    BY <1>4, SchemaTables
  <2>3. CreateOrder \in Seq(S)
    BY <2>1
  <2>4. Distinct(CreateOrder)
    BY <2>1 DEF Distinct
  <2>5. CreateOrder # <<>>
    BY <2>1
  <2> QED
    BY <2>2, <2>3, <2>4, <2>5
<1>5. CASE workload = "simple"
  <2> DEFINE S == {"stroppy_demo"}
  <2>1. CreateOrder = <<"stroppy_demo">>
    BY <1>5, SchemaTables
  <2>2. Tables = S
    BY <1>5, SchemaTables
  <2>3. CreateOrder \in Seq(S)
    BY <2>1
  <2>4. Distinct(CreateOrder)
    BY <2>1 DEF Distinct
  <2>5. CreateOrder # <<>>
    BY <2>1
  <2> QED
    BY <2>2, <2>3, <2>4, <2>5
<1> QED
  BY <1>0, <1>1, <1>2, <1>3, <1>4, <1>5

\* What an instance loads: tables of the schema, each once.
LEMMA LoadOrderFacts ==
    ASSUME SetupTypeOK, NEW i \in Instances
    PROVE  /\ LoadOrder(i) \in Seq(Tables)
           /\ Distinct(LoadOrder(i))
           /\ workload = "tpcc" /\ WarehouseStart[i] = 1 =>
                  ToSet(LoadOrder(i)) = Tables \ {"history"}
           /\ workload = "tpcb" =>
                  ToSet(LoadOrder(i)) = Tables \ {"pgbench_history"}
<1>1. CASE workload = "tpcc"
  <2> DEFINE a == <<"warehouse", "district", "customer">>
             b == IF WarehouseStart[i] = 1 THEN <<"item">> ELSE <<>>
             c == <<"stock", "orders", "order_line", "new_order">>
  <2>1. LoadOrder(i) = a \o b \o c
    BY <1>1 DEF LoadOrder
  <2>2. Tables = {"warehouse", "district", "customer", "history",
                  "new_order", "orders", "order_line", "item", "stock"}
    BY <1>1, SchemaTables
  <2>3. a \in Seq(Tables) /\ Distinct(a) /\ ToSet(a) = {"warehouse", "district", "customer"}
    BY <2>2 DEF ToSet, Distinct
  <2>4. c \in Seq(Tables) /\ Distinct(c)
        /\ ToSet(c) = {"stock", "orders", "order_line", "new_order"}
    BY <2>2 DEF ToSet, Distinct
  <2>5. b \in Seq(Tables) /\ Distinct(b)
        /\ ToSet(b) = IF WarehouseStart[i] = 1 THEN {"item"} ELSE {}
    <3>1. CASE WarehouseStart[i] = 1
      <4>1. b = <<"item">>
        BY <3>1
      <4> HIDE DEF b
      <4> QED
        BY <3>1, <4>1, <2>2 DEF ToSet, Distinct
    <3>2. CASE WarehouseStart[i] # 1
      <4>1. b = <<>>
        BY <3>2
      <4> HIDE DEF b
      <4> QED
        BY <3>2, <4>1 DEF ToSet, Distinct
    <3> QED
      BY <3>1, <3>2
  <2> HIDE DEF a, b, c
  <2>6. /\ a \o b \in Seq(Tables) /\ ToSet(a \o b) = ToSet(a) \cup ToSet(b)
        /\ Distinct(a \o b)
    <3>1. ToSet(a) \cap ToSet(b) = {}
      BY <2>3, <2>5
    <3> QED
      BY <3>1, <2>3, <2>5, JoinDistinct
  <2>7. /\ (a \o b) \o c \in Seq(Tables)
        /\ ToSet((a \o b) \o c) = ToSet(a \o b) \cup ToSet(c)
        /\ Distinct((a \o b) \o c)
    <3> DEFINE ab == a \o b
    <3>1. ToSet(ab) \cap ToSet(c) = {}
      BY <2>3, <2>4, <2>5, <2>6
    <3>2. ab \in Seq(Tables) /\ Distinct(ab)
      BY <2>6
    <3> HIDE DEF ab
    <3>3. /\ ab \o c \in Seq(Tables) /\ ToSet(ab \o c) = ToSet(ab) \cup ToSet(c)
          /\ Distinct(ab \o c)
      BY <3>1, <3>2, <2>4, JoinDistinct
    <3> QED
      BY <3>3 DEF ab
  <2> QED
    BY <1>1, <2>1, <2>2, <2>3, <2>4, <2>5, <2>6, <2>7
<1>2. CASE workload = "tpcb"
  <2>1. LoadOrder(i) = Front(CreateOrder)
    BY <1>2 DEF LoadOrder
  <2>2. CreateOrder[Len(CreateOrder)] = "pgbench_history"
    <3>1. CreateOrder = <<"pgbench_branches", "pgbench_tellers",
                          "pgbench_accounts", "pgbench_history">>
      BY <1>2, SchemaTables
    <3> QED
      BY <3>1
  <2>3. ToSet(CreateOrder) = Tables
    BY DEF Tables
  <2> QED
    BY <1>2, <2>1, <2>2, <2>3, CreateOrderFacts, FrontDistinct
<1>3. CASE workload \notin {"tpcc", "tpcb"}
  <2>1. LoadOrder(i) = CreateOrder
    BY <1>3 DEF LoadOrder
  <2> QED
    BY <1>3, <2>1, CreateOrderFacts
<1> QED
  BY <1>1, <1>2, <1>3

\* Rows of a loaded child have their parents in a loaded parent.
LEMMA ParentsThere ==
    ASSUME SetupTypeOK, NEW i \in Instances, NEW fk \in ToSet(ForeignKeys),
           fk[1] # "pgbench_history",
           db.rows[fk[2]] = Fresh(i, fk[2])
    PROVE  HasParents(fk, Fresh(i, fk[1]))
<1> DEFINE start == Start(i)
           scale == ScaleFactor[i]
           child == Fresh(i, fk[1])
<1>1. start \in Nat /\ scale \in Nat
  BY WorkloadSetupAssumption DEF Start
<1>2. SUFFICES ASSUME NEW k \in DOMAIN child
               PROVE  ParentKey(fk, child, k) \in DOMAIN Fresh(i, fk[2])
  BY DEF HasParents
<1>3. PICK e \in 0..(TotalRows(fk[1], scale) - 1) :
          Row(fk[1], e, start).key = k /\ child[k] = Row(fk[1], e, start).columns
  BY WholeKeys DEF Fresh
<1>4. \A t, n : n \in 0..(TotalRows(t, scale) - 1) =>
          Row(t, n, start).key \in DOMAIN Fresh(i, t)
  BY WholeKeys DEF Fresh
<1> HIDE DEF child, start, scale
<1>5. CASE workload = "tpcc" /\ fk[1] \in TpccSliced /\ fk[2] = "warehouse"
  <2>1. k[1] \in start..(start + scale - 1)
    BY <1>1, <1>3, <1>5, InSlice
  <2>2. k[1] - start \in 0..(TotalRows("warehouse", scale) - 1)
    BY <1>1, <2>1 DEF TotalRows
  <2>3. Row("warehouse", k[1] - start, start).key = <<k[1]>>
    BY <1>1, <2>1 DEF Row, WarehouseRow, Entry
  <2>4. ParentKey(fk, child, k) = <<k[1]>>
    BY <1>5 DEF ParentKey
  <2> QED
    BY <1>4, <1>5, <2>2, <2>3, <2>4
<1>6. CASE workload = "tpcc" /\ fk[1] = "stock" /\ fk[2] = "item"
  <2>1. e \in Nat /\ Items \in Nat \ {0}
    BY <1>1, <1>3, <1>6, Factors DEF TotalRows
  <2>2. k[2] = 1 + (e % Items)
    BY <1>3, <1>6 DEF Row, StockRow, Entry
  <2>3. e % Items \in 0..(TotalRows("item", scale) - 1)
    BY <2>1 DEF TotalRows
  <2>4. Row("item", e % Items, start).key = <<(e % Items) + 1>>
    BY DEF Row, ItemRow, Entry
  <2>5. ParentKey(fk, child, k) = <<k[2]>>
    BY <1>6 DEF ParentKey
  <2>6. (e % Items) + 1 = k[2]
    BY <2>1, <2>2
  <2> QED
    BY <1>4, <1>6, <2>3, <2>4, <2>5, <2>6
<1>7. CASE /\ workload = "tpcb" /\ fk[2] = "pgbench_branches"
           /\ fk[1] \in {"pgbench_tellers", "pgbench_accounts"}
  <2>1. PICK per \in Nat \ {0} : /\ TotalRows(fk[1], scale) = scale * per
                                /\ child[k] = e \div per + 1
    <3>1. CASE fk[1] = "pgbench_tellers"
      BY <1>3, <3>1, Factors DEF TotalRows, Row, TellersRow, Entry
    <3>2. CASE fk[1] = "pgbench_accounts"
      BY <1>3, <3>2, Factors DEF TotalRows, Row, AccountsRow, Entry
    <3> QED
      BY <3>1, <3>2, <1>7
  <2>2. e \in Nat /\ e < scale * per
    BY <1>1, <1>3, <2>1
  <2>3. e \div per \in 0..(scale - 1)
    BY <1>1, <2>1, <2>2, QuotientBelow
  <2>4. e \div per \in 0..(TotalRows("pgbench_branches", scale) - 1)
    BY <2>3 DEF TotalRows
  <2>5. Row("pgbench_branches", e \div per, start).key = <<e \div per + 1>>
    BY DEF Row, BranchesRow, Entry
  <2>6. ParentKey(fk, child, k) = <<child[k]>>
    BY <1>7 DEF ParentKey
  <2> QED
    BY <1>4, <1>7, <2>1, <2>4, <2>5, <2>6
<1> QED
  BY <1>5, <1>6, <1>7, ForeignKeyShape

-----------------------------------------------------------------------------
(* The database refuses nothing of a command that lays out the schema.     *)

\* A table no statement drops any more is as its load left it.
LEMMA LaidOut ==
    ASSUME NEW i, AtWork(i), Rank(Head(todo[i]).op) > 1
    PROVE  \A t \in Tables : t \in db.exist /\ TableFits(i, todo[i], t)
<1>1. /\ \A t : ~WillDrop(todo[i], t)
      /\ \A n \in DOMAIN todo[i] : \A t : ~Creates(todo[i][n], t)
  BY HeadRank DEF AtWork, Fits
<1> QED
  BY <1>1 DEF AtWork, Fits, SchemaFits, TablesFit

\* Until the script comes to the foreign keys there are none.
LEMMA NoKeysYet ==
    ASSUME NEW i, AtWork(i), Rank(Head(todo[i]).op) > 1, Rank(Head(todo[i]).op) < 7
    PROVE  db.fks = {}
<1>1. \A t : ~WillDrop(todo[i], t)
  BY HeadRank DEF AtWork, Fits
<1>2. 1 \in DOMAIN todo[i] /\ Head(todo[i]) = todo[i][1] /\ Rank(Head(todo[i]).op) \in 1..9
  BY HeadShape
<1>3. ~(Rank(todo[i][1].op) >= 7)
  BY <1>2
<1> QED
  BY <1>1, <1>2, <1>3 DEF AtWork, Fits, KeysFit

\* The database does not refuse a statement whose script fits it.
LEMMA NotRefused ==
    ASSUME NEW i, AtWork(i), Head(todo[i]).op \notin {"insert", "validate"}
    PROVE  ~Refused(Head(todo[i]))
<1> DEFINE T == todo[i]
           h == Head(T)
           tables == ToSet(h.tables)
<1>1. /\ h = T[1] /\ 1 \in DOMAIN T /\ h \in SetupStatements(i) /\ h = Do(h.op, h.tables)
      /\ h.op \in Operations /\ Rank(h.op) \in 1..9 /\ i \in Instances /\ SetupTypeOK
  BY HeadShape DEF AtWork
<1>2. h.op \in OnOneTable /\ h.op # "drop" =>
          \E t \in Tables : h.tables = <<t>> /\ tables = {t}
  BY <1>1, StatementShape DEF ToSet
<1>3. Left(T, h.op, h.tables)
  BY <1>1 DEF Left
<1>4. Rank(h.op) > 1 => \A t \in Tables : t \in db.exist /\ TableFits(i, T, t)
  BY LaidOut
<1>5. Rank(h.op) > 1 /\ Rank(h.op) < 7 => db.fks = {}
  BY NoKeysYet
<1>6. db.procs \in BOOLEAN /\ db.fks \subseteq ToSet(ForeignKeys)
  BY <1>1 DEF SetupTypeOK, DatabaseOK
<1>a. CASE h.op = "drop"
  <2>1. ASSUME driverType = "mysql", NEW fk \in db.fks, fk[2] \in tables, fk[1] \notin tables
        PROVE  FALSE
    <3>1. Drops(T[1], fk[2]) /\ ~Drops(T[1], fk[1]) /\ Rank(T[1].op) = 1
      BY <1>1, <1>a, <2>1, RankValues DEF Drops
    <3>2. \/ \A n \in DOMAIN T : Drops(T[n], fk[2]) => \E m \in 1..n : Drops(T[m], fk[1])
          \/ \A n \in DOMAIN T : Rank(T[n].op) >= 7
      BY <2>1 DEF AtWork, Fits, KeysFit
    <3> HIDE DEF T, h, tables
    <3>3. ~(\E m \in 1..1 : Drops(T[m], fk[1]))
      BY <3>1
    <3> QED
      BY <3>1, <3>2, <3>3, <1>1
  <2>2. Refused(h) <=> /\ driverType = "mysql"
                       /\ \E fk \in db.fks : fk[2] \in tables /\ fk[1] \notin tables
    BY <1>a DEF Refused
  <2> QED
    BY <2>1, <2>2
<1>b. CASE h.op = "create"
  <2>1. PICK t \in Tables : h.tables = <<t>> /\ tables = {t}
    BY <1>b, <1>2 DEF OnOneTable
  <2>2. Creates(T[1], t)
    BY <1>1, <1>b, <2>1 DEF Creates
  <2>3. t \notin db.exist \/ \E m \in 1..(1 - 1) : Drops(T[m], t)
    BY <2>2, <1>1 DEF AtWork, Fits, SchemaFits
  <2>4. Refused(h) <=> tables \cap db.exist # {}
    BY <1>b DEF Refused
  <2> QED
    BY <2>1, <2>3, <2>4
<1>c. CASE h.op = "drop_procedures"
  BY <1>c DEF Refused
<1>d. CASE h.op = "create_procedures"
  <2>1. h.tables = <<>> /\ Rank(h.op) = 2
    BY <1>1, <1>d, StatementShape, RankValues
  <2>2. ~Left(T, "drop_procedures", <<>>)
    <3>1. \A op \in Operations : \A ts : Left(T, op, ts) => Rank(op) >= Rank(h.op)
      BY HeadRank DEF AtWork, Fits
    <3>2. "drop_procedures" \in Operations /\ Rank("drop_procedures") = 1
      BY RankValues DEF Operations, Schemas
    <3> HIDE DEF h, T
    <3>3. ~(Rank("drop_procedures") >= Rank(h.op))
      BY <3>2, <2>1
    <3> QED
      BY <3>1, <3>2, <3>3
  <2>3. ~(driverType = "mysql" /\ db.procs)
    BY <1>3, <1>d, <2>1, <2>2 DEF AtWork, Fits, ProceduresFit
  <2>4. Refused(h) = (driverType = "mysql" /\ db.procs)
    BY <1>d DEF Refused
  <2> QED
    BY <2>3, <2>4
<1>e. CASE h.op = "set_unlogged"
  <2>1. tables \subseteq db.exist /\ db.fks = {}
    BY <1>e, <1>2, <1>4, <1>5, RankValues DEF OnOneTable
  <2>2. Refused(h) <=>
            \/ ~tables \subseteq db.exist
            \/ \E fk \in db.fks : fk[2] \in tables /\ fk[1] \notin db.unlogged \cup tables
    BY <1>e DEF Refused
  <2> QED
    BY <2>1, <2>2
<1>f. CASE h.op = "set_logged"
  <2>1. tables \subseteq db.exist /\ db.fks = {}
    BY <1>f, <1>2, <1>4, <1>5, RankValues DEF OnOneTable
  <2>2. Refused(h) <=>
            \/ ~tables \subseteq db.exist
            \/ \E fk \in db.fks : fk[1] \in tables /\ fk[2] \in db.unlogged \ tables
    BY <1>f DEF Refused
  <2> QED
    BY <2>1, <2>2
<1>g. CASE h.op = "create_index"
  <2>1. PICK t \in Tables : h.tables = <<t>> /\ tables = {t}
    BY <1>g, <1>2 DEF OnOneTable
  <2>2. t \in db.exist /\ t \notin db.indexed
    <3>1. t \in db.exist /\ TableFits(i, T, t)
      BY <1>4, <1>g, <2>1, RankValues
    <3>2. Left(T, "create_index", <<t>>)
      BY <1>3, <1>g, <2>1
    <3> QED
      BY <3>1, <3>2 DEF TableFits
  <2>3. Refused(h) <=> ~tables \subseteq db.exist \ db.indexed
    BY <1>g DEF Refused
  <2> QED
    BY <2>1, <2>2, <2>3
<1>h. CASE h.op = "add_foreign_key"
  <2> DEFINE fk == h.tables
  <2>0. Rank(h.op) = 7 /\ fk \in ToSet(ForeignKeys)
    BY <1>1, <1>h, StatementShape, RankValues
  <2> HIDE DEF fk
  <2>1. fk = <<fk[1], fk[2]>> /\ fk[1] \in Tables /\ fk[2] \in Tables
    BY <2>0, <1>1, ForeignKeyShape
  <2>2. tables = {fk[1], fk[2]}
    BY <2>1 DEF fk, ToSet
  <2>3. fk \notin db.fks
    <3>1. \A t : ~WillDrop(T, t)
      BY <2>0, HeadRank DEF AtWork, Fits
    <3>2. Left(T, "add_foreign_key", fk)
      BY <1>3, <1>h DEF fk
    <3> QED
      BY <3>1, <3>2 DEF AtWork, Fits, KeysFit
  <2>4. \A t \in Tables : t \in db.exist /\ TableFits(i, T, t)
    BY <2>0, <1>4
  <2>5. \A t : ~Left(T, "insert", <<t>>)
    <3>1. \A op \in Operations : \A ts : Left(T, op, ts) => Rank(op) >= Rank(h.op)
      BY HeadRank DEF AtWork, Fits
    <3>2. "insert" \in Operations /\ ~(Rank("insert") >= Rank(h.op))
      BY <2>0, RankValues DEF Operations
    <3> QED
      BY <3>1, <3>2
  <2>6. /\ Loads(i, fk[1]) => db.rows[fk[1]] = Fresh(i, fk[1])
        /\ ~Loads(i, fk[1]) => db.rows[fk[1]] = EmptyTable
        /\ Loads(i, fk[2]) => db.rows[fk[2]] = Fresh(i, fk[2])
    BY <2>1, <2>4, <2>5 DEF TableFits
  <2>7. HasParents(fk, db.rows[fk[1]])
    <3>1. CASE ~Loads(i, fk[1])
      <4>1. DOMAIN db.rows[fk[1]] = {}
        BY <2>6, <3>1 DEF EmptyTable
      <4> QED
        BY <4>1 DEF HasParents
    <3>2. CASE Loads(i, fk[1])
      <4>1. WarehouseStart[i] = 1
        BY DEF AtWork, Fits
      <4>2. fk[1] # "pgbench_history" /\ Loads(i, fk[2])
        BY <1>1, <2>0, <3>2, <4>1, ForeignKeyShape, LoadOrderFacts DEF Loads, TpccSliced
      <4>3. db.rows[fk[2]] = Fresh(i, fk[2]) /\ db.rows[fk[1]] = Fresh(i, fk[1])
        BY <2>6, <3>2, <4>2
      <4>4. HasParents(fk, Fresh(i, fk[1]))
        BY <1>1, <2>0, <4>2, <4>3, ParentsThere
      <4> QED
        BY <4>3, <4>4
    <3> QED
      BY <3>1, <3>2
  <2>8. Refused(h) <=>
            \/ ~tables \subseteq db.exist
            \/ fk \in db.fks
            \/ ~HasParents(fk, db.rows[fk[1]])
    BY <1>h DEF Refused, fk
  <2> QED
    BY <2>1, <2>2, <2>3, <2>4, <2>7, <2>8
<1>i. CASE h.op = "analyze"
  BY <1>i DEF Refused
<1> QED
  BY <1>1, <1>a, <1>b, <1>c, <1>d, <1>e, <1>f, <1>g, <1>h, <1>i DEF Operations, Schemas

-----------------------------------------------------------------------------
(* What an insert does to the database.                                    *)

\* The rows of the chunks in C of instance i's table t.
ChunksOf(i, t, C) ==
    Rows(t, UNION {ChunkRows(TotalRows(t, ScaleFactor[i]), LoadWorkers, c) : c \in C}, Start(i))

\* Chunks stored, part by part of the database.
LEMMA StoredFields ==
    ASSUME DatabaseOK, NEW i, NEW t \in Tables, NEW C
    PROVE  /\ Parts(Stored(i, t, C))
           /\ Stored(i, t, C).exist = db.exist
           /\ Stored(i, t, C).unlogged = db.unlogged
           /\ Stored(i, t, C).indexed = db.indexed
           /\ Stored(i, t, C).fks = db.fks
           /\ Stored(i, t, C).procs = db.procs
           /\ DOMAIN ChunksOf(i, t, C) \cap DOMAIN db.rows[t] = {} =>
                  Stored(i, t, C).twice = db.twice
           /\ Stored(i, t, C).rows =
                  [u \in Tables |-> IF u = t THEN Written(ChunksOf(i, t, C), db.rows[t])
                                    ELSE db.rows[u]]
<1> DEFINE rows == ChunksOf(i, t, C)
           W == Written(rows, db.rows[t])
           X == IF DOMAIN rows \cap DOMAIN db.rows[t] = {} \/ HasKeys
                THEN db.twice ELSE db.twice \cup {t}
           e == Stored(i, t, C)
<1>1. e = [db EXCEPT !.rows[t] = W, !.twice = X]
  BY DEF Stored, ChunksOf
<1>2. Parts(db) /\ db.rows = [u \in Tables |-> db.rows[u]]
  BY DEF DatabaseOK, Parts
<1>3. DOMAIN rows \cap DOMAIN db.rows[t] = {} => X = db.twice
  OBVIOUS
<1> HIDE DEF W, X, e, rows
<1>4. e = [exist |-> db.exist, rows |-> [db.rows EXCEPT ![t] = W], twice |-> X,
           unlogged |-> db.unlogged, indexed |-> db.indexed, fks |-> db.fks,
           procs |-> db.procs]
  BY <1>1, <1>2 DEF Parts
<1>5. [db.rows EXCEPT ![t] = W] = [u \in Tables |-> IF u = t THEN W ELSE db.rows[u]]
  BY <1>2
<1>6. /\ Parts(e) /\ e.exist = db.exist /\ e.unlogged = db.unlogged
      /\ e.indexed = db.indexed /\ e.fks = db.fks /\ e.procs = db.procs /\ e.twice = X
      /\ e.rows = [u \in Tables |-> IF u = t THEN W ELSE db.rows[u]]
  BY <1>4, <1>5 DEF Parts
<1> QED
  BY <1>3, <1>6 DEF W, e, rows

\* A table has a natural number of rows.
LEMMA TotalRowsType ==
    ASSUME NEW t, NEW scale \in Nat
    PROVE  TotalRows(t, scale) \in Nat
<1> DEFINE D == DistrictsPerWarehouse
           C == CustomersPerDistrict
           L == OlCntFixed
           U == OrdersUndelivered
<1>0. D \in Nat /\ C \in Nat /\ L \in Nat /\ U \in Nat /\ Items \in Nat
      /\ TellersPerBranch \in Nat /\ AccountsPerBranch \in Nat /\ ReferenceRows \in Nat
  BY Factors
<1>1. scale * D \in Nat /\ D * C \in Nat /\ scale * Items \in Nat
      /\ scale * TellersPerBranch \in Nat /\ scale * AccountsPerBranch \in Nat
  BY <1>0
<1>2. scale * (D * C) \in Nat
  <2> DEFINE P == D * C
  <2>1. P \in Nat
    BY <1>1
  <2> HIDE DEF P
  <2>2. scale * P \in Nat
    BY <2>1
  <2> QED
    BY <2>2 DEF P
<1>3. (scale * (D * C)) * L \in Nat /\ (scale * D) * U \in Nat
  <2> DEFINE P == scale * (D * C)
             Q == scale * D
  <2>1. P \in Nat /\ Q \in Nat
    BY <1>1, <1>2
  <2> HIDE DEF P, Q
  <2>2. P * L \in Nat /\ Q * U \in Nat
    BY <2>1, <1>0
  <2> QED
    BY <2>2 DEF P, Q
<1> QED
  BY <1>0, <1>1, <1>2, <1>3 DEF TotalRows, CustomersPerWh

\* The chunks of all the workers are the table.
LEMMA AllChunks ==
    ASSUME NEW i \in Instances, NEW t
    PROVE  ChunksOf(i, t, Chunks(TotalRows(t, ScaleFactor[i]), LoadWorkers)) = Fresh(i, t)
<1> DEFINE n == TotalRows(t, ScaleFactor[i])
           U == UNION {ChunkRows(n, LoadWorkers, c) : c \in Chunks(n, LoadWorkers)}
           E == 0..(n - 1)
<1>1. n \in Nat /\ LoadWorkers \in Int
  BY TotalRowsType, WorkloadSetupAssumption
<1> HIDE DEF n
<1>2. \A c \in Chunks(n, LoadWorkers) : ChunkRows(n, LoadWorkers, c) \subseteq E
  BY <1>1, ChunksInside
<1>3. \A r \in E : \E c \in Chunks(n, LoadWorkers) : r \in ChunkRows(n, LoadWorkers, c)
  BY <1>1, ChunksCover
<1>4. U = E
  BY <1>2, <1>3
<1>5. ChunksOf(i, t, Chunks(n, LoadWorkers)) = Rows(t, U, Start(i))
  BY DEF ChunksOf, n
<1>6. Fresh(i, t) = Rows(t, E, Start(i))
  BY DEF Fresh, Whole, n
<1> HIDE DEF U, E
<1> QED
  BY <1>4, <1>5, <1>6 DEF n

\* Rows written to an empty table are the table.
LEMMA WrittenEmpty ==
    ASSUME NEW rows, rows = [k \in DOMAIN rows |-> rows[k]]
    PROVE  Written(rows, EmptyTable) = rows
  BY DEF Written, EmptyTable

\* The insert at the head of the script meets an empty table, and fills it.
LEMMA InsertExecutes ==
    ASSUME NEW i, AtWork(i), NEW t, Head(todo[i]) = Do("insert", <<t>>)
    PROVE  /\ t \in Tables
           /\ \A rows : Accepted(t, rows)
           /\ Executes(i, Head(todo[i]), db,
                       Stored(i, t, Chunks(TotalRows(t, ScaleFactor[i]), LoadWorkers)))
<1> DEFINE h == Head(todo[i])
           all == Chunks(TotalRows(t, ScaleFactor[i]), LoadWorkers)
           e == Stored(i, t, all)
<1>1. /\ h \in SetupStatements(i) /\ h.op = "insert" /\ h.tables = <<t>>
      /\ h = todo[i][1] /\ 1 \in DOMAIN todo[i]
  BY HeadShape DEF Do
<1>2. t \in ToSet(LoadOrder(i)) /\ i \in Instances
  BY <1>1, StatementShape DEF AtWork
<1>3. t \in Tables
  <2>1. LoadOrder(i) \in Seq(Tables)
    BY <1>2, LoadOrderFacts DEF AtWork
  <2> QED
    BY <1>2, <2>1 DEF ToSet
<1>4. Rank(h.op) = 4
  BY <1>1, RankValues
<1>5. \A u \in Tables : u \in db.exist /\ TableFits(i, todo[i], u)
  BY <1>4, LaidOut
<1>6. db.fks = {}
  BY <1>4, NoKeysYet
<1>7. Left(todo[i], "insert", <<t>>)
  BY <1>1 DEF Left
<1>8. db.rows[t] = EmptyTable /\ t \notin db.twice /\ t \in db.exist
  BY <1>3, <1>5, <1>7 DEF TableFits
<1>9. DOMAIN db.rows[t] = {}
  BY <1>8 DEF EmptyTable
<1>10. \A rows : Accepted(t, rows)
  BY <1>6, <1>8, <1>9 DEF Accepted
<1>11. DatabaseOK
  BY DEF AtWork, SetupTypeOK
<1>12. ChunksOf(i, t, all) = Fresh(i, t)
  BY <1>2, AllChunks
<1>13. Written(ChunksOf(i, t, all), db.rows[t]) = Fresh(i, t)
  <2>1. Fresh(i, t) = [k \in DOMAIN Fresh(i, t) |-> Fresh(i, t)[k]]
    BY DEF Fresh, Whole, Rows
  <2>2. Written(Fresh(i, t), EmptyTable) = Fresh(i, t)
    BY <2>1, WrittenEmpty
  <2> QED
    BY <2>2, <1>8, <1>12
<1> HIDE DEF all
<1>14. /\ Parts(e)
       /\ e.exist = db.exist /\ e.unlogged = db.unlogged /\ e.indexed = db.indexed
       /\ e.fks = db.fks /\ e.procs = db.procs /\ e.twice = db.twice
       /\ e.rows = [u \in Tables |-> IF u = t THEN Fresh(i, t) ELSE db.rows[u]]
  BY <1>3, <1>9, <1>11, <1>13, StoredFields
<1>15. /\ \A u : ~Drops(h, u) /\ ~Creates(h, u) /\ h # Do("set_logged", <<u>>)
       /\ \A u : h = Do("insert", <<u>>) <=> u = t
       /\ h.op # "drop_procedures"
  BY <1>1 DEF Do, Drops, Creates
<1>16. db.exist \subseteq Tables /\ db.unlogged \subseteq Tables /\ db.procs \in BOOLEAN
  BY <1>11 DEF DatabaseOK
<1> HIDE DEF e, h
<1>17. ASSUME NEW u \in Tables
       PROVE  e.rows[u] = IF h = Do("insert", <<u>>) THEN Fresh(i, u) ELSE db.rows[u]
  <2>1. e.rows[u] = IF u = t THEN Fresh(i, t) ELSE db.rows[u]
    BY <1>14
  <2>2. CASE u = t
    BY <2>1, <2>2, <1>15
  <2>3. CASE u # t
    BY <2>1, <2>3, <1>15
  <2> QED
    BY <2>2, <2>3
<1>18. Executes(i, h, db, e)
  BY <1>14, <1>15, <1>16, <1>17 DEF Executes
<1> QED
  BY <1>3, <1>10, <1>18 DEF e, h, all

-----------------------------------------------------------------------------
(* A script is its schema, followed by parts of one rank each.             *)

\* Statements of one rank, each once.
Part(i, b, r) ==
    /\ b \in Seq(SetupStatements(i))
    /\ \A n \in DOMAIN b : Rank(b[n].op) = r
    /\ Distinct(b)

\* The script T begins with the schema S, and what follows it is of higher ranks, up to r.
Stretch(i, S, T, r) ==
    /\ T \in Seq(SetupStatements(i))
    /\ Ordered(T)
    /\ Len(S) <= Len(T)
    /\ \A n \in DOMAIN S : T[n] = S[n]
    /\ \A n \in DOMAIN T : n > Len(S) => Rank(T[n].op) > 1
    /\ \A n \in DOMAIN T : Rank(T[n].op) <= r

\* The elements of two sequences joined.
LEMMA Joined ==
    ASSUME NEW S, NEW a \in Seq(S), NEW b \in Seq(S)
    PROVE  /\ a \o b \in Seq(S)
           /\ Len(a) \in Nat /\ Len(b) \in Nat /\ Len(a \o b) = Len(a) + Len(b)
           /\ DOMAIN a = 1..Len(a) /\ DOMAIN b = 1..Len(b)
           /\ DOMAIN (a \o b) = 1..(Len(a) + Len(b))
           /\ \A n \in DOMAIN a : n \in DOMAIN (a \o b) /\ (a \o b)[n] = a[n]
           /\ \A n \in DOMAIN b : n + Len(a) \in DOMAIN (a \o b) /\ (a \o b)[n + Len(a)] = b[n]
           /\ \A n \in DOMAIN (a \o b) :
                 \/ n \in DOMAIN a /\ (a \o b)[n] = a[n]
                 \/ n > Len(a) /\ n - Len(a) \in DOMAIN b /\ (a \o b)[n] = b[n - Len(a)]
  OBVIOUS

\* Joining no statements changes nothing.
LEMMA JoinNothing ==
    ASSUME NEW S, NEW a \in Seq(S)
    PROVE  a \o <<>> = a
  OBVIOUS

\* What two scripts joined have left is what each has left.
LEMMA LeftJoin ==
    ASSUME NEW S, NEW a \in Seq(S), NEW b \in Seq(S), NEW op, NEW tables
    PROVE  Left(a \o b, op, tables) <=> Left(a, op, tables) \/ Left(b, op, tables)
<1> DEFINE c == a \o b
           p == Len(a)
<1>1. /\ \A n \in DOMAIN a : n \in DOMAIN c /\ c[n] = a[n]
      /\ \A n \in DOMAIN b : n + p \in DOMAIN c /\ c[n + p] = b[n]
      /\ \A n \in DOMAIN c : \/ n \in DOMAIN a /\ c[n] = a[n]
                             \/ n > p /\ n - p \in DOMAIN b /\ c[n] = b[n - p]
  BY Joined
<1> HIDE DEF c, p
<1>2. Left(c, op, tables) <=> Left(a, op, tables) \/ Left(b, op, tables)
  BY <1>1 DEF Left
<1> QED
  BY <1>2 DEF c

\* A step's statements follow those of lower ranks.
LEMMA Extend ==
    ASSUME NEW i, NEW S, S \in Seq(SetupStatements(i)), NEW a, NEW m \in Nat,
           Stretch(i, S, a, m), NEW b, NEW r \in Nat, Part(i, b, r), 1 <= m, m < r
    PROVE  Stretch(i, S, a \o b, r)
<1> DEFINE c == a \o b
           p == Len(a)
<1>0. /\ a \in Seq(SetupStatements(i)) /\ b \in Seq(SetupStatements(i)) /\ Ordered(a)
      /\ Len(S) <= p /\ (\A n \in DOMAIN S : a[n] = S[n])
      /\ (\A n \in DOMAIN a : n > Len(S) => Rank(a[n].op) > 1)
      /\ (\A n \in DOMAIN a : Rank(a[n].op) <= m)
      /\ (\A n \in DOMAIN b : Rank(b[n].op) = r) /\ Distinct(b)
  BY DEF Stretch, Part
<1>1. /\ c \in Seq(SetupStatements(i))
      /\ p \in Nat /\ Len(b) \in Nat /\ Len(c) = p + Len(b)
      /\ DOMAIN a = 1..p /\ DOMAIN c = 1..(p + Len(b)) /\ DOMAIN b = 1..Len(b)
      /\ \A n \in DOMAIN a : n \in DOMAIN c /\ c[n] = a[n]
      /\ \A n \in DOMAIN c : \/ n \in DOMAIN a /\ c[n] = a[n]
                             \/ n > p /\ n - p \in DOMAIN b /\ c[n] = b[n - p]
  BY <1>0, Joined
<1>2. Len(S) \in Nat /\ DOMAIN S = 1..Len(S)
  OBVIOUS
<1>3. \A s \in SetupStatements(i) : Rank(s.op) \in Nat
  BY StatementShape, RankType
<1>4. \A n \in DOMAIN a : Rank(a[n].op) \in Nat
  BY <1>0, <1>3
<1> HIDE DEF c, p
<1>5. ASSUME NEW x \in DOMAIN c, NEW y \in DOMAIN c, x < y
      PROVE  /\ Rank(c[x].op) <= Rank(c[y].op)
             /\ Rank(c[x].op) = 1 \/ c[x] # c[y]
  <2>0. x \in Nat /\ y \in Nat
    BY <1>1
  <2>1. CASE y \in DOMAIN a
    <3>1. x \in DOMAIN a /\ c[x] = a[x] /\ c[y] = a[y]
      BY <2>0, <2>1, <1>1, <1>5
    <3> QED
      BY <3>1, <2>1, <1>0, <1>5 DEF Ordered
  <2>2. CASE y > p /\ y - p \in DOMAIN b /\ c[y] = b[y - p]
    <3>1. Rank(c[y].op) = r
      BY <2>2, <1>0
    <3>2. CASE x \in DOMAIN a /\ c[x] = a[x]
      BY <3>1, <3>2, <1>0, <1>4
    <3>3. CASE x > p /\ x - p \in DOMAIN b /\ c[x] = b[x - p]
      <4>1. Rank(c[x].op) = r
        BY <3>3, <1>0
      <4>2. x - p # y - p
        BY <2>0, <1>1, <1>5
      <4>3. c[x] # c[y]
        BY <4>2, <3>3, <2>2, <1>0 DEF Distinct
      <4> QED
        BY <4>1, <4>3, <3>1
    <3> QED
      BY <3>2, <3>3, <1>1
  <2> QED
    BY <2>1, <2>2, <1>1
<1>6. Ordered(c)
  BY <1>5 DEF Ordered
<1>7. \A n \in DOMAIN S : c[n] = S[n]
  BY <1>0, <1>1, <1>2
<1>8. Len(S) <= Len(c)
  BY <1>0, <1>1, <1>2
<1>9. ASSUME NEW n \in DOMAIN c
      PROVE  (n > Len(S) => Rank(c[n].op) > 1) /\ Rank(c[n].op) <= r
  BY <1>0, <1>1, <1>4
<1> QED
  BY <1>1, <1>6, <1>7, <1>8, <1>9 DEF Stretch, c

\* The whole of a script: after the schema, one part of each rank, or nothing.
Sequence(S, a, b, c, d, e, f, g, h) == S \o a \o b \o c \o d \o e \o f \o g \o h

\* The nine steps, in order of their ranks, and what they have left.
LEMMA SequenceFacts ==
    ASSUME NEW i, NEW S \in Seq(SetupStatements(i)),
           \A n \in DOMAIN S : Rank(S[n].op) = 1,
           NEW a, NEW b, NEW c, NEW d, NEW e, NEW f, NEW g, NEW h,
           Part(i, a, 2), Part(i, b, 3), Part(i, c, 4), Part(i, d, 5),
           Part(i, e, 6), Part(i, f, 7), Part(i, g, 8), Part(i, h, 9)
    PROVE  /\ Stretch(i, S, Sequence(S, a, b, c, d, e, f, g, h), 9)
           /\ \A op, tables :
                 Left(Sequence(S, a, b, c, d, e, f, g, h), op, tables) <=>
                    \/ Left(S, op, tables) \/ Left(a, op, tables) \/ Left(b, op, tables)
                    \/ Left(c, op, tables) \/ Left(d, op, tables) \/ Left(e, op, tables)
                    \/ Left(f, op, tables) \/ Left(g, op, tables) \/ Left(h, op, tables)
<1> DEFINE Q == SetupStatements(i)
           sa == S \o a
           sb == sa \o b
           sc == sb \o c
           sd == sc \o d
           se == sd \o e
           sf == se \o f
           sg == sf \o g
           sh == sg \o h
<1>0. a \in Seq(Q) /\ b \in Seq(Q) /\ c \in Seq(Q) /\ d \in Seq(Q) /\ e \in Seq(Q)
      /\ f \in Seq(Q) /\ g \in Seq(Q) /\ h \in Seq(Q)
  BY DEF Part
<1>1. Stretch(i, S, S, 1)
  <2>1. DOMAIN S = 1..Len(S) /\ Len(S) \in Nat
    OBVIOUS
  <2>2. Ordered(S)
    BY DEF Ordered
  <2> QED
    BY <2>1, <2>2 DEF Stretch
<1>2. Sequence(S, a, b, c, d, e, f, g, h) = sh
  BY DEF Sequence
<1> HIDE DEF sa, sb, sc, sd, se, sf, sg, sh
<1>3. Stretch(i, S, sa, 2) /\ \A op, ts : Left(sa, op, ts) <=> Left(S, op, ts) \/ Left(a, op, ts)
  BY <1>0, <1>1, Extend, LeftJoin DEF sa
<1>4. Stretch(i, S, sb, 3) /\ \A op, ts : Left(sb, op, ts) <=> Left(sa, op, ts) \/ Left(b, op, ts)
  <2>1. sa \in Seq(Q)
    BY <1>3 DEF Stretch
  <2> QED
    BY <2>1, <1>0, <1>3, Extend, LeftJoin DEF sb
<1>5. Stretch(i, S, sc, 4) /\ \A op, ts : Left(sc, op, ts) <=> Left(sb, op, ts) \/ Left(c, op, ts)
  <2>1. sb \in Seq(Q)
    BY <1>4 DEF Stretch
  <2> QED
    BY <2>1, <1>0, <1>4, Extend, LeftJoin DEF sc
<1>6. Stretch(i, S, sd, 5) /\ \A op, ts : Left(sd, op, ts) <=> Left(sc, op, ts) \/ Left(d, op, ts)
  <2>1. sc \in Seq(Q)
    BY <1>5 DEF Stretch
  <2> QED
    BY <2>1, <1>0, <1>5, Extend, LeftJoin DEF sd
<1>7. Stretch(i, S, se, 6) /\ \A op, ts : Left(se, op, ts) <=> Left(sd, op, ts) \/ Left(e, op, ts)
  <2>1. sd \in Seq(Q)
    BY <1>6 DEF Stretch
  <2> QED
    BY <2>1, <1>0, <1>6, Extend, LeftJoin DEF se
<1>8. Stretch(i, S, sf, 7) /\ \A op, ts : Left(sf, op, ts) <=> Left(se, op, ts) \/ Left(f, op, ts)
  <2>1. se \in Seq(Q)
    BY <1>7 DEF Stretch
  <2> QED
    BY <2>1, <1>0, <1>7, Extend, LeftJoin DEF sf
<1>9. Stretch(i, S, sg, 8) /\ \A op, ts : Left(sg, op, ts) <=> Left(sf, op, ts) \/ Left(g, op, ts)
  <2>1. sf \in Seq(Q)
    BY <1>8 DEF Stretch
  <2> QED
    BY <2>1, <1>0, <1>8, Extend, LeftJoin DEF sg
<1>10. Stretch(i, S, sh, 9) /\ \A op, ts : Left(sh, op, ts) <=> Left(sg, op, ts) \/ Left(h, op, ts)
  <2>1. sg \in Seq(Q)
    BY <1>9 DEF Stretch
  <2> QED
    BY <2>1, <1>0, <1>9, Extend, LeftJoin DEF sh
<1> QED
  BY <1>2, <1>3, <1>4, <1>5, <1>6, <1>7, <1>8, <1>9, <1>10

-----------------------------------------------------------------------------
(* The parts of a script.                                                  *)

\* A step left out is a part of any rank.
LEMMA NothingPart ==
    ASSUME NEW i, NEW r
    PROVE  Part(i, <<>>, r) /\ \A op, tables : ~Left(<<>>, op, tables)
  BY DEF Part, Distinct, Left

\* The rank of a part's statements.
LEMMA PartRank ==
    ASSUME NEW i, NEW r, NEW b, Part(i, b, r), NEW op, NEW tables, Left(b, op, tables)
    PROVE  Rank(op) = r
  BY DEF Part, Left, Do

\* What Setup runs of a part, if at all.
LEMMA StepPart ==
    ASSUME NEW i, NEW r, NEW b, Part(i, b, r), NEW f, NEW name
    PROVE  /\ Part(i, Step(f, name, b), r)
           /\ \A op, tables : Left(Step(f, name, b), op, tables) <=>
                                 Enabled(f, name) /\ Left(b, op, tables)
<1>1. CASE Enabled(f, name)
  BY <1>1 DEF Step
<1>2. CASE ~Enabled(f, name)
  <2>1. Step(f, name, b) = <<>>
    BY <1>2 DEF Step
  <2> QED
    BY <2>1, <1>2, NothingPart
<1> QED
  BY <1>1, <1>2

\* A part of a script under a condition.
LEMMA WhenPart ==
    ASSUME NEW i, NEW r, NEW b, Part(i, b, r), NEW condition
    PROVE  /\ Part(i, When(condition, b), r)
           /\ \A op, tables : Left(When(condition, b), op, tables) <=>
                                 condition /\ Left(b, op, tables)
<1>1. CASE condition
  BY <1>1 DEF When
<1>2. CASE ~condition
  <2>1. When(condition, b) = <<>>
    BY <1>2 DEF When
  <2> QED
    BY <2>1, <1>2, NothingPart
<1> QED
  BY <1>1, <1>2

\* A step of one statement is a part of its rank.
LEMMA OneStatement ==
    ASSUME NEW i, NEW s \in SetupStatements(i)
    PROVE  /\ Part(i, <<s>>, Rank(s.op))
           /\ \A op, tables : Left(<<s>>, op, tables) <=> s = Do(op, tables)
<1>1. <<s>> \in Seq(SetupStatements(i)) /\ DOMAIN <<s>> = {1} /\ <<s>>[1] = s
  OBVIOUS
<1>2. Distinct(<<s>>)
  BY <1>1 DEF Distinct
<1> QED
  BY <1>1, <1>2 DEF Part, Left

\* The operation op is a statement of instance i on each table of X.
Applies(i, op, X) == \A t \in X : Do(op, <<t>>) \in SetupStatements(i)

\* b is the operation op on each of the tables.
Lists(i, b, op, tables) ==
    /\ b \in Seq(SetupStatements(i))
    /\ Len(b) = Len(tables) /\ DOMAIN b = DOMAIN tables
    /\ \A n \in DOMAIN tables : /\ b[n] = Do(op, <<tables[n]>>)
                               /\ b[n].op = op
                               /\ b[n].tables = <<tables[n]>>

\* A statement for each table, in the tables' order.
LEMMA EachShape ==
    ASSUME NEW i, NEW op, NEW X, NEW tables, tables \in Seq(X), Applies(i, op, X)
    PROVE  Lists(i, Each(op, tables), op, tables)
<1> DEFINE b == Each(op, tables)
<1>1. /\ DOMAIN tables = 1..Len(tables) /\ Len(tables) \in Nat
      /\ \A n \in DOMAIN tables : tables[n] \in X
  OBVIOUS
<1>2. b = [n \in 1..Len(tables) |-> Do(op, <<tables[n]>>)]
  BY DEF Each
<1> HIDE DEF b
<1>3. /\ DOMAIN b = DOMAIN tables
      /\ \A n \in DOMAIN tables : b[n] = Do(op, <<tables[n]>>)
  BY <1>1, <1>2
<1>4. b \in Seq(SetupStatements(i)) /\ Len(b) = Len(tables)
  <2>1. \A n \in 1..Len(tables) : Do(op, <<tables[n]>>) \in SetupStatements(i)
    BY <1>1 DEF Applies
  <2> QED
    BY <1>1, <1>2, <2>1
<1>5. \A t : Do(op, t).op = op /\ Do(op, t).tables = t
  BY DEF Do
<1>6. \A n \in DOMAIN tables : b[n].op = op /\ b[n].tables = <<tables[n]>>
  BY <1>3, <1>5
<1> QED
  BY <1>3, <1>4, <1>6 DEF b, Lists

\* What b has left is the operation op on the tables of the set D.
Has(b, op, D) == \A o, ts : Left(b, o, ts) <=> o = op /\ \E t \in D : ts = <<t>>

\* A statement for each table of a sequence without repetitions.
LEMMA EachPart ==
    ASSUME NEW i, NEW op, NEW X, NEW tables, tables \in Seq(X), Distinct(tables),
           Applies(i, op, X)
    PROVE  Part(i, Each(op, tables), Rank(op)) /\ Has(Each(op, tables), op, ToSet(tables))
<1> DEFINE b == Each(op, tables)
<1>1. /\ b \in Seq(SetupStatements(i)) /\ DOMAIN b = DOMAIN tables
      /\ \A n \in DOMAIN tables : b[n] = Do(op, <<tables[n]>>) /\ b[n].op = op
  <2>1. Lists(i, b, op, tables)
    BY EachShape
  <2> HIDE DEF b
  <2> QED
    BY <2>1 DEF Lists
<1> HIDE DEF b
<1>4. \A t, u : Do(op, <<t>>) = Do(op, <<u>>) => t = u
  BY DEF Do
<1>5. Distinct(b)
  <2> SUFFICES ASSUME NEW m \in DOMAIN b, NEW n \in DOMAIN b, b[m] = b[n]
               PROVE  m = n
    BY DEF Distinct
  <2>1. Do(op, <<tables[m]>>) = Do(op, <<tables[n]>>)
    BY <1>1
  <2>2. tables[m] = tables[n]
    BY <2>1, <1>4
  <2> QED
    BY <2>2, <1>1 DEF Distinct
<1>7. Part(i, b, Rank(op))
  BY <1>1, <1>5 DEF Part
<1>8. \A o, ts, t : Do(op, <<t>>) = Do(o, ts) <=> o = op /\ ts = <<t>>
  BY DEF Do
<1>9. ASSUME NEW o, NEW ts
      PROVE  Left(b, o, ts) <=> o = op /\ \E t \in ToSet(tables) : ts = <<t>>
  <2>1. \A t : t \in ToSet(tables) <=> \E n \in DOMAIN tables : t = tables[n]
    BY DEF ToSet
  <2>2. ASSUME Left(b, o, ts) PROVE o = op /\ \E t \in ToSet(tables) : ts = <<t>>
    <3>1. PICK n \in DOMAIN tables : b[n] = Do(o, ts)
      BY <2>2, <1>1 DEF Left
    <3>2. Do(op, <<tables[n]>>) = Do(o, ts)
      BY <3>1, <1>1
    <3> QED
      BY <3>2, <2>1, <1>8
  <2>3. ASSUME o = op, NEW t \in ToSet(tables), ts = <<t>> PROVE Left(b, o, ts)
    <3>1. PICK n \in DOMAIN tables : t = tables[n]
      BY <2>1
    <3>2. n \in DOMAIN b /\ b[n] = Do(o, ts)
      BY <3>1, <2>3, <1>1
    <3> QED
      BY <3>2 DEF Left
  <2> QED
    BY <2>2, <2>3
<1> QED
  BY <1>7, <1>9 DEF b, Has

\* Each table that has indexes gets them once.
LEMMA IndexedFacts ==
    ASSUME SetupTypeOK
    PROVE  Indexed \in Seq(Tables) /\ Distinct(Indexed)
<1>1. CASE workload = "tpcc" /\ driverType # "picodata"
  <2>1. Indexed = <<"customer", "orders">>
    BY <1>1 DEF Indexed
  <2>2. "customer" \in Tables /\ "orders" \in Tables
    BY <1>1, SchemaTables
  <2>3. Indexed \in Seq(Tables)
    BY <2>1, <2>2
  <2>4. Distinct(Indexed)
    BY <2>1 DEF Distinct
  <2> QED
    BY <2>3, <2>4
<1>2. CASE workload = "tpcb" /\ Sql
  <2>1. Indexed = <<"pgbench_accounts", "pgbench_tellers">>
    BY <1>2 DEF Indexed
  <2>2. "pgbench_accounts" \in Tables /\ "pgbench_tellers" \in Tables
    BY <1>2, SchemaTables
  <2>3. Indexed \in Seq(Tables)
    BY <2>1, <2>2
  <2>4. Distinct(Indexed)
    BY <2>1 DEF Distinct
  <2> QED
    BY <2>3, <2>4
<1>3. CASE workload = "tpch" /\ driverType # "ydb"
  <2>1. Indexed = <<"orders_h", "lineitem">>
    BY <1>3 DEF Indexed
  <2>2. "orders_h" \in Tables /\ "lineitem" \in Tables
    BY <1>3, SchemaTables
  <2>3. Indexed \in Seq(Tables)
    BY <2>1, <2>2
  <2>4. Distinct(Indexed)
    BY <2>1 DEF Distinct
  <2> QED
    BY <2>3, <2>4
<1>4. CASE workload = "tpcds" /\ driverType # "ydb"
  <2>1. Indexed = <<"store_sales", "store_returns">>
    BY <1>4 DEF Indexed
  <2>2. "store_sales" \in Tables /\ "store_returns" \in Tables
    BY <1>4, SchemaTables
  <2>3. Indexed \in Seq(Tables)
    BY <2>1, <2>2
  <2>4. Distinct(Indexed)
    BY <2>1 DEF Distinct
  <2> QED
    BY <2>3, <2>4
<1>5. CASE /\ ~(workload = "tpcc" /\ driverType # "picodata") /\ ~(workload = "tpcb" /\ Sql)
           /\ ~(workload = "tpch" /\ driverType # "ydb")
           /\ ~(workload = "tpcds" /\ driverType # "ydb")
  <2>1. Indexed = <<>>
    BY <1>5 DEF Indexed
  <2> QED
    BY <2>1 DEF Distinct
<1> QED
  BY <1>1, <1>2, <1>3, <1>4, <1>5

\* Each foreign key is listed once.
LEMMA ForeignKeysFacts ==
    ForeignKeys \in Seq(ToSet(ForeignKeys)) /\ Distinct(ForeignKeys)
<1>1. \E n \in Nat : DOMAIN ForeignKeys = 1..n /\ ForeignKeys = [k \in 1..n |-> ForeignKeys[k]]
  <2>1. CASE workload = "tpcc" /\ driverType = "postgres"
    <3>1. ForeignKeys = <<<<"district", "warehouse">>, <<"customer", "warehouse">>,
                 <<"new_order", "warehouse">>, <<"orders", "warehouse">>,
                 <<"order_line", "warehouse">>, <<"stock", "item">>,
                 <<"stock", "warehouse">>>>
      BY <2>1 DEF ForeignKeys
    <3>2. DOMAIN ForeignKeys = 1..7 /\ ForeignKeys = [k \in 1..7 |-> ForeignKeys[k]]
      BY <3>1
    <3> QED
      BY <3>2
  <2>2. CASE workload = "tpcb" /\ Sql
    <3>1. ForeignKeys = <<<<"pgbench_tellers", "pgbench_branches">>,
                 <<"pgbench_accounts", "pgbench_branches">>,
                 <<"pgbench_history", "pgbench_branches">>,
                 <<"pgbench_history", "pgbench_tellers">>,
                 <<"pgbench_history", "pgbench_accounts">>>>
      BY <2>2 DEF ForeignKeys
    <3>2. DOMAIN ForeignKeys = 1..5 /\ ForeignKeys = [k \in 1..5 |-> ForeignKeys[k]]
      BY <3>1
    <3> QED
      BY <3>2
  <2>3. CASE ~(workload = "tpcc" /\ driverType = "postgres") /\ ~(workload = "tpcb" /\ Sql)
    <3>1. ForeignKeys = <<>>
      BY <2>3 DEF ForeignKeys
    <3>2. DOMAIN ForeignKeys = 1..0 /\ ForeignKeys = [k \in 1..0 |-> ForeignKeys[k]]
      BY <3>1
    <3> QED
      BY <3>2
  <2> QED
    BY <2>1, <2>2, <2>3
<1>2. ForeignKeys \in Seq(ToSet(ForeignKeys))
  BY <1>1 DEF ToSet
<1>3. Distinct(ForeignKeys)
  <2>1. CASE workload = "tpcc" /\ driverType = "postgres"
    <3>1. ForeignKeys = <<<<"district", "warehouse">>, <<"customer", "warehouse">>,
                 <<"new_order", "warehouse">>, <<"orders", "warehouse">>,
                 <<"order_line", "warehouse">>, <<"stock", "item">>,
                 <<"stock", "warehouse">>>>
      BY <2>1 DEF ForeignKeys
    <3>2. /\ DOMAIN ForeignKeys = 1..7
          /\ ForeignKeys[1][1] = "district" /\ ForeignKeys[2][1] = "customer"
          /\ ForeignKeys[3][1] = "new_order" /\ ForeignKeys[4][1] = "orders"
          /\ ForeignKeys[5][1] = "order_line"
          /\ ForeignKeys[6][1] = "stock" /\ ForeignKeys[6][2] = "item"
          /\ ForeignKeys[7][1] = "stock" /\ ForeignKeys[7][2] = "warehouse"
      BY <3>1
    <3> QED
      BY <3>2 DEF Distinct
  <2>2. CASE workload = "tpcb" /\ Sql
    <3>1. ForeignKeys = <<<<"pgbench_tellers", "pgbench_branches">>,
                 <<"pgbench_accounts", "pgbench_branches">>,
                 <<"pgbench_history", "pgbench_branches">>,
                 <<"pgbench_history", "pgbench_tellers">>,
                 <<"pgbench_history", "pgbench_accounts">>>>
      BY <2>2 DEF ForeignKeys
    <3>2. /\ DOMAIN ForeignKeys = 1..5
          /\ ForeignKeys[1][1] = "pgbench_tellers" /\ ForeignKeys[2][1] = "pgbench_accounts"
          /\ \A n \in 3..5 : ForeignKeys[n][1] = "pgbench_history"
          /\ ForeignKeys[3][2] = "pgbench_branches" /\ ForeignKeys[4][2] = "pgbench_tellers"
          /\ ForeignKeys[5][2] = "pgbench_accounts"
      BY <3>1
    <3> QED
      BY <3>2 DEF Distinct
  <2>3. CASE ~(workload = "tpcc" /\ driverType = "postgres") /\ ~(workload = "tpcb" /\ Sql)
    <3>1. ForeignKeys = <<>>
      BY <2>3 DEF ForeignKeys
    <3> QED
      BY <3>1 DEF Distinct
  <2> QED
    BY <2>1, <2>2, <2>3
<1> QED
  BY <1>2, <1>3

\* The foreign keys' step is a part of its rank.
LEMMA ForeignKeyPart ==
    ASSUME NEW i
    PROVE  Part(i, [n \in 1..Len(ForeignKeys) |-> Do("add_foreign_key", ForeignKeys[n])], 7)
<1> DEFINE K == ForeignKeys
           b == [n \in 1..Len(K) |-> Do("add_foreign_key", K[n])]
<1>1. K \in Seq(ToSet(K)) /\ Distinct(K)
  BY ForeignKeysFacts
<1>2. \A fk \in ToSet(K) : Do("add_foreign_key", fk) \in SetupStatements(i)
  BY DEF SetupStatements, Do
<1> HIDE DEF K
<1>3. DOMAIN K = 1..Len(K) /\ Len(K) \in Nat /\ \A n \in DOMAIN K : K[n] \in ToSet(K)
  BY <1>1
<1>4. DOMAIN b = DOMAIN K /\ \A n \in DOMAIN K : b[n] = Do("add_foreign_key", K[n])
  BY <1>3
<1>5. b \in Seq(SetupStatements(i))
  BY <1>2, <1>3
<1> HIDE DEF b
<1>6. \A x, y : Do("add_foreign_key", x) = Do("add_foreign_key", y) => x = y
  BY DEF Do
<1>7. \A x : Do("add_foreign_key", x).op = "add_foreign_key"
  BY DEF Do
<1>8. Distinct(b)
  BY <1>1, <1>4, <1>6 DEF Distinct
<1>9. Part(i, b, 7)
  BY <1>4, <1>5, <1>7, <1>8, RankValues DEF Part
<1> QED
  BY <1>9 DEF b, K

-----------------------------------------------------------------------------
(* The schema a script begins with.                                        *)

\* DropOrder has every table, and on MySQL a child before its parent.
LEMMA DropOrderFacts ==
    ASSUME SetupTypeOK
    PROVE  /\ DropOrder \in Seq(Tables)
           /\ ToSet(DropOrder) = Tables
           /\ driverType = "mysql" =>
                  \A fk \in ToSet(ForeignKeys), n \in DOMAIN DropOrder :
                      DropOrder[n] = fk[2] => \E m \in 1..n : DropOrder[m] = fk[1]
<1>1. CASE workload = "tpcc"
  <2>1. DropOrder = <<"order_line", "new_order", "orders", "history", "stock", "customer",
                      "district", "warehouse", "item">>
    BY <1>1 DEF DropOrder
  <2>2. Tables = {"warehouse", "district", "customer", "history",
                  "new_order", "orders", "order_line", "item", "stock"}
    BY <1>1, SchemaTables
  <2>3. DropOrder \in Seq({"warehouse", "district", "customer", "history",
                           "new_order", "orders", "order_line", "item", "stock"})
    BY <2>1
  <2>4. ToSet(DropOrder) = {"warehouse", "district", "customer", "history",
                            "new_order", "orders", "order_line", "item", "stock"}
    BY <2>1 DEF ToSet
  <2>5. driverType = "mysql" => ForeignKeys = <<>>
    BY <1>1 DEF ForeignKeys
  <2>6. driverType = "mysql" => ToSet(ForeignKeys) = {}
    BY <2>5 DEF ToSet
  <2> QED
    BY <2>2, <2>3, <2>4, <2>6
<1>2. CASE workload # "tpcc"
  <2> DEFINE s == CreateOrder
  <2>1. DropOrder = Reverse(s)
    BY <1>2 DEF DropOrder
  <2>2. s \in Seq(Tables) /\ ToSet(s) = Tables
    BY CreateOrderFacts DEF Tables
  <2> HIDE DEF s
  <2>3. Len(s) \in Nat /\ DOMAIN s = 1..Len(s) /\ \A n \in DOMAIN s : s[n] \in Tables
    BY <2>2
  <2>4. DropOrder = [n \in 1..Len(s) |-> s[(Len(s) - n) + 1]]
    BY <2>1 DEF Reverse
  <2>5. \A n \in 1..Len(s) : (Len(s) - n) + 1 \in DOMAIN s
    BY <2>3
  <2>6. DropOrder \in Seq(Tables)
    BY <2>3, <2>4, <2>5
  <2>7. DOMAIN DropOrder = 1..Len(s) /\ \A n \in 1..Len(s) : DropOrder[n] = s[(Len(s) - n) + 1]
    BY <2>4
  <2>8. \A n \in 1..Len(s) : DropOrder[(Len(s) - n) + 1] = s[n]
    <3> TAKE n \in 1..Len(s)
    <3>1. (Len(s) - n) + 1 \in 1..Len(s) /\ (Len(s) - ((Len(s) - n) + 1)) + 1 = n
      BY <2>3
    <3> QED
      BY <3>1, <2>7
  <2>9. ToSet(DropOrder) = Tables
    <3>1. \A n \in DOMAIN DropOrder : DropOrder[n] \in Tables
      BY <2>3, <2>5, <2>7
    <3>2. \A t \in Tables : \E n \in DOMAIN DropOrder : DropOrder[n] = t
      <4> TAKE t \in Tables
      <4>1. PICK n \in 1..Len(s) : s[n] = t
        BY <2>2, <2>3 DEF ToSet
      <4>2. (Len(s) - n) + 1 \in DOMAIN DropOrder /\ DropOrder[(Len(s) - n) + 1] = t
        BY <4>1, <2>3, <2>7, <2>8
      <4> QED
        BY <4>2
    <3> QED
      BY <3>1, <3>2 DEF ToSet
  <2>10. ASSUME driverType = "mysql", NEW fk \in ToSet(ForeignKeys),
                NEW n \in DOMAIN DropOrder, DropOrder[n] = fk[2]
         PROVE  \E m \in 1..n : DropOrder[m] = fk[1]
    <3>1. /\ workload = "tpcb"
          /\ \/ /\ fk[2] = "pgbench_branches"
                /\ fk[1] \in {"pgbench_tellers", "pgbench_accounts"}
             \/ /\ fk[1] = "pgbench_history"
                /\ fk[2] \in {"pgbench_branches", "pgbench_tellers", "pgbench_accounts"}
      BY <1>2, ForeignKeyShape
    <3>2. s = <<"pgbench_branches", "pgbench_tellers", "pgbench_accounts", "pgbench_history">>
      BY <3>1, SchemaTables DEF s
    <3>3. Len(s) = 4 /\ s[1] = "pgbench_branches" /\ s[2] = "pgbench_tellers"
          /\ s[3] = "pgbench_accounts" /\ s[4] = "pgbench_history"
      BY <3>2
    <3>4. /\ DropOrder[1] = "pgbench_history" /\ DropOrder[2] = "pgbench_accounts"
          /\ DropOrder[3] = "pgbench_tellers" /\ DOMAIN DropOrder = 1..4
      BY <3>3, <2>7
    <3>5. n \in 2..4 /\ 1 \in 1..n
      BY <3>1, <3>3, <3>4, <2>7, <2>10
    <3>6. CASE fk[1] = "pgbench_history"
      BY <3>4, <3>5, <3>6
    <3>7. CASE fk[2] = "pgbench_branches" /\ fk[1] \in {"pgbench_tellers", "pgbench_accounts"}
      <4>1. n = 4
        BY <3>3, <3>4, <3>7, <2>10
      <4>2. 2 \in 1..n /\ 3 \in 1..n
        BY <4>1
      <4> QED
        BY <3>4, <3>7, <4>2
    <3> QED
      BY <3>1, <3>6, <3>7
  <2> QED
    BY <2>6, <2>9, <2>10
<1> QED
  BY <1>1, <1>2

\* Statements that only drop tables and procedures.
Dropping(i, b) ==
    /\ b \in Seq(SetupStatements(i))
    /\ \A n \in DOMAIN b : b[n].op \in {"drop", "drop_procedures"}

\* The parts of drop_schema, and what they drop.
LEMMA DroppingParts ==
    ASSUME SetupTypeOK, NEW i
    PROVE  /\ Dropping(i, DropProcedures)
           /\ \A n \in DOMAIN DropProcedures, t \in Tables : ~Drops(DropProcedures[n], t)
           /\ HasProcedures => Left(DropProcedures, "drop_procedures", <<>>)
           /\ Dropping(i, <<Do("drop", DropOrder)>>)
           /\ \A t \in Tables : WillDrop(<<Do("drop", DropOrder)>>, t)
           /\ Dropping(i, Each("drop", DropOrder))
           /\ DOMAIN Each("drop", DropOrder) = DOMAIN DropOrder
           /\ \A n \in DOMAIN DropOrder, t \in Tables :
                 Drops(Each("drop", DropOrder)[n], t) <=> DropOrder[n] = t
<1> DEFINE p == DropProcedures
           b == <<Do("drop", DropOrder)>>
           e == Each("drop", DropOrder)
<1>0. DropOrder \in Seq(Tables) /\ ToSet(DropOrder) = Tables
  BY DropOrderFacts
<1>1. /\ Do("drop_procedures", <<>>) \in SetupStatements(i)
      /\ Do("drop", DropOrder) \in SetupStatements(i)
      /\ Applies(i, "drop", Tables)
  BY DEF SetupStatements, OnOneTable, Do, Applies
<1>2. \A op, ts : Do(op, ts).op = op /\ Do(op, ts).tables = ts
  BY DEF Do
<1>3. /\ Dropping(i, p) /\ (\A n \in DOMAIN p, t \in Tables : ~Drops(p[n], t))
      /\ HasProcedures => Left(p, "drop_procedures", <<>>)
  <2>1. CASE HasProcedures
    <3>1. p = <<Do("drop_procedures", <<>>)>>
      BY <2>1 DEF DropProcedures
    <3>2. p \in Seq(SetupStatements(i)) /\ DOMAIN p = {1}
          /\ p[1] = Do("drop_procedures", <<>>)
      BY <3>1, <1>1
    <3> HIDE DEF p
    <3> QED
      BY <3>2, <1>2 DEF Dropping, Drops, Left
  <2>2. CASE ~HasProcedures
    <3>1. p = <<>>
      BY <2>2 DEF DropProcedures
    <3> QED
      BY <3>1, <2>2 DEF Dropping
  <2> QED
    BY <2>1, <2>2
<1>6. Dropping(i, b) /\ \A t \in Tables : WillDrop(b, t)
  <2>1. b \in Seq(SetupStatements(i)) /\ DOMAIN b = {1} /\ b[1] = Do("drop", DropOrder)
    BY <1>1
  <2> HIDE DEF b
  <2> QED
    BY <2>1, <1>0, <1>2 DEF Dropping, WillDrop, Drops
<1>7. /\ Dropping(i, e) /\ DOMAIN e = DOMAIN DropOrder
      /\ \A n \in DOMAIN DropOrder : \A t \in Tables : Drops(e[n], t) <=> DropOrder[n] = t
  <2>1. /\ e \in Seq(SetupStatements(i)) /\ DOMAIN e = DOMAIN DropOrder
        /\ \A n \in DOMAIN DropOrder : e[n].op = "drop" /\ e[n].tables = <<DropOrder[n]>>
    <3>1. Lists(i, e, "drop", DropOrder)
      BY <1>0, <1>1, EachShape
    <3> HIDE DEF e
    <3> QED
      BY <3>1 DEF Lists
  <2>2. \A t, u : t \in ToSet(<<u>>) <=> u = t
    BY DEF ToSet
  <2> HIDE DEF e
  <2>3. Dropping(i, e)
    BY <2>1 DEF Dropping
  <2>4. \A n \in DOMAIN DropOrder : \A t \in Tables : Drops(e[n], t) <=> DropOrder[n] = t
    BY <2>1, <2>2 DEF Drops
  <2> QED
    BY <2>1, <2>3, <2>4
<1> QED
  BY <1>3, <1>6, <1>7

\* drop_schema drops every table, on MySQL a child before its parent, and procedures.
LEMMA DropSchemaFacts ==
    ASSUME SetupTypeOK, NEW i
    PROVE  /\ Dropping(i, DropSchema)
           /\ \A t \in Tables : WillDrop(DropSchema, t)
           /\ driverType = "mysql" =>
                  \A fk \in ToSet(ForeignKeys) : \A n \in DOMAIN DropSchema :
                      Drops(DropSchema[n], fk[2]) => \E m \in 1..n : Drops(DropSchema[m], fk[1])
           /\ driverType = "mysql" /\ HasProcedures =>
                  Left(DropSchema, "drop_procedures", <<>>)
<1> DEFINE Q == SetupStatements(i)
           p == DropProcedures
           b == <<Do("drop", DropOrder)>>
           e == Each("drop", DropOrder)
           D == DropSchema
<1>1. /\ Dropping(i, p) /\ Dropping(i, b) /\ Dropping(i, e)
      /\ (\A n \in DOMAIN p, t \in Tables : ~Drops(p[n], t))
      /\ HasProcedures => Left(p, "drop_procedures", <<>>)
      /\ (\A t \in Tables : WillDrop(b, t))
      /\ DOMAIN e = DOMAIN DropOrder
      /\ \A n \in DOMAIN DropOrder, t \in Tables : Drops(e[n], t) <=> DropOrder[n] = t
  BY DroppingParts
<1>2. DropOrder \in Seq(Tables) /\ ToSet(DropOrder) = Tables
  BY DropOrderFacts
<1>3. /\ workload = "tpcc" /\ driverType = "postgres" => D = p \o b
      /\ ~(workload = "tpcc" /\ driverType = "postgres") /\ driverType = "mysql" => D = p \o e
      /\ ~(workload = "tpcc" /\ driverType = "postgres") /\ driverType # "mysql" => D = e \o p
  BY DEF DropSchema
<1> HIDE DEF p, b, e, D, Q
<1>4. p \in Seq(Q) /\ b \in Seq(Q) /\ e \in Seq(Q)
  BY <1>1 DEF Dropping, Q
<1>5. \A t \in Tables : WillDrop(e, t)
  BY <1>1, <1>2 DEF WillDrop, ToSet
<1>6. ASSUME NEW x, NEW y, Dropping(i, x), Dropping(i, y)
      PROVE  /\ Dropping(i, x \o y)
             /\ \A t : WillDrop(x, t) \/ WillDrop(y, t) => WillDrop(x \o y, t)
  <2> DEFINE z == x \o y
  <2>1. x \in Seq(Q) /\ y \in Seq(Q)
    BY <1>6 DEF Dropping, Q
  <2>2. /\ z \in Seq(Q)
        /\ \A n \in DOMAIN x : n \in DOMAIN z /\ z[n] = x[n]
        /\ \A n \in DOMAIN y : n + Len(x) \in DOMAIN z /\ z[n + Len(x)] = y[n]
        /\ \A n \in DOMAIN z : \/ n \in DOMAIN x /\ z[n] = x[n]
                               \/ n > Len(x) /\ n - Len(x) \in DOMAIN y /\ z[n] = y[n - Len(x)]
    BY <2>1, Joined
  <2> HIDE DEF z
  <2>3. Dropping(i, z)
    BY <2>2, <1>6 DEF Dropping, Q
  <2>4. \A t : WillDrop(x, t) \/ WillDrop(y, t) => WillDrop(z, t)
    BY <2>2 DEF WillDrop
  <2> QED
    BY <2>3, <2>4 DEF z
<1>7. CASE workload = "tpcc" /\ driverType = "postgres"
  <2>1. D = p \o b
    BY <1>3, <1>7
  <2>2. Dropping(i, D) /\ \A t \in Tables : WillDrop(D, t)
    BY <2>1, <1>1, <1>6
  <2> QED
    BY <2>2, <1>7 DEF D
<1>8. CASE ~(workload = "tpcc" /\ driverType = "postgres") /\ driverType # "mysql"
  <2>1. D = e \o p
    BY <1>3, <1>8
  <2>2. Dropping(i, D) /\ \A t \in Tables : WillDrop(D, t)
    BY <2>1, <1>1, <1>5, <1>6
  <2> QED
    BY <2>2, <1>8 DEF D
<1>9. CASE ~(workload = "tpcc" /\ driverType = "postgres") /\ driverType = "mysql"
  <2>1. D = p \o e
    BY <1>3, <1>9
  <2>2. Dropping(i, D) /\ \A t \in Tables : WillDrop(D, t)
    BY <2>1, <1>1, <1>5, <1>6
  <2>3. /\ \A n \in DOMAIN p : n \in DOMAIN D /\ D[n] = p[n]
        /\ \A n \in DOMAIN e : n + Len(p) \in DOMAIN D /\ D[n + Len(p)] = e[n]
        /\ \A n \in DOMAIN D : \/ n \in DOMAIN p /\ D[n] = p[n]
                               \/ n > Len(p) /\ n - Len(p) \in DOMAIN e /\ D[n] = e[n - Len(p)]
        /\ Len(p) \in Nat /\ DOMAIN e = 1..Len(e) /\ Len(e) \in Nat
        /\ DOMAIN D = 1..(Len(p) + Len(e))
    BY <2>1, <1>4, Joined
  <2>4. ASSUME NEW fk \in ToSet(ForeignKeys), NEW n \in DOMAIN D, Drops(D[n], fk[2])
        PROVE  \E m \in 1..n : Drops(D[m], fk[1])
    <3>1. fk[1] \in Tables /\ fk[2] \in Tables
      BY ForeignKeyShape
    <3>2. n > Len(p) /\ n - Len(p) \in DOMAIN e /\ D[n] = e[n - Len(p)]
      BY <2>3, <2>4, <3>1, <1>1
    <3>3. DropOrder[n - Len(p)] = fk[2] /\ n - Len(p) \in DOMAIN DropOrder
      BY <3>1, <3>2, <2>4, <1>1
    <3>4. PICK m \in 1..(n - Len(p)) : DropOrder[m] = fk[1]
      BY <3>3, <1>9, DropOrderFacts
    <3>5. n \in Nat
      BY <2>3
    <3>6. m \in DOMAIN e /\ m + Len(p) \in 1..n
      BY <3>2, <3>5, <2>3
    <3>7. Drops(e[m], fk[1])
      BY <3>1, <3>4, <3>6, <1>1
    <3> QED
      BY <3>6, <3>7, <2>3
  <2>5. HasProcedures => Left(D, "drop_procedures", <<>>)
    BY <2>1, <1>1, <1>4, LeftJoin
  <2> QED
    BY <2>2, <2>4, <2>5 DEF D
<1> QED
  BY <1>7, <1>8, <1>9

\* create_schema creates each table once, and does not drop it again.
LEMMA CreateSchemaFacts ==
    ASSUME SetupTypeOK, NEW i
    PROVE  /\ CreateSchema \in Seq(SetupStatements(i))
           /\ \A n \in DOMAIN CreateSchema : CreateSchema[n].op \in {"drop", "create"}
           /\ \A n \in DOMAIN CreateSchema, t \in Tables :
                 Creates(CreateSchema[n], t) => \A m \in 1..(n - 1) : ~Creates(CreateSchema[m], t)
           /\ \A t \in Tables : \E n \in DOMAIN CreateSchema :
                 /\ Creates(CreateSchema[n], t)
                 /\ \A m \in (n + 1)..Len(CreateSchema) : ~Drops(CreateSchema[m], t)
<1> DEFINE C == CreateSchema
           O == CreateOrder
<1>0. O \in Seq(Tables) /\ Distinct(O) /\ ToSet(O) = Tables
  BY CreateOrderFacts DEF Tables
<1>1. Applies(i, "drop", Tables) /\ Applies(i, "create", Tables)
  BY DEF SetupStatements, OnOneTable, Do, Applies
<1>2. \A op, ts : Do(op, ts).op = op /\ Do(op, ts).tables = ts
  BY DEF Do
<1>3. \A t, u : t \in ToSet(<<u>>) <=> u = t
  BY DEF ToSet
<1>4. /\ \A t, u : Creates(Do("create", <<u>>), t) <=> u = t
      /\ \A t, u : ~Creates(Do("drop", <<u>>), t)
      /\ \A t, u : Drops(Do("drop", <<u>>), t) <=> u = t
      /\ \A t, u : ~Drops(Do("create", <<u>>), t)
  BY <1>2, <1>3 DEF Creates, Drops
<1>5. CASE workload = "tpcds" /\ Sql
  <2> DEFINE a == "store_sales"
             b == "store_returns"
  <2>1. O = <<a, b>> /\ Tables = {a, b}
    BY <1>5, SchemaTables
  <2>2. O[1] = a /\ O[2] = b /\ Len(O) = 2
    BY <2>1
  <2>3. C = [n \in 1..(2 * Len(O)) |->
                Do(IF n % 2 = 1 THEN "drop" ELSE "create", <<O[(n + 1) \div 2]>>)]
    BY <1>5 DEF CreateSchema
  <2> HIDE DEF C, O
  <2>4. C = [n \in 1..4 |-> Do(IF n % 2 = 1 THEN "drop" ELSE "create", <<O[(n + 1) \div 2]>>)]
    BY <2>2, <2>3
  <2>5. /\ DOMAIN C = 1..4
        /\ C[1] = Do("drop", <<O[1]>>) /\ C[2] = Do("create", <<O[1]>>)
        /\ C[3] = Do("drop", <<O[2]>>) /\ C[4] = Do("create", <<O[2]>>)
    BY <2>4
  <2>6. C \in Seq(SetupStatements(i)) /\ Len(C) = 4
    <3>1. \A n \in 1..4 : C[n] \in SetupStatements(i)
      BY <2>1, <2>2, <2>5, <1>1 DEF Applies
    <3>2. C = [n \in 1..4 |-> C[n]]
      BY <2>4
    <3> QED
      BY <3>1, <3>2
  <2>7. /\ DOMAIN C = 1..4
        /\ C[1] = Do("drop", <<a>>) /\ C[2] = Do("create", <<a>>)
        /\ C[3] = Do("drop", <<b>>) /\ C[4] = Do("create", <<b>>)
    BY <2>2, <2>5
  <2>8. a # b
    OBVIOUS
  <2> HIDE DEF a, b
  <2>9. \A n \in DOMAIN C : C[n].op \in {"drop", "create"}
    BY <2>7, <1>2
  <2>10. \A n \in DOMAIN C, t \in Tables :
             Creates(C[n], t) => \A m \in 1..(n - 1) : ~Creates(C[m], t)
    <3> TAKE n \in DOMAIN C, t \in Tables
    <3>1. n = 1 \/ n = 2 \/ n = 3 \/ n = 4
      BY <2>7
    <3>2. ~Creates(C[1], t) /\ ~Creates(C[3], t) /\ (Creates(C[2], t) => t = a)
          /\ (Creates(C[4], t) => t = b)
      BY <2>7, <1>4
    <3>3. CASE n = 2
      <4>1. \A m \in 1..(n - 1) : m = 1
        BY <3>3
      <4> QED
        BY <4>1, <3>2
    <3>4. CASE n = 4
      <4>1. \A m \in 1..(n - 1) : m = 1 \/ m = 2 \/ m = 3
        BY <3>4
      <4> QED
        BY <4>1, <3>2, <3>4, <2>8
    <3> QED
      BY <3>1, <3>2, <3>3, <3>4
  <2>11. \A t \in Tables : \E n \in DOMAIN C :
             Creates(C[n], t) /\ \A m \in (n + 1)..Len(C) : ~Drops(C[m], t)
    <3> TAKE t \in Tables
    <3>1. CASE t = a
      <4>1. 2 \in DOMAIN C /\ Creates(C[2], t)
        BY <3>1, <2>7, <1>4
      <4>2. \A m \in (2 + 1)..4 : m = 3 \/ m = 4
        OBVIOUS
      <4>3. ~Drops(C[3], t) /\ ~Drops(C[4], t)
        BY <3>1, <2>7, <2>8, <1>4
      <4> QED
        BY <4>1, <4>2, <4>3, <2>6
    <3>2. CASE t = b
      <4>1. 4 \in DOMAIN C /\ Creates(C[4], t)
        BY <3>2, <2>7, <1>4
      <4>2. (4 + 1)..4 = {}
        OBVIOUS
      <4> QED
        BY <4>1, <4>2, <2>6
    <3> QED
      BY <3>1, <3>2, <2>1
  <2> QED
    BY <2>6, <2>9, <2>10, <2>11 DEF C
<1>6. CASE ~(workload = "tpcds" /\ Sql)
  <2>1. C = Each("create", O)
    BY <1>6 DEF CreateSchema
  <2>2. DOMAIN O = 1..Len(O) /\ Len(O) \in Nat
    BY <1>0
  <2> HIDE DEF O
  <2>3. /\ C \in Seq(SetupStatements(i)) /\ DOMAIN C = DOMAIN O /\ Len(C) = Len(O)
        /\ \A n \in DOMAIN C : C[n].op = "create" /\ C[n].tables = <<O[n]>>
    <3> DEFINE E == Each("create", O)
    <3>1. Lists(i, E, "create", O)
      BY <1>0, <1>1, EachShape
    <3>2. C = E
      BY <2>1
    <3> HIDE DEF E, C
    <3> QED
      BY <3>1, <3>2 DEF Lists
  <2> HIDE DEF C
  <2>4. \A n \in DOMAIN C : \A t : (Creates(C[n], t) <=> O[n] = t) /\ ~Drops(C[n], t)
    BY <2>3, <1>3 DEF Creates, Drops
  <2>5. \A n \in DOMAIN C : C[n].op \in {"drop", "create"}
    BY <2>3
  <2>6. ASSUME NEW n \in DOMAIN C, NEW t \in Tables, Creates(C[n], t), NEW m \in 1..(n - 1)
        PROVE  ~Creates(C[m], t)
    <3>1. m \in DOMAIN C /\ m # n
      BY <2>2, <2>3
    <3>2. O[m] # O[n]
      BY <3>1, <2>3, <1>0 DEF Distinct
    <3> QED
      BY <3>1, <3>2, <2>4, <2>6
  <2>7. ASSUME NEW t \in Tables
        PROVE  \E n \in DOMAIN C :
                   Creates(C[n], t) /\ \A m \in (n + 1)..Len(C) : ~Drops(C[m], t)
    <3>1. PICK n \in DOMAIN O : O[n] = t
      BY <1>0 DEF ToSet
    <3>2. n \in DOMAIN C /\ Creates(C[n], t)
      BY <3>1, <2>3, <2>4
    <3>3. \A m \in (n + 1)..Len(C) : m \in DOMAIN C
      BY <3>1, <2>2, <2>3
    <3> QED
      BY <3>2, <3>3, <2>4
  <2> QED
    BY <2>3, <2>5, <2>6, <2>7 DEF C
<1> QED
  BY <1>5, <1>6

-----------------------------------------------------------------------------
(* What a script executes, whatever its filter.                            *)

\* Every workload's script, with the parts it has.
Parted(i, f, p, u, indexes, keys, statistics, checks) ==
    Sequence(Schema(f), Procedures(f, p), Logging(f, "set_unlogged", u), Load(i, f),
             When(indexes, Indexes(f)), Logging(f, "set_logged", u),
             When(keys, ForeignKeySteps(f)), When(statistics, Analyze(f)),
             When(checks, Step(f, "validate_population", <<Do("validate", <<>>)>>)))

\* The schema's steps have the statements of rank 1.
LEMMA SchemaPart ==
    ASSUME SetupTypeOK, NEW i, NEW f
    PROVE  /\ Schema(f) \in Seq(SetupStatements(i))
           /\ \A n \in DOMAIN Schema(f) : Rank(Schema(f)[n].op) = 1
           /\ \A n \in DOMAIN Schema(f) : Schema(f)[n].op \in Schemas
<1> DEFINE d == Step(f, "drop_schema", DropSchema)
           c == Step(f, "create_schema", CreateSchema)
           S == Schema(f)
<1>1. d \in Seq(SetupStatements(i)) /\ \A n \in DOMAIN d : d[n].op \in Schemas
  <2>1. CASE Enabled(f, "drop_schema")
    <3>1. d = DropSchema
      BY <2>1 DEF Step
    <3> HIDE DEF d
    <3> QED
      BY <3>1, DropSchemaFacts DEF Dropping, Schemas
  <2>2. CASE ~Enabled(f, "drop_schema")
    <3>1. d = <<>>
      BY <2>2 DEF Step
    <3> HIDE DEF d
    <3> QED
      BY <3>1
  <2> QED
    BY <2>1, <2>2
<1>2. c \in Seq(SetupStatements(i)) /\ \A n \in DOMAIN c : c[n].op \in Schemas
  <2>1. CASE Enabled(f, "create_schema")
    <3>1. c = CreateSchema
      BY <2>1 DEF Step
    <3> HIDE DEF c
    <3> QED
      BY <3>1, CreateSchemaFacts DEF Schemas
  <2>2. CASE ~Enabled(f, "create_schema")
    <3>1. c = <<>>
      BY <2>2 DEF Step
    <3> HIDE DEF c
    <3> QED
      BY <3>1
  <2> QED
    BY <2>1, <2>2
<1>3. S = d \o c
  BY DEF Schema
<1> HIDE DEF d, c, S
<1>4. /\ S \in Seq(SetupStatements(i))
      /\ \A n \in DOMAIN S : \/ n \in DOMAIN d /\ S[n] = d[n]
                             \/ n > Len(d) /\ n - Len(d) \in DOMAIN c /\ S[n] = c[n - Len(d)]
  BY <1>1, <1>2, <1>3, Joined
<1>5. \A n \in DOMAIN S : S[n].op \in Schemas
  BY <1>1, <1>2, <1>4
<1>6. \A n \in DOMAIN S : Rank(S[n].op) = 1
  BY <1>5, RankValues DEF Schemas
<1> QED
  BY <1>4, <1>5, <1>6 DEF S

\* The parts of a script, and the statements of those that depend on one another.
PartsFit(i, f, p, u, indexes, keys, statistics, checks) ==
    /\ Part(i, Procedures(f, p), 2)
    /\ Part(i, Logging(f, "set_unlogged", u), 3)
    /\ Part(i, Load(i, f), 4)
    /\ Part(i, When(indexes, Indexes(f)), 5)
    /\ Part(i, Logging(f, "set_logged", u), 6)
    /\ Part(i, When(keys, ForeignKeySteps(f)), 7)
    /\ Part(i, When(statistics, Analyze(f)), 8)
    /\ Part(i, When(checks, Step(f, "validate_population", <<Do("validate", <<>>)>>)), 9)
    /\ \A op, ts : Left(Procedures(f, p), op, ts) => HasProcedures
    /\ \A op, ts : Left(Load(i, f), op, ts) <=>
                      /\ Enabled(f, "load_data") /\ op = "insert"
                      /\ \E t \in ToSet(LoadOrder(i)) : ts = <<t>>
    /\ \A op, ts : Left(Logging(f, "set_unlogged", u), op, ts) => u
    /\ \A t \in Tables : Left(Logging(f, "set_logged", u), "set_logged", <<t>>) <=>
                      u /\ Enabled(f, "set_logged")

\* Every step of a script, at its rank, and what it leaves to do.
LEMMA ScriptParts ==
    ASSUME SetupTypeOK, NEW i \in Instances, NEW f, NEW p, NEW u,
           NEW indexes, NEW keys, NEW statistics, NEW checks
    PROVE  PartsFit(i, f, p, u, indexes, keys, statistics, checks)
<1>0. /\ CreateOrder \in Seq(Tables) /\ Distinct(CreateOrder) /\ ToSet(CreateOrder) = Tables
      /\ LoadOrder(i) \in Seq(Tables) /\ Distinct(LoadOrder(i))
      /\ Indexed \in Seq(Tables) /\ Distinct(Indexed)
  BY CreateOrderFacts, LoadOrderFacts, IndexedFacts DEF Tables
<1>1. /\ Applies(i, "set_unlogged", Tables) /\ Applies(i, "set_logged", Tables)
      /\ Applies(i, "create_index", Tables) /\ Applies(i, "analyze", Tables)
      /\ Applies(i, "insert", ToSet(LoadOrder(i)))
  BY DEF Applies, SetupStatements, OnOneTable, Do
<1>2. /\ Do("create_procedures", <<>>) \in SetupStatements(i)
      /\ Do("validate", <<>>) \in SetupStatements(i)
      /\ Do("create_procedures", <<>>).op = "create_procedures"
      /\ Do("validate", <<>>).op = "validate"
  BY DEF SetupStatements, Do
<1>3. Part(i, Procedures(f, p), 2) /\ \A op, ts : Left(Procedures(f, p), op, ts) => HasProcedures
  <2> DEFINE b == <<Do("create_procedures", <<>>)>>
             s == Step(f, "create_procedures", b)
  <2>1. Part(i, b, 2)
    <3>1. Part(i, b, Rank(Do("create_procedures", <<>>).op))
      BY <1>2, OneStatement
    <3> QED
      BY <3>1, <1>2, RankValues
  <2>2. Procedures(f, p) = When(p /\ HasProcedures, s)
    BY DEF Procedures
  <2> HIDE DEF b
  <2>3. Part(i, s, 2)
    BY <2>1, StepPart, WhenPart
  <2> HIDE DEF s
  <2> DEFINE c == p /\ HasProcedures
  <2>4. c => HasProcedures
    OBVIOUS
  <2>5. Procedures(f, p) = When(c, s)
    BY <2>2
  <2> HIDE DEF c
  <2>6. Part(i, When(c, s), 2) /\ \A op, ts : Left(When(c, s), op, ts) => c
    BY <2>3, StepPart, WhenPart
  <2> QED
    BY <2>4, <2>5, <2>6
<1>4. ASSUME NEW op \in {"set_unlogged", "set_logged"}
      PROVE  /\ Part(i, Logging(f, op, u), Rank(op))
             /\ \A o, ts : Left(Logging(f, op, u), o, ts) <=>
                    u /\ Enabled(f, op) /\ o = op /\ \E t \in Tables : ts = <<t>>
  <2> DEFINE b == Each(op, CreateOrder)
             s == Step(f, op, b)
  <2>1. Applies(i, op, Tables)
    BY <1>1
  <2>2. Part(i, b, Rank(op)) /\ Has(b, op, ToSet(CreateOrder))
    BY <2>1, <1>0, EachPart
  <2>3. Logging(f, op, u) = When(u, s)
    BY DEF Logging
  <2> HIDE DEF b
  <2>4. Part(i, s, Rank(op)) /\ \A o, ts : Left(s, o, ts) <=> Enabled(f, op) /\ Left(b, o, ts)
    BY <2>2, StepPart, WhenPart
  <2> HIDE DEF s
  <2>5. Part(i, When(u, s), Rank(op)) /\ \A o, ts : Left(When(u, s), o, ts) <=> u /\ Left(s, o, ts)
    BY <2>4, StepPart, WhenPart
  <2> QED
    BY <2>2, <2>3, <2>4, <2>5, <1>0 DEF Has
<1>5. Part(i, Load(i, f), 4) /\ \A op, ts : Left(Load(i, f), op, ts) <=>
          Enabled(f, "load_data") /\ op = "insert" /\ \E t \in ToSet(LoadOrder(i)) : ts = <<t>>
  <2> DEFINE O == LoadOrder(i)
             b == Each("insert", O)
  <2>1. O \in Seq(ToSet(O))
    <3>1. O \in Seq(Tables)
      BY <1>0
    <3> HIDE DEF O
    <3> QED
      BY <3>1 DEF ToSet
  <2>2. Applies(i, "insert", ToSet(O)) /\ Distinct(O)
    BY <1>0, <1>1
  <2>3. Load(i, f) = Step(f, "load_data", b)
    BY DEF Load
  <2> HIDE DEF O
  <2>4. Part(i, b, Rank("insert")) /\ Has(b, "insert", ToSet(O))
    BY <2>1, <2>2, EachPart
  <2> HIDE DEF b
  <2>5. Part(i, Step(f, "load_data", b), 4)
        /\ \A o, ts : Left(Step(f, "load_data", b), o, ts)
                          <=> Enabled(f, "load_data") /\ Left(b, o, ts)
    BY <2>4, RankValues, StepPart, WhenPart
  <2> QED
    BY <2>3, <2>4, <2>5 DEF O, Has
<1>6. Part(i, When(indexes, Indexes(f)), 5)
  <2>1. Part(i, Each("create_index", Indexed), 5)
    BY <1>0, <1>1, EachPart, RankValues
  <2>2. Part(i, Indexes(f), 5)
    BY <2>1, StepPart, WhenPart DEF Indexes
  <2> QED
    BY <2>2, StepPart, WhenPart
<1>7. Part(i, When(keys, ForeignKeySteps(f)), 7)
  <2>1. Part(i, ForeignKeySteps(f), 7)
    BY ForeignKeyPart, StepPart, WhenPart DEF ForeignKeySteps
  <2> QED
    BY <2>1, StepPart, WhenPart
<1>8. Part(i, When(statistics, Analyze(f)), 8)
  <2>1. Part(i, Each("analyze", CreateOrder), 8)
    BY <1>0, <1>1, EachPart, RankValues
  <2>2. Part(i, Step(f, "analyze", Each("analyze", CreateOrder)), 8)
    BY <2>1, StepPart, WhenPart
  <2>3. Part(i, Analyze(f), 8)
    BY <2>2, StepPart, WhenPart DEF Analyze
  <2> QED
    BY <2>3, StepPart, WhenPart
<1>9. Part(i, When(checks, Step(f, "validate_population", <<Do("validate", <<>>)>>)), 9)
  <2>1. Part(i, <<Do("validate", <<>>)>>, Rank(Do("validate", <<>>).op))
    BY <1>2, OneStatement
  <2>2. Part(i, <<Do("validate", <<>>)>>, 9)
    BY <2>1, <1>2, RankValues
  <2>3. Part(i, Step(f, "validate_population", <<Do("validate", <<>>)>>), 9)
    BY <2>2, StepPart, WhenPart
  <2> QED
    BY <2>3, StepPart, WhenPart
<1>10. /\ Part(i, Logging(f, "set_unlogged", u), 3)
       /\ \A op, ts : Left(Logging(f, "set_unlogged", u), op, ts) => u
       /\ Part(i, Logging(f, "set_logged", u), 6)
       /\ \A t \in Tables : Left(Logging(f, "set_logged", u), "set_logged", <<t>>) <=>
                             u /\ Enabled(f, "set_logged")
  BY <1>4, RankValues
<1> QED
  BY <1>3, <1>5, <1>6, <1>7, <1>8, <1>9, <1>10 DEF PartsFit

\* What the steps of a script have to do with each other.
ScriptFits(i, f, T) ==
    /\ Stretch(i, Schema(f), T, 9)
    /\ \A ts : Left(T, "create_procedures", ts) => HasProcedures
    /\ \A ts : Left(T, "insert", ts) <=>
                  Enabled(f, "load_data") /\ \E t \in ToSet(LoadOrder(i)) : ts = <<t>>
    /\ \A t \in Tables : Enabled(f, "set_logged") /\ Left(T, "set_unlogged", <<t>>)
                             => Left(T, "set_logged", <<t>>)
    /\ \A op, ts : Left(Schema(f), op, ts) => Left(T, op, ts)

\* The nine steps in their order make a script.
LEMMA PartedFits ==
    ASSUME SetupTypeOK, NEW i \in Instances, NEW f, NEW p, NEW u,
           NEW indexes, NEW keys, NEW statistics, NEW checks
    PROVE  ScriptFits(i, f, Parted(i, f, p, u, indexes, keys, statistics, checks))
<1> DEFINE S == Schema(f)
           a == Procedures(f, p)
           b == Logging(f, "set_unlogged", u)
           c == Load(i, f)
           d == When(indexes, Indexes(f))
           e == Logging(f, "set_logged", u)
           k == When(keys, ForeignKeySteps(f))
           g == When(statistics, Analyze(f))
           h == When(checks, Step(f, "validate_population", <<Do("validate", <<>>)>>))
           T == Sequence(S, a, b, c, d, e, k, g, h)
<1>1. Parted(i, f, p, u, indexes, keys, statistics, checks) = T
  BY DEF Parted
<1>2. /\ Part(i, a, 2) /\ Part(i, b, 3) /\ Part(i, c, 4) /\ Part(i, d, 5) /\ Part(i, e, 6)
      /\ Part(i, k, 7) /\ Part(i, g, 8) /\ Part(i, h, 9)
      /\ \A op, ts : Left(a, op, ts) => HasProcedures
      /\ \A op, ts : Left(c, op, ts) <=> /\ Enabled(f, "load_data") /\ op = "insert"
                                         /\ \E t \in ToSet(LoadOrder(i)) : ts = <<t>>
      /\ \A op, ts : Left(b, op, ts) => u
      /\ \A t \in Tables : Left(e, "set_logged", <<t>>) <=> u /\ Enabled(f, "set_logged")
  <2>1. PartsFit(i, f, p, u, indexes, keys, statistics, checks)
    BY ScriptParts
  <2> QED
    BY <2>1 DEF PartsFit
<1>3. /\ S \in Seq(SetupStatements(i)) /\ (\A n \in DOMAIN S : Rank(S[n].op) = 1)
      /\ \A n \in DOMAIN S : S[n].op \in Schemas
  BY SchemaPart
<1> HIDE DEF S, a, b, c, d, e, k, g, h
<1>4. /\ Stretch(i, S, T, 9)
      /\ \A op, ts : Left(T, op, ts) <=>
            \/ Left(S, op, ts) \/ Left(a, op, ts) \/ Left(b, op, ts) \/ Left(c, op, ts)
            \/ Left(d, op, ts) \/ Left(e, op, ts) \/ Left(k, op, ts) \/ Left(g, op, ts)
            \/ Left(h, op, ts)
  BY <1>2, <1>3, SequenceFacts
<1> HIDE DEF T
<1>5. \A op, ts : /\ Left(S, op, ts) => op \in Schemas
                  /\ Left(a, op, ts) => Rank(op) = 2
                  /\ Left(b, op, ts) => Rank(op) = 3
                  /\ Left(c, op, ts) => Rank(op) = 4
                  /\ Left(d, op, ts) => Rank(op) = 5
                  /\ Left(e, op, ts) => Rank(op) = 6
                  /\ Left(k, op, ts) => Rank(op) = 7
                  /\ Left(g, op, ts) => Rank(op) = 8
                  /\ Left(h, op, ts) => Rank(op) = 9
  <2>1. \A op, ts : Left(S, op, ts) => op \in Schemas
    BY <1>3 DEF Left, Do
  <2> QED
    BY <2>1, <1>2, PartRank
<1>6. \A ts : Left(T, "create_procedures", ts) => HasProcedures
  <2> TAKE ts
  <2>1. Left(T, "create_procedures", ts) => Left(a, "create_procedures", ts)
    BY <1>4, <1>5, RankValues DEF Schemas
  <2> QED
    BY <2>1, <1>2
<1>7. \A ts : Left(T, "insert", ts) <=> Left(c, "insert", ts)
  BY <1>4, <1>5, RankValues DEF Schemas
<1>8. \A ts : Left(T, "insert", ts) <=>
                  Enabled(f, "load_data") /\ \E t \in ToSet(LoadOrder(i)) : ts = <<t>>
  BY <1>2, <1>7
<1>9. ASSUME NEW t \in Tables, Enabled(f, "set_logged"), Left(T, "set_unlogged", <<t>>)
      PROVE  Left(T, "set_logged", <<t>>)
  <2>1. Left(b, "set_unlogged", <<t>>)
    BY <1>4, <1>5, <1>9, RankValues DEF Schemas
  <2>2. Left(e, "set_logged", <<t>>)
    BY <2>1, <1>2, <1>9
  <2> QED
    BY <2>2, <1>4
<1>10. \A op, ts : Left(S, op, ts) => Left(T, op, ts)
  BY <1>4
<1>11. ScriptFits(i, f, T)
  BY <1>4, <1>6, <1>8, <1>9, <1>10 DEF ScriptFits, S
<1> QED
  BY <1>1, <1>11 DEF T

\* So is each workload's script: the steps it leaves out are empty.
LEMMA ScriptParted ==
    ASSUME SetupTypeOK, NEW i \in Instances, NEW f, NEW p, NEW u
    PROVE  ScriptFits(i, f, Script(i, f, p, u))
<1> DEFINE Q == SetupStatements(i)
           S == Schema(f)
           a == Procedures(f, p)
           b == Logging(f, "set_unlogged", u)
           c == Load(i, f)
           d == Indexes(f)
           e == Logging(f, "set_logged", u)
           k == ForeignKeySteps(f)
           g == Analyze(f)
           h == Step(f, "validate_population", <<Do("validate", <<>>)>>)
<1>1. \A x : When(TRUE, x) = x /\ When(FALSE, x) = <<>>
  BY DEF When
<1>2. Logging(f, "set_unlogged", FALSE) = <<>> /\ Logging(f, "set_logged", FALSE) = <<>>
      /\ Procedures(f, FALSE) = <<>>
  BY DEF Logging, Procedures, When
<1>3. /\ S \in Seq(Q) /\ a \in Seq(Q) /\ b \in Seq(Q) /\ c \in Seq(Q) /\ e \in Seq(Q)
      /\ d \in Seq(Q) /\ k \in Seq(Q) /\ g \in Seq(Q) /\ h \in Seq(Q)
  <2>1. /\ Part(i, When(TRUE, d), 5) /\ Part(i, When(TRUE, k), 7) /\ Part(i, When(TRUE, g), 8)
        /\ Part(i, When(TRUE, h), 9) /\ Part(i, a, 2) /\ Part(i, b, 3) /\ Part(i, c, 4)
        /\ Part(i, e, 6)
    <3>1. PartsFit(i, f, p, u, TRUE, TRUE, TRUE, TRUE)
      BY ScriptParts
    <3> QED
      BY <3>1 DEF PartsFit
  <2> HIDE DEF a, b, c, d, e, k, g, h, Q
  <2>2. /\ Part(i, d, 5) /\ Part(i, k, 7) /\ Part(i, g, 8) /\ Part(i, h, 9)
    BY <2>1, <1>1
  <2>3. \A x, r : Part(i, x, r) => x \in Seq(Q)
    BY DEF Part, Q
  <2>4. S \in Seq(Q)
    BY SchemaPart DEF Q
  <2> QED
    BY <2>1, <2>2, <2>3, <2>4
<1>4. \A x \in Seq(Q) : x \o <<>> = x
  BY JoinNothing
<1>5. \A x \in Seq(Q), y \in Seq(Q) : x \o y \in Seq(Q)
  OBVIOUS
<1>6. CASE workload = "tpcc"
  <2>1. Script(i, f, p, u) = TpccSteps(i, f, p, u)
    BY <1>6 DEF Script
  <2>2. TpccSteps(i, f, p, u) = Parted(i, f, p, u, TRUE, TRUE, TRUE, TRUE)
    BY <1>1 DEF TpccSteps, Parted, Sequence
  <2> QED
    BY <2>1, <2>2, PartedFits
<1>7. CASE workload = "tpcb"
  <2>1. Script(i, f, p, u) = TpcbSteps(i, f, p)
    BY <1>7 DEF Script
  <2>2. TpcbSteps(i, f, p) = S \o a \o c \o d \o k \o g
    BY DEF TpcbSteps
  <2>3. Parted(i, f, p, FALSE, TRUE, TRUE, TRUE, FALSE)
            = S \o a \o <<>> \o c \o d \o <<>> \o k \o g \o <<>>
    BY <1>1, <1>2 DEF Parted, Sequence
  <2> HIDE DEF S, a, c, d, k, g, Q
  <2>4. (S \o a) \o <<>> = S \o a
    BY <1>3, <1>4, <1>5
  <2>5. (S \o a \o c \o d) \o <<>> = S \o a \o c \o d
    BY <1>3, <1>4, <1>5
  <2>6. (S \o a \o c \o d \o k \o g) \o <<>> = S \o a \o c \o d \o k \o g
    BY <1>3, <1>4, <1>5
  <2>7. TpcbSteps(i, f, p) = Parted(i, f, p, FALSE, TRUE, TRUE, TRUE, FALSE)
    BY <2>2, <2>3, <2>4, <2>5, <2>6
  <2> QED
    BY <2>1, <2>7, PartedFits
<1>8. CASE workload \in {"tpch", "tpcds"}
  <2>1. Script(i, f, p, u) = S \o b \o c \o d \o e \o g
    BY <1>8 DEF Script, TpchSteps, TpcdsSteps
  <2>2. Parted(i, f, FALSE, u, TRUE, FALSE, TRUE, FALSE)
            = S \o <<>> \o b \o c \o d \o e \o <<>> \o g \o <<>>
    BY <1>1, <1>2 DEF Parted, Sequence
  <2> HIDE DEF S, b, c, d, e, g, Q
  <2>3. S \o <<>> = S
    BY <1>3, <1>4
  <2>4. (S \o b \o c \o d \o e) \o <<>> = S \o b \o c \o d \o e
    BY <1>3, <1>4, <1>5
  <2>5. (S \o b \o c \o d \o e \o g) \o <<>> = S \o b \o c \o d \o e \o g
    BY <1>3, <1>4, <1>5
  <2>6. Script(i, f, p, u) = Parted(i, f, FALSE, u, TRUE, FALSE, TRUE, FALSE)
    BY <2>1, <2>2, <2>3, <2>4, <2>5
  <2> QED
    BY <2>6, PartedFits
<1>9. CASE workload = "simple"
  <2>1. Script(i, f, p, u) = S \o c
    BY <1>9 DEF Script, SimpleSteps
  <2>2. Parted(i, f, FALSE, FALSE, FALSE, FALSE, FALSE, FALSE)
            = S \o <<>> \o <<>> \o c \o <<>> \o <<>> \o <<>> \o <<>> \o <<>>
    BY <1>1, <1>2 DEF Parted, Sequence
  <2> HIDE DEF S, c, Q
  <2>3. S \o <<>> = S
    BY <1>3, <1>4
  <2>4. (S \o c) \o <<>> = S \o c
    BY <1>3, <1>4, <1>5
  <2>5. Script(i, f, p, u) = Parted(i, f, FALSE, FALSE, FALSE, FALSE, FALSE, FALSE)
    BY <2>1, <2>2, <2>3, <2>4
  <2> QED
    BY <2>5, PartedFits
<1> QED
  BY <1>6, <1>7, <1>8, <1>9 DEF SetupTypeOK, Workloads

-----------------------------------------------------------------------------
(* A script that drops and creates the schema fits any database.           *)

\* A script that drops and creates the schema fits whatever database it finds.
LEMMA LaysOutSchema ==
    ASSUME SetupTypeOK, NEW i \in Instances, NEW f,
           Enabled(f, "drop_schema"), Enabled(f, "create_schema"),
           NEW T, ScriptFits(i, f, T)
    PROVE  /\ T \in Seq(SetupStatements(i)) /\ Ordered(T)
           /\ SchemaFits(T)
           /\ \A t \in Tables : WillDrop(T, t)
           /\ KeysFit(T)
           /\ ProceduresFit(T)
<1> DEFINE D == DropSchema
           C == CreateSchema
           S == Schema(f)
           p == Len(D)
           Q == SetupStatements(i)
<1>1. S = D \o C
  BY DEF Schema, Step
<1>2. /\ Dropping(i, D)
      /\ \A t \in Tables : WillDrop(D, t)
      /\ driverType = "mysql" =>
             \A fk \in ToSet(ForeignKeys) : \A n \in DOMAIN D :
                 Drops(D[n], fk[2]) => \E m \in 1..n : Drops(D[m], fk[1])
      /\ driverType = "mysql" /\ HasProcedures => Left(D, "drop_procedures", <<>>)
  BY DropSchemaFacts
<1>3. /\ C \in Seq(Q)
      /\ \A n \in DOMAIN C : C[n].op \in {"drop", "create"}
      /\ \A n \in DOMAIN C, t \in Tables :
             Creates(C[n], t) => \A m \in 1..(n - 1) : ~Creates(C[m], t)
      /\ \A t \in Tables : \E n \in DOMAIN C :
             Creates(C[n], t) /\ \A m \in (n + 1)..Len(C) : ~Drops(C[m], t)
  BY CreateSchemaFacts
<1>4. /\ Stretch(i, S, T, 9)
      /\ \A ts : Left(T, "create_procedures", ts) => HasProcedures
      /\ \A op, ts : Left(S, op, ts) => Left(T, op, ts)
  BY DEF ScriptFits
<1>5. /\ T \in Seq(Q) /\ Ordered(T) /\ Len(S) <= Len(T)
      /\ \A n \in DOMAIN S : T[n] = S[n]
      /\ \A n \in DOMAIN T : n > Len(S) => Rank(T[n].op) > 1
  BY <1>4 DEF Stretch
<1> HIDE DEF D, C, S, Q, p
<1>6. D \in Seq(Q) /\ \A n \in DOMAIN D : D[n].op \in {"drop", "drop_procedures"}
  BY <1>2 DEF Dropping, Q
<1>7. /\ p \in Nat /\ Len(C) \in Nat /\ Len(S) = p + Len(C) /\ S \in Seq(Q)
      /\ DOMAIN D = 1..p /\ DOMAIN C = 1..Len(C) /\ DOMAIN S = 1..(p + Len(C))
      /\ \A n \in DOMAIN D : n \in DOMAIN S /\ S[n] = D[n]
      /\ \A n \in DOMAIN C : n + p \in DOMAIN S /\ S[n + p] = C[n]
      /\ \A n \in DOMAIN S : \/ n \in DOMAIN D /\ S[n] = D[n]
                             \/ n > p /\ n - p \in DOMAIN C /\ S[n] = C[n - p]
  BY <1>1, <1>3, <1>6, Joined DEF p
<1>8. DOMAIN T = 1..Len(T) /\ Len(T) \in Nat
  BY <1>5
<1>9. /\ \A n \in DOMAIN D : n \in DOMAIN T /\ T[n] = D[n]
      /\ \A n \in DOMAIN C : n + p \in DOMAIN T /\ T[n + p] = C[n]
      /\ \A n \in DOMAIN T : \/ n \in DOMAIN D /\ T[n] = D[n]
                             \/ n > p /\ n - p \in DOMAIN C /\ T[n] = C[n - p]
                             \/ n > p + Len(C) /\ Rank(T[n].op) > 1
  <2>1. \A n \in DOMAIN S : n \in DOMAIN T
    BY <1>5, <1>7, <1>8
  <2>2. \A n \in DOMAIN T : n \in DOMAIN S \/ n > Len(S)
    BY <1>7, <1>8
  <2> QED
    BY <2>1, <2>2, <1>5, <1>7
<1>10. \A n \in DOMAIN T : Rank(T[n].op) > 1 => T[n].op # "drop" /\ T[n].op # "create"
  BY RankValues
<1>11. \A t \in Tables : \E n \in DOMAIN D : Drops(T[n], t)
  BY <1>2, <1>9 DEF WillDrop
<1>12. \A t \in Tables : WillDrop(T, t)
  BY <1>9, <1>11 DEF WillDrop
<1>13. \A n \in DOMAIN D, t \in Tables : ~Creates(T[n], t)
  BY <1>6, <1>9 DEF Creates
<1>14. \A n \in DOMAIN T, t \in Tables :
           Creates(T[n], t) => n > p /\ n - p \in DOMAIN C /\ T[n] = C[n - p]
  BY <1>9, <1>10, <1>13 DEF Creates
<1>15. ASSUME NEW n \in DOMAIN T, NEW t \in Tables, Creates(T[n], t)
       PROVE  /\ \A m \in 1..(n - 1) : ~Creates(T[m], t)
              /\ \E m \in 1..(n - 1) : Drops(T[m], t)
  <2>1. n \in Nat /\ n > p /\ n - p \in DOMAIN C /\ Creates(C[n - p], t)
    BY <1>8, <1>14, <1>15
  <2>2. ASSUME NEW m \in 1..(n - 1), Creates(T[m], t) PROVE FALSE
    <3>1. m \in DOMAIN T
      BY <1>8, <2>1
    <3>2. m > p /\ m - p \in DOMAIN C /\ Creates(C[m - p], t)
      BY <3>1, <2>2, <1>14
    <3>3. m - p \in 1..((n - p) - 1)
      BY <3>2, <2>1, <1>7
    <3> QED
      BY <3>2, <3>3, <2>1, <1>3
  <2>3. PICK m \in DOMAIN D : Drops(T[m], t)
    BY <1>11
  <2>4. m \in 1..(n - 1)
    BY <2>1, <2>3, <1>7
  <2> QED
    BY <2>2, <2>3, <2>4
<1>16. ASSUME NEW t \in Tables
       PROVE  \E n \in DOMAIN T : Creates(T[n], t) /\ \A m \in (n + 1)..Len(T) : ~Drops(T[m], t)
  <2>1. PICK n \in DOMAIN C : Creates(C[n], t) /\ \A m \in (n + 1)..Len(C) : ~Drops(C[m], t)
    BY <1>3
  <2>2. n + p \in DOMAIN T /\ Creates(T[n + p], t) /\ n \in Nat
    BY <2>1, <1>7, <1>9
  <2>3. ASSUME NEW m \in ((n + p) + 1)..Len(T), Drops(T[m], t) PROVE FALSE
    <3>1. m \in DOMAIN T /\ m \notin DOMAIN D
      BY <2>2, <1>7, <1>8
    <3>2. CASE m - p \in DOMAIN C /\ T[m] = C[m - p]
      <4>1. m - p \in (n + 1)..Len(C)
        BY <3>2, <2>2, <1>7
      <4> QED
        BY <4>1, <3>2, <2>1, <2>3
    <3>3. CASE Rank(T[m].op) > 1
      BY <3>1, <3>3, <2>3, <1>10 DEF Drops
    <3> QED
      BY <3>1, <3>2, <3>3, <1>9
  <2> QED
    BY <2>2, <2>3
<1>17. SchemaFits(T)
  BY <1>15, <1>16 DEF SchemaFits
<1>18. ASSUME driverType = "mysql", NEW fk \in db.fks, NEW n \in DOMAIN T, Drops(T[n], fk[2])
       PROVE  \E m \in 1..n : Drops(T[m], fk[1])
  <2>1. fk \in ToSet(ForeignKeys)
    BY DEF SetupTypeOK, DatabaseOK
  <2>2. fk[1] \in Tables
    BY <2>1, ForeignKeyShape
  <2>3. n \in Nat
    BY <1>8
  <2>4. CASE n \in DOMAIN D /\ T[n] = D[n]
    <3>1. PICK m \in 1..n : Drops(D[m], fk[1])
      BY <2>1, <2>4, <1>2, <1>18
    <3>2. m \in DOMAIN D
      BY <3>1, <2>3, <2>4, <1>7
    <3> QED
      BY <3>1, <3>2, <1>9
  <2>5. CASE n > p
    <3>1. PICK m \in DOMAIN D : Drops(T[m], fk[1])
      BY <2>2, <1>11
    <3>2. m \in 1..n
      BY <3>1, <2>3, <2>5, <1>7
    <3> QED
      BY <3>1, <3>2
  <2>6. n \in DOMAIN D \/ n > p
    BY <1>7, <1>8
  <2> QED
    BY <2>4, <2>5, <2>6, <1>9
<1>19. \A fk \in db.fks : fk[1] \in Tables
  BY ForeignKeyShape DEF SetupTypeOK, DatabaseOK
<1>20. KeysFit(T)
  BY <1>12, <1>18, <1>19 DEF KeysFit
<1>21. ProceduresFit(T)
  <2>1. \A op, ts : Left(D, op, ts) => Left(S, op, ts)
    BY <1>1, <1>3, <1>6, LeftJoin
  <2>2. driverType = "mysql" /\ Left(T, "create_procedures", <<>>) => Left(T, "drop_procedures", <<>>)
    BY <2>1, <1>2, <1>4
  <2> QED
    BY <2>2 DEF ProceduresFit
<1> QED
  BY <1>5, <1>12, <1>17, <1>20, <1>21 DEF Q

-----------------------------------------------------------------------------
(* Type correctness.                                                       *)

\* A database whose contents change keeps its parts.
LEMMA NewContents ==
    ASSUME DatabaseOK, UNCHANGED env, NEW R, R = [t \in Tables |-> R[t]],
           db' = [db EXCEPT !.rows = R]
    PROVE  DatabaseOK'
<1>1. Tables' = Tables /\ ForeignKeys' = ForeignKeys
  BY SameWorkload
<1>2. /\ db' = [exist |-> db'.exist, rows |-> db'.rows, twice |-> db'.twice,
                unlogged |-> db'.unlogged, indexed |-> db'.indexed, fks |-> db'.fks,
                procs |-> db'.procs]
      /\ db'.exist = db.exist /\ db'.unlogged = db.unlogged /\ db'.fks = db.fks
      /\ db'.procs = db.procs /\ db'.rows = R
  BY DEF DatabaseOK
<1> QED
  BY <1>1, <1>2 DEF DatabaseOK

\* A statement keeps the database's type.
LEMMA ExecutedOK ==
    ASSUME DatabaseOK, UNCHANGED env, NEW i, NEW s, Executes(i, s, db, db')
    PROVE  DatabaseOK'
<1>1. Tables' = Tables /\ ForeignKeys' = ForeignKeys
  BY SameWorkload
<1>2. /\ Parts(db') /\ db'.rows = [t \in Tables |-> db'.rows[t]]
      /\ db'.exist \subseteq Tables /\ db'.unlogged \subseteq Tables
      /\ db'.fks \subseteq db.fks \cup ToSet(ForeignKeys) /\ db'.procs \in BOOLEAN
  BY DEF Executes
<1>3. db'.fks \subseteq ToSet(ForeignKeys)
  BY <1>2 DEF DatabaseOK
<1> QED
  BY <1>1, <1>2, <1>3 DEF DatabaseOK, Parts

\* An insert keeps the database's type.
LEMMA StoredOK ==
    ASSUME DatabaseOK, UNCHANGED env, NEW i, NEW t \in Tables, NEW C, db' = Stored(i, t, C)
    PROVE  DatabaseOK'
<1>1. Tables' = Tables /\ ForeignKeys' = ForeignKeys
  BY SameWorkload
<1> DEFINE e == Stored(i, t, C)
           W == Written(ChunksOf(i, t, C), db.rows[t])
<1>2. /\ Parts(e) /\ e.exist = db.exist /\ e.unlogged = db.unlogged
      /\ e.fks = db.fks /\ e.procs = db.procs
      /\ e.rows = [u \in Tables |-> IF u = t THEN W ELSE db.rows[u]]
  BY StoredFields
<1>3. db' = e
  OBVIOUS
<1> HIDE DEF e, W
<1>4. e.rows = [u \in Tables |-> e.rows[u]]
  BY <1>2
<1> QED
  BY <1>1, <1>2, <1>3, <1>4 DEF DatabaseOK, Parts

\* Dropping every table keeps the database's type.
LEMMA DroppedOK ==
    ASSUME DatabaseOK, UNCHANGED env, db' = Dropped(db, Tables)
    PROVE  DatabaseOK'
<1>1. Tables' = Tables /\ ForeignKeys' = ForeignKeys
  BY SameWorkload
<1> DEFINE e == Dropped(db, Tables)
<1>2. Parts(db)
  BY DEF DatabaseOK, Parts
<1>3. /\ Parts(e) /\ e.exist = db.exist \ Tables /\ e.unlogged = db.unlogged \ Tables
      /\ e.procs = db.procs
      /\ e.fks = {fk \in db.fks : {fk[1], fk[2]} \cap Tables = {}}
      /\ e.rows = [t \in DOMAIN db.rows |-> IF t \in Tables THEN EmptyTable ELSE db.rows[t]]
  BY <1>2, DroppedFields
<1>4. db' = e
  OBVIOUS
<1> HIDE DEF e
<1>5. DOMAIN db.rows = Tables
  BY DEF DatabaseOK
<1>6. e.rows = [t \in Tables |-> e.rows[t]]
  BY <1>3, <1>5
<1>7. e.fks \subseteq db.fks
  BY <1>3
<1> QED
  BY <1>1, <1>3, <1>4, <1>6, <1>7 DEF DatabaseOK, Parts

\* A database that does not change keeps its type.
LEMMA SameDatabase ==
    ASSUME DatabaseOK, UNCHANGED env, db' = db
    PROVE  DatabaseOK'
<1>1. Tables' = Tables /\ ForeignKeys' = ForeignKeys
  BY SameWorkload
<1> QED
  BY <1>1 DEF DatabaseOK

\* A transaction keeps the database's type.
LEMMA TransactionOK ==
    ASSUME SetupTypeOK, UNCHANGED env, NEW i \in Instances,
           \/ workload = "tpcb" /\ TpcbTransaction(i)
           \/ workload = "tpcc" /\ TpccTransaction(i)
           \/ workload \in {"tpch", "tpcds"} /\ ReadQueries(i)
           \/ workload = "simple" /\ ReadDemo(i)
    PROVE  DatabaseOK' /\ hid' \in [Instances -> Nat]
<1>1. /\ DatabaseOK /\ hid \in [Instances -> Nat]
      /\ [hid EXCEPT ![i] = @ + 1] \in [Instances -> Nat]
      /\ db.rows = [t \in Tables |-> db.rows[t]]
  BY DEF SetupTypeOK, DatabaseOK
<1>2. CASE workload = "tpcb" /\ TpcbTransaction(i)
  <2>0. PICK n : db' = db \/ db' = [db EXCEPT !.rows = WithHistory(i, @, n)]
    BY <1>2 DEF TpcbTransaction
  <2> DEFINE R == WithHistory(i, db.rows, n)
  <2>1. R = [t \in Tables |-> R[t]]
    <3> DEFINE X == Written(OneRow(HistoryId(i), n), db.rows[History])
    <3>1. R = [db.rows EXCEPT ![History] = X]
      BY DEF WithHistory
    <3> HIDE DEF R, X
    <3> QED
      BY <3>1, <1>1
  <2>2. db' = db \/ db' = [db EXCEPT !.rows = R]
    BY <2>0
  <2> HIDE DEF R
  <2>3. DatabaseOK'
    BY <2>1, <2>2, <1>1, NewContents, SameDatabase
  <2> QED
    BY <2>3, <1>1, <1>2 DEF TpcbTransaction
<1>3. CASE workload = "tpcc" /\ TpccTransaction(i)
  <2>1. PICK k : Payment(i, k) \/ NewOrder(i, k) \/ Delivery(i, k)
    BY <1>3 DEF TpccTransaction
  <2>2. CASE Payment(i, k)
    <3> DEFINE P == WithPayment(k, db.rows)
               R == WithHistory(i, P, 0)
    <3>1. R = [t \in Tables |-> R[t]]
      <4> DEFINE X == Written(OneRow(HistoryId(i), 0), P[History])
      <4>1. R = [P EXCEPT ![History] = X]
        BY DEF WithHistory
      <4>2. P = [t \in Tables |-> P[t]]
        BY <1>1 DEF WithPayment
      <4> HIDE DEF P, R, X
      <4> QED
        BY <4>1, <4>2
    <3> HIDE DEF P
    <3>2. db' = db \/ db' = [db EXCEPT !.rows = R]
      BY <2>2 DEF Payment, P
    <3> HIDE DEF R
    <3>3. DatabaseOK'
      BY <3>1, <3>2, <1>1, NewContents, SameDatabase
    <3> QED
      BY <3>3, <2>2, <1>1 DEF Payment
  <2>3. CASE NewOrder(i, k)
    <3> DEFINE R == WithOrder(k, db.rows)
    <3>1. db' = db \/ db' = [db EXCEPT !.rows = R]
      BY <2>3 DEF NewOrder
    <3>2. R = [t \in Tables |-> R[t]]
      BY <1>1 DEF WithOrder
    <3> HIDE DEF R
    <3>3. DatabaseOK'
      BY <3>1, <3>2, <1>1, NewContents, SameDatabase
    <3> QED
      BY <3>3, <2>3, <1>1 DEF NewOrder
  <2>4. CASE Delivery(i, k)
    <3> DEFINE R == WithDelivery(k, db.rows)
    <3>1. db' = db \/ db' = [db EXCEPT !.rows = R]
      BY <2>4 DEF Delivery
    <3>2. R = [t \in Tables |-> R[t]]
      BY <1>1 DEF WithDelivery
    <3> HIDE DEF R
    <3>3. DatabaseOK'
      BY <3>1, <3>2, <1>1, NewContents, SameDatabase
    <3> QED
      BY <3>3, <2>4, <1>1 DEF Delivery
  <2> QED
    BY <2>1, <2>2, <2>3, <2>4
<1>4. CASE ReadQueries(i) \/ ReadDemo(i)
  BY <1>1, <1>4, SameDatabase DEF ReadQueries, ReadDemo
<1> QED
  BY <1>2, <1>3, <1>4

\* A step that keeps the workload, and the types of the instances' state, keeps all.
TypesOf ==
    /\ phase' \in [Instances -> {"idle", "setup", "measure", "teardown"}]
    /\ filter' = [j \in Instances |-> filter'[j]]
    /\ verdict' = [j \in Instances |-> verdict'[j]]
    /\ hid' \in [Instances -> Nat]
    /\ ran' \in [Instances -> Nat]
    /\ alone' \in [Instances -> BOOLEAN]

\* The types of the parts are the type of the state.
LEMMA SetupTypesKept ==
    ASSUME SetupTypeOK, UNCHANGED env, DatabaseOK', TypesOf,
           todo' = [j \in Instances |-> todo'[j]],
           \A j \in Instances : todo'[j] \in Seq(SetupStatements(j))
    PROVE  SetupTypeOK'
<1>1. /\ workload' = workload /\ driverType' = driverType
      /\ \A j : SetupStatements(j)' = SetupStatements(j)
  BY SameWorkload
<1>2. \A j \in Instances : todo'[j] \in Seq(SetupStatements(j)')
  BY <1>1
<1>3. <<workload', driverType'>> \in Workloads \X DriverTypes
  BY <1>1 DEF SetupTypeOK
<1> QED
  BY <1>2, <1>3 DEF SetupTypeOK, TypesOf

\* The rest of a statement's step: the script is the statement shorter, or given up.
LEMMA ScriptTypesKept ==
    ASSUME SetupTypeOK, NEW i \in Instances, UNCHANGED process,
           \/ UNCHANGED <<todo, phase, verdict>>
           \/ StepDone(i) /\ todo[i] # <<>>
           \/ \E v : StepFails(i, v)
    PROVE  /\ TypesOf
           /\ todo' = [j \in Instances |-> todo'[j]]
           /\ \A j \in Instances : todo'[j] \in Seq(SetupStatements(j))
<1>1. /\ todo = [j \in Instances |-> todo[j]] /\ verdict = [j \in Instances |-> verdict[j]]
      /\ phase \in [Instances -> {"idle", "setup", "measure", "teardown"}]
      /\ \A j \in Instances : todo[j] \in Seq(SetupStatements(j))
  BY DEF SetupTypeOK
<1>2. alone' \in [Instances -> BOOLEAN]
  BY Zenon DEF SetupTypeOK, process
<1>3. /\ filter' = [j \in Instances |-> filter'[j]]
      /\ hid' \in [Instances -> Nat] /\ ran' \in [Instances -> Nat]
  BY DEF SetupTypeOK, process
<1>4. CASE UNCHANGED <<todo, phase, verdict>>
  BY <1>1, <1>2, <1>3, <1>4 DEF TypesOf
<1>5. CASE StepDone(i) /\ todo[i] # <<>>
  <2>1. Tail(todo[i]) \in Seq(SetupStatements(i))
    BY <1>1, <1>5, TailOf
  <2>2. todo' = [todo EXCEPT ![i] = Tail(todo[i])] /\ UNCHANGED <<phase, verdict>>
    BY <1>5 DEF StepDone
  <2>3. \A j \in Instances : todo'[j] = IF j = i THEN Tail(todo[i]) ELSE todo[j]
    BY <1>1, <2>2
  <2>4. todo' = [j \in Instances |-> todo'[j]]
    BY <1>1, <2>2
  <2>5. \A j \in Instances : todo'[j] \in Seq(SetupStatements(j))
    BY <1>1, <2>1, <2>3
  <2> QED
    BY <1>1, <1>2, <1>3, <2>2, <2>4, <2>5 DEF TypesOf
<1>6. CASE \E v : StepFails(i, v)
  <2>1. PICK v : StepFails(i, v)
    BY <1>6
  <2>2. /\ todo' = [todo EXCEPT ![i] = <<>>]
        /\ phase' = [phase EXCEPT ![i] = "teardown"]
        /\ verdict' = [verdict EXCEPT ![i] = v]
    BY <2>1 DEF StepFails, Fail, Enter
  <2>3. \A j \in Instances : todo'[j] = IF j = i THEN <<>> ELSE todo[j]
    BY <1>1, <2>2
  <2>4. <<>> \in Seq(SetupStatements(i))
    OBVIOUS
  <2>5. \A j \in Instances : todo'[j] \in Seq(SetupStatements(j))
    BY <1>1, <2>3, <2>4
  <2>6. /\ todo' = [j \in Instances |-> todo'[j]]
        /\ verdict' = [j \in Instances |-> verdict'[j]]
        /\ phase' \in [Instances -> {"idle", "setup", "measure", "teardown"}]
    BY <1>1, <2>2
  <2> QED
    BY <1>2, <1>3, <2>5, <2>6 DEF TypesOf
<1> QED
  BY <1>4, <1>5, <1>6

\* The head of a script left to run.
LEMMA RunningHead ==
    ASSUME SetupTypeOK, NEW i \in Instances, Running(i)
    PROVE  /\ todo[i] # <<>> /\ todo[i] \in Seq(SetupStatements(i))
           /\ Head(todo[i]) \in SetupStatements(i)
           /\ Head(todo[i]).op = "insert" =>
                  /\ Head(todo[i]).tables[1] \in Tables
                  /\ Head(todo[i]) = Do("insert", <<Head(todo[i]).tables[1]>>)
<1>1. /\ todo[i] # <<>> /\ todo[i] \in Seq(SetupStatements(i))
  BY DEF Running, SetupTypeOK
<1>2. Head(todo[i]) \in SetupStatements(i)
  BY <1>1, TailOf
<1>3. ASSUME Head(todo[i]).op = "insert"
      PROVE  /\ Head(todo[i]).tables[1] \in Tables
             /\ Head(todo[i]) = Do("insert", <<Head(todo[i]).tables[1]>>)
  <2> DEFINE h == Head(todo[i])
  <2>1. h = Do(h.op, h.tables)
    BY <1>2, StatementShape
  <2>2. h.op = "insert" => \E t \in ToSet(LoadOrder(i)) : h.tables = <<t>>
    BY <1>2, StatementShape
  <2> HIDE DEF h
  <2>3. PICK t \in ToSet(LoadOrder(i)) : h.tables = <<t>>
    BY <1>3, <2>2 DEF h
  <2>4. LoadOrder(i) \in Seq(Tables)
    BY LoadOrderFacts
  <2>5. t \in Tables
    BY <2>4 DEF ToSet
  <2>6. h.tables[1] = t /\ h.tables = <<h.tables[1]>>
    BY <2>3
  <2>7. h.op = "insert"
    BY <1>3 DEF h
  <2>8. h = Do("insert", <<h.tables[1]>>)
    BY <2>1, <2>6, <2>7
  <2> QED
    BY <2>5, <2>6, <2>8 DEF h
<1> QED
  BY <1>1, <1>2, <1>3

\* A statement, done or failed, keeps the types.
LEMMA StatementTypes ==
    ASSUME SetupTypeOK, NEW i \in Instances,
           ExecStatement(i) \/ StatementFails(i) \/ InsertTable(i) \/ Validate(i)
    PROVE  SetupTypeOK'
<1>1. /\ UNCHANGED env /\ UNCHANGED process /\ Running(i)
      /\ StepDone(i) \/ \E v : StepFails(i, v)
  BY DEF ExecStatement, StatementFails, InsertTable, InsertFails, Validate
<1>2. DatabaseOK /\ todo[i] # <<>> /\ Head(todo[i]) \in SetupStatements(i)
  BY <1>1, RunningHead DEF SetupTypeOK
<1>3. /\ TypesOf
      /\ todo' = [j \in Instances |-> todo'[j]]
      /\ \A j \in Instances : todo'[j] \in Seq(SetupStatements(j))
  BY <1>1, <1>2, ScriptTypesKept
<1>4. CASE db' = db
  <2>1. DatabaseOK'
    BY <1>1, <1>2, <1>4, SameDatabase
  <2> QED
    BY <1>1, <1>3, <2>1, SetupTypesKept
<1>5. CASE db' # db /\ (ExecStatement(i) \/ StatementFails(i))
  <2> DEFINE s == Head(todo[i])
  <2>1. db' = Effect(s) /\ s.op \notin {"insert", "validate"}
    BY <1>5 DEF ExecStatement, StatementFails
  <2>2. Executes(i, s, db, db')
    <3>1. Executes(i, s, db, Effect(s))
      BY <1>2, <2>1, EffectExecutes
    <3> QED
      BY <2>1, <3>1
  <2>3. DatabaseOK'
    BY <1>1, <1>2, <2>2, ExecutedOK
  <2> QED
    BY <1>1, <1>3, <2>3, SetupTypesKept
<1>6. CASE db' # db /\ InsertTable(i)
  <2> DEFINE t == Head(todo[i]).tables[1]
  <2>1. PICK C : db' = Stored(i, t, C)
    BY <1>6 DEF InsertTable
  <2>2. t \in Tables
    BY <1>1, <1>6, RunningHead DEF InsertTable
  <2>3. DatabaseOK'
    BY <1>1, <1>2, <2>1, <2>2, StoredOK
  <2> QED
    BY <1>1, <1>3, <2>3, SetupTypesKept
<1>7. Validate(i) => db' = db
  BY DEF Validate
<1> QED
  BY <1>4, <1>5, <1>6, <1>7

\* A command that starts keeps the types: its script is one of statements.
LEMMA StartTypes ==
    ASSUME SetupTypeOK, NEW i \in Instances, StartCommand(i)
    PROVE  SetupTypeOK'
<1>1. PICK f \in Filters, v \in Variants :
          LET invalid == v[1] /\ ~ProcsSupported
          IN  /\ Admissible(i, f)
              /\ filter' = [filter EXCEPT ![i] = f]
              /\ todo' = [todo EXCEPT ![i] = IF invalid THEN <<>> ELSE Script(i, f, v[1], v[2])]
              /\ verdict' = [verdict EXCEPT ![i] = IF invalid THEN "invalid" ELSE "none"]
              /\ Enter(i, IF invalid THEN "teardown" ELSE "setup")
  BY DEF StartCommand
<1> DEFINE T == IF v[1] /\ ~ProcsSupported THEN <<>> ELSE Script(i, f, v[1], v[2])
<1>2. T \in Seq(SetupStatements(i))
  <2>1. ScriptFits(i, f, Script(i, f, v[1], v[2]))
    BY ScriptParted
  <2>2. Script(i, f, v[1], v[2]) \in Seq(SetupStatements(i))
    BY <2>1 DEF ScriptFits, Stretch
  <2> QED
    BY <2>2
<1>3. /\ UNCHANGED env /\ db' = db /\ DatabaseOK
      /\ hid' = [hid EXCEPT ![i] = 0] /\ ran' = [ran EXCEPT ![i] = 0]
      /\ todo' = [todo EXCEPT ![i] = T]
  BY <1>1 DEF StartCommand, env, SetupTypeOK
<1> HIDE DEF T
<1>4. DatabaseOK'
  BY <1>3, SameDatabase
<1>5. /\ todo = [j \in Instances |-> todo[j]]
      /\ \A j \in Instances : todo[j] \in Seq(SetupStatements(j))
  BY DEF SetupTypeOK
<1>6. /\ todo' = [j \in Instances |-> todo'[j]]
      /\ \A j \in Instances : todo'[j] \in Seq(SetupStatements(j))
  <2>1. todo' = [j \in Instances |-> todo'[j]]
    BY <1>3, <1>5
  <2>2. \A j \in Instances : todo'[j] = IF j = i THEN T ELSE todo[j]
    BY <1>3, <1>5
  <2> QED
    BY <1>2, <1>5, <2>1, <2>2
<1>7. alone' \in [Instances -> BOOLEAN]
  <2>1. /\ alone \in [Instances -> BOOLEAN]
        /\ alone' = [j \in Instances |-> IF j = i THEN \A k \in Instances : Idle(k)
                                                  ELSE alone[j] /\ Idle(j)]
    BY DEF StartCommand, SetupTypeOK
  <2> QED
    BY <2>1, Zenon
<1>8. /\ hid' \in [Instances -> Nat] /\ ran' \in [Instances -> Nat]
      /\ filter' = [j \in Instances |-> filter'[j]]
      /\ verdict' = [j \in Instances |-> verdict'[j]]
      /\ phase' \in [Instances -> {"idle", "setup", "measure", "teardown"}]
  <2>1. /\ hid' \in [Instances -> Nat] /\ ran' \in [Instances -> Nat]
    BY <1>3 DEF SetupTypeOK
  <2>2. filter' = [j \in Instances |-> filter'[j]]
    BY <1>1 DEF SetupTypeOK
  <2> DEFINE w == IF v[1] /\ ~ProcsSupported THEN "invalid" ELSE "none"
             p == IF v[1] /\ ~ProcsSupported THEN "teardown" ELSE "setup"
  <2>3. verdict' = [verdict EXCEPT ![i] = w] /\ phase' = [phase EXCEPT ![i] = p]
    BY <1>1 DEF Enter
  <2>4. p \in {"setup", "teardown"}
    OBVIOUS
  <2> HIDE DEF w, p
  <2> QED
    BY <2>1, <2>2, <2>3, <2>4 DEF SetupTypeOK
<1>9. TypesOf
  BY <1>7, <1>8 DEF TypesOf
<1> QED
  BY <1>3, <1>4, <1>6, <1>9, SetupTypesKept

\* What follows Setup keeps the types.
LEMMA MeasureTypes ==
    ASSUME SetupTypeOK, NEW i \in Instances,
           SetupDone(i) \/ Iterate(i) \/ EndMeasure(i) \/ TeardownWorkload(i)
    PROVE  SetupTypeOK'
<1>1. /\ UNCHANGED env /\ todo' = todo /\ filter' = filter /\ alone' = alone /\ DatabaseOK
      /\ todo = [j \in Instances |-> todo[j]]
      /\ \A j \in Instances : todo[j] \in Seq(SetupStatements(j))
      /\ phase \in [Instances -> {"idle", "setup", "measure", "teardown"}]
      /\ verdict = [j \in Instances |-> verdict[j]]
      /\ hid \in [Instances -> Nat] /\ ran \in [Instances -> Nat]
  BY DEF SetupDone, Iterate, EndMeasure, TeardownWorkload, env, process, SetupTypeOK
<1>2. alone' \in [Instances -> BOOLEAN] /\ filter' = [j \in Instances |-> filter'[j]]
  <2>1. alone' \in [Instances -> BOOLEAN]
    BY <1>1, Zenon DEF SetupTypeOK
  <2> QED
    BY <1>1, <2>1 DEF SetupTypeOK
<1>3. CASE SetupDone(i) \/ EndMeasure(i)
  <2>1. db' = db /\ hid' = hid /\ ran' = ran
    BY <1>3 DEF SetupDone, EndMeasure, process
  <2>2. /\ phase' \in [Instances -> {"idle", "setup", "measure", "teardown"}]
        /\ verdict' = [j \in Instances |-> verdict'[j]]
    BY <1>1, <1>3 DEF SetupDone, EndMeasure, Enter
  <2>3. DatabaseOK'
    BY <1>1, <2>1, SameDatabase
  <2>4. TypesOf
    BY <1>1, <1>2, <2>1, <2>2 DEF TypesOf
  <2> QED
    BY <1>1, <2>3, <2>4, SetupTypesKept
<1>4. CASE Iterate(i)
  <2>1. /\ ran' = [ran EXCEPT ![i] = @ + 1] /\ phase' = phase /\ verdict' = verdict
        /\ \/ workload = "tpcb" /\ TpcbTransaction(i)
           \/ workload = "tpcc" /\ TpccTransaction(i)
           \/ workload \in {"tpch", "tpcds"} /\ ReadQueries(i)
           \/ workload = "simple" /\ ReadDemo(i)
    BY <1>4 DEF Iterate
  <2>2. DatabaseOK' /\ hid' \in [Instances -> Nat]
    BY <1>1, <2>1, TransactionOK
  <2>3. ran' \in [Instances -> Nat]
    BY <1>1, <2>1
  <2>4. TypesOf
    BY <1>1, <1>2, <2>1, <2>2, <2>3 DEF TypesOf
  <2> QED
    BY <1>1, <2>2, <2>4, SetupTypesKept
<1>5. CASE TeardownWorkload(i)
  <2>1. /\ db' = db \/ db' = Dropped(db, Tables)
        /\ hid' = hid /\ ran' = ran /\ verdict' = verdict
        /\ phase' = [phase EXCEPT ![i] = "idle"]
    BY <1>5 DEF TeardownWorkload, Enter, process
  <2>2. DatabaseOK'
    BY <1>1, <2>1, SameDatabase, DroppedOK
  <2>3. phase' \in [Instances -> {"idle", "setup", "measure", "teardown"}]
    BY <1>1, <2>1
  <2>4. TypesOf
    BY <1>1, <1>2, <2>1, <2>3 DEF TypesOf
  <2> QED
    BY <1>1, <2>2, <2>4, SetupTypesKept
<1> QED
  BY <1>3, <1>4, <1>5

\* A restart keeps the types.
LEMMA RestartTypes ==
    ASSUME SetupTypeOK, RestartServer
    PROVE  SetupTypeOK'
<1> DEFINE R == [t \in DOMAIN db.rows |-> IF t \in db.unlogged THEN EmptyTable ELSE db.rows[t]]
<1>1. /\ UNCHANGED env /\ UNCHANGED <<phase, todo, verdict, filter, hid, ran, began>>
      /\ alone' = [i \in Instances |-> alone[i] /\ Idle(i)]
      /\ db' = [db EXCEPT !.rows = R]
      /\ DatabaseOK
  BY DEF RestartServer, SetupTypeOK
<1>2. DOMAIN db.rows = Tables
  BY <1>1 DEF DatabaseOK
<1>3. R = [t \in Tables |-> R[t]]
  BY <1>2
<1> HIDE DEF R
<1>4. DatabaseOK'
  BY <1>1, <1>3, NewContents
<1>5. TypesOf
  <2>1. \A i \in Instances : (alone[i] /\ Idle(i)) \in BOOLEAN
    OBVIOUS
  <2>2. alone' \in [Instances -> BOOLEAN]
    BY <1>1, <2>1, Zenon
  <2> QED
    BY <1>1, <2>2 DEF SetupTypeOK, TypesOf
<1>6. /\ todo' = [j \in Instances |-> todo'[j]]
      /\ \A j \in Instances : todo'[j] \in Seq(SetupStatements(j))
  BY <1>1 DEF SetupTypeOK
<1> QED
  BY <1>1, <1>4, <1>5, <1>6, SetupTypesKept

\* A step that changes nothing.
LEMMA IdleTypes ==
    ASSUME SetupTypeOK, UNCHANGED setupVars
    PROVE  SetupTypeOK'
<1>1. /\ UNCHANGED env /\ UNCHANGED process /\ UNCHANGED <<todo, phase, verdict>>
      /\ db' = db /\ DatabaseOK
  BY DEF setupVars, SetupTypeOK
<1>2. DatabaseOK'
  BY <1>1, SameDatabase
<1>3. alone' \in [Instances -> BOOLEAN]
  BY <1>1, Zenon DEF SetupTypeOK, process
<1>4. TypesOf
  BY <1>1, <1>3 DEF SetupTypeOK, process, TypesOf
<1>5. /\ todo' = [j \in Instances |-> todo'[j]]
      /\ \A j \in Instances : todo'[j] \in Seq(SetupStatements(j))
  BY <1>1 DEF SetupTypeOK
<1> QED
  BY <1>1, <1>2, <1>4, <1>5, SetupTypesKept

\* Every step keeps the types.
LEMMA TypesStep ==
    ASSUME SetupTypeOK, [SetupNext]_setupVars
    PROVE  SetupTypeOK'
<1>1. CASE \E i \in Instances : Instance(i)
  <2>1. PICK i \in Instances : Instance(i)
    BY <1>1
  <2> QED
    BY <2>1, StartTypes, StatementTypes, MeasureTypes DEF Instance
<1>2. CASE RestartServer
  BY <1>2, RestartTypes
<1>3. CASE UNCHANGED setupVars
  BY <1>3, IdleTypes
<1> QED
  BY <1>1, <1>2, <1>3 DEF SetupNext, NoMoreCommands

-----------------------------------------------------------------------------
(* The inductive step.                                                     *)

\* What a script needs is a matter of the database, the script and the filter.
LEMMA FitsKept ==
    ASSUME NEW i, Fits(i), UNCHANGED <<env, db>>, todo'[i] = todo[i], filter'[i] = filter[i],
           phase'[i] = "measure" => todo[i] = <<>>
    PROVE  Fits(i)'
<1>1. /\ Tables' = Tables /\ workload' = workload /\ driverType' = driverType /\ db' = db
      /\ LoadOrder(i)' = LoadOrder(i) /\ \A t : Fresh(i, t)' = Fresh(i, t)
  BY SameWorkload
<1> DEFINE T == todo[i]
<1>2. /\ WarehouseStart[i] = 1 /\ Ordered(T) /\ SchemaFits(T) /\ TablesFit(i, T)
      /\ KeysFit(T) /\ ProceduresFit(T) /\ Complete(i, T)
  BY DEF Fits
<1>3. todo'[i] = T /\ filter'[i] = filter[i]
  OBVIOUS
<1> HIDE DEF T
<1>4. Ordered(todo[i])'
  BY <1>2, <1>3 DEF Ordered
<1>5. SchemaFits(todo[i])'
  BY <1>1, <1>2, <1>3 DEF SchemaFits
<1>6. \A t : Loads(i, t)' <=> Loads(i, t)
  BY <1>1, <1>3 DEF Loads
<1>7. TablesFit(i, todo[i])'
  BY <1>1, <1>2, <1>3, <1>6 DEF TablesFit, TableFits
<1>8. KeysFit(todo[i])'
  BY <1>1, <1>2, <1>3 DEF KeysFit
<1>9. ProceduresFit(todo[i])'
  BY <1>1, <1>2, <1>3 DEF ProceduresFit
<1>10. Complete(i, todo[i])'
  BY <1>1, <1>2, <1>3, <1>6 DEF Complete
<1>11. (phase[i] = "measure" => todo[i] = <<>>)'
  BY <1>3 DEF T
<1> QED
  BY <1>2, <1>4, <1>5, <1>7, <1>8, <1>9, <1>10, <1>11 DEF Fits

\* A step of instance i's command, which the others and the history do not feel.
Acts(i) ==
    /\ ~Idle(i)
    /\ UNCHANGED <<env, alone, filter>>
    /\ \A j \in Instances \ {i} :
          phase'[j] = phase[j] /\ verdict'[j] = verdict[j]

\* A step of one instance's command keeps the invariant if that instance's script fits
\* what it leaves: where a command runs alone, no other instance has a step.
LEMMA ActsStep ==
    ASSUME SetupIInv, SetupTypeOK', NEW i \in Instances, Acts(i),
           Relaying(i)' => Fits(i)',
           verdict'[i] = "refused" =>
               \/ verdict[i] = "refused"
               \/ ~(/\ alone[i]
                    /\ Enabled(filter[i], "drop_schema") /\ Enabled(filter[i], "create_schema"))
    PROVE  SetupIInv'
<1>1. /\ Sole /\ RepairsDatabase /\ phase[i] # "idle"
      /\ alone' = alone /\ filter' = filter
      /\ \A j \in Instances \ {i} : phase'[j] = phase[j] /\ verdict'[j] = verdict[j]
  BY DEF SetupIInv, Acts, Idle
<1>2. Sole'
  BY <1>1 DEF Sole, Idle
<1>3. \A j \in Instances : Relaying(j)' => Fits(j)'
  <2>1. ASSUME NEW j \in Instances, j # i PROVE ~Relaying(j)'
    BY <1>1, <2>1 DEF Sole, Idle, Relaying
  <2> QED
    BY <2>1
<1>4. RepairsDatabase'
  BY <1>1 DEF RepairsDatabase
<1> QED
  BY <1>2, <1>3, <1>4 DEF SetupIInv

\* A statement of a command that lays out the schema meets what it needs.
LEMMA RelayingAtWork ==
    ASSUME SetupIInv, NEW i \in Instances, Running(i), alone[i],
           Enabled(filter[i], "drop_schema"), Enabled(filter[i], "create_schema")
    PROVE  AtWork(i)
<1>1. SetupTypeOK /\ todo[i] # <<>> /\ todo[i] \in Seq(SetupStatements(i))
  BY DEF SetupIInv, Running, SetupTypeOK
<1>2. Fits(i)
  BY DEF SetupIInv, Relaying, Running
<1> QED
  BY <1>1, <1>2 DEF AtWork

\* A statement's step is one of its instance alone.
LEMMA StatementActs ==
    ASSUME SetupTypeOK, NEW i \in Instances,
           ExecStatement(i) \/ StatementFails(i) \/ InsertTable(i) \/ Validate(i)
    PROVE  /\ Acts(i) /\ Running(i)
           /\ \/ /\ phase'[i] = "setup" /\ verdict'[i] = verdict[i]
                 /\ todo'[i] = Tail(todo[i])
              \/ phase'[i] = "teardown"
<1>1. /\ UNCHANGED <<env, process, restarted>> /\ Running(i)
      /\ StepDone(i) \/ \E v : StepFails(i, v)
  BY DEF ExecStatement, StatementFails, InsertTable, InsertFails, Validate
<1>2. /\ todo = [j \in Instances |-> todo[j]] /\ verdict = [j \in Instances |-> verdict[j]]
      /\ phase \in [Instances -> {"idle", "setup", "measure", "teardown"}]
  BY DEF SetupTypeOK
<1>3. phase[i] = "setup" /\ ~Idle(i)
  BY <1>1 DEF Running, Idle
<1>4. UNCHANGED <<env, alone, filter>>
  BY <1>1 DEF process
<1>5. CASE StepDone(i)
  <2>1. /\ phase' = phase /\ verdict' = verdict /\ todo'[i] = Tail(todo[i])
    BY <1>2, <1>5 DEF StepDone
  <2> QED
    BY <1>1, <1>3, <1>4, <2>1 DEF Acts
<1>6. CASE \E v : StepFails(i, v)
  <2>1. PICK v : StepFails(i, v)
    BY <1>6
  <2>2. phase' = [phase EXCEPT ![i] = "teardown"] /\ verdict' = [verdict EXCEPT ![i] = v]
    BY <2>1 DEF StepFails, Fail, Enter
  <2>3. /\ phase'[i] = "teardown"
        /\ \A j \in Instances \ {i} : phase'[j] = phase[j] /\ verdict'[j] = verdict[j]
    BY <1>2, <2>2
  <2> QED
    BY <1>1, <1>3, <1>4, <2>3 DEF Acts
<1> QED
  BY <1>1, <1>5, <1>6

\* validate_population changes nothing.
LEMMA ValidateExecutes ==
    ASSUME DatabaseOK, NEW i, NEW s, s.op = "validate"
    PROVE  Executes(i, s, db, db)
<1>1. /\ \A t : s # Do("insert", <<t>>) /\ s # Do("set_logged", <<t>>)
                /\ s # Do("create_index", <<t>>) /\ s # Do("set_unlogged", <<t>>)
      /\ \A t : ~Drops(s, t) /\ ~Creates(s, t)
  BY DEF Do, Drops, Creates
<1> QED
  BY <1>1 DEF DatabaseOK, Executes, Parts

\* A statement keeps the invariant: a command that lays out the schema meets what it
\* needs, and leaves what the rest of its script needs.
LEMMA StatementStep ==
    ASSUME SetupIInv, SetupTypeOK', NEW i \in Instances,
           ExecStatement(i) \/ StatementFails(i) \/ InsertTable(i) \/ Validate(i)
    PROVE  SetupIInv'
<1>1. /\ SetupTypeOK /\ Acts(i) /\ Running(i) /\ DatabaseOK
      /\ \/ /\ phase'[i] = "setup" /\ verdict'[i] = verdict[i]
            /\ todo'[i] = Tail(todo[i])
         \/ phase'[i] = "teardown"
  BY StatementActs DEF SetupIInv, SetupTypeOK
<1>2. /\ UNCHANGED env /\ filter' = filter /\ alone' = alone
  BY <1>1 DEF Acts
<1>3. verdict = [j \in Instances |-> verdict[j]]
  BY <1>1 DEF SetupTypeOK
<1> DEFINE h == Head(todo[i])
           Relays == /\ alone[i]
                    /\ Enabled(filter[i], "drop_schema") /\ Enabled(filter[i], "create_schema")
<1>4. Relays => AtWork(i)
  BY <1>1, RelayingAtWork
<1>5. Relaying(i)' => Relays /\ phase'[i] \in {"setup", "measure"}
  BY <1>2 DEF Relaying
<1>6. Head(todo[i]) \in SetupStatements(i)
  BY <1>1, RunningHead
<1> HIDE DEF Relays
<1>7. CASE ExecStatement(i)
  <2>1. ASSUME Relays PROVE phase'[i] = "setup" /\ db' = Effect(h) /\ verdict' = verdict
    <3>1. ~Refused(h)
      BY <1>4, <1>7, <2>1, NotRefused DEF ExecStatement
    <3>2. StepDone(i) /\ db' = Effect(h)
      BY <1>7, <3>1 DEF ExecStatement
    <3> QED
      BY <1>1, <3>2 DEF StepDone, Running
  <2>2. ASSUME Relaying(i)' PROVE Fits(i)'
    <3>1. Relays /\ AtWork(i)
      BY <1>4, <1>5, <2>2
    <3>2. phase'[i] = "setup" /\ todo'[i] = Tail(todo[i]) /\ db' = Effect(h)
      BY <1>1, <2>1, <3>1
    <3>3. Executes(i, h, db, Effect(h))
      BY <1>1, <1>6, <1>7, EffectExecutes DEF ExecStatement
    <3>4. Executes(i, Head(todo[i]), db, db')
      BY <3>2, <3>3
    <3>5. Advances(i)
      BY <1>2, <3>2, <3>4 DEF Advances
    <3> QED
      BY <3>1, <3>2, <3>5, FitsAdvances
  <2>3. verdict'[i] = "refused" => verdict[i] = "refused" \/ ~Relays
    BY <2>1
  <2> QED
    BY <1>1, <2>2, <2>3, ActsStep DEF Relays
<1>8. CASE StatementFails(i)
  <2>1. phase'[i] = "teardown" /\ verdict'[i] = "fault"
    <3>1. phase' = [phase EXCEPT ![i] = "teardown"] /\ verdict' = [verdict EXCEPT ![i] = "fault"]
      BY <1>8 DEF StatementFails, StepFails, Fail, Enter
    <3> QED
      BY <1>1, <1>3, <3>1 DEF SetupTypeOK
  <2>2. ~Relaying(i)'
    BY <1>5, <2>1
  <2> QED
    BY <1>1, <2>1, <2>2, ActsStep
<1>9. CASE InsertTable(i)
  <2> DEFINE t == h.tables[1]
             chunks == Chunks(TotalRows(t, ScaleFactor[i]), LoadWorkers)
             taken == {c \in chunks : Accepted(t, Chunk(i, t, c))}
  <2>1. \/ /\ taken = chunks
           /\ db' = Stored(i, t, chunks)
           /\ StepDone(i)
        \/ StepFails(i, IF taken = chunks THEN "fault" ELSE "refused")
    BY <1>9 DEF InsertTable, InsertFails
  <2>2. h = Do("insert", <<t>>)
    BY <1>1, <1>9, RunningHead DEF InsertTable
  <2> HIDE DEF t, h
  <2>3. ASSUME Relays
        PROVE  taken = chunks /\ Executes(i, h, db, Stored(i, t, chunks))
    <3>1. Head(todo[i]) = Do("insert", <<t>>)
      BY <2>2 DEF h
    <3>2. /\ \A rows : Accepted(t, rows)
          /\ Executes(i, Head(todo[i]), db, Stored(i, t, chunks))
      BY <1>4, <2>3, <3>1, InsertExecutes
    <3> QED
      BY <3>2 DEF h
  <2> HIDE DEF chunks, taken
  <2>4. ASSUME Relaying(i)' PROVE Fits(i)'
    <3>1. Relays /\ AtWork(i) /\ taken = chunks
      BY <1>4, <1>5, <2>3, <2>4
    <3>2. db' = Stored(i, t, chunks) /\ StepDone(i)
      <4>1. ASSUME NEW v, StepFails(i, v) PROVE FALSE
        <5>1. phase' = [phase EXCEPT ![i] = "teardown"]
          BY <4>1 DEF StepFails, Fail, Enter
        <5>2. phase'[i] = "teardown"
          BY <1>1, <5>1 DEF SetupTypeOK
        <5> QED
          BY <1>5, <2>4, <5>2
      <4> QED
        BY <2>1, <4>1
    <3>3. todo'[i] = Tail(todo[i]) /\ phase'[i] = "setup"
      BY <1>1, <3>2 DEF StepDone, Running, SetupTypeOK
    <3>4. Executes(i, Head(todo[i]), db, db')
      BY <2>3, <3>1, <3>2 DEF h
    <3>5. Advances(i)
      BY <1>2, <3>3, <3>4 DEF Advances
    <3> QED
      BY <3>1, <3>3, <3>5, FitsAdvances
  <2>5. verdict'[i] = "refused" => verdict[i] = "refused" \/ ~Relays
    <3>1. ASSUME Relays PROVE verdict'[i] = verdict[i] \/ verdict'[i] = "fault"
      <4>1. StepDone(i) \/ StepFails(i, "fault")
        BY <2>1, <2>3, <3>1
      <4> QED
        BY <1>3, <4>1 DEF StepDone, StepFails, Fail
    <3> QED
      BY <3>1
  <2> QED
    BY <1>1, <2>4, <2>5, ActsStep DEF Relays
<1>10. CASE Validate(i)
  <2>1. /\ db' = db /\ h.op = "validate"
        /\ StepDone(i) \/ StepFails(i, "fault")
    BY <1>10 DEF Validate
  <2>2. verdict'[i] = verdict[i] \/ verdict'[i] = "fault"
    BY <1>3, <2>1 DEF StepDone, StepFails, Fail
  <2>3. ASSUME Relaying(i)' PROVE Fits(i)'
    <3>1. AtWork(i)
      BY <1>4, <1>5, <2>3
    <3>2. todo'[i] = Tail(todo[i]) /\ phase'[i] = "setup"
      BY <1>1, <1>5, <2>3
    <3>3. Executes(i, h, db, db)
      BY <1>1, <2>1, ValidateExecutes
    <3>4. Executes(i, Head(todo[i]), db, db')
      BY <2>1, <3>3
    <3>5. Advances(i)
      BY <1>2, <3>2, <3>4 DEF Advances
    <3> QED
      BY <3>1, <3>2, <3>5, FitsAdvances
  <2> QED
    BY <1>1, <2>2, <2>3, ActsStep
<1> QED
  BY <1>7, <1>8, <1>9, <1>10

\* A command that starts alone has a script that fits whatever it finds.
LEMMA StartStep ==
    ASSUME SetupIInv, SetupTypeOK', NEW i \in Instances, StartCommand(i)
    PROVE  SetupIInv'
<1>1. /\ SetupTypeOK /\ Sole /\ RepairsDatabase /\ Idle(i)
      /\ UNCHANGED env /\ db' = db
      /\ alone' = [j \in Instances |-> IF j = i THEN \A k \in Instances : Idle(k)
                                                ELSE alone[j] /\ Idle(j)]
  BY DEF SetupIInv, StartCommand, env
<1>2. PICK f \in Filters, v \in Variants :
          LET invalid == v[1] /\ ~ProcsSupported
          IN  /\ Admissible(i, f)
              /\ filter' = [filter EXCEPT ![i] = f]
              /\ todo' = [todo EXCEPT ![i] = IF invalid THEN <<>> ELSE Script(i, f, v[1], v[2])]
              /\ verdict' = [verdict EXCEPT ![i] = IF invalid THEN "invalid" ELSE "none"]
              /\ Enter(i, IF invalid THEN "teardown" ELSE "setup")
  BY DEF StartCommand
<1> DEFINE T == Script(i, f, v[1], v[2])
           invalid == v[1] /\ ~ProcsSupported
<1>3. /\ phase = [j \in Instances |-> phase[j]] /\ filter = [j \in Instances |-> filter[j]]
      /\ todo = [j \in Instances |-> todo[j]] /\ verdict = [j \in Instances |-> verdict[j]]
  BY <1>1 DEF SetupTypeOK
<1>4. /\ invalid => phase'[i] = "teardown"
      /\ ~invalid => phase'[i] = "setup" /\ todo'[i] = T
      /\ filter'[i] = f /\ verdict'[i] \in {"invalid", "none"}
  BY <1>2, <1>3 DEF Enter
<1>5. \A j \in Instances \ {i} :
          phase'[j] = phase[j] /\ filter'[j] = filter[j] /\ verdict'[j] = verdict[j]
  BY <1>2, <1>3 DEF Enter
<1>6. Admissible(i, f)
  BY <1>2
<1> HIDE DEF invalid, T
<1>7. Sole'
  <2> SUFFICES ASSUME NEW j \in Instances, NEW k \in Instances,
                      alone'[j], ~Idle(j)', j # k
               PROVE  Idle(k)'
    BY DEF Sole
  <2>1. CASE j = i
    BY <1>1, <1>5, <2>1 DEF Idle
  <2>2. CASE j # i
    BY <1>1, <1>5, <2>2 DEF Idle
  <2> QED
    BY <2>1, <2>2
<1>8. ASSUME NEW j \in Instances, Relaying(j)' PROVE Fits(j)'
  <2>1. j = i
    <3>1. ASSUME j # i PROVE FALSE
      BY <1>1, <1>5, <1>8, <3>1 DEF Relaying, Idle
    <3> QED
      BY <3>1
  <2>2. /\ phase'[i] = "setup" /\ todo'[i] = T
        /\ Enabled(f, "drop_schema") /\ Enabled(f, "create_schema")
    BY <1>4, <1>8, <2>1 DEF Relaying
  <2>3. WarehouseStart[i] = 1
    BY <1>6, <2>2 DEF Admissible
  <2>4. ScriptFits(i, f, T)
    BY <1>1, ScriptParted DEF T
  <2>5. /\ Ordered(T) /\ SchemaFits(T) /\ \A t \in Tables : WillDrop(T, t)
        /\ KeysFit(T) /\ ProceduresFit(T)
    BY <1>1, <2>2, <2>4, LaysOutSchema
  <2>6. /\ Tables' = Tables /\ workload' = workload /\ driverType' = driverType
        /\ LoadOrder(i)' = LoadOrder(i)
    BY <1>1, SameWorkload
  <2>7. Ordered(todo[i])'
    BY <2>2, <2>5 DEF Ordered
  <2>8. SchemaFits(todo[i])'
    BY <1>1, <2>2, <2>5, <2>6 DEF SchemaFits
  <2>9. TablesFit(i, todo[i])'
    BY <2>2, <2>5, <2>6 DEF TablesFit
  <2>10. KeysFit(todo[i])'
    BY <1>1, <2>2, <2>5, <2>6 DEF KeysFit
  <2>11. ProceduresFit(todo[i])'
    BY <1>1, <2>2, <2>5, <2>6 DEF ProceduresFit
  <2>12. Complete(i, todo[i])'
    <3>1. \A t : Loads(i, t)' <=> Enabled(f, "load_data") /\ t \in ToSet(LoadOrder(i))
      BY <1>4, <2>6 DEF Loads
    <3>2. ASSUME NEW t \in Tables
          PROVE  /\ Left(T, "insert", <<t>>) <=>
                        Enabled(f, "load_data") /\ t \in ToSet(LoadOrder(i))
                 /\ Enabled(f, "set_logged") /\ Left(T, "set_unlogged", <<t>>)
                        => Left(T, "set_logged", <<t>>)
      <4>1. Left(T, "insert", <<t>>) <=>
                Enabled(f, "load_data") /\ \E u \in ToSet(LoadOrder(i)) : <<t>> = <<u>>
        BY <2>4 DEF ScriptFits
      <4>2. (\E u \in ToSet(LoadOrder(i)) : <<t>> = <<u>>) <=> t \in ToSet(LoadOrder(i))
        OBVIOUS
      <4>3. Enabled(f, "set_logged") /\ Left(T, "set_unlogged", <<t>>)
                => Left(T, "set_logged", <<t>>)
        BY <2>4 DEF ScriptFits
      <4> QED
        BY <4>1, <4>2, <4>3
    <3> QED
      BY <1>4, <2>2, <2>6, <3>1, <3>2 DEF Complete
  <2>13. (phase[i] = "measure" => todo[i] = <<>>)'
    BY <2>2
  <2> QED
    BY <2>1, <2>3, <2>7, <2>8, <2>9, <2>10, <2>11, <2>12, <2>13 DEF Fits
<1>9. RepairsDatabase'
  BY <1>1, <1>4, <1>5 DEF RepairsDatabase
<1> QED
  BY <1>7, <1>8, <1>9 DEF SetupIInv

\* What follows Setup keeps the invariant.
LEMMA MeasureStep ==
    ASSUME SetupIInv, SetupTypeOK', NEW i \in Instances,
           SetupDone(i) \/ Iterate(i) \/ EndMeasure(i) \/ TeardownWorkload(i)
    PROVE  SetupIInv'
<1>1. /\ UNCHANGED env /\ alone' = alone /\ filter' = filter
      /\ todo' = todo /\ phase[i] # "idle"
  BY DEF SetupDone, Iterate, EndMeasure, TeardownWorkload, process
<1>2. /\ phase = [j \in Instances |-> phase[j]] /\ verdict = [j \in Instances |-> verdict[j]]
      /\ ran \in [Instances -> Nat]
  BY DEF SetupIInv, SetupTypeOK
<1>3. CASE SetupDone(i)
  <2>1. /\ phase' = [phase EXCEPT ![i] = "measure"] /\ verdict' = verdict
        /\ phase[i] = "setup" /\ todo[i] = <<>> /\ db' = db
    BY <1>3 DEF SetupDone, Enter
  <2>2. Acts(i) /\ verdict'[i] = verdict[i]
    BY <1>1, <1>2, <2>1 DEF Acts, Idle
  <2>3. ASSUME Relaying(i)' PROVE Fits(i)'
    <3>1. Fits(i)
      BY <1>1, <2>1, <2>3 DEF SetupIInv, Relaying
    <3> QED
      BY <1>1, <2>1, <3>1, FitsKept
  <2> QED
    BY <2>2, <2>3, ActsStep
<1>4. CASE Iterate(i)
  <2>1. /\ ran' = [ran EXCEPT ![i] = @ + 1] /\ phase' = phase /\ verdict' = verdict
        /\ phase[i] = "measure"
    BY <1>4 DEF Iterate
  <2>2. Acts(i) /\ verdict'[i] = verdict[i]
    BY <1>1, <2>1 DEF Acts, Idle
  <2>3. ~Relaying(i)'
    <3>1. ran'[i] = ran[i] + 1 /\ ran[i] \in Nat
      BY <1>2, <2>1
    <3>2. ran'[i] # 0
      BY <3>1
    <3> QED
      BY <2>1, <3>2 DEF Relaying
  <2> QED
    BY <2>2, <2>3, ActsStep
<1>5. CASE EndMeasure(i) \/ TeardownWorkload(i)
  <2>1. PICK p \in {"teardown", "idle"} : phase' = [phase EXCEPT ![i] = p]
    BY <1>5 DEF EndMeasure, TeardownWorkload, Enter
  <2>2. verdict' = verdict \/ verdict' = [verdict EXCEPT ![i] = "ok"]
    BY <1>5 DEF EndMeasure, TeardownWorkload
  <2>3. Acts(i) /\ (verdict'[i] = verdict[i] \/ verdict'[i] = "ok")
    BY <1>1, <1>2, <2>1, <2>2 DEF Acts, Idle
  <2>4. ~Relaying(i)'
    BY <1>2, <2>1 DEF Relaying
  <2> QED
    BY <2>3, <2>4, ActsStep
<1> QED
  BY <1>3, <1>4, <1>5

\* The invariant is inductive.
LEMMA SetupStep ==
    ASSUME SetupIInv, [SetupNext]_setupVars
    PROVE  SetupIInv'
<1>1. SetupTypeOK'
  BY TypesStep DEF SetupIInv
<1>2. CASE \E i \in Instances : Instance(i)
  <2>1. PICK i \in Instances : Instance(i)
    BY <1>2
  <2> QED
    BY <1>1, <2>1, StartStep, StatementStep, MeasureStep DEF Instance
<1>3. CASE RestartServer
  <2>1. /\ phase' = phase /\ filter' = filter /\ verdict' = verdict
        /\ \A i \in Instances : alone'[i] => alone[i] /\ Idle(i)
    BY <1>3 DEF RestartServer
  <2>2. Sole'
    BY <2>1 DEF SetupIInv, Sole, Idle
  <2>3. (\A i \in Instances : ~Relaying(i)') /\ RepairsDatabase'
    BY <2>1 DEF SetupIInv, Relaying, RepairsDatabase, Idle
  <2> QED
    BY <1>1, <2>2, <2>3 DEF SetupIInv
<1>4. CASE UNCHANGED setupVars
  <2>1. /\ UNCHANGED <<env, db, todo, filter, phase>>
        /\ alone' = alone /\ verdict' = verdict /\ ran' = ran
    BY <1>4 DEF setupVars, process
  <2>2. Sole' /\ RepairsDatabase'
    BY <2>1 DEF SetupIInv, Sole, Idle, RepairsDatabase
  <2>3. ASSUME NEW i \in Instances, Relaying(i)' PROVE Fits(i)'
    <3>1. Fits(i)
      BY <2>1, <2>3 DEF SetupIInv, Relaying
    <3>2. phase'[i] = "measure" => todo[i] = <<>>
      BY <2>1, <3>1 DEF Fits
    <3> QED
      BY <2>1, <3>1, <3>2, FitsKept
  <2> QED
    BY <1>1, <2>2, <2>3 DEF SetupIInv
<1> QED
  BY <1>2, <1>3, <1>4 DEF SetupNext, NoMoreCommands

\* It holds at the start.
LEMMA SetupStart ==
    ASSUME SetupInit
    PROVE  SetupIInv
<1>1. PICK target \in Targets : workload = target[1] /\ driverType = target[2]
  BY DEF SetupInit
<1>2. target \in Workloads \X DriverTypes
  BY WorkloadSetupAssumption
<1>3. <<workload, driverType>> \in Workloads \X DriverTypes
  BY <1>1, <1>2
<1>4. DatabaseOK
  BY DEF SetupInit, EmptyDatabase, DatabaseOK
<1>5. alone \in [Instances -> BOOLEAN]
  BY Zenon DEF SetupInit
<1>6. /\ phase \in [Instances -> {"idle", "setup", "measure", "teardown"}]
      /\ filter = [i \in Instances |-> filter[i]]
      /\ todo = [i \in Instances |-> todo[i]]
      /\ verdict = [i \in Instances |-> verdict[i]]
      /\ hid \in [Instances -> Nat] /\ ran \in [Instances -> Nat]
      /\ \A i \in Instances : todo[i] = <<>> /\ phase[i] = "idle" /\ verdict[i] = "none"
  BY DEF SetupInit
<1>7. \A i \in Instances : todo[i] \in Seq(SetupStatements(i))
  <2>1. \A S : <<>> \in Seq(S)
    OBVIOUS
  <2> QED
    BY <1>6, <2>1
<1>8. SetupTypeOK
  BY <1>3, <1>4, <1>5, <1>6, <1>7 DEF SetupTypeOK
<1>9. Sole /\ RepairsDatabase /\ \A i \in Instances : ~Relaying(i)
  BY <1>6 DEF Sole, Idle, RepairsDatabase, Relaying
<1> QED
  BY <1>8, <1>9 DEF SetupIInv

\* What a command that drops, creates and loads the tables measures.
LEMMA MeasuresFresh ==
    ASSUME SetupIInv
    PROVE  MeasuresWholeData
<1> SUFFICES ASSUME NEW i \in Instances,
                    phase[i] = "measure", ran[i] = 0, alone[i],
                    \A s \in {"drop_schema", "create_schema", "load_data"} : Enabled(filter[i], s)
             PROVE  /\ \A t \in ToSet(LoadOrder(i)) : LoadedWhole(i, t)
                    /\ Enabled(filter[i], "set_logged") => db.unlogged = {}
  BY DEF MeasuresWholeData
<1>1. SetupTypeOK /\ Fits(i)
  BY DEF SetupIInv, Relaying
<1>2. /\ WarehouseStart[i] = 1 /\ todo[i] = <<>> /\ TablesFit(i, <<>>)
  BY <1>1 DEF Fits
<1>3. \A t : ~WillDrop(<<>>, t) /\ \A op : ~Left(<<>>, op, <<t>>)
  BY DEF WillDrop, Left
<1>4. \A t \in Tables : TableFits(i, <<>>, t)
  BY <1>2, <1>3 DEF TablesFit
<1>5. ASSUME NEW t \in ToSet(LoadOrder(i)) PROVE LoadedWhole(i, t)
  <2>1. LoadOrder(i) \in Seq(Tables)
    BY <1>1, LoadOrderFacts
  <2>2. t \in Tables
    BY <1>5, <2>1 DEF ToSet
  <2>3. t \notin db.twice /\ db.rows[t] = Fresh(i, t)
    BY <1>3, <1>4, <1>5, <2>2 DEF TableFits, Loads
  <2>4. Start(i) = 1 /\ WarehouseStart[i] = 1 /\ ScaleFactor[i] \in Nat
    BY <1>2, WorkloadSetupAssumption DEF Start
  <2>5. t \in TpccSliced => Slice(Fresh(i, t), 1, ScaleFactor[i]) = Fresh(i, t)
    BY <2>4, SliceOfWhole DEF Fresh
  <2> QED
    BY <2>3, <2>4, <2>5 DEF LoadedWhole, Fresh
<1>6. ASSUME Enabled(filter[i], "set_logged") PROVE db.unlogged = {}
  <2>1. db.unlogged \subseteq Tables
    BY <1>1 DEF SetupTypeOK, DatabaseOK
  <2>2. \A t \in Tables : t \notin db.unlogged
    BY <1>3, <1>4, <1>6 DEF TableFits
  <2> QED
    BY <2>1, <2>2
<1> QED
  BY <1>5, <1>6

-----------------------------------------------------------------------------
(* The theorems.                                                           *)

\* SetupIInv is an invariant of every command of every instance.
LEMMA SetupInvariant == SetupSpec => []SetupIInv
<1>1. SetupInit => SetupIInv
  BY SetupStart
<1>2. SetupIInv /\ [SetupNext]_setupVars => SetupIInv'
  BY SetupStep
<1> QED
  BY <1>1, <1>2, PTL DEF SetupSpec

\* The state of a run: what the statements left of every script may be, and which parts
\* of the database they touch, for any number of instances, scales and filters.
THEOREM SetupTypes == SetupSpec => []SetupTypeOK
<1>1. SetupIInv => SetupTypeOK
  BY DEF SetupIInv
<1> QED
  BY <1>1, SetupInvariant, PTL

\* A command that drops and creates the schema, alone on a server that lost no rows, meets
\* nothing the database refuses: neither what an earlier command of any instance left
\* half done, nor what its transactions did to the rows.
THEOREM SetupRepairsDatabase == SetupSpec => []RepairsDatabase
<1>1. SetupIInv => RepairsDatabase
  BY DEF SetupIInv
<1> QED
  BY <1>1, SetupInvariant, PTL

\* A command that also loads the tables measures the whole of its data, each row once, and
\* durable unless its filter leaves the tables unlogged.
THEOREM SetupMeasuresWholeData == SetupSpec => []MeasuresWholeData
<1>1. SetupIInv => MeasuresWholeData
  BY MeasuresFresh
<1> QED
  BY <1>1, SetupInvariant, PTL

=============================================================================
