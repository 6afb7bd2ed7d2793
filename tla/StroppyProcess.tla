--------------------------- MODULE StroppyProcess ---------------------------
(***************************************************************************)
(* The stroppy process: a benchmark run (BenchRun) as the command that     *)
(* execute() runs under the signal context (Shutdown).  The two share the  *)
(* context: the monitor goroutine cancels it, the run observes it.  When   *)
(* the process ends, by status, force or default signal action, everything *)
(* stops where it is.                                                      *)
(***************************************************************************)
EXTENDS BenchRun

CONSTANTS
    Signals,    \* the signals NotifyContext subscribes to: 2 and 15
    MaxSignals  \* bound: signals the operating system sends

ASSUME ShutdownAssumption ==
    /\ Signals \subseteq 1..64
    /\ MaxSignals \in Nat

VARIABLES sigCh, stopped, firstSig, doneClosed, monitor, held, command, code, exit, sent, accepted

INSTANCE Shutdown

shutdownVars == <<sigCh, stopped, firstSig, doneClosed, monitor, held, command,
                  code, exit, sent, accepted>>
benchVars == <<executor, main, result, cancelled, fatalErrors, remaining, expired, spawned, pc,
               returned, loops, late, driver, teardowns, metricsUp>>
processVars == <<shutdownVars, ctxDone, benchVars>>

ProcessInit == ShutdownInit /\ Init

\* The command is running: one step of bench.Run.
RunStep ==
    /\ Alive
    /\ Main \/ (\E v \in VUs : Worker(v)) \/ Deadline
    /\ UNCHANGED shutdownVars

\* bench.Run returned, and its error is the command's.
CommandEnds ==
    /\ main = "over"
    /\ CommandReturns(result)
    /\ UNCHANGED benchVars

Ended == ~Alive /\ UNCHANGED processVars

ProcessNext ==
    \/ RunStep
    \/ CommandEnds
    \/ (\E s \in Signals : SendSignal(s)) /\ UNCHANGED benchVars
    \/ Monitor /\ UNCHANGED benchVars
    \/ Stop /\ UNCHANGED benchVars
    \/ Ended

ProcessSpec == ProcessInit /\ [][ProcessNext]_processVars

\* The monitor goroutine and the statements of stop() are scheduled; nothing is
\* assumed of the run, which may hang in an iteration or in a teardown.
ProcessFairness ==
    /\ WF_processVars(Monitor /\ UNCHANGED benchVars)
    /\ WF_processVars(Stop /\ UNCHANGED benchVars)

FairProcess == ProcessSpec /\ ProcessFairness

-----------------------------------------------------------------------------
(* Properties.                                                             *)

\* The exit status tells how the process ended.  An error is a cancellation only if a
\* signal was recorded first, so a cancelled run never exits with the generic status 1;
\* a process that ends with a status of its own tore down the workload of every run that
\* opened its driver and flushed the metrics; and a forced exit takes two delivered
\* signals, the first of which cancelled the run.
TruthfulExit ==
    /\ "canceled" \in result => firstSig \in Signals
    /\ exit = "status" =>
          /\ code = 1 => result # {} /\ "canceled" \notin result
          /\ (driver = "open" => teardowns = 1) /\ ~metricsUp
    /\ exit = "forced" => accepted >= 2 /\ firstSig # 0 /\ ctxDone

\* Once stop() has closed the gate the monitor no longer decides to force.
StopClosesGate ==
    [][monitor = "gate" /\ monitor' = "force" => command \in {"running", "stop"}]_processVars

\* A second delivered signal ends the process even if the run hangs.
SecondSignalEnds == (accepted >= 2) ~> ~Alive

=============================================================================
