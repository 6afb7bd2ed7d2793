------------------------------ MODULE Shutdown ------------------------------
(***************************************************************************)
(* Signal-driven shutdown: NotifyContext and monitorSignals of             *)
(* pkg/common/shutdown/signal.go, and execute() of cmd/stroppy, which runs *)
(* the command under the signal context and turns its error into an exit   *)
(* status.  The monitor goroutine, the main goroutine and the operating    *)
(* system interleave.  The command itself is left open: how it ends is a   *)
(* parameter of CommandReturns.                                            *)
(***************************************************************************)
EXTENDS Integers, Sequences, SequencesExt

CONSTANTS
    Signals,    \* the signals NotifyContext subscribes to: 2 and 15
    MaxSignals  \* bound: signals the operating system sends

SignalBufferSize   == 2
ForcedExitCode     == 2
ExitCodeSignalBase == 128

VARIABLES
    sigCh,      \* the buffered signal channel
    stopped,    \* the atomic gate
    firstSig,   \* number of the first signal, 0 for none
    doneClosed, \* the done channel is closed
    ctxDone,    \* the command's context is cancelled
    monitor,    \* where the monitor goroutine stands
    held,       \* the signal it received
    command,    \* where execute() stands
    code,       \* the exit status execute() computed
    exit,       \* how the process ended: with "status" code, "forced" or "killed"
    sent,       \* signals sent by the operating system
    accepted    \* history: signals that found room in the channel

Alive == exit = "alive"

ShutdownTypeOK ==
    /\ sigCh \in Seq(Signals) /\ Len(sigCh) <= SignalBufferSize
    /\ stopped \in BOOLEAN
    /\ firstSig \in Signals \cup {0}
    /\ doneClosed \in BOOLEAN
    /\ ctxDone \in BOOLEAN
    /\ monitor \in {"select", "check", "cas", "cancel", "gate", "force", "exited"}
    /\ held \in Signals \cup {0}
    /\ command \in {"running", "stop", "unsubscribe", "drain", "close", "cancel", "exit"}
    /\ code \in Nat
    /\ exit \in {"alive", "status", "forced", "killed"}
    /\ sent \in 0..MaxSignals
    /\ accepted \in Nat

ShutdownInit ==
    /\ sigCh = <<>>
    /\ stopped = FALSE
    /\ firstSig = 0
    /\ doneClosed = FALSE
    /\ ctxDone = FALSE
    /\ monitor = "select"
    /\ held = 0
    /\ command = "running"
    /\ code = 0
    /\ exit = "alive"
    /\ sent = 0
    /\ accepted = 0

-----------------------------------------------------------------------------
(* The operating system.                                                   *)

Subscribed == command \in {"running", "stop", "unsubscribe"}

\* signal.Notify never blocks: a signal that finds the buffer full is dropped.
\* Once unsubscribed, SIGINT and SIGTERM end the process.
SendSignal(s) ==
    /\ Alive
    /\ sent < MaxSignals
    /\ sent' = sent + 1
    /\ \/ /\ Subscribed /\ Len(sigCh) < SignalBufferSize
          /\ sigCh' = Append(sigCh, s)
          /\ accepted' = accepted + 1
          /\ UNCHANGED exit
       \/ /\ Subscribed /\ Len(sigCh) = SignalBufferSize
          /\ UNCHANGED <<sigCh, accepted, exit>>
       \/ /\ ~Subscribed
          /\ exit' = "killed"
          /\ UNCHANGED <<sigCh, accepted>>
    /\ UNCHANGED <<stopped, firstSig, doneClosed, ctxDone, monitor, held, command, code>>

-----------------------------------------------------------------------------
(* The monitor goroutine.                                                  *)

MonitorGoto(from, to) == Alive /\ monitor = from /\ monitor' = to

\* case sig := <-sigCh; when done is closed as well, select picks either.
ReceiveSignal ==
    /\ MonitorGoto("select", "check")
    /\ sigCh # <<>>
    /\ held' = Head(sigCh)
    /\ sigCh' = Tail(sigCh)
    /\ UNCHANGED <<stopped, firstSig, doneClosed, ctxDone, command, code, exit, sent, accepted>>

ReceiveDone ==
    /\ MonitorGoto("select", "exited")
    /\ doneClosed
    /\ UNCHANGED <<sigCh, stopped, firstSig, doneClosed, ctxDone, held, command,
                   code, exit, sent, accepted>>

CheckStopped ==
    /\ MonitorGoto("check", IF stopped THEN "exited" ELSE "cas")
    /\ UNCHANGED <<sigCh, stopped, firstSig, doneClosed, ctxDone, held, command,
                   code, exit, sent, accepted>>

\* Mutant: the first signal is not recorded.
NotRecorded == 0

\* What firstSig.CompareAndSwap stores.
Recorded == held

IsFirst == firstSig = 0

\* firstSig.CompareAndSwap(0, sigNumber(sig)) tells the first signal.
ClaimFirst ==
    /\ MonitorGoto("cas", IF IsFirst THEN "cancel" ELSE "gate")
    /\ firstSig' = IF firstSig = 0 THEN Recorded ELSE firstSig
    /\ UNCHANGED <<sigCh, stopped, doneClosed, ctxDone, held, command, code, exit,
                   sent, accepted>>

\* Mutant: the monitor returns after the first signal instead of looping.
CancelOnce ==
    /\ MonitorGoto("cancel", "exited")
    /\ ctxDone' = TRUE
    /\ UNCHANGED <<sigCh, stopped, firstSig, doneClosed, held, command, code, exit,
                   sent, accepted>>

CancelContext ==
    /\ MonitorGoto("cancel", "select")
    /\ ctxDone' = TRUE
    /\ UNCHANGED <<sigCh, stopped, firstSig, doneClosed, held, command, code, exit,
                   sent, accepted>>

\* Mutant: a second signal forces without claiming the gate.
AlwaysForce == TRUE

\* stopped.CompareAndSwap(false, true) succeeds.
ClaimsGate == ~stopped

ClaimGate ==
    /\ MonitorGoto("gate", IF ClaimsGate THEN "force" ELSE "exited")
    /\ stopped' = TRUE
    /\ UNCHANGED <<sigCh, firstSig, doneClosed, ctxDone, held, command, code, exit,
                   sent, accepted>>

\* force defaults to os.Exit.
ForceExit ==
    /\ MonitorGoto("force", "exited")
    /\ exit' = "forced"
    /\ code' = ForcedExitCode
    /\ UNCHANGED <<sigCh, stopped, firstSig, doneClosed, ctxDone, held, command,
                   sent, accepted>>

Monitor == \/ ReceiveSignal \/ ReceiveDone \/ CheckStopped \/ ClaimFirst
           \/ CancelContext \/ ClaimGate \/ ForceExit

-----------------------------------------------------------------------------
(* execute(): the main goroutine around the command.                       *)

\* exitStatus(): the status of a cancellation, 1 before any signal.
ExitStatus == IF firstSig # 0 THEN ExitCodeSignalBase + firstSig ELSE 1

\* exitCodeFor: the command's error is a set of causes, {} for nil.
ExitCodeFor(errors) ==
    IF errors = {} THEN 0
    ELSE IF "canceled" \in errors THEN ExitStatus
    ELSE 1

CommandReturns(errors) ==
    /\ Alive
    /\ command = "running"
    /\ command' = "stop"
    /\ code' = ExitCodeFor(errors)
    /\ UNCHANGED <<sigCh, stopped, firstSig, doneClosed, ctxDone, monitor, held, exit,
                   sent, accepted>>

CommandGoto(from, to) == Alive /\ command = from /\ command' = to

\* The deferred stop(), statement by statement.
CloseGate ==
    /\ CommandGoto("stop", "unsubscribe")
    /\ stopped' = TRUE
    /\ UNCHANGED <<sigCh, firstSig, doneClosed, ctxDone, monitor, held, code, exit,
                   sent, accepted>>

Unsubscribe ==
    /\ CommandGoto("unsubscribe", "drain")
    /\ UNCHANGED <<sigCh, stopped, firstSig, doneClosed, ctxDone, monitor, held, code,
                   exit, sent, accepted>>

DrainSignals ==
    /\ \/ /\ CommandGoto("drain", "drain")
          /\ sigCh # <<>>
          /\ sigCh' = Tail(sigCh)
       \/ /\ CommandGoto("drain", "close")
          /\ sigCh = <<>>
          /\ UNCHANGED sigCh
    /\ UNCHANGED <<stopped, firstSig, doneClosed, ctxDone, monitor, held, code, exit,
                   sent, accepted>>

CloseDone ==
    /\ CommandGoto("close", "cancel")
    /\ doneClosed' = TRUE
    /\ UNCHANGED <<sigCh, stopped, firstSig, ctxDone, monitor, held, code, exit, sent,
                   accepted>>

CancelOnStop ==
    /\ CommandGoto("cancel", "exit")
    /\ ctxDone' = TRUE
    /\ UNCHANGED <<sigCh, stopped, firstSig, doneClosed, monitor, held, code, exit,
                   sent, accepted>>

\* Execute exits with the status, or main returns when it is 0.
Exit ==
    /\ CommandGoto("exit", "exit")
    /\ exit' = "status"
    /\ UNCHANGED <<sigCh, stopped, firstSig, doneClosed, ctxDone, monitor, held, code,
                   sent, accepted>>

Stop == CloseGate \/ Unsubscribe \/ DrainSignals \/ CloseDone \/ CancelOnStop \/ Exit

=============================================================================
