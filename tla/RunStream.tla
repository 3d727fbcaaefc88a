------------------------------- MODULE RunStream -------------------------------
(***************************************************************************)
(* One streaming run: POST /v1/run/stream or /v1/agent/stream.             *)
(*                                                                         *)
(* Three kinds of goroutine share the stream.  The handler pumps a bounded *)
(* channel of events into the SSE response (Handler.stream).  The run is   *)
(* the control loop in the goroutine the handler starts: it forwards the   *)
(* events of agent-runtime, dispatches the Action a step ends with, and    *)
(* starts the next step with the Observation.  A reader is the goroutine   *)
(* of a device WebSocket: Hub.Progress calls the emitter of the run, in    *)
(* the reader's goroutine, after Hub.mu is released.                       *)
(*                                                                         *)
(* A step is one statement on a channel, one write to the response, or one *)
(* event read from agent-runtime.  What Dispatch does inside is            *)
(* ControlHub's subject: here it waits, and then has an observation or an  *)
(* error.                                                                  *)
(***************************************************************************)
EXTENDS Naturals, Sequences, TaskStatus

CONSTANTS
  Readers,       \* goroutines of device WebSockets
  Capacity,      \* of the events channel (128)
  MaxIterations, \* maxDeviceActionIterations
  None,          \* a nil pointer
  MaxForwarded, MaxProgress   \* bounds of the checked instance

ASSUME StreamAssumption ==
  /\ Capacity \in Nat \ {0}
  /\ MaxIterations \in Nat \ {0}
  /\ MaxForwarded \in Nat /\ MaxProgress \in Nat
  /\ None \notin {"text", "action", "observation", "progress", "done", "error"}
  /\ None \notin Terminal

VARIABLES
  rpc,        \* where the run is
  then,       \* where it goes on after emit has returned nil, and
  orElse,     \* after emit has returned an error
  sending,    \* the event it emits
  iteration,  \* of the control loop
  pending,    \* has this step produced an Action
  waiting,    \* is that Action's entry in Hub.pending
  verdict,    \* the status of the observation dispatchControlAction returns
  failed,     \* runErr # nil
  status,     \* the outcome given to Hub.SetTaskStatus
  forwarded,  \* what the bound counts
  ppc,        \* where each reader is
  progress,   \* what the bound counts
  events, closed,   \* the events channel
  result,     \* has runErr been sent
  ctx,        \* taskCtx
  hpc,        \* where the handler is
  writing,    \* the event it writes
  sawError,   \* emittedError
  written,    \* the events the client has received
  client      \* is it reading, stalled, or has it left

locals      == <<iteration, pending, waiting, verdict, failed, status, forwarded>>
runVars     == <<rpc, then, orElse, sending, locals>>
readerVars  == <<ppc, progress>>
channelVars == <<events, closed, result>>
handlerVars == <<hpc, writing, sawError, written>>
elsewhere   == <<readerVars, channelVars, ctx, handlerVars, client>>
vars == <<runVars, elsewhere>>

Kinds == {"text", "action", "observation", "progress", "done", "error"}

Endings   == {"complete", "fail", "cancel", "suspend", "suspendFail"}
RunLabels == {"step", "ended", "dispatch", "wait", "evaluate", "emit", "close", "result",
              "release", "over"} \cup Endings

TypeOK ==
  /\ rpc \in RunLabels /\ then \in RunLabels /\ orElse \in RunLabels
  /\ sending \in Kinds \cup {None}
  /\ iteration \in 1 .. MaxIterations
  /\ pending \in BOOLEAN /\ waiting \in BOOLEAN /\ failed \in BOOLEAN
  /\ verdict \in ObservationStatuses \cup {None}
  /\ status \in Terminal \cup {None}
  /\ forwarded \in 0 .. MaxForwarded /\ progress \in 0 .. MaxProgress
  /\ ppc \in [Readers -> {"idle", "emit", "panicked"}]
  /\ events \in Seq(Kinds) /\ Len(events) <= Capacity
  /\ closed \in BOOLEAN /\ result \in BOOLEAN
  /\ ctx \in {"live", "expired", "canceled"}
  /\ hpc \in {"select", "write", "result", "report", "gone"}
  /\ writing \in Kinds \cup {None}
  /\ sawError \in BOOLEAN
  /\ written \in Seq(Kinds)
  /\ client \in {"reading", "stalled", "left"}

Init ==
  /\ rpc = "step" /\ then = "step" /\ orElse = "step"
  /\ sending = None
  /\ iteration = 1
  /\ pending = FALSE /\ waiting = FALSE /\ failed = FALSE
  /\ verdict = None
  /\ status = None
  /\ forwarded = 0 /\ progress = 0
  /\ ppc = [r \in Readers |-> "idle"]
  /\ events = <<>> /\ closed = FALSE /\ result = FALSE
  /\ ctx = "live"
  /\ hpc = "select" /\ writing = None /\ sawError = FALSE /\ written = <<>>
  /\ client = "reading"

-------------------------------------------------------------------------------
(* emit: a select of whatever is ready.  The handler has closed "detached" *)
(* when it is gone.                                                        *)
CanSend  == ~closed /\ Len(events) < Capacity
Detached == hpc = "gone"

(* The run emits event e, then goes on at label, or at error when emit     *)
(* returns one.                                                            *)
Emit(e, label, error) ==
  /\ rpc' = "emit"
  /\ sending' = e
  /\ then' = label
  /\ orElse' = error

(* Faulty variant: emit waits for room or for the handler only.            *)
EmittedUnbounded ==
  /\ rpc = "emit"
  /\ \/ CanSend /\ events' = Append(events, sending)
     \/ Detached /\ UNCHANGED events
  /\ rpc' = then
  /\ sending' = None
  /\ UNCHANGED <<then, orElse, locals, readerVars, closed, result, ctx, handlerVars, client>>

Emitted ==
  /\ rpc = "emit"
  /\ \/ CanSend /\ events' = Append(events, sending) /\ rpc' = then
     \/ Detached /\ rpc' = then /\ UNCHANGED events
     \/ ctx # "live" /\ rpc' = orElse /\ UNCHANGED events
  /\ sending' = None
  /\ UNCHANGED <<then, orElse, locals, readerVars, closed, result, ctx, handlerVars, client>>

-------------------------------------------------------------------------------
(* What agent-runtime sends before it is done or fails, and what is made   *)
(* of it: a result of the tool "research.progress" is progress, one of     *)
(* "client.action" an Action; an event of no known payload has no type,    *)
(* and is passed on.                                                       *)
Payloads == {"meta", "delta", "toolCall", "toolResult", "research.progress", "client.action",
             "interrupted", "unknown"}

FromStreamEvent(payload) ==
  CASE payload = "research.progress" -> "progress"
    [] payload = "client.action"     -> "action"
    [] OTHER                         -> "text"

(* The run: a step of agent-runtime, which forwards events, notes the last *)
(* Action among them,                                                      *)
StepForwards(payload) ==
  /\ rpc = "step"
  /\ forwarded < MaxForwarded
  /\ forwarded' = forwarded + 1
  /\ pending' = (pending \/ payload = "client.action")
  /\ Emit(FromStreamEvent(payload), "step", "fail")
  /\ UNCHANGED <<iteration, waiting, verdict, failed, status, elsewhere>>

(* Faulty variant: "done" is passed on although an Action is to follow.    *)
StepEndsDone ==
  /\ rpc = "step"
  /\ Emit("done", IF pending THEN "dispatch" ELSE "ended", "fail")
  /\ UNCHANGED <<locals, elsewhere>>

(* and ends, with "done" as its last event (kept back when there is an     *)
(* Action to do) or without one,                                           *)
StepEnds ==
  /\ rpc = "step"
  /\ \/ ~pending /\ Emit("done", "ended", "fail")
     \/ /\ rpc' = IF pending THEN "dispatch" ELSE "complete"
        /\ UNCHANGED <<then, orElse, sending>>
  /\ UNCHANGED <<locals, elsewhere>>

(* and after "done" the stream is read once more, for its end,             *)
StepReturns ==
  /\ rpc = "ended"
  /\ rpc' = "complete"
  /\ UNCHANGED <<then, orElse, sending, locals, elsewhere>>

(* or fails, also then, after an "error" event or, as when its context has *)
(* expired or an Action cannot be parsed, without one.                     *)
StepFails ==
  /\ rpc \in {"step", "ended"}
  /\ \/ Emit("error", "fail", "fail")
     \/ rpc' = "fail" /\ UNCHANGED <<then, orElse, sending>>
  /\ UNCHANGED <<locals, elsewhere>>

(* dispatchControlAction: no usable device (a failed observation takes the *)
(* place of the device's), or BeginTask fails,                             *)
Observed(v, error) ==
  /\ verdict' = v
  /\ waiting' = FALSE
  /\ Emit("observation", "evaluate", error)
  /\ UNCHANGED <<iteration, pending, failed, status, forwarded, elsewhere>>

DispatchRefused ==
  /\ rpc = "dispatch"
  /\ \/ Observed("FAILED", "evaluate")
     \/ rpc' = "fail" /\ UNCHANGED <<then, orElse, sending, locals, elsewhere>>

(* or Dispatch answers from an earlier observation, or waits,              *)
DispatchReplays(v) == rpc = "dispatch" /\ Observed(v, "fail")

DispatchWaits ==
  /\ rpc = "dispatch"
  /\ rpc' = "wait"
  /\ waiting' = TRUE
  /\ UNCHANGED <<then, orElse, sending, iteration, pending, verdict, failed, status,
                 forwarded, elsewhere>>

(* and has the observation that a reader brings, or an error: the deadline *)
(* of the Action, the end of taskCtx, a failed send.                       *)
DispatchAnswered(r, v) == rpc = "wait" /\ ppc[r] = "idle" /\ Observed(v, "fail")

DispatchFails == rpc = "wait" /\ Observed("FAILED", "evaluate")

(* Faulty variant: the loop is left one iteration late.                    *)
LastIterationPassed == iteration > MaxIterations

LastIteration == iteration = MaxIterations

(* runControlLoop looks at the observation's status.                       *)
Suspended == verdict \in {"WAITING_APPROVAL", "WAITING_USER"}

Evaluate ==
  /\ rpc = "evaluate"
  /\ \/ /\ Suspended
        /\ Emit("done", "suspend", "suspendFail")
        /\ UNCHANGED <<iteration, pending>>
     \/ /\ ~Suspended
        /\ \/ verdict = "CANCELLED" /\ rpc' = "cancel" /\ UNCHANGED <<iteration, pending>>
           \/ /\ verdict # "CANCELLED" /\ LastIteration
              /\ rpc' = "fail" /\ UNCHANGED <<iteration, pending>>
           \/ /\ verdict # "CANCELLED" /\ ~LastIteration
              /\ rpc' = "step" /\ iteration' = iteration + 1 /\ pending' = FALSE
        /\ UNCHANGED <<then, orElse, sending>>
  /\ UNCHANGED <<waiting, verdict, failed, status, forwarded, elsewhere>>

(* Faulty variant: a failed run leaves the task as it is.                  *)
EndUnset ==
  /\ rpc \in Endings
  /\ status' = IF rpc = "complete" THEN "COMPLETED" ELSE IF rpc = "cancel" THEN "CANCELLED" ELSE None
  /\ failed' = (rpc \in {"fail", "cancel", "suspendFail"})
  /\ rpc' = "close"
  /\ UNCHANGED <<then, orElse, sending, iteration, pending, waiting, verdict, forwarded, elsewhere>>

(* The loop ends: the task's outcome is set, or the task waits for its     *)
(* user; the loop returns an error or none.                                *)
End ==
  /\ rpc \in Endings
  /\ status' = CASE rpc = "complete" -> "COMPLETED"
                 [] rpc = "fail"     -> "FAILED"
                 [] rpc = "cancel"   -> "CANCELLED"
                 [] OTHER            -> None
  /\ failed' = (rpc \in {"fail", "cancel", "suspendFail"})
  /\ rpc' = "close"
  /\ UNCHANGED <<then, orElse, sending, iteration, pending, waiting, verdict, forwarded, elsewhere>>

(* Faulty variant: the channel is never closed.                            *)
CloseEventsForgotten ==
  /\ rpc = "close"
  /\ rpc' = "result"
  /\ UNCHANGED <<then, orElse, sending, locals, elsewhere>>

(* The goroutine of the run closes the channel, sends the result and, last *)
(* of all, cancels its context.                                            *)
CloseEvents ==
  /\ rpc = "close"
  /\ closed' = TRUE
  /\ rpc' = "result"
  /\ UNCHANGED <<then, orElse, sending, locals, readerVars, events, result, ctx, handlerVars, client>>

SendResult ==
  /\ rpc = "result"
  /\ result' = TRUE
  /\ rpc' = "release"
  /\ UNCHANGED <<then, orElse, sending, locals, readerVars, events, closed, ctx, handlerVars, client>>

CancelTask ==
  /\ rpc = "release"
  /\ ctx' = IF ctx = "live" THEN "canceled" ELSE ctx
  /\ rpc' = "over"
  /\ UNCHANGED <<then, orElse, sending, locals, readerVars, channelVars, handlerVars, client>>

-------------------------------------------------------------------------------
(* Hub.Progress: the reader has looked the waiting call up and calls its   *)
(* onProgress, which emits.  What the call does meanwhile is its own.      *)
ReadProgress(r) ==
  /\ ppc[r] = "idle"
  /\ waiting
  /\ progress < MaxProgress
  /\ progress' = progress + 1
  /\ ppc' = [ppc EXCEPT ![r] = "emit"]
  /\ UNCHANGED <<runVars, channelVars, ctx, handlerVars, client>>

(* A send on a closed channel is always ready, and panics.                 *)
EmitProgress(r) ==
  /\ ppc[r] = "emit"
  /\ \/ CanSend /\ events' = Append(events, "progress") /\ ppc' = [ppc EXCEPT ![r] = "idle"]
     \/ closed /\ ppc' = [ppc EXCEPT ![r] = "panicked"] /\ UNCHANGED events
     \/ (Detached \/ ctx # "live") /\ ppc' = [ppc EXCEPT ![r] = "idle"] /\ UNCHANGED events
  /\ UNCHANGED <<runVars, progress, closed, result, ctx, handlerVars, client>>

-------------------------------------------------------------------------------
(* Faulty variant: a client that leaves takes its task with it.            *)
HandlerLeavesCancelling ==
  /\ hpc = "select"
  /\ client = "left"
  /\ hpc' = "gone"
  /\ ctx' = IF ctx = "live" THEN "canceled" ELSE ctx
  /\ UNCHANGED <<runVars, readerVars, channelVars, writing, sawError, written, client>>

(* The handler's loop: the client has left,                                *)
HandlerLeaves ==
  /\ hpc = "select"
  /\ client = "left"
  /\ hpc' = "gone"
  /\ UNCHANGED <<runVars, readerVars, channelVars, ctx, writing, sawError, written, client>>

(* Faulty variant: an "error" event of the run is not remembered.          *)
HandlerTakesUnseen ==
  /\ hpc = "select"
  /\ events # <<>>
  /\ hpc' = "write"
  /\ writing' = Head(events)
  /\ events' = Tail(events)
  /\ UNCHANGED <<runVars, readerVars, closed, result, ctx, sawError, written, client>>

(* or there is an event to write,                                          *)
HandlerTakes ==
  /\ hpc = "select"
  /\ events # <<>>
  /\ hpc' = "write"
  /\ writing' = Head(events)
  /\ events' = Tail(events)
  /\ sawError' = (sawError \/ Head(events) = "error")
  /\ UNCHANGED <<runVars, readerVars, closed, result, ctx, written, client>>

(* which blocks when the client does not read, and is lost or fails when   *)
(* it has left,                                                            *)
HandlerWrites ==
  /\ hpc = "write"
  /\ \/ client = "reading" /\ written' = Append(written, writing) /\ hpc' = "select"
     \/ client = "left" /\ hpc' \in {"select", "gone"} /\ UNCHANGED written
  /\ writing' = None
  /\ UNCHANGED <<runVars, readerVars, channelVars, ctx, sawError, client>>

(* Faulty variant: the loop ends when the run has, with events unread.     *)
HandlerEndsEarly ==
  /\ hpc = "select"
  /\ closed
  /\ hpc' = "result"
  /\ UNCHANGED <<runVars, readerVars, channelVars, ctx, writing, sawError, written, client>>

(* or the channel is closed and empty.                                     *)
HandlerEnds ==
  /\ hpc = "select"
  /\ closed /\ events = <<>>
  /\ hpc' = "result"
  /\ UNCHANGED <<runVars, readerVars, channelVars, ctx, writing, sawError, written, client>>

(* Then the result: a failure the client has not been told of is written.  *)
HandlerResult ==
  /\ hpc = "result"
  /\ result
  /\ hpc' = IF failed /\ ~sawError THEN "report" ELSE "gone"
  /\ UNCHANGED <<runVars, readerVars, channelVars, ctx, writing, sawError, written, client>>

HandlerReports ==
  /\ hpc = "report"
  /\ \/ client = "reading" /\ written' = Append(written, "error")
     \/ client = "left" /\ UNCHANGED written
  /\ hpc' = "gone"
  /\ UNCHANGED <<runVars, readerVars, channelVars, ctx, writing, sawError, client>>

-------------------------------------------------------------------------------
(* The environment: the client stops reading for a while, or leaves, and   *)
(* backgroundStreamTimeout passes.                                         *)
ClientStalls ==
  /\ client \in {"reading", "stalled"}
  /\ client' = IF client = "reading" THEN "stalled" ELSE "reading"
  /\ UNCHANGED <<runVars, readerVars, channelVars, ctx, handlerVars>>

ClientLeaves ==
  /\ client # "left"
  /\ client' = "left"
  /\ UNCHANGED <<runVars, readerVars, channelVars, ctx, handlerVars>>

Timeout ==
  /\ ctx = "live"
  /\ ctx' = "expired"
  /\ UNCHANGED <<runVars, readerVars, channelVars, handlerVars, client>>

-------------------------------------------------------------------------------
Dispatch ==
  \/ DispatchRefused \/ DispatchWaits \/ DispatchFails
  \/ \E v \in ObservationStatuses :
       DispatchReplays(v) \/ \E r \in Readers : DispatchAnswered(r, v)

Finish == End \/ CloseEvents \/ SendResult \/ CancelTask

Handle ==
  \/ HandlerLeaves \/ HandlerTakes \/ HandlerWrites \/ HandlerEnds
  \/ HandlerResult \/ HandlerReports

Next ==
  \/ \E payload \in Payloads : StepForwards(payload)
  \/ StepEnds \/ StepReturns \/ StepFails \/ Dispatch \/ Evaluate \/ Emitted \/ Finish
  \/ \E r \in Readers : ReadProgress(r) \/ EmitProgress(r)
  \/ Handle
  \/ ClientStalls \/ ClientLeaves \/ Timeout

Spec == Init /\ [][Next]_vars

(* The goroutines go on when they can; the timers of the Action's deadline *)
(* and of taskCtx fire; a gRPC stream whose context has expired fails.     *)
(* Neither agent-runtime nor the device has to answer before that, and the *)
(* client need not read.                                                   *)
Fairness ==
  /\ WF_vars(Emitted) /\ WF_vars(Evaluate) /\ WF_vars(Finish) /\ WF_vars(Handle)
  /\ WF_vars(Timeout)
  /\ WF_vars(ctx # "live" /\ StepFails)
  /\ WF_vars(DispatchRefused \/ DispatchWaits) /\ WF_vars(DispatchFails)
  /\ \A r \in Readers : WF_vars(EmitProgress(r))

FairSpec == Spec /\ Fairness

-------------------------------------------------------------------------------
(* Properties.                                                             *)

(* A client that stays has received all there was when the handler is      *)
(* through: the channel is drained before the result ends the loop         *)
(* (Handler.stream, case !ok).                                             *)
StreamComplete == (hpc = "gone" /\ client # "left") => closed /\ events = <<>>

(* A client that stays learns of a failure once: from the event            *)
(* agent-runtime has sent, or from the handler (Handler.stream,            *)
(* emittedError).                                                          *)
Errors == {i \in DOMAIN written : written[i] = "error"}

FailureShownOnce ==
  /\ \A i, j \in Errors : i = j
  /\ (hpc = "gone" /\ client # "left" /\ failed) => Errors # {}

(* "done" means done: nothing but the progress of a slow reader, or the    *)
(* failure of the run, reaches the client after it, though a step that     *)
(* ends with an Action says "done" as well (runControlStep).               *)
DoneIsLast ==
  \A i, j \in DOMAIN written :
    (written[i] = "done" /\ i < j) => written[j] \in {"progress", "error"}

(* A client that stays is shown a run to its end: all of it, a failure     *)
(* once, and nothing after "done" (Handler.stream, runControlStep).        *)
ShownToTheEnd == StreamComplete /\ FailureShownOnce /\ DoneIsLast

(* Closing the stream detaches presentation from execution                 *)
(* (docs/phase-2-control-plane.md): the context of a run that has not      *)
(* ended is cancelled by nothing but its timeout.                          *)
TaskOutlivesClient == rpc # "over" => ctx # "canceled"

(* What the client was told last is what the task is, once the run is      *)
(* over: "done" of a completed task or of one that waits for its user,     *)
(* "error" of one that has failed, was cancelled or waits (runControlLoop  *)
(* sets the outcome after the events that announce it, which may be lost). *)
(* The stream may fail after "done": then the task has failed, and a       *)
(* client that stays is told "error" as well.                              *)
Told(e) == \E i \in DOMAIN written : written[i] = e

OutcomeAsTold ==
  rpc = "over" =>
    /\ Told("done") =>
         \/ status = "COMPLETED" \/ Suspended
         \/ status = "FAILED" /\ (hpc = "gone" /\ client # "left" => Told("error"))
    /\ Told("error") => status \in {"FAILED", "CANCELLED"} \/ Suspended

(* A run goes on without its client, and its client is told what it has    *)
(* come to and no other end (the handler may return long before the run).  *)
DetachedAndTold == TaskOutlivesClient /\ OutcomeAsTold

(* A run ends, with its client stalled or gone, its device silent and      *)
(* agent-runtime hanging: backgroundStreamTimeout.                         *)
RunEnds == <>(rpc = "over")

(* The handler returns after the run, unless its client does not read.     *)
HandlerReturns == rpc = "over" ~> (hpc = "gone" \/ client = "stalled")

(* The read loop of the device survives the run's end ("Automated coverage *)
(* verifies ... race safety", docs/phase-2-control-plane.md).              *)
NoSendOnClosed == \A r \in Readers : ppc[r] # "panicked"
===============================================================================
