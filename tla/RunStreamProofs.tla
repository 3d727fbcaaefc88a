---------------------------- MODULE RunStreamProofs -----------------------------
(***************************************************************************)
(* What the client of a streamed run is shown and told, for any capacity   *)
(* of the channel, any number of iterations, events and readers; and what  *)
(* agent-runtime is asked in a run, for any runs, agents, memories, steps  *)
(* and limits.                                                             *)
(***************************************************************************)
EXTENDS RunStream, RunRequests, FiniteSetTheorems, SequenceTheorems, TLAPS

(* The two halves of the type: the variables of the run, and the others.   *)
RunTypeOK ==
  /\ rpc \in RunLabels /\ then \in RunLabels /\ orElse \in RunLabels
  /\ sending \in Kinds \cup {None}
  /\ iteration \in 1 .. MaxIterations
  /\ pending \in BOOLEAN /\ waiting \in BOOLEAN /\ failed \in BOOLEAN
  /\ verdict \in ObservationStatuses \cup {None}
  /\ status \in Terminal \cup {None}
  /\ forwarded \in 0 .. MaxForwarded

ElseTypeOK ==
  /\ progress \in 0 .. MaxProgress
  /\ ppc \in [Readers -> {"idle", "emit", "panicked"}]
  /\ events \in Seq(Kinds) /\ Len(events) <= Capacity
  /\ closed \in BOOLEAN /\ result \in BOOLEAN
  /\ ctx \in {"live", "expired", "canceled"}
  /\ hpc \in {"select", "write", "result", "report", "gone"}
  /\ writing \in Kinds \cup {None}
  /\ sawError \in BOOLEAN
  /\ written \in Seq(Kinds)
  /\ client \in {"reading", "stalled", "left"}

(* The types of the run, and those of everything else.                     *)
LEMMA Halves ==
  /\ TypeOK <=> RunTypeOK /\ ElseTypeOK
  /\ (RunTypeOK /\ ElseTypeOK)' => TypeOK'
BY DEF TypeOK, RunTypeOK, ElseTypeOK

(* What the run's steps leave alone keeps its types.                       *)
LEMMA ElseKept ==
  ASSUME ElseTypeOK, UNCHANGED elsewhere
  PROVE  ElseTypeOK'
BY DEF ElseTypeOK, elsewhere, readerVars, channelVars, handlerVars

(* The places and the kinds that steps name are among those there are.     *)
LEMMA Labels ==
  /\ {"step", "ended", "dispatch", "wait", "evaluate", "emit", "close", "result", "release", "over",
      "complete", "fail", "cancel", "suspend", "suspendFail"} \subseteq RunLabels
  /\ {"text", "action", "observation", "progress", "done", "error"} \subseteq Kinds
BY DEF RunLabels, Endings, Kinds

(* The steps of the run that change its own variables only.                *)
Steps ==
  \/ \E payload \in Payloads : StepForwards(payload)
  \/ StepEnds \/ StepReturns \/ StepFails \/ Dispatch \/ Evaluate \/ End

(* A step of the run keeps its types, and leaves the rest alone.           *)
LEMMA RunType ==
  ASSUME TypeOK, Steps
  PROVE  RunTypeOK' /\ UNCHANGED elsewhere
<1>0. RunTypeOK /\ ElseTypeOK
  BY Halves
<1> USE Labels DEF RunTypeOK, Emit, locals
<1>1. ASSUME NEW payload \in Payloads, StepForwards(payload) PROVE RunTypeOK' /\ UNCHANGED elsewhere
  <2>1. FromStreamEvent(payload) \in Kinds
    BY DEF FromStreamEvent, Payloads
  <2>2. pending' \in BOOLEAN
    <3>1. pending' = (pending \/ payload = "client.action")
      BY <1>1 DEF StepForwards
    <3> QED  BY <3>1, Zenon
  <2>3. forwarded' \in 0 .. MaxForwarded
    BY <1>0, <1>1, StreamAssumption DEF StepForwards, StreamAssumption
  <2>4. /\ rpc' = "emit" /\ then' = "step" /\ orElse' = "fail" /\ sending' \in Kinds
        /\ UNCHANGED <<iteration, waiting, verdict, failed, status, elsewhere>>
    BY <1>1, <2>1 DEF StepForwards
  <2> QED  BY <1>0, <2>2, <2>3, <2>4
<1>2. CASE StepEnds \/ StepReturns
  BY <1>0, <1>2 DEF StepEnds, StepReturns
<1>3. CASE StepFails
  BY <1>0, <1>3 DEF StepFails
<1>4. ASSUME NEW v \in ObservationStatuses, NEW error \in {"evaluate", "fail"}, Observed(v, error)
      PROVE  RunTypeOK' /\ UNCHANGED elsewhere
  BY <1>0, <1>4 DEF Observed
<1>5. CASE Dispatch
  <2>1. CASE rpc' = "fail" /\ UNCHANGED <<then, orElse, sending, locals, elsewhere>>
    BY <1>0, <2>1
  <2>2. CASE DispatchWaits
    BY <1>0, <2>2 DEF DispatchWaits
  <2>3. "FAILED" \in ObservationStatuses
    BY DEF ObservationStatuses
  <2> QED  BY <1>4, <1>5, <2>1, <2>2, <2>3
           DEF Dispatch, DispatchRefused, DispatchFails, DispatchReplays, DispatchAnswered
<1>6. CASE Evaluate
  <2>1. CASE Suspended
    BY <1>0, <1>6, <2>1 DEF Evaluate
  <2>2. CASE ~Suspended
    <3>1. /\ UNCHANGED <<then, orElse, sending, waiting, verdict, failed, status, forwarded, elsewhere>>
          /\ rpc' \in {"cancel", "fail", "step"}
          /\ pending' \in {pending, FALSE}
      BY <1>6, <2>2 DEF Evaluate
    <3>2. iteration' \in 1 .. MaxIterations
      BY <1>0, <1>6, <2>2, StreamAssumption DEF Evaluate, LastIteration, StreamAssumption
    <3> QED  BY <1>0, <3>1, <3>2
  <2> QED  BY <2>1, <2>2
<1>7. CASE End
  <2>1. /\ status' \in Terminal \cup {None}
        /\ UNCHANGED <<then, orElse, sending, iteration, pending, waiting, verdict, forwarded, elsewhere>>
        /\ rpc' = "close"
    BY <1>7 DEF End, Endings, Terminal
  <2>2. failed' \in BOOLEAN
    <3>1. failed' = (rpc \in {"fail", "cancel", "suspendFail"})
      BY <1>7 DEF End
    <3> QED  BY <3>1
  <2> QED  BY <1>0, <2>1, <2>2
<1> QED  BY <1>1, <1>2, <1>3, <1>5, <1>6, <1>7 DEF Steps

(* A sent event finds room, and keeps the channel within its capacity.     *)
LEMMA RoomKept ==
  ASSUME events \in Seq(Kinds), Len(events) <= Capacity, NEW e \in Kinds,
         \/ CanSend /\ events' = Append(events, e)
         \/ UNCHANGED events
  PROVE  events' \in Seq(Kinds) /\ Len(events') <= Capacity
<1>1. Capacity \in Nat /\ Len(events) \in Nat
  BY StreamAssumption DEF StreamAssumption
<1>2. Append(events, e) \in Seq(Kinds) /\ Len(Append(events, e)) = Len(events) + 1
  OBVIOUS
<1>3. CASE CanSend /\ events' = Append(events, e)
  <2>1. Len(events) + 1 <= Capacity
    BY <1>1, <1>3 DEF CanSend
  <2> QED  BY <1>2, <1>3, <2>1
<1> QED  BY <1>3

(* Every step keeps all types, given what an emit sends and the handler    *)
(* writes.                                                                 *)
LEMMA TypeStep ==
  ASSUME TypeOK, rpc = "emit" => sending \in Kinds, hpc = "write" => writing \in Kinds,
         [Next]_vars
  PROVE  TypeOK'
<1>0. RunTypeOK /\ ElseTypeOK
  BY Halves
<1>a. ASSUME UNCHANGED <<then, orElse, sending, locals>>, rpc' \in RunLabels PROVE RunTypeOK'
  BY <1>0, <1>a DEF RunTypeOK, locals
<1>b. ASSUME UNCHANGED runVars PROVE RunTypeOK'
  BY <1>0, <1>b DEF RunTypeOK, runVars, locals
<1> USE DEF ElseTypeOK, readerVars, channelVars, handlerVars
<1>1. CASE Emitted
  <2>1. RunTypeOK'
    BY <1>0, <1>1 DEF Emitted, RunTypeOK, locals
  <2>2. ElseTypeOK'
    <3>1. sending \in Kinds /\ ((CanSend /\ events' = Append(events, sending)) \/ UNCHANGED events)
      BY <1>1 DEF Emitted
    <3>2. events' \in Seq(Kinds) /\ Len(events') <= Capacity
      BY <1>0, <3>1, RoomKept
    <3> QED  BY <1>0, <1>1, <3>2 DEF Emitted
  <2> QED  BY <2>1, <2>2, Halves
<1>2. CASE CloseEvents \/ SendResult \/ CancelTask
  <2>1. RunTypeOK'
    BY <1>2, <1>a, Labels DEF CloseEvents, SendResult, CancelTask
  <2>2. ElseTypeOK'
    BY <1>0, <1>2 DEF CloseEvents, SendResult, CancelTask
  <2> QED  BY <2>1, <2>2, Halves
<1>3. ASSUME NEW r \in Readers, ReadProgress(r) \/ EmitProgress(r) PROVE TypeOK'
  <2>1. RunTypeOK'
    BY <1>3, <1>b DEF ReadProgress, EmitProgress
  <2>2. CASE ReadProgress(r)
    BY <1>0, <2>1, <2>2, Halves, StreamAssumption DEF ReadProgress, StreamAssumption
  <2>3. CASE EmitProgress(r)
    <3>1. (CanSend /\ events' = Append(events, "progress")) \/ UNCHANGED events
      BY <2>3 DEF EmitProgress
    <3>2. events' \in Seq(Kinds) /\ Len(events') <= Capacity
      BY <1>0, <3>1, RoomKept, Labels
    <3>3. ppc' \in [Readers -> {"idle", "emit", "panicked"}]
      BY <1>0, <2>3 DEF EmitProgress
    <3>4. ElseTypeOK'
      BY <1>0, <2>3, <3>2, <3>3 DEF EmitProgress
    <3> QED  BY <2>1, <3>4, Halves
  <2> QED  BY <1>3, <2>2, <2>3
<1>4. CASE HandlerTakes
  <2>1. Head(events) \in Kinds /\ Tail(events) \in Seq(Kinds) /\ Len(Tail(events)) <= Capacity
    BY <1>0, <1>4, StreamAssumption DEF HandlerTakes, StreamAssumption
  <2>2. sawError' \in BOOLEAN
    <3>1. sawError' = (sawError \/ Head(events) = "error")
      BY <1>4 DEF HandlerTakes
    <3> QED  BY <3>1, Zenon
  <2>3. ElseTypeOK'
    BY <1>0, <1>4, <2>1, <2>2 DEF HandlerTakes
  <2> QED  BY <1>4, <1>b, <2>3, Halves DEF HandlerTakes
<1>5. CASE HandlerWrites \/ HandlerReports
  <2>1. written' \in Seq(Kinds)
    <3>1. Append(written, "error") \in Seq(Kinds)
      BY <1>0, Labels
    <3>2. hpc = "write" => Append(written, writing) \in Seq(Kinds)
      BY <1>0
    <3> QED  BY <1>0, <1>5, <3>1, <3>2 DEF HandlerWrites, HandlerReports
  <2>2. ElseTypeOK'
    BY <1>0, <1>5, <2>1 DEF HandlerWrites, HandlerReports
  <2> QED  BY <1>5, <1>b, <2>2, Halves DEF HandlerWrites, HandlerReports
<1>6. CASE HandlerLeaves \/ HandlerEnds \/ HandlerResult
  <2>1. ElseTypeOK'
    BY <1>0, <1>6 DEF HandlerLeaves, HandlerEnds, HandlerResult
  <2> QED  BY <1>6, <1>b, <2>1, Halves DEF HandlerLeaves, HandlerEnds, HandlerResult
<1>7. CASE ClientStalls \/ ClientLeaves \/ Timeout
  <2>1. ElseTypeOK'
    BY <1>0, <1>7 DEF ClientStalls, ClientLeaves, Timeout
  <2> QED  BY <1>7, <1>b, <2>1, Halves DEF ClientStalls, ClientLeaves, Timeout
<1>8. CASE UNCHANGED vars
  BY <1>0, <1>8, <1>b, ElseKept, Halves DEF vars
<1>9. CASE Steps
  BY <1>0, <1>9, RunType, ElseKept, Halves
<1> QED  BY <1>1, <1>2, <1>3, <1>4, <1>5, <1>6, <1>7, <1>8, <1>9
         DEF Next, Steps, Finish, Handle

-------------------------------------------------------------------------------
(* What the run's own variables say of each other.                         *)
After == {"close", "result", "release", "over"}

RunInv ==
  /\ rpc = "emit" =>
       /\ sending \in Kinds
       /\ sending = "error" => then = "fail" /\ orElse = "fail"
       /\ IF sending = "done" THEN then \in {"ended", "suspend"}
          ELSE then \in {"step", "fail", "evaluate"}
       /\ orElse \in {"fail", "evaluate", "suspendFail"}
       /\ (then = "suspend" \/ orElse = "suspendFail") => Suspended
  /\ rpc \in {"suspend", "suspendFail"} => Suspended
  /\ rpc \in After => (status = "FAILED" => failed)
  /\ failed => rpc \in After /\ (status \in {"FAILED", "CANCELLED"} \/ Suspended)
  /\ closed <=> rpc \in {"result", "release", "over"}
  /\ result <=> rpc \in {"release", "over"}
  /\ TaskOutlivesClient

(* The run goes on having, wherever it is, what the code there reads.      *)
LEMMA RunInvSteps ==
  ASSUME RunInv, Steps
  PROVE  RunInv'
<1> USE DEF RunInv, TaskOutlivesClient, After, Suspended, Emit, elsewhere, channelVars, locals
<1>1. ASSUME NEW payload \in Payloads, StepForwards(payload) PROVE RunInv'
  <2>1. FromStreamEvent(payload) \in Kinds /\ FromStreamEvent(payload) \notin {"error", "done"}
    BY DEF FromStreamEvent, Payloads, Kinds
  <2> QED  BY <1>1, <2>1 DEF StepForwards
<1>2. CASE StepEnds \/ StepReturns \/ StepFails
  BY <1>2, Labels DEF StepEnds, StepReturns, StepFails
<1>3. ASSUME rpc \in {"dispatch", "wait"}, NEW v, NEW error \in {"evaluate", "fail"},
             Observed(v, error)
      PROVE  RunInv'
  BY <1>3, Labels DEF Observed
<1>4. CASE Dispatch
  <2>1. CASE DispatchRefused
    BY <1>3, <2>1 DEF DispatchRefused
  <2>2. CASE DispatchWaits
    BY <2>2 DEF DispatchWaits
  <2> QED  BY <1>3, <1>4, <2>1, <2>2
           DEF Dispatch, DispatchFails, DispatchReplays, DispatchAnswered
<1>5. CASE Evaluate
  BY <1>5, Labels DEF Evaluate
<1>6. CASE End
  <2>0. failed' = (rpc \in {"fail", "cancel", "suspendFail"})
    BY <1>6 DEF End
  <2>1. rpc \in Endings /\ rpc' = "close" /\ UNCHANGED <<verdict, closed, result, ctx>>
    BY <1>6 DEF End
  <2>3. /\ rpc = "fail" => status' = "FAILED"
        /\ rpc = "cancel" => status' = "CANCELLED"
        /\ status' = "FAILED" => rpc = "fail"
    <3>1. status' = CASE rpc = "complete" -> "COMPLETED"
                      [] rpc = "fail"     -> "FAILED"
                      [] rpc = "cancel"   -> "CANCELLED"
                      [] OTHER            -> None
      BY <1>6 DEF End
    <3> QED  BY <3>1, StreamAssumption DEF StreamAssumption, Terminal
  <2>2. /\ failed' => rpc \in {"fail", "cancel", "suspendFail"}
        /\ rpc = "fail" => failed'
    BY <2>0
  <2> QED  BY <2>1, <2>2, <2>3 DEF Endings
<1> QED  BY <1>1, <1>2, <1>4, <1>5, <1>6 DEF Steps

(* So it does whatever the handler and the readers do.                     *)
LEMMA RunInvStep ==
  ASSUME RunInv, [Next]_vars
  PROVE  RunInv'
<1> USE DEF RunInv, TaskOutlivesClient, After, Suspended, channelVars, locals, runVars, readerVars,
            handlerVars
<1>1. CASE Emitted
  BY <1>1 DEF Emitted
<1>2. CASE CloseEvents \/ SendResult \/ CancelTask
  BY <1>2 DEF CloseEvents, SendResult, CancelTask
<1>3. ASSUME NEW r \in Readers, ReadProgress(r) \/ EmitProgress(r) PROVE RunInv'
  BY <1>3 DEF ReadProgress, EmitProgress
<1>4. CASE Handle
  BY <1>4 DEF Handle, HandlerLeaves, HandlerTakes, HandlerWrites, HandlerEnds, HandlerResult,
              HandlerReports
<1>5. CASE ClientStalls \/ ClientLeaves \/ Timeout
  BY <1>5 DEF ClientStalls, ClientLeaves, Timeout
<1>6. CASE UNCHANGED vars
  BY <1>6 DEF vars, elsewhere
<1> QED  BY <1>1, <1>2, <1>3, <1>4, <1>5, <1>6, RunInvSteps DEF Next, Steps, Finish

-------------------------------------------------------------------------------
(* Sequences of events.                                                    *)
In(e, s) == \E i \in DOMAIN s : s[i] = e

Ordered(s) ==
  \A i, j \in DOMAIN s : (s[i] = "done" /\ i < j) => s[j] \in {"progress", "error"}

OneError(s) == \A i, j \in DOMAIN s : (s[i] = "error" /\ s[j] = "error") => i = j

AfterDone(s) == \A i \in DOMAIN s : s[i] \in {"progress", "error"}

(* What one more event does to a sequence: in the order of their kinds,    *)
(* with one error at most, and nothing but progress or an error after      *)
(* done.                                                                   *)
LEMMA AppendEvent ==
  ASSUME NEW s \in Seq(Kinds), NEW e \in Kinds
  PROVE  /\ \A d : In(d, Append(s, e)) <=> In(d, s) \/ d = e
         /\ Ordered(s) /\ (In("done", s) => e \in {"progress", "error"}) => Ordered(Append(s, e))
         /\ OneError(s) /\ ~(e = "error" /\ In("error", s)) => OneError(Append(s, e))
         /\ AfterDone(s) /\ e \in {"progress", "error"} => AfterDone(Append(s, e))
<1>1. /\ DOMAIN s = 1 .. Len(s) /\ DOMAIN Append(s, e) = 1 .. (Len(s) + 1) /\ Len(s) \in Nat
      /\ \A i \in 1 .. Len(s) : Append(s, e)[i] = s[i]
      /\ Append(s, e)[Len(s) + 1] = e
  OBVIOUS
<1> DEFINE t == Append(s, e)
           n == Len(s)
<1> HIDE DEF t
<1>2. /\ DOMAIN s = 1 .. n /\ DOMAIN t = 1 .. (n + 1) /\ n \in Nat
      /\ \A i \in 1 .. n : t[i] = s[i]
      /\ t[n + 1] = e
  BY <1>1 DEF t
<1> HIDE DEF n
<1>3. \A d : In(d, t) <=> In(d, s) \/ d = e
  BY <1>2 DEF In
<1>4. Ordered(s) /\ (In("done", s) => e \in {"progress", "error"}) => Ordered(t)
  BY <1>2 DEF In, Ordered
<1>5. OneError(s) /\ ~(e = "error" /\ In("error", s)) => OneError(t)
  BY <1>2 DEF In, OneError
<1>6. AfterDone(s) /\ e \in {"progress", "error"} => AfterDone(t)
  BY <1>2 DEF AfterDone
<1> QED  BY <1>3, <1>4, <1>5, <1>6 DEF t

(* What is left of a sequence when its first event is taken.               *)
LEMMA TakeEvent ==
  ASSUME NEW s \in Seq(Kinds), s # <<>>
  PROVE  /\ Head(s) \in Kinds /\ In(Head(s), s)
         /\ \A d : In(d, Tail(s)) => In(d, s)
         /\ Ordered(s) => Ordered(Tail(s)) /\ (Head(s) = "done" => AfterDone(Tail(s)))
         /\ OneError(s) => OneError(Tail(s)) /\ (Head(s) = "error" => ~In("error", Tail(s)))
         /\ AfterDone(s) => AfterDone(Tail(s)) /\ Head(s) \in {"progress", "error"}
<1> DEFINE t == Tail(s)
           h == Head(s)
           n == Len(s)
<1>1. /\ DOMAIN s = 1 .. n /\ DOMAIN t = 1 .. (n - 1) /\ n \in Nat /\ n > 0
      /\ \A i \in 1 .. (n - 1) : t[i] = s[i + 1]
      /\ h = s[1] /\ h \in Kinds
  OBVIOUS
<1> HIDE DEF t, h, n
<1>2. h \in Kinds /\ In(h, s)
  BY <1>1 DEF In
<1>3. \A d : In(d, t) => In(d, s)
  BY <1>1 DEF In
<1>4. Ordered(s) => Ordered(t) /\ (h = "done" => AfterDone(t))
  <2> SUFFICES ASSUME Ordered(s) PROVE Ordered(t) /\ (h = "done" => AfterDone(t))
    OBVIOUS
  <2>1. \A i \in DOMAIN t : i + 1 \in DOMAIN s /\ t[i] = s[i + 1] /\ 1 < i + 1
    BY <1>1
  <2>2. ASSUME NEW i \in DOMAIN t, NEW j \in DOMAIN t, t[i] = "done", i < j
        PROVE  t[j] \in {"progress", "error"}
    BY <1>1, <2>1, <2>2 DEF Ordered
  <2>3. ASSUME h = "done", NEW i \in DOMAIN t PROVE t[i] \in {"progress", "error"}
    <3>1. 1 \in DOMAIN s /\ s[1] = "done"
      BY <1>1, <2>3
    <3>2. i + 1 \in DOMAIN s /\ 1 < i + 1 /\ t[i] = s[i + 1]
      BY <2>1, <2>3
    <3> QED  BY <3>1, <3>2 DEF Ordered
  <2> QED  BY <2>2, <2>3 DEF Ordered, AfterDone
<1>5. OneError(s) => OneError(t) /\ (h = "error" => ~In("error", t))
  <2> SUFFICES ASSUME OneError(s) PROVE OneError(t) /\ (h = "error" => ~In("error", t))
    OBVIOUS
  <2>1. \A i \in DOMAIN t : i + 1 \in DOMAIN s /\ t[i] = s[i + 1] /\ 1 # i + 1
    BY <1>1
  <2>2. ASSUME NEW i \in DOMAIN t, NEW j \in DOMAIN t, t[i] = "error", t[j] = "error" PROVE i = j
    <3>1. i + 1 = j + 1
      BY <2>1, <2>2 DEF OneError
    <3> QED  BY <1>1, <3>1
  <2>3. ASSUME h = "error", NEW i \in DOMAIN t PROVE t[i] # "error"
    <3>1. 1 \in DOMAIN s /\ s[1] = "error"
      BY <1>1, <2>3
    <3>2. i + 1 \in DOMAIN s /\ 1 # i + 1 /\ t[i] = s[i + 1]
      BY <2>1, <2>3
    <3> QED  BY <3>1, <3>2 DEF OneError
  <2> QED  BY <2>2, <2>3 DEF OneError, In
<1>6. AfterDone(s) => AfterDone(t) /\ h \in {"progress", "error"}
  BY <1>1 DEF AfterDone
<1> QED  BY <1>2, <1>3, <1>4, <1>5, <1>6 DEF t, h

-------------------------------------------------------------------------------
(* Where a "done" and an "error" of the run may be, on the way from the    *)
(* run to the client, and what the run has come to then.                   *)
DonePassed == In("done", written) \/ writing = "done" \/ In("done", events)
ErrorPassed == sawError \/ In("error", events)

(* A stream that has said "done" may fail after it.                        *)
Completed ==
  \/ rpc \in {"ended", "complete", "suspend", "fail"}
  \/ rpc = "emit" /\ sending = "error"
  \/ rpc \in After /\ (status \in {"COMPLETED", "FAILED"} \/ Suspended)

Failing == rpc = "fail" \/ (rpc \in After /\ failed /\ status = "FAILED")

OrderInv ==
  /\ Ordered(written) /\ Ordered(events)
  /\ In("done", written) => writing \in {None, "progress", "error"}
  /\ In("done", written) \/ writing = "done" => AfterDone(events)
  /\ DonePassed => Completed

ErrorInv ==
  /\ OneError(written) /\ OneError(events)
  /\ ErrorPassed => Failing
  /\ sawError => ~In("error", events)
  /\ writing = "error" => sawError /\ ~In("error", written)
  /\ In("error", written) => sawError \/ (hpc = "gone" /\ failed)

(* What the handler knows when its loop is through.                        *)
LoopInv ==
  /\ IF hpc = "write" THEN writing \in Kinds ELSE writing = None
  /\ hpc \in {"result", "report"} => closed /\ events = <<>>
  /\ hpc = "report" => result /\ failed /\ ~sawError
  /\ (hpc = "gone" /\ client # "left") =>
       closed /\ events = <<>> /\ result /\ (failed => In("error", written))
  /\ (sawError /\ client # "left") => writing = "error" \/ In("error", written)

StreamInv == TypeOK /\ RunInv /\ OrderInv /\ ErrorInv /\ LoopInv

(* Steps of the run that leave the stream alone.  What has passed, it had  *)
(* to have ended for.                                                      *)
LEMMA QuietKeeps ==
  ASSUME StreamInv, UNCHANGED <<written, writing, events, sawError, hpc, client>>,
         closed => closed', result => result' /\ failed' = failed,
         Completed => Completed', Failing => Failing', failed => failed'
  PROVE  OrderInv' /\ ErrorInv' /\ LoopInv'
<1> USE DEF StreamInv
<1>1. OrderInv'
  BY DEF OrderInv, DonePassed
<1>2. ErrorInv'
  BY DEF ErrorInv, ErrorPassed
<1>3. LoopInv'
  BY DEF LoopInv
<1> QED  BY <1>1, <1>2, <1>3

(* A step of the run that sends nothing.                                   *)
LEMMA RunSteps ==
  ASSUME StreamInv, Steps \/ CloseEvents \/ SendResult \/ CancelTask
  PROVE  OrderInv' /\ ErrorInv' /\ LoopInv'
<1> USE DEF StreamInv, RunInv, elsewhere, channelVars, handlerVars, readerVars, locals, After
<1>1. UNCHANGED <<written, writing, events, sawError, hpc, client>>
  <2>1. CASE Steps
    BY <2>1, RunType
  <2>2. CASE CloseEvents \/ SendResult \/ CancelTask
    BY <2>2 DEF CloseEvents, SendResult, CancelTask
  <2> QED  BY <2>1, <2>2
<1>2. CASE CloseEvents \/ SendResult \/ CancelTask
  <2>1. /\ Completed => Completed'
        /\ Failing => Failing'
        /\ closed => closed'
        /\ result => result'
        /\ UNCHANGED failed
    BY <1>2 DEF CloseEvents, SendResult, CancelTask, Completed, Failing, Suspended
  <2> QED  BY <1>1, <2>1, QuietKeeps
<1>3. CASE End
  <2>1. /\ Completed => Completed'
        /\ Failing => Failing'
        /\ UNCHANGED <<closed, result>>
        /\ ~result /\ ~failed
    BY <1>3 DEF End, Endings, Completed, Failing, Suspended
  <2> QED  BY <1>1, <2>1, QuietKeeps
<1>4. CASE Steps /\ ~End
  <2>1. ~Failing /\ (Completed => Completed') /\ UNCHANGED <<closed, result, failed>>
    BY <1>4 DEF Steps, StepForwards, StepEnds, StepReturns, StepFails, Emit, Dispatch, DispatchRefused, DispatchWaits,
                DispatchFails, DispatchReplays, DispatchAnswered, Observed, Evaluate, Completed, Failing
  <2> QED  BY <1>1, <2>1, QuietKeeps
<1> QED  BY <1>2, <1>3, <1>4

(* An event is sent: the run's, which is not at its end, or a reader's,    *)
(* which is progress.                                                      *)
LEMMA EventSent ==
  ASSUME StreamInv, NEW e \in Kinds, CanSend, events' = Append(events, e),
         UNCHANGED <<written, writing, sawError, hpc, client, closed, result, status, failed, verdict>>,
         \/ e = "progress" /\ UNCHANGED <<rpc, sending>>
         \/ /\ rpc = "emit" /\ rpc' \notin After
            /\ e = sending
            /\ e = "done" => rpc' \in {"ended", "suspend"}
            /\ e = "error" => rpc' = "fail"
  PROVE  OrderInv' /\ ErrorInv' /\ LoopInv'
<1> USE DEF StreamInv
<1>1. events \in Seq(Kinds)
  BY DEF TypeOK
<1>2. /\ \A d : In(d, events') <=> In(d, events) \/ d = e
      /\ Ordered(events) /\ (In("done", events) => e \in {"progress", "error"}) => Ordered(events')
      /\ OneError(events) /\ ~(e = "error" /\ In("error", events)) => OneError(events')
      /\ AfterDone(events) /\ e \in {"progress", "error"} => AfterDone(events')
  BY <1>1, AppendEvent
<1>3. rpc = "emit" => (Completed => sending = "error") /\ ~Failing
  BY DEF Completed, Failing, After
<1>4. /\ Completed => Completed'
      /\ Failing => Failing'
      /\ e = "done" => Completed'
      /\ e = "error" => Failing'
  BY <1>3 DEF Completed, Failing, Suspended
<1>5. /\ e = "done" \/ e = "error" => rpc = "emit"
      /\ rpc = "emit" => ~ErrorPassed
      /\ DonePassed => e \in {"progress", "error"}
      /\ rpc # "emit" => e = "progress"
  BY <1>3 DEF OrderInv, ErrorInv
<1>6. OrderInv'
  BY <1>2, <1>4, <1>5 DEF OrderInv, DonePassed
<1>7. ErrorInv'
  BY <1>2, <1>4, <1>5 DEF ErrorInv, ErrorPassed
<1>8. LoopInv'
  BY DEF LoopInv, CanSend
<1> QED  BY <1>6, <1>7, <1>8

(* An emit, of the run or of a reader, and what a reader reads.            *)
LEMMA EmitSteps ==
  ASSUME StreamInv, Emitted \/ \E r \in Readers : ReadProgress(r) \/ EmitProgress(r)
  PROVE  OrderInv' /\ ErrorInv' /\ LoopInv'
<1> USE DEF StreamInv, handlerVars, channelVars, runVars, readerVars, locals
<1>1. CASE Emitted
  <2>0. /\ rpc = "emit" /\ sending \in Kinds /\ rpc' \in {then, orElse} /\ rpc' \notin After
        /\ UNCHANGED <<written, writing, sawError, hpc, client, closed, result, status, failed, verdict>>
    BY <1>1 DEF Emitted, RunInv, After
  <2>1. CASE CanSend /\ events' = Append(events, sending) /\ rpc' = then
    BY <2>0, <2>1, EventSent DEF RunInv
  <2>2. CASE UNCHANGED events
    <3>1. ~Failing /\ (Completed => Completed')
      BY <2>0 DEF Completed, Failing, After, RunInv
    <3> QED  BY <2>0, <2>2, <3>1, QuietKeeps
  <2> QED  BY <1>1, <2>1, <2>2 DEF Emitted
<1>2. ASSUME NEW r \in Readers, ReadProgress(r) \/ EmitProgress(r)
      PROVE  OrderInv' /\ ErrorInv' /\ LoopInv'
  <2>0. UNCHANGED <<rpc, sending, written, writing, sawError, hpc, client, closed, result, status, failed,
                    verdict>>
    BY <1>2 DEF ReadProgress, EmitProgress
  <2>1. CASE CanSend /\ events' = Append(events, "progress")
    BY <2>0, <2>1, EventSent, Labels
  <2>2. CASE UNCHANGED events
    <3>1. /\ Completed => Completed'
          /\ Failing => Failing'
      BY <2>0 DEF Completed, Failing, Suspended
    <3> QED  BY <2>0, <2>2, <3>1, QuietKeeps
  <2> QED  BY <1>2, <2>1, <2>2 DEF ReadProgress, EmitProgress
<1> QED  BY <1>1, <1>2

-------------------------------------------------------------------------------
(* The handler's steps.                                                    *)
LEMMA TakeStep ==
  ASSUME StreamInv, HandlerTakes
  PROVE  OrderInv' /\ ErrorInv' /\ LoopInv'
<1> USE DEF StreamInv, HandlerTakes, channelVars, runVars, readerVars, locals
<1>1. events \in Seq(Kinds) /\ events # <<>> /\ writing = None /\ hpc = "select"
  BY DEF TypeOK, LoopInv
<1>2. /\ Head(events) \in Kinds /\ In(Head(events), events)
      /\ \A d : In(d, events') => In(d, events)
      /\ Ordered(events) => Ordered(events') /\ (Head(events) = "done" => AfterDone(events'))
      /\ OneError(events) => OneError(events') /\ (Head(events) = "error" => ~In("error", events'))
      /\ AfterDone(events) => AfterDone(events') /\ Head(events) \in {"progress", "error"}
  BY <1>1, TakeEvent
<1> DEFINE h == Head(events)
<1>3. /\ writing' = h /\ (sawError' <=> sawError \/ h = "error")
      /\ UNCHANGED <<written, client, closed, result, failed>> /\ hpc' = "write"
  OBVIOUS
<1>4. /\ Completed => Completed'
      /\ Failing => Failing'
  BY DEF Completed, Failing, Suspended
<1> HIDE DEF h, HandlerTakes
<1>5. OrderInv'
  BY <1>2, <1>3, <1>4 DEF OrderInv, DonePassed, h
<1>6. ErrorInv'
  BY <1>1, <1>2, <1>3, <1>4 DEF ErrorInv, ErrorPassed, h
<1>7. LoopInv'
  <2>1. sawError => client = "left" \/ In("error", written)
    BY <1>1, StreamAssumption DEF LoopInv, StreamAssumption
  <2> QED  BY <1>1, <1>2, <1>3, <2>1 DEF LoopInv, h
<1> QED  BY <1>5, <1>6, <1>7

(* The handler writes the event it has taken.                              *)
LEMMA WriteStep ==
  ASSUME StreamInv, HandlerWrites
  PROVE  OrderInv' /\ ErrorInv' /\ LoopInv'
<1> USE DEF StreamInv, HandlerWrites, channelVars, runVars, readerVars, locals
<1>1. hpc = "write" /\ writing \in Kinds /\ written \in Seq(Kinds) /\ writing' = None
  BY DEF TypeOK, LoopInv
<1>2. /\ Completed => Completed'
      /\ Failing => Failing'
      /\ None \notin Kinds
  BY StreamAssumption DEF Completed, Failing, Suspended, StreamAssumption, Kinds
<1>3. CASE client = "reading" /\ written' = Append(written, writing) /\ hpc' = "select"
  <2>1. /\ \A d : In(d, written') <=> In(d, written) \/ d = writing
        /\ Ordered(written) /\ (In("done", written) => writing \in {"progress", "error"})
             => Ordered(written')
        /\ OneError(written) /\ ~(writing = "error" /\ In("error", written)) => OneError(written')
    BY <1>1, <1>3, AppendEvent
  <2>2. UNCHANGED <<events, sawError, client, closed, result, failed>>
    BY <1>3
  <2> HIDE DEF HandlerWrites
  <2>3. OrderInv'
    BY <1>1, <1>2, <2>1, <2>2, Labels DEF OrderInv, DonePassed
  <2>4. ErrorInv'
    BY <1>1, <1>2, <1>3, <2>1, <2>2, Labels DEF ErrorInv, ErrorPassed
  <2>5. LoopInv'
    BY <1>1, <1>3, <2>1, <2>2 DEF LoopInv
  <2> QED  BY <2>3, <2>4, <2>5
<1>4. CASE client = "left" /\ hpc' \in {"select", "gone"} /\ UNCHANGED written
  <2>1. UNCHANGED <<written, events, sawError, client, closed, result, failed>>
    BY <1>4
  <2> HIDE DEF HandlerWrites
  <2>2. OrderInv'
    BY <1>1, <1>2, <2>1, Labels DEF OrderInv, DonePassed
  <2>3. ErrorInv'
    BY <1>1, <1>2, <1>4, <2>1, Labels DEF ErrorInv, ErrorPassed
  <2>4. LoopInv'
    BY <1>1, <1>4, <2>1 DEF LoopInv
  <2> QED  BY <2>2, <2>3, <2>4
<1> QED  BY <1>3, <1>4

(* The handler reports the failure of the run, when the channel is closed. *)
LEMMA ReportStep ==
  ASSUME StreamInv, HandlerReports
  PROVE  OrderInv' /\ ErrorInv' /\ LoopInv'
<1> USE DEF StreamInv, HandlerReports, channelVars, runVars, readerVars, locals
<1>1. /\ hpc = "report" /\ written \in Seq(Kinds) /\ writing = None /\ events = <<>> /\ closed
      /\ result /\ failed /\ ~sawError /\ hpc' = "gone"
      /\ ~In("error", written)
  BY DEF TypeOK, LoopInv, ErrorInv
<1>2. /\ Completed => Completed'
      /\ Failing => Failing'
      /\ UNCHANGED <<writing, events, sawError, client, closed, result, failed>>
  BY DEF Completed, Failing, Suspended
<1>3. CASE client = "reading" /\ written' = Append(written, "error")
  <2>1. /\ \A d : In(d, written') <=> In(d, written) \/ d = "error"
        /\ Ordered(written) => Ordered(written')
        /\ OneError(written) => OneError(written')
    BY <1>1, <1>3, AppendEvent, Labels
  <2> HIDE DEF HandlerReports
  <2>2. OrderInv'
    BY <1>1, <1>2, <2>1 DEF OrderInv, DonePassed
  <2>3. ErrorInv'
    BY <1>1, <1>2, <2>1, StreamAssumption DEF ErrorInv, ErrorPassed, StreamAssumption
  <2>4. LoopInv'
    BY <1>1, <1>2, <2>1 DEF LoopInv
  <2> QED  BY <2>2, <2>3, <2>4
<1>4. CASE client = "left" /\ UNCHANGED written
  <2> HIDE DEF HandlerReports
  <2>1. OrderInv'
    BY <1>1, <1>2, <1>4 DEF OrderInv, DonePassed
  <2>2. ErrorInv'
    BY <1>1, <1>2, <1>4 DEF ErrorInv, ErrorPassed
  <2>3. LoopInv'
    BY <1>1, <1>2, <1>4 DEF LoopInv
  <2> QED  BY <2>1, <2>2, <2>3
<1> QED  BY <1>3, <1>4

(* The steps of the handler that write nothing, and of its client.         *)
LEMMA LookStep ==
  ASSUME StreamInv,
         \/ HandlerLeaves \/ HandlerEnds \/ HandlerResult
         \/ ClientStalls \/ ClientLeaves \/ Timeout \/ UNCHANGED vars
  PROVE  OrderInv' /\ ErrorInv' /\ LoopInv'
<1> USE DEF StreamInv, channelVars, runVars, readerVars, handlerVars, elsewhere, locals
<1>1. /\ Completed => Completed'
      /\ Failing => Failing'
      /\ UNCHANGED <<written, writing, events, sawError, closed, result, failed>>
      /\ hpc = "gone" => hpc' = "gone"
  BY DEF HandlerLeaves, HandlerEnds, HandlerResult, ClientStalls, ClientLeaves, Timeout, vars,
         Completed, Failing, Suspended
<1>2. OrderInv'
  BY <1>1 DEF OrderInv, DonePassed
<1>3. ErrorInv'
  BY <1>1 DEF ErrorInv, ErrorPassed
<1>4. LoopInv'
  <2>1. CASE HandlerLeaves \/ HandlerEnds
    BY <1>1, <2>1 DEF LoopInv, HandlerLeaves, HandlerEnds
  <2>2. CASE HandlerResult
    <3>1. client # "left" => (sawError => In("error", written))
      BY <2>2, StreamAssumption DEF LoopInv, HandlerResult, StreamAssumption
    <3> QED  BY <1>1, <2>2, <3>1 DEF LoopInv, HandlerResult
  <2>3. CASE ClientStalls \/ ClientLeaves \/ Timeout \/ UNCHANGED vars
    BY <1>1, <2>3 DEF LoopInv, ClientStalls, ClientLeaves, Timeout, vars
  <2> QED  BY <2>1, <2>2, <2>3
<1> QED  BY <1>2, <1>3, <1>4

(* At the start nothing was sent or written.                               *)
LEMMA StreamInit ==
  ASSUME Init
  PROVE  StreamInv
<1> USE DEF Init
<1>1. TypeOK
  <2>1. RunTypeOK
    <3>1. 1 \in 1 .. MaxIterations /\ 0 \in 0 .. MaxForwarded
      BY StreamAssumption DEF StreamAssumption
    <3> QED  BY <3>1, Labels DEF RunTypeOK
  <2>2. ElseTypeOK
    <3>1. 0 \in 0 .. MaxProgress
      BY StreamAssumption DEF StreamAssumption
    <3>2. <<>> \in Seq(Kinds) /\ Len(<<>>) <= Capacity
      BY StreamAssumption DEF StreamAssumption
    <3> QED  BY <3>1, <3>2 DEF ElseTypeOK
  <2> QED  BY <2>1, <2>2, Halves
<1>2. RunInv
  BY DEF RunInv, TaskOutlivesClient, After
<1>3. None \notin Kinds
  BY StreamAssumption DEF StreamAssumption, Kinds
<1>4. OrderInv
  BY <1>3, Labels DEF OrderInv, DonePassed, In, Ordered, AfterDone
<1>5. ErrorInv
  BY <1>3, Labels DEF ErrorInv, ErrorPassed, In, OneError
<1>6. LoopInv
  BY DEF LoopInv
<1> QED  BY <1>1, <1>2, <1>4, <1>5, <1>6 DEF StreamInv

(* Every step keeps the invariant.                                         *)
LEMMA StreamStep ==
  ASSUME StreamInv, [Next]_vars
  PROVE  StreamInv'
<1>1. TypeOK'
  <2>1. rpc = "emit" => sending \in Kinds
    BY DEF StreamInv, RunInv
  <2>2. hpc = "write" => writing \in Kinds
    BY DEF StreamInv, LoopInv
  <2> QED  BY <2>1, <2>2, TypeStep DEF StreamInv
<1>2. RunInv'
  BY RunInvStep DEF StreamInv
<1>3. OrderInv' /\ ErrorInv' /\ LoopInv'
  BY RunSteps, EmitSteps, TakeStep, WriteStep, ReportStep, LookStep
  DEF Next, Steps, Finish, Handle
<1> QED  BY <1>1, <1>2, <1>3 DEF StreamInv

(* The invariant says what the client is shown.                            *)
LEMMA StreamShows ==
  ASSUME StreamInv
  PROVE  TypeOK /\ ShownToTheEnd /\ TaskOutlivesClient /\ OutcomeAsTold
<1> USE DEF StreamInv
<1>1. StreamComplete
  BY DEF StreamComplete, LoopInv
<1>2. FailureShownOnce
  BY DEF FailureShownOnce, Errors, ErrorInv, LoopInv, OneError, In
<1>3. DoneIsLast
  BY DEF DoneIsLast, OrderInv, Ordered
<1>4. OutcomeAsTold
  <2> SUFFICES ASSUME rpc = "over"
               PROVE  /\ Told("done") =>
                           \/ status = "COMPLETED" \/ Suspended
                           \/ status = "FAILED" /\ (hpc = "gone" /\ client # "left" => Told("error"))
                      /\ Told("error") => status \in {"FAILED", "CANCELLED"} \/ Suspended
    BY DEF OutcomeAsTold
  <2>1. Told("done") => status \in {"COMPLETED", "FAILED"} \/ Suspended
    BY DEF Told, OrderInv, DonePassed, In, Completed
  <2>3. status = "FAILED" /\ hpc = "gone" /\ client # "left" => Told("error")
    BY DEF RunInv, After, LoopInv, Told, In
  <2>2. Told("error") => failed
    BY DEF Told, ErrorInv, ErrorPassed, In, Failing
  <2> QED  BY <2>1, <2>2, <2>3 DEF RunInv
<1> QED  BY <1>1, <1>2, <1>3, <1>4 DEF ShownToTheEnd, RunInv

(* The state of a streamed run has its type.                               *)
THEOREM StreamTypeCorrect == Spec => []TypeOK
<1>1. StreamInv => TypeOK
  BY DEF StreamInv
<1> QED  BY <1>1, StreamInit, StreamStep, PTL DEF Spec

(* A client that stays is shown a run to its end, a failure once, and      *)
(* nothing after "done" (Handler.stream, runControlLoop).                  *)
THEOREM ClientShownToTheEnd == Spec => []ShownToTheEnd
<1>1. StreamInv => ShownToTheEnd
  BY StreamShows
<1> QED  BY <1>1, StreamInit, StreamStep, PTL DEF Spec

(* A run's context is cancelled by its end or its timeout only, and what   *)
(* the client was told last of the end is what the task has come to: if    *)
(* the stream fails after "done", a client that stays is told "error" as   *)
(* well (Handler.stream, consumeStream, runControlLoop).                   *)
THEOREM RunDetachedAndTold == Spec => []DetachedAndTold
<1>1. StreamInv => DetachedAndTold
  BY StreamShows DEF DetachedAndTold
<1> QED  BY <1>1, StreamInit, StreamStep, PTL DEF Spec

-------------------------------------------------------------------------------
(* What agent-runtime is asked.                                            *)

(* Rows of memory are written one after another, and none goes away.       *)
Present == {m \in Memory : memory[m] # Nobody}
LeftBy(q) == {m \in Memory : memory[m] # Nobody /\ memory[m].from = q}

RowsOrdered ==
  /\ \A m \in Present : memory[m].at < Cardinality(Present)
  /\ \A m, n \in Present : memory[m].at = memory[n].at => m = n

(* A row that a run has left is of its agent; as many are there as entries *)
(* were stored, and nobody adds to them once the run is answered.          *)
LeftKept ==
  \A m \in Present : memory[m].from \in Run =>
    /\ runs[memory[m].from].pc \in {"store", "answered"}
    /\ memory[m].user = "me" /\ memory[m].agent = runs[memory[m].from].ask.agent

StoredSoFar(q) ==
  /\ AtPc(q, "store") => Cardinality(LeftBy(q)) + Len(runs[q].entries) = Len(runs[q].leaves)
  /\ (~AtPc(q, "idle") /\ runs[q].whole) =>
       AtPc(q, "answered") /\ Cardinality(LeftBy(q)) = Len(runs[q].leaves)

(* What a run has been told stays right, and all that it should know.      *)
ToldRightly(r) ==
  /\ \A m \in runs[r].recalled :
       /\ m \in Present /\ memory[m].user = "me"
       /\ runs[r].ask.agent # "" => memory[m].agent = runs[r].ask.agent
  /\ \A q \in before[r] : runs[r].ask.agent \in {"", runs[q].ask.agent} =>
       \A m \in LeftBy(q) : ToldTo(m, r)

MemoriesInv ==
  /\ RowsOrdered /\ LeftKept
  /\ \A q \in Run : StoredSoFar(q)
  /\ \A r \in Run : \A q \in before[r] : AtPc(q, "answered")
  /\ \A r \in Run : runs[r].pc \notin {"idle", "recall", "refused"} => ToldRightly(r)

(* The request a run makes is of one agent from the start, and has told    *)
(* what was observed so far.                                               *)
Meant(request, ask) ==
  /\ ask.agent # "" => \A role \in RoleName : request.models[role] # "client"
  /\ ~({"binding", "agent"} \subseteq {request.models[role] : role \in BoundRole})
  /\ ask.kind \in OfConfig => \A k \in PromptKey : request.context[k] # "client"
  /\ request.context["user_id"] = "service"

ObservedAt(j, given) == IF j <= given THEN 0 ELSE j - given

HistoryTold(history, given, n) ==
  /\ Len(history) = IF n > 0 /\ given + n > MaxHistory THEN MaxHistory ELSE given + n
  /\ \A i \in 1..Len(history) : history[i] = ObservedAt(given + n - Len(history) + i, given)

Showing(r) ==
  LET n == Len(seen[r]) IN {i \in {n} : runs[r].ask.sees /\ i > 0 /\ "image" \in seen[r][n]}

RequestKept(r) ==
  /\ AtPc(r, "idle") => seen[r] = <<>>
  /\ runs[r].pc \in {"idle", "refused", "recall", "models"} => sent[r] = Nobody
  /\ runs[r].pc \in {"recall", "models", "send", "asked", "acting"} => Meant(runs[r].request, runs[r].ask)
  /\ runs[r].pc \in {"send", "asked", "acting"} => runs[r].request.models["default"] # "none"
  /\ ~AtPc(r, "idle") =>
       /\ runs[r].request.task = Len(seen[r])
       /\ HistoryTold(runs[r].request.history, runs[r].ask.history, Len(seen[r]))
       /\ runs[r].request.images = Showing(r)
  /\ sent[r] # Nobody => Meant(sent[r], runs[r].ask) /\ sent[r].models["default"] # "none"
  /\ AtPc(r, "asked") => /\ sent[r].task = runs[r].request.task
                         /\ sent[r].history = runs[r].request.history
                         /\ sent[r].images = runs[r].request.images

RequestsInv == RequestsTypeOK /\ MemoriesInv /\ \A r \in Run : RequestKept(r)
-------------------------------------------------------------------------------
(* The memories told are the first in a strict order of those that may be, *)
(* which are all, or as many as there is room for.                         *)
LEMMA RecalledAll ==
  ASSUME RequestsTypeOK, RowsOrdered, NEW agent
  PROVE  /\ Recalled(agent) \subseteq Recallable(agent)
         /\ Cardinality(Recalled(agent)) # MaxRecalled => Recalled(agent) = Recallable(agent)
<1> DEFINE R == Recallable(agent)
           Before(m) == {n \in R : Precedes(n, m)}
           C == Cardinality(R)
           Rank == [m \in R |-> Cardinality(Before(m))]
<1>0. MaxRecalled \in Nat  BY RequestsAssumption
<1>1. IsFiniteSet(R) /\ C \in Nat
  <2>1. R \subseteq Memory /\ IsFiniteSet(Memory)  BY RequestsAssumption DEF Recallable
  <2> QED  BY <2>1, FS_Subset, FS_CardinalityType
<1>2. \A m \in R : memory[m].at \in Nat /\ memory[m].importance \in Nat /\ m \in Present
  BY DEF Recallable, Present, RequestsTypeOK, MemoryRow
<1>3. \A m, n \in R : m # n => Precedes(m, n) \/ Precedes(n, m)
  <2> SUFFICES ASSUME NEW m \in R, NEW n \in R, m # n  PROVE Precedes(m, n) \/ Precedes(n, m)
    OBVIOUS
  <2>1. memory[m].at # memory[n].at  BY <1>2 DEF RowsOrdered
  <2> HIDE DEF R
  <2> QED  BY <2>1, <1>2 DEF Precedes
<1>4. /\ \A m \in R : ~Precedes(m, m)
      /\ \A m, n, k \in R : Precedes(m, n) /\ Precedes(n, k) => Precedes(m, k)
  <2> HIDE DEF R
  <2> QED  BY <1>2 DEF Precedes
<1>5. \A m \in R : /\ IsFiniteSet(Before(m)) /\ Cardinality(Before(m)) \in Nat
                   /\ Cardinality(Before(m)) < C
  <2> SUFFICES ASSUME NEW m \in R
               PROVE /\ IsFiniteSet(Before(m)) /\ Cardinality(Before(m)) \in Nat
                     /\ Cardinality(Before(m)) < C
    OBVIOUS
  <2>1. Before(m) \in SUBSET R /\ m \notin Before(m)  BY <1>4
  <2> HIDE DEF R, Before
  <2>2. IsFiniteSet(Before(m)) /\ Cardinality(Before(m)) \in Nat  BY <2>1, <1>1, FS_Subset, FS_CardinalityType
  <2>3. Cardinality(Before(m)) <= C /\ Cardinality(Before(m)) # C
    BY <2>1, <1>1, FS_Subset
  <2> QED  BY <2>2, <2>3, <1>1
<1>6. \A m, n \in R : Precedes(m, n) => Cardinality(Before(m)) < Cardinality(Before(n))
  <2> SUFFICES ASSUME NEW m \in R, NEW n \in R, Precedes(m, n)
               PROVE Cardinality(Before(m)) < Cardinality(Before(n))
    OBVIOUS
  <2>1. Before(m) \in SUBSET Before(n) /\ m \in Before(n) /\ m \notin Before(m)  BY <1>4
  <2> HIDE DEF R, Before
  <2>2. Cardinality(Before(m)) <= Cardinality(Before(n)) /\ Cardinality(Before(m)) # Cardinality(Before(n))
    BY <2>1, <1>5, FS_Subset
  <2> QED  BY <2>2, <1>5
<1>7. \A m, n \in R : Rank[m] = Rank[n] => m = n
  <2> SUFFICES ASSUME NEW m \in R, NEW n \in R, m # n  PROVE Rank[m] # Rank[n]
    OBVIOUS
  <2>1. Rank[m] = Cardinality(Before(m)) /\ Rank[n] = Cardinality(Before(n))  OBVIOUS
  <2> HIDE DEF R, Before, Rank
  <2>2. Cardinality(Before(m)) < Cardinality(Before(n)) \/ Cardinality(Before(n)) < Cardinality(Before(m))
    BY <1>3, <1>6
  <2> QED  BY <2>1, <2>2, <1>5
<1>8. Recalled(agent) = {m \in R : Rank[m] < MaxRecalled}
  BY DEF Recalled
<1>9. \A m \in R : Rank[m] \in 0..(C - 1)
  <2> SUFFICES ASSUME NEW m \in R  PROVE Rank[m] \in 0..(C - 1)
    OBVIOUS
  <2>1. Rank[m] = Cardinality(Before(m))  OBVIOUS
  <2> HIDE DEF R, Before, Rank, C
  <2> QED  BY <2>1, <1>1, <1>5
<1>10. Rank \in Injection(R, 0..(C - 1))
  <2>1. Rank \in [R -> 0..(C - 1)]
    <3>1. Rank = [m \in R |-> Rank[m]]  OBVIOUS
    <3> HIDE DEF R, Before, Rank, C
    <3> QED  BY <3>1, <1>9
  <2> HIDE DEF R, Before, Rank, C
  <2> QED  BY <2>1, <1>7 DEF Injection, IsInjective
<1>11. Rank \in Surjection(R, 0..(C - 1))
  <2> HIDE DEF R, Before, Rank
  <2>1. IsFiniteSet(0..(C - 1)) /\ Cardinality(0..(C - 1)) = C
    BY <1>1, FS_Interval
  <2> QED  BY <2>1, <1>10, FS_Injection
<1>12. CASE MaxRecalled >= C
  <2> HIDE DEF R, Before, Rank, C
  <2>1. \A m \in R : Rank[m] < MaxRecalled  BY <1>9, <1>12, <1>1, <1>0
  <2> QED  BY <2>1, <1>8 DEF R
<1>13. CASE MaxRecalled < C
  <2> DEFINE S == {m \in R : Rank[m] < MaxRecalled}
             T == 0..(MaxRecalled - 1)
             G == [m \in S |-> Rank[m]]
  <2> HIDE DEF R, Before, Rank, C
  <2>1. MaxRecalled \in Nat  BY <1>0
  <2>2. G \in [S -> T]  BY <2>1, <1>9, <1>1
  <2>3. \A m, n \in S : G[m] = G[n] => m = n  BY <1>7
  <2>4. \A k \in T : \E m \in S : G[m] = k
    <3> SUFFICES ASSUME NEW k \in T  PROVE \E m \in S : G[m] = k
      OBVIOUS
    <3>1. k \in 0..(C - 1) /\ k < MaxRecalled  BY <2>1, <1>1, <1>13
    <3>2. PICK m \in R : Rank[m] = k  BY <3>1, <1>11 DEF Surjection
    <3> QED  BY <3>1, <3>2
  <2> HIDE DEF G, S
  <2>5. G \in Injection(S, T) /\ G \in Surjection(S, T)
    BY <2>2, <2>3, <2>4 DEF Injection, IsInjective, Surjection
  <2>6. IsFiniteSet(T) /\ Cardinality(T) = MaxRecalled
    BY <2>1, FS_Interval
  <2>7. Cardinality(S) = MaxRecalled  BY <2>5, <2>6, FS_Injection
  <2>8. Recalled(agent) = S  BY <1>8 DEF S
  <2>9. Recalled(agent) \subseteq Recallable(agent)  BY DEF Recalled
  <2> QED  BY <2>7, <2>8, <2>9
<1>14. MaxRecalled >= C \/ MaxRecalled < C
  <2> HIDE DEF C
  <2> QED  BY <1>0, <1>1
<1> QED  BY <1>12, <1>13, <1>14

(* The history a step adds to tells the last observations in their order.  *)
LEMMA HistoryGoesOn ==
  ASSUME NEW history \in Seq(Nat), NEW given \in Nat, NEW n \in Nat, HistoryTold(history, given, n)
  PROVE  /\ AppendObservationHistory(history, n + 1) \in Seq(Nat)
         /\ HistoryTold(AppendObservationHistory(history, n + 1), given, n + 1)
<1> DEFINE all == Append(history, n + 1)
           L == Len(history)
           from == IF L + 1 > MaxHistory THEN L + 1 - MaxHistory + 1 ELSE 1
           new == SubSeq(all, from, L + 1)
<1>0. MaxHistory \in Nat \ {0}  BY RequestsAssumption
<1>1. /\ MaxHistory \in Nat \ {0} /\ L \in Nat
      /\ L = IF n > 0 /\ given + n > MaxHistory THEN MaxHistory ELSE given + n
      /\ \A i \in 1..L : history[i] = ObservedAt(given + n - L + i, given)
  BY <1>0 DEF HistoryTold
<1>2. all \in Seq(Nat) /\ Len(all) = L + 1 /\ all[L + 1] = n + 1 /\ \A i \in 1..L : all[i] = history[i]
  OBVIOUS
<1>3. AppendObservationHistory(history, n + 1) = new
  <2> DEFINE first == IF Len(all) > MaxHistory THEN Len(all) - MaxHistory + 1 ELSE 1
  <2>1. AppendObservationHistory(history, n + 1) = SubSeq(all, first, Len(all))
    BY DEF AppendObservationHistory
  <2>2. Len(all) = L + 1  BY <1>2
  <2> HIDE DEF all, L
  <2>3. first = from  BY <1>1, <2>2
  <2> HIDE DEF first, from
  <2> QED  BY <2>1, <2>2, <2>3
<1>4. from \in 1..(L + 1)  BY <1>1
<1> HIDE DEF all, L
<1>5. new \in Seq(Nat) /\ Len(new) = L + 1 - from + 1
      /\ \A i \in 1..(L + 1 - from + 1) : new[i] = all[from + i - 1]
  <2> DEFINE top == L + 1
  <2>1. top \in Nat /\ Len(all) = top /\ all \in Seq(Nat) /\ from \in 1..top  BY <1>1, <1>2, <1>4
  <2>0. new = SubSeq(all, from, top) /\ L + 1 = top  OBVIOUS
  <2> HIDE DEF from, top, new
  <2>2. \A i \in from..top : all[i] \in Nat  BY <2>1
  <2>3. SubSeq(all, from, top) \in Seq(Nat)  BY <2>1, <2>2, SubSeqProperties
  <2>4. /\ Len(SubSeq(all, from, top)) = top - from + 1
        /\ \A i \in 1..(top - from + 1) : SubSeq(all, from, top)[i] = all[from + i - 1]
    BY <2>1, SubSeqProperties
  <2>5. L + 1 - from + 1 = top - from + 1  BY <2>0, <2>1, <1>1, <1>4
  <2>6. new \in Seq(Nat)  BY <2>0, <2>3
  <2>7. Len(new) = L + 1 - from + 1  BY <2>0, <2>4, <2>5
  <2>8. \A i \in 1..(L + 1 - from + 1) : new[i] = all[from + i - 1]
    <3> DEFINE to == top - from + 1
    <3>1. to = L + 1 - from + 1 /\ \A i \in 1..to : new[i] = all[from + i - 1]  BY <2>0, <2>4, <2>5
    <3> HIDE DEF to
    <3> QED  BY <3>1
  <2> QED  BY <2>6, <2>7, <2>8
<1>6. Len(new) = IF given + (n + 1) > MaxHistory THEN MaxHistory ELSE given + (n + 1)
  BY <1>1, <1>5
<1>7. ASSUME NEW i \in 1..Len(new)  PROVE new[i] = ObservedAt(given + (n + 1) - Len(new) + i, given)
  <2> DEFINE j == from + i - 1
  <2>0. i \in Nat /\ i >= 1 /\ i <= L + 1 - from + 1 /\ from \in Nat /\ from >= 1 /\ from <= L + 1
    BY <1>1, <1>4, <1>5
  <2>1. j \in 1..(L + 1) /\ new[i] = all[j]
    <3>1. j \in 1..(L + 1)  BY <2>0, <1>1
    <3>2. i \in 1..(L + 1 - from + 1)  BY <2>0, <1>1
    <3> QED  BY <3>1, <3>2, <1>5
  <2>2. given + (n + 1) - Len(new) + i = given + n - L + j  BY <1>1, <1>4, <1>5
  <2>3. CASE j = L + 1
    <3>1. given + n - L + j = given + (n + 1)  BY <2>3, <1>1
    <3>2. ObservedAt(given + (n + 1), given) = n + 1  BY DEF ObservedAt
    <3> QED  BY <2>1, <2>2, <2>3, <3>1, <3>2, <1>2
  <2>4. CASE j \in 1..L
    <3> QED  BY <2>1, <2>2, <2>4, <1>1, <1>2
  <2> QED  BY <2>1, <2>3, <2>4, <1>1
<1>8. n + 1 > 0  OBVIOUS
<1> HIDE DEF new, from
<1> QED  BY <1>3, <1>5, <1>6, <1>7, <1>8 DEF HistoryTold

-------------------------------------------------------------------------------
(* What a run begins with.                                                 *)
AsksAsAssumed(ask, row) ==
  ask \in Ask /\ row \in AgentRow \cup {Nobody} /\ (ask.agent # "" => row # Nobody)

InputOf(ask) == ToInput(ask, ControlContext(AuthenticatedContext(ask), ask.reachable))
HydratedOf(ask, row) ==
  IF ask.kind \in OfConfig THEN HydrateAgentConfig(InputOf(ask), row) ELSE HydrateAgentModels(InputOf(ask), row)

(* What a client asks is a request without observations, in which the      *)
(* service says whose it is.                                               *)
LEMMA InputTyped ==
  ASSUME NEW ask \in Ask
  PROVE  /\ InputOf(ask) \in RunRequest
         /\ InputOf(ask).task = 0 /\ InputOf(ask).images = {}
         /\ HistoryTold(InputOf(ask).history, ask.history, 0)
         /\ InputOf(ask).context["user_id"] = "service"
         /\ \A role \in RoleName : InputOf(ask).models[role] \in {"client", "none"}
<1> DEFINE context == ControlContext(AuthenticatedContext(ask), ask.reachable)
<1>1. context \in [ContextKey -> Origin] /\ context["user_id"] = "service"
  BY DEF ControlContext, AuthenticatedContext, Given, ContextKey, PromptKey, Origin, Ask
<1>2. ask.history \in Nat /\ ask.parts \in [Part -> Origin] /\ ask.models \in SUBSET RoleName  BY DEF Ask
<1>3. [i \in 1..ask.history |-> 0] \in Seq(Nat) /\ Len([i \in 1..ask.history |-> 0]) = ask.history
  BY <1>2
<1>4. [r \in RoleName |-> IF r \in ask.models THEN "client" ELSE "none"] \in [RoleName -> Origin]
  BY DEF Origin
<1>5. (IF ask.kind = "runStream" /\ ask.parts["options"] = "none"
       THEN [ask.parts EXCEPT !["options"] = "service"] ELSE ask.parts) \in [Part -> Origin]
  BY <1>2 DEF Origin
<1> HIDE DEF context
<1>6. InputOf(ask) \in RunRequest
  BY <1>1, <1>2, <1>3, <1>4, <1>5 DEF InputOf, ToInput, RunRequest, context
<1>7. /\ InputOf(ask).task = 0 /\ InputOf(ask).images = {}
      /\ InputOf(ask).context = context
      /\ InputOf(ask).history = [i \in 1..ask.history |-> 0]
      /\ InputOf(ask).models = [r \in RoleName |-> IF r \in ask.models THEN "client" ELSE "none"]
  BY DEF InputOf, ToInput, context
<1>8. HistoryTold(InputOf(ask).history, ask.history, 0)
  BY <1>2, <1>3, <1>7 DEF HistoryTold, ObservedAt
<1>9. \A role \in RoleName : InputOf(ask).models[role] \in {"client", "none"}
  BY <1>7
<1> QED  BY <1>1, <1>6, <1>7, <1>8, <1>9

(* The models of a stored agent come from its binding or from its          *)
(* configuration, never from both for the roles of a binding, and none     *)
(* from the client.                                                        *)
LEMMA BoundModels ==
  ASSUME NEW row \in AgentRow
  PROVE  LET models == BindStoredAgentModels(row) IN
         /\ models \in [RoleName -> Origin]
         /\ \A role \in RoleName : models[role] # "client"
         /\ ~({"binding", "agent"} \subseteq {models[role] : role \in BoundRole})
<1> DEFINE models == BindStoredAgentModels(row)
           bound  == row.system /\ row.binding # {"unbound"}
           named  == IF bound THEN row.binding ELSE row.models
           origin == IF bound THEN "binding" ELSE "agent"
<1>1. origin \in {"binding", "agent"}  OBVIOUS
<1>2. \A role \in RoleName :
        models[role] = IF "default" \in named /\ role \in BoundRole
                       THEN IF role \in named THEN origin ELSE "none"
                       ELSE IF role \in row.configured \ {"default"} THEN "agent" ELSE "none"
  BY DEF BindStoredAgentModels
<1>3. models = [role \in RoleName |-> models[role]]
  BY DEF BindStoredAgentModels
<1>4. BoundRole \subseteq RoleName  BY DEF RoleName
<1> HIDE DEF named, origin, models, bound
<1>5. \A role \in RoleName : models[role] \in {"binding", "agent", "none"}  BY <1>1, <1>2
<1>6. models \in [RoleName -> Origin]  BY <1>3, <1>5 DEF Origin
<1>7. ~({"binding", "agent"} \subseteq {models[role] : role \in BoundRole})
  <2>1. CASE "default" \in named
    <3>1. \A role \in BoundRole : models[role] \in {origin, "none"}  BY <1>2, <1>4, <2>1
    <3> QED  BY <3>1, <1>1
  <2>2. CASE "default" \notin named
    <3>1. \A role \in BoundRole : models[role] \in {"agent", "none"}  BY <1>2, <1>4, <2>2
    <3> QED  BY <3>1
  <2> QED  BY <2>1, <2>2
<1> QED  BY <1>5, <1>6, <1>7 DEF models

(* A request that is filled in from the stored agent is of the agent that  *)
(* was meant.                                                              *)
LEMMA HydratedMeant ==
  ASSUME NEW ask, NEW row, AsksAsAssumed(ask, row)
  PROVE  LET request == HydratedOf(ask, row) IN
         /\ request \in RunRequest /\ Meant(request, ask)
         /\ request.task = 0 /\ request.images = {}
         /\ HistoryTold(request.history, ask.history, 0)
<1> DEFINE input == InputOf(ask)
           stripped == [input EXCEPT !.context = StripPromptContext(@)]
           request == HydratedOf(ask, row)
<1>1. ask \in Ask /\ row \in AgentRow \cup {Nobody} /\ (ask.agent # "" => row # Nobody)
  BY DEF AsksAsAssumed
<1>2. /\ input \in RunRequest /\ input.task = 0 /\ input.images = {}
      /\ HistoryTold(input.history, ask.history, 0)
      /\ input.context["user_id"] = "service"
      /\ \A role \in RoleName : input.models[role] \in {"client", "none"}
  BY <1>1, InputTyped
<1> HIDE DEF input
<1>3. /\ stripped \in RunRequest /\ stripped.task = input.task /\ stripped.images = input.images
      /\ stripped.history = input.history /\ stripped.models = input.models
      /\ stripped.context["user_id"] = "service"
      /\ \A k \in PromptKey : stripped.context[k] = "none"
  BY <1>2 DEF RunRequest, StripPromptContext, Origin, PromptKey, ContextKey
<1>4. \A req \in RunRequest :
        (\A role \in RoleName : req.models[role] \in {"client", "none"}) =>
          ~({"binding", "agent"} \subseteq {req.models[role] : role \in BoundRole})
  BY DEF RoleName
<1> HIDE DEF stripped
<1>5. CASE row = Nobody
  <2>1. ask.agent = ""  BY <1>1, <1>5
  <2>2. request = IF ask.kind \in OfConfig THEN stripped ELSE input
    BY <1>5 DEF HydratedOf, HydrateAgentConfig, HydrateAgentModels, input, stripped
  <2> HIDE DEF request
  <2>3. CASE ask.kind \in OfConfig
    <3>1. request = stripped  BY <2>2, <2>3
    <3>2. Meant(stripped, ask)  BY <1>2, <1>3, <1>4, <2>1 DEF Meant
    <3> QED  BY <3>1, <3>2, <1>2, <1>3 DEF request
  <2>4. CASE ask.kind \notin OfConfig
    <3>1. request = input  BY <2>2, <2>4
    <3>2. Meant(input, ask)  BY <1>2, <1>4, <2>1, <2>4 DEF Meant
    <3> QED  BY <3>1, <3>2, <1>2 DEF request
  <2> QED  BY <2>3, <2>4
<1>6. CASE row # Nobody
  <2>1. row \in AgentRow  BY <1>1, <1>6
  <2> DEFINE models == BindStoredAgentModels(row)
  <2>2. /\ models \in [RoleName -> Origin]
        /\ \A role \in RoleName : models[role] # "client"
        /\ ~({"binding", "agent"} \subseteq {models[role] : role \in BoundRole})
    BY <2>1, BoundModels
  <2>3. CASE ask.kind \in OfConfig
    <3> DEFINE merged == MergeStoredAgentConfig(stripped, row)
    <3>1. request = [merged EXCEPT !.models = models]
      BY <1>6, <2>3 DEF HydratedOf, HydrateAgentConfig, input, stripped
    <3>2. /\ merged.task = stripped.task /\ merged.images = stripped.images
          /\ merged.history = stripped.history /\ merged.models = stripped.models
      BY <1>3 DEF MergeStoredAgentConfig, RunRequest
    <3>3. merged.context = [k \in ContextKey |->
                    IF k = "system_prompt" /\ row.prompt THEN "agent"
                    ELSE IF stripped.context[k] = "none" /\ k \in row.context THEN "agent" ELSE stripped.context[k]]
      BY <1>3 DEF MergeStoredAgentConfig, RunRequest
    <3>4. merged.parts = [p \in Part |-> IF stripped.parts[p] = "none" /\ p \in Stored THEN row.parts[p]
                                         ELSE stripped.parts[p]]
      BY <1>3 DEF MergeStoredAgentConfig, RunRequest
    <3>5. merged.context \in [ContextKey -> Origin]
      BY <1>3, <3>3 DEF RunRequest, Origin
    <3>6. merged.parts \in [Part -> Origin]
      BY <1>3, <3>4, <2>1 DEF RunRequest, AgentRow
    <3>7. merged = [context |-> merged.context, parts |-> merged.parts, models |-> stripped.models,
                    task |-> stripped.task, history |-> stripped.history, images |-> stripped.images]
      BY DEF MergeStoredAgentConfig
    <3>8. /\ merged.context["user_id"] = "service"
          /\ \A k \in PromptKey : merged.context[k] # "client"
      BY <1>3, <3>3 DEF ContextKey, PromptKey
    <3> HIDE DEF merged, models, request
    <3>9. request = [context |-> merged.context, parts |-> merged.parts, models |-> models,
                     task |-> stripped.task, history |-> stripped.history, images |-> stripped.images]
      BY <3>1, <3>7
    <3>10. request \in RunRequest
      BY <3>9, <3>5, <3>6, <2>2, <1>3 DEF RunRequest
    <3>11. Meant(request, ask)
      BY <3>9, <3>8, <2>2 DEF Meant
    <3>12. /\ request.task = 0 /\ request.images = {} /\ request.history = input.history
      BY <3>9, <1>2, <1>3
    <3> QED  BY <3>10, <3>11, <3>12, <1>2 DEF request
  <2>4. CASE ask.kind \notin OfConfig
    <3>1. request = [input EXCEPT !.models = models]
      BY <1>6, <2>4 DEF HydratedOf, HydrateAgentModels, input
    <3> HIDE DEF models, request
    <3>2. request \in RunRequest /\ request.models = models /\ request.context = input.context
          /\ request.task = input.task /\ request.history = input.history /\ request.images = input.images
      BY <3>1, <2>2, <1>2 DEF RunRequest
    <3>3. Meant(request, ask)
      BY <3>2, <2>2, <2>4, <1>2 DEF Meant
    <3> QED  BY <3>2, <3>3, <1>2 DEF request
  <2> QED  BY <2>3, <2>4
<1> QED  BY <1>5, <1>6

-------------------------------------------------------------------------------
(* What a step does to the run it is of.                                   *)
Rest(r) == \A q \in Run \ {r} : runs'[q] = runs[q]

SameBut(r, fields) ==
  /\ runs' = [runs EXCEPT ![r] = runs'[r]] /\ runs'[r] \in RunUnderway
  /\ runs'[r].ask = runs[r].ask
  /\ "request" \notin fields => runs'[r].request = runs[r].request
  /\ "recalled" \notin fields => runs'[r].recalled = runs[r].recalled
  /\ "entries" \notin fields => runs'[r].entries = runs[r].entries
  /\ "leaves" \notin fields => runs'[r].leaves = runs[r].leaves
  /\ "whole" \notin fields => runs'[r].whole = runs[r].whole

(* A run that has begun has a request.                                     *)
LEMMA Underway ==
  ASSUME RequestsTypeOK, NEW r \in Run, ~AtPc(r, "idle")
  PROVE  runs[r] \in RunUnderway
BY DEF RequestsTypeOK, AtPc, NotBegun

(* A run that moves on changes nothing but its place.                      *)
LEMMA MovesTo ==
  ASSUME RequestsTypeOK, NEW r \in Run, ~AtPc(r, "idle"), NEW pc \in RunPlaces, Moves(r, pc)
  PROVE  runs'[r].pc = pc /\ SameBut(r, {})
<1>1. runs[r] \in RunUnderway  BY Underway
<1>2. runs' = [runs EXCEPT ![r].pc = pc] /\ runs \in [Run -> RunUnderway \cup {NotBegun}]
  BY DEF Moves, RequestsTypeOK
<1>3. runs'[r] = [runs[r] EXCEPT !.pc = pc] /\ runs' = [runs EXCEPT ![r] = runs'[r]]  BY <1>2
<1> QED  BY <1>1, <1>3 DEF SameBut, RunUnderway

(* BeginRun: the request that was asked for, filled in from the row that   *)
(* was found.                                                              *)
LEMMA BeginRunMakes ==
  ASSUME RequestsTypeOK, NEW r \in Run, NEW form \in AskForms(r), BeginRun(r, form.ask, form.row)
  PROVE  /\ runs' = [runs EXCEPT ![r] = runs'[r]] /\ runs'[r] \in RunUnderway
         /\ runs'[r].pc \in {"recall", "refused"} /\ runs'[r].ask = form.ask
         /\ runs'[r].pc = "recall" => Meant(runs'[r].request, form.ask)
         /\ runs'[r].request.task = 0 /\ runs'[r].request.images = {}
         /\ HistoryTold(runs'[r].request.history, form.ask.history, 0)
         /\ runs'[r].recalled = {} /\ ~runs'[r].whole
<1> DEFINE ask == form.ask
           row == form.row
           request == IF row = Nobody \/ Usable(row) THEN HydratedOf(ask, row) ELSE InputOf(ask)
           pc == IF row = Nobody \/ Usable(row) THEN "recall" ELSE "refused"
<1>1. AsksAsAssumed(ask, row)  BY RequestsAssumption DEF AsksAsAssumed
<1>2. ask \in Ask  BY <1>1 DEF AsksAsAssumed
<1>3. /\ request \in RunRequest /\ request.task = 0 /\ request.images = {}
      /\ HistoryTold(request.history, ask.history, 0)
      /\ pc = "recall" => Meant(request, ask)
  BY <1>1, <1>2, HydratedMeant, InputTyped
<1>4. runs' = [runs EXCEPT ![r] = [pc |-> pc, ask |-> ask, request |-> request, recalled |-> {}, step |-> 1,
                                   entries |-> <<>>, leaves |-> <<>>, whole |-> FALSE]]
  BY DEF BeginRun, HydratedOf, InputOf
<1>5. runs'[r] = [pc |-> pc, ask |-> ask, request |-> request, recalled |-> {}, step |-> 1,
                  entries |-> <<>>, leaves |-> <<>>, whole |-> FALSE]
  BY <1>4 DEF RequestsTypeOK
<1>6. pc \in {"recall", "refused"} /\ 1 \in 1..MaxSteps /\ <<>> \in Seq(Entry)
  <2>1. MaxSteps \in Nat \ {0}  BY RequestsAssumption
  <2> QED  BY <2>1
<1> HIDE DEF pc, request, ask
<1>7. runs'[r] \in RunUnderway
  BY <1>2, <1>3, <1>5, <1>6 DEF RunUnderway, RunPlaces
<1>8. runs' = [runs EXCEPT ![r] = runs'[r]]  BY <1>4, <1>5
<1>9. /\ runs'[r].pc = pc /\ runs'[r].ask = ask /\ runs'[r].request = request
      /\ runs'[r].recalled = {} /\ ~runs'[r].whole
  BY <1>5
<1> QED  BY <1>3, <1>6, <1>7, <1>8, <1>9 DEF ask

(* InjectMemories: the memories are added, and nothing else is.            *)
LEMMA InjectMakes ==
  ASSUME RequestsTypeOK, NEW r \in Run, InjectMemories(r)
  PROVE  /\ SameBut(r, {"request", "recalled"}) /\ runs[r].pc = "recall" /\ runs'[r].pc = "models"
         /\ runs'[r].recalled = Recalled(runs[r].ask.agent)
         /\ Meant(runs[r].request, runs[r].ask) => Meant(runs'[r].request, runs[r].ask)
         /\ runs'[r].request.task = runs[r].request.task
         /\ runs'[r].request.history = runs[r].request.history
         /\ runs'[r].request.images = runs[r].request.images
<1> DEFINE recalled == Recalled(runs[r].ask.agent)
           request == WithMemories(runs[r].request, recalled)
<1>1. runs[r] \in RunUnderway /\ runs[r].pc = "recall"  BY Underway DEF InjectMemories, AtPc
<1>2. runs[r].request \in RunRequest /\ recalled \in SUBSET Memory
  BY <1>1 DEF RunUnderway, Recalled, Recallable
<1> HIDE DEF recalled
<1>3. /\ request \in RunRequest /\ request.models = runs[r].request.models
      /\ request.task = runs[r].request.task /\ request.history = runs[r].request.history
      /\ request.images = runs[r].request.images
      /\ \A k \in ContextKey : k # "long_term_memories" => request.context[k] = runs[r].request.context[k]
  BY <1>2 DEF WithMemories, RunRequest, Origin, ContextKey
<1> HIDE DEF request
<1>4. runs' = [runs EXCEPT ![r].pc = "models", ![r].recalled = recalled, ![r].request = request]
  BY DEF InjectMemories, recalled, request
<1>5. runs'[r] = [runs[r] EXCEPT !.pc = "models", !.recalled = recalled, !.request = request]
      /\ runs' = [runs EXCEPT ![r] = runs'[r]]
  BY <1>4 DEF RequestsTypeOK
<1>6. /\ runs'[r].pc = "models" /\ runs'[r].recalled = recalled /\ runs'[r].request = request
      /\ runs'[r].ask = runs[r].ask /\ runs'[r].entries = runs[r].entries
      /\ runs'[r].leaves = runs[r].leaves /\ runs'[r].whole = runs[r].whole
      /\ runs'[r] \in RunUnderway
  BY <1>1, <1>2, <1>3, <1>5 DEF RunUnderway, RunPlaces
<1>7. Meant(runs[r].request, runs[r].ask) => Meant(request, runs[r].ask)
  BY <1>3 DEF Meant, ContextKey, PromptKey
<1> QED  BY <1>1, <1>3, <1>5, <1>6, <1>7 DEF SameBut, recalled

(* HydrateModels: a run that goes on has a default model.                  *)
LEMMA ModelsMake ==
  ASSUME RequestsTypeOK, NEW r \in Run, NEW resolved \in BOOLEAN, HydrateModels(r, resolved)
  PROVE  /\ SameBut(r, {"request"}) /\ runs[r].pc = "models"
         /\ runs'[r].pc = IF resolved THEN "send" ELSE "refused"
         /\ Meant(runs[r].request, runs[r].ask) => Meant(runs'[r].request, runs[r].ask)
         /\ runs'[r].pc = "send" => runs'[r].request.models["default"] # "none"
         /\ runs'[r].request.task = runs[r].request.task
         /\ runs'[r].request.history = runs[r].request.history
         /\ runs'[r].request.images = runs[r].request.images
<1> DEFINE request == EnsureUserModel(runs[r].request)
<1>1. runs[r] \in RunUnderway /\ runs[r].pc = "models"  BY Underway DEF HydrateModels, AtPc
<1>2. runs[r].request \in RunRequest  BY <1>1 DEF RunUnderway
<1>3. CASE resolved
  <2>1. /\ request \in RunRequest /\ request.context = runs[r].request.context
        /\ request.task = runs[r].request.task /\ request.history = runs[r].request.history
        /\ request.images = runs[r].request.images
        /\ \A role \in RoleName : request.models[role] \in {runs[r].request.models[role], "service"}
        /\ request.models["default"] # "none"
    BY <1>2 DEF EnsureUserModel, RunRequest, Origin, RoleName, BoundRole
  <2> HIDE DEF request
  <2>2. runs' = [runs EXCEPT ![r].pc = "send", ![r].request = request]
    BY <1>3 DEF HydrateModels, request
  <2>3. runs'[r] = [runs[r] EXCEPT !.pc = "send", !.request = request]
        /\ runs' = [runs EXCEPT ![r] = runs'[r]]
    BY <2>2 DEF RequestsTypeOK
  <2>4. /\ runs'[r].pc = "send" /\ runs'[r].recalled = runs[r].recalled /\ runs'[r].request = request
        /\ runs'[r].ask = runs[r].ask /\ runs'[r].entries = runs[r].entries
        /\ runs'[r].leaves = runs[r].leaves /\ runs'[r].whole = runs[r].whole
        /\ runs'[r] \in RunUnderway
    BY <1>1, <1>2, <2>1, <2>3 DEF RunUnderway, RunPlaces
  <2>5. Meant(runs[r].request, runs[r].ask) => Meant(request, runs[r].ask)
    <3>1. BoundRole \subseteq RoleName  BY DEF RoleName
    <3> QED  BY <2>1, <3>1 DEF Meant
  <2> QED  BY <1>1, <1>3, <2>1, <2>3, <2>4, <2>5 DEF SameBut
<1>4. CASE ~resolved
  <2>1. Moves(r, "refused") /\ "refused" \in RunPlaces  BY <1>4 DEF HydrateModels, RunPlaces
  <2>2. runs'[r].pc = "refused" /\ SameBut(r, {})  BY <2>1, <1>1, MovesTo DEF AtPc
  <2> QED  BY <1>1, <1>4, <2>2 DEF SameBut
<1> QED  BY <1>3, <1>4

(* Observe: what the device observed comes last in the history, which is   *)
(* cut in front.                                                           *)
LEMMA ObserveMakes ==
  ASSUME RequestsTypeOK, NEW r \in Run, NEW attachments \in Attachments, Observe(r, attachments),
         HistoryTold(runs[r].request.history, runs[r].ask.history, Len(seen[r]))
  PROVE  /\ SameBut(r, {"request"}) /\ runs[r].pc = "acting" /\ runs'[r].pc \in {"send", "failed"}
         /\ Meant(runs[r].request, runs[r].ask) => Meant(runs'[r].request, runs[r].ask)
         /\ runs'[r].request.models = runs[r].request.models
         /\ seen' = [seen EXCEPT ![r] = Append(seen[r], attachments)]
         /\ Len(seen'[r]) = Len(seen[r]) + 1 /\ seen'[r] \in Seq(Attachments)
         /\ runs'[r].request.task = Len(seen'[r])
         /\ HistoryTold(runs'[r].request.history, runs[r].ask.history, Len(seen'[r]))
         /\ runs'[r].request.images = Showing(r)'
<1> DEFINE n == Len(seen[r]) + 1
           old == runs[r].request
           request == ApplyDeviceObservation(old, n, runs[r].ask.sees, attachments)
           pc == IF runs[r].step < MaxSteps THEN "send" ELSE "failed"
           step == IF runs[r].step < MaxSteps THEN runs[r].step + 1 ELSE runs[r].step
<1>1. runs[r] \in RunUnderway /\ runs[r].pc = "acting"  BY Underway DEF Observe, AtPc
<1>2. old \in RunRequest /\ old.history \in Seq(Nat) /\ runs[r].ask \in Ask /\ runs[r].ask.history \in Nat
      /\ runs[r].step \in 1..MaxSteps
  BY <1>1 DEF RunUnderway, RunRequest, Ask
<1>3. seen[r] \in Seq(Attachments) /\ Len(seen[r]) \in Nat  BY DEF RequestsTypeOK
<1>4. /\ seen' = [seen EXCEPT ![r] = Append(seen[r], attachments)]
      /\ seen'[r] = Append(seen[r], attachments)
  BY DEF Observe, RequestsTypeOK
<1>5. Len(seen'[r]) = n /\ seen'[r] \in Seq(Attachments) /\ seen'[r][n] = attachments /\ n \in Nat /\ n > 0
  BY <1>3, <1>4
<1>6. /\ AppendObservationHistory(old.history, n) \in Seq(Nat)
      /\ HistoryTold(AppendObservationHistory(old.history, n), runs[r].ask.history, n)
  BY <1>2, <1>3, HistoryGoesOn
<1>7. VisualInputs(runs[r].ask.sees, n, attachments) \in SUBSET Nat  BY <1>5 DEF VisualInputs
<1> HIDE DEF n, old
<1>8. /\ request \in RunRequest /\ request.context = old.context /\ request.models = old.models
      /\ request.task = n /\ request.history = AppendObservationHistory(old.history, n)
      /\ request.images = VisualInputs(runs[r].ask.sees, n, attachments)
  BY <1>2, <1>5, <1>6, <1>7 DEF ApplyDeviceObservation, RunRequest
<1>9. pc \in {"send", "failed"}  OBVIOUS
<1>10. step \in 1..MaxSteps
  <2>1. MaxSteps \in Nat  BY RequestsAssumption
  <2> QED  BY <1>2, <2>1
<1>11. runs' = [runs EXCEPT ![r].pc = pc, ![r].step = step, ![r].request = request]
  BY DEF Observe, n, old
<1> HIDE DEF request, pc, step
<1>12. runs'[r] = [runs[r] EXCEPT !.pc = pc, !.step = step, !.request = request]
       /\ runs' = [runs EXCEPT ![r] = runs'[r]]
  BY <1>11 DEF RequestsTypeOK
<1>13. /\ runs'[r].pc = pc /\ runs'[r].recalled = runs[r].recalled /\ runs'[r].request = request
       /\ runs'[r].ask = runs[r].ask /\ runs'[r].entries = runs[r].entries
       /\ runs'[r].leaves = runs[r].leaves /\ runs'[r].whole = runs[r].whole
       /\ runs'[r] \in RunUnderway
  BY <1>1, <1>8, <1>9, <1>10, <1>12 DEF RunUnderway, RunPlaces
<1>14. Meant(old, runs[r].ask) => Meant(request, runs[r].ask)
  BY <1>8 DEF Meant
<1>15. VisualInputs(runs[r].ask.sees, n, attachments) = Showing(r)'
  BY <1>5, <1>13 DEF VisualInputs, Showing
<1> QED  BY <1>1, <1>4, <1>5, <1>6, <1>8, <1>9, <1>12, <1>13, <1>14, <1>15 DEF SameBut, old

(* AnswersDone: the run has learned what it will store.                    *)
LEMMA DoneMakes ==
  ASSUME RequestsTypeOK, NEW r \in Run, NEW learned \in Learned, AnswersDone(r, learned)
  PROVE  /\ SameBut(r, {"entries", "leaves"}) /\ runs[r].pc = "asked"
         /\ runs'[r].pc \in {"answered", "store"}
         /\ runs'[r].pc = "store" => runs'[r].entries = runs'[r].leaves
<1>1. runs[r] \in RunUnderway /\ runs[r].pc = "asked"  BY Underway DEF AnswersDone, AtPc
<1>2. CASE runs[r].ask.kind = "agent"
  <2>1. Moves(r, "answered") /\ "answered" \in RunPlaces  BY <1>2 DEF AnswersDone, RunPlaces
  <2>2. runs'[r].pc = "answered" /\ SameBut(r, {})  BY <2>1, <1>1, MovesTo DEF AtPc
  <2> QED  BY <1>1, <2>2 DEF SameBut
<1>3. CASE runs[r].ask.kind # "agent"
  <2>1. runs' = [runs EXCEPT ![r].pc = "store", ![r].entries = learned, ![r].leaves = learned]
    BY <1>3 DEF AnswersDone
  <2>2. learned \in Seq(Entry)  BY RequestsAssumption
  <2>3. runs'[r] = [runs[r] EXCEPT !.pc = "store", !.entries = learned, !.leaves = learned]
        /\ runs' = [runs EXCEPT ![r] = runs'[r]]
    BY <2>1 DEF RequestsTypeOK
  <2>4. /\ runs'[r].pc = "store" /\ runs'[r].recalled = runs[r].recalled
        /\ runs'[r].request = runs[r].request
        /\ runs'[r].ask = runs[r].ask /\ runs'[r].entries = learned
        /\ runs'[r].leaves = learned /\ runs'[r].whole = runs[r].whole
        /\ runs'[r] \in RunUnderway
    BY <1>1, <2>2, <2>3 DEF RunUnderway, RunPlaces
  <2> QED  BY <1>1, <2>3, <2>4 DEF SameBut
<1> QED  BY <1>2, <1>3

(* The rows of memory a step adds to, deletes from, or leaves alone.       *)
Adds(user, agent, from) ==
  \E m \in Memory, row \in MemoryRow :
    /\ m \notin Present /\ memory' = [memory EXCEPT ![m] = row]
    /\ row.user = user /\ row.agent = agent /\ row.from = from /\ row.at = Cardinality(Present)

(* A memory that is stored takes the next free row.                        *)
LEMMA RemembersOne ==
  ASSUME RequestsTypeOK, NEW agent \in AgentName, NEW importance \in Nat, NEW from \in Run \cup {Nobody},
         Free # {}, memory' = [memory EXCEPT ![NextFree] = Remembered("me", agent, importance, from)]
  PROVE  Adds("me", agent, from)
<1> DEFINE row == Remembered("me", agent, importance, from)
<1>1. NextFree \in Memory /\ NextFree \notin Present  BY DEF NextFree, Free, Present
<1>2. Cardinality(Present) \in Nat
  <2>1. IsFiniteSet(Memory) /\ Present \in SUBSET Memory  BY RequestsAssumption DEF Present
  <2> QED  BY <2>1, FS_Subset, FS_CardinalityType
<1>3. row.at = Cardinality(Present)  BY DEF Remembered, Present
<1>4. row \in MemoryRow
  BY <1>2 DEF Remembered, Present, MemoryRow
<1>5. row.user = "me" /\ row.agent = agent /\ row.from = from  BY DEF Remembered
<1> QED  BY <1>1, <1>3, <1>4, <1>5 DEF Adds

(* StoreExtracted: one more entry is stored, or what is left is given up   *)
(* for a failed statement.                                                 *)
LEMMA StoreMakes ==
  ASSUME RequestsTypeOK, NEW r \in Run, StoreExtracted(r)
  PROVE  /\ SameBut(r, {"entries", "whole"}) /\ runs[r].pc = "store"
         /\ memoryFaults' \in 0..MaxMemoryFaults
         /\ \/ /\ runs'[r].pc = "answered" /\ memory' = memory
               /\ runs'[r].whole => runs[r].entries = <<>> \/ runs[r].whole
            \/ /\ runs'[r].pc = "store" /\ runs'[r].whole = runs[r].whole
               /\ Len(runs[r].entries) = Len(runs'[r].entries) + 1
               /\ Adds("me", runs[r].ask.agent, r)
<1> DEFINE left == runs[r].entries
           entry == Head(left)
<1>1. runs[r] \in RunUnderway /\ runs[r].pc = "store"  BY Underway DEF StoreExtracted, AtPc
<1>2. left \in Seq(Entry) /\ runs[r].ask.agent \in AgentName  BY <1>1 DEF RunUnderway, Ask
<1>3. MaxMemoryFaults \in Nat /\ memoryFaults \in 0..MaxMemoryFaults  BY RequestsAssumption DEF RequestsTypeOK
<1>4. CASE left = <<>> /\ runs' = [runs EXCEPT ![r].pc = "answered", ![r].whole = TRUE]
           /\ UNCHANGED <<memory, memoryFaults>>
  <2>1. runs'[r] = [runs[r] EXCEPT !.pc = "answered", !.whole = TRUE]
        /\ runs' = [runs EXCEPT ![r] = runs'[r]]
    BY <1>4 DEF RequestsTypeOK
  <2>2. /\ runs'[r].pc = "answered" /\ runs'[r].recalled = runs[r].recalled
        /\ runs'[r].request = runs[r].request
        /\ runs'[r].ask = runs[r].ask /\ runs'[r].entries = left
        /\ runs'[r].leaves = runs[r].leaves /\ runs'[r].whole
        /\ runs'[r] \in RunUnderway
    BY <1>1, <2>1 DEF RunUnderway, RunPlaces
  <2> QED  BY <1>1, <1>3, <1>4, <2>1, <2>2 DEF SameBut
<1>5. CASE /\ left # <<>> /\ ~entry.blank /\ Free # {}
           /\ memory' = [memory EXCEPT ![NextFree] =
                           Remembered("me", runs[r].ask.agent, entry.importance, r)]
           /\ runs' = [runs EXCEPT ![r].entries = Tail(left)]
           /\ UNCHANGED memoryFaults
  <2>1. runs'[r] = [runs[r] EXCEPT !.entries = Tail(left)] /\ runs' = [runs EXCEPT ![r] = runs'[r]]
    BY <1>5 DEF RequestsTypeOK
  <2>2. Tail(left) \in Seq(Entry) /\ Len(left) = Len(Tail(left)) + 1 /\ entry \in Entry
    BY <1>2, <1>5
  <2>3. /\ runs'[r].pc = "store" /\ runs'[r].recalled = runs[r].recalled
        /\ runs'[r].request = runs[r].request
        /\ runs'[r].ask = runs[r].ask /\ runs'[r].entries = Tail(left)
        /\ runs'[r].leaves = runs[r].leaves /\ runs'[r].whole = runs[r].whole
        /\ runs'[r] \in RunUnderway
    BY <1>1, <2>1, <2>2 DEF RunUnderway, RunPlaces
  <2>4. entry.importance \in Nat  BY <2>2 DEF Entry
  <2>5. Adds("me", runs[r].ask.agent, r)  BY <1>2, <1>5, <2>4, RemembersOne
  <2> QED  BY <1>1, <1>3, <1>5, <2>1, <2>2, <2>3, <2>5 DEF SameBut
<1>6. CASE /\ left # <<>>
           /\ \/ entry.blank /\ UNCHANGED memoryFaults
              \/ ~entry.blank /\ memoryFaults < MaxMemoryFaults /\ memoryFaults' = memoryFaults + 1
           /\ Moves(r, "answered")
           /\ UNCHANGED memory
  <2>1. "answered" \in RunPlaces  BY DEF RunPlaces
  <2>2. runs'[r].pc = "answered" /\ SameBut(r, {})  BY <2>1, <1>1, <1>6, MovesTo DEF AtPc
  <2>3. memoryFaults' \in 0..MaxMemoryFaults  BY <1>3, <1>6
  <2> QED  BY <1>1, <1>6, <2>2, <2>3 DEF SameBut
<1> QED  BY <1>4, <1>5, <1>6 DEF StoreExtracted

(* What a run was told stays right, for rows are added and deleted, never  *)
(* changed.                                                                *)
LEMMA ToldStays ==
  ASSUME RequestsTypeOK, NEW s \in Run, ToldRightly(s),
         runs'[s].recalled = runs[s].recalled, runs'[s].ask = runs[s].ask, before'[s] = before[s],
         \A q \in before[s] : runs'[q].ask = runs[q].ask /\ LeftBy(q)' = LeftBy(q),
         \A m \in Present : /\ m \in Present' /\ memory'[m].user = memory[m].user
                            /\ memory'[m].agent = memory[m].agent
                            /\ memory[m].state = "deleted" => memory'[m].state = "deleted"
  PROVE  ToldRightly(s)'
<1>1. ASSUME NEW m \in runs'[s].recalled
      PROVE  /\ m \in Present' /\ memory'[m].user = "me"
             /\ runs'[s].ask.agent # "" => memory'[m].agent = runs'[s].ask.agent
  BY DEF ToldRightly
<1>2. ASSUME NEW q \in before'[s], runs'[s].ask.agent \in {"", runs'[q].ask.agent},
             NEW m \in LeftBy(q)'
      PROVE  ToldTo(m, s)'
  <2>1. q \in before[s] /\ m \in LeftBy(q) /\ runs[s].ask.agent \in {"", runs[q].ask.agent}  BY <1>2
  <2>2. ToldTo(m, s) /\ m \in Present  BY <2>1 DEF ToldRightly, LeftBy, Present
  <2> QED  BY <2>2 DEF ToldTo
<1> QED  BY <1>1, <1>2 DEF ToldRightly

(* One more row keeps the order of rows, and is of the run that left it.   *)
LEMMA RowAdded ==
  ASSUME RequestsTypeOK, RowsOrdered, NEW user, NEW agent, NEW from, Adds(user, agent, from)
  PROVE  /\ memory' \in [Memory -> MemoryRow \cup {Nobody}] /\ RowsOrdered'
         /\ \E m \in Memory \ Present :
              /\ Present' = Present \cup {m}
              /\ \A n \in Present : memory'[n] = memory[n]
              /\ memory'[m].user = user /\ memory'[m].agent = agent /\ memory'[m].from = from
              /\ \A q : LeftBy(q)' = IF q = from THEN LeftBy(q) \cup {m} ELSE LeftBy(q)
<1>1. PICK m \in Memory, row \in MemoryRow :
        /\ m \notin Present /\ memory' = [memory EXCEPT ![m] = row]
        /\ row.user = user /\ row.agent = agent /\ row.from = from /\ row.at = Cardinality(Present)
  BY DEF Adds
<1>2. Nobody \notin MemoryRow  BY RequestsAssumption
<1>3. /\ memory' \in [Memory -> MemoryRow \cup {Nobody}] /\ memory'[m] = row /\ row # Nobody
      /\ \A n \in Memory \ {m} : memory'[n] = memory[n]
  BY <1>1, <1>2 DEF RequestsTypeOK
<1>4. Present' = Present \cup {m}  BY <1>1, <1>3 DEF Present
<1>5. IsFiniteSet(Present) /\ Cardinality(Present) \in Nat
  <2>1. IsFiniteSet(Memory) /\ Present \in SUBSET Memory  BY RequestsAssumption DEF Present
  <2> QED  BY <2>1, FS_Subset, FS_CardinalityType
<1>6. Cardinality(Present') = Cardinality(Present) + 1
  BY <1>1, <1>4, <1>5, FS_AddElement
<1>7. \A n \in Present : memory'[n] = memory[n] /\ memory[n].at \in Nat
  BY <1>1, <1>3 DEF Present, RequestsTypeOK, MemoryRow
<1>8. RowsOrdered'
  <2>1. ASSUME NEW n \in Present'  PROVE memory'[n].at < Cardinality(Present')
    <3>1. CASE n = m  BY <3>1, <1>1, <1>3, <1>5, <1>6
    <3>2. CASE n \in Present
      <4>1. memory[n].at < Cardinality(Present)  BY <3>2 DEF RowsOrdered
      <4> QED  BY <4>1, <3>2, <1>5, <1>6, <1>7
    <3> QED  BY <3>1, <3>2, <1>4
  <2>2. ASSUME NEW n \in Present', NEW k \in Present', memory'[n].at = memory'[k].at  PROVE n = k
    <3>1. \A x \in Present : memory'[x].at # memory'[m].at
      <4>1. \A x \in Present : memory[x].at < Cardinality(Present)  BY DEF RowsOrdered
      <4> QED  BY <4>1, <1>1, <1>3, <1>5, <1>7
    <3>2. \A x, y \in Present : memory'[x].at = memory'[y].at => x = y  BY <1>7 DEF RowsOrdered
    <3> QED  BY <2>2, <3>1, <3>2, <1>4
  <2> QED  BY <2>1, <2>2 DEF RowsOrdered
<1>9. ASSUME NEW q  PROVE LeftBy(q)' = IF q = from THEN LeftBy(q) \cup {m} ELSE LeftBy(q)
  BY <1>1, <1>3 DEF LeftBy, Present
<1> QED  BY <1>1, <1>3, <1>4, <1>7, <1>8, <1>9

(* A step that leaves the memories alone, of a run that has been told and  *)
(* has not been answered.                                                  *)
LEMMA ToldRunKeeps ==
  ASSUME RequestsTypeOK, MemoriesInv, NEW r \in Run, UNCHANGED <<memory, before>>,
         SameBut(r, {"request", "entries", "leaves", "whole"}),
         runs[r].pc \notin {"idle", "recall", "refused", "answered"}, runs'[r].pc # "idle",
         runs[r].pc # "store" => /\ runs'[r].whole = runs[r].whole
                                 /\ runs'[r].pc = "store" => runs'[r].entries = runs'[r].leaves,
         runs[r].pc = "store" => /\ runs'[r].pc = "answered" /\ runs'[r].leaves = runs[r].leaves
                                 /\ runs'[r].whole => runs[r].entries = <<>>
  PROVE  MemoriesInv'
<1>1. /\ \A q \in Run \ {r} : runs'[q] = runs[q]
      /\ runs'[r].ask = runs[r].ask /\ runs'[r].recalled = runs[r].recalled
      /\ runs'[r] \in RunUnderway
  BY DEF SameBut, RequestsTypeOK
<1>2. RowsOrdered' /\ Present' = Present  BY DEF MemoriesInv, RowsOrdered, Present
<1>3. \A q : LeftBy(q)' = LeftBy(q)  BY DEF LeftBy
<1>4. runs[r].pc # "store" => LeftBy(r) = {}  BY DEF MemoriesInv, LeftKept, LeftBy, Present
<1>5. LeftKept'
  <2> SUFFICES ASSUME NEW m \in Present, memory[m].from \in Run
               PROVE  /\ runs'[memory[m].from].pc \in {"store", "answered"}
                      /\ memory[m].user = "me" /\ memory[m].agent = runs'[memory[m].from].ask.agent
    BY <1>2 DEF LeftKept
  <2>1. memory[m].from = r => runs[r].pc = "store"  BY DEF MemoriesInv, LeftKept
  <2> QED  BY <2>1, <1>1 DEF MemoriesInv, LeftKept
<1>6. ASSUME NEW q \in Run  PROVE StoredSoFar(q)'
  <2>1. CASE q # r  BY <2>1, <1>1, <1>3 DEF MemoriesInv, StoredSoFar, AtPc
  <2>2. CASE q = r /\ runs[r].pc # "store"
    <3>1. ~runs'[r].whole  BY <2>2 DEF MemoriesInv, StoredSoFar, AtPc
    <3>2. runs'[r].pc = "store" =>
            Cardinality(LeftBy(r)') + Len(runs'[r].entries) = Len(runs'[r].leaves)
      <4>1. Len(runs'[r].leaves) \in Nat /\ Cardinality(LeftBy(r)') = 0
        <5>1. LeftBy(r)' = {} /\ Cardinality({}) = 0  BY <2>2, <1>3, <1>4, FS_EmptySet
        <5>2. runs'[r].leaves \in Seq(Entry)  BY <1>1 DEF RunUnderway
        <5> QED  BY <5>1, <5>2
      <4> QED  BY <4>1, <2>2
    <3> QED  BY <2>2, <3>1, <3>2 DEF StoredSoFar, AtPc
  <2>3. CASE q = r /\ runs[r].pc = "store"
    <3>1. Cardinality(LeftBy(r)) + Len(runs[r].entries) = Len(runs[r].leaves)
      BY <2>3 DEF MemoriesInv, StoredSoFar, AtPc
    <3>2. IsFiniteSet(LeftBy(r)) /\ Cardinality(LeftBy(r)) \in Nat
      <4>1. IsFiniteSet(Memory) /\ LeftBy(r) \in SUBSET Memory  BY RequestsAssumption DEF LeftBy
      <4> QED  BY <4>1, FS_Subset, FS_CardinalityType
    <3>3. runs[r].entries = <<>> => Cardinality(LeftBy(r)) = Len(runs[r].leaves)
      <4>1. Len(<<>>) = 0  OBVIOUS
      <4> QED  BY <4>1, <3>1, <3>2
    <3> QED  BY <2>3, <3>3, <1>3 DEF StoredSoFar, AtPc
  <2> QED  BY <2>1, <2>2, <2>3
<1>7. ASSUME NEW s \in Run, NEW q \in before'[s]  PROVE AtPc(q, "answered")' /\ q # r /\ q \in Run
  <2>1. q \in before[s] /\ q \in Run  BY DEF RequestsTypeOK
  <2>2. AtPc(q, "answered")  BY <2>1 DEF MemoriesInv
  <2>3. q # r  BY <2>2 DEF AtPc
  <2> QED  BY <2>1, <2>2, <2>3, <1>1 DEF AtPc
<1>8. ASSUME NEW s \in Run, runs'[s].pc \notin {"idle", "recall", "refused"}  PROVE ToldRightly(s)'
  <2>1. ToldRightly(s)  BY <1>1, <1>8 DEF MemoriesInv
  <2>2. runs'[s].recalled = runs[s].recalled /\ runs'[s].ask = runs[s].ask  BY <1>1
  <2>3. \A q \in before[s] : runs'[q].ask = runs[q].ask /\ LeftBy(q)' = LeftBy(q)
    BY <1>1, <1>3, <1>7
  <2>4. \A m \in Present : /\ m \in Present' /\ memory'[m].user = memory[m].user
                           /\ memory'[m].agent = memory[m].agent
                           /\ memory[m].state = "deleted" => memory'[m].state = "deleted"
    BY <1>2
  <2> QED  BY <2>1, <2>2, <2>3, <2>4, ToldStays
<1> QED  BY <1>2, <1>5, <1>6, <1>7, <1>8 DEF MemoriesInv

(* BeginRun: from then on, what runs that were answered before have left   *)
(* is what the run should be told.                                         *)
LEMMA BeginKeeps ==
  ASSUME RequestsTypeOK, MemoriesInv, NEW r \in Run, NEW form \in AskForms(r),
         BeginRun(r, form.ask, form.row)
  PROVE  MemoriesInv'
<1>1. /\ runs' = [runs EXCEPT ![r] = runs'[r]] /\ runs'[r].pc \in {"recall", "refused"} /\ ~runs'[r].whole
  BY BeginRunMakes
<1>2. /\ runs[r].pc = "idle" /\ UNCHANGED memory
      /\ before' = [before EXCEPT ![r] = {q \in Run : AtPc(q, "answered")}]
  BY DEF BeginRun, AtPc
<1>3. \A q \in Run \ {r} : runs'[q] = runs[q] /\ before'[q] = before[q]  BY <1>1, <1>2 DEF RequestsTypeOK
<1>4. RowsOrdered' /\ Present' = Present /\ \A q : LeftBy(q)' = LeftBy(q)
  BY <1>2 DEF MemoriesInv, RowsOrdered, Present, LeftBy
<1>5. \A m \in Present : memory[m].from # r  BY <1>2 DEF MemoriesInv, LeftKept
<1>6. LeftKept'
  BY <1>2, <1>3, <1>4, <1>5 DEF MemoriesInv, LeftKept
<1>7. ASSUME NEW q \in Run  PROVE StoredSoFar(q)'
  <2>1. CASE q # r  BY <2>1, <1>3, <1>4 DEF MemoriesInv, StoredSoFar, AtPc
  <2>2. CASE q = r  BY <2>2, <1>1 DEF StoredSoFar, AtPc
  <2> QED  BY <2>1, <2>2
<1>8. ASSUME NEW s \in Run, NEW q \in before'[s]  PROVE AtPc(q, "answered")' /\ q # r /\ q \in Run
  <2>1. q \in Run /\ AtPc(q, "answered")
    <3>1. CASE s = r  BY <3>1, <1>2 DEF RequestsTypeOK
    <3>2. CASE s # r  BY <3>2, <1>3 DEF RequestsTypeOK, MemoriesInv
    <3> QED  BY <3>1, <3>2
  <2>2. q # r  BY <2>1, <1>2 DEF AtPc
  <2> QED  BY <2>1, <2>2, <1>3 DEF AtPc
<1>9. ASSUME NEW s \in Run, runs'[s].pc \notin {"idle", "recall", "refused"}  PROVE ToldRightly(s)'
  <2>1. s # r  BY <1>1, <1>9
  <2>2. ToldRightly(s) /\ runs'[s] = runs[s] /\ before'[s] = before[s]  BY <2>1, <1>3, <1>9 DEF MemoriesInv
  <2>3. \A q \in before[s] : runs'[q].ask = runs[q].ask /\ LeftBy(q)' = LeftBy(q)
    BY <2>2, <1>3, <1>4, <1>8
  <2>4. \A m \in Present : /\ m \in Present' /\ memory'[m].user = memory[m].user
                           /\ memory'[m].agent = memory[m].agent
                           /\ memory[m].state = "deleted" => memory'[m].state = "deleted"
    BY <1>2, <1>4
  <2> QED  BY <2>2, <2>3, <2>4, ToldStays
<1> QED  BY <1>4, <1>6, <1>7, <1>8, <1>9 DEF MemoriesInv

(* A run is told the memories there are then.                              *)
LEMMA InjectKeeps ==
  ASSUME RequestsTypeOK, MemoriesInv, NEW r \in Run, InjectMemories(r)
  PROVE  MemoriesInv'
<1> DEFINE agent == runs[r].ask.agent
<1>1. /\ SameBut(r, {"request", "recalled"}) /\ runs[r].pc = "recall" /\ runs'[r].pc = "models"
      /\ runs'[r].recalled = Recalled(agent)
  BY InjectMakes
<1>2. UNCHANGED <<memory, before>>  BY DEF InjectMemories
<1>3. /\ \A q \in Run \ {r} : runs'[q] = runs[q]
      /\ runs'[r].ask = runs[r].ask /\ runs'[r].whole = runs[r].whole
  BY <1>1 DEF SameBut, RequestsTypeOK
<1>4. RowsOrdered /\ RowsOrdered' /\ Present' = Present /\ \A q : LeftBy(q)' = LeftBy(q)
  BY <1>2 DEF MemoriesInv, RowsOrdered, Present, LeftBy
<1>5. \A m \in Present : memory[m].from # r  BY <1>1 DEF MemoriesInv, LeftKept
<1>6. LeftKept'
  BY <1>2, <1>3, <1>4, <1>5 DEF MemoriesInv, LeftKept
<1>7. ASSUME NEW q \in Run  PROVE StoredSoFar(q)'
  <2>1. CASE q # r  BY <2>1, <1>3, <1>4 DEF MemoriesInv, StoredSoFar, AtPc
  <2>2. CASE q = r  BY <2>2, <1>1, <1>3 DEF MemoriesInv, StoredSoFar, AtPc
  <2> QED  BY <2>1, <2>2
<1>8. ASSUME NEW s \in Run, NEW q \in before'[s]
      PROVE  AtPc(q, "answered") /\ AtPc(q, "answered")' /\ q # r /\ q \in Run
  <2>1. q \in Run /\ AtPc(q, "answered")  BY <1>2 DEF RequestsTypeOK, MemoriesInv
  <2>2. q # r  BY <2>1, <1>1 DEF AtPc
  <2> QED  BY <2>1, <2>2, <1>3 DEF AtPc
<1>9. ASSUME NEW s \in Run, s # r, runs'[s].pc \notin {"idle", "recall", "refused"}  PROVE ToldRightly(s)'
  <2>2. ToldRightly(s) /\ runs'[s] = runs[s]  BY <1>3, <1>9 DEF MemoriesInv
  <2>3. \A q \in before[s] : runs'[q].ask = runs[q].ask /\ LeftBy(q)' = LeftBy(q)
    BY <1>2, <1>3, <1>4, <1>8
  <2>4. \A m \in Present : /\ m \in Present' /\ memory'[m].user = memory[m].user
                           /\ memory'[m].agent = memory[m].agent
                           /\ memory[m].state = "deleted" => memory'[m].state = "deleted"
    BY <1>2, <1>4
  <2> QED  BY <2>2, <2>3, <2>4, <1>2, ToldStays
<1>10. ToldRightly(r)'
  <2>1. /\ Recalled(agent) \subseteq Recallable(agent)
        /\ Cardinality(Recalled(agent)) # MaxRecalled => Recalled(agent) = Recallable(agent)
    BY <1>4, RecalledAll
  <2>2. ASSUME NEW m \in runs'[r].recalled
        PROVE  /\ m \in Present' /\ memory'[m].user = "me"
               /\ runs'[r].ask.agent # "" => memory'[m].agent = runs'[r].ask.agent
    <3>1. m \in Recallable(agent)  BY <2>1, <1>1
    <3>2. /\ m \in Present /\ memory[m].user = "me"
          /\ agent = "" \/ memory[m].agent = agent
      BY <3>1 DEF Recallable, Present
    <3> QED  BY <3>2, <1>2, <1>3, <1>4
  <2>3. ASSUME NEW q \in before'[r], runs'[r].ask.agent \in {"", runs'[q].ask.agent},
               NEW m \in LeftBy(q)'
        PROVE  ToldTo(m, r)'
    <3>1. q \in Run /\ runs'[q] = runs[q] /\ q # r  BY <1>3, <1>8
    <3>2. m \in Memory /\ memory[m] # Nobody /\ memory[m].from = q  BY <1>4 DEF LeftBy
    <3>3. memory[m].user = "me" /\ memory[m].agent = runs[q].ask.agent
      BY <3>1, <3>2 DEF MemoriesInv, LeftKept, Present
    <3>4. memory[m].state \in {"live", "deleted"}  BY <3>2 DEF RequestsTypeOK, MemoryRow
    <3>5. memory[m].state = "live" => m \in Recallable(agent)
      BY <3>1, <3>2, <3>3, <2>3, <1>3 DEF Recallable
    <3> QED  BY <3>4, <3>5, <2>1, <1>1, <1>2 DEF ToldTo
  <2> QED  BY <2>2, <2>3 DEF ToldRightly
<1> QED  BY <1>4, <1>6, <1>7, <1>8, <1>9, <1>10 DEF MemoriesInv

(* A row that is added counts for the run that left it.                    *)
LEMMA AddKeeps ==
  ASSUME RequestsTypeOK, MemoriesInv, NEW r \in Run \cup {Nobody}, NEW agent,
         Adds("me", agent, r), UNCHANGED before,
         r \in Run => /\ SameBut(r, {"entries", "whole"}) /\ runs[r].pc = "store" /\ runs'[r].pc = "store"
                      /\ runs'[r].whole = runs[r].whole
                      /\ Len(runs[r].entries) = Len(runs'[r].entries) + 1
                      /\ agent = runs[r].ask.agent,
         r \notin Run => UNCHANGED runs
  PROVE  MemoriesInv'
<1>1. PICK m \in Memory \ Present :
        /\ RowsOrdered' /\ Present' = Present \cup {m}
        /\ \A n \in Present : memory'[n] = memory[n]
        /\ memory'[m].user = "me" /\ memory'[m].agent = agent /\ memory'[m].from = r
        /\ \A q : LeftBy(q)' = IF q = r THEN LeftBy(q) \cup {m} ELSE LeftBy(q)
  BY RowAdded DEF MemoriesInv
<1>2. /\ \A q \in Run : q # r => runs'[q] = runs[q]
      /\ \A q \in Run : /\ runs'[q].pc = runs[q].pc /\ runs'[q].ask = runs[q].ask
                        /\ runs'[q].recalled = runs[q].recalled /\ runs'[q].whole = runs[q].whole
                        /\ runs'[q].leaves = runs[q].leaves
  <2>1. CASE r \in Run
    <3>1. /\ runs' = [runs EXCEPT ![r] = runs'[r]] /\ runs'[r].ask = runs[r].ask
          /\ runs'[r].recalled = runs[r].recalled /\ runs'[r].leaves = runs[r].leaves
          /\ runs'[r].whole = runs[r].whole /\ runs'[r].pc = runs[r].pc
      BY <2>1 DEF SameBut
    <3>2. \A q \in Run \ {r} : runs'[q] = runs[q]  BY <3>1 DEF RequestsTypeOK
    <3> QED  BY <3>1, <3>2
  <2>2. CASE r \notin Run  BY <2>2
  <2> QED  BY <2>1, <2>2
<1>3. LeftKept'
  <2> SUFFICES ASSUME NEW n \in Present', memory'[n].from \in Run
               PROVE  /\ runs'[memory'[n].from].pc \in {"store", "answered"}
                      /\ memory'[n].user = "me" /\ memory'[n].agent = runs'[memory'[n].from].ask.agent
    BY DEF LeftKept
  <2>1. CASE n = m  BY <2>1, <1>1, <1>2
  <2>2. CASE n \in Present  BY <2>2, <1>1, <1>2 DEF MemoriesInv, LeftKept
  <2> QED  BY <2>1, <2>2, <1>1
<1>4. ASSUME NEW q \in Run  PROVE StoredSoFar(q)'
  <2>1. CASE q # r  BY <2>1, <1>1, <1>2 DEF MemoriesInv, StoredSoFar, AtPc
  <2>2. CASE q = r
    <3>1. ~runs'[q].whole /\ runs[q].pc = "store" /\ runs'[q].leaves = runs[q].leaves
      BY <2>2, <1>2 DEF MemoriesInv, StoredSoFar, AtPc
    <3>2. IsFiniteSet(LeftBy(q)) /\ Cardinality(LeftBy(q)) \in Nat /\ m \notin LeftBy(q)
      <4>1. IsFiniteSet(Memory) /\ LeftBy(q) \in SUBSET Memory  BY RequestsAssumption DEF LeftBy
      <4> QED  BY <4>1, <1>1, FS_Subset, FS_CardinalityType DEF LeftBy, Present
    <3>3. Cardinality(LeftBy(q)') = Cardinality(LeftBy(q)) + 1
      BY <3>2, <2>2, <1>1, FS_AddElement
    <3>4. Cardinality(LeftBy(q)) + Len(runs[q].entries) = Len(runs[q].leaves)
      BY <3>1 DEF MemoriesInv, StoredSoFar, AtPc
    <3>5. Len(runs[q].entries) = Len(runs'[q].entries) + 1 /\ Len(runs'[q].entries) \in Nat
      BY <2>2 DEF SameBut, RunUnderway
    <3>6. Cardinality(LeftBy(q)') + Len(runs'[q].entries) = Len(runs'[q].leaves)
      <4>1. \A c, e \in Nat : (c + 1) + e = c + (e + 1)  OBVIOUS
      <4> QED  BY <4>1, <3>1, <3>2, <3>3, <3>4, <3>5
    <3> QED  BY <3>1, <3>6 DEF StoredSoFar, AtPc
  <2> QED  BY <2>1, <2>2
<1>5. ASSUME NEW s \in Run, NEW q \in before'[s]
      PROVE  AtPc(q, "answered") /\ AtPc(q, "answered")' /\ q \in Run /\ q # r
  <2>1. q \in Run /\ AtPc(q, "answered")  BY DEF RequestsTypeOK, MemoriesInv
  <2> QED  BY <2>1, <1>2 DEF AtPc
<1>6. ASSUME NEW s \in Run, runs'[s].pc \notin {"idle", "recall", "refused"}  PROVE ToldRightly(s)'
  <2>1. ToldRightly(s)  BY <1>2, <1>6 DEF MemoriesInv
  <2>2. \A q \in before[s] : runs'[q].ask = runs[q].ask /\ LeftBy(q)' = LeftBy(q)
    BY <1>1, <1>2, <1>5
  <2>3. \A n \in Present : /\ n \in Present' /\ memory'[n].user = memory[n].user
                           /\ memory'[n].agent = memory[n].agent
                           /\ memory[n].state = "deleted" => memory'[n].state = "deleted"
    BY <1>1
  <2> QED  BY <2>1, <2>2, <2>3, <1>2, ToldStays
<1> QED  BY <1>1, <1>3, <1>4, <1>5, <1>6 DEF MemoriesInv

(* DeleteMemory: a deleted row stays where it is, and is told to nobody.   *)
LEMMA DeleteKeeps ==
  ASSUME RequestsTypeOK, MemoriesInv, NEW m \in Memory, DeleteMemory(m)
  PROVE  MemoriesInv' /\ memory' \in [Memory -> MemoryRow \cup {Nobody}]
<1>1. /\ m \in Present /\ memory[m] \in MemoryRow
      /\ memory' = [memory EXCEPT ![m].state = "deleted"] /\ UNCHANGED <<runs, before>>
  BY DEF DeleteMemory, Present, RequestsTypeOK
<1>2. memory'[m] = [memory[m] EXCEPT !.state = "deleted"] /\ \A n \in Memory \ {m} : memory'[n] = memory[n]
  BY <1>1 DEF RequestsTypeOK
<1>3. /\ memory'[m] \in MemoryRow /\ memory'[m].state = "deleted" /\ memory'[m].user = memory[m].user
      /\ memory'[m].agent = memory[m].agent /\ memory'[m].from = memory[m].from
      /\ memory'[m].at = memory[m].at
  BY <1>1, <1>2 DEF MemoryRow
<1>4. memory' \in [Memory -> MemoryRow \cup {Nobody}]  BY <1>1, <1>2, <1>3 DEF RequestsTypeOK
<1>5. memory'[m] # Nobody  BY <1>3, RequestsAssumption
<1>6. Present' = Present /\ \A q : LeftBy(q)' = LeftBy(q)
  BY <1>1, <1>2, <1>3, <1>5 DEF Present, LeftBy
<1>7. \A n \in Present : /\ memory'[n].user = memory[n].user /\ memory'[n].agent = memory[n].agent
                         /\ memory'[n].from = memory[n].from /\ memory'[n].at = memory[n].at
                         /\ memory[n].state = "deleted" => memory'[n].state = "deleted"
  BY <1>2, <1>3 DEF Present
<1>8. RowsOrdered' /\ LeftKept'
  BY <1>1, <1>6, <1>7 DEF MemoriesInv, RowsOrdered, LeftKept
<1>9. ASSUME NEW q \in Run  PROVE StoredSoFar(q)'
  BY <1>1, <1>6 DEF MemoriesInv, StoredSoFar, AtPc
<1>10. ASSUME NEW s \in Run, runs'[s].pc \notin {"idle", "recall", "refused"}  PROVE ToldRightly(s)'
  <2>1. ToldRightly(s)  BY <1>1, <1>10 DEF MemoriesInv
  <2>2. \A n \in Present : /\ n \in Present' /\ memory'[n].user = memory[n].user
                           /\ memory'[n].agent = memory[n].agent
                           /\ memory[n].state = "deleted" => memory'[n].state = "deleted"
    BY <1>6, <1>7
  <2> QED  BY <2>1, <2>2, <1>1, <1>6, ToldStays
<1>11. \A s \in Run : \A q \in before'[s] : AtPc(q, "answered")'  BY <1>1 DEF MemoriesInv, AtPc
<1> QED  BY <1>4, <1>8, <1>9, <1>10, <1>11 DEF MemoriesInv

-------------------------------------------------------------------------------
(* Of the requests: a step is of one run, and leaves the others'.          *)
Elsewhere(r) ==
  \A q \in Run \ {r} : runs'[q] = runs[q] /\ sent'[q] = sent[q] /\ seen'[q] = seen[q]

(* What a step leaves alone of a run stays as it was.                      *)
LEMMA KeptElsewhere ==
  ASSUME NEW q \in Run, RequestKept(q), runs'[q] = runs[q], sent'[q] = sent[q], seen'[q] = seen[q]
  PROVE  RequestKept(q)'
<1>1. Showing(q)' = Showing(q)  BY DEF Showing
<1> QED  BY <1>1 DEF RequestKept, AtPc

(* A step of one run leaves the others alone.                              *)
LEMMA ElsewhereIs ==
  ASSUME RequestsTypeOK, NEW r \in Run, runs' = [runs EXCEPT ![r] = runs'[r]],
         UNCHANGED sent \/ sent' = [sent EXCEPT ![r] = sent'[r]],
         UNCHANGED seen \/ seen' = [seen EXCEPT ![r] = seen'[r]]
  PROVE  Elsewhere(r)
BY DEF Elsewhere, RequestsTypeOK

(* A step that goes on with the same request.                              *)
LEMMA SameRequestKept ==
  ASSUME NEW r \in Run, RequestKept(r), SameBut(r, {"entries", "leaves", "whole"}),
         UNCHANGED <<sent, seen>>, runs[r].pc \notin {"idle", "refused", "recall", "models"},
         \/ runs'[r].pc \in {"failed", "ended", "store", "answered"}
         \/ runs'[r].pc = "acting" /\ runs[r].pc = "asked"
  PROVE  RequestKept(r)'
<1>1. runs'[r].ask = runs[r].ask /\ runs'[r].request = runs[r].request  BY DEF SameBut
<1>2. Showing(r)' = Showing(r)  BY <1>1 DEF Showing
<1> QED  BY <1>1, <1>2 DEF RequestKept, AtPc

(* BeginRun: the request is of the agent that was meant.                   *)
LEMMA BeginRequestKept ==
  ASSUME RequestsTypeOK, NEW r \in Run, RequestKept(r), NEW form \in AskForms(r),
         BeginRun(r, form.ask, form.row)
  PROVE  RequestKept(r)'
<1>1. /\ runs'[r].pc \in {"recall", "refused"} /\ runs'[r].ask = form.ask
      /\ runs'[r].pc = "recall" => Meant(runs'[r].request, form.ask)
      /\ runs'[r].request.task = 0 /\ runs'[r].request.images = {}
      /\ HistoryTold(runs'[r].request.history, form.ask.history, 0)
  BY BeginRunMakes
<1>2. runs[r].pc = "idle" /\ UNCHANGED <<sent, seen>>  BY DEF BeginRun, AtPc
<1>3. sent'[r] = Nobody /\ seen'[r] = <<>>  BY <1>2 DEF RequestKept, AtPc
<1>4. Len(seen'[r]) = 0 /\ Showing(r)' = {}  BY <1>3 DEF Showing
<1> QED  BY <1>1, <1>3, <1>4 DEF RequestKept, AtPc

(* InjectMemories does not change where models and prompts come from.      *)
LEMMA InjectRequestKept ==
  ASSUME RequestsTypeOK, NEW r \in Run, RequestKept(r), InjectMemories(r)
  PROVE  RequestKept(r)'
<1>1. /\ SameBut(r, {"request", "recalled"}) /\ runs[r].pc = "recall" /\ runs'[r].pc = "models"
      /\ Meant(runs[r].request, runs[r].ask) => Meant(runs'[r].request, runs[r].ask)
      /\ runs'[r].request.task = runs[r].request.task
      /\ runs'[r].request.history = runs[r].request.history
      /\ runs'[r].request.images = runs[r].request.images
  BY InjectMakes
<1>2. UNCHANGED <<sent, seen>> /\ runs'[r].ask = runs[r].ask  BY <1>1 DEF InjectMemories, SameBut
<1>3. Showing(r)' = Showing(r)  BY <1>2 DEF Showing
<1> QED  BY <1>1, <1>2, <1>3 DEF RequestKept, AtPc

(* Nor does HydrateModels, which fills in a default where there is none.   *)
LEMMA ModelsRequestKept ==
  ASSUME RequestsTypeOK, NEW r \in Run, RequestKept(r), NEW resolved \in BOOLEAN,
         HydrateModels(r, resolved)
  PROVE  RequestKept(r)'
<1>1. /\ SameBut(r, {"request"}) /\ runs[r].pc = "models"
      /\ runs'[r].pc \in {"send", "refused"}
      /\ Meant(runs[r].request, runs[r].ask) => Meant(runs'[r].request, runs[r].ask)
      /\ runs'[r].pc = "send" => runs'[r].request.models["default"] # "none"
      /\ runs'[r].request.task = runs[r].request.task
      /\ runs'[r].request.history = runs[r].request.history
      /\ runs'[r].request.images = runs[r].request.images
  BY ModelsMake
<1>2. UNCHANGED <<sent, seen>> /\ runs'[r].ask = runs[r].ask  BY <1>1 DEF HydrateModels, SameBut
<1>3. Showing(r)' = Showing(r)  BY <1>2 DEF Showing
<1> QED  BY <1>1, <1>2, <1>3 DEF RequestKept, AtPc

(* The two forms in which a request is sent say the same of what is        *)
(* followed here.                                                          *)
LEMMA SentSame ==
  ASSUME NEW request \in RunRequest, NEW message \in {ToRunRequest(request), ToAgentRequest(request)}
  PROVE  /\ message \in RunRequest /\ message.context = request.context
         /\ message.models = request.models /\ message.task = request.task
         /\ message.history = request.history /\ message.images = request.images
<1>1. Sendable(request.parts) \in [Part -> Origin]
  BY DEF Sendable, RunRequest, Origin
<1>2. [p \in Part |-> IF p = "capabilities" THEN Sendable(request.parts)[p] ELSE "none"] \in [Part -> Origin]
  BY <1>1 DEF Origin
<1>3. CASE message = ToRunRequest(request)
  BY <1>1, <1>3 DEF ToRunRequest, RunRequest
<1>4. CASE message = ToAgentRequest(request)
  BY <1>2, <1>4 DEF ToAgentRequest, RunRequest
<1> QED  BY <1>3, <1>4

(* AskRuntime: what is sent is the request as it is.                       *)
LEMMA AskMakes ==
  ASSUME RequestsTypeOK, NEW r \in Run, AskRuntime(r)
  PROVE  /\ SameBut(r, {}) /\ runs[r].pc = "send" /\ runs'[r].pc = "asked"
         /\ sent' = [sent EXCEPT ![r] = sent'[r]] /\ sent'[r] \in RunRequest
         /\ sent'[r].context = runs[r].request.context
         /\ sent'[r].models = runs[r].request.models /\ sent'[r].task = runs[r].request.task
         /\ sent'[r].history = runs[r].request.history /\ sent'[r].images = runs[r].request.images
<1>1. runs[r] \in RunUnderway /\ runs[r].pc = "send"  BY Underway DEF AskRuntime, AtPc
<1>2. runs[r].request \in RunRequest  BY <1>1 DEF RunUnderway
<1>3. "asked" \in RunPlaces /\ Moves(r, "asked")  BY DEF RunPlaces, AskRuntime
<1>4. runs'[r].pc = "asked" /\ SameBut(r, {})  BY <1>1, <1>3, MovesTo DEF AtPc
<1>5. sent'[r] \in {ToRunRequest(runs[r].request), ToAgentRequest(runs[r].request)}
      /\ sent' = [sent EXCEPT ![r] = sent'[r]]
  BY DEF AskRuntime, RequestsTypeOK
<1> QED  BY <1>1, <1>2, <1>4, <1>5, SentSame

(* AskRuntime: so what was sent is as meant.                               *)
LEMMA AskRequestKept ==
  ASSUME RequestsTypeOK, NEW r \in Run, RequestKept(r), AskRuntime(r)
  PROVE  RequestKept(r)'
<1>1. /\ SameBut(r, {}) /\ runs[r].pc = "send" /\ runs'[r].pc = "asked"
      /\ sent'[r].context = runs[r].request.context
      /\ sent'[r].models = runs[r].request.models /\ sent'[r].task = runs[r].request.task
      /\ sent'[r].history = runs[r].request.history /\ sent'[r].images = runs[r].request.images
  BY AskMakes
<1>2. runs'[r].ask = runs[r].ask /\ runs'[r].request = runs[r].request  BY <1>1 DEF SameBut
<1>3. UNCHANGED seen  BY DEF AskRuntime
<1>4. Showing(r)' = Showing(r)  BY <1>2, <1>3 DEF Showing
<1>5. Meant(runs[r].request, runs[r].ask) /\ runs[r].request.models["default"] # "none"
  BY <1>1 DEF RequestKept
<1>6. Meant(sent'[r], runs[r].ask)  BY <1>1, <1>5 DEF Meant
<1> QED  BY <1>1, <1>2, <1>3, <1>4, <1>5, <1>6 DEF RequestKept, AtPc

(* Observe: the history tells the last observations, in their order.       *)
LEMMA ObserveRequestKept ==
  ASSUME RequestsTypeOK, NEW r \in Run, RequestKept(r), NEW attachments \in Attachments,
         Observe(r, attachments)
  PROVE  RequestKept(r)'
<1>1. HistoryTold(runs[r].request.history, runs[r].ask.history, Len(seen[r]))
  BY DEF RequestKept, Observe, AtPc
<1>2. /\ SameBut(r, {"request"}) /\ runs[r].pc = "acting" /\ runs'[r].pc \in {"send", "failed"}
      /\ Meant(runs[r].request, runs[r].ask) => Meant(runs'[r].request, runs[r].ask)
      /\ runs'[r].request.models = runs[r].request.models
      /\ runs'[r].request.task = Len(seen'[r])
      /\ HistoryTold(runs'[r].request.history, runs[r].ask.history, Len(seen'[r]))
      /\ runs'[r].request.images = Showing(r)'
  BY <1>1, ObserveMakes
<1>3. UNCHANGED sent /\ runs'[r].ask = runs[r].ask  BY <1>2 DEF Observe, SameBut
<1> QED  BY <1>2, <1>3 DEF RequestKept, AtPc

-------------------------------------------------------------------------------
(* At the start no run has begun, and the memories are those that were     *)
(* there.                                                                  *)
LEMMA RequestsInvInit == RequestsInit => RequestsInv
<1> SUFFICES ASSUME RequestsInit  PROVE RequestsInv
  OBVIOUS
<1>1. RequestsTypeOK
  <2>1. \A m \in Memory : MemoryForm(m) \in MemoryRow \cup {Nobody}
    BY RequestsAssumption DEF FirstRows
  <2>2. MaxMemoryCalls \in Nat /\ MaxMemoryFaults \in Nat  BY RequestsAssumption
  <2> QED  BY <2>1, <2>2 DEF RequestsInit, RequestsTypeOK
<1>2. Present = FirstRows /\ \A m \in Present : memory[m] = MemoryForm(m)
  BY DEF RequestsInit, Present, FirstRows
<1>3. RowsOrdered /\ \A m \in Present : memory[m].from = Nobody
  <2>1. \A m \in FirstRows :
          /\ MemoryForm(m).from = Nobody /\ MemoryForm(m).at < Cardinality(FirstRows)
          /\ \A n \in FirstRows : MemoryForm(m).at = MemoryForm(n).at => m = n
    BY RequestsAssumption
  <2> HIDE DEF FirstRows
  <2>2. \A m \in Present : memory[m].at = MemoryForm(m).at /\ memory[m].from = MemoryForm(m).from
    BY <1>2
  <2> QED  BY <1>2, <2>1, <2>2 DEF RowsOrdered
<1>4. \A r \in Run : runs[r].pc = "idle" /\ sent[r] = Nobody /\ seen[r] = <<>> /\ before[r] = {}
  BY DEF RequestsInit, NotBegun
<1>5. Nobody \notin Run  BY RequestsAssumption
<1>6. MemoriesInv
  BY <1>3, <1>4, <1>5 DEF MemoriesInv, LeftKept, StoredSoFar, AtPc
<1>7. \A r \in Run : RequestKept(r)
  BY <1>4 DEF RequestKept, AtPc
<1> QED  BY <1>1, <1>6, <1>7 DEF RequestsInv

(* A step of a run keeps the invariant where what it writes has its type,  *)
(* and its own request is kept.                                            *)
LEMMA StepOfRun ==
  ASSUME RequestsInv, NEW r \in Run, MemoriesInv', RequestKept(r)',
         runs' = [runs EXCEPT ![r] = runs'[r]], runs'[r] \in RunUnderway,
         memory' \in [Memory -> MemoryRow \cup {Nobody}],
         UNCHANGED sent \/ (sent' = [sent EXCEPT ![r] = sent'[r]] /\ sent'[r] \in RunRequest),
         UNCHANGED seen \/ (seen' = [seen EXCEPT ![r] = seen'[r]] /\ seen'[r] \in Seq(Attachments)),
         before' \in [Run -> SUBSET Run], UNCHANGED memoryCalls, memoryFaults' \in 0..MaxMemoryFaults
  PROVE  RequestsInv'
<1>1. RequestsTypeOK' /\ Elsewhere(r)
  BY ElsewhereIs DEF RequestsInv, RequestsTypeOK
<1>2. \A q \in Run : RequestKept(q)'
  BY <1>1, KeptElsewhere DEF RequestsInv, Elsewhere
<1> QED  BY <1>1, <1>2 DEF RequestsInv

(* Every step keeps the invariant.                                         *)
LEMMA RequestsInvStep == RequestsInv /\ [RequestsNext]_requestsVars => RequestsInv'
<1> SUFFICES ASSUME RequestsInv, [RequestsNext]_requestsVars  PROVE RequestsInv'
  OBVIOUS
<1>0. MaxMemoryCalls \in Nat  BY RequestsAssumption
<1>1. RequestsTypeOK /\ MemoriesInv /\ \A r \in Run : RequestKept(r)  BY DEF RequestsInv
<1>2. /\ memory \in [Memory -> MemoryRow \cup {Nobody}] /\ before \in [Run -> SUBSET Run]
      /\ memoryCalls \in 0..MaxMemoryCalls /\ memoryFaults \in 0..MaxMemoryFaults
  BY <1>1 DEF RequestsTypeOK
<1>3. ASSUME NEW r \in Run, SameBut(r, {"entries", "leaves"}),
             UNCHANGED <<memory, sent, seen, before, memoryCalls, memoryFaults>>,
             runs[r].pc \in {"asked", "acting"},
             \/ runs'[r].pc \in {"failed", "ended", "store", "answered"}
             \/ runs'[r].pc = "acting" /\ runs[r].pc = "asked",
             runs'[r].pc = "store" => runs'[r].entries = runs'[r].leaves
      PROVE  RequestsInv'
  <2>1. /\ SameBut(r, {"request", "entries", "leaves", "whole"}) /\ SameBut(r, {"entries", "leaves", "whole"})
        /\ runs'[r].whole = runs[r].whole
    BY <1>3 DEF SameBut
  <2>2. MemoriesInv'  BY <1>1, <1>3, <2>1, ToldRunKeeps
  <2>3. RequestKept(r)'  BY <1>1, <1>3, <2>1, SameRequestKept
  <2> QED  BY <1>2, <1>3, <2>2, <2>3, StepOfRun DEF SameBut
<1>4. ASSUME NEW r \in Run, NEW form \in AskForms(r), BeginRun(r, form.ask, form.row)  PROVE RequestsInv'
  <2>1. MemoriesInv' /\ RequestKept(r)'  BY <1>1, <1>4, BeginKeeps, BeginRequestKept
  <2>2. runs' = [runs EXCEPT ![r] = runs'[r]] /\ runs'[r] \in RunUnderway  BY <1>1, <1>4, BeginRunMakes
  <2>3. UNCHANGED <<memory, sent, seen, memoryCalls, memoryFaults>> /\ before' \in [Run -> SUBSET Run]
    BY <1>2, <1>4 DEF BeginRun
  <2> QED  BY <1>2, <2>1, <2>2, <2>3, StepOfRun
<1>5. ASSUME NEW r \in Run, InjectMemories(r)  PROVE RequestsInv'
  <2>1. MemoriesInv' /\ RequestKept(r)'  BY <1>1, <1>5, InjectKeeps, InjectRequestKept
  <2>2. runs' = [runs EXCEPT ![r] = runs'[r]] /\ runs'[r] \in RunUnderway
    BY <1>1, <1>5, InjectMakes DEF SameBut
  <2>3. UNCHANGED <<memory, sent, seen, before, memoryCalls, memoryFaults>>  BY <1>5 DEF InjectMemories
  <2> QED  BY <1>2, <2>1, <2>2, <2>3, StepOfRun
<1>6. ASSUME NEW r \in Run, NEW resolved \in BOOLEAN, HydrateModels(r, resolved)  PROVE RequestsInv'
  <2>1. /\ SameBut(r, {"request"}) /\ runs[r].pc = "models" /\ runs'[r].pc \in {"send", "refused"}
    BY <1>1, <1>6, ModelsMake
  <2>2. UNCHANGED <<memory, sent, seen, before, memoryCalls, memoryFaults>>  BY <1>6 DEF HydrateModels
  <2>3. SameBut(r, {"request", "entries", "leaves", "whole"}) /\ runs'[r].whole = runs[r].whole  BY <2>1 DEF SameBut
  <2>4. MemoriesInv'  BY <1>1, <2>1, <2>2, <2>3, ToldRunKeeps
  <2>5. RequestKept(r)'  BY <1>1, <1>6, ModelsRequestKept
  <2> QED  BY <1>2, <2>2, <2>3, <2>4, <2>5, StepOfRun DEF SameBut
<1>7. ASSUME NEW r \in Run, AskRuntime(r)  PROVE RequestsInv'
  <2>1. /\ SameBut(r, {}) /\ runs[r].pc = "send" /\ runs'[r].pc = "asked"
        /\ sent' = [sent EXCEPT ![r] = sent'[r]] /\ sent'[r] \in RunRequest
    BY <1>1, <1>7, AskMakes
  <2>2. UNCHANGED <<memory, seen, before, memoryCalls, memoryFaults>>  BY <1>7 DEF AskRuntime
  <2>3. SameBut(r, {"request", "entries", "leaves", "whole"}) /\ runs'[r].whole = runs[r].whole  BY <2>1 DEF SameBut
  <2>4. MemoriesInv'  BY <1>1, <2>1, <2>2, <2>3, ToldRunKeeps
  <2>5. RequestKept(r)'  BY <1>1, <1>7, AskRequestKept
  <2> QED  BY <1>2, <2>1, <2>2, <2>3, <2>4, <2>5, StepOfRun DEF SameBut
<1>8. ASSUME NEW r \in Run, Fails(r) \/ AnswersAction(r) \/ ActionEnds(r)  PROVE RequestsInv'
  <2>1. PICK pc \in {"failed", "acting", "ended"} :
          /\ Moves(r, pc) /\ runs[r].pc \in {"asked", "acting"}
          /\ pc = "acting" => runs[r].pc = "asked"
          /\ UNCHANGED <<memory, sent, seen, before, memoryCalls, memoryFaults>>
    BY <1>8 DEF Fails, AnswersAction, ActionEnds, AtPc
  <2>2. pc \in RunPlaces /\ ~AtPc(r, "idle")  BY <2>1 DEF RunPlaces, AtPc
  <2>3. runs'[r].pc = pc /\ SameBut(r, {})  BY <1>1, <2>1, <2>2, MovesTo
  <2>4. SameBut(r, {"entries", "leaves"})  BY <2>3 DEF SameBut
  <2> QED  BY <2>1, <2>3, <2>4, <1>3
<1>9. ASSUME NEW r \in Run, NEW learned \in Learned, AnswersDone(r, learned)  PROVE RequestsInv'
  <2>1. /\ SameBut(r, {"entries", "leaves"}) /\ runs[r].pc = "asked"
        /\ runs'[r].pc \in {"answered", "store"}
        /\ runs'[r].pc = "store" => runs'[r].entries = runs'[r].leaves
    BY <1>1, <1>9, DoneMakes
  <2>2. UNCHANGED <<memory, sent, seen, before, memoryCalls, memoryFaults>>  BY <1>9 DEF AnswersDone
  <2> QED  BY <2>1, <2>2, <1>3
<1>10. ASSUME NEW r \in Run, StoreExtracted(r)  PROVE RequestsInv'
  <2>1. /\ SameBut(r, {"entries", "whole"}) /\ runs[r].pc = "store" /\ memoryFaults' \in 0..MaxMemoryFaults
        /\ \/ /\ runs'[r].pc = "answered" /\ memory' = memory
              /\ runs'[r].whole => runs[r].entries = <<>> \/ runs[r].whole
           \/ /\ runs'[r].pc = "store" /\ runs'[r].whole = runs[r].whole
              /\ Len(runs[r].entries) = Len(runs'[r].entries) + 1
              /\ Adds("me", runs[r].ask.agent, r)
    BY <1>1, <1>10, StoreMakes
  <2>2. UNCHANGED <<sent, seen, before, memoryCalls>>  BY <1>10 DEF StoreExtracted
  <2>3. MemoriesInv' /\ memory' \in [Memory -> MemoryRow \cup {Nobody}]
    <3>1. CASE Adds("me", runs[r].ask.agent, r) /\ runs'[r].pc = "store"
      <4>1. MemoriesInv'  BY <1>1, <2>1, <2>2, <3>1, AddKeeps
      <4>2. RowsOrdered  BY <1>1 DEF MemoriesInv
      <4> QED  BY <1>1, <4>1, <4>2, <3>1, RowAdded
    <3>2. CASE memory' = memory /\ runs'[r].pc = "answered"
      <4>1. ~runs[r].whole  BY <1>1, <2>1 DEF MemoriesInv, StoredSoFar, AtPc
      <4>2. SameBut(r, {"request", "entries", "leaves", "whole"}) /\ runs'[r].leaves = runs[r].leaves
        BY <2>1 DEF SameBut
      <4>3. runs'[r].whole => runs[r].entries = <<>>
        BY <2>1, <3>2, <4>1
      <4> QED  BY <1>1, <1>2, <2>1, <2>2, <3>2, <4>2, <4>3, ToldRunKeeps
    <3> QED  BY <2>1, <3>1, <3>2
  <2>4. RequestKept(r)'
    <3>1. CASE runs'[r].pc = "answered"
      <4>1. SameBut(r, {"entries", "leaves", "whole"})  BY <2>1 DEF SameBut
      <4> QED  BY <1>1, <2>1, <2>2, <3>1, <4>1, SameRequestKept
    <3>2. CASE runs'[r].pc = "store"
      <4>1. runs'[r].request = runs[r].request /\ runs'[r].ask = runs[r].ask  BY <2>1 DEF SameBut
      <4>2. Showing(r)' = Showing(r)  BY <4>1, <2>2 DEF Showing
      <4> QED  BY <1>1, <2>1, <2>2, <3>2, <4>1, <4>2 DEF RequestKept, AtPc
    <3> QED  BY <2>1, <3>1, <3>2
  <2> QED  BY <1>2, <2>1, <2>2, <2>3, <2>4, StepOfRun DEF SameBut
<1>11. ASSUME NEW r \in Run, NEW attachments \in Attachments, Observe(r, attachments)  PROVE RequestsInv'
  <2>1. HistoryTold(runs[r].request.history, runs[r].ask.history, Len(seen[r]))
    BY <1>1, <1>11 DEF RequestKept, Observe, AtPc
  <2>2. /\ SameBut(r, {"request"}) /\ runs[r].pc = "acting" /\ runs'[r].pc \in {"send", "failed"}
        /\ seen' = [seen EXCEPT ![r] = Append(seen[r], attachments)] /\ seen'[r] \in Seq(Attachments)
    BY <1>1, <1>11, <2>1, ObserveMakes
  <2>3. UNCHANGED <<memory, sent, before, memoryCalls, memoryFaults>>  BY <1>11 DEF Observe
  <2>4. SameBut(r, {"request", "entries", "leaves", "whole"}) /\ runs'[r].whole = runs[r].whole  BY <2>2 DEF SameBut
  <2>5. MemoriesInv'  BY <1>1, <2>2, <2>3, <2>4, ToldRunKeeps
  <2>6. RequestKept(r)'  BY <1>1, <1>11, ObserveRequestKept
  <2>7. seen' = [seen EXCEPT ![r] = seen'[r]]  BY <1>1, <2>2 DEF RequestsTypeOK
  <2> QED  BY <1>2, <2>2, <2>3, <2>4, <2>5, <2>6, <2>7, StepOfRun DEF SameBut
<1>12. ASSUME NEW agent \in AgentName, CreateMemory(agent, 0)  PROVE RequestsInv'
  <2>1. /\ Free # {} /\ memory' = [memory EXCEPT ![NextFree] = Remembered("me", agent, 0, Nobody)]
        /\ UNCHANGED <<runs, sent, seen, before, memoryFaults>>
        /\ memoryCalls < MaxMemoryCalls /\ memoryCalls' = memoryCalls + 1
    BY <1>12 DEF CreateMemory
  <2>2. 0 \in Nat /\ Nobody \notin Run  BY RequestsAssumption
  <2>3. Adds("me", agent, Nobody)  BY <1>1, <2>1, <2>2, RemembersOne
  <2>4. MemoriesInv'  BY <1>1, <2>1, <2>2, <2>3, AddKeeps
  <2>5. memory' \in [Memory -> MemoryRow \cup {Nobody}]
    <3>1. RowsOrdered  BY <1>1 DEF MemoriesInv
    <3> QED  BY <1>1, <2>3, <3>1, RowAdded
  <2>6. memoryCalls' \in 0..MaxMemoryCalls  BY <1>0, <1>2, <2>1
  <2>7. RequestsTypeOK'  BY <1>1, <2>1, <2>5, <2>6 DEF RequestsTypeOK
  <2>8. \A q \in Run : RequestKept(q)'  BY <1>1, <2>1, KeptElsewhere
  <2> QED  BY <2>4, <2>7, <2>8 DEF RequestsInv
<1>13. ASSUME NEW m \in Memory, DeleteMemory(m)  PROVE RequestsInv'
  <2>1. /\ UNCHANGED <<runs, sent, seen, before, memoryFaults>>
        /\ memoryCalls < MaxMemoryCalls /\ memoryCalls' = memoryCalls + 1
    BY <1>13 DEF DeleteMemory
  <2>2. MemoriesInv' /\ memory' \in [Memory -> MemoryRow \cup {Nobody}]  BY <1>1, <1>13, DeleteKeeps
  <2>3. memoryCalls' \in 0..MaxMemoryCalls  BY <1>0, <1>2, <2>1
  <2>4. RequestsTypeOK'  BY <1>1, <2>1, <2>2, <2>3 DEF RequestsTypeOK
  <2>5. \A q \in Run : RequestKept(q)'  BY <1>1, <2>1, KeptElsewhere
  <2> QED  BY <2>2, <2>4, <2>5 DEF RequestsInv
<1>14. CASE UNCHANGED requestsVars
  <2>1. RequestsTypeOK'  BY <1>1, <1>14 DEF RequestsTypeOK, requestsVars
  <2>2. MemoriesInv'
    <3>1. Present' = Present /\ \A q : LeftBy(q)' = LeftBy(q)  BY <1>14 DEF requestsVars, Present, LeftBy
    <3>2. RowsOrdered' /\ LeftKept'
      BY <1>1, <1>14, <3>1 DEF requestsVars, MemoriesInv, RowsOrdered, LeftKept
    <3>3. \A q \in Run : StoredSoFar(q)'
      BY <1>1, <1>14, <3>1 DEF requestsVars, MemoriesInv, StoredSoFar, AtPc
    <3>4. \A r \in Run : \A q \in before'[r] : AtPc(q, "answered")'
      BY <1>1, <1>14 DEF requestsVars, MemoriesInv, AtPc
    <3>5. ASSUME NEW r \in Run, runs'[r].pc \notin {"idle", "recall", "refused"}  PROVE ToldRightly(r)'
      <4>1. ToldRightly(r)  BY <1>1, <1>14, <3>5 DEF requestsVars, MemoriesInv
      <4> QED  BY <4>1, <1>1, <1>14, <3>1, ToldStays DEF requestsVars
    <3> QED  BY <3>2, <3>3, <3>4, <3>5 DEF MemoriesInv
  <2>3. \A r \in Run : RequestKept(r)'  BY <1>1, <1>14, KeptElsewhere DEF requestsVars
  <2> QED  BY <2>1, <2>2, <2>3 DEF RequestsInv
<1> QED  BY <1>4, <1>5, <1>6, <1>7, <1>8, <1>9, <1>10, <1>11, <1>12, <1>13, <1>14 DEF RequestsNext

(* And it says what is meant by a request.                                 *)
LEMMA RequestsInvGives == RequestsInv => AskedAsMeant
<1> SUFFICES ASSUME RequestsInv  PROVE AskedAsMeant
  OBVIOUS
<1>1. RequestsTypeOK /\ MemoriesInv /\ \A r \in Run : RequestKept(r)  BY DEF RequestsInv
<1>2. ASSUME NEW r \in Run, sent[r] # Nobody  PROVE OfOneAgent(r)
  BY <1>1, <1>2 DEF RequestKept, Meant, OfOneAgent
<1>3. ASSUME NEW r \in Run, sent[r] # Nobody  PROVE FollowsObservations(r)
  <2> SUFFICES ASSUME AtPc(r, "asked")  PROVE FollowsObservations(r)
    BY DEF FollowsObservations
  <2> DEFINE n == Len(seen[r])
             given == runs[r].ask.history
             zeros == [i \in 1..given |-> 0]
             numbers == [i \in 1..n |-> i]
             all == zeros \o numbers
             history == sent[r].history
  <2>1. /\ sent[r].task = n /\ sent[r].images = Showing(r) /\ HistoryTold(history, given, n)
    BY <1>1 DEF RequestKept, AtPc
  <2>2. n \in Nat /\ given \in Nat /\ history \in Seq(Nat) /\ MaxHistory \in Nat
    <3>1. runs[r] \in RunUnderway  BY <1>1, Underway DEF AtPc
    <3>2. given \in Nat  BY <3>1 DEF RunUnderway, Ask
    <3>3. n \in Nat  BY <1>1 DEF RequestsTypeOK
    <3>4. history \in Seq(Nat)  BY <1>1, <1>3 DEF RequestsTypeOK, RunRequest
    <3> QED  BY <3>2, <3>3, <3>4, RequestsAssumption
  <2> HIDE DEF n, given, history
  <2>3. zeros \in Seq(Nat) /\ Len(zeros) = given /\ numbers \in Seq(Nat) /\ Len(numbers) = n
    BY <2>2
  <2>4. Len(all) = given + n /\ \A j \in 1..(given + n) : all[j] = ObservedAt(j, given)
    <3>1. Len(all) = given + n  BY <2>2, <2>3
    <3>2. ASSUME NEW j \in 1..(given + n)  PROVE all[j] = ObservedAt(j, given)
      <4>1. CASE j <= given
        <5>1. j \in 1..given  BY <4>1, <2>2
        <5>2. all[j] = zeros[j]  BY <5>1, <2>2, <2>3
        <5> QED  BY <5>1, <5>2, <4>1 DEF ObservedAt
      <4>2. CASE ~(j <= given)
        <5>1. j - given \in 1..n  BY <4>2, <2>2
        <5>2. all[j] = numbers[j - given]  BY <4>2, <5>1, <2>2, <2>3
        <5> QED  BY <5>1, <5>2, <4>2 DEF ObservedAt
      <4> QED  BY <4>1, <4>2
    <3> QED  BY <3>1, <3>2
  <2> HIDE DEF all
  <2>5. n > 0 => Len(history) = IF Len(all) > MaxHistory THEN MaxHistory ELSE Len(all)
    BY <2>1, <2>2, <2>4 DEF HistoryTold
  <2>6. ASSUME NEW i \in 1..Len(history)  PROVE history[i] = all[Len(all) - Len(history) + i]
    <3>1. Len(history) <= given + n /\ Len(history) \in Nat  BY <2>1, <2>2 DEF HistoryTold
    <3>2. given + n - Len(history) + i \in 1..(given + n)  BY <3>1, <2>2
    <3>3. history[i] = ObservedAt(given + n - Len(history) + i, given)  BY <2>1 DEF HistoryTold
    <3>4. Len(all) - Len(history) + i = given + n - Len(history) + i
      <4> HIDE DEF history
      <4> QED  BY <2>2, <2>4, <3>1
    <3>5. all[given + n - Len(history) + i] = ObservedAt(given + n - Len(history) + i, given)
      BY <3>2, <2>4
    <3> QED  BY <3>3, <3>4, <3>5
  <2> QED  BY <2>1, <2>5, <2>6 DEF FollowsObservations, Showing, n, given, history, all
<1>4. LearnedIsTold
  <2> SUFFICES ASSUME NEW r \in Run, runs[r].pc \notin {"idle", "recall", "refused"}
               PROVE /\ \A m \in runs[r].recalled :
                          /\ memory[m].user = "me"
                          /\ runs[r].ask.agent # "" => memory[m].agent = runs[r].ask.agent
                     /\ \A q \in before[r] :
                          (runs[q].whole /\ runs[r].ask.agent \in {"", runs[q].ask.agent}) =>
                            /\ Cardinality(LeftBy(q)) = Len(runs[q].leaves)
                            /\ \A m \in LeftBy(q) : ToldTo(m, r)
    BY DEF LearnedIsTold, LeftBy
  <2>1. ToldRightly(r)  BY <1>1 DEF MemoriesInv
  <2>2. ASSUME NEW q \in before[r], runs[q].whole
        PROVE  Cardinality(LeftBy(q)) = Len(runs[q].leaves)
    <3>1. q \in Run /\ AtPc(q, "answered")  BY <1>1 DEF RequestsTypeOK, MemoriesInv
    <3> QED  BY <1>1, <2>2, <3>1 DEF MemoriesInv, StoredSoFar, AtPc
  <2> QED  BY <2>1, <2>2 DEF ToldRightly
<1> QED  BY <1>2, <1>3, <1>4 DEF AskedAsMeant, RequestsAsMeant

(* What runs are, and what the table of memories holds.                    *)
THEOREM RequestsTypeCorrect == RequestsSpec => []RequestsTypeOK
<1>1. RequestsInv => RequestsTypeOK  BY DEF RequestsInv
<1> QED  BY <1>1, RequestsInvInit, RequestsInvStep, PTL DEF RequestsSpec

(* What agent-runtime is asked is of one agent, follows what was observed, *)
(* and tells what was learned before.                                      *)
THEOREM RequestsAreAsMeant == RequestsSpec => []AskedAsMeant
BY RequestsInvInit, RequestsInvStep, RequestsInvGives, PTL DEF RequestsSpec
================================================================================
