----------------------------- MODULE ChatRecorder ------------------------------
(***************************************************************************)
(* What the history of a chat keeps of a turn (chat_recorder.go).          *)
(*                                                                         *)
(* A streamed turn is captured event by event, on its way to the client:   *)
(* by the goroutine of the run and, for the progress of a device, by the   *)
(* goroutine that reads the device's socket.  When the run is over what    *)
(* was captured becomes one record, which is written in five statements    *)
(* or more, outside a transaction: session, question, answer, approvals,   *)
(* token counts.  An error of one of them ends the recording and is logged *)
(* only.  The turns of this model belong to one chat session.              *)
(***************************************************************************)
EXTENDS Naturals, Sequences

CONSTANTS
  Turn,              \* the turns
  TurnRequests(_),   \* what a turn may ask for
  MaxRecordFaults    \* bound of the checked instance

VARIABLES
  turnPc, turnRequest,   \* where a turn is, and what it was asked
  capture,               \* its streamCapture
  told,                  \* the kinds of event its client was sent and that count
  turnFailed,            \* runErr # nil
  entry,                 \* its chatRecordInput
  sessionSeen,           \* the session row as its lookup found it
  written,               \* how far its loop over approvals or usage is
  chatSession, messages, approvals, tokenStats,   \* the tables
  recordFaults           \* what the bound counts

tables   == <<chatSession, messages, approvals, tokenStats>>
turnVars == <<turnPc, turnRequest, capture, told, turnFailed, entry, sessionSeen,
              written, tables, recordFaults>>

Nowhere == [stored |-> FALSE, agent |-> FALSE]

NotAsked ==
  [prompt |-> FALSE, agent |-> FALSE, session |-> FALSE, streamed |-> FALSE,
   metadata |-> [prompt |-> 0, completion |-> 0, total |-> 0, models |-> <<>>]]

NoCapture == [content |-> "", done |-> FALSE, error |-> FALSE, approvals |-> 0,
              research |-> FALSE]

NoEntry == [status |-> "none", content |-> "", approvals |-> 0, research |-> FALSE,
            usage |-> <<>>]

(* Tokens and requests of one model, and what the answer says of them.     *)
Count == [prompt : Nat, completion : Nat, total : Nat, requests : Nat]
Reported == [prompt : Nat, completion : Nat, total : Nat, models : Seq(Count)]

TurnAsked ==
  [prompt : BOOLEAN, agent : BOOLEAN, session : BOOLEAN, streamed : BOOLEAN, metadata : Reported]

AnswerText == {"", "deltas", "answer"}
AnswerStatus == {"none", "success", "failed", "pending_approval"}

StreamCapture ==
  [content : AnswerText, done : BOOLEAN, error : BOOLEAN, approvals : {0, 2}, research : BOOLEAN]
ChatRecordInput ==
  [status : AnswerStatus, content : AnswerText, approvals : {0, 2}, research : BOOLEAN,
   usage : Seq(Count)]

ChatSession == [stored : BOOLEAN, agent : BOOLEAN]
ChatMessage ==
  [turn : Turn, role : {"user", "assistant"}, status : AnswerStatus,
   content : AnswerText \cup {"prompt"}, research : BOOLEAN]
ChatTokenStats == [turn : Turn, usage : Count]

ASSUME ChatAssumption ==
  /\ \A t \in Turn : TurnRequests(t) \subseteq TurnAsked
  /\ MaxRecordFaults \in Nat

EventKinds == {"delta", "reasoning", "interrupted", "evidence", "progress",
               "error", "done", "answer"}

TurnPlaces == {"idle", "run", "ended", "lookup", "session", "question", "answer",
               "approvals", "usage", "over", "lost"}

TurnTypeOK ==
  /\ turnPc \in [Turn -> TurnPlaces]
  /\ turnRequest \in [Turn -> TurnAsked]
  /\ capture \in [Turn -> StreamCapture]
  /\ told \in [Turn -> SUBSET EventKinds]
  /\ turnFailed \in [Turn -> BOOLEAN]
  /\ entry \in [Turn -> ChatRecordInput]
  /\ sessionSeen \in [Turn -> ChatSession]
  /\ written \in [Turn -> Nat]
  /\ chatSession \in ChatSession
  /\ messages \in Seq(ChatMessage)
  /\ approvals \in [Turn -> Nat]
  /\ tokenStats \in Seq(ChatTokenStats)
  /\ recordFaults \in 0 .. MaxRecordFaults

TurnInit ==
  /\ turnPc = [t \in Turn |-> "idle"]
  /\ turnRequest = [t \in Turn |-> NotAsked]
  /\ capture = [t \in Turn |-> NoCapture]
  /\ told = [t \in Turn |-> {}]
  /\ turnFailed = [t \in Turn |-> FALSE]
  /\ entry = [t \in Turn |-> NoEntry]
  /\ sessionSeen = [t \in Turn |-> Nowhere]
  /\ written = [t \in Turn |-> 0]
  /\ chatSession = Nowhere
  /\ messages = <<>>
  /\ approvals = [t \in Turn |-> 0]
  /\ tokenStats = <<>>
  /\ recordFaults = 0

-------------------------------------------------------------------------------
(* The capture of an event.                                                *)

(* Faulty variant: progress without evidence takes back the evidence.      *)
EvidenceOfLast(research, kind) == kind = "evidence"

(* researchSnapshotFromProgress: progress counts when it carries pages.    *)
Evidence(research, kind) == research \/ kind = "evidence"

(* streamCapture.capture: text that is not reasoning is collected, and     *)
(* replaced by the text of done where it has one.                          *)
Captured(c, kind) ==
  CASE kind = "delta"       -> [c EXCEPT !.content = "deltas"]
    [] kind = "interrupted" -> [c EXCEPT !.approvals = 2]
    [] kind \in {"evidence", "progress"} -> [c EXCEPT !.research = Evidence(@, kind)]
    [] kind = "error"       -> [c EXCEPT !.error = TRUE]
    [] kind = "done"        -> [c EXCEPT !.done = TRUE]
    [] kind = "answer"      -> [c EXCEPT !.done = TRUE, !.content = "answer"]
    [] OTHER                -> c

Send(t, kind) == capture' = [capture EXCEPT ![t] = Captured(capture[t], kind)]
Tell(t, kind) == told' = [told EXCEPT ![t] = @ \cup ({kind} \ {"reasoning", "progress"})]

StartTurn(t, request) ==
  /\ turnPc[t] = "idle"
  /\ turnPc' = [turnPc EXCEPT ![t] = "run"]
  /\ turnRequest' = [turnRequest EXCEPT ![t] = request]
  /\ UNCHANGED <<capture, told, turnFailed, entry, sessionSeen, written, tables,
                 recordFaults>>

(* The run forwards an event; error and done are the last of theirs.       *)
RunSends(t, kind) ==
  /\ turnPc[t] = "run" /\ turnRequest[t].streamed
  /\ kind \in EventKinds \ ({"progress", "evidence"} \cup told[t])
  /\ told[t] \cap {"error", "done", "answer"} = {}
  /\ Send(t, kind) /\ Tell(t, kind)
  /\ UNCHANGED <<turnPc, turnRequest, turnFailed, entry, sessionSeen, written, tables,
                 recordFaults>>

(* A device reports progress, which may come after the run has ended, and  *)
(* even after the record was made of the capture: then it does not count.  *)
DeviceReports(t, kind) ==
  /\ turnPc[t] # "idle" /\ turnRequest[t].streamed
  /\ kind \in {"progress", "evidence"}
  /\ Send(t, kind)
  /\ IF turnPc[t] \in {"run", "ended"} THEN Tell(t, kind) ELSE UNCHANGED told
  /\ UNCHANGED <<turnPc, turnRequest, turnFailed, entry, sessionSeen, written, tables,
                 recordFaults>>

EndTurn(t) ==
  /\ turnPc[t] = "run"
  /\ \E fails \in BOOLEAN : turnFailed' = [turnFailed EXCEPT ![t] = fails]
  /\ turnPc' = [turnPc EXCEPT ![t] = "ended"]
  /\ UNCHANGED <<turnRequest, capture, told, entry, sessionSeen, written, tables,
                 recordFaults>>

-------------------------------------------------------------------------------
(* The record.                                                             *)

(* normalizedModelUsage: the counts per model or, where the answer has     *)
(* none, its totals; a missing total is added up, a missing count is one.  *)
NormalizedUsage(metadata) ==
  LET records == IF metadata.models # <<>> THEN metadata.models
                 ELSE IF metadata.total > 0 \/ metadata.prompt > 0 \/ metadata.completion > 0
                      THEN << [prompt |-> metadata.prompt, completion |-> metadata.completion,
                               total |-> metadata.total, requests |-> 1] >>
                      ELSE <<>>
  IN  [i \in DOMAIN records |->
        LET r == records[i]
        IN  [prompt |-> r.prompt, completion |-> r.completion,
             total |-> IF r.total = 0 THEN r.prompt + r.completion ELSE r.total,
             requests |-> IF r.requests = 0 THEN 1 ELSE r.requests]]

(* metadataTotalTokens fills in what the answer's metadata leaves out.     *)
Metadata(m) == [m EXCEPT !.total = IF m.total = 0 THEN m.prompt + m.completion ELSE m.total]

RecordStatus(failed, pendingApprovals) ==
  IF failed THEN "failed" ELSE IF pendingApprovals > 0 THEN "pending_approval" ELSE "success"

(* recordStream: metadata comes with done.                                 *)
StreamEntry(t) ==
  LET c == capture[t]
  IN  [status    |-> RecordStatus(turnFailed[t] \/ c.error, c.approvals),
       content   |-> c.content, approvals |-> c.approvals, research |-> c.research,
       usage     |-> IF c.done THEN NormalizedUsage(Metadata(turnRequest[t].metadata)) ELSE <<>>]

(* recordCompletion: a run that is not streamed has a result or an error.  *)
CompletionEntry(t, n) ==
  [status    |-> RecordStatus(turnFailed[t], n),
   content   |-> IF turnFailed[t] THEN "" ELSE "answer",
   approvals |-> n, research |-> FALSE,
   usage     |-> IF turnFailed[t] THEN <<>>
                                  ELSE NormalizedUsage(Metadata(turnRequest[t].metadata))]

(* Record: without a session there is no history.                          *)
RecordTurn(t) ==
  /\ turnPc[t] = "ended"
  /\ turnPc' = [turnPc EXCEPT ![t] = IF turnRequest[t].session THEN "lookup" ELSE "over"]
  /\ IF turnRequest[t].streamed
     THEN entry' = [entry EXCEPT ![t] = StreamEntry(t)]
     ELSE \E n \in IF turnFailed[t] THEN {0} ELSE {0, 2} :
            entry' = [entry EXCEPT ![t] = CompletionEntry(t, n)]
  /\ UNCHANGED <<turnRequest, capture, told, turnFailed, sessionSeen, written, tables,
                 recordFaults>>

(* A statement of the recording: it takes effect, or its error ends the    *)
(* recording, whose earlier rows stay.                                     *)
Statement(t, next) ==
  /\ turnPc' = [turnPc EXCEPT ![t] = next]
  /\ UNCHANGED recordFaults

StatementFails(t) ==
  /\ recordFaults < MaxRecordFaults
  /\ recordFaults' = recordFaults + 1
  /\ turnPc' = [turnPc EXCEPT ![t] = "lost"]
  /\ UNCHANGED <<tables, sessionSeen, written>>

recorded == <<turnRequest, capture, told, turnFailed, entry>>

LookUpSession(t) ==
  /\ turnPc[t] = "lookup"
  /\ \/ /\ sessionSeen' = [sessionSeen EXCEPT ![t] = chatSession]
        /\ Statement(t, "session")
        /\ UNCHANGED <<tables, written>>
     \/ StatementFails(t)
  /\ UNCHANGED recorded

(* The session is created, which fails when another turn has created it    *)
(* since, or its empty agent is filled in.                                 *)
SaveSession(t) ==
  /\ turnPc[t] = "session"
  /\ \/ /\ ~sessionSeen[t].stored /\ chatSession.stored
        /\ turnPc' = [turnPc EXCEPT ![t] = "lost"]
        /\ UNCHANGED <<chatSession, recordFaults>>
     \/ /\ ~(~sessionSeen[t].stored /\ chatSession.stored)
        /\ chatSession' = [stored |-> TRUE,
                           agent  |-> IF sessionSeen[t].agent THEN chatSession.agent
                                      ELSE chatSession.agent \/ turnRequest[t].agent]
        /\ Statement(t, "question")
     \/ StatementFails(t)
  /\ UNCHANGED <<recorded, sessionSeen, written, messages, approvals, tokenStats>>

SaveQuestion(t) ==
  /\ turnPc[t] = "question"
  /\ \/ /\ messages' = IF turnRequest[t].prompt
                        THEN Append(messages, [turn |-> t, role |-> "user", status |-> "success",
                                               content |-> "prompt", research |-> FALSE])
                        ELSE messages
        /\ Statement(t, "answer")
        /\ UNCHANGED <<chatSession, approvals, tokenStats, sessionSeen, written>>
     \/ turnRequest[t].prompt /\ StatementFails(t)
  /\ UNCHANGED recorded

SaveAnswer(t) ==
  /\ turnPc[t] = "answer"
  /\ \/ /\ messages' = Append(messages, [turn |-> t, role |-> "assistant",
                                          status |-> entry[t].status,
                                          content |-> entry[t].content,
                                          research |-> entry[t].research])
        /\ written' = [written EXCEPT ![t] = 0]
        /\ Statement(t, "approvals")
        /\ UNCHANGED <<chatSession, approvals, tokenStats, sessionSeen>>
     \/ StatementFails(t)
  /\ UNCHANGED recorded

ApprovalsWritten(t) == written[t] >= entry[t].approvals

SaveApproval(t) ==
  /\ turnPc[t] = "approvals"
  /\ \/ /\ ~ApprovalsWritten(t)
        /\ approvals' = [approvals EXCEPT ![t] = @ + 1]
        /\ written' = [written EXCEPT ![t] = @ + 1]
        /\ Statement(t, "approvals")
     \/ /\ ApprovalsWritten(t)
        /\ written' = [written EXCEPT ![t] = 0]
        /\ Statement(t, "usage")
        /\ UNCHANGED approvals
     \/ ~ApprovalsWritten(t) /\ StatementFails(t)
  /\ UNCHANGED <<recorded, chatSession, messages, tokenStats, sessionSeen>>

SaveUsage(t) ==
  /\ turnPc[t] = "usage"
  /\ \/ /\ written[t] < Len(entry[t].usage)
        /\ tokenStats' = Append(tokenStats, [turn |-> t, usage |-> entry[t].usage[written[t] + 1]])
        /\ written' = [written EXCEPT ![t] = @ + 1]
        /\ Statement(t, "usage")
     \/ /\ written[t] = Len(entry[t].usage)
        /\ Statement(t, "over")
        /\ UNCHANGED <<tokenStats, written>>
     \/ written[t] < Len(entry[t].usage) /\ StatementFails(t)
  /\ UNCHANGED <<recorded, chatSession, messages, approvals, sessionSeen>>

TurnNext ==
  \E t \in Turn :
    \/ \E request \in TurnRequests(t) : StartTurn(t, request)
    \/ \E kind \in EventKinds : RunSends(t, kind) \/ DeviceReports(t, kind)
    \/ EndTurn(t) \/ RecordTurn(t)
    \/ LookUpSession(t) \/ SaveSession(t) \/ SaveQuestion(t) \/ SaveAnswer(t)
    \/ SaveApproval(t) \/ SaveUsage(t)

TurnSpec == TurnInit /\ [][TurnNext]_turnVars

-------------------------------------------------------------------------------
(* The history tells of a turn what its client was told: an answer is      *)
(* stored as failed when the run failed or an error was sent, as waiting   *)
(* when approvals were, and it keeps the evidence whichever progress came  *)
(* after it (streamCapture, recordStream).                                 *)
AnswersAsTold(t) ==
  \A i \in DOMAIN messages :
    (messages[i].turn = t /\ messages[i].role = "assistant" /\ turnRequest[t].streamed) =>
      LET m == messages[i]
          bad == turnFailed[t] \/ "error" \in told[t]
      IN  /\ m.status = "failed" <=> bad
          /\ m.status = "pending_approval" <=> (~bad /\ "interrupted" \in told[t])
          /\ m.research <=> "evidence" \in told[t]
          /\ m.content = IF "answer" \in told[t] THEN "answer"
                         ELSE IF "delta" \in told[t] THEN "deltas" ELSE ""

RowsOf(t, role) == {i \in DOMAIN messages : messages[i].turn = t /\ messages[i].role = role}

(* A turn is recorded question first, answer once, then every approval and *)
(* every count.  Only an error of the store leaves it half recorded, and   *)
(* without one it is lost whole, when another turn created the session     *)
(* between its lookup and its insert (chatRecorder.record).                *)
RecordedWhole(t) ==
  LET questions == RowsOf(t, "user")
      answers   == RowsOf(t, "assistant")
      stats     == {i \in DOMAIN tokenStats : tokenStats[i].turn = t}
  IN  /\ questions \cup answers # {} => chatSession.stored
      /\ \A q \in questions, a \in answers : q < a
      /\ \A a, b \in answers : a = b
      /\ answers # {} /\ turnRequest[t].prompt => questions # {}
      /\ approvals[t] > 0 \/ stats # {} => answers # {}
      /\ turnPc[t] = "over" /\ turnRequest[t].session =>
           /\ answers # {}
           /\ approvals[t] = entry[t].approvals
           /\ {tokenStats[i].usage : i \in stats} = {entry[t].usage[k] : k \in DOMAIN entry[t].usage}
      /\ turnPc[t] = "lost" /\ recordFaults = 0 =>
           questions \cup answers = {} /\ chatSession.stored
      /\ \A i \in stats : LET usage == tokenStats[i].usage IN
           /\ usage.requests > 0
           /\ usage.total = 0 => usage.prompt + usage.completion = 0

(* The history of a session is what its clients saw.                       *)
RecordedAsTold == \A t \in Turn : AnswersAsTold(t) /\ RecordedWhole(t)
===============================================================================
