--------------------------- MODULE ControlHubProofs ---------------------------
(***************************************************************************)
(* Theorems about ControlHub, for any number of tasks, actions, calls,     *)
(* readers, restarts and failures of the store.                            *)
(***************************************************************************)
EXTENDS ControlHub, TLAPS

(* What a goroutine has in its locals, by where it is.  The actions use    *)
(* these fields without looking whether they are filled, as the code does  *)
(* with its variables.                                                     *)
Begun     == {"begin", "lookup", "stored", "register", "done"} \cup InFlight
Expiring  == {"expireStore", "expireCache", "expireRecord"}
Setting   == {"set", "find", "install"}
Observing == {"obsStore", "obsPending", "obsKnown", "obsLoad", "obsRecord", "deliver"}
Dispatching == {"lookup", "send", "release"}    \* where a Dispatch goes on after a save
Leaving     == {"idle", "ended", "stopNext"}    \* where the others do

FilledIn(label, f) ==
  /\ label = "idle" => f = NoFrame
  /\ label = "stopNext" => f.then = "idle"
  /\ label \in Begun => f.action \in Actions
  /\ label = "publish" => f.obs # None
  /\ label \in Expiring => f.want \in {"CANCELLED", "EXPIRED"}
  /\ label \in Observing => f.obs # None
  /\ label \in Setting => f.task \in Tasks /\ f.want \in TaskStatuses /\ f.then \in Leaving
  /\ label = "save" => /\ f.task \in Tasks /\ f.copy.status # Absent
                       /\ f.then \in Dispatching \cup Leaving
                       /\ f.then \in Dispatching => f.action \in Actions

LocalsFilled == \A p \in Goroutines : FilledIn(pc[p], frame[p])

HubInv == TypeOK /\ LocalsFilled

-------------------------------------------------------------------------------
(* The helpers that move a goroutine leave the others where they are.      *)
Others(p) == \A q \in Goroutines \ {p} : pc'[q] = pc[q] /\ frame'[q] = frame[q]

(* The frames helpers build are frames.                                    *)
LEMMA NoFrameTyped == NoFrame \in Frame /\ NoSession \in Session
  BY DEF NoFrame, NoSession, Frame, Session, Labels, InFlight

(* An observation's fields have the types Observations gives them.         *)
LEMMA ObservationTyped ==
  ASSUME NEW x \in Observations
  PROVE  x.action \in Actions /\ x.verdict \in ObservationStatuses /\ x.match \in BOOLEAN
  BY DEF Observations

(* A goroutine goes to a label with a new frame: all there is to say about *)
(* pc and frame.                                                           *)
Moved(p, label, f) ==
  /\ pc' \in [Goroutines -> Labels] /\ frame' \in [Goroutines -> Frame]
  /\ Others(p) /\ pc'[p] = label /\ frame'[p] = f

(* The EXCEPT forms of the actions are moves.                              *)
LEMMA Moves ==
  ASSUME TypeOK, NEW p \in Goroutines, NEW label \in Labels, NEW f \in Frame,
         Goto(p, label), frame' = [frame EXCEPT ![p] = f]
  PROVE  Moved(p, label, f)
  BY DEF Moved, Others, Goto, TypeOK

(* The same when only the label changes.                                   *)
LEMMA Goes ==
  ASSUME TypeOK, NEW p \in Goroutines, NEW label \in Labels,
         Goto(p, label), UNCHANGED frame
  PROVE  Moved(p, label, frame[p])
  BY DEF Moved, Others, Goto, TypeOK

(* What is left to show of LocalsFilled after a move of p is about p.      *)
LEMMA FilledAfter ==
  ASSUME LocalsFilled, NEW p \in Goroutines, NEW label, NEW f, Moved(p, label, f), FilledIn(label, f)
  PROVE  LocalsFilled'
  BY DEF LocalsFilled, Moved, Others

(* Leave and Return drop the locals.                                       *)
LEMMA Leaves ==
  ASSUME TypeOK, NEW p \in Goroutines, Leave(p)
  PROVE  Moved(p, "idle", NoFrame) /\ FilledIn("idle", NoFrame)
<1>1. Moved(p, "idle", NoFrame)
  BY NoFrameTyped, Moves DEF Leave, Labels
<1>2. FilledIn("idle", NoFrame)
  BY DEF FilledIn, Begun, InFlight, Expiring, Observing, Setting
<1>. QED
  BY <1>1, <1>2

Returned(p, x) == [NoFrame EXCEPT !.action = frame[p].action, !.obs = x]

(* Return ends the call with its action, an observation or none, and no    *)
(* other local.                                                            *)
LEMMA Returns ==
  ASSUME TypeOK, NEW p \in Goroutines, NEW x \in Observations \cup {None}, Return(p, x)
  PROVE  /\ Moved(p, "done", Returned(p, x))
         /\ Returned(p, x).action = frame[p].action /\ Returned(p, x).obs = x
         /\ ~Returned(p, x).settled
         /\ frame[p].action \in Actions => FilledIn("done", Returned(p, x))
<1>1. frame[p].action \in Actions \cup {None}
  BY DEF TypeOK, Frame
<1>2. Returned(p, x) \in Frame /\ Returned(p, x).action = frame[p].action
      /\ Returned(p, x).obs = x /\ ~Returned(p, x).settled
  BY <1>1, NoFrameTyped DEF Returned, Frame, NoFrame
<1>3. Moved(p, "done", Returned(p, x))
  BY <1>2, Moves DEF Return, Labels, Returned
<1>4. frame[p].action \in Actions => FilledIn("done", Returned(p, x))
  BY <1>2 DEF FilledIn, Begun, InFlight, Expiring, Observing, Setting
<1>. QED
  BY <1>2, <1>3, <1>4

(* SaveLater sets five locals.                                             *)
Saving(p, t, s, label) ==
  [frame[p] EXCEPT !.task = t, !.copy = s, !.then = label, !.user = None, !.at = 0]

(* SaveLater goes to "save" with the clone, and keeps the action, the      *)
(* observation and the history field.                                      *)
LEMMA SavesLater ==
  ASSUME TypeOK, NEW p \in Goroutines, NEW t \in Tasks, NEW s \in Session, NEW label \in Labels,
         SaveLater(p, t, s, label)
  PROVE  /\ sessions' \in [Tasks -> Session]
         /\ Moved(p, "save", Saving(p, t, s, label))
         /\ Saving(p, t, s, label).task = t /\ Saving(p, t, s, label).copy = s
         /\ Saving(p, t, s, label).then = label
         /\ Saving(p, t, s, label).action = frame[p].action
         /\ Saving(p, t, s, label).obs = frame[p].obs
         /\ Saving(p, t, s, label).settled = frame[p].settled
<1>1. frame[p] \in Frame
  BY DEF TypeOK
<1>2. /\ Saving(p, t, s, label) \in Frame
      /\ Saving(p, t, s, label).task = t /\ Saving(p, t, s, label).copy = s
      /\ Saving(p, t, s, label).then = label
      /\ Saving(p, t, s, label).action = frame[p].action
      /\ Saving(p, t, s, label).obs = frame[p].obs
      /\ Saving(p, t, s, label).settled = frame[p].settled
  BY <1>1 DEF Frame, Saving
<1>3. frame' = [frame EXCEPT ![p] = Saving(p, t, s, label)]
  BY DEF SaveLater, TypeOK, Saving
<1>4. Moved(p, "save", Saving(p, t, s, label))
  BY <1>2, <1>3, Moves DEF SaveLater, Labels
<1>5. sessions' \in [Tasks -> Session]
  BY DEF SaveLater, TypeOK
<1>. QED
  BY <1>2, <1>4, <1>5

(* A goroutine that saves a session with a status, and goes on where calls *)
(* or other goroutines do, has its locals filled.                          *)
LEMMA FilledSaving ==
  ASSUME TypeOK, NEW p \in Goroutines, NEW t \in Tasks, NEW s \in Session, s.status # Absent,
         NEW label \in Dispatching \cup Leaving,
         SaveLater(p, t, s, label), label \in Dispatching => frame[p].action \in Actions
  PROVE  sessions' \in [Tasks -> Session] /\ FilledIn("save", Saving(p, t, s, label))
         /\ Moved(p, "save", Saving(p, t, s, label))
<1>1. label \in Labels
  BY DEF Labels, InFlight, Dispatching, Leaving
<1>2. FilledIn("save", Saving(p, t, s, label))
  BY <1>1, SavesLater DEF FilledIn, Begun, InFlight, Expiring, Observing, Setting
<1>. QED
  BY <1>1, <1>2, SavesLater

(* Resume keeps the locals of a call that goes on.                         *)
Resumed(p) ==
  IF frame[p].then \in {"idle", "ended"} THEN NoFrame
  ELSE [frame[p] EXCEPT !.task = None, !.want = None, !.copy = NoSession, !.then = "idle"]

(* Resume goes to the label the locals name, with those locals.            *)
LEMMA Resumes ==
  ASSUME TypeOK, NEW p \in Goroutines, Resume(p)
  PROVE  /\ Moved(p, frame[p].then, Resumed(p))
         /\ frame[p].then \notin {"idle", "ended"} =>
              /\ Resumed(p).action = frame[p].action /\ Resumed(p).obs = frame[p].obs
              /\ Resumed(p).settled = frame[p].settled /\ Resumed(p).then = "idle"
<1>1. frame[p] \in Frame /\ frame[p].then \in Labels
  BY DEF TypeOK, Frame
<1>2. Resumed(p) \in Frame
  <2>1. "idle" \in Labels
    BY DEF Labels
  <2>2. [frame[p] EXCEPT !.task = None, !.want = None, !.copy = NoSession, !.then = "idle"] \in Frame
    BY <1>1, <2>1, NoFrameTyped DEF Frame
  <2>. QED
    BY <2>2, NoFrameTyped DEF Resumed
<1>3. frame' = [frame EXCEPT ![p] = Resumed(p)]
  BY DEF Resume, Resumed, TypeOK
<1>4. Moved(p, frame[p].then, Resumed(p))
  BY <1>1, <1>2, <1>3, Moves DEF Resume
<1>5. frame[p].then \notin {"idle", "ended"} =>
              /\ Resumed(p).action = frame[p].action /\ Resumed(p).obs = frame[p].obs
              /\ Resumed(p).settled = frame[p].settled /\ Resumed(p).then = "idle"
  BY <1>1 DEF Resumed, Frame
<1>. QED
  BY <1>4, <1>5

(* Where a goroutine goes on after a save its locals are filled.           *)
LEMMA FilledResumed ==
  ASSUME TypeOK, NEW p \in Goroutines, Resume(p), frame[p].then \in Dispatching \cup Leaving,
         frame[p].then \in Dispatching => frame[p].action \in Actions
  PROVE  FilledIn(frame[p].then, Resumed(p))
<1>1. CASE frame[p].then \in {"idle", "ended"}
  BY <1>1 DEF Resumed, FilledIn, Begun, InFlight, Expiring, Observing, Setting
<1>2. CASE frame[p].then \in Dispatching \cup {"stopNext"}
  BY <1>2, Resumes DEF FilledIn, Begun, InFlight, Expiring, Observing, Setting, Dispatching
<1>. QED
  BY <1>1, <1>2 DEF Leaving

-------------------------------------------------------------------------------
(* What the handlers compute has the type of what they assign it to, and   *)
(* every session they save has a status.                                   *)
LEMMA StatusRules ==
  ASSUME NEW c \in TaskStatuses \cup {Absent}, NEW v \in ObservationStatuses
  PROVE  /\ Executing(c) \in TaskStatuses
         /\ AfterObservation(c, v) \in TaskStatuses
         /\ c \in Terminal => Executing(c) = c /\ AfterObservation(c, v) = c
         /\ Absent \notin TaskStatuses
  BY DEF Executing, CanTransition, AfterObservation, TaskStatuses, Terminal, Absent, ObservationStatuses

(* recordAction makes a session with a status.                             *)
LEMMA ActionRecordedTyped ==
  ASSUME TypeOK, HubAssumption, NEW s \in Session, NEW a \in Actions
  PROVE  ActionRecorded(s, a) \in Session /\ ActionRecorded(s, a).status # Absent
<1>1. s.status \in TaskStatuses \cup {Absent} /\ clock \in Nat /\ SeqOf[a] \in Nat
  BY DEF TypeOK, HubAssumption, Session
<1>2. Executing(s.status) \in TaskStatuses /\ Absent \notin TaskStatuses
  BY <1>1, StatusRules DEF ObservationStatuses
<1>. QED
  BY <1>1, <1>2 DEF ActionRecorded, Session

(* recordProgress makes a session with a status.                           *)
LEMMA ProgressRecordedTyped ==
  ASSUME TypeOK, NEW s \in Session
  PROVE  ProgressRecorded(s) \in Session /\ ProgressRecorded(s).status # Absent
<1>1. s.status \in TaskStatuses \cup {Absent} /\ clock \in Nat
  BY DEF TypeOK, Session
<1>2. Executing(s.status) \in TaskStatuses /\ Absent \notin TaskStatuses
  BY <1>1, StatusRules DEF ObservationStatuses
<1>. QED
  BY <1>1, <1>2 DEF ProgressRecorded, Session

(* recordObservationLocked makes a session with a status.                  *)
LEMMA ObservationRecordedTyped ==
  ASSUME TypeOK, NEW s \in Session, NEW x \in Observations
  PROVE  ObservationRecorded(s, x) \in Session /\ ObservationRecorded(s, x).status # Absent
<1>1. /\ s.status \in TaskStatuses \cup {Absent} /\ s.obs \subseteq Observations
      /\ clock \in Nat /\ x.verdict \in ObservationStatuses
  BY ObservationTyped DEF TypeOK, Session
<1>2. AfterObservation(s.status, x.verdict) \in TaskStatuses /\ Absent \notin TaskStatuses
  BY <1>1, StatusRules
<1>. QED
  BY <1>1, <1>2 DEF ObservationRecorded, Session

(* FindTask makes a session of a row, with the row's status.               *)
LEMMA TaskFoundTyped ==
  ASSUME TypeOK, NEW t \in Tasks
  PROVE  TaskFound(t) \in Session /\ TaskFound(t).status = rows[t].status
  BY DEF TypeOK, TaskFound, Session, Row

(* SaveTask makes a row.                                                   *)
LEMMA TaskSavedTyped ==
  ASSUME NEW r \in Row, NEW s \in Session
  PROVE  TaskSaved(r, s) \in Row
  BY DEF TaskSaved, Row, Session, UnixSeconds

(* A stored observation stays stored, for the same action, and only its    *)
(* status changes.                                                         *)
LEMMA ObservationSavedTyped ==
  ASSUME TypeOK, NEW x \in Observations
  PROVE  /\ ObservationSaved(x) \in [Actions -> Observations \cup {None}]
         /\ \A a \in Actions \ {x.action} : ObservationSaved(x)[a] = obsRows[a]
         /\ ObservationSaved(x)[x.action] \in Observations
<1>. DEFINE old == obsRows[x.action]
            new == IF old = None THEN x ELSE [old EXCEPT !.verdict = x.verdict]
<1>1. x.action \in Actions /\ x.verdict \in ObservationStatuses /\ old \in Observations \cup {None}
  BY ObservationTyped DEF TypeOK
<1>2. new \in Observations
  BY <1>1 DEF Observations
<1>3. ObservationSaved(x) = [obsRows EXCEPT ![x.action] = new]
  BY DEF ObservationSaved
<1>. QED
  <2>. HIDE DEF new
  <2>. QED
    BY <1>1, <1>2, <1>3 DEF TypeOK

(* FindObservationByIdempotency finds observations.                        *)
LEMMA StoredForTyped ==
  ASSUME TypeOK, NEW k
  PROVE  StoredFor(k) \subseteq Observations
  BY DEF TypeOK, StoredFor

(* What persistTerminalObservation makes up is an observation.             *)
LEMMA VerdictTyped ==
  ASSUME NEW w, frame[w].action \in Actions, frame[w].want \in {"CANCELLED", "EXPIRED"}
  PROVE  Verdict(w) \in Observations
  BY DEF Verdict, Observations, ObservationStatuses

(* A message that is sent, or lost on the way, is a message.               *)
LEMMA TransmitTyped ==
  ASSUME TypeOK, NEW m \in {"ACTION", "CANCEL"} \X Actions, Transmit(m)
  PROVE  wire' \subseteq {"ACTION", "CANCEL"} \X Actions
  BY DEF TypeOK, Transmit

-------------------------------------------------------------------------------
(* HubInv is inductive, action by action.                                  *)
LEMMA HubInvInit == Init => HubInv
<1>1. Init => LocalsFilled
  BY DEF Init, LocalsFilled, FilledIn, Begun, InFlight, Expiring, Observing, Setting
<1>2. NoRow \in Row /\ "idle" \in Labels
  BY DEF NoRow, Row, Labels
<1>3. Init => TypeOK
  <2>. SUFFICES ASSUME Init PROVE TypeOK
    OBVIOUS
  <2>1. sessions \in [Tasks -> Session] /\ rows \in [Tasks -> Row]
    BY <1>2, NoFrameTyped DEF Init
  <2>2. pc \in [Goroutines -> Labels] /\ frame \in [Goroutines -> Frame]
    BY <1>2, NoFrameTyped DEF Init
  <2>3. /\ pending \in [Actions -> Dispatchers \cup {None}]
        /\ completed \in [Keys -> Observations \cup {None}]
        /\ chan \in [Dispatchers -> Observations \cup {None}]
        /\ actionRows \subseteq Actions /\ obsRows \in [Actions -> Observations \cup {None}]
    BY DEF Init
  <2>4. up \in BOOLEAN /\ link \in Nat /\ clock \in Nat /\ restarts \in Nat /\ faults \in Nat
    BY DEF Init
  <2>5. wire \subseteq {"ACTION", "CANCEL"} \X Actions
    BY DEF Init
  <2>. QED
    BY <2>1, <2>2, <2>3, <2>4, <2>5 DEF TypeOK
<1>. QED
  BY <1>1, <1>3 DEF HubInv

(* TypeOK without the labels and frames, which the moves take care of.     *)
OthersTyped ==
  /\ sessions \in [Tasks -> Session]
  /\ pending \in [Actions -> Dispatchers \cup {None}]
  /\ completed \in [Keys -> Observations \cup {None}]
  /\ chan \in [Dispatchers -> Observations \cup {None}]
  /\ rows \in [Tasks -> Row]
  /\ actionRows \subseteq Actions
  /\ obsRows \in [Actions -> Observations \cup {None}]
  /\ up \in BOOLEAN /\ link \in Nat
  /\ wire \subseteq {"ACTION", "CANCEL"} \X Actions
  /\ clock \in Nat /\ restarts \in Nat /\ faults \in Nat

(* A move to filled locals, with every other variable typed, keeps HubInv. *)
LEMMA InvAfter ==
  ASSUME HubInv, NEW p \in Goroutines, NEW label, NEW f,
         Moved(p, label, f), FilledIn(label, f), OthersTyped'
  PROVE  HubInv'
  BY FilledAfter DEF HubInv, TypeOK, OthersTyped, Moved

(* What HubInv says of one goroutine.                                      *)
LEMMA FilledHere ==
  ASSUME HubInv, NEW p \in Goroutines
  PROVE  FilledIn(pc[p], frame[p]) /\ frame[p] \in Frame
  BY DEF HubInv, LocalsFilled, TypeOK

(* A call of BeginTask and Dispatch.                                       *)
LEMMA StartCallStep ==
  ASSUME HubInv, NEW w \in Dispatchers, NEW a \in Actions, NEW u \in Users, StartCall(w, a, u)
  PROVE  HubInv'
<1>. DEFINE f == [NoFrame EXCEPT !.action = a, !.user = u, !.at = clock,
                                 !.settled = StoredFor(KeyOf[a]) # {}]
<1>1. f \in Frame /\ f.action = a
  BY NoFrameTyped DEF Frame, HubInv, TypeOK
<1>2. FilledIn("begin", f)
  BY <1>1 DEF FilledIn, Expiring, Observing, Setting
<1>3. Moved(w, "begin", f)
  BY <1>1, Moves DEF StartCall, HubInv, Labels, Goroutines
<1>4. OthersTyped'
  BY DEF HubInv, TypeOK, OthersTyped, StartCall, hubVars, tableVars, linkVars, boundVars
<1>. HIDE DEF f
<1>. QED
  BY <1>2, <1>3, <1>4, InvAfter DEF Goroutines

(* BeginTask refuses the task of another user, or saves a session.         *)
LEMMA BeginTaskStep ==
  ASSUME HubInv, HubAssumption, NEW w \in Dispatchers, BeginTask(w)
  PROVE  HubInv'
<1>. DEFINE t == TaskOf[frame[w].action]
<1>1. /\ frame[w].action \in Actions /\ t \in Tasks /\ sessions[t] \in Session
      /\ frame[w] \in Frame /\ w \in Goroutines
  BY FilledHere DEF BeginTask, At, FilledIn, Begun, HubAssumption, HubInv, TypeOK, Goroutines
<1>2. OthersTyped' \/ ~(sessions' \in [Tasks -> Session])
  BY DEF HubInv, TypeOK, OthersTyped, BeginTask, tableVars, linkVars, boundVars
<1>3. CASE Return(w, None) /\ UNCHANGED sessions
  BY <1>1, <1>2, <1>3, Returns, InvAfter DEF HubInv, TypeOK
<1>4. ASSUME NEW s \in Session, s.status # Absent, SaveLater(w, t, s, "lookup")
      PROVE  HubInv'
  <2>1. /\ sessions' \in [Tasks -> Session]
        /\ FilledIn("save", Saving(w, t, s, "lookup")) /\ Moved(w, "save", Saving(w, t, s, "lookup"))
    BY <1>1, <1>4, FilledSaving DEF HubInv, Dispatching
  <2>. QED
    BY <1>1, <1>2, <2>1, InvAfter
<1>5. CASE /\ sessions[t].status # Absent
           /\ SaveLater(w, t, [sessions[t] EXCEPT !.user = frame[w].user, !.at = frame[w].at], "lookup")
  <2>. DEFINE s == [sessions[t] EXCEPT !.user = frame[w].user, !.at = frame[w].at]
  <2>1. s \in Session /\ s.status # Absent
    BY <1>1, <1>5 DEF Session, Frame
  <2>. QED
    BY <1>4, <1>5, <2>1
<1>6. CASE SaveLater(w, t, [user |-> frame[w].user, status |-> "WAITING_ACTION",
                            seq |-> 0, at |-> frame[w].at, obs |-> {}], "lookup")
  <2>. DEFINE s == [user |-> frame[w].user, status |-> "WAITING_ACTION",
                    seq |-> 0, at |-> frame[w].at, obs |-> {}]
  <2>1. s \in Session /\ s.status # Absent
    BY <1>1 DEF Session, Frame, TaskStatuses, Absent
  <2>. QED
    BY <1>4, <1>6, <2>1
<1>. QED
  BY <1>3, <1>5, <1>6 DEF BeginTask

(* saveTask writes a row and goes on.                                      *)
LEMMA SaveTaskStep ==
  ASSUME HubInv, NEW p \in Goroutines, SaveTask(p)
  PROVE  HubInv'
<1>1. /\ frame[p].task \in Tasks /\ frame[p].copy \in Session
      /\ frame[p].then \in Dispatching \cup Leaving
      /\ frame[p].then \in Dispatching => frame[p].action \in Actions
  BY FilledHere DEF SaveTask, At, FilledIn, Frame
<1>2. FilledIn(frame[p].then, Resumed(p)) /\ Moved(p, frame[p].then, Resumed(p))
  BY <1>1, FilledResumed, Resumes DEF SaveTask, HubInv
<1>3. rows' \in [Tasks -> Row]
  BY <1>1, TaskSavedTyped DEF SaveTask, HubInv, TypeOK
<1>4. OthersTyped'
  BY <1>3 DEF HubInv, TypeOK, OthersTyped, SaveTask, hubVars, linkVars, boundVars
<1>. QED
  BY <1>2, <1>4, InvAfter

(* The two lookups.                                                        *)
LEMMA DispatchLookupStep ==
  ASSUME HubInv, HubAssumption, NEW w \in Dispatchers, DispatchLookup(w) \/ DispatchStored(w)
  PROVE  HubInv'
<1>1. frame[w].action \in Actions /\ KeyOf[frame[w].action] \in Keys /\ w \in Goroutines
  BY FilledHere DEF DispatchLookup, DispatchStored, At, FilledIn, Begun, HubAssumption, Goroutines
<1>2. OthersTyped'
  BY DEF HubInv, TypeOK, OthersTyped, DispatchLookup, DispatchStored, hubVars, tableVars, linkVars, boundVars
<1>3. ASSUME NEW x \in Observations, Return(w, x)
      PROVE  HubInv'
  BY <1>1, <1>2, <1>3, Returns, InvAfter DEF HubInv
<1>4. ASSUME NEW label \in {"stored", "register"}, Goto(w, label), UNCHANGED frame
      PROVE  HubInv'
  <2>1. Moved(w, label, frame[w])
    BY <1>1, <1>4, Goes DEF HubInv, Labels
  <2>2. FilledIn(label, frame[w])
    BY <1>1, <1>4 DEF FilledIn, Expiring, Observing, Setting
  <2>. QED
    BY <1>1, <1>2, <2>1, <2>2, InvAfter
<1>5. CASE DispatchLookup(w)
  <2>1. completed[KeyOf[frame[w].action]] \in Observations \cup {None}
    BY <1>1 DEF HubInv, TypeOK
  <2>. QED
    BY <1>3, <1>4, <1>5, <2>1 DEF DispatchLookup
<1>6. CASE DispatchStored(w)
  <2>1. StoredFor(KeyOf[frame[w].action]) \subseteq Observations
    BY StoredForTyped DEF HubInv
  <2>. QED
    BY <1>3, <1>4, <1>6, <2>1 DEF DispatchStored
<1>. QED
  BY <1>5, <1>6

(* The call registers its channel, saves the action and records it.        *)
LEMMA DispatchRegisterStep ==
  ASSUME HubInv, NEW w \in Dispatchers, DispatchRegister(w)
  PROVE  HubInv'
<1>. DEFINE f == [frame[w] EXCEPT !.link = link]
<1>1. frame[w].action \in Actions /\ frame[w] \in Frame /\ w \in Goroutines
  BY FilledHere DEF DispatchRegister, At, FilledIn, Begun, Goroutines
<1>2. OthersTyped'
  BY <1>1 DEF HubInv, TypeOK, OthersTyped, DispatchRegister, tableVars, linkVars, boundVars
<1>3. CASE Goto(w, "saveAction") /\ frame' = [frame EXCEPT ![w].link = link]
  <2>1. f \in Frame /\ f.action = frame[w].action
    BY <1>1 DEF Frame, HubInv, TypeOK
  <2>2. frame' = [frame EXCEPT ![w] = f]
    BY <1>3
  <2>3. FilledIn("saveAction", f)
    BY <1>1, <2>1 DEF FilledIn, Expiring, Observing, Setting
  <2>. HIDE DEF f
  <2>4. Moved(w, "saveAction", f)
    BY <1>1, <1>3, <2>1, <2>2, Moves DEF HubInv, Labels, InFlight
  <2>. QED
    BY <1>1, <1>2, <2>3, <2>4, InvAfter
<1>4. CASE Return(w, None)
  BY <1>1, <1>2, <1>4, Returns, InvAfter DEF HubInv
<1>. QED
  BY <1>3, <1>4 DEF DispatchRegister

(* A step of a Dispatch in flight that changes no local.                   *)
LEMMA FlightGoes ==
  ASSUME HubInv, NEW w \in Dispatchers, pc[w] \in InFlight, NEW label \in InFlight \ {"publish"},
         Goto(w, label), UNCHANGED frame, OthersTyped',
         label \in Expiring => pc[w] \in Expiring
  PROVE  HubInv'
<1>1. w \in Goroutines /\ label \in Labels
  BY DEF Goroutines, Labels
<1>2. FilledIn(label, frame[w])
  BY <1>1, FilledHere DEF FilledIn, Begun, InFlight, Expiring, Observing, Setting
<1>. QED
  BY <1>1, <1>2, Goes, InvAfter DEF HubInv

(* The action is saved, or the call ends; it is sent, or the call ends.    *)
LEMMA DispatchGoesStep ==
  ASSUME HubInv, NEW w \in Dispatchers, DispatchSaveAction(w) \/ DispatchSend(w)
  PROVE  HubInv'
<1>1. frame[w].action \in Actions /\ pc[w] \in InFlight
  BY FilledHere DEF DispatchSaveAction, DispatchSend, At, FilledIn, Begun, InFlight, Goroutines
<1>2. OthersTyped'
  <2>1. CASE DispatchSaveAction(w)
    BY <1>1, <2>1 DEF HubInv, TypeOK, OthersTyped, DispatchSaveAction, hubVars, linkVars, boundVars
  <2>2. CASE DispatchSend(w)
    <3>1. wire' \subseteq {"ACTION", "CANCEL"} \X Actions
      BY <1>1, <2>2, TransmitTyped DEF DispatchSend, HubInv, TypeOK
    <3>. QED
      BY <2>2, <3>1 DEF HubInv, TypeOK, OthersTyped, DispatchSend, hubVars, tableVars, boundVars
  <2>. QED
    BY <2>1, <2>2
<1>3. \E label \in {"release", "record", "wait"} : Goto(w, label) /\ UNCHANGED frame
  BY DEF DispatchSaveAction, DispatchSend
<1>. QED
  BY <1>1, <1>2, <1>3, FlightGoes DEF InFlight, Expiring

(* recordAction, and on to the save of the task.                           *)
LEMMA DispatchRecordStep ==
  ASSUME HubInv, HubAssumption, NEW w \in Dispatchers, DispatchRecord(w)
  PROVE  HubInv'
<1>. DEFINE a == frame[w].action
            t == TaskOf[a]
            s == ActionRecorded(sessions[t], a)
<1>1. a \in Actions /\ t \in Tasks /\ sessions[t] \in Session /\ w \in Goroutines
  BY FilledHere DEF DispatchRecord, At, FilledIn, Begun, InFlight, HubAssumption, HubInv, TypeOK, Goroutines
<1>2. s \in Session /\ s.status # Absent
  BY <1>1, ActionRecordedTyped DEF HubInv
<1>3. SaveLater(w, t, s, "send")
  BY DEF DispatchRecord
<1>. HIDE DEF a, t, s
<1>4. /\ sessions' \in [Tasks -> Session]
      /\ FilledIn("save", Saving(w, t, s, "send")) /\ Moved(w, "save", Saving(w, t, s, "send"))
  BY <1>1, <1>2, <1>3, FilledSaving DEF HubInv, Dispatching, a
<1>5. OthersTyped'
  BY <1>4 DEF HubInv, TypeOK, OthersTyped, DispatchRecord, tableVars, linkVars, boundVars
<1>. QED
  BY <1>1, <1>4, <1>5, InvAfter

(* The select, and what follows it: an observation is received, or the     *)
(* call gives up.                                                          *)
LEMMA DispatchReceiveStep ==
  ASSUME HubInv, NEW w \in Dispatchers, DispatchReceive(w)
  PROVE  HubInv'
<1>. DEFINE x == chan[w]
            f == [frame[w] EXCEPT !.obs = x]
<1>1. /\ frame[w].action \in Actions /\ frame[w] \in Frame /\ w \in Goroutines
      /\ x \in Observations /\ x # None /\ pc[w] = "wait"
  BY FilledHere DEF DispatchReceive, At, FilledIn, Begun, InFlight, HubInv, TypeOK, Goroutines
<1>2. OthersTyped'
  BY DEF HubInv, TypeOK, OthersTyped, DispatchReceive, tableVars, linkVars, boundVars
<1>3. CASE Goto(w, "publish") /\ frame' = [frame EXCEPT ![w].obs = x]
  <2>1. f \in Frame /\ f.action = frame[w].action /\ f.obs = x
    BY <1>1 DEF Frame
  <2>2. frame' = [frame EXCEPT ![w] = f]
    BY <1>3
  <2>3. FilledIn("publish", f)
    BY <1>1, <2>1 DEF FilledIn, Expiring, Observing, Setting
  <2>. HIDE DEF f
  <2>4. Moved(w, "publish", f)
    BY <1>1, <1>3, <2>1, <2>2, Moves DEF HubInv, Labels, InFlight
  <2>. QED
    BY <1>1, <1>2, <2>3, <2>4, InvAfter
<1>4. CASE Goto(w, "release") /\ UNCHANGED frame
  BY <1>1, <1>2, <1>4, FlightGoes DEF InFlight, Expiring
<1>. QED
  BY <1>3, <1>4 DEF DispatchReceive

(* Observations are recorded in the call's session and saved on the way    *)
(* out, whether received or made up.                                       *)
LEMMA CallRecords ==
  ASSUME HubInv, HubAssumption, NEW w \in Dispatchers, pc[w] \in InFlight,
         NEW x \in Observations,
         SaveLater(w, TaskOf[frame[w].action],
                   ObservationRecorded(sessions[TaskOf[frame[w].action]], x), "release"),
         sessions' \in [Tasks -> Session] => OthersTyped'
  PROVE  HubInv'
<1>. DEFINE a == frame[w].action
            t == TaskOf[a]
            s == ObservationRecorded(sessions[t], x)
<1>1. a \in Actions /\ t \in Tasks /\ sessions[t] \in Session /\ w \in Goroutines
  BY FilledHere DEF FilledIn, Begun, InFlight, HubAssumption, HubInv, TypeOK, Goroutines
<1>2. s \in Session /\ s.status # Absent
  BY <1>1, ObservationRecordedTyped DEF HubInv
<1>. HIDE DEF s
<1>4. /\ sessions' \in [Tasks -> Session]
      /\ FilledIn("save", Saving(w, t, s, "release")) /\ Moved(w, "save", Saving(w, t, s, "release"))
  BY <1>1, <1>2, FilledSaving DEF HubInv, Dispatching, s
<1>. QED
  BY <1>1, <1>4, InvAfter

(* The cache and the session take the observation received.                *)
LEMMA DispatchPublishStep ==
  ASSUME HubInv, HubAssumption, NEW w \in Dispatchers, DispatchPublish(w)
  PROVE  HubInv'
<1>1. /\ frame[w].obs \in Observations /\ pc[w] \in InFlight
      /\ SaveLater(w, TaskOf[frame[w].action],
                   ObservationRecorded(sessions[TaskOf[frame[w].action]], frame[w].obs), "release")
  BY FilledHere DEF DispatchPublish, At, FilledIn, InFlight, Frame, Goroutines
<1>2. completed' \in [Keys -> Observations \cup {None}]
  BY <1>1 DEF DispatchPublish, HubInv, TypeOK
<1>3. sessions' \in [Tasks -> Session] => OthersTyped'
  BY <1>2 DEF HubInv, TypeOK, OthersTyped, DispatchPublish, tableVars, linkVars, boundVars
<1>. QED
  BY <1>1, <1>3, CallRecords

(* The call gives up, as cancelled or expired.                             *)
LEMMA DispatchGiveUpStep ==
  ASSUME HubInv, NEW w \in Dispatchers, NEW verdict \in {"CANCELLED", "EXPIRED"},
         DispatchGiveUp(w, verdict)
  PROVE  HubInv'
<1>. DEFINE f == [frame[w] EXCEPT !.want = verdict]
<1>1. frame[w].action \in Actions /\ frame[w] \in Frame /\ w \in Goroutines
  BY FilledHere DEF DispatchGiveUp, At, FilledIn, Begun, InFlight, Goroutines
<1>2. wire' \subseteq {"ACTION", "CANCEL"} \X Actions
  BY <1>1, TransmitTyped DEF DispatchGiveUp, HubInv, TypeOK
<1>3. OthersTyped'
  BY <1>2 DEF HubInv, TypeOK, OthersTyped, DispatchGiveUp, hubVars, tableVars, boundVars
<1>4. f \in Frame /\ f.action = frame[w].action /\ f.want = verdict
  BY <1>1 DEF Frame, ObservationStatuses
<1>5. frame' = [frame EXCEPT ![w] = f] /\ Goto(w, "expireStore")
  BY DEF DispatchGiveUp
<1>6. FilledIn("expireStore", f)
  BY <1>1, <1>4 DEF FilledIn, Begun, InFlight, Observing, Setting
<1>. HIDE DEF f
<1>7. Moved(w, "expireStore", f)
  BY <1>1, <1>4, <1>5, Moves DEF HubInv, Labels, InFlight
<1>. QED
  BY <1>1, <1>3, <1>6, <1>7, InvAfter

(* persistTerminalObservation, in its three steps.                         *)
LEMMA ExpireStep ==
  ASSUME HubInv, HubAssumption, NEW w \in Dispatchers,
         ExpireStore(w) \/ ExpireCache(w) \/ ExpireRecord(w)
  PROVE  HubInv'
<1>1. pc[w] \in Expiring
  BY DEF ExpireStore, ExpireCache, ExpireRecord, At, Expiring
<1>2. frame[w].action \in Actions /\ Verdict(w) \in Observations /\ pc[w] \in InFlight
  BY <1>1, FilledHere, VerdictTyped DEF FilledIn, Begun, InFlight, Expiring, Goroutines
<1>3. CASE ExpireStore(w)
  <2>1. obsRows' \in [Actions -> Observations \cup {None}]
    BY <1>2, <1>3, ObservationSavedTyped DEF ExpireStore, HubInv, TypeOK
  <2>2. OthersTyped'
    BY <1>3, <2>1 DEF HubInv, TypeOK, OthersTyped, ExpireStore, hubVars, linkVars, boundVars
  <2>. QED
    BY <1>1, <1>2, <1>3, <2>2, FlightGoes DEF ExpireStore, InFlight, Expiring
<1>4. CASE ExpireCache(w)
  <2>1. completed' \in [Keys -> Observations \cup {None}]
    BY <1>2, <1>4 DEF ExpireCache, HubInv, TypeOK
  <2>2. OthersTyped'
    BY <1>4, <2>1 DEF HubInv, TypeOK, OthersTyped, ExpireCache, tableVars, linkVars, boundVars
  <2>. QED
    BY <1>1, <1>2, <1>4, <2>2, FlightGoes DEF ExpireCache, InFlight, Expiring
<1>5. CASE ExpireRecord(w)
  <2>1. sessions' \in [Tasks -> Session] => OthersTyped'
    BY <1>5 DEF HubInv, TypeOK, OthersTyped, ExpireRecord, tableVars, linkVars, boundVars
  <2>. QED
    BY <1>2, <1>5, <2>1, CallRecords DEF ExpireRecord
<1>. QED
  BY <1>3, <1>4, <1>5

(* The deferred delete, and the return.                                    *)
LEMMA DispatchReturnStep ==
  ASSUME HubInv, NEW w \in Dispatchers, DispatchReturn(w)
  PROVE  HubInv'
<1>1. /\ frame[w].action \in Actions /\ frame[w].obs \in Observations \cup {None}
      /\ w \in Goroutines
  BY FilledHere DEF DispatchReturn, At, FilledIn, Begun, InFlight, Frame, Goroutines
<1>2. OthersTyped'
  BY DEF HubInv, TypeOK, OthersTyped, DispatchReturn, tableVars, linkVars, boundVars
<1>3. Return(w, frame[w].obs)
  BY DEF DispatchReturn
<1>. QED
  BY <1>1, <1>2, <1>3, Returns, InvAfter DEF HubInv

(* SetTaskStatus.  A control loop that is done with a task sets its        *)
(* outcome; so does Stop, for every task it cancels.                       *)
LEMMA EndAfterDispatchStep ==
  ASSUME HubInv, HubAssumption, NEW w \in Dispatchers, NEW status \in Ends,
         EndAfterDispatch(w, status)
  PROVE  HubInv'
<1>. DEFINE f == [NoFrame EXCEPT !.task = TaskOf[frame[w].action], !.want = status, !.then = "ended"]
<1>1. /\ frame[w].action \in Actions /\ TaskOf[frame[w].action] \in Tasks /\ w \in Goroutines
      /\ status \in TaskStatuses
  BY FilledHere DEF EndAfterDispatch, At, FilledIn, Begun, HubAssumption, Goroutines, TaskStatuses
<1>2. OthersTyped'
  BY DEF HubInv, TypeOK, OthersTyped, EndAfterDispatch, hubVars, tableVars, linkVars, boundVars
<1>3. /\ f \in Frame /\ f.task = TaskOf[frame[w].action] /\ f.want = status /\ f.then = "ended"
  BY <1>1, NoFrameTyped DEF Frame, Labels
<1>4. FilledIn("set", f)
  BY <1>1, <1>3 DEF FilledIn, Begun, InFlight, Expiring, Observing, Leaving
<1>5. frame' = [frame EXCEPT ![w] = f] /\ Goto(w, "set")
  BY DEF EndAfterDispatch
<1>. HIDE DEF f
<1>6. Moved(w, "set", f)
  BY <1>1, <1>3, <1>5, Moves DEF HubInv, Labels
<1>. QED
  BY <1>1, <1>2, <1>4, <1>6, InvAfter

(* A control loop that ends before it dispatches.                          *)
LEMMA EndWithoutDispatchStep ==
  ASSUME HubInv, HubAssumption, NEW p \in Runs, NEW t \in Tasks, NEW status \in Ends,
         EndWithoutDispatch(p, t, status)
  PROVE  HubInv'
<1>. DEFINE f == [frame[p] EXCEPT !.task = t, !.want = status]
<1>1. /\ frame[p] = NoFrame /\ frame[p] \in Frame /\ p \in Goroutines /\ status \in TaskStatuses
  BY FilledHere DEF EndWithoutDispatch, At, FilledIn, HubAssumption, Goroutines, TaskStatuses
<1>2. OthersTyped'
  BY DEF HubInv, TypeOK, OthersTyped, EndWithoutDispatch, hubVars, tableVars, linkVars, boundVars
<1>3. f \in Frame /\ f.task = t /\ f.want = status /\ f.then = "idle"
  <2>1. frame[p].then = "idle"
    BY <1>1 DEF NoFrame
  <2>. QED
    BY <1>1, <2>1 DEF Frame
<1>4. FilledIn("set", f)
  BY <1>1, <1>3 DEF FilledIn, Begun, InFlight, Expiring, Observing, Leaving
<1>5. frame' = [frame EXCEPT ![p] = f] /\ Goto(p, "set")
  BY DEF EndWithoutDispatch
<1>. HIDE DEF f
<1>6. Moved(p, "set", f)
  BY <1>1, <1>3, <1>5, Moves DEF HubInv, Labels
<1>. QED
  BY <1>1, <1>2, <1>4, <1>6, InvAfter

(* The section that ends SetTaskStatus, on any session with a status to    *)
(* set.                                                                    *)
LEMMA ApplyStatusStep ==
  ASSUME HubInv, NEW p \in Goroutines, pc[p] \in Setting, NEW s \in Session, ApplyStatus(p, s),
         sessions' \in [Tasks -> Session] => OthersTyped'
  PROVE  HubInv'
<1>. DEFINE t == frame[p].task
            z == [s EXCEPT !.status = frame[p].want, !.at = clock]
<1>1. /\ t \in Tasks /\ frame[p].want \in TaskStatuses
      /\ frame[p].then \in Leaving /\ frame[p] \in Frame
  BY FilledHere DEF FilledIn
<1>2. CASE SaveLater(p, t, z, frame[p].then)
  <2>1. z \in Session /\ z.status # Absent
    BY <1>1 DEF Session, HubInv, TypeOK, TaskStatuses, Terminal, Absent
  <2>. HIDE DEF z
  <2>2. /\ sessions' \in [Tasks -> Session]
        /\ FilledIn("save", Saving(p, t, z, frame[p].then))
        /\ Moved(p, "save", Saving(p, t, z, frame[p].then))
    BY <1>1, <1>2, <2>1, FilledSaving DEF HubInv, Dispatching, Leaving
  <2>. QED
    BY <2>2, InvAfter
<1>3. CASE sessions' = [sessions EXCEPT ![t] = s] /\ Resume(p)
  <2>1. sessions' \in [Tasks -> Session]
    BY <1>1, <1>3 DEF HubInv, TypeOK
  <2>2. FilledIn(frame[p].then, Resumed(p)) /\ Moved(p, frame[p].then, Resumed(p))
    BY <1>1, <1>3, FilledResumed, Resumes DEF HubInv, Dispatching, Leaving
  <2>. QED
    BY <2>1, <2>2, InvAfter
<1>. QED
  BY <1>2, <1>3 DEF ApplyStatus

(* SetTaskStatus, from the lock to the last section.                       *)
LEMMA SetStatusStep ==
  ASSUME HubInv, NEW p \in Goroutines, SetStatus(p)
  PROVE  HubInv'
<1>1. pc[p] \in Setting
  BY DEF SetStatus, StatusLock, StatusFind, StatusInstall, At, Setting
<1>2. /\ frame[p].task \in Tasks /\ frame[p].want \in TaskStatuses
      /\ frame[p].then \in Leaving /\ frame[p] \in Frame
  BY <1>1, FilledHere DEF FilledIn
<1>3. sessions[frame[p].task] \in Session /\ frame[p].copy \in Session
  BY <1>2 DEF HubInv, TypeOK, Frame
<1>4. CASE StatusLock(p)
  <2>1. sessions' \in [Tasks -> Session] => OthersTyped'
    BY <1>4 DEF HubInv, TypeOK, OthersTyped, StatusLock, tableVars, linkVars, boundVars
  <2>2. CASE ApplyStatus(p, sessions[frame[p].task])
    BY <1>1, <1>3, <2>1, <2>2, ApplyStatusStep
  <2>3. CASE Goto(p, "find") /\ UNCHANGED <<sessions, frame>>
    <3>1. FilledIn("find", frame[p])
      BY <1>2 DEF FilledIn, Begun, InFlight, Expiring, Observing, Setting
    <3>2. Moved(p, "find", frame[p])
      BY <2>3, Goes DEF HubInv, Labels
    <3>3. sessions' \in [Tasks -> Session]
      BY <2>3 DEF HubInv, TypeOK
    <3>. QED
      BY <2>1, <3>1, <3>2, <3>3, InvAfter
  <2>. QED
    BY <1>4, <2>2, <2>3 DEF StatusLock
<1>5. CASE StatusFind(p)
  <2>. DEFINE f == [frame[p] EXCEPT !.copy = TaskFound(frame[p].task)]
  <2>1. OthersTyped'
    BY <1>5 DEF HubInv, TypeOK, OthersTyped, StatusFind, hubVars, tableVars, linkVars, boundVars
  <2>2. CASE frame' = [frame EXCEPT ![p].copy = TaskFound(frame[p].task)] /\ Goto(p, "install")
    <3>1. TaskFound(frame[p].task) \in Session
      BY <1>2, TaskFoundTyped DEF HubInv
    <3>2. f \in Frame /\ f.task = frame[p].task /\ f.want = frame[p].want /\ f.then = frame[p].then
      BY <1>2, <3>1 DEF Frame
    <3>3. FilledIn("install", f)
      BY <1>2, <3>2 DEF FilledIn, Begun, InFlight, Expiring, Observing, Setting
    <3>4. frame' = [frame EXCEPT ![p] = f]
      BY <2>2
    <3>. HIDE DEF f
    <3>5. Moved(p, "install", f)
      BY <2>2, <3>2, <3>4, Moves DEF HubInv, Labels
    <3>. QED
      BY <2>1, <3>3, <3>5, InvAfter
  <2>3. CASE Resume(p)
    <3>1. FilledIn(frame[p].then, Resumed(p)) /\ Moved(p, frame[p].then, Resumed(p))
      BY <1>2, <2>3, FilledResumed, Resumes DEF HubInv, Dispatching, Leaving
    <3>. QED
      BY <2>1, <3>1, InvAfter
  <2>. QED
    BY <1>5, <2>2, <2>3 DEF StatusFind
<1>6. CASE StatusInstall(p)
  <2>1. sessions' \in [Tasks -> Session] => OthersTyped'
    BY <1>6 DEF HubInv, TypeOK, OthersTyped, StatusInstall, tableVars, linkVars, boundVars
  <2>. QED
    BY <1>1, <1>3, <1>6, <2>1, ApplyStatusStep DEF StatusInstall
<1>. QED
  BY <1>4, <1>5, <1>6 DEF SetStatus

(* Stop: no step of it but the CANCELs it sends leaves the frame.          *)
LEMMA StopStepInv ==
  ASSUME HubInv, NEW p \in Stops, Stop(p)
  PROVE  HubInv'
<1>1. frame[p] \in Frame /\ p \in Goroutines
  BY FilledHere DEF Goroutines
<1>2. ASSUME Leave(p), OthersTyped'
      PROVE  HubInv'
  BY <1>1, <1>2, Leaves, InvAfter DEF HubInv
<1>3. ASSUME NEW u \in Users, StopBegin(p, u)
      PROVE  HubInv'
  <2>. DEFINE open == {t \in Tasks : rows[t].user = u /\ rows[t].status \notin Terminal \cup {Absent}}
              f == [frame[p] EXCEPT !.ids = open, !.todo = open]
  <2>1. frame[p].then = "idle"
    BY <1>1, <1>3, FilledHere DEF StopBegin, At, FilledIn, NoFrame
  <2>. HIDE DEF open
  <2>2. open \subseteq Tasks
    BY DEF open
  <2>3. f \in Frame /\ f.then = "idle"
    BY <1>1, <2>1, <2>2 DEF Frame
  <2>4. FilledIn("stopNext", f)
    BY <2>3 DEF FilledIn, Begun, InFlight, Expiring, Observing, Setting
  <2>5. frame' = [frame EXCEPT ![p] = f] /\ Goto(p, "stopNext")
    BY <1>3 DEF StopBegin, open
  <2>. HIDE DEF f
  <2>6. Moved(p, "stopNext", f)
    BY <1>1, <2>3, <2>5, Moves DEF HubInv, Labels
  <2>7. OthersTyped'
    BY <1>3 DEF HubInv, TypeOK, OthersTyped, StopBegin, hubVars, tableVars, linkVars, boundVars
  <2>. QED
    BY <1>1, <2>4, <2>6, <2>7, InvAfter
<1>4. ASSUME NEW t \in Tasks, StopCancelTask(p, t)
      PROVE  HubInv'
  <2>. DEFINE f == [frame[p] EXCEPT !.todo = @ \ {t}, !.task = t,
                                    !.want = "CANCELLED", !.then = "stopNext"]
  <2>1. f \in Frame /\ f.task = t /\ f.want = "CANCELLED" /\ f.then = "stopNext"
    BY <1>1 DEF Frame, TaskStatuses, Terminal, Labels
  <2>2. FilledIn("set", f)
    BY <2>1 DEF FilledIn, Begun, InFlight, Expiring, Observing, Leaving, TaskStatuses, Terminal
  <2>3. frame' = [frame EXCEPT ![p] = f] /\ Goto(p, "set")
    BY <1>4 DEF StopCancelTask
  <2>. HIDE DEF f
  <2>4. Moved(p, "set", f)
    BY <1>1, <2>1, <2>3, Moves DEF HubInv, Labels
  <2>5. OthersTyped'
    BY <1>4 DEF HubInv, TypeOK, OthersTyped, StopCancelTask, hubVars, tableVars, linkVars, boundVars
  <2>. QED
    BY <1>1, <2>2, <2>4, <2>5, InvAfter
<1>5. CASE StopSnapshot(p)
  <2>. DEFINE waiting == {a \in Actions : pending[a] # None /\ TaskOf[a] \in frame[p].ids}
              f == [frame[p] EXCEPT !.targets = waiting]
  <2>1. OthersTyped'
    BY <1>5 DEF HubInv, TypeOK, OthersTyped, StopSnapshot, hubVars, tableVars, linkVars, boundVars
  <2>. HIDE DEF waiting
  <2>2. waiting \subseteq Actions
    BY DEF waiting
  <2>3. f \in Frame
    BY <1>1, <2>2 DEF Frame
  <2>4. FilledIn("stopSend", f)
    BY DEF FilledIn, Begun, InFlight, Expiring, Observing, Setting
  <2>5. Leave(p) \/ (frame' = [frame EXCEPT ![p] = f] /\ Goto(p, "stopSend"))
    BY <1>5 DEF StopSnapshot, waiting
  <2>. HIDE DEF f
  <2>6. CASE frame' = [frame EXCEPT ![p] = f] /\ Goto(p, "stopSend")
    <3>1. Moved(p, "stopSend", f)
      BY <1>1, <2>3, <2>6, Moves DEF HubInv, Labels
    <3>. QED
      BY <1>1, <2>1, <2>4, <3>1, InvAfter
  <2>. QED
    BY <1>2, <2>1, <2>5, <2>6
<1>6. ASSUME NEW a \in Actions, StopSend(p, a)
      PROVE  HubInv'
  <2>. DEFINE f == [frame[p] EXCEPT !.targets = @ \ {a}]
  <2>1. wire' \subseteq {"ACTION", "CANCEL"} \X Actions
    BY <1>6, TransmitTyped DEF StopSend, HubInv, TypeOK
  <2>2. OthersTyped'
    BY <1>6, <2>1 DEF HubInv, TypeOK, OthersTyped, StopSend, hubVars, tableVars, boundVars
  <2>3. f \in Frame
    BY <1>1 DEF Frame
  <2>4. FilledIn("stopSend", f)
    BY DEF FilledIn, Begun, InFlight, Expiring, Observing, Setting
  <2>5. Leave(p) \/ (frame' = [frame EXCEPT ![p] = f] /\ UNCHANGED pc)
    BY <1>6 DEF StopSend
  <2>. HIDE DEF f
  <2>6. CASE frame' = [frame EXCEPT ![p] = f] /\ UNCHANGED pc
    <3>1. Goto(p, "stopSend")
      BY <1>1, <1>6, <2>6 DEF StopSend, At, Goto, HubInv, TypeOK
    <3>2. Moved(p, "stopSend", f)
      BY <1>1, <2>3, <2>6, <3>1, Moves DEF HubInv, Labels
    <3>. QED
      BY <1>1, <2>2, <2>4, <3>2, InvAfter
  <2>. QED
    BY <1>2, <2>2, <2>5, <2>6
<1>. QED
  BY <1>3, <1>4, <1>5, <1>6 DEF Stop

(* Observe and Progress.                                                   *)
LEMMA ObserveStepInv ==
  ASSUME HubInv, HubAssumption, NEW r \in Readers, Read(r)
  PROVE  HubInv'
<1>1. frame[r] \in Frame /\ r \in Goroutines
  BY FilledHere DEF Goroutines
<1>2. ASSUME Leave(r), OthersTyped'
      PROVE  HubInv'
  BY <1>1, <1>2, Leaves, InvAfter DEF HubInv
<1>3. ASSUME NEW label \in Observing, frame[r].obs # None, Goto(r, label), UNCHANGED frame, OthersTyped'
      PROVE  HubInv'
  <2>1. Moved(r, label, frame[r])
    BY <1>1, <1>3, Goes DEF HubInv, Labels, Observing
  <2>2. FilledIn(label, frame[r])
    BY <1>3 DEF FilledIn, Begun, InFlight, Expiring, Observing, Setting
  <2>. QED
    BY <1>1, <1>3, <2>1, <2>2, InvAfter
<1>4. ASSUME NEW x \in Reports, ReadObservation(r, x)
      PROVE  HubInv'
  <2>. DEFINE f == [frame[r] EXCEPT !.obs = x]
  <2>1. x \in Observations /\ x # None
    BY DEF HubAssumption
  <2>2. f \in Frame /\ f.obs = x
    BY <1>1, <2>1 DEF Frame
  <2>3. FilledIn("obsStore", f)
    BY <2>1, <2>2 DEF FilledIn, Begun, InFlight, Expiring, Setting
  <2>4. frame' = [frame EXCEPT ![r] = f] /\ Goto(r, "obsStore")
    BY <1>4 DEF ReadObservation
  <2>. HIDE DEF f
  <2>5. Moved(r, "obsStore", f)
    BY <1>1, <2>2, <2>4, Moves DEF HubInv, Labels
  <2>6. OthersTyped'
    BY <1>4 DEF HubInv, TypeOK, OthersTyped, ReadObservation, hubVars, tableVars, linkVars, boundVars
  <2>. QED
    BY <1>1, <2>3, <2>5, <2>6, InvAfter
<1>5. ASSUME pc[r] \in Observing
      PROVE  /\ frame[r].obs \in Observations /\ frame[r].obs # None
             /\ frame[r].obs.action \in Actions /\ TaskOf[frame[r].obs.action] \in Tasks
  <2>1. frame[r].obs \in Observations /\ frame[r].obs # None
    BY <1>1, <1>5, FilledHere DEF FilledIn, Frame
  <2>. QED
    BY <2>1, ObservationTyped DEF HubAssumption
<1>6. CASE ObserveStore(r)
  <2>1. frame[r].obs \in Observations /\ frame[r].obs # None
    BY <1>5, <1>6 DEF ObserveStore, At, Observing
  <2>2. obsRows' \in [Actions -> Observations \cup {None}]
    BY <1>6, <2>1, ObservationSavedTyped DEF ObserveStore, HubInv, TypeOK
  <2>3. OthersTyped'
    BY <1>6, <2>2 DEF HubInv, TypeOK, OthersTyped, ObserveStore, hubVars, linkVars, boundVars
  <2>4. Leave(r) \/ (Goto(r, "obsPending") /\ UNCHANGED frame)
    BY <1>6 DEF ObserveStore
  <2>. QED
    BY <1>2, <1>3, <2>1, <2>3, <2>4 DEF Observing
<1>7. CASE ObservePending(r)
  <2>. DEFINE w == pending[frame[r].obs.action]
              f == [frame[r] EXCEPT !.call = w]
  <2>1. /\ frame[r].obs \in Observations /\ frame[r].obs # None
        /\ w \in Dispatchers \cup {None}
    BY <1>5, <1>7 DEF ObservePending, At, Observing, HubInv, TypeOK
  <2>2. OthersTyped'
    BY <1>7 DEF HubInv, TypeOK, OthersTyped, ObservePending, hubVars, tableVars, linkVars, boundVars
  <2>3. CASE Goto(r, "obsKnown") /\ UNCHANGED frame
    BY <1>3, <2>1, <2>2, <2>3 DEF Observing
  <2>4. CASE Goto(r, "deliver") /\ frame' = [frame EXCEPT ![r].call = w]
    <3>1. f \in Frame /\ f.obs = frame[r].obs
      BY <1>1, <2>1 DEF Frame
    <3>2. FilledIn("deliver", f)
      BY <2>1, <3>1 DEF FilledIn, Begun, InFlight, Expiring, Setting
    <3>3. frame' = [frame EXCEPT ![r] = f]
      BY <2>4
    <3>. HIDE DEF f
    <3>4. Moved(r, "deliver", f)
      BY <1>1, <2>4, <3>1, <3>3, Moves DEF HubInv, Labels
    <3>. QED
      BY <1>1, <2>2, <3>2, <3>4, InvAfter
  <2>. QED
    BY <1>7, <2>3, <2>4 DEF ObservePending
<1>8. CASE ObserveDeliver(r)
  <2>1. frame[r].obs \in Observations
    BY <1>5, <1>8 DEF ObserveDeliver, At, Observing
  <2>2. chan' \in [Dispatchers -> Observations \cup {None}]
    BY <1>8, <2>1 DEF ObserveDeliver, HubInv, TypeOK
  <2>3. OthersTyped'
    BY <1>8, <2>2 DEF HubInv, TypeOK, OthersTyped, ObserveDeliver, tableVars, linkVars, boundVars
  <2>. QED
    BY <1>2, <1>8, <2>3 DEF ObserveDeliver
<1>9. CASE ObserveKnown(r)
  <2>1. OthersTyped'
    BY <1>9 DEF HubInv, TypeOK, OthersTyped, ObserveKnown, hubVars, tableVars, linkVars, boundVars
  <2>2. frame[r].obs # None
    BY <1>5, <1>9 DEF ObserveKnown, At, Observing
  <2>3. Leave(r) \/ (Goto(r, "obsLoad") /\ UNCHANGED frame)
    BY <1>9 DEF ObserveKnown
  <2>. QED
    BY <1>2, <1>3, <2>1, <2>2, <2>3 DEF Observing
<1>10. CASE ObserveLoad(r)
  <2>1. frame[r].obs # None /\ TaskOf[frame[r].obs.action] \in Tasks
    BY <1>5, <1>10 DEF ObserveLoad, At, Observing
  <2>2. sessions' \in [Tasks -> Session]
    BY <1>10, <2>1, TaskFoundTyped DEF ObserveLoad, HubInv, TypeOK
  <2>3. OthersTyped'
    BY <1>10, <2>2 DEF HubInv, TypeOK, OthersTyped, ObserveLoad, tableVars, linkVars, boundVars
  <2>. QED
    BY <1>3, <1>10, <2>1, <2>3 DEF ObserveLoad, Observing
<1>11. CASE ObserveRecord(r)
  <2>. DEFINE t == TaskOf[frame[r].obs.action]
              s == ObservationRecorded(sessions[t], frame[r].obs)
  <2>1. frame[r].obs \in Observations /\ t \in Tasks /\ sessions[t] \in Session
    BY <1>5, <1>11 DEF ObserveRecord, At, Observing, HubInv, TypeOK
  <2>2. sessions' \in [Tasks -> Session] => OthersTyped'
    BY <1>11 DEF HubInv, TypeOK, OthersTyped, ObserveRecord, tableVars, linkVars, boundVars
  <2>3. CASE SaveLater(r, t, s, "idle")
    <3>1. s \in Session /\ s.status # Absent
      BY <2>1, ObservationRecordedTyped DEF HubInv
    <3>. HIDE DEF s, t
    <3>2. /\ sessions' \in [Tasks -> Session]
          /\ FilledIn("save", Saving(r, t, s, "idle")) /\ Moved(r, "save", Saving(r, t, s, "idle"))
      BY <1>1, <2>1, <2>3, <3>1, FilledSaving DEF HubInv, Dispatching, Leaving
    <3>. QED
      BY <1>1, <2>2, <3>2, InvAfter
  <2>4. CASE Leave(r) /\ UNCHANGED sessions
    BY <1>2, <2>2, <2>4 DEF HubInv, TypeOK
  <2>. QED
    BY <1>11, <2>3, <2>4 DEF ObserveRecord
<1>12. ASSUME NEW a \in Actions, Progress(r, a)
       PROVE  HubInv'
  <2>1. TaskOf[a] \in Tasks
    BY DEF HubAssumption
  <2>2. sessions' \in [Tasks -> Session]
    BY <1>12, <2>1, ProgressRecordedTyped DEF Progress, HubInv, TypeOK
  <2>. QED
    BY <1>12, <2>2 DEF HubInv, TypeOK, LocalsFilled, Progress, tableVars, linkVars, boundVars
<1>. QED
  BY <1>4, <1>6, <1>7, <1>8, <1>9, <1>10, <1>11, <1>12 DEF Read

(* A statement of the store fails, for any goroutine.                      *)
LEMMA StoreFailsStep ==
  ASSUME HubInv, NEW p \in Goroutines, StoreFails(p)
  PROVE  HubInv'
<1>1. OthersTyped'
  BY DEF HubInv, TypeOK, OthersTyped, StoreFails, hubVars, tableVars, linkVars
<1>2. FilledIn(pc[p], frame[p]) /\ frame[p] \in Frame
  BY FilledHere
<1>3. ASSUME frame[p].action \in Actions, Return(p, None)
      PROVE  HubInv'
  BY <1>1, <1>3, Returns, InvAfter DEF HubInv
<1>4. CASE (At(p, "stored") \/ (At(p, "save") /\ frame[p].then = "lookup")) /\ Return(p, None)
  <2>1. frame[p].action \in Actions
    BY <1>2, <1>4 DEF At, FilledIn, Begun, Dispatching
  <2>. QED
    BY <1>3, <1>4, <2>1
<1>5. ASSUME NEW label \in Labels, FilledIn(label, frame[p]), Goto(p, label), UNCHANGED frame
      PROVE  HubInv'
  <2>1. Moved(p, label, frame[p])
    BY <1>5, Goes DEF HubInv
  <2>. QED
    BY <1>1, <1>5, <2>1, InvAfter
<1>6. CASE At(p, "saveAction") /\ Goto(p, "release") /\ UNCHANGED frame
  <2>1. FilledIn("release", frame[p])
    BY <1>2, <1>6 DEF At, FilledIn, Begun, InFlight, Expiring, Observing, Setting
  <2>. QED
    BY <1>5, <1>6, <2>1 DEF Labels, InFlight
<1>7. CASE At(p, "expireStore") /\ Goto(p, "expireCache") /\ UNCHANGED frame
  <2>1. FilledIn("expireCache", frame[p])
    BY <1>2, <1>7 DEF At, FilledIn, Begun, InFlight, Expiring, Observing, Setting
  <2>. QED
    BY <1>5, <1>7, <2>1 DEF Labels, InFlight
<1>8. CASE Leave(p)
  BY <1>1, <1>8, Leaves, InvAfter DEF HubInv
<1>9. CASE pc[p] \in {"obsKnown", "obsLoad"} /\ Goto(p, "obsRecord") /\ UNCHANGED frame
  <2>1. FilledIn("obsRecord", frame[p])
    BY <1>2, <1>9 DEF FilledIn, Begun, InFlight, Expiring, Observing, Setting
  <2>. QED
    BY <1>5, <1>9, <2>1 DEF Labels
<1>10. CASE (At(p, "find") \/ (At(p, "save") /\ frame[p].then # "lookup")) /\ Resume(p)
  <2>1. /\ frame[p].then \in Dispatching \cup Leaving
        /\ frame[p].then \in Dispatching => frame[p].action \in Actions
    BY <1>2, <1>10 DEF At, FilledIn, Setting, Dispatching, Leaving
  <2>2. FilledIn(frame[p].then, Resumed(p)) /\ Moved(p, frame[p].then, Resumed(p))
    BY <1>10, <2>1, FilledResumed, Resumes DEF HubInv
  <2>. QED
    BY <1>1, <2>2, InvAfter
<1>. QED
  BY <1>4, <1>6, <1>7, <1>8, <1>9, <1>10 DEF StoreFails

(* The device's link, the clock, and a restart, after which every local is *)
(* as it was at the start.                                                 *)
LEMMA EnvironmentStep ==
  ASSUME HubInv, LinkUp \/ LinkDown \/ Tick \/ Restart \/ UNCHANGED vars
  PROVE  HubInv'
<1>1. CASE LinkUp \/ LinkDown \/ Tick \/ UNCHANGED vars
  <2>1. UNCHANGED <<pc, frame>> => LocalsFilled'
    BY DEF HubInv, LocalsFilled
  <2>2. CASE LinkUp \/ LinkDown
    <3>1. link' \in Nat
      BY <2>2 DEF HubInv, TypeOK, LinkUp, LinkDown
    <3>3. up' \in BOOLEAN
      BY <2>2, Zenon DEF LinkUp, LinkDown
    <3>2. UNCHANGED <<hubVars, tableVars, pc, frame, wire, boundVars>>
      BY <2>2 DEF LinkUp, LinkDown
    <3>. QED
      BY <2>1, <3>1, <3>2, <3>3 DEF HubInv, TypeOK, hubVars, tableVars, boundVars
  <2>4. CASE Tick
    BY <2>1, <2>4 DEF HubInv, TypeOK, Tick, hubVars, tableVars, linkVars
  <2>3. CASE UNCHANGED vars
    BY <2>1, <2>3 DEF HubInv, TypeOK, vars, hubVars, tableVars, linkVars, boundVars
  <2>. QED
    BY <1>1, <2>2, <2>3, <2>4
<1>2. CASE Restart
  <2>1. OthersTyped'
    <3>1. sessions' \in [Tasks -> Session]
      BY <1>2, NoFrameTyped DEF Restart
    <3>2. /\ pending' \in [Actions -> Dispatchers \cup {None}]
          /\ completed' \in [Keys -> Observations \cup {None}]
          /\ chan' \in [Dispatchers -> Observations \cup {None}]
      BY <1>2 DEF Restart
    <3>3. restarts' \in Nat
      BY <1>2 DEF HubInv, TypeOK, Restart
    <3>5. up' \in BOOLEAN
      BY <1>2, Zenon DEF Restart
    <3>4. UNCHANGED <<tableVars, link, wire, clock, faults>>
      BY <1>2 DEF Restart
    <3>. QED
      BY <3>1, <3>2, <3>3, <3>4, <3>5 DEF HubInv, TypeOK, OthersTyped, tableVars
  <2>2. pc' \in [Goroutines -> Labels] /\ frame' \in [Goroutines -> Frame]
    BY <1>2, NoFrameTyped DEF Restart, Labels
  <2>3. \A p \in Goroutines : pc'[p] \in {"idle", "dead"} /\ frame'[p] = NoFrame
    BY <1>2 DEF Restart
  <2>4. LocalsFilled'
    BY <2>3 DEF LocalsFilled, FilledIn, Begun, InFlight, Expiring, Observing, Setting
  <2>. QED
    BY <2>1, <2>2, <2>4 DEF HubInv, TypeOK, OthersTyped
<1>. QED
  BY <1>1, <1>2

(* Every step of a call keeps HubInv.                                      *)
LEMMA CallStepInv ==
  ASSUME HubInv, HubAssumption, NEW w \in Dispatchers, Call(w)
  PROVE  HubInv'
<1>1. ASSUME NEW a \in Actions, NEW u \in Users, StartCall(w, a, u) PROVE HubInv'
  BY <1>1, StartCallStep
<1>2. CASE BeginTask(w)
  BY <1>2, BeginTaskStep
<1>3. CASE DispatchLookup(w) \/ DispatchStored(w)
  BY <1>3, DispatchLookupStep
<1>4. CASE DispatchRegister(w)
  BY <1>4, DispatchRegisterStep
<1>5. CASE DispatchSaveAction(w) \/ DispatchSend(w)
  BY <1>5, DispatchGoesStep
<1>6. CASE DispatchRecord(w)
  BY <1>6, DispatchRecordStep
<1>7. CASE DispatchReceive(w)
  BY <1>7, DispatchReceiveStep
<1>8. CASE DispatchPublish(w)
  BY <1>8, DispatchPublishStep
<1>9. ASSUME NEW v \in {"CANCELLED", "EXPIRED"}, DispatchGiveUp(w, v) PROVE HubInv'
  BY <1>9, DispatchGiveUpStep
<1>10. CASE ExpireStore(w) \/ ExpireCache(w) \/ ExpireRecord(w)
  BY <1>10, ExpireStep
<1>11. CASE DispatchReturn(w)
  BY <1>11, DispatchReturnStep
<1>12. ASSUME NEW s \in Ends, EndAfterDispatch(w, s) PROVE HubInv'
  BY <1>12, EndAfterDispatchStep
<1>. QED
  BY <1>1, <1>2, <1>3, <1>4, <1>5, <1>6, <1>7, <1>8, <1>9, <1>10, <1>11, <1>12 DEF Call

(* HubInv is inductive.                                                    *)
LEMMA HubInvStep ==
  ASSUME HubInv, HubAssumption, [Next]_vars
  PROVE  HubInv'
<1>1. ASSUME NEW w \in Dispatchers, Call(w) PROVE HubInv'
  BY <1>1, CallStepInv
<1>2. ASSUME NEW p \in Runs, End(p) PROVE HubInv'
  BY <1>2, EndWithoutDispatchStep DEF End
<1>3. ASSUME NEW p \in Stops, Stop(p) PROVE HubInv'
  BY <1>3, StopStepInv
<1>4. ASSUME NEW r \in Readers, Read(r) PROVE HubInv'
  BY <1>4, ObserveStepInv
<1>5. ASSUME NEW p \in Goroutines, SetStatus(p) \/ SaveTask(p) \/ StoreFails(p) PROVE HubInv'
  BY <1>5, SetStatusStep, SaveTaskStep, StoreFailsStep
<1>6. CASE LinkUp \/ LinkDown \/ Tick \/ Restart \/ UNCHANGED vars
  BY <1>6, EnvironmentStep
<1>. QED
  BY <1>1, <1>2, <1>3, <1>4, <1>5, <1>6 DEF Next

(* Every variable keeps its type, and no goroutine of the Hub ever uses a  *)
(* local it has not filled: what BeginTask, Dispatch, SetTaskStatus and    *)
(* Observe read of their variables is there whatever ran before.           *)
THEOREM HubInvariant == Spec => []HubInv
  BY HubInvInit, HubInvStep, HubAssumption, PTL DEF Spec

(* Every variable keeps its type: what the tables, the maps of the Hub and *)
(* the locals of its goroutines can hold.                                  *)
THEOREM HubTypeCorrect == Spec => []TypeOK
  BY HubInvariant, PTL DEF HubInv

-------------------------------------------------------------------------------
(* What a step of one goroutine leaves of the others', and of the tables.  *)

(* SaveLater, Resume, Return and Leave, whatever the types of what they    *)
(* are given.                                                              *)
LEMMA Saves ==
  ASSUME TypeOK, NEW p \in Goroutines, NEW t, NEW s, NEW label, SaveLater(p, t, s, label)
  PROVE  /\ Others(p) /\ pc'[p] = "save" /\ frame'[p].then = label
         /\ frame'[p].action = frame[p].action /\ frame'[p].obs = frame[p].obs
         /\ frame'[p].settled = frame[p].settled
  BY DEF SaveLater, Goto, Others, TypeOK, Frame

(* A goroutine that resumes.                                               *)
LEMMA ResumesAt ==
  ASSUME TypeOK, NEW p \in Goroutines, Resume(p)
  PROVE  /\ Others(p) /\ pc'[p] = frame[p].then
         /\ frame[p].then \notin {"idle", "ended"} =>
              /\ frame'[p].action = frame[p].action /\ frame'[p].obs = frame[p].obs
              /\ frame'[p].settled = frame[p].settled
         /\ frame[p].then \in {"idle", "ended"} => frame'[p] = NoFrame
  BY Resumes DEF Moved, Resumed

(* A call that returns forgets all but its action and observation.         *)
LEMMA ReturnsAt ==
  ASSUME TypeOK, NEW p \in Goroutines, NEW x \in Observations \cup {None}, Return(p, x)
  PROVE  Others(p) /\ pc'[p] = "done" /\ frame'[p].obs = x /\ ~frame'[p].settled
  BY Returns DEF Moved

(* A goroutine that leaves forgets its locals.                             *)
LEMMA LeavesAt ==
  ASSUME TypeOK, NEW p \in Goroutines, Leave(p)
  PROVE  Others(p) /\ pc'[p] = "idle" /\ frame'[p] = NoFrame
  BY Leaves DEF Moved

(* The steps of a Dispatch between its registration and its deferred       *)
(* delete.                                                                 *)
InFlightStep(w) ==
  \/ DispatchSaveAction(w) \/ DispatchRecord(w) \/ DispatchSend(w)
  \/ DispatchReceive(w) \/ DispatchPublish(w)
  \/ \E verdict \in {"CANCELLED", "EXPIRED"} : DispatchGiveUp(w, verdict)
  \/ ExpireStore(w) \/ ExpireCache(w) \/ ExpireRecord(w)

(* They neither register nor remove anything, and keep the action.         *)
LEMMA FlyingOn ==
  ASSUME TypeOK, NEW w \in Dispatchers, InFlightStep(w)
  PROVE  /\ Others(w) /\ UNCHANGED pending /\ pc[w] \in InFlight /\ Registering(w)'
         /\ frame'[w].action = frame[w].action /\ frame'[w].settled = frame[w].settled
<1>1. w \in Goroutines
  BY DEF Goroutines
<1>2. ASSUME NEW t, NEW s, NEW label \in InFlight, SaveLater(w, t, s, label)
      PROVE  /\ Others(w) /\ Registering(w)'
             /\ frame'[w].action = frame[w].action /\ frame'[w].settled = frame[w].settled
  BY <1>1, <1>2, Saves DEF Registering
<1>3. CASE DispatchRecord(w)
  BY <1>2, <1>3 DEF DispatchRecord, At, InFlight
<1>4. CASE DispatchPublish(w)
  BY <1>2, <1>4 DEF DispatchPublish, At, InFlight
<1>5. CASE ExpireRecord(w)
  BY <1>2, <1>5 DEF ExpireRecord, At, InFlight
<1>6. CASE DispatchSaveAction(w) \/ DispatchSend(w) \/ ExpireStore(w) \/ ExpireCache(w)
  <2>1. pc[w] \in InFlight /\ UNCHANGED frame /\ UNCHANGED pending
    BY <1>6 DEF DispatchSaveAction, DispatchSend, ExpireStore, ExpireCache, hubVars, At, InFlight
  <2>2. \E label \in InFlight : Goto(w, label)
    BY <1>6 DEF DispatchSaveAction, DispatchSend, ExpireStore, ExpireCache, InFlight
  <2>. QED
    BY <1>1, <2>1, <2>2 DEF Goto, Others, Registering, TypeOK
<1>7. CASE DispatchReceive(w)
  <2>1. frame' = frame \/ frame' = [frame EXCEPT ![w].obs = chan[w]]
    BY <1>7 DEF DispatchReceive
  <2>2. \E label \in InFlight : Goto(w, label)
    BY <1>7 DEF DispatchReceive, InFlight
  <2>3. pc[w] \in InFlight /\ UNCHANGED pending
    BY <1>7 DEF DispatchReceive, At, InFlight
  <2>. QED
    BY <1>1, <2>1, <2>2, <2>3 DEF Goto, Others, Registering, TypeOK, Frame
<1>8. ASSUME NEW v \in {"CANCELLED", "EXPIRED"}, DispatchGiveUp(w, v)
      PROVE  /\ Others(w) /\ UNCHANGED pending /\ pc[w] \in InFlight /\ Registering(w)'
             /\ frame'[w].action = frame[w].action /\ frame'[w].settled = frame[w].settled
  BY <1>1, <1>8 DEF DispatchGiveUp, At, Goto, Others, Registering, InFlight, TypeOK, Frame, hubVars
<1>. QED
  BY <1>3, <1>4, <1>5, <1>6, <1>7, <1>8 DEF InFlightStep

(* SetTaskStatus touches neither pending nor the tables, and whoever runs  *)
(* it comes from and goes to where no Dispatch is in flight.               *)
LEMMA SettingOn ==
  ASSUME HubInv, NEW p \in Goroutines, SetStatus(p)
  PROVE  /\ Others(p) /\ UNCHANGED <<pending, completed, chan, tableVars>>
         /\ pc[p] \in Setting /\ pc'[p] \in {"find", "install", "save"} \cup Leaving
         /\ pc'[p] = "save" => frame'[p].then \in Leaving
         /\ frame'[p].obs \in {frame[p].obs, None}
         /\ frame'[p].settled => frame[p].settled
<1>1. pc[p] \in Setting /\ TypeOK
  BY DEF SetStatus, StatusLock, StatusFind, StatusInstall, At, Setting, HubInv
<1>2. frame[p].then \in Leaving /\ frame[p] \in Frame
  BY <1>1, FilledHere DEF FilledIn
<1>3. UNCHANGED <<pending, completed, chan, tableVars>>
  BY DEF SetStatus, StatusLock, StatusFind, StatusInstall, hubVars
<1>4. CASE Resume(p)
  BY <1>1, <1>2, <1>3, <1>4, ResumesAt DEF NoFrame, Leaving
<1>5. ASSUME NEW t, NEW s, SaveLater(p, t, s, frame[p].then)
      PROVE  /\ Others(p) /\ pc'[p] = "save" /\ frame'[p].then \in Leaving
             /\ frame'[p].obs = frame[p].obs /\ frame'[p].settled = frame[p].settled
  BY <1>1, <1>2, <1>5, Saves
<1>6. CASE Goto(p, "find") /\ UNCHANGED frame
  BY <1>1, <1>2, <1>3, <1>6 DEF Goto, Others, TypeOK
<1>7. CASE Goto(p, "install") /\ frame' = [frame EXCEPT ![p].copy = TaskFound(frame[p].task)]
  BY <1>1, <1>2, <1>3, <1>7 DEF Goto, Others, TypeOK, Frame
<1>8. ASSUME NEW s, ApplyStatus(p, s), ~Resume(p)
      PROVE  \E t, z : SaveLater(p, t, z, frame[p].then)
  BY <1>8 DEF ApplyStatus
<1>. QED
  <2>1. Resume(p) \/ (Goto(p, "find") /\ UNCHANGED frame)
        \/ (Goto(p, "install") /\ frame' = [frame EXCEPT ![p].copy = TaskFound(frame[p].task)])
        \/ \E t, z : SaveLater(p, t, z, frame[p].then)
    BY <1>8 DEF SetStatus, StatusLock, StatusFind, StatusInstall
  <2>. QED
    BY <1>1, <1>3, <1>4, <1>5, <1>6, <1>7, <2>1

(* The goroutines that are no call leave every call where it is.           *)
LEMMA NoCall ==
  ASSUME HubInv, NEW p \in Runs \cup Stops \cup Readers, End(p) \/ Stop(p) \/ Read(p)
  PROVE  Others(p) /\ UNCHANGED <<pending, completed, actionRows>>
<1>1. p \in Goroutines /\ TypeOK
  BY DEF Goroutines, HubInv
<1>2. Leave(p) => Others(p)
  BY <1>1, LeavesAt
<1>3. ASSUME NEW label, Goto(p, label), UNCHANGED frame
      PROVE  Others(p)
  BY <1>1, <1>3 DEF Goto, Others, TypeOK
<1>4. CASE End(p)
  BY <1>1, <1>4 DEF End, EndWithoutDispatch, Goto, Others, TypeOK, hubVars, tableVars
<1>5. CASE Stop(p)
  <2>1. UNCHANGED <<pending, completed, actionRows>>
    BY <1>5 DEF Stop, StopBegin, StopCancelTask, StopSnapshot, StopSend, hubVars, tableVars
  <2>2. ASSUME NEW u, StopBegin(p, u) PROVE Others(p)
    BY <1>1, <2>2 DEF StopBegin, Goto, Others, TypeOK
  <2>3. ASSUME NEW t, StopCancelTask(p, t) PROVE Others(p)
    BY <1>1, <2>3 DEF StopCancelTask, Goto, Others, TypeOK
  <2>4. CASE StopSnapshot(p)
    BY <1>1, <1>2, <2>1, <2>4 DEF StopSnapshot, Goto, Others, TypeOK
  <2>5. ASSUME NEW a, StopSend(p, a) PROVE Others(p)
    BY <1>1, <1>2, <2>5 DEF StopSend, Others, TypeOK
  <2>. QED
    BY <1>5, <2>1, <2>2, <2>3, <2>4, <2>5 DEF Stop
<1>6. CASE Read(p)
  <2>1. UNCHANGED <<pending, completed, actionRows>>
    BY <1>6 DEF Read, ReadObservation, ObserveStore, ObservePending, ObserveDeliver, ObserveKnown,
                ObserveLoad, ObserveRecord, Progress, hubVars, tableVars
  <2>2. CASE ObserveRecord(p)
    BY <1>1, <1>2, <2>1, <2>2, Saves DEF ObserveRecord
  <2>3. CASE ObserveStore(p) \/ ObserveDeliver(p) \/ ObserveKnown(p) \/ ObserveLoad(p)
    BY <1>2, <1>3, <2>1, <2>3 DEF ObserveStore, ObserveDeliver, ObserveKnown, ObserveLoad
  <2>4. CASE ObservePending(p)
    BY <1>1, <1>3, <2>1, <2>4 DEF ObservePending, Goto, Others, TypeOK
  <2>5. ASSUME NEW x, ReadObservation(p, x) PROVE Others(p)
    BY <1>1, <2>5 DEF ReadObservation, Goto, Others, TypeOK
  <2>6. ASSUME NEW a, Progress(p, a) PROVE Others(p)
    BY <1>1, <2>6 DEF Progress, Others
  <2>. QED
    BY <1>6, <2>1, <2>2, <2>3, <2>4, <2>5, <2>6 DEF Read
<1>. QED
  BY <1>4, <1>5, <1>6

(* A failure of the store, and a save, by any goroutine.                   *)
LEMMA FailingOn ==
  ASSUME HubInv, NEW p \in Goroutines, StoreFails(p)
  PROVE  /\ Others(p) /\ UNCHANGED <<hubVars, tableVars>>
         /\ Registering(p)' <=> Registering(p)
         /\ Registering(p) => frame'[p].action = frame[p].action
         /\ frame'[p].settled => /\ frame[p].settled
                                 /\ pc[p] \notin {"begin", "lookup", "stored"}
                                 /\ pc[p] = "save" => frame[p].then # "lookup"
         /\ frame'[p].obs # None => frame'[p].obs = frame[p].obs /\ pc[p] # "obsStore"
<1>1. /\ UNCHANGED <<hubVars, tableVars>> /\ TypeOK
      /\ FilledIn(pc[p], frame[p]) /\ frame[p] \in Frame
  BY FilledHere DEF StoreFails, HubInv
<1>2. CASE (At(p, "stored") \/ (At(p, "save") /\ frame[p].then = "lookup")) /\ Return(p, None)
  BY <1>1, <1>2, ReturnsAt DEF At, Registering, InFlight
<1>3. ASSUME NEW before \in {"saveAction", "expireStore"}, At(p, before),
             NEW after \in {"release", "expireCache"}, Goto(p, after), UNCHANGED frame
      PROVE  /\ Others(p) /\ Registering(p)' /\ Registering(p)
             /\ frame'[p] = frame[p] /\ pc[p] = before
  BY <1>1, <1>3 DEF At, Goto, Others, Registering, InFlight, TypeOK
<1>4. CASE At(p, "obsStore") /\ Leave(p)
  BY <1>1, <1>4, LeavesAt DEF At, Registering, InFlight, NoFrame
<1>5. CASE pc[p] \in {"obsKnown", "obsLoad"} /\ Leave(p)
  BY <1>1, <1>5, LeavesAt DEF At, Registering, InFlight, NoFrame
<1>6. CASE pc[p] \in {"obsKnown", "obsLoad"} /\ Goto(p, "obsRecord") /\ UNCHANGED frame
  BY <1>1, <1>6 DEF Goto, Others, Registering, InFlight, TypeOK
<1>7. CASE (At(p, "find") \/ (At(p, "save") /\ frame[p].then # "lookup")) /\ Resume(p)
  <2>1. frame[p].then \in Dispatching \cup Leaving /\ (At(p, "find") => frame[p].then \in Leaving)
    BY <1>1, <1>7 DEF At, FilledIn, Setting
  <2>2. Registering(p)' <=> Registering(p)
    BY <1>1, <1>7, <2>1, ResumesAt DEF At, Registering, InFlight, Dispatching, Leaving
  <2>3. /\ Registering(p) => frame'[p].action = frame[p].action
        /\ frame'[p].settled => frame[p].settled
        /\ frame'[p].obs # None => frame'[p].obs = frame[p].obs
        /\ Others(p)
    BY <1>1, <1>7, <2>1, ResumesAt DEF At, Registering, InFlight, NoFrame
  <2>. QED
    BY <1>1, <1>7, <2>2, <2>3 DEF At
<1>. QED
  BY <1>1, <1>2, <1>3, <1>4, <1>5, <1>6, <1>7 DEF StoreFails, At

(* SaveTask changes one row and goes on.                                   *)
LEMMA SavingOn ==
  ASSUME HubInv, NEW p \in Goroutines, SaveTask(p)
  PROVE  /\ Others(p) /\ UNCHANGED <<hubVars, actionRows, obsRows>>
         /\ Registering(p)' <=> Registering(p)
         /\ Registering(p) => frame'[p].action = frame[p].action
         /\ frame'[p].settled => /\ frame[p].settled /\ pc'[p] = frame[p].then
                                 /\ frame'[p].action = frame[p].action
         /\ frame'[p].obs # None => frame'[p].obs = frame[p].obs
<1>1. UNCHANGED <<hubVars, actionRows, obsRows>> /\ TypeOK /\ Resume(p) /\ pc[p] = "save"
  BY DEF SaveTask, HubInv, At
<1>2. frame[p].then \in Dispatching \cup Leaving
  BY <1>1, FilledHere DEF FilledIn
<1>3. Registering(p)' <=> Registering(p)
  BY <1>1, <1>2, ResumesAt DEF Registering, InFlight, Dispatching, Leaving
<1>4. Registering(p) => frame'[p].action = frame[p].action
  BY <1>1, ResumesAt DEF Registering, InFlight
<1>. QED
  BY <1>1, <1>3, <1>4, ResumesAt DEF NoFrame

(* A step of a call moves no other goroutine.                              *)
LEMMA CallAlone ==
  ASSUME HubInv, HubAssumption, NEW w \in Dispatchers, Call(w)
  PROVE  Others(w)
<1>1. w \in Goroutines /\ TypeOK
  BY DEF Goroutines, HubInv
<1>2. ASSUME NEW label, Goto(w, label), UNCHANGED frame
      PROVE  Others(w)
  BY <1>1, <1>2 DEF Goto, Others, TypeOK
<1>3. ASSUME NEW x, Return(w, x)
      PROVE  Others(w)
  BY <1>1, <1>3 DEF Return, Goto, Others, TypeOK
<1>4. ASSUME NEW a, NEW u, StartCall(w, a, u) PROVE Others(w)
  BY <1>1, <1>4 DEF StartCall, Goto, Others, TypeOK
<1>5. CASE BeginTask(w)
  BY <1>1, <1>3, <1>5, Saves DEF BeginTask
<1>6. CASE DispatchLookup(w) \/ DispatchStored(w)
  BY <1>2, <1>3, <1>6 DEF DispatchLookup, DispatchStored
<1>7. CASE DispatchRegister(w)
  BY <1>1, <1>3, <1>7 DEF DispatchRegister, Goto, Others, TypeOK
<1>8. CASE InFlightStep(w)
  BY <1>1, <1>8, FlyingOn
<1>9. CASE DispatchReturn(w)
  BY <1>3, <1>9 DEF DispatchReturn
<1>10. ASSUME NEW s, EndAfterDispatch(w, s) PROVE Others(w)
  BY <1>1, <1>10 DEF EndAfterDispatch, Goto, Others, TypeOK
<1>. QED
  BY <1>4, <1>5, <1>6, <1>7, <1>8, <1>9, <1>10 DEF Call, InFlightStep

-------------------------------------------------------------------------------
(* SingleFlight.                                                           *)

(* What a step of p must show: it neither takes nor gives up an action.    *)
LEMMA FlightKept ==
  ASSUME HubAssumption, SingleFlight, NEW p \in Goroutines, Others(p), UNCHANGED pending,
         p \in Dispatchers => Registering(p)' <=> Registering(p),
         p \in Dispatchers /\ Registering(p) => frame'[p].action = frame[p].action
  PROVE  SingleFlight'
<1>. SUFFICES ASSUME NEW w \in Dispatchers, NEW a \in Actions
              PROVE  (pending[a] = w <=> Registering(w) /\ frame[w].action = a)'
  BY DEF SingleFlight
<1>1. pending[a] = w <=> Registering(w) /\ frame[w].action = a
  BY DEF SingleFlight
<1>2. CASE w # p
  BY <1>1, <1>2 DEF Others, Registering, Goroutines
<1>3. CASE w = p
  BY <1>1, <1>3
<1>. QED
  BY <1>2, <1>3

(* Before it registers and after it returns a call is in no flight.        *)
LEMMA CallFlight ==
  ASSUME HubInv, HubAssumption, SingleFlight, NEW w \in Dispatchers, Call(w)
  PROVE  SingleFlight'
<1>1. w \in Goroutines /\ TypeOK /\ None \notin Dispatchers /\ frame[w] \in Frame
  BY DEF Goroutines, HubInv, HubAssumption, TypeOK
<1>2. ASSUME NEW a \in Actions, NEW u \in Users, StartCall(w, a, u)
      PROVE  SingleFlight'
  BY <1>1, <1>2, FlightKept DEF StartCall, At, Goto, Others, Registering, InFlight, TypeOK, hubVars
<1>3. CASE BeginTask(w)
  <2>1. UNCHANGED pending /\ ~Registering(w)
    BY <1>3 DEF BeginTask, At, Registering, InFlight
  <2>2. ASSUME Return(w, None)
        PROVE  Others(w) /\ ~Registering(w)'
    BY <1>1, <2>2, ReturnsAt DEF Registering, InFlight
  <2>3. ASSUME NEW t, NEW s, SaveLater(w, t, s, "lookup")
        PROVE  Others(w) /\ ~Registering(w)'
    BY <1>1, <2>3, Saves DEF Registering, InFlight
  <2>4. Others(w) /\ ~Registering(w)'
    BY <1>3, <2>2, <2>3 DEF BeginTask
  <2>. QED
    BY <1>1, <2>1, <2>4, FlightKept
<1>4. CASE DispatchLookup(w) \/ DispatchStored(w)
  <2>1. UNCHANGED pending /\ ~Registering(w)
    BY <1>4 DEF DispatchLookup, DispatchStored, At, Registering, InFlight, hubVars
  <2>2. ASSUME NEW x \in Observations, Return(w, x)
        PROVE  Others(w) /\ ~Registering(w)'
    BY <1>1, <2>2, ReturnsAt DEF Registering, InFlight
  <2>3. ASSUME NEW label \in {"stored", "register"}, Goto(w, label), UNCHANGED frame
        PROVE  Others(w) /\ ~Registering(w)'
    BY <1>1, <2>3 DEF Goto, Others, Registering, InFlight, TypeOK
  <2>4. frame[w].action \in Actions
    BY <1>1, <1>4, FilledHere DEF DispatchLookup, DispatchStored, At, FilledIn, Begun
  <2>5. completed[KeyOf[frame[w].action]] \in Observations \cup {None}
    BY <1>1, <2>4 DEF TypeOK, HubAssumption
  <2>6. StoredFor(KeyOf[frame[w].action]) \subseteq Observations
    BY <1>1, StoredForTyped
  <2>7. Others(w) /\ ~Registering(w)'
    BY <1>4, <2>2, <2>3, <2>5, <2>6 DEF DispatchLookup, DispatchStored
  <2>. QED
    BY <1>1, <2>1, <2>7, FlightKept
<1>5. CASE DispatchRegister(w)
  <2>. DEFINE a == frame[w].action
  <2>1. a \in Actions /\ ~Registering(w)
    BY <1>1, <1>5, FilledHere DEF DispatchRegister, At, FilledIn, Begun, Registering, InFlight
  <2>2. CASE Return(w, None) /\ UNCHANGED pending
    BY <1>1, <2>1, <2>2, ReturnsAt, FlightKept DEF Registering, InFlight
  <2>3. CASE pending[a] = None /\ pending' = [pending EXCEPT ![a] = w]
             /\ Goto(w, "saveAction") /\ frame' = [frame EXCEPT ![w].link = link]
    <3>1. Others(w) /\ Registering(w)' /\ frame'[w].action = a
      BY <1>1, <2>3 DEF Goto, Others, Registering, InFlight, TypeOK, Frame
    <3>. SUFFICES ASSUME NEW v \in Dispatchers, NEW b \in Actions
                  PROVE  (pending[b] = v <=> Registering(v) /\ frame[v].action = b)'
      BY DEF SingleFlight
    <3>2. pending[b] = v <=> Registering(v) /\ frame[v].action = b
      BY DEF SingleFlight
    <3>3. v # w => (Registering(v)' <=> Registering(v)) /\ frame'[v] = frame[v]
      BY <3>1 DEF Others, Registering, Goroutines
    <3>4. pending'[b] = IF b = a THEN w ELSE pending[b]
      BY <1>1, <2>1, <2>3 DEF TypeOK
    <3>. HIDE DEF a
    <3>. QED
      BY <1>1, <2>1, <2>3, <3>1, <3>2, <3>3, <3>4
  <2>. QED
    BY <1>5, <2>2, <2>3 DEF DispatchRegister
<1>6. CASE InFlightStep(w)
  BY <1>1, <1>6, FlyingOn, FlightKept DEF Registering
<1>7. CASE DispatchReturn(w)
  <2>. DEFINE a == frame[w].action
  <2>1. a \in Actions /\ Registering(w) /\ frame[w].obs \in Observations \cup {None}
    BY <1>1, <1>7, FilledHere DEF DispatchReturn, At, FilledIn, Begun, Registering, InFlight, Frame
  <2>2. Others(w) /\ ~Registering(w)'
    BY <1>1, <1>7, <2>1, ReturnsAt DEF DispatchReturn, Registering, InFlight
  <2>. SUFFICES ASSUME NEW v \in Dispatchers, NEW b \in Actions
                PROVE  (pending[b] = v <=> Registering(v) /\ frame[v].action = b)'
    BY DEF SingleFlight
  <2>3. /\ pending[b] = v <=> Registering(v) /\ frame[v].action = b
        /\ pending[a] = w
    BY <2>1 DEF SingleFlight
  <2>4. v # w => (Registering(v)' <=> Registering(v)) /\ frame'[v] = frame[v]
    BY <2>2 DEF Others, Registering, Goroutines
  <2>5. pending'[b] = IF b = a THEN None ELSE pending[b]
    BY <1>1, <1>7, <2>1 DEF DispatchReturn, TypeOK
  <2>6. pending[b] = w => b = a
    BY DEF SingleFlight
  <2>. HIDE DEF a
  <2>. QED
    BY <1>1, <2>1, <2>2, <2>3, <2>4, <2>5, <2>6
<1>8. ASSUME NEW s \in Ends, EndAfterDispatch(w, s)
      PROVE  SingleFlight'
  BY <1>1, <1>8, FlightKept DEF EndAfterDispatch, At, Goto, Others, Registering, InFlight, TypeOK, hubVars
<1>. QED
  BY <1>2, <1>3, <1>4, <1>5, <1>6, <1>7, <1>8 DEF Call, InFlightStep

(* Every step keeps SingleFlight.                                          *)
LEMMA FlightStep ==
  ASSUME HubInv, HubAssumption, SingleFlight, [Next]_vars
  PROVE  SingleFlight'
<1>1. ASSUME NEW w \in Dispatchers, Call(w) PROVE SingleFlight'
  BY <1>1, CallFlight
<1>2. ASSUME NEW p \in Runs \cup Stops \cup Readers, End(p) \/ Stop(p) \/ Read(p) PROVE SingleFlight'
  BY <1>2, NoCall, FlightKept DEF Goroutines, HubAssumption
<1>3. ASSUME NEW p \in Goroutines, SetStatus(p) PROVE SingleFlight'
  <2>1. ~Registering(p) /\ ~Registering(p)'
    BY <1>3, SettingOn DEF Registering, InFlight, Setting, Leaving
  <2>. QED
    BY <1>3, <2>1, SettingOn, FlightKept
<1>4. ASSUME NEW p \in Goroutines, SaveTask(p) \/ StoreFails(p) PROVE SingleFlight'
  BY <1>4, SavingOn, FailingOn, FlightKept DEF hubVars
<1>5. CASE Restart
  <2>1. \A a \in Actions : pending'[a] = None
    BY <1>5 DEF Restart
  <2>2. \A w \in Dispatchers : ~Registering(w)'
    BY <1>5 DEF Restart, Registering, InFlight, Goroutines
  <2>. QED
    BY <2>1, <2>2 DEF SingleFlight, HubAssumption
<1>6. CASE LinkUp \/ LinkDown \/ Tick \/ UNCHANGED vars
  <2>1. UNCHANGED <<pending, pc, frame>>
    BY <1>6 DEF LinkUp, LinkDown, Tick, vars, hubVars
  <2>. QED
    BY <2>1 DEF SingleFlight, Registering
<1>. QED
  BY <1>1, <1>2, <1>3, <1>4, <1>5, <1>6 DEF Next

(* SingleFlight, for any number of concurrent calls for an action: the     *)
(* entry in Hub.pending is that of the one call between its registration   *)
(* and its deferred delete, through restarts and failures of the store.    *)
THEOREM OneCallInFlight == Spec => []SingleFlight
<1>1. Init => SingleFlight
  BY HubAssumption DEF Init, SingleFlight, Registering, InFlight, Goroutines
<1>2. HubInv /\ SingleFlight /\ [Next]_vars => SingleFlight'
  BY FlightStep, HubAssumption
<1>. QED
  BY <1>1, <1>2, HubInvariant, PTL DEF Spec

-------------------------------------------------------------------------------
(* OutcomeKept: the stored rows implement TaskOutcome.                     *)

(* Only SaveTask writes a task's row.                                      *)
LEMMA RowsWritten ==
  ASSUME [Next]_vars, \A p \in Goroutines : ~SaveTask(p)
  PROVE  rows' = rows
<1>1. ASSUME NEW w \in Dispatchers, Call(w) PROVE rows' = rows
  <2>1. CASE InFlightStep(w)
    BY <2>1 DEF InFlightStep, DispatchSaveAction, DispatchRecord, DispatchSend, DispatchReceive,
                DispatchPublish, DispatchGiveUp, ExpireStore, ExpireCache, ExpireRecord, tableVars
  <2>2. CASE ~InFlightStep(w)
    BY <1>1, <2>2 DEF Call, InFlightStep, StartCall, BeginTask, DispatchLookup, DispatchStored,
                DispatchRegister, DispatchReturn, EndAfterDispatch, tableVars
  <2>. QED
    BY <2>1, <2>2
<1>2. ASSUME NEW p \in Runs, End(p) PROVE rows' = rows
  BY <1>2 DEF End, EndWithoutDispatch, tableVars
<1>3. ASSUME NEW p \in Stops, Stop(p) PROVE rows' = rows
  BY <1>3 DEF Stop, StopBegin, StopCancelTask, StopSnapshot, StopSend, tableVars
<1>4. ASSUME NEW r \in Readers, Read(r) PROVE rows' = rows
  BY <1>4 DEF Read, ReadObservation, ObserveStore, ObservePending, ObserveDeliver, ObserveKnown,
              ObserveLoad, ObserveRecord, Progress, tableVars
<1>5. ASSUME NEW p \in Goroutines, SetStatus(p) \/ StoreFails(p) PROVE rows' = rows
  BY <1>5 DEF SetStatus, StatusLock, StatusFind, StatusInstall, StoreFails, tableVars
<1>6. CASE LinkUp \/ LinkDown \/ Tick \/ Restart \/ UNCHANGED vars
  BY <1>6 DEF LinkUp, LinkDown, Tick, Restart, vars, tableVars
<1>. QED
  BY <1>1, <1>2, <1>3, <1>4, <1>5, <1>6 DEF Next

(* A save never takes a stored outcome back, and never removes a row.      *)
LEMMA SaveSettles ==
  ASSUME NEW r \in Row, NEW s \in Session, s.status # Absent
  PROVE  /\ r.status \in Terminal => TaskSaved(r, s).status = r.status
         /\ r.status \notin Terminal => TaskSaved(r, s).status = s.status
<1>1. r.status = Absent => r.status \notin Terminal
  BY DEF Absent, Terminal
<1>. QED
  BY <1>1 DEF TaskSaved

(* The names of what a task's row says.                                    *)
LEMMA Outcomes ==
  ASSUME NEW s \in TaskStatuses \cup {Absent}
  PROVE  /\ s = Absent => OutcomeOf(s) = "unknown"
         /\ s \in Terminal => OutcomeOf(s) = s
         /\ s \notin Terminal \cup {Absent} => OutcomeOf(s) = "open"
<1>1. Absent \notin Terminal
  BY DEF Absent, Terminal
<1>. QED
  BY <1>1 DEF OutcomeOf

(* Every step of the Hub is a step of TaskOutcome, or none.                *)
LEMMA OutcomeStep ==
  ASSUME HubInv, [Next]_vars
  PROVE  [Stored!Next]_[t \in Tasks |-> OutcomeOf(rows[t].status)]
<1>. DEFINE outcome == [t \in Tasks |-> OutcomeOf(rows[t].status)]
<1>1. rows' = rows => UNCHANGED outcome
  OBVIOUS
<1>2. ASSUME NEW p \in Goroutines, SaveTask(p)
      PROVE  UNCHANGED outcome \/ Stored!Next
  <2>. DEFINE u == frame[p].task
              s == frame[p].copy
              old == rows[u].status
              new == TaskSaved(rows[u], s).status
  <2>1. u \in Tasks /\ s \in Session /\ s.status # Absent
    BY <1>2, FilledHere DEF SaveTask, At, FilledIn, Frame
  <2>2. /\ rows[u] \in Row /\ old \in TaskStatuses \cup {Absent}
        /\ s.status \in TaskStatuses
    BY <2>1 DEF HubInv, TypeOK, Row, Session
  <2>3. /\ old \in Terminal => new = old
        /\ old \notin Terminal => new = s.status
    BY <2>1, <2>2, SaveSettles
  <2>4. rows' = [rows EXCEPT ![u] = TaskSaved(rows[u], s)]
    BY <1>2 DEF SaveTask
  <2>5. outcome' = [outcome EXCEPT ![u] = OutcomeOf(new)]
    BY <2>1, <2>4 DEF HubInv, TypeOK
  <2>6. outcome[u] = OutcomeOf(old)
    BY <2>1
  <2>7. new \in TaskStatuses /\ Absent \notin TaskStatuses
    BY <2>2, <2>3 DEF TaskStatuses, Terminal, Absent
  <2>8. CASE old \in Terminal
    <3>1. \A t \in Tasks : outcome'[t] = outcome[t]
      BY <2>3, <2>5, <2>6, <2>8
    <3>. QED
      BY <3>1
  <2>9. CASE old \notin Terminal /\ new \in Terminal
    <3>1. OutcomeOf(new) = new /\ outcome[u] \in {"unknown", "open"}
      BY <2>2, <2>6, <2>7, <2>9, Outcomes
    <3>2. Stored!Settle(u, new)
      BY <2>5, <3>1 DEF Stored!Settle
    <3>. QED
      BY <2>1, <2>9, <3>2 DEF Stored!Next, Stored!Terminal, Terminal
  <2>10. CASE old = Absent /\ new \notin Terminal
    <3>1. OutcomeOf(new) = "open" /\ outcome[u] = "unknown"
      BY <2>2, <2>6, <2>7, <2>10, Outcomes
    <3>2. Stored!Open(u)
      BY <2>5, <3>1 DEF Stored!Open
    <3>. QED
      BY <2>1, <3>2 DEF Stored!Next
  <2>11. CASE old \notin Terminal \cup {Absent} /\ new \notin Terminal
    <3>1. OutcomeOf(new) = "open" /\ outcome[u] = "open"
      BY <2>2, <2>6, <2>7, <2>11, Outcomes
    <3>2. \A t \in Tasks : outcome'[t] = outcome[t]
      BY <2>5, <3>1
    <3>. QED
      BY <3>2
  <2>. QED
    BY <2>8, <2>9, <2>10, <2>11
<1>. QED
  BY <1>1, <1>2, RowsWritten

(* The stored outcome of a task is final, for any number of processes      *)
(* after one another, of clones on their way to SaveTask in any order, and *)
(* of lost writes.                                                         *)
THEOREM OutcomeKeptForGood == Spec => OutcomeKept
<1>1. Init => Stored!Init
  <2>1. Init => \A t \in Tasks : rows[t].status = Absent
    BY DEF Init, NoRow
  <2>2. Init => \A t \in Tasks : OutcomeOf(rows[t].status) = "unknown"
    BY <2>1, Outcomes
  <2>. QED
    BY <2>2 DEF Stored!Init
<1>2. HubInv /\ [Next]_vars => [Stored!Next]_[t \in Tasks |-> OutcomeOf(rows[t].status)]
  BY OutcomeStep
<1>. QED
  BY <1>1, <1>2, HubInvariant, PTL DEF Spec, OutcomeKept, Stored!Spec

-------------------------------------------------------------------------------
(* What is stored of an observation stays stored.                          *)

(* Only SaveObservation writes the table of observations, in Observe and   *)
(* in persistTerminalObservation, and no action is taken off its table.    *)
LEMMA ObservationsWritten ==
  ASSUME HubInv, [Next]_vars
  PROVE  /\ obsRows' = obsRows \/ \E x \in Observations : obsRows' = ObservationSaved(x)
         /\ actionRows \subseteq actionRows'
<1>. DEFINE Goal == /\ obsRows' = obsRows \/ \E x \in Observations : obsRows' = ObservationSaved(x)
                    /\ actionRows \subseteq actionRows'
<1>1. ASSUME NEW w \in Dispatchers, Call(w) PROVE Goal
  <2>1. CASE ExpireStore(w)
    <3>1. Verdict(w) \in Observations
      BY <2>1, FilledHere, VerdictTyped DEF ExpireStore, At, FilledIn, Begun, InFlight, Expiring, Goroutines
    <3>. QED
      BY <2>1, <3>1 DEF ExpireStore
  <2>2. CASE InFlightStep(w) /\ ~ExpireStore(w)
    BY <2>2 DEF InFlightStep, DispatchSaveAction, DispatchRecord, DispatchSend, DispatchReceive,
                DispatchPublish, DispatchGiveUp, ExpireCache, ExpireRecord, tableVars
  <2>3. CASE ~InFlightStep(w)
    BY <1>1, <2>3 DEF Call, InFlightStep, StartCall, BeginTask, DispatchLookup, DispatchStored,
                DispatchRegister, DispatchReturn, EndAfterDispatch, tableVars
  <2>. QED
    BY <2>1, <2>2, <2>3
<1>2. ASSUME NEW p \in Runs, End(p) PROVE Goal
  BY <1>2 DEF End, EndWithoutDispatch, tableVars
<1>3. ASSUME NEW p \in Stops, Stop(p) PROVE Goal
  BY <1>3 DEF Stop, StopBegin, StopCancelTask, StopSnapshot, StopSend, tableVars
<1>4. ASSUME NEW r \in Readers, Read(r) PROVE Goal
  <2>1. CASE ObserveStore(r)
    <3>1. frame[r].obs \in Observations
      BY <2>1, FilledHere DEF ObserveStore, At, FilledIn, Observing, Frame, Goroutines
    <3>. QED
      BY <2>1, <3>1 DEF ObserveStore
  <2>2. CASE ~ObserveStore(r)
    BY <1>4, <2>2 DEF Read, ReadObservation, ObservePending, ObserveDeliver, ObserveKnown,
                ObserveLoad, ObserveRecord, Progress, tableVars
  <2>. QED
    BY <2>1, <2>2
<1>5. ASSUME NEW p \in Goroutines, SetStatus(p) \/ SaveTask(p) \/ StoreFails(p) PROVE Goal
  BY <1>5 DEF SetStatus, StatusLock, StatusFind, StatusInstall, SaveTask, StoreFails, tableVars
<1>6. CASE LinkUp \/ LinkDown \/ Tick \/ Restart \/ UNCHANGED vars
  BY <1>6 DEF LinkUp, LinkDown, Tick, Restart, vars, tableVars
<1>. QED
  BY <1>1, <1>2, <1>3, <1>4, <1>5, <1>6 DEF Next

(* A stored observation is one of the action it is stored for.             *)
RowsNamed == \A a \in Actions : obsRows[a] # None => obsRows[a].action = a

(* SaveObservation removes no observation, and keeps each under its        *)
(* action.                                                                 *)
LEMMA TablesGrow ==
  ASSUME HubInv, HubAssumption, RowsNamed, [Next]_vars
  PROVE  /\ \A a \in Actions : obsRows[a] # None => obsRows'[a] # None
         /\ RowsNamed'
<1>1. None \notin Observations
  BY DEF HubAssumption
<1>2. ASSUME NEW x \in Observations, obsRows' = ObservationSaved(x)
      PROVE  /\ \A a \in Actions : obsRows[a] # None => obsRows'[a] # None
             /\ RowsNamed'
  <2>1. /\ \A a \in Actions \ {x.action} : obsRows'[a] = obsRows[a]
        /\ obsRows'[x.action] \in Observations
    BY <1>2, ObservationSavedTyped DEF HubInv
  <2>2. x.action \in Actions /\ obsRows[x.action] \in Observations \cup {None}
    BY ObservationTyped DEF HubInv, TypeOK
  <2>3. obsRows'[x.action].action = x.action
    <3>1. obsRows'[x.action] = IF obsRows[x.action] = None THEN x
                               ELSE [obsRows[x.action] EXCEPT !.verdict = x.verdict]
      BY <1>2, <2>2 DEF ObservationSaved, HubInv, TypeOK
    <3>2. obsRows[x.action] # None =>
            [obsRows[x.action] EXCEPT !.verdict = x.verdict].action = obsRows[x.action].action
      BY <2>2 DEF Observations
    <3>. QED
      BY <2>2, <3>1, <3>2 DEF RowsNamed
  <2>. QED
    BY <1>1, <2>1, <2>2, <2>3 DEF RowsNamed
<1>3. CASE obsRows' = obsRows
  BY <1>3 DEF RowsNamed
<1>. QED
  BY <1>2, <1>3, ObservationsWritten

-------------------------------------------------------------------------------
(* ReplayNotResent: a call whose key was answered before it began is still *)
(* on its way to the lookup that will find the answer, and the answer is   *)
(* still there.                                                            *)
Answerable(w) ==
  frame[w].settled =>
    /\ pc[w] \in {"begin", "lookup", "stored"} \/ (pc[w] = "save" /\ frame[w].then = "lookup")
    /\ StoredFor(KeyOf[frame[w].action]) # {}

AllAnswerable == RowsNamed /\ \A w \in Dispatchers : Answerable(w)

(* A call that moves on with its action keeps its answer, for the tables   *)
(* only grow.                                                              *)
LEMMA StillAnswerable ==
  ASSUME HubInv, HubAssumption, AllAnswerable, [Next]_vars, NEW w \in Dispatchers,
         frame[w].settled, frame'[w].action = frame[w].action,
         pc'[w] \in {"begin", "lookup", "stored"} \/ (pc'[w] = "save" /\ frame'[w].then = "lookup")
  PROVE  Answerable(w)'
<1>1. PICK a \in actionRows : KeyOf[a] = KeyOf[frame[w].action] /\ obsRows[a] # None
  BY DEF AllAnswerable, Answerable, StoredFor
<1>2. a \in Actions /\ a \in actionRows' /\ obsRows'[a] # None
  BY <1>1, ObservationsWritten, TablesGrow DEF HubInv, TypeOK, AllAnswerable
<1>3. StoredFor(KeyOf[frame[w].action])' # {}
  BY <1>1, <1>2 DEF StoredFor
<1>. QED
  BY <1>3 DEF Answerable

(* One call, whatever it does next.                                        *)
LEMMA CallAnswerable ==
  ASSUME HubInv, HubAssumption, AllAnswerable, [Next]_vars, NEW w \in Dispatchers, Call(w),
         frame'[w].settled
  PROVE  Answerable(w)'
<1>1. w \in Goroutines /\ TypeOK /\ Answerable(w) /\ frame[w] \in Frame
  BY DEF Goroutines, HubInv, AllAnswerable, TypeOK
<1>2. ASSUME NEW x \in Observations \cup {None}, Return(w, x)
      PROVE  FALSE
  BY <1>1, <1>2, ReturnsAt
<1>3. ASSUME frame[w].settled, frame'[w].action = frame[w].action,
             pc'[w] = "stored" \/ (pc'[w] = "save" /\ frame'[w].then = "lookup")
      PROVE  Answerable(w)'
  BY <1>3, StillAnswerable
<1>4. ASSUME NEW a \in Actions, NEW u \in Users, StartCall(w, a, u)
      PROVE  Answerable(w)'
  <2>. DEFINE f == [NoFrame EXCEPT !.action = a, !.user = u, !.at = clock,
                                   !.settled = StoredFor(KeyOf[a]) # {}]
  <2>1. f.action = a /\ f.settled = (StoredFor(KeyOf[a]) # {})
    BY DEF NoFrame
  <2>2. pc'[w] = "begin" /\ frame'[w] = f
    BY <1>1, <1>4 DEF StartCall, Goto, TypeOK
  <2>3. StoredFor(KeyOf[a])' = StoredFor(KeyOf[a])
    BY <1>4 DEF StartCall, tableVars, StoredFor
  <2>. HIDE DEF f
  <2>4. KeyOf[frame'[w].action] = KeyOf[a] /\ StoredFor(KeyOf[a])' # {}
    BY <2>1, <2>2, <2>3
  <2>5. StoredFor(KeyOf[frame[w].action])' # {}
    BY <2>4 DEF StoredFor
  <2>. QED
    BY <2>2, <2>5 DEF Answerable
<1>5. CASE BeginTask(w)
  <2>1. ASSUME NEW t, NEW s, SaveLater(w, t, s, "lookup")
        PROVE  Answerable(w)'
    BY <1>1, <1>3, <2>1, Saves
  <2>. QED
    BY <1>2, <1>5, <2>1 DEF BeginTask
<1>6. CASE DispatchLookup(w)
  <2>1. frame[w].action \in Actions
    BY <1>1, <1>6, FilledHere DEF DispatchLookup, At, FilledIn, Begun
  <2>2. completed[KeyOf[frame[w].action]] \in Observations \cup {None}
    BY <1>1, <2>1 DEF TypeOK, HubAssumption
  <2>3. Goto(w, "stored") /\ UNCHANGED frame
    BY <1>2, <1>6, <2>2 DEF DispatchLookup
  <2>. QED
    BY <1>1, <1>3, <2>3 DEF Goto, TypeOK
<1>7. CASE DispatchStored(w)
  <2>1. StoredFor(KeyOf[frame[w].action]) \subseteq Observations
    BY <1>1, StoredForTyped
  <2>2. StoredFor(KeyOf[frame[w].action]) = {} /\ UNCHANGED frame
    BY <1>2, <1>7, <2>1 DEF DispatchStored
  <2>. QED
    BY <1>1, <2>2 DEF Answerable
<1>8. CASE DispatchRegister(w)
  <2>1. frame' = [frame EXCEPT ![w].link = link]
    BY <1>2, <1>8 DEF DispatchRegister
  <2>2. frame'[w].settled = frame[w].settled
    BY <1>1, <2>1 DEF TypeOK, Frame
  <2>. QED
    BY <1>1, <1>8, <2>2 DEF Answerable, DispatchRegister, At
<1>9. CASE InFlightStep(w)
  BY <1>1, <1>9, FlyingOn DEF Answerable, InFlight
<1>10. CASE DispatchReturn(w)
  <2>1. frame[w].obs \in Observations \cup {None}
    BY <1>1 DEF Frame
  <2>. QED
    BY <1>2, <1>10, <2>1 DEF DispatchReturn
<1>11. ASSUME NEW s \in Ends, EndAfterDispatch(w, s)
       PROVE  Answerable(w)'
  <2>1. ~frame'[w].settled
    BY <1>1, <1>11 DEF EndAfterDispatch, TypeOK, NoFrame
  <2>. QED
    BY <2>1
<1>. QED
  BY <1>4, <1>5, <1>6, <1>7, <1>8, <1>9, <1>10, <1>11 DEF Call, InFlightStep

(* Every step keeps AllAnswerable.                                         *)
LEMMA AnswerableStep ==
  ASSUME HubInv, HubAssumption, AllAnswerable, [Next]_vars
  PROVE  AllAnswerable'
<1>. SUFFICES ASSUME NEW w \in Dispatchers, frame'[w].settled
              PROVE  Answerable(w)'
  BY TablesGrow DEF AllAnswerable, Answerable
<1>1. w \in Goroutines /\ Answerable(w) /\ RowsNamed
  BY DEF Goroutines, AllAnswerable
<1>2. ASSUME frame[w].settled, frame'[w].action = frame[w].action,
             pc'[w] \in {"begin", "lookup", "stored"} \/ (pc'[w] = "save" /\ frame'[w].then = "lookup")
      PROVE  Answerable(w)'
  BY <1>2, StillAnswerable
<1>3. ASSUME pc'[w] = pc[w], frame'[w] = frame[w]
      PROVE  Answerable(w)'
  BY <1>1, <1>2, <1>3 DEF Answerable
<1>4. ASSUME NEW p \in Goroutines \ {w}, Others(p) PROVE Answerable(w)'
  BY <1>1, <1>3, <1>4 DEF Others
<1>5. ASSUME NEW p \in Goroutines, SetStatus(p) \/ SaveTask(p) \/ StoreFails(p)
      PROVE  Answerable(w)'
  <2>1. CASE p # w
    BY <1>4, <1>5, <2>1, SettingOn, SavingOn, FailingOn
  <2>2. CASE SetStatus(w)
    BY <1>1, <2>2, SettingOn DEF Answerable, Setting
  <2>3. CASE SaveTask(w)
    <3>1. pc[w] = "save"
      BY <2>3 DEF SaveTask, At
    <3>2. frame[w].settled /\ pc'[w] = frame[w].then /\ frame'[w].action = frame[w].action
      BY <1>1, <2>3, SavingOn
    <3>. QED
      BY <1>1, <1>2, <3>1, <3>2 DEF Answerable
  <2>4. CASE StoreFails(w)
    BY <1>1, <2>4, FailingOn DEF Answerable
  <2>. QED
    BY <1>5, <2>1, <2>2, <2>3, <2>4
<1>6. ASSUME NEW v \in Dispatchers, Call(v)
      PROVE  Answerable(w)'
  <2>1. v # w => Others(v)
    BY <1>6, CallAlone DEF HubInv
  <2>. QED
    BY <1>4, <1>6, <2>1, CallAnswerable DEF Goroutines
<1>7. ASSUME NEW p \in Runs \cup Stops \cup Readers, End(p) \/ Stop(p) \/ Read(p)
      PROVE  Answerable(w)'
  BY <1>4, <1>7, NoCall DEF HubAssumption, Goroutines
<1>8. CASE Restart
  <2>1. ~frame'[w].settled
    BY <1>1, <1>8 DEF Restart, NoFrame
  <2>. QED
    BY <2>1
<1>9. CASE LinkUp \/ LinkDown \/ Tick \/ UNCHANGED vars
  <2>1. UNCHANGED <<pc, frame>>
    BY <1>9 DEF LinkUp, LinkDown, Tick, vars
  <2>. QED
    BY <1>3, <2>1
<1>. QED
  BY <1>5, <1>6, <1>7, <1>8, <1>9 DEF Next

(* A retry that starts after its key has an observation in the store is    *)
(* answered from the store or the cache, or fails: it is never sent to the *)
(* device, whichever process began it and however many calls run.          *)
THEOREM AnsweredNotResent == Spec => []ReplayNotResent
<1>1. Init => AllAnswerable
  BY DEF Init, AllAnswerable, RowsNamed, Answerable, NoFrame, Goroutines
<1>2. HubInv /\ AllAnswerable /\ [Next]_vars => AllAnswerable'
  BY AnswerableStep, HubAssumption
<1>3. AllAnswerable => ReplayNotResent
  BY DEF AllAnswerable, Answerable, ReplayNotResent, Registering, InFlight
<1>. QED
  BY <1>1, <1>2, <1>3, HubInvariant, PTL DEF Spec

-------------------------------------------------------------------------------
(* ReturnedIsDurable.  An observation the device sent is in the store      *)
(* wherever the Hub has it but in the reader that is about to store it: in *)
(* the channel of a call, in the cache, in a local.                        *)
Durable(x) ==
  x # None /\ x.verdict \notin {"CANCELLED", "EXPIRED"} => obsRows[x.action] # None

HeldDurable(p) == pc[p] # "obsStore" => Durable(frame[p].obs)

AllDurable ==
  /\ RowsNamed
  /\ \A w \in Dispatchers : Durable(chan[w])
  /\ \A k \in Keys : Durable(completed[k])
  /\ \A p \in Goroutines : HeldDurable(p)

(* What was durable is.                                                    *)
LEMMA DurableStays ==
  ASSUME HubInv, HubAssumption, RowsNamed, [Next]_vars, NEW x \in Observations \cup {None}, Durable(x)
  PROVE  Durable(x)'
<1>1. x # None => x.action \in Actions
  BY ObservationTyped
<1>. QED
  BY <1>1, TablesGrow DEF Durable

(* A step of p that hands on what was in the Hub, or made up a verdict.    *)
LEMMA HandedOn ==
  ASSUME HubInv, HubAssumption, AllDurable, [Next]_vars, NEW p \in Goroutines, Others(p),
         \A w \in Dispatchers : chan'[w] \in {chan[w], None, frame[p].obs},
         chan' # chan => pc[p] # "obsStore",
         HeldDurable(p)',
         \A k \in Keys : Durable(completed[k])'
  PROVE  AllDurable'
<1>1. ASSUME NEW x \in Observations \cup {None}, Durable(x) PROVE Durable(x)'
  BY <1>1, DurableStays DEF AllDurable
<1>2. ASSUME NEW q \in Goroutines PROVE HeldDurable(q)'
  <2>1. CASE q # p
    <3>1. pc'[q] = pc[q] /\ frame'[q] = frame[q]
      BY <1>2, <2>1 DEF Others
    <3>2. frame[q].obs \in Observations \cup {None} /\ HeldDurable(q)
      BY DEF HubInv, TypeOK, Frame, AllDurable
    <3>. QED
      BY <1>1, <3>1, <3>2 DEF HeldDurable, Durable
  <2>. QED
    BY <2>1
<1>3. ASSUME NEW w \in Dispatchers PROVE Durable(chan[w])'
  <2>1. chan[w] \in Observations \cup {None} /\ Durable(chan[w])
        /\ frame[p].obs \in Observations \cup {None}
    BY DEF HubInv, TypeOK, Frame, AllDurable
  <2>2. CASE chan'[w] \in {chan[w], None}
    BY <1>1, <2>1, <2>2 DEF Durable
  <2>3. CASE chan'[w] = frame[p].obs /\ chan' # chan
    <3>1. Durable(frame[p].obs)
      BY <2>3 DEF AllDurable, HeldDurable
    <3>. QED
      BY <1>1, <2>1, <2>3, <3>1 DEF Durable
  <2>. QED
    BY <2>2, <2>3
<1>. QED
  BY <1>2, <1>3, TablesGrow DEF AllDurable

(* The goroutine that moves holds on to what it had, or takes what is      *)
(* durable.                                                                *)
LEMMA HeldAfter ==
  ASSUME HubInv, HubAssumption, AllDurable, [Next]_vars, NEW p \in Goroutines,
         NEW x \in Observations \cup {None}, Durable(x), frame'[p].obs = x
  PROVE  HeldDurable(p)'
  BY DurableStays DEF HeldDurable, AllDurable, Durable

(* The goroutine that moves keeps its observation, or drops it.            *)
LEMMA HeldKept ==
  ASSUME HubInv, HubAssumption, AllDurable, [Next]_vars, NEW p \in Goroutines,
         pc[p] # "obsStore" \/ frame'[p].obs = None, frame'[p].obs \in {frame[p].obs, None}
  PROVE  HeldDurable(p)'
<1>1. frame[p].obs \in Observations \cup {None} /\ None \in Observations \cup {None} /\ Durable(None)
  BY DEF HubInv, TypeOK, Frame, Durable
<1>2. CASE frame'[p].obs = None
  BY <1>2 DEF HeldDurable, Durable
<1>3. CASE frame'[p].obs = frame[p].obs /\ pc[p] # "obsStore"
  BY <1>1, <1>3, HeldAfter DEF AllDurable, HeldDurable
<1>. QED
  BY <1>2, <1>3

(* A step of a call.                                                       *)
LEMMA CallDurable ==
  ASSUME HubInv, HubAssumption, AllDurable, [Next]_vars, NEW w \in Dispatchers, Call(w)
  PROVE  AllDurable'
<1>1. /\ w \in Goroutines /\ TypeOK /\ frame[w] \in Frame /\ Others(w)
      /\ frame[w].obs \in Observations \cup {None}
  BY CallAlone DEF Goroutines, HubInv, TypeOK, Frame
<1>2. UNCHANGED completed => \A k \in Keys : Durable(completed[k])'
  <2>1. ASSUME UNCHANGED completed, NEW k \in Keys PROVE Durable(completed[k])'
    BY <2>1, DurableStays DEF AllDurable, Durable, HubInv, TypeOK
  <2>. QED
    BY <2>1
<1>3. ASSUME UNCHANGED <<chan, completed>>, HeldDurable(w)' PROVE AllDurable'
  BY <1>1, <1>2, <1>3, HandedOn
<1>4. ASSUME UNCHANGED <<chan, completed>>, frame'[w].obs \in {frame[w].obs, None}, pc[w] # "obsStore"
      PROVE  AllDurable'
  BY <1>1, <1>3, <1>4, HeldKept
<1>5. ASSUME UNCHANGED <<chan, completed>>, NEW x \in Observations \cup {None}, Durable(x), Return(w, x)
      PROVE  AllDurable'
  BY <1>1, <1>3, <1>5, ReturnsAt, HeldAfter
<1>6. ASSUME UNCHANGED <<chan, completed>>, NEW t, NEW s, NEW label, SaveLater(w, t, s, label), pc[w] # "obsStore"
      PROVE  AllDurable'
  BY <1>1, <1>4, <1>6, Saves
<1>7. Durable(None)
  BY DEF Durable
<1>8. ASSUME NEW a \in Actions, NEW u \in Users, StartCall(w, a, u) PROVE AllDurable'
  <2>1. frame'[w].obs = None
    BY <1>1, <1>8 DEF StartCall, TypeOK, NoFrame
  <2>. QED
    BY <1>4, <1>8, <2>1 DEF StartCall, hubVars, At
<1>9. CASE BeginTask(w)
  BY <1>5, <1>6, <1>7, <1>9 DEF BeginTask, At
<1>10. CASE DispatchLookup(w)
  <2>1. frame[w].action \in Actions
    BY <1>1, <1>10, FilledHere DEF DispatchLookup, At, FilledIn, Begun
  <2>. DEFINE hit == completed[KeyOf[frame[w].action]]
  <2>2. hit \in Observations \cup {None} /\ Durable(hit)
    BY <1>1, <2>1 DEF TypeOK, HubAssumption, AllDurable
  <2>. QED
    BY <1>4, <1>5, <1>10, <2>2 DEF DispatchLookup, At, hubVars
<1>11. CASE DispatchStored(w)
  <2>1. \A x \in StoredFor(KeyOf[frame[w].action]) : x \in Observations /\ Durable(x)
    BY <1>1, StoredForTyped DEF StoredFor, Durable, AllDurable, RowsNamed, TypeOK
  <2>. QED
    BY <1>4, <1>5, <1>11, <2>1 DEF DispatchStored, At, hubVars
<1>12. CASE DispatchRegister(w)
  <2>1. frame' = [frame EXCEPT ![w].link = link] => frame'[w].obs = frame[w].obs
    BY <1>1 DEF TypeOK, Frame
  <2>. QED
    BY <1>4, <1>5, <1>7, <1>12, <2>1 DEF DispatchRegister, At
<1>13. CASE DispatchSaveAction(w) \/ DispatchSend(w) \/ ExpireStore(w)
  BY <1>4, <1>13 DEF DispatchSaveAction, DispatchSend, ExpireStore, At, hubVars
<1>14. CASE DispatchRecord(w) \/ ExpireRecord(w)
  BY <1>6, <1>14 DEF DispatchRecord, ExpireRecord, At
<1>15. CASE DispatchReceive(w)
  <2>1. chan[w] \in Observations \cup {None} /\ Durable(chan[w]) /\ UNCHANGED completed
    BY <1>1, <1>15 DEF TypeOK, AllDurable, DispatchReceive
  <2>2. /\ \A v \in Dispatchers : chan'[v] \in {chan[v], None, frame[w].obs}
        /\ pc[w] # "obsStore"
    BY <1>1, <1>15 DEF DispatchReceive, TypeOK, At
  <2>3. frame'[w].obs \in {chan[w], frame[w].obs}
    BY <1>1, <1>15 DEF DispatchReceive, TypeOK, Frame
  <2>4. HeldDurable(w)'
    BY <1>1, <2>1, <2>2, <2>3, HeldAfter, HeldKept
  <2>. QED
    BY <1>1, <1>2, <2>1, <2>2, <2>4, HandedOn
<1>16. CASE DispatchPublish(w)
  <2>. DEFINE a == frame[w].action
              x == frame[w].obs
  <2>1. a \in Actions /\ KeyOf[a] \in Keys
    BY <1>1, <1>16, FilledHere DEF DispatchPublish, At, FilledIn, Begun, InFlight, HubAssumption
  <2>2. Durable(x) /\ pc[w] # "obsStore" /\ UNCHANGED chan
    BY <1>1, <1>16 DEF DispatchPublish, At, AllDurable, HeldDurable
  <2>3. \A k \in Keys : completed'[k] \in {x, None, completed[k]}
    BY <1>1, <1>16, <2>1 DEF DispatchPublish, TypeOK
  <2>4. \A k \in Keys : Durable(completed[k])'
    <3>1. ASSUME NEW y \in Observations \cup {None}, Durable(y) PROVE Durable(y)'
      BY <3>1, DurableStays DEF AllDurable
    <3>2. \A k \in Keys : completed[k] \in Observations \cup {None} /\ Durable(completed[k])
      BY <1>1 DEF TypeOK, AllDurable
    <3>. QED
      BY <1>1, <1>7, <2>2, <2>3, <3>1, <3>2 DEF Durable
  <2>5. frame'[w].obs = frame[w].obs
    BY <1>1, <1>16, Saves DEF DispatchPublish
  <2>6. HeldDurable(w)'
    BY <1>1, <2>2, <2>5, HeldKept
  <2>. QED
    BY <1>1, <2>2, <2>4, <2>6, HandedOn
<1>17. ASSUME NEW v \in {"CANCELLED", "EXPIRED"}, DispatchGiveUp(w, v) PROVE AllDurable'
  <2>1. frame'[w].obs = frame[w].obs
    BY <1>1, <1>17 DEF DispatchGiveUp, TypeOK, Frame
  <2>. QED
    BY <1>4, <1>17, <2>1 DEF DispatchGiveUp, At, hubVars
<1>18. CASE ExpireCache(w)
  <2>1. /\ frame[w].action \in Actions /\ KeyOf[frame[w].action] \in Keys
        /\ frame[w].want \in {"CANCELLED", "EXPIRED"}
    BY <1>1, <1>18, FilledHere DEF ExpireCache, At, FilledIn, Begun, InFlight, Expiring, HubAssumption
  <2>2. \A k \in Keys : completed'[k] \in {Verdict(w), completed[k]}
    BY <1>1, <1>18, <2>1 DEF ExpireCache, TypeOK
  <2>3. Verdict(w).verdict \in {"CANCELLED", "EXPIRED"}
    BY <2>1 DEF Verdict
  <2>4. \A k \in Keys : Durable(completed[k])'
    <3>1. ASSUME NEW y \in Observations \cup {None}, Durable(y) PROVE Durable(y)'
      BY <3>1, DurableStays DEF AllDurable
    <3>2. \A k \in Keys : completed[k] \in Observations \cup {None} /\ Durable(completed[k])
      BY <1>1 DEF TypeOK, AllDurable
    <3>. QED
      BY <2>2, <2>3, <3>1, <3>2 DEF Durable
  <2>5. HeldDurable(w)' /\ UNCHANGED chan /\ pc[w] # "obsStore"
    BY <1>1, <1>18, HeldKept DEF ExpireCache, At
  <2>. QED
    BY <1>1, <2>4, <2>5, HandedOn
<1>19. CASE DispatchReturn(w)
  <2>1. Durable(frame[w].obs)
    BY <1>1, <1>19 DEF DispatchReturn, At, AllDurable, HeldDurable
  <2>. QED
    BY <1>1, <1>5, <1>19, <2>1 DEF DispatchReturn
<1>20. ASSUME NEW s \in Ends, EndAfterDispatch(w, s) PROVE AllDurable'
  <2>1. frame'[w].obs = None
    BY <1>1, <1>20 DEF EndAfterDispatch, TypeOK, NoFrame
  <2>. QED
    BY <1>4, <1>20, <2>1 DEF EndAfterDispatch, hubVars, At
<1>. QED
  BY <1>8, <1>9, <1>10, <1>11, <1>12, <1>13, <1>14, <1>15, <1>16, <1>17, <1>18, <1>19, <1>20 DEF Call

(* A step of a reader: what it delivers it has stored.                     *)
LEMMA ReadDurable ==
  ASSUME HubInv, HubAssumption, AllDurable, [Next]_vars, NEW r \in Readers, Read(r)
  PROVE  AllDurable'
<1>1. /\ r \in Goroutines /\ TypeOK /\ frame[r] \in Frame /\ Others(r) /\ UNCHANGED completed
  BY NoCall DEF Goroutines, HubInv, TypeOK
<1>2. \A k \in Keys : Durable(completed[k])'
  BY <1>1, DurableStays DEF AllDurable, Durable, TypeOK
<1>3. ASSUME UNCHANGED chan, HeldDurable(r)' PROVE AllDurable'
  BY <1>1, <1>2, <1>3, HandedOn
<1>4. ASSUME UNCHANGED chan, frame'[r].obs \in {frame[r].obs, None}, pc[r] # "obsStore" PROVE AllDurable'
  BY <1>1, <1>3, <1>4, HeldKept
<1>5. ASSUME Leave(r) PROVE HeldDurable(r)'
  BY <1>1, <1>5, LeavesAt, HeldKept DEF NoFrame
<1>6. ASSUME NEW x \in Reports, ReadObservation(r, x) PROVE AllDurable'
  <2>1. pc'[r] = "obsStore"
    BY <1>1, <1>6 DEF ReadObservation, Goto, TypeOK
  <2>. QED
    BY <1>3, <1>6, <2>1 DEF HeldDurable, ReadObservation, hubVars
<1>7. CASE ObserveStore(r)
  <2>. DEFINE x == frame[r].obs
  <2>1. UNCHANGED chan
    BY <1>7 DEF ObserveStore, hubVars
  <2>2. CASE Leave(r)
    BY <1>3, <1>5, <2>1, <2>2
  <2>3. CASE obsRows' = ObservationSaved(x) /\ Goto(r, "obsPending") /\ UNCHANGED frame
    <3>1. x \in Observations
      BY <1>1, <1>7, FilledHere DEF ObserveStore, At, FilledIn, Observing, Frame
    <3>2. obsRows'[x.action] # None
      BY <1>1, <2>3, <3>1, ObservationSavedTyped DEF HubAssumption
    <3>3. HeldDurable(r)'
      BY <1>1, <2>3, <3>2 DEF HeldDurable, Durable
    <3>. QED
      BY <1>3, <2>1, <3>3
  <2>. QED
    BY <1>7, <2>2, <2>3 DEF ObserveStore
<1>8. CASE ObservePending(r)
  <2>1. frame'[r].obs = frame[r].obs
    BY <1>1, <1>8 DEF ObservePending, TypeOK, Frame
  <2>. QED
    BY <1>4, <1>8, <2>1 DEF ObservePending, At, hubVars
<1>9. CASE ObserveDeliver(r)
  <2>1. \A w \in Dispatchers : chan'[w] \in {chan[w], frame[r].obs}
    BY <1>1, <1>9 DEF ObserveDeliver, TypeOK
  <2>2. pc[r] # "obsStore" /\ HeldDurable(r)'
    BY <1>5, <1>9 DEF ObserveDeliver, At
  <2>. QED
    BY <1>1, <1>2, <2>1, <2>2, HandedOn
<1>10. CASE ObserveKnown(r) \/ ObserveLoad(r)
  <2>1. UNCHANGED chan /\ pc[r] # "obsStore"
    BY <1>10 DEF ObserveKnown, ObserveLoad, At, hubVars
  <2>2. Leave(r) \/ UNCHANGED frame
    BY <1>10 DEF ObserveKnown, ObserveLoad
  <2>. QED
    BY <1>3, <1>4, <1>5, <2>1, <2>2
<1>11. CASE ObserveRecord(r)
  <2>1. UNCHANGED chan /\ pc[r] # "obsStore"
    BY <1>11 DEF ObserveRecord, At
  <2>2. CASE Leave(r)
    BY <1>3, <1>5, <2>1, <2>2
  <2>3. ASSUME NEW t, NEW s, SaveLater(r, t, s, "idle") PROVE AllDurable'
    BY <1>1, <1>4, <2>1, <2>3, Saves
  <2>. QED
    BY <1>11, <2>2, <2>3 DEF ObserveRecord
<1>12. ASSUME NEW a \in Actions, Progress(r, a) PROVE AllDurable'
  BY <1>4, <1>12 DEF Progress, At
<1>. QED
  BY <1>6, <1>7, <1>8, <1>9, <1>10, <1>11, <1>12 DEF Read

(* A step of a run or of Stop: neither has an observation.                 *)
LEMMA StopDurable ==
  ASSUME HubInv, HubAssumption, AllDurable, [Next]_vars, NEW p \in Runs \cup Stops, End(p) \/ Stop(p)
  PROVE  AllDurable'
<1>1. /\ p \in Goroutines /\ TypeOK /\ frame[p] \in Frame /\ Others(p) /\ UNCHANGED completed
  BY NoCall DEF Goroutines, HubInv, TypeOK
<1>2. \A k \in Keys : Durable(completed[k])'
  BY <1>1, DurableStays DEF AllDurable, Durable, TypeOK
<1>3. UNCHANGED chan /\ pc[p] # "obsStore"
  BY DEF End, EndWithoutDispatch, Stop, StopBegin, StopCancelTask, StopSnapshot, StopSend, hubVars, At
<1>4. Leave(p) => frame'[p].obs = None
  BY <1>1, LeavesAt DEF NoFrame
<1>5. frame'[p].obs \in {frame[p].obs, None}
  <2>1. ASSUME NEW t, NEW s, EndWithoutDispatch(p, t, s) PROVE frame'[p].obs = frame[p].obs
    BY <1>1, <2>1 DEF EndWithoutDispatch, TypeOK, Frame
  <2>2. ASSUME NEW u, StopBegin(p, u) PROVE frame'[p].obs = frame[p].obs
    BY <1>1, <2>2 DEF StopBegin, TypeOK, Frame
  <2>3. ASSUME NEW t, StopCancelTask(p, t) PROVE frame'[p].obs = frame[p].obs
    BY <1>1, <2>3 DEF StopCancelTask, TypeOK, Frame
  <2>4. CASE StopSnapshot(p)
    <3>1. Leave(p) \/ \E z : frame' = [frame EXCEPT ![p].targets = z]
      BY <2>4 DEF StopSnapshot
    <3>. QED
      BY <1>1, <1>4, <3>1 DEF TypeOK, Frame
  <2>5. ASSUME NEW a, StopSend(p, a) PROVE frame'[p].obs \in {frame[p].obs, None}
    BY <1>1, <1>4, <2>5 DEF StopSend, TypeOK, Frame
  <2>. QED
    BY <2>1, <2>2, <2>3, <2>4, <2>5 DEF Stop, End
<1>. QED
  BY <1>1, <1>2, <1>3, <1>5, HeldKept, HandedOn

(* Every step keeps AllDurable.                                            *)
LEMMA DurableStep ==
  ASSUME HubInv, HubAssumption, AllDurable, [Next]_vars
  PROVE  AllDurable'
<1>1. ASSUME NEW w \in Dispatchers, Call(w) PROVE AllDurable'
  BY <1>1, CallDurable
<1>2. ASSUME NEW p \in Runs \cup Stops, End(p) \/ Stop(p) PROVE AllDurable'
  BY <1>2, StopDurable
<1>3. ASSUME NEW r \in Readers, Read(r) PROVE AllDurable'
  BY <1>3, ReadDurable
<1>4. ASSUME UNCHANGED completed PROVE \A k \in Keys : Durable(completed[k])'
  BY <1>4, DurableStays DEF AllDurable, Durable, HubInv, TypeOK
<1>5. ASSUME NEW p \in Goroutines, SetStatus(p) \/ SaveTask(p) \/ StoreFails(p) PROVE AllDurable'
  <2>1. Others(p) /\ UNCHANGED <<chan, completed>>
    BY <1>5, SettingOn, SavingOn, FailingOn DEF hubVars
  <2>2. /\ frame'[p].obs \in {frame[p].obs, None}
        /\ pc[p] # "obsStore" \/ frame'[p].obs = None
    BY <1>5, SettingOn, SavingOn, FailingOn DEF Setting, SaveTask, At
  <2>. QED
    BY <1>4, <2>1, <2>2, HeldKept, HandedOn
<1>6. CASE Restart
  <2>1. /\ \A w \in Dispatchers : chan'[w] = None
        /\ \A k \in Keys : completed'[k] = None
        /\ \A p \in Goroutines : frame'[p] = NoFrame
    BY <1>6 DEF Restart
  <2>. QED
    BY <2>1, TablesGrow DEF AllDurable, HeldDurable, Durable, NoFrame
<1>7. CASE LinkUp \/ LinkDown \/ Tick \/ UNCHANGED vars
  <2>1. UNCHANGED <<hubVars, tableVars, pc, frame>>
    BY <1>7 DEF LinkUp, LinkDown, Tick, vars
  <2>. QED
    BY <2>1 DEF AllDurable, RowsNamed, HeldDurable, Durable, hubVars, tableVars
<1>. QED
  BY <1>1, <1>2, <1>3, <1>5, <1>6, <1>7 DEF Next

(* An observation Dispatch returns, if a device sent it, is in the store,  *)
(* whatever happened to the process, the store or the link meanwhile.      *)
THEOREM ReturnedFromStore == Spec => []ReturnedIsDurable
<1>1. Init => AllDurable
  BY DEF Init, AllDurable, RowsNamed, HeldDurable, Durable, NoFrame
<1>2. HubInv /\ AllDurable /\ [Next]_vars => AllDurable'
  BY DurableStep, HubAssumption
<1>3. AllDurable => ReturnedIsDurable
  BY DEF AllDurable, HeldDurable, Durable, ReturnedIsDurable, Goroutines
<1>. QED
  BY <1>1, <1>2, <1>3, HubInvariant, PTL DEF Spec

-------------------------------------------------------------------------------
(* OutcomeAgreement and FirstOutcomeStays: in one process memory and store *)
(* agree, as long as SetTaskStatus installs no session it has read from    *)
(* the store.                                                              *)
NeverReinstalled == \A p \in Goroutines : pc[p] # "install"

OneProcess == restarts = 0

(* How the status of a session goes on: not from an outcome, nor to none.  *)
GoesOn(old, new) == new = old \/ (old \notin Terminal /\ new # Absent)

(* A clone that has just been made is of the session as it is.             *)
CloneOf(p) ==
  pc'[p] = "save" =>
    \/ pc[p] = "save" /\ frame'[p] = frame[p]
    \/ frame'[p].task \in Tasks /\ frame'[p].copy = sessions'[frame'[p].task]

StatusesGoOn ==
  /\ \A t \in Tasks : GoesOn(sessions[t].status, sessions'[t].status)
  /\ \A p \in Goroutines : CloneOf(p)

(* A step of p that leaves the sessions, and is not on its way to a save.  *)
LEMMA QuietGoesOn ==
  ASSUME NEW p \in Goroutines, Others(p), pc'[p] # "save", UNCHANGED sessions
  PROVE  StatusesGoOn
  BY DEF StatusesGoOn, GoesOn, CloneOf, Others

(* One that saves what it has made of a session.                           *)
LEMMA SaveGoesOn ==
  ASSUME TypeOK, NEW p \in Goroutines, NEW t \in Tasks, NEW s, NEW label, SaveLater(p, t, s, label),
         GoesOn(sessions[t].status, s.status)
  PROVE  StatusesGoOn
<1>1. frame'[p].task = t /\ frame'[p].copy = s /\ sessions' = [sessions EXCEPT ![t] = s] /\ sessions'[t] = s
  BY DEF SaveLater, TypeOK, Frame
<1>2. Others(p)  BY Saves
<1>3. \A u \in Tasks : GoesOn(sessions[u].status, sessions'[u].status)
  BY <1>1 DEF GoesOn, TypeOK
<1>4. \A q \in Goroutines : CloneOf(q)
  BY <1>1, <1>2 DEF CloneOf, Others
<1> QED  BY <1>3, <1>4 DEF StatusesGoOn

(* One that resumes, and may put back a session as it is.                  *)
LEMMA ResumeGoesOn ==
  ASSUME HubInv, NEW p \in Goroutines, pc[p] \in {"save"} \cup Setting, Resume(p), sessions' = sessions
  PROVE  StatusesGoOn
<1>1. frame[p].then \in Dispatching \cup Leaving
  BY FilledHere DEF FilledIn, Setting
<1>2. Others(p) /\ pc'[p] # "save"
  BY <1>1, ResumesAt DEF HubInv, Dispatching, Leaving
<1> QED  BY <1>2, QuietGoesOn

(* What the handlers make of a status goes on from it.                     *)
LEMMA RulesGoOn ==
  ASSUME NEW c \in TaskStatuses \cup {Absent}, NEW v \in ObservationStatuses
  PROVE  GoesOn(c, Executing(c)) /\ GoesOn(c, AfterObservation(c, v))
  BY StatusRules DEF GoesOn

(* A Dispatch call.                                                        *)
LEMMA CallGoesOn ==
  ASSUME HubInv, HubAssumption, NEW w \in Dispatchers, Call(w)
  PROVE  StatusesGoOn
<1>1. w \in Goroutines /\ TypeOK  BY DEF Goroutines, HubInv
<1>2. \A t \in Tasks : sessions[t] \in Session /\ sessions[t].status \in TaskStatuses \cup {Absent}
  BY <1>1 DEF TypeOK, Session
<1>3. CASE BeginTask(w)
  <2> DEFINE t == TaskOf[frame[w].action]
             s == sessions[t]
             f == frame[w]
  <2>1. f.action \in Actions /\ t \in Tasks
    BY <1>1, <1>3, FilledHere DEF BeginTask, At, FilledIn, Begun, HubAssumption
  <2>2. CASE Return(w, None) /\ UNCHANGED sessions
    BY <1>1, <2>2, ReturnsAt, QuietGoesOn
  <2>3. CASE SaveLater(w, t, [s EXCEPT !.user = f.user, !.at = f.at], "lookup")
    <3>1. [s EXCEPT !.user = f.user, !.at = f.at].status = s.status
      BY <1>2, <2>1 DEF Session
    <3>2. GoesOn(s.status, [s EXCEPT !.user = f.user, !.at = f.at].status)
      BY <3>1 DEF GoesOn
    <3> QED  BY <1>1, <2>1, <2>3, <3>2, SaveGoesOn
  <2>4. CASE /\ s.status = Absent
             /\ SaveLater(w, t, [user |-> f.user, status |-> "WAITING_ACTION",
                                 seq |-> 0, at |-> f.at, obs |-> {}], "lookup")
    <3>1. GoesOn(s.status, "WAITING_ACTION")
      BY <2>4 DEF GoesOn, Terminal, Absent
    <3> QED  BY <1>1, <2>1, <2>4, <3>1, SaveGoesOn
  <2> QED  BY <1>3, <2>2, <2>3, <2>4 DEF BeginTask
<1>4. CASE DispatchRecord(w)
  <2> DEFINE a == frame[w].action
             t == TaskOf[a]
  <2>1. a \in Actions /\ t \in Tasks
    BY <1>1, <1>4, FilledHere DEF DispatchRecord, At, FilledIn, Begun, InFlight, HubAssumption
  <2>2. ActionRecorded(sessions[t], a).status = Executing(sessions[t].status)
    BY <1>2, <2>1 DEF ActionRecorded, Session
  <2>3. GoesOn(sessions[t].status, ActionRecorded(sessions[t], a).status)
    BY <1>2, <2>1, <2>2, RulesGoOn DEF ObservationStatuses
  <2> QED  BY <1>1, <1>4, <2>1, <2>3, SaveGoesOn DEF DispatchRecord
<1>5. ASSUME NEW x \in Observations, frame[w].action \in Actions,
             SaveLater(w, TaskOf[frame[w].action],
                       ObservationRecorded(sessions[TaskOf[frame[w].action]], x), "release")
      PROVE  StatusesGoOn
  <2> DEFINE t == TaskOf[frame[w].action]
  <2>1. t \in Tasks /\ x.verdict \in ObservationStatuses  BY <1>5, ObservationTyped DEF HubAssumption
  <2>2. ObservationRecorded(sessions[t], x).status = AfterObservation(sessions[t].status, x.verdict)
    BY <1>2, <2>1 DEF ObservationRecorded, Session
  <2>3. GoesOn(sessions[t].status, ObservationRecorded(sessions[t], x).status)
    BY <1>2, <2>1, <2>2, RulesGoOn
  <2> QED  BY <1>1, <1>5, <2>1, <2>3, SaveGoesOn
<1>6. CASE DispatchPublish(w)
  <2>1. frame[w].action \in Actions /\ frame[w].obs \in Observations
    BY <1>1, <1>6, FilledHere DEF DispatchPublish, At, FilledIn, Begun, InFlight, TypeOK, Frame
  <2> QED  BY <1>5, <1>6, <2>1 DEF DispatchPublish
<1>7. CASE ExpireRecord(w)
  <2>1. frame[w].action \in Actions /\ Verdict(w) \in Observations
    BY <1>1, <1>7, FilledHere, VerdictTyped DEF ExpireRecord, At, FilledIn, Begun, InFlight, Expiring
  <2> QED  BY <1>5, <1>7, <2>1 DEF ExpireRecord
<1>8. CASE \/ DispatchLookup(w) \/ DispatchStored(w) \/ DispatchRegister(w) \/ DispatchReturn(w)
  <2>1. UNCHANGED sessions
    BY <1>8 DEF DispatchLookup, DispatchStored, DispatchRegister, DispatchReturn, hubVars
  <2>2. Others(w) /\ pc'[w] # "save"
    BY <1>1, <1>8 DEF DispatchLookup, DispatchStored, DispatchRegister, DispatchReturn, Return, Goto,
                      Others, TypeOK
  <2> QED  BY <1>1, <2>1, <2>2, QuietGoesOn
<1>9. CASE \/ \E a \in Actions, u \in Users : StartCall(w, a, u)
           \/ \E status \in Ends : EndAfterDispatch(w, status)
  <2>1. UNCHANGED sessions /\ Others(w) /\ pc'[w] # "save"
    BY <1>1, <1>9 DEF StartCall, EndAfterDispatch, Goto, Others, TypeOK, hubVars
  <2> QED  BY <1>1, <2>1, QuietGoesOn
<1>10. CASE \/ DispatchSaveAction(w) \/ DispatchSend(w) \/ DispatchReceive(w)
            \/ \E verdict \in {"CANCELLED", "EXPIRED"} : DispatchGiveUp(w, verdict)
            \/ ExpireStore(w) \/ ExpireCache(w)
  <2>1. UNCHANGED sessions
    BY <1>10 DEF DispatchSaveAction, DispatchSend, DispatchReceive, DispatchGiveUp, ExpireStore,
                 ExpireCache, hubVars
  <2>2. Others(w) /\ pc'[w] # "save"
    BY <1>1, <1>10 DEF DispatchSaveAction, DispatchSend, DispatchReceive, DispatchGiveUp, ExpireStore,
                       ExpireCache, Goto, Others, TypeOK
  <2> QED  BY <1>1, <2>1, <2>2, QuietGoesOn
<1> QED  BY <1>3, <1>4, <1>6, <1>7, <1>8, <1>9, <1>10 DEF Call

(* SetTaskStatus, but for the installation of what was read.               *)
LEMMA SettingGoesOn ==
  ASSUME HubInv, HubAssumption, NEW p \in Goroutines, StatusLock(p) \/ StatusFind(p)
  PROVE  StatusesGoOn
<1>1. TypeOK  BY DEF HubInv
<1>2. CASE StatusFind(p)
  <2>1. CASE Resume(p)
    BY <1>1, <1>2, <2>1, ResumeGoesOn DEF StatusFind, At, Setting, hubVars
  <2>2. CASE ~Resume(p)
    <3>1. Others(p) /\ pc'[p] # "save" /\ UNCHANGED sessions
      BY <1>1, <1>2, <2>2 DEF StatusFind, Goto, Others, TypeOK, hubVars
    <3> QED  BY <3>1, QuietGoesOn
  <2> QED  BY <2>1, <2>2
<1>3. CASE StatusLock(p) /\ sessions[frame[p].task].status = Absent
  <2>1. Others(p) /\ pc'[p] # "save" /\ UNCHANGED sessions
    BY <1>1, <1>3 DEF StatusLock, Goto, Others, TypeOK, hubVars
  <2> QED  BY <2>1, QuietGoesOn
<1>4. CASE StatusLock(p) /\ sessions[frame[p].task].status # Absent
  <2> DEFINE t == frame[p].task
             s == sessions[t]
             status == frame[p].want
             new == [s EXCEPT !.status = status, !.at = clock]
  <2>1. t \in Tasks /\ status \in TaskStatuses /\ pc[p] \in Setting
    BY <1>4, FilledHere DEF StatusLock, At, FilledIn, Setting
  <2>2. s \in Session  BY <1>1, <2>1 DEF TypeOK
  <2>3. ApplyStatus(p, s)  BY <1>4 DEF StatusLock
  <2>4. CASE CanTransition(s.status, status) /\ SaveLater(p, t, new, frame[p].then)
    <3>1. new.status = status  BY <2>2 DEF Session
    <3>2. status # Absent  BY <2>1 DEF TaskStatuses, Terminal, Absent
    <3>3. GoesOn(s.status, new.status)  BY <2>4, <3>1, <3>2 DEF CanTransition, GoesOn
    <3> QED  BY <1>1, <2>1, <2>4, <3>3, SaveGoesOn
  <2>5. CASE sessions' = [sessions EXCEPT ![t] = s] /\ Resume(p)
    <3>1. sessions' = sessions  BY <1>1, <2>1, <2>5 DEF TypeOK
    <3> QED  BY <2>1, <2>5, <3>1, ResumeGoesOn
  <2> QED  BY <2>3, <2>4, <2>5 DEF ApplyStatus
<1> QED  BY <1>2, <1>3, <1>4

(* Runs and stops.                                                         *)
LEMMA StopGoesOn ==
  ASSUME HubInv, HubAssumption, NEW p \in Goroutines, End(p) \/ Stop(p)
  PROVE  StatusesGoOn
<1>1. TypeOK  BY DEF HubInv
<1>2. CASE End(p) \/ (\E u \in Users : StopBegin(p, u)) \/ (\E t \in Tasks : StopCancelTask(p, t))
  <2>1. Others(p) /\ pc'[p] # "save" /\ UNCHANGED sessions
    BY <1>1, <1>2 DEF End, EndWithoutDispatch, StopBegin, StopCancelTask, Goto, Others, TypeOK, hubVars
  <2> QED  BY <2>1, QuietGoesOn
<1>3. CASE StopSnapshot(p)
  <2>1. Others(p) /\ pc'[p] # "save" /\ UNCHANGED sessions
    BY <1>1, <1>3 DEF StopSnapshot, Leave, Goto, Others, TypeOK, hubVars
  <2> QED  BY <2>1, QuietGoesOn
<1>4. CASE \E a \in Actions : StopSend(p, a)
  <2>1. Others(p) /\ pc'[p] # "save" /\ UNCHANGED sessions
    BY <1>1, <1>4 DEF StopSend, At, Leave, Goto, Others, TypeOK, hubVars
  <2> QED  BY <2>1, QuietGoesOn
<1> QED  BY <1>2, <1>3, <1>4 DEF Stop

(* Observations and progress of the device.                                *)
LEMMA ReadGoesOn ==
  ASSUME HubInv, HubAssumption, NEW r \in Goroutines, Read(r)
  PROVE  StatusesGoOn
<1>1. TypeOK  BY DEF HubInv
<1>2. \A t \in Tasks : sessions[t] \in Session /\ sessions[t].status \in TaskStatuses \cup {Absent}
  BY <1>1 DEF TypeOK, Session
<1>3. ASSUME pc[r] \in Observing  PROVE frame[r].obs \in Observations /\ TaskOf[frame[r].obs.action] \in Tasks
  <2>1. frame[r].obs \in Observations
    BY <1>1, <1>3, FilledHere DEF FilledIn, Observing, TypeOK, Frame
  <2> QED  BY <2>1, ObservationTyped DEF HubAssumption
<1>4. CASE ObserveLoad(r)
  <2> DEFINE t == TaskOf[frame[r].obs.action]
  <2>1. t \in Tasks  BY <1>3, <1>4 DEF ObserveLoad, At, Observing
  <2>2. /\ Others(r) /\ pc'[r] # "save"
        /\ sessions' = [sessions EXCEPT ![t] = IF @.status = Absent THEN TaskFound(t) ELSE @]
    BY <1>1, <1>4 DEF ObserveLoad, Goto, Others, TypeOK
  <2>3. \A u \in Tasks : GoesOn(sessions[u].status, sessions'[u].status)
    <3>1. Absent \notin Terminal  BY DEF Absent, Terminal
    <3> QED  BY <1>1, <2>1, <2>2, <3>1 DEF GoesOn, TypeOK
  <2>4. \A p \in Goroutines : CloneOf(p)  BY <2>2 DEF CloneOf, Others
  <2> QED  BY <2>3, <2>4 DEF StatusesGoOn
<1>5. CASE ObserveRecord(r)
  <2> DEFINE x == frame[r].obs
             t == TaskOf[x.action]
  <2>1. t \in Tasks /\ x \in Observations /\ x.verdict \in ObservationStatuses
    BY <1>3, <1>5, ObservationTyped DEF ObserveRecord, At, Observing
  <2>2. CASE Leave(r) /\ UNCHANGED sessions
    <3>1. Others(r) /\ pc'[r] # "save"  BY <1>1, <2>2, LeavesAt
    <3> QED  BY <2>2, <3>1, QuietGoesOn
  <2>3. CASE SaveLater(r, t, ObservationRecorded(sessions[t], x), "idle")
    <3>1. ObservationRecorded(sessions[t], x).status = AfterObservation(sessions[t].status, x.verdict)
      BY <1>2, <2>1 DEF ObservationRecorded, Session
    <3>2. GoesOn(sessions[t].status, ObservationRecorded(sessions[t], x).status)
      BY <1>2, <2>1, <3>1, RulesGoOn
    <3> QED  BY <1>1, <2>1, <2>3, <3>2, SaveGoesOn
  <2> QED  BY <1>5, <2>2, <2>3 DEF ObserveRecord
<1>6. CASE \E a \in Actions : Progress(r, a)
  <2> PICK a \in Actions : Progress(r, a)  BY <1>6
  <2> DEFINE t == TaskOf[a]
  <2>1. t \in Tasks /\ sessions' = [sessions EXCEPT ![t] = ProgressRecorded(@)] /\ UNCHANGED <<pc, frame>>
    BY DEF Progress, HubAssumption
  <2>2. ProgressRecorded(sessions[t]).status = Executing(sessions[t].status)
    BY <1>2, <2>1 DEF ProgressRecorded, Session
  <2>3. GoesOn(sessions[t].status, Executing(sessions[t].status))
    BY <1>2, <2>1, RulesGoOn DEF ObservationStatuses
  <2>4. \A u \in Tasks : GoesOn(sessions[u].status, sessions'[u].status)
    BY <1>1, <2>1, <2>2, <2>3 DEF GoesOn, TypeOK
  <2>5. \A p \in Goroutines : CloneOf(p)  BY <2>1 DEF CloneOf
  <2> QED  BY <2>4, <2>5 DEF StatusesGoOn
<1>7. CASE \/ \E x \in Reports : ReadObservation(r, x)
           \/ ObservePending(r)
  <2>1. Others(r) /\ pc'[r] # "save" /\ UNCHANGED sessions
    BY <1>1, <1>7 DEF ReadObservation, ObservePending, Goto, Others, TypeOK, hubVars
  <2> QED  BY <2>1, QuietGoesOn
<1>8. CASE ObserveStore(r) \/ ObserveDeliver(r) \/ ObserveKnown(r)
  <2>1. Others(r) /\ pc'[r] # "save" /\ UNCHANGED sessions
    BY <1>1, <1>8 DEF ObserveStore, ObserveDeliver, ObserveKnown, Leave, Goto, Others, TypeOK, hubVars
  <2> QED  BY <2>1, QuietGoesOn
<1> QED  BY <1>4, <1>5, <1>6, <1>7, <1>8 DEF Read

(* A save, and a failing statement.                                        *)
LEMMA SavingGoesOn ==
  ASSUME HubInv, HubAssumption, NEW p \in Goroutines, SaveTask(p) \/ StoreFails(p)
  PROVE  StatusesGoOn
<1>1. TypeOK /\ UNCHANGED sessions  BY DEF HubInv, SaveTask, StoreFails, hubVars
<1>2. CASE Resume(p) /\ pc[p] \in {"save"} \cup Setting
  BY <1>1, <1>2, ResumeGoesOn
<1>3. CASE Return(p, None) \/ Leave(p)
  <2>1. Others(p) /\ pc'[p] # "save"  BY <1>1, <1>3, ReturnsAt, LeavesAt
  <2> QED  BY <1>1, <2>1, QuietGoesOn
<1>4. CASE (Goto(p, "release") \/ Goto(p, "expireCache") \/ Goto(p, "obsRecord")) /\ UNCHANGED frame
  <2>1. Others(p) /\ pc'[p] # "save"  BY <1>1, <1>4 DEF Goto, Others, TypeOK
  <2> QED  BY <1>1, <2>1, QuietGoesOn
<1> QED  BY <1>2, <1>3, <1>4 DEF SaveTask, StoreFails, At, Setting

(* Every step, but the installation of a session and a restart.            *)
LEMMA StatusesGoOnStep ==
  ASSUME HubInv, HubAssumption, [Next]_vars, NeverReinstalled, ~Restart
  PROVE  StatusesGoOn
<1>1. ASSUME NEW w \in Dispatchers, Call(w)  PROVE StatusesGoOn  BY <1>1, CallGoesOn
<1>2. ASSUME NEW p \in Runs, End(p)  PROVE StatusesGoOn  BY <1>2, StopGoesOn DEF Goroutines
<1>3. ASSUME NEW p \in Stops, Stop(p)  PROVE StatusesGoOn  BY <1>3, StopGoesOn DEF Goroutines
<1>4. ASSUME NEW r \in Readers, Read(r)  PROVE StatusesGoOn  BY <1>4, ReadGoesOn DEF Goroutines
<1>5. ASSUME NEW p \in Goroutines, SetStatus(p) \/ SaveTask(p) \/ StoreFails(p)  PROVE StatusesGoOn
  <2>1. ~StatusInstall(p)  BY DEF NeverReinstalled, StatusInstall, At
  <2> QED  BY <1>5, <2>1, SettingGoesOn, SavingGoesOn DEF SetStatus
<1>6. CASE LinkUp \/ LinkDown \/ Tick \/ UNCHANGED vars
  <2>1. UNCHANGED <<sessions, pc, frame>>  BY <1>6 DEF LinkUp, LinkDown, Tick, vars, hubVars
  <2> QED  BY <2>1 DEF StatusesGoOn, GoesOn, CloneOf
<1> QED  BY <1>1, <1>2, <1>3, <1>4, <1>5, <1>6 DEF Next

(* In one process an outcome that was set in memory stays, under whatever  *)
(* is set, observed or dispatched later, by any number of goroutines, as   *)
(* long as no session is put back from the store.                          *)
THEOREM FirstOutcomeKept == Spec /\ []NeverReinstalled => FirstOutcomeStays
<1>1. HubInv /\ NeverReinstalled /\ [Next]_vars =>
        [restarts' = restarts =>
           \A t \in Tasks : sessions[t].status \in Terminal => sessions'[t].status = sessions[t].status]_vars
  <2> SUFFICES ASSUME HubInv, NeverReinstalled, [Next]_vars, restarts' = restarts
               PROVE  \A t \in Tasks : sessions[t].status \in Terminal => sessions'[t].status = sessions[t].status
    OBVIOUS
  <2>1. ~Restart  BY DEF Restart, HubInv, TypeOK
  <2>2. StatusesGoOn  BY <2>1, StatusesGoOnStep, HubAssumption
  <2> QED  BY <2>2 DEF StatusesGoOn, GoesOn
<1> QED  BY <1>1, HubInvariant, PTL DEF Spec, FirstOutcomeStays

(* A status that is in the store, or on its way there, has its session:    *)
(* with the same outcome, if it is one.                                    *)
Follows(t, status) ==
  status # Absent => sessions[t].status # Absent /\ (status \in Terminal => sessions[t].status = status)

AgreeInv ==
  /\ \A t \in Tasks : Follows(t, rows[t].status)
  /\ \A p \in Goroutines : pc[p] = "save" => Follows(frame[p].task, frame[p].copy.status)

(* Within a process, what is on its way to the store goes on agreeing with *)
(* memory, as long as no session is put back from the store.               *)
LEMMA AgreeStep ==
  ASSUME HubInv, HubAssumption, AgreeInv, NeverReinstalled, [Next]_vars, ~Restart
  PROVE  AgreeInv'
<1>1. StatusesGoOn /\ TypeOK  BY StatusesGoOnStep DEF HubInv
<1>2. Absent \notin Terminal  BY DEF Absent, Terminal
<1>3. ASSUME NEW t \in Tasks, NEW status, Follows(t, status)
      PROVE  status # Absent => /\ sessions'[t].status # Absent
                                /\ status \in Terminal => sessions'[t].status = status
  BY <1>1, <1>2, <1>3 DEF Follows, StatusesGoOn, GoesOn
<1>4. ASSUME NEW t \in Tasks  PROVE Follows(t, rows[t].status)'
  <2>1. CASE rows' = rows
    BY <1>3, <2>1 DEF AgreeInv, Follows
  <2>2. ASSUME NEW p \in Goroutines, SaveTask(p)  PROVE Follows(t, rows[t].status)'
    <3> DEFINE u == frame[p].task
               s == frame[p].copy
    <3>1. u \in Tasks /\ s \in Session /\ s.status # Absent /\ pc[p] = "save"
      BY <1>1, <2>2, FilledHere DEF SaveTask, At, FilledIn, TypeOK, Frame
    <3>2. rows[u] \in Row /\ rows' = [rows EXCEPT ![u] = TaskSaved(rows[u], s)]
      BY <1>1, <2>2, <3>1 DEF SaveTask, TypeOK
    <3>3. CASE t # u
      <4>1. rows'[t] = rows[t]  BY <1>1, <3>2, <3>3 DEF TypeOK
      <4> QED  BY <1>3, <4>1 DEF AgreeInv, Follows
    <3>4. CASE t = u
      <4>1. rows'[t] = TaskSaved(rows[u], s)  BY <1>1, <3>1, <3>2, <3>4 DEF TypeOK
      <4>2. rows'[t].status = rows[u].status \/ rows'[t].status = s.status
        BY <3>1, <3>2, <4>1, SaveSettles
      <4>3. Follows(u, rows[u].status) /\ Follows(u, s.status)  BY <3>1 DEF AgreeInv
      <4> QED  BY <1>3, <3>1, <3>4, <4>2, <4>3 DEF Follows
    <3> QED  BY <3>3, <3>4
  <2> QED  BY <2>1, <2>2, RowsWritten
<1>5. ASSUME NEW p \in Goroutines, pc'[p] = "save"  PROVE Follows(frame[p].task, frame[p].copy.status)'
  <2>1. CASE pc[p] = "save" /\ frame'[p] = frame[p]
    <3>1. frame[p].task \in Tasks /\ Follows(frame[p].task, frame[p].copy.status)
      BY <2>1, FilledHere DEF FilledIn, AgreeInv
    <3> QED  BY <1>3, <2>1, <3>1 DEF Follows
  <2>2. CASE frame'[p].copy = sessions'[frame'[p].task]
    BY <2>2 DEF Follows
  <2> QED  BY <1>1, <1>5, <2>1, <2>2 DEF StatusesGoOn, CloneOf
<1> QED  BY <1>4, <1>5 DEF AgreeInv

(* In one process memory and store agree on every outcome, for any number  *)
(* of goroutines, clones on their way in any order, and lost writes, as    *)
(* long as no session is put back from the store.                          *)
THEOREM OutcomesAgree == Spec /\ []OneProcess /\ []NeverReinstalled => []OutcomeAgreement
<1>1. Init => AgreeInv
  BY DEF Init, AgreeInv, Follows, NoRow, Absent
<1>2. HubInv /\ AgreeInv /\ OneProcess /\ OneProcess' /\ NeverReinstalled /\ [Next]_vars => AgreeInv'
  <2>1. OneProcess /\ OneProcess' => ~Restart  BY DEF OneProcess, Restart
  <2> QED  BY <2>1, AgreeStep, HubAssumption
<1>3. AgreeInv => OutcomeAgreement
  <2>1. Absent \notin Terminal  BY DEF Absent, Terminal
  <2> QED  BY <2>1 DEF AgreeInv, Follows, OutcomeAgreement
<1> QED  BY <1>1, <1>2, <1>3, HubInvariant, PTL DEF Spec

(* Where every outcome comes after a call of Dispatch, or from Stop, a     *)
(* status is only set of a task that has its session, so that none is read *)
(* from the store.                                                         *)
Present(t) == sessions[t].status # Absent

Called(label, then) == label \in Begun \ {"begin"} \/ (label = "save" /\ then \in Dispatching)

Known(p) ==
  /\ pc[p] \notin {"find", "install"}
  /\ pc[p] = "set" => Present(frame[p].task)
  /\ \A t \in frame[p].todo : Present(t)
  /\ p \in Dispatchers /\ Called(pc[p], frame[p].then) => Present(TaskOf[frame[p].action])

AllKnown == \A p \in Goroutines : Known(p)

(* What is left to show after a step of p is about p.                      *)
LEMMA KnownAfter ==
  ASSUME TypeOK, HubAssumption, LocalsFilled, AllKnown, StatusesGoOn, NEW p \in Goroutines, Others(p), Known(p)'
  PROVE  AllKnown'
<1>1. \A t \in Tasks : Present(t) => Present(t)'
  <2>1. Absent \notin Terminal  BY DEF Absent, Terminal
  <2> QED  BY <2>1 DEF StatusesGoOn, GoesOn, Present
<1>2. ASSUME NEW q \in Goroutines \ {p}  PROVE Known(q)'
  <2>1. pc'[q] = pc[q] /\ frame'[q] = frame[q] /\ Known(q) /\ frame[q] \in Frame /\ FilledIn(pc[q], frame[q])
    BY <1>2 DEF Others, AllKnown, TypeOK, LocalsFilled
  <2>2. frame[q].todo \subseteq Tasks  BY <2>1 DEF Frame
  <2>3. pc[q] = "set" => frame[q].task \in Tasks  BY <2>1 DEF FilledIn, Setting
  <2>4. Called(pc[q], frame[q].then) => TaskOf[frame[q].action] \in Tasks
    <3>1. Called(pc[q], frame[q].then) => frame[q].action \in Actions
      BY <2>1 DEF Called, FilledIn, Dispatching
    <3> QED  BY <3>1 DEF HubAssumption
  <2> QED  BY <1>1, <2>1, <2>2, <2>3, <2>4 DEF Known
<1> QED  BY <1>2 DEF AllKnown

(* A goroutine that drops its locals, or goes on with a call.              *)
LEMMA DroppedKnown ==
  ASSUME NEW p, frame'[p].todo = {}, pc'[p] \in {"idle", "ended", "begin"}
  PROVE  Known(p)'
  BY DEF Known, Called, Begun, InFlight

(* The task of a call's action stays in memory, for no step forgets it.    *)
LEMMA CallKnown ==
  ASSUME TypeOK, HubAssumption, LocalsFilled, StatusesGoOn, NEW w \in Dispatchers, Known(w), Called(pc[w], frame[w].then),
         frame'[w].action = frame[w].action, frame'[w].todo \subseteq frame[w].todo,
         Called(pc'[w], frame'[w].then)
  PROVE  Known(w)'
<1>1. \A t \in Tasks : Present(t) => Present(t)'
  <2>1. Absent \notin Terminal  BY DEF Absent, Terminal
  <2> QED  BY <2>1 DEF StatusesGoOn, GoesOn, Present
<1>2. frame[w] \in Frame /\ FilledIn(pc[w], frame[w])
  BY DEF TypeOK, LocalsFilled, Goroutines
<1>3. frame[w].todo \subseteq Tasks  BY <1>2 DEF Frame
<1>4. TaskOf[frame[w].action] \in Tasks
  <2>1. frame[w].action \in Actions  BY <1>2 DEF Called, FilledIn, Dispatching
  <2> QED  BY <2>1 DEF HubAssumption
<1>5. pc'[w] \notin {"find", "install", "set"}
  BY DEF Called, Begun, InFlight
<1> QED  BY <1>1, <1>3, <1>4, <1>5 DEF Known

(* A goroutine that goes on after a save, or saves what it has made of a   *)
(* session, keeps what it has to do.                                       *)
LEMMA ToDo ==
  ASSUME TypeOK, NEW p \in Goroutines
  PROVE  /\ \A t, s, label : SaveLater(p, t, s, label) => frame'[p].todo = frame[p].todo
         /\ Resume(p) => frame'[p].todo = frame[p].todo \/ frame'[p].todo = {}
         /\ \A x : Return(p, x) => frame'[p].todo = {} /\ frame'[p].action = frame[p].action
         /\ Leave(p) => frame'[p].todo = {}
<1>1. frame[p] \in Frame  BY DEF TypeOK
<1>2. ASSUME NEW t, NEW s, NEW label, SaveLater(p, t, s, label)  PROVE frame'[p].todo = frame[p].todo
  BY <1>1, <1>2 DEF TypeOK, Frame, SaveLater
<1>3. ASSUME Resume(p)  PROVE frame'[p].todo = frame[p].todo \/ frame'[p].todo = {}
  <2>1. frame'[p] = Resumed(p)  BY <1>3, Resumes DEF Moved
  <2> QED  BY <1>1, <2>1 DEF Resumed, Frame, NoFrame
<1>4. ASSUME NEW x, Return(p, x)  PROVE frame'[p].todo = {} /\ frame'[p].action = frame[p].action
  BY <1>4 DEF TypeOK, Return, NoFrame
<1>5. ASSUME Leave(p)  PROVE frame'[p].todo = {}
  BY <1>5 DEF TypeOK, Leave, NoFrame
<1> QED  BY <1>2, <1>3, <1>4, <1>5

(* Every step of Dispatch, of any call, keeps that.                        *)
LEMMA CallKnownStep ==
  ASSUME HubInv, HubAssumption, StatusesGoOn, AllKnown, NEW w \in Dispatchers, Call(w)
  PROVE  AllKnown'
<1>1. w \in Goroutines /\ TypeOK /\ LocalsFilled /\ Known(w) /\ frame[w] \in Frame
  BY DEF Goroutines, HubInv, AllKnown, TypeOK
<1>2. CASE \E a \in Actions, u \in Users : StartCall(w, a, u)
  <2>1. Others(w) /\ pc'[w] = "begin" /\ frame'[w].todo = {}
    BY <1>1, <1>2 DEF StartCall, Goto, Others, TypeOK, NoFrame
  <2> QED  BY <1>1, <2>1, DroppedKnown, KnownAfter
<1>3. CASE BeginTask(w)
  <2> DEFINE t == TaskOf[frame[w].action]
             s == sessions[t]
             f == frame[w]
  <2>1. f.action \in Actions /\ t \in Tasks
    BY <1>1, <1>3, FilledHere DEF BeginTask, At, FilledIn, Begun, HubAssumption
  <2>2. CASE Return(w, None) /\ UNCHANGED sessions /\ s.status # Absent
    <3>1. Others(w) /\ pc'[w] = "done"  BY <1>1, <2>2, ReturnsAt
    <3>2. frame'[w].todo = {} /\ frame'[w].action = f.action  BY <1>1, <2>2, ToDo
    <3>3. sessions'[t].status # Absent  BY <2>2
    <3>4. Known(w)'  BY <3>1, <3>2, <3>3 DEF Known, Present
    <3> QED  BY <1>1, <3>1, <3>4, KnownAfter
  <2>3. ASSUME NEW n, SaveLater(w, t, n, "lookup"), n.status # Absent  PROVE AllKnown'
    <3>1. Others(w) /\ pc'[w] = "save" /\ frame'[w].action = f.action  BY <1>1, <2>3, Saves
    <3>2. frame'[w].todo = f.todo  BY <1>1, <2>3, ToDo
    <3>3. sessions'[t].status # Absent  BY <1>1, <2>1, <2>3 DEF SaveLater, TypeOK
    <3>4. \A u \in f.todo : sessions'[u].status # Absent
      <4>1. Absent \notin Terminal  BY DEF Absent, Terminal
      <4>2. f.todo \subseteq Tasks  BY <1>1 DEF Frame
      <4> QED  BY <1>1, <4>1, <4>2 DEF StatusesGoOn, GoesOn, Present, Known
    <3>5. Known(w)'  BY <3>1, <3>2, <3>3, <3>4 DEF Known, Present
    <3> QED  BY <1>1, <3>1, <3>5, KnownAfter
  <2>4. CASE s.status # Absent /\ SaveLater(w, t, [s EXCEPT !.user = f.user, !.at = f.at], "lookup")
    <3>1. [s EXCEPT !.user = f.user, !.at = f.at].status # Absent
      BY <1>1, <2>1, <2>4 DEF TypeOK, Session
    <3> QED  BY <2>3, <2>4, <3>1
  <2>5. CASE SaveLater(w, t, [user |-> f.user, status |-> "WAITING_ACTION",
                              seq |-> 0, at |-> f.at, obs |-> {}], "lookup")
    BY <2>3, <2>5 DEF Absent
  <2> QED  BY <1>3, <2>2, <2>4, <2>5 DEF BeginTask
<1>4. CASE \E status \in Ends : EndAfterDispatch(w, status)
  <2>1. /\ Others(w) /\ pc[w] = "done" /\ pc'[w] = "set" /\ UNCHANGED sessions
        /\ frame'[w].task = TaskOf[frame[w].action] /\ frame'[w].todo = {}
    BY <1>1, <1>4 DEF EndAfterDispatch, At, Goto, Others, TypeOK, NoFrame, hubVars
  <2>2. Present(TaskOf[frame[w].action])  BY <1>1, <2>1 DEF Known, Called, Begun
  <2>3. ~Called(pc'[w], frame'[w].then)  BY <2>1 DEF Called, Begun, InFlight
  <2>4. Known(w)'  BY <2>1, <2>2, <2>3 DEF Known, Present
  <2> QED  BY <1>1, <2>1, <2>4, KnownAfter
<1>5. CASE \/ DispatchLookup(w) \/ DispatchStored(w) \/ DispatchRegister(w) \/ DispatchReturn(w)
  <2>1. Called(pc[w], frame[w].then)
    BY <1>5 DEF DispatchLookup, DispatchStored, DispatchRegister, DispatchReturn, At, Called, Begun, InFlight
  <2>2. /\ Others(w) /\ pc'[w] \in Begun \ {"begin"}
        /\ frame'[w].action = frame[w].action /\ frame'[w].todo \subseteq frame[w].todo
    <3>1. ASSUME NEW x, Return(w, x)
          PROVE  /\ Others(w) /\ pc'[w] \in Begun \ {"begin"}
                 /\ frame'[w].action = frame[w].action /\ frame'[w].todo \subseteq frame[w].todo
      <4>1. frame'[w].todo = {} /\ frame'[w].action = frame[w].action  BY <1>1, <3>1, ToDo
      <4>2. Others(w) /\ pc'[w] = "done"  BY <1>1, <3>1 DEF Return, Goto, Others, TypeOK
      <4> QED  BY <4>1, <4>2 DEF Begun, InFlight
    <3>2. ASSUME Goto(w, "stored") \/ Goto(w, "register"), UNCHANGED frame
          PROVE  /\ Others(w) /\ pc'[w] \in Begun \ {"begin"}
                 /\ frame'[w].action = frame[w].action /\ frame'[w].todo \subseteq frame[w].todo
      BY <1>1, <3>2 DEF Goto, Others, TypeOK, Begun, InFlight
    <3>3. ASSUME Goto(w, "saveAction"), frame' = [frame EXCEPT ![w].link = link]
          PROVE  /\ Others(w) /\ pc'[w] \in Begun \ {"begin"}
                 /\ frame'[w].action = frame[w].action /\ frame'[w].todo \subseteq frame[w].todo
      BY <1>1, <3>3 DEF Goto, Others, TypeOK, Begun, InFlight, Frame
    <3> QED  BY <1>5, <3>1, <3>2, <3>3 DEF DispatchLookup, DispatchStored, DispatchRegister, DispatchReturn
  <2>3. Known(w)'  BY <1>1, <2>1, <2>2, CallKnown DEF Called
  <2> QED  BY <1>1, <2>2, <2>3, KnownAfter
<1>6. CASE InFlightStep(w)
  <2>1. Others(w) /\ Registering(w)' /\ frame'[w].action = frame[w].action /\ pc[w] \in InFlight
    BY <1>1, <1>6, FlyingOn
  <2>2. frame'[w].todo = frame[w].todo
    <3>1. CASE DispatchRecord(w) \/ DispatchPublish(w) \/ ExpireRecord(w)
      BY <1>1, <3>1, ToDo DEF DispatchRecord, DispatchPublish, ExpireRecord
    <3>2. CASE ~(DispatchRecord(w) \/ DispatchPublish(w) \/ ExpireRecord(w))
      BY <1>1, <1>6, <3>2 DEF InFlightStep, DispatchSaveAction, DispatchSend, DispatchReceive, DispatchGiveUp,
                              ExpireStore, ExpireCache, Frame, TypeOK
    <3> QED  BY <3>1, <3>2
  <2>3. Called(pc[w], frame[w].then) /\ Called(pc'[w], frame'[w].then)
    <3>1. pc'[w] = "save" => frame'[w].then \in Dispatching
      <4>1. HubInv'  BY CallStepInv
      <4> QED  BY <1>1, <2>1, <4>1 DEF HubInv, LocalsFilled, FilledIn, Registering, InFlight, Dispatching, Leaving
    <3> QED  BY <2>1, <3>1 DEF Called, Begun, Registering, InFlight
  <2>4. Known(w)'  BY <1>1, <2>1, <2>2, <2>3, CallKnown
  <2> QED  BY <1>1, <2>1, <2>4, KnownAfter
<1> QED  BY <1>2, <1>3, <1>4, <1>5, <1>6 DEF Call, InFlightStep

(* SetTaskStatus finds its session, a save goes on.                        *)
LEMMA SettingKnownStep ==
  ASSUME HubInv, HubAssumption, StatusesGoOn, AllKnown, NEW p \in Goroutines,
         SetStatus(p) \/ SaveTask(p) \/ StoreFails(p)
  PROVE  AllKnown'
<1>1. TypeOK /\ LocalsFilled /\ Known(p) /\ frame[p] \in Frame /\ FilledIn(pc[p], frame[p])
  BY FilledHere DEF HubInv, AllKnown
<1>2. \A t \in frame[p].todo : Present(t)'
  <2>1. Absent \notin Terminal  BY DEF Absent, Terminal
  <2>2. frame[p].todo \subseteq Tasks  BY <1>1 DEF Frame
  <2> QED  BY <1>1, <2>1, <2>2 DEF StatusesGoOn, GoesOn, Present, Known
<1>3. CASE Resume(p) /\ pc[p] \in {"save", "set"}
  <2>1. Others(p) /\ pc'[p] = frame[p].then  BY <1>1, <1>3, ResumesAt
  <2>2. frame'[p].todo = frame[p].todo \/ frame'[p].todo = {}  BY <1>1, <1>3, ToDo
  <2>3. frame[p].then \in Dispatching \cup Leaving /\ (pc[p] = "set" => frame[p].then \in Leaving)
    BY <1>1, <1>3 DEF FilledIn, Setting
  <2>4. CASE frame[p].then \in Leaving
    <3>1. pc'[p] \in {"idle", "ended", "stopNext"}  BY <2>1, <2>4 DEF Leaving
    <3>2. ~Called(pc'[p], frame'[p].then)  BY <3>1 DEF Called, Begun, InFlight
    <3>3. Known(p)'  BY <1>2, <2>2, <3>1, <3>2 DEF Known
    <3> QED  BY <1>1, <2>1, <3>3, KnownAfter
  <2>5. CASE frame[p].then \in Dispatching
    <3>1. pc[p] = "save" /\ frame'[p].action = frame[p].action
      BY <1>1, <1>3, <2>3, <2>5, ResumesAt DEF Dispatching, Leaving
    <3>2. pc'[p] \in {"lookup", "send", "release"}  BY <2>1, <2>5 DEF Dispatching
    <3>3. frame[p].action \in Actions /\ TaskOf[frame[p].action] \in Tasks
      BY <1>1, <2>5, <3>1 DEF FilledIn, HubAssumption
    <3>4. p \in Dispatchers => Present(TaskOf[frame[p].action])'
      <4>1. Absent \notin Terminal  BY DEF Absent, Terminal
      <4> QED  BY <1>1, <2>5, <3>1, <3>3, <4>1 DEF Known, Called, StatusesGoOn, GoesOn, Present
    <3>5. Known(p)'  BY <1>2, <2>2, <3>1, <3>2, <3>4 DEF Known
    <3> QED  BY <1>1, <2>1, <3>5, KnownAfter
  <2> QED  BY <2>3, <2>4, <2>5
<1>4. CASE StatusLock(p)
  <2> DEFINE t == frame[p].task
  <2>1. pc[p] = "set" /\ sessions[t].status # Absent  BY <1>1, <1>4 DEF StatusLock, At, Known, Present
  <2>2. ApplyStatus(p, sessions[t])  BY <1>4, <2>1 DEF StatusLock
  <2>3. CASE Resume(p)  BY <1>3, <2>1, <2>3
  <2>4. ASSUME NEW s, SaveLater(p, t, s, frame[p].then)  PROVE AllKnown'
    <3>1. Others(p) /\ pc'[p] = "save" /\ frame'[p].then = frame[p].then  BY <1>1, <2>4, Saves
    <3>2. frame'[p].todo = frame[p].todo  BY <1>1, <2>4, ToDo
    <3>3. frame[p].then \in Leaving  BY <1>1, <2>1 DEF FilledIn, Setting
    <3>4. ~Called(pc'[p], frame'[p].then)  BY <3>1, <3>3 DEF Called, Begun, InFlight, Dispatching, Leaving
    <3>5. Known(p)'  BY <1>2, <3>1, <3>2, <3>4 DEF Known
    <3> QED  BY <1>1, <3>1, <3>5, KnownAfter
  <2> QED  BY <2>2, <2>3, <2>4 DEF ApplyStatus
<1>5. CASE SaveTask(p)  BY <1>3, <1>5 DEF SaveTask, At
<1>6. CASE StoreFails(p)
  <2>1. CASE Return(p, None) /\ (pc[p] = "stored" \/ (pc[p] = "save" /\ frame[p].then = "lookup"))
    <3>1. Others(p) /\ pc'[p] = "done"  BY <1>1, <2>1, ReturnsAt
    <3>2. frame'[p].todo = {} /\ frame'[p].action = frame[p].action  BY <1>1, <2>1, ToDo
    <3>3. Called(pc[p], frame[p].then) /\ Called(pc'[p], frame'[p].then)
      BY <2>1, <3>1 DEF Called, Begun, Dispatching
    <3>4. Known(p)'
      <4>1. CASE p \in Dispatchers  BY <1>1, <3>2, <3>3, <4>1, CallKnown
      <4>2. CASE p \notin Dispatchers  BY <3>1, <3>2, <4>2 DEF Known
      <4> QED  BY <4>1, <4>2
    <3> QED  BY <1>1, <3>1, <3>4, KnownAfter
  <2>2. CASE /\ UNCHANGED frame
             /\ \/ pc[p] = "saveAction" /\ Goto(p, "release")
                \/ pc[p] = "expireStore" /\ Goto(p, "expireCache")
                \/ pc[p] = "obsLoad" /\ Goto(p, "obsRecord")
    <3>1. /\ Others(p) /\ pc'[p] \in {"release", "expireCache", "obsRecord"}
          /\ pc[p] = "obsLoad" => pc'[p] = "obsRecord"
          /\ pc[p] # "obsLoad" => pc[p] \in InFlight /\ pc'[p] \in InFlight
      BY <1>1, <2>2 DEF Goto, Others, TypeOK, InFlight
    <3>2. CASE p \in Dispatchers /\ pc[p] # "obsLoad"
      <4>1. Known(p)'  BY <1>1, <2>2, <3>1, <3>2, CallKnown DEF Called, Begun
      <4> QED  BY <1>1, <3>1, <4>1, KnownAfter
    <3>3. CASE p \notin Dispatchers \/ pc[p] = "obsLoad"
      <4>1. pc'[p] = "obsRecord" => ~Called(pc'[p], frame'[p].then)  BY DEF Called, Begun, InFlight
      <4>2. Known(p)'  BY <1>2, <2>2, <3>1, <3>3, <4>1 DEF Known
      <4> QED  BY <1>1, <3>1, <4>2, KnownAfter
    <3> QED  BY <3>2, <3>3
  <2>3. CASE Leave(p)
    <3>1. Others(p) /\ pc'[p] = "idle" /\ frame'[p].todo = {}  BY <1>1, <2>3, LeavesAt, ToDo
    <3> QED  BY <1>1, <3>1, DroppedKnown, KnownAfter
  <2>4. CASE Resume(p) /\ pc[p] \in {"save", "find"}
    BY <1>1, <1>3, <2>4 DEF Known
  <2>5. pc[p] # "find"  BY <1>1 DEF Known
  <2> QED  BY <1>6, <2>1, <2>2, <2>3, <2>4, <2>5 DEF StoreFails, At
<1>7. ~StatusFind(p) /\ ~StatusInstall(p)  BY <1>1 DEF Known, StatusFind, StatusInstall, At
<1> QED  BY <1>4, <1>5, <1>6, <1>7 DEF SetStatus

(* Stop cancels what the store lists, which has its session.               *)
LEMMA StopKnownStep ==
  ASSUME HubInv, HubAssumption, AgreeInv, StatusesGoOn, AllKnown, NEW p \in Stops, Stop(p)
  PROVE  AllKnown'
<1>1. p \in Goroutines /\ p \notin Dispatchers /\ TypeOK /\ LocalsFilled /\ Known(p) /\ frame[p] \in Frame
  BY DEF Goroutines, HubInv, AllKnown, TypeOK, HubAssumption
<1>2. UNCHANGED sessions
  BY DEF Stop, StopBegin, StopCancelTask, StopSnapshot, StopSend, hubVars
<1>3. CASE \E u \in Users : StopBegin(p, u)
  <2>1. /\ Others(p) /\ pc'[p] = "stopNext"
        /\ frame'[p].todo \subseteq {t \in Tasks : rows[t].status # Absent}
    BY <1>1, <1>3 DEF StopBegin, Goto, Others, TypeOK, Frame
  <2>2. \A t \in frame'[p].todo : Present(t)'  BY <1>2, <2>1 DEF AgreeInv, Follows, Present
  <2>3. Known(p)'  BY <1>1, <2>1, <2>2 DEF Known
  <2> QED  BY <1>1, <2>1, <2>3, KnownAfter
<1>4. ASSUME NEW t \in Tasks, StopCancelTask(p, t)  PROVE AllKnown'
  <2>1. /\ Others(p) /\ pc'[p] = "set" /\ t \in frame[p].todo
        /\ frame'[p].task = t /\ frame'[p].todo \subseteq frame[p].todo
    BY <1>1, <1>4 DEF StopCancelTask, Goto, Others, TypeOK, Frame
  <2>2. Known(p)'  BY <1>1, <1>2, <2>1 DEF Known, Present
  <2> QED  BY <1>1, <2>1, <2>2, KnownAfter
<1>5. CASE StopSnapshot(p) \/ \E a \in Actions : StopSend(p, a)
  <2>1. CASE Leave(p)
    <3>1. Others(p) /\ pc'[p] = "idle" /\ frame'[p].todo = {}  BY <1>1, <2>1, LeavesAt, ToDo
    <3> QED  BY <1>1, <3>1, DroppedKnown, KnownAfter
  <2>2. CASE ~Leave(p)
    <3>1. /\ Others(p) /\ pc'[p] = "stopSend" /\ frame'[p].todo = frame[p].todo
      <4>1. CASE StopSnapshot(p)
        BY <1>1, <2>2, <4>1 DEF StopSnapshot, Goto, Others, TypeOK, Frame
      <4>2. CASE \E a \in Actions : StopSend(p, a)
        BY <1>1, <2>2, <4>2 DEF StopSend, At, Others, TypeOK, Frame
      <4> QED  BY <1>5, <4>1, <4>2
    <3>2. Known(p)'  BY <1>1, <1>2, <3>1 DEF Known, Present
    <3> QED  BY <1>1, <3>1, <3>2, KnownAfter
  <2> QED  BY <2>1, <2>2
<1> QED  BY <1>3, <1>4, <1>5 DEF Stop

(* So does every step of a reader of a device.                             *)
LEMMA ReadKnownStep ==
  ASSUME HubInv, HubAssumption, StatusesGoOn, AllKnown, NEW r \in Readers, Read(r)
  PROVE  AllKnown'
<1>1. r \in Goroutines /\ r \notin Dispatchers /\ TypeOK /\ LocalsFilled /\ Known(r) /\ frame[r] \in Frame
  BY DEF Goroutines, HubInv, AllKnown, TypeOK, HubAssumption
<1>2. \A t \in frame[r].todo : Present(t)'
  <2>1. Absent \notin Terminal  BY DEF Absent, Terminal
  <2>2. frame[r].todo \subseteq Tasks  BY <1>1 DEF Frame
  <2> QED  BY <1>1, <2>1, <2>2 DEF StatusesGoOn, GoesOn, Present, Known
<1>3. ASSUME Others(r), frame'[r].todo \subseteq frame[r].todo, pc'[r] \notin {"find", "install", "set"}
      PROVE  AllKnown'
  <2>1. Known(r)'  BY <1>1, <1>2, <1>3 DEF Known
  <2> QED  BY <1>1, <1>3, <2>1, KnownAfter
<1>4. CASE Leave(r)
  BY <1>1, <1>3, <1>4, LeavesAt, ToDo
<1>5. CASE ObserveRecord(r) /\ ~Leave(r)
  <2> DEFINE t == TaskOf[frame[r].obs.action]
             s == ObservationRecorded(sessions[t], frame[r].obs)
  <2>1. SaveLater(r, t, s, "idle")  BY <1>5 DEF ObserveRecord
  <2>2. Others(r) /\ pc'[r] = "save" /\ frame'[r].todo = frame[r].todo  BY <1>1, <2>1, Saves, ToDo
  <2> QED  BY <1>3, <2>2
<1>6. CASE \E a \in Actions : Progress(r, a)
  <2>1. UNCHANGED <<pc, frame>>  BY <1>6 DEF Progress
  <2>3. Others(r)  BY <2>1 DEF Others
  <2>4. pc[r] = "idle"  BY <1>6 DEF Progress, At
  <2> QED  BY <1>3, <2>1, <2>3, <2>4
<1>7. CASE ~Leave(r) /\ ~ObserveRecord(r) /\ ~(\E a \in Actions : Progress(r, a))
  <2>1. /\ Others(r) /\ pc'[r] \in Observing
        /\ frame'[r].todo = frame[r].todo
    <3>1. CASE \E x \in Reports : ReadObservation(r, x)
      BY <1>1, <3>1 DEF ReadObservation, Goto, Others, TypeOK, Frame, Observing
    <3>2. CASE ObservePending(r)
      BY <1>1, <3>2 DEF ObservePending, Goto, Others, TypeOK, Frame, Observing
    <3>3. CASE ObserveStore(r) \/ ObserveKnown(r) \/ ObserveLoad(r)
      BY <1>1, <1>7, <3>3 DEF ObserveStore, ObserveKnown, ObserveLoad, Goto, Others, TypeOK, Observing
    <3> QED  BY <1>7, <3>1, <3>2, <3>3 DEF Read, ObserveDeliver
  <2> QED  BY <1>3, <2>1 DEF Observing
<1> QED  BY <1>4, <1>5, <1>6, <1>7

(* Where no run ends a task, every step keeps the agreement: a task that a *)
(* call works on is in memory, so that no session is put back.             *)
LEMMA KnownStep ==
  ASSUME HubInv, HubAssumption, Runs = {}, AgreeInv, AllKnown, [Next]_vars, ~Restart
  PROVE  AgreeInv' /\ AllKnown'
<1>1. NeverReinstalled  BY DEF AllKnown, Known, NeverReinstalled
<1>2. StatusesGoOn /\ AgreeInv'  BY <1>1, StatusesGoOnStep, AgreeStep
<1>3. ASSUME NEW w \in Dispatchers, Call(w)  PROVE AllKnown'  BY <1>2, <1>3, CallKnownStep
<1>4. ASSUME NEW p \in Stops, Stop(p)  PROVE AllKnown'  BY <1>2, <1>4, StopKnownStep
<1>5. ASSUME NEW r \in Readers, Read(r)  PROVE AllKnown'  BY <1>2, <1>5, ReadKnownStep
<1>6. ASSUME NEW p \in Goroutines, SetStatus(p) \/ SaveTask(p) \/ StoreFails(p)  PROVE AllKnown'
  BY <1>2, <1>6, SettingKnownStep
<1>7. CASE LinkUp \/ LinkDown \/ Tick \/ UNCHANGED vars
  <2>1. UNCHANGED <<sessions, pc, frame>>  BY <1>7 DEF LinkUp, LinkDown, Tick, vars, hubVars
  <2>2. ASSUME NEW p \in Goroutines  PROVE Known(p)'
    <3>1. Known(p)  BY DEF AllKnown
    <3>2. pc'[p] = pc[p] /\ frame'[p] = frame[p]  BY <2>1
    <3>3. \A t : Present(t) => sessions'[t].status # Absent  BY <2>1 DEF Present
    <3>4. pc[p] \notin {"find", "install"} /\ (pc[p] = "set" => Present(frame[p].task))
      BY <3>1 DEF Known
    <3>5. \A t \in frame[p].todo : Present(t)  BY <3>1 DEF Known
    <3>6. p \in Dispatchers /\ Called(pc[p], frame[p].then) => Present(TaskOf[frame[p].action])
      BY <3>1 DEF Known
    <3>7. pc'[p] \notin {"find", "install"} /\ (pc'[p] = "set" => sessions'[frame'[p].task].status # Absent)
      BY <3>2, <3>3, <3>4
    <3>8. \A t \in frame'[p].todo : sessions'[t].status # Absent  BY <3>2, <3>3, <3>5
    <3>9. p \in Dispatchers /\ Called(pc'[p], frame'[p].then)
             => sessions'[TaskOf[frame'[p].action]].status # Absent
      BY <3>2, <3>3, <3>6
    <3> QED  BY <3>7, <3>8, <3>9 DEF Known, Present
  <2> QED  BY <1>2, <2>2 DEF AllKnown
<1> QED  BY <1>2, <1>3, <1>4, <1>5, <1>6, <1>7 DEF Next

(* The same without a condition on what happens, where no run ends a task  *)
(* but after a call of Dispatch: for any number of calls, stops and        *)
(* readers, and any number of failing statements.                          *)
THEOREM OutcomesAgreeWithoutRuns ==
  ASSUME Runs = {}
  PROVE  Spec /\ []OneProcess => []OutcomeAgreement /\ FirstOutcomeStays
<1>1. Init => AgreeInv /\ AllKnown
  <2>1. Init => AgreeInv  BY DEF Init, AgreeInv, Follows, NoRow, Absent
  <2>2. Init => AllKnown
    BY DEF Init, AllKnown, Known, NoFrame, Called, Begun, InFlight
  <2> QED  BY <2>1, <2>2
<1>2. HubInv /\ AgreeInv /\ AllKnown /\ OneProcess /\ OneProcess' /\ [Next]_vars => AgreeInv' /\ AllKnown'
  <2>1. OneProcess /\ OneProcess' => ~Restart  BY DEF OneProcess, Restart
  <2> QED  BY <2>1, KnownStep, HubAssumption
<1>3. AgreeInv /\ AllKnown => OutcomeAgreement /\ NeverReinstalled
  <2>1. Absent \notin Terminal  BY DEF Absent, Terminal
  <2> QED  BY <2>1 DEF AgreeInv, Follows, OutcomeAgreement, AllKnown, Known, NeverReinstalled
<1> QED  BY <1>1, <1>2, <1>3, HubInvariant, FirstOutcomeKept, PTL DEF Spec

===============================================================================
