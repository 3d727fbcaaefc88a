------------------------------ MODULE ControlHub ------------------------------
(***************************************************************************)
(* The task side of the control plane Hub (application/service/control):   *)
(* Dispatch calls, the observations and progress the device sends back,    *)
(* task statuses, Stop, and the agent_control_* tables they are saved in.  *)
(*                                                                         *)
(* Four kinds of goroutine share the Hub.  A dispatcher is one BeginTask   *)
(* and Dispatch call, made by a control loop or by POST /actions, and the  *)
(* outcome the loop sets when it is done.  A run is a control loop that    *)
(* ends its task without an action of its own.  A stop is a call of        *)
(* CancelByConversation.  A reader is the goroutine of a device WebSocket. *)
(* A step of the specification is one section under Hub.mu, one statement  *)
(* of the store, one send, or one choice of the select in Dispatch:        *)
(* what the code does between two of them may be interleaved with others.  *)
(*                                                                         *)
(* Devices, their owners and their connections are DeviceRegistry's        *)
(* subject: here one device has a numbered link that is up or down.        *)
(***************************************************************************)
EXTENDS TaskStatus, Naturals, FiniteSets

CONSTANTS
  Tasks, Users, Actions, Keys,
  TaskOf,          \* the task of an action
  KeyOf,           \* its idempotency key
  SeqOf,           \* its sequence number
  Dispatchers,     \* calls of Dispatch
  Runs,            \* control loops that end a task without an action
  Stops,           \* calls of CancelByConversation
  Readers,         \* goroutines of device WebSockets
  Reports,         \* the observations the device may send
  Ends,            \* the outcomes control loops set
  CompletedLimit,  \* completedObservationLimit
  None,            \* a nil pointer, an absent row, an empty string
  MaxClock, MaxLinks, MaxRestarts, MaxFaults    \* bounds of the checked instance

Observations == [action : Actions, verdict : ObservationStatuses, match : BOOLEAN]

ASSUME HubAssumption ==
  /\ TaskOf \in [Actions -> Tasks]
  /\ KeyOf \in [Actions -> Keys]
  /\ SeqOf \in [Actions -> Nat \ {0}]
  /\ Reports \subseteq Observations
  /\ Ends \subseteq Terminal
  /\ CompletedLimit \in Nat \ {0}
  /\ MaxClock \in Nat /\ MaxLinks \in Nat /\ MaxRestarts \in Nat /\ MaxFaults \in Nat
  /\ None \notin Tasks \cup Users \cup Actions \cup Dispatchers \cup Observations
  /\ Dispatchers \cap (Runs \cup Stops \cup Readers) = {}

Goroutines == Dispatchers \cup Runs \cup Stops \cup Readers

VARIABLES
  sessions,    \* Hub.sessions: the task sessions in memory
  pending,     \* Hub.pending: the Dispatch call that waits for an action
  completed,   \* Hub.completed: the observation of an idempotency key
  chan,        \* the one-slot channel of a Dispatch call
  rows,        \* table agent_control_task
  actionRows,  \* table agent_control_action
  obsRows,     \* table agent_control_observation, by action
  pc, frame,   \* where each goroutine is, and its local variables
  up, link,    \* is the device connected, and the number of its connection
  wire,        \* the messages the device has received
  clock,       \* time.Now() in milliseconds
  restarts, faults   \* what the bounds count

hubVars   == <<sessions, pending, completed, chan>>
tableVars == <<rows, actionRows, obsRows>>
linkVars  == <<up, link, wire>>
boundVars == <<clock, restarts, faults>>
vars == <<hubVars, tableVars, pc, frame, linkVars, boundVars>>

-------------------------------------------------------------------------------
(* Types.  An in-memory session holds its observations; a stored row does  *)
(* not, they are rows of their own.  ActiveSessions, metadata, device and  *)
(* conversation ids are left out.  A row's "at" is its updated_at column,  *)
(* its "stamp" the UpdatedAt of the clone its fields come from: the two    *)
(* would be one if GORM did not write updated_at (see TaskSaved).  No      *)
(* action reads "stamp".                                                   *)
Session == [user : Users \cup {None}, status : TaskStatuses \cup {Absent},
            seq : Nat, at : Nat, obs : SUBSET Observations]
Row     == [user : Users \cup {None}, status : TaskStatuses \cup {Absent},
            seq : Nat, at : Nat, stamp : Nat]

NoSession == [user |-> None, status |-> Absent, seq |-> 0, at |-> 0, obs |-> {}]
NoRow     == [user |-> None, status |-> Absent, seq |-> 0, at |-> 0, stamp |-> 0]

(* Between registering its channel and removing it, a Dispatch call is at  *)
(* one of these, or is saving the task and goes on to one of them.         *)
InFlight == {"saveAction", "record", "send", "wait", "publish",
             "expireStore", "expireCache", "expireRecord", "release"}

Labels == InFlight \cup
  {"idle", "begin", "save", "lookup", "stored", "register", "done", "ended", "dead",
   "set", "find", "install", "stopNext", "stopSend",
   "obsStore", "obsPending", "obsKnown", "obsLoad", "obsRecord", "deliver"}

Frame == [task : Tasks \cup {None}, action : Actions \cup {None}, user : Users \cup {None},
          want : TaskStatuses \cup ObservationStatuses \cup {None}, obs : Observations \cup {None}, copy : Session,
          then : Labels, at : Nat, link : Nat, call : Dispatchers \cup {None},
          ids : SUBSET Tasks, todo : SUBSET Tasks, targets : SUBSET Actions,
          settled : BOOLEAN]

NoFrame == [task |-> None, action |-> None, user |-> None, want |-> None, obs |-> None,
            copy |-> NoSession, then |-> "idle", at |-> 0, link |-> 0, call |-> None,
            ids |-> {}, todo |-> {}, targets |-> {}, settled |-> FALSE]

TypeOK ==
  /\ sessions \in [Tasks -> Session]
  /\ pending \in [Actions -> Dispatchers \cup {None}]
  /\ completed \in [Keys -> Observations \cup {None}]
  /\ chan \in [Dispatchers -> Observations \cup {None}]
  /\ rows \in [Tasks -> Row]
  /\ actionRows \subseteq Actions
  /\ obsRows \in [Actions -> Observations \cup {None}]
  /\ pc \in [Goroutines -> Labels]
  /\ frame \in [Goroutines -> Frame]
  /\ up \in BOOLEAN /\ link \in Nat
  /\ wire \subseteq {"ACTION", "CANCEL"} \X Actions
  /\ clock \in Nat /\ restarts \in Nat /\ faults \in Nat

Init ==
  /\ sessions = [t \in Tasks |-> NoSession]
  /\ pending = [a \in Actions |-> None]
  /\ completed = [k \in Keys |-> None]
  /\ chan = [w \in Dispatchers |-> None]
  /\ rows = [t \in Tasks |-> NoRow]
  /\ actionRows = {}
  /\ obsRows = [a \in Actions |-> None]
  /\ pc = [p \in Goroutines |-> "idle"]
  /\ frame = [p \in Goroutines |-> NoFrame]
  /\ up = FALSE /\ link = 0
  /\ wire = {}
  /\ clock = 1 /\ restarts = 0 /\ faults = 0

-------------------------------------------------------------------------------
(* Helpers.                                                                *)
At(p, label) == pc[p] = label
Goto(p, label) == pc' = [pc EXCEPT ![p] = label]

(* A run, a stop or a reader is through with its call.                     *)
Leave(p) == Goto(p, "idle") /\ frame' = [frame EXCEPT ![p] = NoFrame]

(* After saveTask, or without one: on to what follows, locals dropped.     *)
Resume(p) ==
  /\ Goto(p, frame[p].then)
  /\ frame' = [frame EXCEPT ![p] =
                 IF frame[p].then \in {"idle", "ended"} THEN NoFrame
                 ELSE [@ EXCEPT !.task = None, !.want = None, !.copy = NoSession, !.then = "idle"]]

(* Dispatch returns observation x, or an error when x is None.             *)
Return(w, x) ==
  /\ Goto(w, "done")
  /\ frame' = [frame EXCEPT ![w] =
                 [NoFrame EXCEPT !.action = frame[w].action, !.obs = x]]

(* The end of a section under Hub.mu that changed the session of task t to *)
(* s: the clone is saved after the unlock, then p goes on at label.        *)
SaveLater(p, t, s, label) ==
  /\ sessions' = [sessions EXCEPT ![t] = s]
  /\ Goto(p, "save")
  /\ frame' = [frame EXCEPT ![p].task = t, ![p].copy = s, ![p].then = label,
                            ![p].user = None, ![p].at = 0]

(* Faulty variant: a late action or progress reopens an ended task.        *)
ExecutingAnyway(status) == "EXECUTING"

(* recordAction, recordProgress, recordObservationLocked on a session.     *)
Executing(status) == IF CanTransition(status, "EXECUTING") THEN "EXECUTING" ELSE status

ActionRecorded(s, a) ==
  [s EXCEPT !.status = Executing(@), !.seq = SeqOf[a], !.at = clock]

ProgressRecorded(s) == [s EXCEPT !.status = Executing(@), !.at = clock]

ObservationRecorded(s, x) ==
  [s EXCEPT !.obs = @ \cup {x}, !.status = AfterObservation(@, x.verdict), !.at = clock]

(* Faulty variant: the last clone to arrive wins, even over an outcome.    *)
TaskSavedLastWins(row, s) ==
  [user |-> s.user, status |-> s.status, seq |-> s.seq, at |-> s.at, stamp |-> s.at]

(* A time in seconds, in a column of times in milliseconds: less than any  *)
(* of them.                                                                *)
UnixSeconds == 0

(* Store.SaveTask: an insert, or the two updates of its transaction.  The  *)
(* second one sets status alone, and GORM then fills in the updated_at of  *)
(* the model: po.Task.UpdatedAt is an integer without an autoUpdateTime    *)
(* tag, for which it takes the time in seconds.                            *)
TaskSaved(row, s) ==
  IF row.status = Absent
  THEN [user |-> s.user, status |-> s.status, seq |-> s.seq, at |-> s.at, stamp |-> s.at]
  ELSE LET newer == row.at <= s.at
       IN  [user   |-> IF newer THEN s.user ELSE row.user,
            status |-> IF row.status \in Terminal THEN row.status ELSE s.status,
            seq    |-> IF newer THEN s.seq ELSE row.seq,
            at     |-> UnixSeconds,
            stamp  |-> IF newer THEN s.at ELSE row.stamp]

(* Store.FindTask: the row with the observations stored for its actions.   *)
TaskFound(t) ==
  [user |-> rows[t].user, status |-> rows[t].status, seq |-> rows[t].seq, at |-> rows[t].at,
   obs  |-> {obsRows[a] : a \in {b \in Actions : TaskOf[b] = t /\ obsRows[b] # None}}]

(* Store.SaveObservation: refused when the action is not registered; a     *)
(* second observation of an action replaces the first one's status only.   *)
Registered(x) == x.action \in actionRows
ObservationSaved(x) ==
  [obsRows EXCEPT ![x.action] = IF @ = None THEN x ELSE [@ EXCEPT !.verdict = x.verdict]]

(* Store.FindObservationByIdempotency: the stored observations of a key.   *)
StoredFor(k) == {obsRows[a] : a \in {b \in actionRows : KeyOf[b] = k /\ obsRows[b] # None}}

(* Connection.Send on connection l: an error when it is no longer the      *)
(* device's connection, and no error is no proof of delivery.              *)
Connected(l) == up /\ link = l
Transmit(m) == wire' = wire \/ wire' = wire \cup {m}

-------------------------------------------------------------------------------
(* BeginTask.  Its time stamp is taken before the lock.  Whether the key   *)
(* already has a stored observation is remembered in "settled", a history  *)
(* field no action reads.                                                  *)
StartCall(w, a, u) ==
  /\ At(w, "idle")
  /\ Goto(w, "begin")
  /\ frame' = [frame EXCEPT ![w] =
                 [NoFrame EXCEPT !.action = a, !.user = u, !.at = clock,
                                 !.settled = StoredFor(KeyOf[a]) # {}]]
  /\ UNCHANGED <<hubVars, tableVars, linkVars, boundVars>>

BeginTask(w) ==
  LET t == TaskOf[frame[w].action]
      s == sessions[t]
  IN
  /\ At(w, "begin")
  /\ \/ /\ s.status # Absent /\ s.user \notin {None, frame[w].user}
        /\ Return(w, None)
        /\ UNCHANGED sessions
     \/ /\ s.status # Absent /\ s.user \in {None, frame[w].user}
        /\ SaveLater(w, t, [s EXCEPT !.user = frame[w].user, !.at = frame[w].at], "lookup")
     \/ /\ s.status = Absent
        /\ SaveLater(w, t, [user |-> frame[w].user, status |-> "WAITING_ACTION",
                            seq |-> 0, at |-> frame[w].at, obs |-> {}], "lookup")
  /\ UNCHANGED <<pending, completed, chan, tableVars, linkVars, boundVars>>

(* saveTask after an unlock, by any goroutine.                             *)
SaveTask(p) ==
  LET t == frame[p].task IN
  /\ At(p, "save")
  /\ rows' = [rows EXCEPT ![t] = TaskSaved(@, frame[p].copy)]
  /\ Resume(p)
  /\ UNCHANGED <<hubVars, actionRows, obsRows, linkVars, boundVars>>

-------------------------------------------------------------------------------
(* Dispatch.                                                               *)

(* The completed cache answers at once.                                    *)
DispatchLookup(w) ==
  LET hit == completed[KeyOf[frame[w].action]] IN
  /\ At(w, "lookup")
  /\ IF hit # None THEN Return(w, hit) ELSE Goto(w, "stored") /\ UNCHANGED frame
  /\ UNCHANGED <<hubVars, tableVars, linkVars, boundVars>>

(* Faulty variant: only this process's cache is asked.                     *)
DispatchStoredUnasked(w) ==
  /\ At(w, "stored")
  /\ Goto(w, "register")
  /\ UNCHANGED <<hubVars, tableVars, frame, linkVars, boundVars>>

(* FindObservationByIdempotency answers for an earlier process.            *)
DispatchStored(w) ==
  LET hits == StoredFor(KeyOf[frame[w].action]) IN
  /\ At(w, "stored")
  /\ \/ \E x \in hits : Return(w, x)
     \/ hits = {} /\ Goto(w, "register") /\ UNCHANGED frame
  /\ UNCHANGED <<hubVars, tableVars, linkVars, boundVars>>

(* Faulty variant: the entry of a call that waits already is replaced.     *)
DispatchRegisterOver(w) ==
  /\ At(w, "register")
  /\ IF up
     THEN /\ pending' = [pending EXCEPT ![frame[w].action] = w]
          /\ frame' = [frame EXCEPT ![w].link = link]
          /\ Goto(w, "saveAction")
     ELSE Return(w, None) /\ UNCHANGED pending
  /\ UNCHANGED <<sessions, completed, chan, tableVars, linkVars, boundVars>>

(* The device is looked up, then the call registers its channel, unless    *)
(* the same action is waited for already.  The two sections under the lock *)
(* are one step: what changes between them could as well change after.     *)
DispatchRegister(w) ==
  LET a == frame[w].action IN
  /\ At(w, "register")
  /\ IF up /\ pending[a] = None
     THEN /\ pending' = [pending EXCEPT ![a] = w]
          /\ frame' = [frame EXCEPT ![w].link = link]
          /\ Goto(w, "saveAction")
     ELSE Return(w, None) /\ UNCHANGED pending
  /\ UNCHANGED <<sessions, completed, chan, tableVars, linkVars, boundVars>>

(* The task's user is compared with the device's (a mismatch returns an    *)
(* error), then SaveAction inserts a row; a row with the same action id or *)
(* the same idempotency key makes the insert do nothing, without an error. *)
DispatchSaveAction(w) ==
  LET a == frame[w].action IN
  /\ At(w, "saveAction")
  /\ \/ Goto(w, "release") /\ UNCHANGED actionRows
     \/ /\ Goto(w, "record")
        /\ actionRows' = IF \E b \in actionRows : KeyOf[b] = KeyOf[a]
                         THEN actionRows ELSE actionRows \cup {a}
  /\ UNCHANGED <<hubVars, rows, obsRows, frame, linkVars, boundVars>>

DispatchRecord(w) ==
  LET a == frame[w].action
      t == TaskOf[a]
  IN
  /\ At(w, "record")
  /\ SaveLater(w, t, ActionRecorded(sessions[t], a), "send")
  /\ UNCHANGED <<pending, completed, chan, tableVars, linkVars, boundVars>>

DispatchSend(w) ==
  /\ At(w, "send")
  /\ \/ /\ Connected(frame[w].link)
        /\ Transmit(<<"ACTION", frame[w].action>>)
        /\ Goto(w, "wait")
     \/ /\ ~Connected(frame[w].link)
        /\ UNCHANGED wire
        /\ Goto(w, "release")
  /\ UNCHANGED <<hubVars, tableVars, frame, up, link, boundVars>>

(* The select: an observation has arrived.  One that does not correlate    *)
(* ends the call with an error.                                            *)
DispatchReceive(w) ==
  LET x == chan[w] IN
  /\ At(w, "wait")
  /\ x # None
  /\ chan' = [chan EXCEPT ![w] = None]
  /\ IF x.match
     THEN Goto(w, "publish") /\ frame' = [frame EXCEPT ![w].obs = x]
     ELSE Goto(w, "release") /\ UNCHANGED frame
  /\ UNCHANGED <<sessions, pending, completed, tableVars, linkVars, boundVars>>

(* The cache is emptied when it is full, then takes the observation; the   *)
(* session records it in the same section.                                 *)
DispatchPublish(w) ==
  LET a == frame[w].action
      t == TaskOf[a]
      x == frame[w].obs
      cached == {k \in Keys : completed[k] # None}
      room == IF Cardinality(cached) >= CompletedLimit THEN [k \in Keys |-> None] ELSE completed
  IN
  /\ At(w, "publish")
  /\ completed' = [room EXCEPT ![KeyOf[a]] = x]
  /\ SaveLater(w, t, ObservationRecorded(sessions[t], x), "release")
  /\ UNCHANGED <<pending, chan, tableVars, linkVars, boundVars>>

(* Faulty variant: the call goes on waiting for the device's confirmation. *)
DispatchGiveUpAwaiting(w, verdict) ==
  /\ At(w, "wait")
  /\ Transmit(<<"CANCEL", frame[w].action>>)
  /\ UNCHANGED <<hubVars, tableVars, pc, frame, up, link, boundVars>>

(* The select: the caller's context is done, or the deadline has passed.   *)
(* The device is sent a CANCEL over the connection of the ACTION.          *)
DispatchGiveUp(w, verdict) ==
  LET a == frame[w].action IN
  /\ At(w, "wait")
  /\ IF Connected(frame[w].link) THEN Transmit(<<"CANCEL", a>>) ELSE UNCHANGED wire
  /\ frame' = [frame EXCEPT ![w].want = verdict]
  /\ Goto(w, "expireStore")
  /\ UNCHANGED <<hubVars, tableVars, up, link, boundVars>>

(* persistTerminalObservation: the table, the cache, then the session.     *)
Verdict(w) == [action |-> frame[w].action, verdict |-> frame[w].want, match |-> TRUE]

ExpireStore(w) ==
  LET x == Verdict(w) IN
  /\ At(w, "expireStore")
  /\ obsRows' = IF Registered(x) THEN ObservationSaved(x) ELSE obsRows
  /\ Goto(w, "expireCache")
  /\ UNCHANGED <<hubVars, rows, actionRows, frame, linkVars, boundVars>>

ExpireCache(w) ==
  /\ At(w, "expireCache")
  /\ completed' = [completed EXCEPT ![KeyOf[frame[w].action]] = Verdict(w)]
  /\ Goto(w, "expireRecord")
  /\ UNCHANGED <<sessions, pending, chan, tableVars, frame, linkVars, boundVars>>

ExpireRecord(w) ==
  LET t == TaskOf[frame[w].action] IN
  /\ At(w, "expireRecord")
  /\ SaveLater(w, t, ObservationRecorded(sessions[t], Verdict(w)), "release")
  /\ UNCHANGED <<pending, completed, chan, tableVars, linkVars, boundVars>>

(* The deferred delete, and the return.                                    *)
DispatchReturn(w) ==
  /\ At(w, "release")
  /\ pending' = [pending EXCEPT ![frame[w].action] = None]
  /\ Return(w, frame[w].obs)
  /\ UNCHANGED <<sessions, completed, chan, tableVars, linkVars, boundVars>>

-------------------------------------------------------------------------------
(* SetTaskStatus and CancelByConversation.                                 *)

(* The control loop is done with the task of its last action: completed,   *)
(* failed, or cancelled, as the observation says.                          *)
EndAfterDispatch(w, status) ==
  /\ At(w, "done")
  /\ status = "CANCELLED" => frame[w].obs # None /\ frame[w].obs.verdict = "CANCELLED"
  /\ Goto(w, "set")
  /\ frame' = [frame EXCEPT ![w] = [NoFrame EXCEPT !.task = TaskOf[frame[w].action],
                                                  !.want = status, !.then = "ended"]]
  /\ UNCHANGED <<hubVars, tableVars, linkVars, boundVars>>

(* A control loop of task t ends before it dispatches anything.            *)
EndWithoutDispatch(p, t, status) ==
  /\ At(p, "idle")
  /\ status # "CANCELLED"
  /\ Goto(p, "set")
  /\ frame' = [frame EXCEPT ![p].task = t, ![p].want = status]
  /\ UNCHANGED <<hubVars, tableVars, linkVars, boundVars>>

(* Faulty variant: the change of status is not saved.                      *)
ApplyStatusUnsaved(p, s) ==
  LET t == frame[p].task IN
  /\ sessions' = [sessions EXCEPT ![t] =
                    IF CanTransition(s.status, frame[p].want)
                    THEN [s EXCEPT !.status = frame[p].want, !.at = clock] ELSE s]
  /\ Resume(p)

(* The section under the lock that ends SetTaskStatus, on session s.       *)
ApplyStatus(p, s) ==
  LET t == frame[p].task
      status == frame[p].want
  IN
  \/ /\ CanTransition(s.status, status)
     /\ SaveLater(p, t, [s EXCEPT !.status = status, !.at = clock], frame[p].then)
  \/ /\ ~CanTransition(s.status, status)
     /\ sessions' = [sessions EXCEPT ![t] = s]
     /\ Resume(p)

StatusLock(p) ==
  LET s == sessions[frame[p].task] IN
  /\ At(p, "set")
  /\ \/ s.status # Absent /\ ApplyStatus(p, s)
     \/ s.status = Absent /\ Goto(p, "find") /\ UNCHANGED <<sessions, frame>>
  /\ UNCHANGED <<pending, completed, chan, tableVars, linkVars, boundVars>>

(* No session in memory: the lock is released and the task read from the   *)
(* store,                                                                  *)
StatusFind(p) ==
  LET t == frame[p].task IN
  /\ At(p, "find")
  /\ \/ /\ rows[t].status # Absent
        /\ frame' = [frame EXCEPT ![p].copy = TaskFound(t)]
        /\ Goto(p, "install")
     \/ rows[t].status = Absent /\ Resume(p)
  /\ UNCHANGED <<hubVars, tableVars, linkVars, boundVars>>

(* then installed in h.sessions, whatever has been put there meanwhile.    *)
StatusInstall(p) ==
  /\ At(p, "install")
  /\ ApplyStatus(p, frame[p].copy)
  /\ UNCHANGED <<pending, completed, chan, tableVars, linkVars, boundVars>>

(* Stop: the open tasks of the user, as the store lists them;              *)
StopBegin(p, u) ==
  LET open == {t \in Tasks : rows[t].user = u /\ rows[t].status \notin Terminal \cup {Absent}} IN
  /\ At(p, "idle")
  /\ Goto(p, "stopNext")
  /\ frame' = [frame EXCEPT ![p].ids = open, ![p].todo = open]
  /\ UNCHANGED <<hubVars, tableVars, linkVars, boundVars>>

(* each is set to CANCELLED by SetTaskStatus;                              *)
StopCancelTask(p, t) ==
  /\ At(p, "stopNext")
  /\ t \in frame[p].todo
  /\ Goto(p, "set")
  /\ frame' = [frame EXCEPT ![p].todo = @ \ {t}, ![p].task = t,
                            ![p].want = "CANCELLED", ![p].then = "stopNext"]
  /\ UNCHANGED <<hubVars, tableVars, linkVars, boundVars>>

(* the pending actions of those tasks are listed under the lock,           *)
StopSnapshot(p) ==
  LET waiting == {a \in Actions : pending[a] # None /\ TaskOf[a] \in frame[p].ids} IN
  /\ At(p, "stopNext")
  /\ frame[p].todo = {}
  /\ IF waiting = {} THEN Leave(p)
     ELSE Goto(p, "stopSend") /\ frame' = [frame EXCEPT ![p].targets = waiting]
  /\ UNCHANGED <<hubVars, tableVars, linkVars, boundVars>>

(* and a CANCEL for each goes to the connection the device has now.        *)
StopSend(p, a) ==
  /\ At(p, "stopSend")
  /\ a \in frame[p].targets
  /\ IF up THEN Transmit(<<"CANCEL", a>>) ELSE UNCHANGED wire
  /\ IF frame[p].targets = {a} THEN Leave(p)
     ELSE frame' = [frame EXCEPT ![p].targets = @ \ {a}] /\ UNCHANGED pc
  /\ UNCHANGED <<hubVars, tableVars, up, link, boundVars>>

-------------------------------------------------------------------------------
(* Observe and Progress, in the goroutine of the device's WebSocket.       *)

(* A message is read: the device answers an ACTION it has received, and    *)
(* reports CANCELLED only when it was told to cancel.                      *)
ReadObservation(r, x) ==
  /\ At(r, "idle")
  /\ up
  /\ <<"ACTION", x.action>> \in wire
  /\ x.verdict = "CANCELLED" => <<"CANCEL", x.action>> \in wire
  /\ Goto(r, "obsStore")
  /\ frame' = [frame EXCEPT ![r].obs = x]
  /\ UNCHANGED <<hubVars, tableVars, linkVars, boundVars>>

(* Faulty variant: only observations nobody waits for are saved.           *)
ObserveStoreUnawaited(r) ==
  LET x == frame[r].obs IN
  /\ At(r, "obsStore")
  /\ obsRows' = IF Registered(x) /\ pending[x.action] = None THEN ObservationSaved(x) ELSE obsRows
  /\ Goto(r, "obsPending")
  /\ UNCHANGED <<hubVars, rows, actionRows, frame, linkVars, boundVars>>

(* Observe saves the observation before it looks who waits for it; the     *)
(* store refuses an action it does not know.                               *)
ObserveStore(r) ==
  LET x == frame[r].obs IN
  /\ At(r, "obsStore")
  /\ IF Registered(x)
     THEN obsRows' = ObservationSaved(x) /\ Goto(r, "obsPending") /\ UNCHANGED frame
     ELSE Leave(r) /\ UNCHANGED obsRows
  /\ UNCHANGED <<hubVars, rows, actionRows, linkVars, boundVars>>

ObservePending(r) ==
  LET w == pending[frame[r].obs.action] IN
  /\ At(r, "obsPending")
  /\ IF w = None
     THEN Goto(r, "obsKnown") /\ UNCHANGED frame
     ELSE Goto(r, "deliver") /\ frame' = [frame EXCEPT ![r].call = w]
  /\ UNCHANGED <<hubVars, tableVars, linkVars, boundVars>>

(* The non-blocking send on the one-slot channel of the call it found.     *)
ObserveDeliver(r) ==
  LET w == frame[r].call
      x == frame[r].obs
  IN
  /\ At(r, "deliver")
  /\ chan' = IF chan[w] = None THEN [chan EXCEPT ![w] = x] ELSE chan
  /\ Leave(r)
  /\ UNCHANGED <<sessions, pending, completed, tableVars, linkVars, boundVars>>

(* Nobody waits: an observation of a task nobody knows is dropped, without *)
(* an error;                                                               *)
ObserveKnown(r) ==
  LET x == frame[r].obs
      t == TaskOf[x.action]
  IN
  /\ At(r, "obsKnown")
  /\ IF sessions[t].status = Absent /\ rows[t].status = Absent
     THEN Leave(r)
     ELSE Goto(r, "obsLoad") /\ UNCHANGED frame
  /\ UNCHANGED <<hubVars, tableVars, linkVars, boundVars>>

(* a session not in memory is read back from the store, under the lock;    *)
ObserveLoad(r) ==
  LET t == TaskOf[frame[r].obs.action] IN
  /\ At(r, "obsLoad")
  /\ sessions' = [sessions EXCEPT ![t] = IF @.status = Absent THEN TaskFound(t) ELSE @]
  /\ Goto(r, "obsRecord")
  /\ UNCHANGED <<pending, completed, chan, tableVars, frame, linkVars, boundVars>>

(* then recordObservation.                                                 *)
ObserveRecord(r) ==
  LET x == frame[r].obs
      t == TaskOf[x.action]
  IN
  /\ At(r, "obsRecord")
  /\ \/ /\ sessions[t].status # Absent
        /\ SaveLater(r, t, ObservationRecorded(sessions[t], x), "idle")
     \/ sessions[t].status = Absent /\ Leave(r) /\ UNCHANGED sessions
  /\ UNCHANGED <<pending, completed, chan, tableVars, linkVars, boundVars>>

(* A progress message.  With or without a waiting call it marks the        *)
(* session in memory, which is not saved; what the waiting call's callback *)
(* does with it is RunStream's subject.                                    *)
Progress(r, a) ==
  LET t == TaskOf[a] IN
  /\ At(r, "idle")
  /\ up
  /\ <<"ACTION", a>> \in wire
  /\ sessions[t].status # Absent
  /\ sessions' = [sessions EXCEPT ![t] = ProgressRecorded(@)]
  /\ UNCHANGED <<pending, completed, chan, tableVars, pc, frame, linkVars, boundVars>>

-------------------------------------------------------------------------------
(* The environment.                                                        *)

(* A statement of the store fails.  Dispatch returns what BeginTask and    *)
(* FindObservationByIdempotency return; a failed SaveAction ends the call; *)
(* a failed SaveObservation or FindTask ends Observe; SetTaskStatus,       *)
(* recordAction and the others go on without.                              *)
StoreFails(p) ==
  /\ faults < MaxFaults
  /\ faults' = faults + 1
  /\ \/ /\ At(p, "stored") \/ (At(p, "save") /\ frame[p].then = "lookup")
        /\ Return(p, None)
     \/ At(p, "saveAction") /\ Goto(p, "release") /\ UNCHANGED frame
     \/ At(p, "expireStore") /\ Goto(p, "expireCache") /\ UNCHANGED frame
     \/ At(p, "obsStore") /\ Leave(p)
     \/ /\ pc[p] \in {"obsKnown", "obsLoad"}
        /\ sessions[TaskOf[frame[p].obs.action]].status = Absent
        /\ IF At(p, "obsKnown") THEN Leave(p) ELSE Goto(p, "obsRecord") /\ UNCHANGED frame
     \/ /\ At(p, "find") \/ (At(p, "save") /\ frame[p].then # "lookup")
        /\ Resume(p)
  /\ UNCHANGED <<hubVars, tableVars, linkVars, clock, restarts>>

(* The device connects, or loses its connection.                           *)
LinkUp ==
  /\ ~up
  /\ link < MaxLinks
  /\ up' = TRUE
  /\ link' = link + 1
  /\ UNCHANGED <<hubVars, tableVars, pc, frame, wire, boundVars>>

LinkDown ==
  /\ up
  /\ up' = FALSE
  /\ UNCHANGED <<hubVars, tableVars, pc, frame, link, wire, boundVars>>

Tick ==
  /\ clock < MaxClock
  /\ clock' = clock + 1
  /\ UNCHANGED <<hubVars, tableVars, pc, frame, linkVars, restarts, faults>>

(* The process stops and is started again: memory and goroutines are gone, *)
(* the tables and the device's own memory stay.                            *)
Restart ==
  /\ restarts < MaxRestarts
  /\ restarts' = restarts + 1
  /\ sessions' = [t \in Tasks |-> NoSession]
  /\ pending' = [a \in Actions |-> None]
  /\ completed' = [k \in Keys |-> None]
  /\ chan' = [w \in Dispatchers |-> None]
  /\ pc' = [p \in Goroutines |->
              IF p \in Dispatchers /\ pc[p] # "idle" THEN "dead" ELSE "idle"]
  /\ frame' = [p \in Goroutines |-> NoFrame]
  /\ up' = FALSE
  /\ UNCHANGED <<tableVars, link, wire, clock, faults>>

-------------------------------------------------------------------------------
Call(w) ==
  \/ \E a \in Actions, u \in Users : StartCall(w, a, u)
  \/ BeginTask(w) \/ DispatchLookup(w) \/ DispatchStored(w) \/ DispatchRegister(w)
  \/ DispatchSaveAction(w) \/ DispatchRecord(w) \/ DispatchSend(w)
  \/ DispatchReceive(w) \/ DispatchPublish(w)
  \/ \E verdict \in {"CANCELLED", "EXPIRED"} : DispatchGiveUp(w, verdict)
  \/ ExpireStore(w) \/ ExpireCache(w) \/ ExpireRecord(w) \/ DispatchReturn(w)
  \/ \E status \in Ends : EndAfterDispatch(w, status)

End(p) == \E t \in Tasks, status \in Ends : EndWithoutDispatch(p, t, status)

Stop(p) ==
  \/ \E u \in Users : StopBegin(p, u)
  \/ \E t \in Tasks : StopCancelTask(p, t)
  \/ StopSnapshot(p)
  \/ \E a \in Actions : StopSend(p, a)

SetStatus(p) == StatusLock(p) \/ StatusFind(p) \/ StatusInstall(p)

Read(r) ==
  \/ \E x \in Reports : ReadObservation(r, x)
  \/ ObserveStore(r) \/ ObservePending(r) \/ ObserveDeliver(r)
  \/ ObserveKnown(r) \/ ObserveLoad(r) \/ ObserveRecord(r)
  \/ \E a \in Actions : Progress(r, a)

Next ==
  \/ \E w \in Dispatchers : Call(w)
  \/ \E p \in Runs : End(p)
  \/ \E p \in Stops : Stop(p)
  \/ \E r \in Readers : Read(r)
  \/ \E p \in Goroutines : SetStatus(p) \/ SaveTask(p) \/ StoreFails(p)
  \/ LinkUp \/ LinkDown \/ Tick \/ Restart

Spec == Init /\ [][Next]_vars

(* Every goroutine that has begun goes on: Go's scheduler is fair, the     *)
(* store and the sends return, and the timer of a waiting Dispatch fires.  *)
(* Nothing forces a device to answer, or anybody to call.                  *)
CallStep(w) ==
  \/ BeginTask(w) \/ DispatchLookup(w) \/ DispatchStored(w) \/ DispatchRegister(w)
  \/ DispatchSaveAction(w) \/ DispatchRecord(w) \/ DispatchSend(w)
  \/ DispatchReceive(w) \/ DispatchPublish(w) \/ DispatchGiveUp(w, "EXPIRED")
  \/ ExpireStore(w) \/ ExpireCache(w) \/ ExpireRecord(w) \/ DispatchReturn(w)

StopStep(p) ==
  \/ \E t \in Tasks : StopCancelTask(p, t)
  \/ StopSnapshot(p)
  \/ \E a \in Actions : StopSend(p, a)

ReadStep(r) ==
  \/ ObserveStore(r) \/ ObservePending(r) \/ ObserveDeliver(r)
  \/ ObserveKnown(r) \/ ObserveLoad(r) \/ ObserveRecord(r)

Fairness ==
  /\ \A w \in Dispatchers : WF_vars(CallStep(w))
  /\ \A p \in Stops : WF_vars(StopStep(p))
  /\ \A r \in Readers : WF_vars(ReadStep(r))
  /\ \A p \in Goroutines : WF_vars(SetStatus(p) \/ SaveTask(p))

FairSpec == Spec /\ Fairness

-------------------------------------------------------------------------------
(* Properties.                                                             *)

(* At most one Dispatch waits for an action: the registered channel is     *)
(* that of the one call between its registration and its deferred delete,  *)
(* so no call removes, or answers from, another call's entry               *)
(* (Hub.Dispatch, the check of h.pending and the deferred delete).         *)
Registering(w) ==
  pc[w] \in InFlight \/ (pc[w] = "save" /\ frame[w].then \in InFlight)

SingleFlight ==
  \A w \in Dispatchers, a \in Actions :
    pending[a] = w <=> Registering(w) /\ frame[w].action = a

(* A retry of what is done is not sent again: a Dispatch that began after  *)
(* an observation was stored under its idempotency key never registers,    *)
(* in this process or after a restart (Dispatch, the two lookups).         *)
ReplayNotResent ==
  \A w \in Dispatchers : frame[w].settled => ~Registering(w)

(* What Dispatch returns from its channel is in the store by then, so the  *)
(* next process can answer a retry: Observe saves before it delivers, and  *)
(* delivers nothing the store has refused.                                 *)
ReturnedIsDurable ==
  \A w \in Dispatchers :
    (pc[w] = "done" /\ frame[w].obs # None /\ frame[w].obs.verdict \notin {"CANCELLED", "EXPIRED"})
      => obsRows[frame[w].obs.action] # None

(* The stored outcome of a task is what TaskOutcome promises, through      *)
(* crashes, lost writes, saves out of order and late observations.         *)
OutcomeOf(s) ==
  CASE s = Absent     -> "unknown"
    [] s \in Terminal -> s
    [] OTHER          -> "open"

Stored == INSTANCE TaskOutcome WITH outcome <- [t \in Tasks |-> OutcomeOf(rows[t].status)]

OutcomeKept == Stored!Spec

(* Within one process the first outcome of a task stays, in memory, under  *)
(* late status changes, progress and observations (hub_test.go,            *)
(* TestHubTerminalStatusIgnoresLateStatusProgressAndObservation).          *)
FirstOutcomeStays ==
  [][restarts' = restarts =>
       \A t \in Tasks : sessions[t].status \in Terminal => sessions'[t].status = sessions[t].status]_vars

(* As long as the process lives, memory and store never disagree about an  *)
(* outcome: a stored outcome is the session's, in whatever order the       *)
(* clones reach SaveTask.                                                  *)
OutcomeAgreement ==
  \A t \in Tasks : rows[t].status \in Terminal => sessions[t].status = rows[t].status

(* Every call of Dispatch returns, or dies with its process: the deadline  *)
(* bounds the wait, whatever the device and the store do.                  *)
DispatchReturns ==
  \A w \in Dispatchers : pc[w] = "begin" ~> pc[w] \in {"done", "dead"}

(* An outcome reached in memory reaches the store.                         *)
OutcomeReachesStore ==
  \A t \in Tasks : sessions[t].status \in Terminal ~> rows[t].status \in Terminal

(* Correlation is task_id + action_id + sequence                           *)
(* (docs/action-observation-protocol.md): no observation Dispatch returns  *)
(* has another sequence number than its action.                            *)
ReturnedCorrelates ==
  \A w \in Dispatchers :
    (pc[w] = "done" /\ frame[w].obs # None) => frame[w].obs.match

(* The stored task records ordering (docs/action-observation-protocol.md): *)
(* its sequence number goes back only between clones stamped with the same *)
(* millisecond, which SaveTask's updated_at <= ? cannot tell apart.        *)
SequenceBackOnlyOnTie ==
  [][\A t \in Tasks : rows'[t].seq < rows[t].seq => rows'[t].stamp = rows[t].stamp]_vars
===============================================================================
