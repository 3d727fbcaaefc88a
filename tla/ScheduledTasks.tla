----------------------------- MODULE ScheduledTasks -----------------------------
(***************************************************************************)
(* The scanner of scheduled tasks and the executions it starts             *)
(* (application/service/scheduledtask), with the tables scheduled_task,    *)
(* job_execution and chat_approval.                                        *)
(*                                                                         *)
(* Every instance of the service starts one scanner.  A scan lists the     *)
(* active tasks, then goes through them: is the task due now, is this      *)
(* minute (its "slot") still free, is there room for another execution.    *)
(* An execution is a goroutine of its own, with the row of its task as the *)
(* scan has read it.  A step is one statement of the store, one reading of *)
(* the clock, or the call of agent-runtime.                                *)
(*                                                                         *)
(* A crash ends every goroutine.  A restart for a new configuration        *)
(* (main.go) does not: nothing calls Service.Stop, so the old scanner goes *)
(* on beside the new one, with a gRPC client that has been closed.         *)
(***************************************************************************)
EXTENDS Integers, Sequences, FiniteSets, Cron

CONSTANTS
  Tasks, Executions,
  CronOf,             \* the cron expressions of the tasks
  TimeOf(_),          \* the minute, hour, day, month and weekday of a minute
  MaxConcurrentRuns,  \* maxConcurrentRuns
  None,               \* an empty string, an absent row
  MaxMinute, MaxInstances, MaxFaults   \* bounds of the checked instance

Minutes == 1 .. MaxMinute
Instances == 1 .. MaxInstances

ASSUME ScheduleAssumption ==
  /\ \A t \in Tasks : CronOf[t] \in Seq(Seq(CronToken)) /\ ValidCron(CronOf[t])
  /\ MaxConcurrentRuns \in Nat \ {0}
  /\ MaxMinute \in Nat \ {0} /\ MaxInstances \in Nat \ {0} /\ MaxFaults \in Nat
  /\ None \notin Tasks /\ None \notin Minutes /\ None \notin {"found", "success", "pending", "decided"}

(* The minutes a task is due at (cronMatches).                             *)
DueAt == [t \in Tasks |-> {m \in Minutes : CronMatches(CronOf[t], TimeOf(m))}]

VARIABLES
  minute,     \* the clock, whose minutes are the slots
  instance,   \* the running service
  scanners,   \* the instances whose scanner is running
  shared,     \* has an instance been started beside an old scanner
  row,        \* table scheduled_task
  todo,       \* the tasks a scan has still to look at
  slot,       \* the minute a scanner is about to claim for a task
  exec,       \* the goroutines of the executions, and their locals
  job,        \* table job_execution: the status of an execution
  approval,   \* table chat_approval, by execution
  faults      \* what the bound counts

scanVars == <<todo, slot>>
vars == <<minute, instance, scanners, shared, row, scanVars, exec, job, approval, faults>>

-------------------------------------------------------------------------------
(* What the runs of a task have said, and their count, are left out of its *)
(* row.                                                                    *)
Row == [known : BOOLEAN, deleted : BOOLEAN, status : {"active", "paused"},
        slot : Minutes \cup {None}]
NoRow == [known |-> FALSE, deleted |-> FALSE, status |-> "active", slot |-> None]

(* What an execution is about to do, and what Run has returned.            *)
ExecLabels == {"unused", "log", "run", "approve", "saveJob", "saveTask", "over", "dead"}
Result == {"quiet", "found", "failed"}
Execution == [pc : ExecLabels, by : Instances \cup {None}, task : Tasks \cup {None},
              slot : Minutes \cup {None}, result : Result \cup {None}]
Unused == [pc |-> "unused", by |-> None, task |-> None, slot |-> None, result |-> None]

TypeOK ==
  /\ minute \in Minutes /\ instance \in Instances
  /\ scanners \subseteq Instances /\ shared \in BOOLEAN
  /\ row \in [Tasks -> Row]
  /\ todo \in [Instances -> SUBSET Tasks]
  /\ slot \in [Instances -> [task : Tasks, at : Minutes] \cup {None}]
  /\ exec \in [Executions -> Execution]
  /\ job \in [Executions -> {"running", "success", "failed", None}]
  /\ approval \in [Executions -> {"pending", "decided", None}]
  /\ faults \in Nat

Init ==
  /\ minute = 1 /\ instance = 1
  /\ scanners = {1} /\ shared = FALSE
  /\ row = [t \in Tasks |-> NoRow]
  /\ todo = [i \in Instances |-> {}]
  /\ slot = [i \in Instances |-> None]
  /\ exec = [e \in Executions |-> Unused]
  /\ job = [e \in Executions |-> None]
  /\ approval = [e \in Executions |-> None]
  /\ faults = 0

-------------------------------------------------------------------------------
(* The user's calls: Create, Update, Delete, DecideApproval.               *)
Create(t) ==
  /\ ~row[t].known
  /\ row' = [row EXCEPT ![t].known = TRUE]
  /\ UNCHANGED <<minute, instance, scanners, shared, scanVars, exec, job, approval, faults>>

Update(t, status) ==
  /\ row[t].known /\ ~row[t].deleted
  /\ row' = [row EXCEPT ![t].status = status]
  /\ UNCHANGED <<minute, instance, scanners, shared, scanVars, exec, job, approval, faults>>

(* Faulty variant: a deleted task keeps its status.                        *)
DeleteOnly(t) ==
  /\ row[t].known /\ ~row[t].deleted
  /\ row' = [row EXCEPT ![t].deleted = TRUE]
  /\ UNCHANGED <<minute, instance, scanners, shared, scanVars, exec, job, approval, faults>>

Delete(t) ==
  /\ row[t].known /\ ~row[t].deleted
  /\ row' = [row EXCEPT ![t].deleted = TRUE, ![t].status = "paused"]
  /\ UNCHANGED <<minute, instance, scanners, shared, scanVars, exec, job, approval, faults>>

DecideApproval(e) ==
  /\ approval[e] = "pending"
  /\ approval' = [approval EXCEPT ![e] = "decided"]
  /\ UNCHANGED <<minute, instance, scanners, shared, row, scanVars, exec, job, faults>>

-------------------------------------------------------------------------------
(* tick: the active tasks are listed,                                      *)
TickList(i) ==
  /\ i \in scanners /\ todo[i] = {} /\ slot[i] = None
  /\ todo' = [todo EXCEPT ![i] =
                {t \in Tasks : row[t].known /\ ~row[t].deleted /\ row[t].status = "active"}]
  /\ UNCHANGED <<minute, instance, scanners, shared, row, slot, exec, job, approval, faults>>

(* each one is compared with the clock (cronMatches),                      *)
TickMatch(i, t) ==
  /\ i \in scanners /\ t \in todo[i] /\ slot[i] = None
  /\ todo' = [todo EXCEPT ![i] = @ \ {t}]
  /\ slot' = IF minute \in DueAt[t] THEN [slot EXCEPT ![i] = [task |-> t, at |-> minute]] ELSE slot
  /\ UNCHANGED <<minute, instance, scanners, shared, row, exec, job, approval, faults>>

(* the slot is claimed by one conditional update, and an execution starts  *)
(* if the semaphore has room; a claimed slot without room is lost.         *)
Running(i) == {e \in Executions : exec[e].by = i /\ exec[e].pc \notin {"over", "dead"}}

Starts(i, e) ==
  /\ exec[e].pc = "unused"
  /\ exec' = [exec EXCEPT ![e] = [pc |-> "log", by |-> i, task |-> slot[i].task,
                                  slot |-> slot[i].at, result |-> None]]

(* Faulty variant: the update has no condition on last_slot.               *)
ClaimedAnyway(r, at) == r.status = "active"

Claimed(r, at) == r.status = "active" /\ r.slot # at

TickClaim(i) ==
  LET t == slot[i].task IN
  /\ i \in scanners /\ slot[i] # None
  /\ IF Claimed(row[t], slot[i].at)
     THEN /\ row' = [row EXCEPT ![t].slot = slot[i].at]
          /\ IF Cardinality(Running(i)) < MaxConcurrentRuns
             THEN \E e \in Executions : Starts(i, e)
             ELSE UNCHANGED exec
     ELSE UNCHANGED <<row, exec>>
  /\ slot' = [slot EXCEPT ![i] = None]
  /\ UNCHANGED <<minute, instance, scanners, shared, todo, job, approval, faults>>

-------------------------------------------------------------------------------
(* execute: the job is logged, agent-runtime is called,                    *)
Goto(e, from, to) == exec[e].pc = from /\ exec' = [exec EXCEPT ![e].pc = to]

ExecuteLog(e) ==
  /\ Goto(e, "log", "run")
  /\ job' = [job EXCEPT ![e] = "running"]
  /\ UNCHANGED <<minute, instance, scanners, shared, row, scanVars, approval, faults>>

(* Faulty variant: the job is saved before an approval is asked for.       *)
AfterRunSave(result) == "saveJob"

AfterRun(result) == IF result = "found" THEN "approve" ELSE "saveJob"

(* over a connection that is closed when the instance is an old one,       *)
ExecuteRun(e, result) ==
  /\ exec[e].pc = "run"
  /\ exec[e].by # instance => result = "failed"
  /\ exec' = [exec EXCEPT ![e].pc = AfterRun(result), ![e].result = result]
  /\ UNCHANGED <<minute, instance, scanners, shared, row, scanVars, job, approval, faults>>

(* an answer ACTION_REQUIRED asks for an approval,                         *)
ExecuteApprove(e) ==
  /\ Goto(e, "approve", "saveJob")
  /\ approval' = [approval EXCEPT ![e] = "pending"]
  /\ UNCHANGED <<minute, instance, scanners, shared, row, scanVars, job, faults>>

(* Faulty variant: what the run has answered is taken for a status.        *)
OutcomeRaw(e) == exec[e].result

Outcome(e) == IF exec[e].result = "failed" THEN "failed" ELSE "success"

(* the job's outcome is saved (an update: without a logged job, of no row),*)
ExecuteSaveJob(e) ==
  /\ Goto(e, "saveJob", "saveTask")
  /\ job' = IF job[e] = None THEN job ELSE [job EXCEPT ![e] = Outcome(e)]
  /\ UNCHANGED <<minute, instance, scanners, shared, row, scanVars, approval, faults>>

(* and then the task's row, of which nothing is kept here.                 *)
ExecuteSaveTask(e) ==
  /\ Goto(e, "saveTask", "over")
  /\ UNCHANGED <<minute, instance, scanners, shared, row, scanVars, job, approval, faults>>

-------------------------------------------------------------------------------
(* The environment.                                                        *)

(* A statement of the store fails: a scan is given up, a claim skipped;    *)
(* an execution goes on whatever fails.                                    *)
ScanFails(i) ==
  /\ faults < MaxFaults
  /\ faults' = faults + 1
  /\ i \in scanners /\ slot[i] # None
  /\ slot' = [slot EXCEPT ![i] = None]
  /\ UNCHANGED <<minute, instance, scanners, shared, row, todo, exec, job, approval>>

ExecuteFails(e) ==
  /\ faults < MaxFaults
  /\ faults' = faults + 1
  /\ \/ Goto(e, "log", "run") \/ Goto(e, "approve", "saveJob")
     \/ Goto(e, "saveJob", "saveTask") \/ Goto(e, "saveTask", "over")
  /\ UNCHANGED <<minute, instance, scanners, shared, row, scanVars, job, approval>>

Tick ==
  /\ minute < MaxMinute
  /\ minute' = minute + 1
  /\ UNCHANGED <<instance, scanners, shared, row, scanVars, exec, job, approval, faults>>

Restart ==
  /\ instance < MaxInstances
  /\ instance' = instance + 1
  /\ scanners' = scanners \cup {instance + 1}
  /\ shared' = TRUE
  /\ UNCHANGED <<minute, row, scanVars, exec, job, approval, faults>>

Crash ==
  /\ instance < MaxInstances
  /\ instance' = instance + 1
  /\ scanners' = {instance + 1}
  /\ exec' = [e \in Executions |->
                IF exec[e].pc \in {"unused", "over"} THEN exec[e] ELSE [exec[e] EXCEPT !.pc = "dead"]]
  /\ todo' = [i \in Instances |-> {}]
  /\ slot' = [i \in Instances |-> None]
  /\ UNCHANGED <<minute, shared, row, job, approval, faults>>

-------------------------------------------------------------------------------
Scan(i) == TickList(i) \/ (\E t \in Tasks : TickMatch(i, t)) \/ TickClaim(i)

Execute(e) ==
  \/ ExecuteLog(e) \/ (\E result \in Result : ExecuteRun(e, result))
  \/ ExecuteApprove(e) \/ ExecuteSaveJob(e) \/ ExecuteSaveTask(e)

Next ==
  \/ \E t \in Tasks : Create(t) \/ Delete(t) \/ \E s \in {"active", "paused"} : Update(t, s)
  \/ \E e \in Executions : DecideApproval(e)
  \/ \E i \in Instances : Scan(i) \/ ScanFails(i)
  \/ \E e \in Executions : Execute(e) \/ ExecuteFails(e)
  \/ Tick \/ Restart \/ Crash

Spec == Init /\ [][Next]_vars

-------------------------------------------------------------------------------
(* Properties.                                                             *)

(* A slot of a task is executed once, however often the scanner looks and  *)
(* over crashes, as long as no second scanner runs beside it (tick, the    *)
(* conditional update of last_slot).                                       *)
SlotRunOnce ==
  ~shared =>
    \A e1, e2 \in Executions :
      (exec[e1].task # None /\ exec[e1].task = exec[e2].task /\ exec[e1].slot = exec[e2].slot)
        => e1 = e2

(* An execution is started as its task says: a task that is deleted or     *)
(* paused gets none, even from a scan that has listed it before (Delete    *)
(* pauses the task, for tick's claim looks at the status only), and the    *)
(* slot is a minute that its cron expression means (expandCronField).      *)
StartedAsAsked ==
  [][\A e \in Executions :
       (exec[e].pc = "unused" /\ exec'[e].pc # "unused") =>
         /\ ~row[exec'[e].task].deleted /\ row[exec'[e].task].status = "active"
         /\ Means(CronOf[exec'[e].task], TimeOf(exec'[e].slot))]_vars

(* What a run has found is not lost between its three writes: a job saved  *)
(* as a success that required an action has its approval, unless the store *)
(* has failed (execute, the order of its writes).                          *)
FoundIsReviewed ==
  \A e \in Executions :
    (job[e] = "success" /\ exec[e].result = "found" /\ faults = 0) => approval[e] # None

(* What the schedule promises of its runs: one per slot, and what one has  *)
(* found comes to review (tick, execute).                                  *)
RunsOnceReviewed == SlotRunOnce /\ FoundIsReviewed
===============================================================================
