------------------------------ MODULE TaskStatus ------------------------------
(***************************************************************************)
(* The task statuses of the control plane and the rules that move a task   *)
(* from one to another (domain/entity/control/protocol.go).  A module of   *)
(* operators only: every module that keeps a task status uses these.       *)
(***************************************************************************)

(* The outcomes of a task: a task that has one is over.                    *)
Terminal == {"COMPLETED", "FAILED", "CANCELLED"}

TaskStatuses ==
  Terminal \cup
  {"UNDERSTANDING", "PLANNING", "WAITING_ACTION", "WAITING_APPROVAL",
   "EXECUTING", "OBSERVING", "EVALUATING", "WAITING_USER"}

(* The statuses an Observation may carry.                                  *)
ObservationStatuses ==
  {"SUCCEEDED", "FAILED", "CANCELLED", "EXPIRED", "BLOCKED",
   "WAITING_APPROVAL", "WAITING_USER"}

(* The status of an in-memory session or of a stored row that does not     *)
(* exist (a nil pointer, no row).                                          *)
Absent == "ABSENT"

(* Faulty variant: an outcome may be left.                                 *)
CanTransitionAlways(current, next) == next \in TaskStatuses

(* CanTransitionTaskStatus.  Its first alternative, an empty current       *)
(* status, is left out: BeginTask precedes every recordAction, so no       *)
(* session is ever created without a status.                               *)
CanTransition(current, next) ==
  /\ next \in TaskStatuses
  /\ current = next \/ current \notin Terminal

(* Faulty variant: the observation's status is taken for the task's.       *)
AfterObservationRaw(current, verdict) ==
  IF current \in Terminal THEN current ELSE verdict

(* The status of a task after one more observation: an outcome stays, and  *)
(* only three observation statuses say more than "evaluate the result".    *)
AfterObservation(current, verdict) ==
  CASE current \in Terminal                               -> current
    [] current \notin Terminal /\ verdict \in {"WAITING_APPROVAL", "WAITING_USER", "CANCELLED"} -> verdict
    [] OTHER                                              -> "EVALUATING"
===============================================================================
