----------------------------- MODULE TaskOutcome ------------------------------
(***************************************************************************)
(* What the control plane promises about a task's outcome, whatever        *)
(* processes, crashes and lost writes lie behind it: a task is unknown,    *)
(* then open, then has one outcome for good ("keeps the first terminal     *)
(* outcome authoritative", protocol.go).                                   *)
(***************************************************************************)
EXTENDS TaskStatus

CONSTANT Tasks

VARIABLE outcome

Init == outcome = [t \in Tasks |-> "unknown"]

(* The task is recorded for the first time, not yet over.                  *)
Open(t) ==
  /\ outcome[t] = "unknown"
  /\ outcome' = [outcome EXCEPT ![t] = "open"]

(* The task gets its outcome, once.                                        *)
Settle(t, o) ==
  /\ outcome[t] \in {"unknown", "open"}
  /\ outcome' = [outcome EXCEPT ![t] = o]

Next == \E t \in Tasks : Open(t) \/ \E o \in Terminal : Settle(t, o)

Spec == Init /\ [][Next]_outcome
===============================================================================
