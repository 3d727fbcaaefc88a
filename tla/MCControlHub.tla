----------------------------- MODULE MCControlHub -----------------------------
(***************************************************************************)
(* Instances of ControlHub for TLC: one task with one action, which two    *)
(* calls of Dispatch may retry.                                            *)
(***************************************************************************)
EXTENDS ControlHub, TLC

CONSTANTS t1, a1, k1

OneTaskOf == [a \in Actions |-> t1]
OneKeyOf  == [a \in Actions |-> k1]
OneSeqOf  == [a \in Actions |-> 1]

Report(v, m) == [action |-> a1, verdict |-> v, match |-> m]

(* What the device may report: success; success, correlated or not; or     *)
(* that it cancelled the action, or something uncorrelated.                *)
SuccessReports == {Report("SUCCEEDED", TRUE)}
StrayReports   == {Report("SUCCEEDED", TRUE), Report("SUCCEEDED", FALSE)}
CancelReports  == {Report("CANCELLED", TRUE), Report("SUCCEEDED", FALSE)}

Symmetric == Permutations(Dispatchers)
===============================================================================
