--------------------------------- MODULE MCRuns ---------------------------------
(***************************************************************************)
(* Instances for TLC of the two things that are started by a request and   *)
(* go on in the background under a context that may be cancelled: a        *)
(* streaming run and the training of models.  They share no state; a       *)
(* behaviour is one of either, the other one stands still.                 *)
(***************************************************************************)
EXTENDS RunStream, ModelTraining

CONSTANTS j1, j2

VARIABLE exercised

runsVars == <<vars, trainingVars, exercised>>

(* A run and its handler that are over.                                    *)
StreamOver ==
  /\ rpc = "over" /\ then = "step" /\ orElse = "step" /\ sending = None
  /\ iteration = 1 /\ pending = FALSE /\ waiting = FALSE /\ verdict = None
  /\ failed = FALSE /\ status = "COMPLETED" /\ forwarded = 0 /\ progress = 0
  /\ ppc = [r \in Readers |-> "idle"]
  /\ events = <<>> /\ closed = TRUE /\ result = TRUE /\ ctx = "canceled"
  /\ hpc = "gone" /\ writing = None /\ sawError = FALSE /\ written = <<>>
  /\ client = "reading"

(* One job distils, the other one fine-tunes.                              *)
TrainingAsked ==
  TrainingInit /\ trainingRequest[j1].mode = "distill" /\ trainingRequest[j2].mode = "fine_tune"

RunsInit ==
  /\ exercised \in {"stream", "training"}
  /\ TrainingAsked
  /\ IF exercised = "stream" THEN Init ELSE StreamOver

RunsNext ==
  \/ exercised = "stream" /\ Next /\ UNCHANGED <<trainingVars, exercised>>
  \/ exercised = "training" /\ TrainingNext /\ UNCHANGED <<vars, exercised>>

RunsSpec == RunsInit /\ [][RunsNext]_runsVars /\ Fairness /\ TrainingFairness

RunsTypeOK == TypeOK /\ TrainingTypeOK

(* Both jobs ask for one name.                                             *)
OneName(j) == "n"

Requests ==
  {[mode |-> "fine_tune", student |-> "ollama", teacher |-> "none", teacherIsStudent |-> FALSE,
    lines |-> <<{"prompt", "completion"}, {"answered messages"}>>, maxSamples |-> 2],
   [mode |-> "distill", student |-> "ollama", teacher |-> "llm", teacherIsStudent |-> FALSE,
    lines |-> <<{"prompt"}, {"user message"}>>, maxSamples |-> 0]}
===============================================================================
