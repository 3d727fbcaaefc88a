----------------------------- MODULE ModelTraining -----------------------------
(***************************************************************************)
(* Local LoRA training jobs (modelTrainingManager).                        *)
(*                                                                         *)
(* A request checks its models and data, writes the data into a directory  *)
(* of its own, looks for another job of the same output name, inserts its  *)
(* row, and starts a goroutine.  The goroutine runs external commands      *)
(* under a context, imports the result into Ollama, registers the model,   *)
(* and says so in the row.  A cancel request reads the row, ends that      *)
(* context if it finds it, and writes the row; nobody looks at the status  *)
(* he writes over.  A service that starts marks what it finds unfinished.  *)
(*                                                                         *)
(* Progress, stages and logs are left out.  Ollama is always running.      *)
(***************************************************************************)
EXTENDS Naturals, Sequences

CONSTANTS
  Training,            \* the jobs
  OutputName(_),       \* normalizeOllamaName of what a job asks for
  TrainingRequests,    \* what a job may ask for
  MaxTrainingRestarts, MaxTrainingFaults   \* bounds of the checked instance

VARIABLES
  trainingRow,      \* the status in the table, "none" without a row
  trainingPc,       \* where the request, and then the goroutine, is
  trainingRequest,  \* what the job asks for
  jobDir,           \* the jobs that have a directory
  cancels,          \* manager.cancels: the jobs whose context it can end
  contextOver,      \* the jobs whose context has ended
  cancelPc,         \* where the request that cancels a job is
  ollama,           \* the names installed
  outputModel,      \* the jobs whose model is registered
  candid,           \* the jobs whose row told a job that counted what was the case
  trainingRestarts, trainingFaults

tableVars    == <<trainingRow, outputModel>>
requestVars  == <<trainingRequest, jobDir, candid>>
contextVars  == <<cancels, contextOver, cancelPc>>
trainingVars == <<tableVars, trainingPc, requestVars, contextVars, ollama,
                  trainingRestarts, trainingFaults>>

Active  == {"queued", "running", "completed"}
Working == {"register cancel", "begin", "runtime", "distill", "train", "import", "register", "complete",
            "leave"}

TrainingTypeOK ==
  /\ trainingRow \in [Training -> {"none", "failed", "canceled"} \cup Active]
  /\ trainingPc \in [Training -> {"idle", "save", "count", "insert", "over"} \cup Working]
  /\ trainingRequest \in [Training -> TrainingRequests]
  /\ jobDir \subseteq Training /\ cancels \subseteq Training /\ contextOver \subseteq Training
  /\ cancelPc \in [Training -> {"idle", "signal", "write"}]
  /\ ollama \subseteq {OutputName(j) : j \in Training}
  /\ outputModel \subseteq Training
  /\ candid \in [Training -> SUBSET Training]
  /\ trainingRestarts \in Nat /\ trainingFaults \in Nat

TrainingInit ==
  /\ trainingRow = [j \in Training |-> "none"]
  /\ trainingPc = [j \in Training |-> "idle"]
  /\ trainingRequest \in [Training -> TrainingRequests]
  /\ jobDir = {} /\ cancels = {} /\ contextOver = {}
  /\ cancelPc = [j \in Training |-> "idle"]
  /\ ollama = {} /\ outputModel = {}
  /\ candid = [j \in Training |-> {}]
  /\ trainingRestarts = 0 /\ trainingFaults = 0

-------------------------------------------------------------------------------
(* What a request may be.  A request has a mode, a student and a teacher   *)
(* model ("ollama" and "llm" are text models, the first one Ollama's), and *)
(* the lines of its dataset.                                               *)
Distils(r) == r.mode = "distill"

ModelsAccepted(r) ==
  /\ r.student = "ollama"
  /\ Distils(r) => r.teacher \in {"ollama", "llm"} /\ ~r.teacherIsStudent

(* validateTrainingRow: a line is the set of what it holds.                *)
RowAccepted(line, mode) ==
  IF mode = "distill" THEN line \cap {"prompt", "user message"} # {}
  ELSE {"prompt", "completion"} \subseteq line \/ "answered messages" \in line

(* saveAndValidateDataset: how many lines are saved, 0 when refused.  One  *)
(* line more than the most that are saved is looked at.                    *)
SavedLines(lines, mode, maxSamples) ==
  LET filled == SelectSeq(lines, LAMBDA l : l # {})
      least(a, b) == IF a < b THEN a ELSE b
      read   == least(Len(filled), maxSamples + 1)
      saved  == least(Len(filled), maxSamples)
  IN  IF (\A i \in 1 .. read : RowAccepted(filled[i], mode)) /\ saved >= 2 THEN saved ELSE 0

(* normalizeTrainingConfig: a number out of range is replaced.             *)
Normalized(value, limit, default) == IF value \in 1 .. limit THEN value ELSE default

-------------------------------------------------------------------------------
(* create: the models are checked and the directory is made,               *)
PrepareTraining(j) ==
  /\ trainingPc[j] = "idle"
  /\ ModelsAccepted(trainingRequest[j])
  /\ jobDir' = jobDir \cup {j}
  /\ trainingPc' = [trainingPc EXCEPT ![j] = "save"]
  /\ UNCHANGED <<tableVars, trainingRequest, candid, contextVars, ollama, trainingRestarts,
                 trainingFaults>>

(* A request that is refused from here on takes its directory with it.     *)
RefuseTraining(j) ==
  /\ trainingPc' = [trainingPc EXCEPT ![j] = "over"]
  /\ jobDir' = jobDir \ {j}
  /\ UNCHANGED <<tableVars, trainingRequest, candid, contextVars, ollama, trainingRestarts>>

(* the dataset is saved,                                                   *)
SaveDataset(j) ==
  /\ trainingPc[j] = "save"
  /\ LET r == trainingRequest[j]
     IN  IF SavedLines(r.lines, r.mode, Normalized(r.maxSamples, 10000, 500)) = 0
         THEN RefuseTraining(j) /\ UNCHANGED trainingFaults
         ELSE /\ trainingPc' = [trainingPc EXCEPT ![j] = "count"]
              /\ UNCHANGED <<tableVars, requestVars, contextVars, ollama, trainingRestarts,
                             trainingFaults>>

(* A row is candid when it shows its job active, or when the job will not  *)
(* make its model any more.                                                *)
Candid(k) ==
  /\ trainingRow[k] # "none"
  /\ trainingRow[k] \in Active \/ k \in contextOver \/ trainingPc[k] \notin Working

Counted(j) ==
  {k \in Training \ {j} : OutputName(k) = OutputName(j) /\ trainingRow[k] \in Active}

(* the name is looked for, in Ollama and then among the rows,              *)
CountDuplicates(j) ==
  /\ trainingPc[j] = "count"
  /\ IF OutputName(j) \in ollama \/ Counted(j) # {}
     THEN RefuseTraining(j)
     ELSE /\ candid' = [candid EXCEPT ![j] = {k \in Training : Candid(k)}]
          /\ trainingPc' = [trainingPc EXCEPT ![j] = "insert"]
          /\ UNCHANGED <<tableVars, trainingRequest, jobDir, contextVars, ollama, trainingRestarts>>
  /\ UNCHANGED trainingFaults

(* the row is inserted, unless that fails,                                 *)
InsertTraining(j) ==
  /\ trainingPc[j] = "insert"
  /\ \/ /\ trainingRow' = [trainingRow EXCEPT ![j] = "queued"]
        /\ trainingPc' = [trainingPc EXCEPT ![j] = "register cancel"]
        /\ UNCHANGED <<outputModel, requestVars, contextVars, ollama, trainingRestarts,
                       trainingFaults>>
     \/ /\ trainingFaults < MaxTrainingFaults
        /\ trainingFaults' = trainingFaults + 1
        /\ RefuseTraining(j)

(* and the goroutine starts, with a context that can be ended.             *)
RegisterCancel(j) ==
  /\ trainingPc[j] = "register cancel"
  /\ cancels' = cancels \cup {j}
  /\ trainingPc' = [trainingPc EXCEPT ![j] = "begin"]
  /\ UNCHANGED <<tableVars, requestVars, contextOver, cancelPc, ollama, trainingRestarts,
                 trainingFaults>>

-------------------------------------------------------------------------------
(* update: the status of a row, whatever it was; an error is dropped.      *)
SetTrainingStatus(j, s) ==
  \/ trainingRow' = [trainingRow EXCEPT ![j] = s] /\ UNCHANGED trainingFaults
  \/ /\ trainingFaults < MaxTrainingFaults
     /\ trainingFaults' = trainingFaults + 1
     /\ UNCHANGED trainingRow

(* run: the job says that it is running,                                   *)
BeginTraining(j) ==
  /\ trainingPc[j] = "begin"
  /\ SetTrainingStatus(j, "running")
  /\ trainingPc' = [trainingPc EXCEPT ![j] = "runtime"]
  /\ UNCHANGED <<outputModel, requestVars, contextVars, ollama, trainingRestarts>>

(* and does one command after another: the Python environment, the answers *)
(* of the teacher, the training, the import.                               *)
External == {"runtime", "distill", "train", "import"}

NextLabel(j) ==
  CASE trainingPc[j] = "runtime" -> IF Distils(trainingRequest[j]) THEN "distill" ELSE "train"
    [] trainingPc[j] = "distill" -> "train"
    [] trainingPc[j] = "train"   -> "import"
    [] trainingPc[j] = "import"  -> "register"

CommandEnds(j) ==
  /\ trainingPc[j] \in External
  /\ trainingPc' = [trainingPc EXCEPT ![j] = NextLabel(j)]
  /\ ollama' = ollama \cup (IF trainingPc[j] = "import" THEN {OutputName(j)} ELSE {})
  /\ UNCHANGED <<tableVars, requestVars, contextVars, trainingRestarts, trainingFaults>>

(* Faulty variant: a command runs under a context of its own, so that it   *)
(* fails for its own reasons only.                                         *)
TrainingFailsAlone(j) ==
  /\ trainingPc[j] \in External \cup {"register"}
  /\ j \notin contextOver
  /\ SetTrainingStatus(j, "failed")
  /\ trainingPc' = [trainingPc EXCEPT ![j] = "leave"]
  /\ UNCHANGED <<outputModel, requestVars, contextVars, ollama, trainingRestarts>>

(* One of them fails, as every one does whose context has ended; then      *)
(* nothing is written, because the request that cancels has its own word.  *)
TrainingFails(j) ==
  /\ trainingPc[j] \in External \cup {"register"}
  /\ IF j \in contextOver THEN UNCHANGED <<trainingRow, trainingFaults>>
                          ELSE SetTrainingStatus(j, "failed")
  /\ trainingPc' = [trainingPc EXCEPT ![j] = "leave"]
  /\ UNCHANGED <<outputModel, requestVars, contextVars, ollama, trainingRestarts>>

(* createOutputModel, under the job's context,                             *)
RegisterModel(j) ==
  /\ trainingPc[j] = "register"
  /\ j \notin contextOver
  /\ outputModel' = outputModel \cup {j}
  /\ trainingPc' = [trainingPc EXCEPT ![j] = "complete"]
  /\ UNCHANGED <<trainingRow, requestVars, contextVars, ollama, trainingRestarts, trainingFaults>>

(* the last word of the goroutine,                                         *)
CompleteTraining(j) ==
  /\ trainingPc[j] = "complete"
  /\ SetTrainingStatus(j, "completed")
  /\ trainingPc' = [trainingPc EXCEPT ![j] = "leave"]
  /\ UNCHANGED <<outputModel, requestVars, contextVars, ollama, trainingRestarts>>

(* and its deferred delete.                                                *)
LeaveTraining(j) ==
  /\ trainingPc[j] = "leave"
  /\ cancels' = cancels \ {j}
  /\ trainingPc' = [trainingPc EXCEPT ![j] = "over"]
  /\ UNCHANGED <<tableVars, requestVars, contextOver, cancelPc, ollama, trainingRestarts,
                 trainingFaults>>

-------------------------------------------------------------------------------
(* cancel: the row is read,                                                *)
CancelReads(j) ==
  /\ cancelPc[j] = "idle"
  /\ trainingRow[j] \in {"queued", "running"}
  /\ cancelPc' = [cancelPc EXCEPT ![j] = "signal"]
  /\ UNCHANGED <<tableVars, trainingPc, requestVars, cancels, contextOver, ollama,
                 trainingRestarts, trainingFaults>>

(* the context is ended if the manager has it,                             *)
CancelSignals(j) ==
  /\ cancelPc[j] = "signal"
  /\ contextOver' = contextOver \cup ({j} \cap cancels)
  /\ cancelPc' = [cancelPc EXCEPT ![j] = "write"]
  /\ UNCHANGED <<tableVars, trainingPc, requestVars, cancels, ollama, trainingRestarts,
                 trainingFaults>>

(* and the row is written; an error is the caller's.                       *)
CancelWrites(j) ==
  /\ cancelPc[j] = "write"
  /\ SetTrainingStatus(j, "canceled")
  /\ cancelPc' = [cancelPc EXCEPT ![j] = "idle"]
  /\ UNCHANGED <<outputModel, trainingPc, requestVars, cancels, contextOver, ollama,
                 trainingRestarts>>

-------------------------------------------------------------------------------
(* Faulty variant: only what says running is marked.                       *)
RecoveredRunning(s) == IF s = "running" THEN "failed" ELSE s

Recovered(s) == IF s \in {"queued", "running"} THEN "failed" ELSE s

(* newModelTrainingManager: a service that starts, after a crash or in     *)
(* place, has no contexts, and marks the rows that look unfinished; that   *)
(* statement may fail.  A restart in place waits for the requests.         *)
RestartTraining ==
  /\ trainingRestarts < MaxTrainingRestarts
  /\ trainingRestarts' = trainingRestarts + 1
  /\ \/ trainingPc' = [j \in Training |-> IF trainingPc[j] = "idle" THEN "idle" ELSE "over"]
     \/ /\ \A j \in Training :
             cancelPc[j] = "idle" /\ trainingPc[j] \in {"idle", "over"} \cup (Working \ {"register cancel"})
        /\ UNCHANGED trainingPc
  /\ cancelPc' = [j \in Training |-> "idle"]
  /\ cancels' = {}
  /\ \/ trainingRow' = [j \in Training |-> Recovered(trainingRow[j])] /\ UNCHANGED trainingFaults
     \/ /\ trainingFaults < MaxTrainingFaults
        /\ trainingFaults' = trainingFaults + 1
        /\ UNCHANGED trainingRow
  /\ UNCHANGED <<outputModel, requestVars, contextOver, ollama>>

CreateTraining(j) ==
  PrepareTraining(j) \/ SaveDataset(j) \/ CountDuplicates(j) \/ InsertTraining(j)
    \/ RegisterCancel(j)

RunTraining(j) ==
  BeginTraining(j) \/ CommandEnds(j) \/ TrainingFails(j) \/ RegisterModel(j)
    \/ CompleteTraining(j) \/ LeaveTraining(j)

CancelTraining(j) == CancelReads(j) \/ CancelSignals(j) \/ CancelWrites(j)

TrainingNext ==
  \/ \E j \in Training : CreateTraining(j) \/ RunTraining(j) \/ CancelTraining(j)
  \/ RestartTraining

TrainingSpec == TrainingInit /\ [][TrainingNext]_trainingVars

(* The goroutine goes on; a command ends when its context has ended, which *)
(* kills it, and need not end before that.                                 *)
TrainingFairness ==
  \A j \in Training :
    /\ WF_trainingVars(BeginTraining(j) \/ CompleteTraining(j) \/ LeaveTraining(j))
    /\ WF_trainingVars(j \in contextOver /\ TrainingFails(j))

-------------------------------------------------------------------------------
(* A model is trained once: a job whose create has read a candid row of    *)
(* another job of the same name does not make the name again               *)
(* (modelTrainingManager.create, the check of Ollama and the count).  Two  *)
(* creates at once do not read each other's rows, and a row is not candid  *)
(* after a restart in place or a cancel without a signal.                  *)
TrainedNameOnce ==
  \A j, k \in outputModel : j # k /\ OutputName(j) = OutputName(k) => j \notin candid[k]

(* Nothing is left behind.  An unfinished row has somebody who will write  *)
(* it, unless a write has failed or the job was canceled, over any crash   *)
(* (newModelTrainingManager); and a directory of data without a row is     *)
(* that of a request at work, or of a process that crashed                 *)
(* (modelTrainingManager.create, RemoveAll on every error).                *)
NothingLeftBehind ==
  \A j \in Training :
    /\ (trainingFaults = 0 /\ trainingRow[j] \in {"queued", "running"}) =>
         trainingPc[j] \in Working \/ j \in contextOver
    /\ (trainingRestarts = 0 /\ j \in jobDir /\ trainingRow[j] = "none") =>
         trainingPc[j] \in {"save", "count", "insert"}

(* A job makes its name alone, and is accounted for in the end (create,    *)
(* newModelTrainingManager).                                               *)
TrainedOrEnded == TrainedNameOnce /\ NothingLeftBehind

(* A job whose context has been ended ends, however long its commands      *)
(* would take (exec.CommandContext).                                       *)
CancelStopsTraining ==
  \A j \in Training : j \in contextOver ~> trainingPc[j] = "over"
===============================================================================
