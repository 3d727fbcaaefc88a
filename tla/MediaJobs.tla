------------------------------- MODULE MediaJobs -------------------------------
(***************************************************************************)
(* Media generation jobs (RuntimeService.CreateMediaJob and its            *)
(* repository).                                                            *)
(*                                                                         *)
(* A job is a row of sys_media_generation_job and a goroutine that works   *)
(* on a copy of it: every write puts the whole copy over the row.  The     *)
(* service that starts marks what it finds unfinished as failed; after a   *)
(* restart in place the goroutines it speaks of are still at work.         *)
(*                                                                         *)
(* A row is reduced to its status, whether it has a media URL, the kind of *)
(* its error message, and whether it is deleted.  A step is a statement of *)
(* the database or the answer of agent-runtime.                            *)
(***************************************************************************)
EXTENDS Naturals

CONSTANTS
  MediaJob,                        \* the jobs that may be asked for
  MaxMediaRestarts, MaxMediaFaults \* bounds of the checked instance

VARIABLES
  mediaRow,      \* the table
  mediaCopy,     \* the goroutine's copy
  mediaPc,       \* where the goroutine is
  mediaRestarts, mediaFaults   \* what the bounds count

mediaVars == <<mediaRow, mediaCopy, mediaPc, mediaRestarts, mediaFaults>>

MediaContent == [status  : {"none", "queued", "running", "completed", "failed"},
                 url     : BOOLEAN,
                 message : {"", "interrupted", "error"}]

NoContent == [status |-> "none", url |-> FALSE, message |-> ""]

Unfinished == {"queued", "running"}

MediaTypeOK ==
  /\ mediaRow \in [MediaJob -> [content : MediaContent, deleted : BOOLEAN]]
  /\ mediaCopy \in [MediaJob -> MediaContent]
  /\ mediaPc \in [MediaJob -> {"idle", "begin", "generate", "finish", "over"}]
  /\ mediaRestarts \in Nat
  /\ mediaFaults \in Nat

MediaInit ==
  /\ mediaRow = [j \in MediaJob |-> [content |-> NoContent, deleted |-> FALSE]]
  /\ mediaCopy = [j \in MediaJob |-> NoContent]
  /\ mediaPc = [j \in MediaJob |-> "idle"]
  /\ mediaRestarts = 0
  /\ mediaFaults = 0

-------------------------------------------------------------------------------
(* Faulty variant: the update takes a struct, of which GORM writes the     *)
(* fields that are not zero.                                               *)
UpdatedNonzero(row, copy) ==
  IF row.deleted THEN row
  ELSE [row EXCEPT !.content = [status  |-> copy.status,
                                url     |-> copy.url \/ @.url,
                                message |-> IF copy.message = "" THEN @.message
                                                                 ELSE copy.message]]

(* The row after UpdateMediaJob: all of the copy, unless it is deleted.    *)
Updated(row, copy) == IF row.deleted THEN row ELSE [row EXCEPT !.content = copy]

(* A statement of the goroutine: its error is logged, and nothing else.    *)
UpdateMediaJob(j, copy) ==
  \/ /\ mediaRow' = [mediaRow EXCEPT ![j] = Updated(@, copy)]
     /\ UNCHANGED mediaFaults
  \/ /\ mediaFaults < MaxMediaFaults
     /\ mediaFaults' = mediaFaults + 1
     /\ UNCHANGED mediaRow

(* The row is inserted, and the goroutine starts with a copy of it.  An    *)
(* insert that fails is the caller's error and leaves nothing.             *)
CreateMediaJob(j) ==
  /\ mediaPc[j] = "idle"
  /\ LET queued == [NoContent EXCEPT !.status = "queued"]
     IN  /\ mediaRow' = [mediaRow EXCEPT ![j].content = queued]
         /\ mediaCopy' = [mediaCopy EXCEPT ![j] = queued]
  /\ mediaPc' = [mediaPc EXCEPT ![j] = "begin"]
  /\ UNCHANGED <<mediaRestarts, mediaFaults>>

(* runMediaJob: running is written,                                        *)
BeginMediaJob(j) ==
  /\ mediaPc[j] = "begin"
  /\ LET running == [mediaCopy[j] EXCEPT !.status = "running"]
     IN  mediaCopy' = [mediaCopy EXCEPT ![j] = running] /\ UpdateMediaJob(j, running)
  /\ mediaPc' = [mediaPc EXCEPT ![j] = "generate"]
  /\ UNCHANGED mediaRestarts

(* agent-runtime answers, with a result, whose URL may be empty, or an     *)
(* error,                                                                  *)
AnswerMediaJob(j) ==
  /\ mediaPc[j] = "generate"
  /\ \/ \E url \in BOOLEAN :
          mediaCopy' = [mediaCopy EXCEPT ![j].status = "completed", ![j].url = url]
     \/ mediaCopy' = [mediaCopy EXCEPT ![j].status = "failed", ![j].message = "error"]
  /\ mediaPc' = [mediaPc EXCEPT ![j] = "finish"]
  /\ UNCHANGED <<mediaRow, mediaRestarts, mediaFaults>>

(* and the answer is written.                                              *)
FinishMediaJob(j) ==
  /\ mediaPc[j] = "finish"
  /\ UpdateMediaJob(j, mediaCopy[j])
  /\ mediaPc' = [mediaPc EXCEPT ![j] = "over"]
  /\ UNCHANGED <<mediaCopy, mediaRestarts>>

(* DeleteMediaJob marks a row that is there; its goroutine goes on.        *)
DeleteMediaJob(j) ==
  /\ mediaRow[j].content.status # "none"
  /\ ~mediaRow[j].deleted
  /\ mediaRow' = [mediaRow EXCEPT ![j].deleted = TRUE]
  /\ UNCHANGED <<mediaCopy, mediaPc, mediaRestarts, mediaFaults>>

-------------------------------------------------------------------------------
(* The row after FailInterruptedMediaJobs.                                 *)
Interrupted(row) ==
  IF row.content.status \in Unfinished /\ ~row.deleted
  THEN [row EXCEPT !.content.status = "failed", !.content.message = "interrupted"]
  ELSE row

(* The service starts again, in place or after a crash, which ends every   *)
(* goroutine, and marks what it finds; that statement may fail too.        *)
RestartMedia ==
  /\ mediaRestarts < MaxMediaRestarts
  /\ mediaRestarts' = mediaRestarts + 1
  /\ \/ UNCHANGED mediaPc
     \/ mediaPc' = [j \in MediaJob |-> IF mediaPc[j] = "idle" THEN "idle" ELSE "over"]
  /\ \/ mediaRow' = [j \in MediaJob |-> Interrupted(mediaRow[j])] /\ UNCHANGED mediaFaults
     \/ /\ mediaFaults < MaxMediaFaults
        /\ mediaFaults' = mediaFaults + 1
        /\ UNCHANGED mediaRow
  /\ UNCHANGED mediaCopy

MediaNext ==
  \/ \E j \in MediaJob :
       \/ CreateMediaJob(j) \/ BeginMediaJob(j) \/ AnswerMediaJob(j)
       \/ FinishMediaJob(j) \/ DeleteMediaJob(j)
  \/ RestartMedia

MediaSpec == MediaInit /\ [][MediaNext]_mediaVars

-------------------------------------------------------------------------------
(* What a row says hangs together, whichever of goroutine and recovery     *)
(* wrote last: a completed job has no error, a failed one has its error    *)
(* and no URL, an unfinished one neither (UpdateMediaJob writes the empty  *)
(* columns as well).  And unless a write has failed, an unfinished one has *)
(* a goroutine that will write it, over any crash and restart              *)
(* (FailInterruptedMediaJobs).                                             *)
ContentCoherent(c) ==
  /\ c.url => c.status = "completed"
  /\ c.message # "" <=> c.status = "failed"

MediaNotStranded(j) ==
  (mediaRow[j].content.status \in Unfinished /\ ~mediaRow[j].deleted)
    => mediaPc[j] \in {"begin", "generate", "finish"}

MediaRowHonest ==
  \A j \in MediaJob :
    /\ ContentCoherent(mediaRow[j].content)
    /\ mediaFaults = 0 => MediaNotStranded(j)
===============================================================================
