------------------------------- MODULE JobProofs -------------------------------
(***************************************************************************)
(* The three kinds of jobs that a goroutine does after its request has     *)
(* been answered: media, the installation of a local model, training.      *)
(* Proved for any set of jobs and any number of restarts and of statements *)
(* that fail.                                                              *)
(*                                                                         *)
(* Then the scheduled tasks: a slot of one is executed once, and what a    *)
(* run has found comes to review; a run is started for a live task only,   *)
(* at a minute its cron expression means.  Proved for any tasks, cron      *)
(* expressions, and numbers of executions, crashes, restarts and failing   *)
(* statements.                                                             *)
(***************************************************************************)
EXTENDS MediaJobs, LocalInstaller, ModelTraining, ScheduledTasks, FiniteSetTheorems, TLAPS

(* Media jobs.                                                             *)

(* A write of a copy keeps the type of the table.                          *)
LEMMA WriteType ==
  ASSUME MediaTypeOK, NEW j \in MediaJob, NEW copy \in MediaContent, UpdateMediaJob(j, copy)
  PROVE  /\ mediaRow' \in [MediaJob -> [content : MediaContent, deleted : BOOLEAN]]
         /\ mediaFaults' \in Nat
<1>1. Updated(mediaRow[j], copy) \in [content : MediaContent, deleted : BOOLEAN]
  BY DEF MediaTypeOK, Updated
<1> QED  BY <1>1 DEF MediaTypeOK, UpdateMediaJob

(* Every action has its type.                                              *)
LEMMA MediaTypeStep ==
  ASSUME MediaTypeOK, [MediaNext]_mediaVars
  PROVE  MediaTypeOK'
<1> USE DEF MediaTypeOK
<1>1. ASSUME NEW j \in MediaJob, CreateMediaJob(j) PROVE MediaTypeOK'
  BY <1>1 DEF CreateMediaJob, NoContent, MediaContent
<1>2. ASSUME NEW j \in MediaJob, BeginMediaJob(j) PROVE MediaTypeOK'
  <2>1. [mediaCopy[j] EXCEPT !.status = "running"] \in MediaContent
    BY DEF MediaContent
  <2> QED  BY <1>2, <2>1, WriteType DEF BeginMediaJob
<1>3. ASSUME NEW j \in MediaJob, AnswerMediaJob(j) PROVE MediaTypeOK'
  <2>1. /\ \A url \in BOOLEAN :
             [mediaCopy[j] EXCEPT !.status = "completed", !.url = url] \in MediaContent
        /\ [mediaCopy[j] EXCEPT !.status = "failed", !.message = "error"] \in MediaContent
    BY DEF MediaContent
  <2>2. \E copy \in MediaContent : mediaCopy' = [mediaCopy EXCEPT ![j] = copy]
    BY <1>3, <2>1 DEF AnswerMediaJob
  <2> QED  BY <1>3, <2>2 DEF AnswerMediaJob
<1>4. ASSUME NEW j \in MediaJob, FinishMediaJob(j) PROVE MediaTypeOK'
  BY <1>4, WriteType DEF FinishMediaJob
<1>5. ASSUME NEW j \in MediaJob, DeleteMediaJob(j) PROVE MediaTypeOK'
  BY <1>5 DEF DeleteMediaJob
<1>6. CASE RestartMedia
  <2>1. \A old \in [content : MediaContent, deleted : BOOLEAN] :
          Interrupted(old) \in [content : MediaContent, deleted : BOOLEAN]
    BY DEF Interrupted, MediaContent
  <2> QED  BY <1>6, <2>1 DEF RestartMedia
<1>7. CASE UNCHANGED mediaVars
  BY <1>7 DEF mediaVars
<1> QED  BY <1>1, <1>2, <1>3, <1>4, <1>5, <1>6, <1>7 DEF MediaNext

(* The state of the media jobs has its type.                               *)
THEOREM MediaTypeCorrect == MediaSpec => []MediaTypeOK
<1>1. MediaInit => MediaTypeOK
  <2>1. NoContent \in MediaContent
    BY DEF NoContent, MediaContent
  <2> QED  BY <2>1 DEF MediaInit, MediaTypeOK
<1>2. MediaTypeOK /\ [MediaNext]_mediaVars => MediaTypeOK'
  BY MediaTypeStep
<1> QED  BY <1>1, <1>2, PTL DEF MediaSpec

-------------------------------------------------------------------------------
(* What the goroutine's copy says at each of its steps: it is coherent as  *)
(* the row is, and has the status its next write will give the row.        *)
CopyInv ==
  \A j \in MediaJob :
    /\ ContentCoherent(mediaCopy[j])
    /\ mediaPc[j] = "begin" => mediaCopy[j].status = "queued"
    /\ mediaPc[j] = "generate" => mediaCopy[j].status = "running"
    /\ mediaPc[j] = "finish" => mediaCopy[j].status \in {"completed", "failed"}

MediaInv == MediaTypeOK /\ CopyInv /\ MediaRowHonest

(* A recovery leaves a coherent row coherent, and none unfinished.         *)
LEMMA InterruptedCoherent ==
  ASSUME NEW old \in [content : MediaContent, deleted : BOOLEAN], ContentCoherent(old.content)
  PROVE  /\ ContentCoherent(Interrupted(old).content)
         /\ Interrupted(old).content.status \in Unfinished => Interrupted(old).deleted
BY DEF Interrupted, ContentCoherent, Unfinished, MediaContent

(* A write puts the copy over the row or leaves the row as it was.         *)
LEMMA WriteHonest ==
  ASSUME MediaInv, NEW j \in MediaJob, NEW copy \in MediaContent, ContentCoherent(copy),
         UpdateMediaJob(j, copy),
         copy.status \in Unfinished => mediaPc'[j] \in {"begin", "generate", "finish"},
         \A k \in MediaJob \ {j} : mediaPc'[k] = mediaPc[k]
  PROVE  MediaRowHonest'
<1> USE DEF MediaInv, MediaTypeOK, MediaRowHonest
<1>1. CASE mediaRow' = [mediaRow EXCEPT ![j] = Updated(@, copy)] /\ UNCHANGED mediaFaults
  <2> SUFFICES ASSUME NEW k \in MediaJob
               PROVE  /\ ContentCoherent(mediaRow'[k].content)
                      /\ mediaFaults' = 0 => MediaNotStranded(k)'
    BY DEF ContentCoherent
  <2>1. CASE k = j
    BY <1>1, <2>1 DEF Updated, MediaNotStranded
  <2>2. CASE k # j
    BY <1>1, <2>2 DEF MediaNotStranded
  <2> QED  BY <2>1, <2>2
<1>2. CASE mediaFaults' = mediaFaults + 1 /\ UNCHANGED mediaRow
  BY <1>2
<1> QED  BY <1>1, <1>2 DEF UpdateMediaJob

(* The invariant of the media jobs is kept by every step.                  *)
LEMMA MediaStep ==
  ASSUME MediaInv, [MediaNext]_mediaVars
  PROVE  MediaInv'
<1> USE DEF MediaInv
<1>0. MediaTypeOK'
  BY MediaTypeStep
<1>1. ASSUME NEW j \in MediaJob, CreateMediaJob(j) PROVE CopyInv' /\ MediaRowHonest'
  <2> DEFINE queued == [NoContent EXCEPT !.status = "queued"]
  <2>1. ContentCoherent(queued) /\ queued.status = "queued"
    BY DEF NoContent, ContentCoherent
  <2>2. CopyInv'
    BY <1>1, <2>1 DEF CreateMediaJob, CopyInv, MediaTypeOK
  <2>3. MediaRowHonest'
    <3> SUFFICES ASSUME NEW k \in MediaJob
                 PROVE  ContentCoherent(mediaRow'[k].content) /\ (mediaFaults' = 0 => MediaNotStranded(k)')
      BY DEF MediaRowHonest
    <3>1. CASE k = j
      BY <1>1, <2>1, <3>1 DEF CreateMediaJob, MediaNotStranded, MediaTypeOK
    <3>2. CASE k # j
      BY <1>1, <3>2 DEF CreateMediaJob, MediaNotStranded, MediaTypeOK, MediaRowHonest
    <3> QED  BY <3>1, <3>2
  <2> QED  BY <2>2, <2>3
<1>2. ASSUME NEW j \in MediaJob, BeginMediaJob(j) PROVE CopyInv' /\ MediaRowHonest'
  <2> DEFINE running == [mediaCopy[j] EXCEPT !.status = "running"]
  <2>1. running \in MediaContent /\ ContentCoherent(running)
    BY <1>2 DEF BeginMediaJob, CopyInv, ContentCoherent, MediaTypeOK, MediaContent
  <2>2. MediaRowHonest'
    BY <1>2, <2>1, WriteHonest DEF BeginMediaJob, MediaTypeOK
  <2>3. CopyInv'
    BY <1>2, <2>1 DEF BeginMediaJob, CopyInv, MediaTypeOK, MediaContent, ContentCoherent
  <2> QED  BY <2>2, <2>3
<1>3. ASSUME NEW j \in MediaJob, AnswerMediaJob(j) PROVE CopyInv' /\ MediaRowHonest'
  <2>1. MediaRowHonest'
    BY <1>3 DEF AnswerMediaJob, MediaRowHonest, MediaNotStranded, MediaTypeOK
  <2> DEFINE good(url) == [mediaCopy[j] EXCEPT !.status = "completed", !.url = url]
             bad == [mediaCopy[j] EXCEPT !.status = "failed", !.message = "error"]
  <2>2. /\ \A url \in BOOLEAN : ContentCoherent(good(url))
        /\ ContentCoherent(bad)
    BY <1>3 DEF AnswerMediaJob, CopyInv, ContentCoherent, MediaTypeOK, MediaContent
  <2>a. (\E url \in BOOLEAN : mediaCopy'[j] = good(url)) \/ mediaCopy'[j] = bad
    BY <1>3 DEF AnswerMediaJob, MediaTypeOK
  <2>b. (\A url \in BOOLEAN : good(url).status = "completed") /\ bad.status = "failed"
    BY DEF MediaTypeOK, MediaContent
  <2>3. ContentCoherent(mediaCopy'[j]) /\ mediaCopy'[j].status \in {"completed", "failed"}
    <3> HIDE DEF good, bad
    <3> QED  BY <2>2, <2>a, <2>b
  <2>4. mediaPc'[j] = "finish" /\ \A k \in MediaJob \ {j} : mediaCopy'[k] = mediaCopy[k] /\ mediaPc'[k] = mediaPc[k]
    BY <1>3 DEF AnswerMediaJob, MediaTypeOK
  <2>5. CopyInv'
    <3> SUFFICES ASSUME NEW k \in MediaJob
                 PROVE  /\ ContentCoherent(mediaCopy'[k])
                        /\ mediaPc'[k] = "begin" => mediaCopy'[k].status = "queued"
                        /\ mediaPc'[k] = "generate" => mediaCopy'[k].status = "running"
                        /\ mediaPc'[k] = "finish" => mediaCopy'[k].status \in {"completed", "failed"}
      BY DEF CopyInv
    <3> QED  BY <2>3, <2>4 DEF CopyInv
  <2> QED  BY <2>1, <2>5
<1>4. ASSUME NEW j \in MediaJob, FinishMediaJob(j) PROVE CopyInv' /\ MediaRowHonest'
  <2>1. mediaCopy[j].status \notin Unfinished /\ mediaCopy[j] \in MediaContent
    BY <1>4 DEF FinishMediaJob, CopyInv, Unfinished, MediaTypeOK
  <2>2. MediaRowHonest'
    BY <1>4, <2>1, WriteHonest DEF FinishMediaJob, MediaTypeOK, CopyInv
  <2>3. CopyInv'
    BY <1>4 DEF FinishMediaJob, CopyInv, MediaTypeOK, ContentCoherent
  <2> QED  BY <2>2, <2>3
<1>5. ASSUME NEW j \in MediaJob, DeleteMediaJob(j) PROVE CopyInv' /\ MediaRowHonest'
  <2>1. CopyInv'
    BY <1>5 DEF DeleteMediaJob, CopyInv, ContentCoherent
  <2>2. \A k \in MediaJob : /\ mediaRow'[k].content = mediaRow[k].content
                           /\ mediaRow[k].deleted => mediaRow'[k].deleted
    BY <1>5 DEF DeleteMediaJob, MediaTypeOK
  <2>3. MediaRowHonest'
    <3> SUFFICES ASSUME NEW k \in MediaJob
                 PROVE  ContentCoherent(mediaRow'[k].content) /\ (mediaFaults' = 0 => MediaNotStranded(k)')
      BY DEF MediaRowHonest
    <3>1. mediaRow'[k].deleted \in BOOLEAN /\ mediaRow[k].deleted \in BOOLEAN
      BY <1>0 DEF MediaTypeOK
    <3> QED  BY <1>5, <2>2, <3>1 DEF DeleteMediaJob, MediaRowHonest, MediaNotStranded
  <2> QED  BY <2>1, <2>3
<1>6. ASSUME RestartMedia PROVE CopyInv' /\ MediaRowHonest'
  <2>1. CopyInv'
    BY <1>6 DEF RestartMedia, CopyInv, ContentCoherent, MediaTypeOK
  <2>2. ASSUME mediaRow' = [j \in MediaJob |-> Interrupted(mediaRow[j])] PROVE MediaRowHonest'
    <3> SUFFICES ASSUME NEW k \in MediaJob
                 PROVE  ContentCoherent(mediaRow'[k].content) /\ MediaNotStranded(k)'
      BY DEF MediaRowHonest
    <3>1. mediaRow'[k] = Interrupted(mediaRow[k])
      BY <2>2
    <3> QED  BY <3>1, InterruptedCoherent DEF MediaRowHonest, MediaNotStranded, MediaTypeOK
  <2>3. ASSUME mediaFaults' = mediaFaults + 1, UNCHANGED mediaRow PROVE MediaRowHonest'
    BY <2>3 DEF MediaRowHonest, MediaTypeOK
  <2> QED  BY <1>6, <2>1, <2>2, <2>3 DEF RestartMedia
<1>7. ASSUME UNCHANGED mediaVars PROVE CopyInv' /\ MediaRowHonest'
  BY <1>7 DEF mediaVars, CopyInv, MediaRowHonest, MediaNotStranded, ContentCoherent
<1> QED  BY <1>0, <1>1, <1>2, <1>3, <1>4, <1>5, <1>6, <1>7 DEF MediaNext

(* What a row says hangs together, and an unfinished job has its           *)
(* goroutine, over any crash, restart in place and deletion.               *)
THEOREM MediaHonest == MediaSpec => []MediaRowHonest
<1>1. MediaInit => MediaInv
  <2>1. NoContent \in MediaContent /\ ContentCoherent(NoContent) /\ NoContent.status \notin Unfinished
    BY DEF NoContent, MediaContent, ContentCoherent, Unfinished
  <2>2. MediaInit => MediaTypeOK
    BY <2>1 DEF MediaInit, MediaTypeOK
  <2> QED  BY <2>1, <2>2 DEF MediaInit, MediaInv, CopyInv, MediaRowHonest, MediaNotStranded
<1>2. MediaInv /\ [MediaNext]_mediaVars => MediaInv'
  BY MediaStep
<1>3. MediaInv => MediaRowHonest
  BY DEF MediaInv
<1> QED  BY <1>1, <1>2, <1>3, PTL DEF MediaSpec

-------------------------------------------------------------------------------
(* Installations of local models.                                          *)

(* What is written belongs to the model.                                   *)
LEMMA CleanedKeeps ==
  ASSUME NEW fs
  PROVE  /\ Cleaned(fs) \subseteq fs
         /\ fs \cap {"base", "half"} # {} => Cleaned(fs) \cap {"base", "half"} # {}
BY DEF Cleaned

(* To end has a type of its own.                                           *)
LEMMA EndsType ==
  ASSUME InstallTypeOK, NEW j \in Install, NEW s \in {"completed", "failed"}, InstallEnds(j, s)
  PROVE  /\ installStatus' \in [Install -> {"none", "queued", "running", "completed", "failed"}]
         /\ installPc' \in [Install -> {"idle", "begin", "lock", "runtime", "pip", "check",
                                        "clean", "download", "over"}]
         /\ modelLock' \in [1 .. MaxInstallers -> [InstallModel -> Install \cup {NoJob}]]
         /\ installerOf' = installerOf /\ installer' = installer
<1> USE DEF InstallTypeOK, InstallEnds
<1>1. installerOf[j] \in 1 .. MaxInstallers /\ ModelOf(j) \in InstallModel
  BY DEF InstallModel
<1> DEFINE freed == [modelLock[installerOf[j]] EXCEPT ![ModelOf(j)] = NoJob]
<1>2. freed \in [InstallModel -> Install \cup {NoJob}]
  BY <1>1
<1>3. modelLock' = [modelLock EXCEPT ![installerOf[j]] = freed]
  OBVIOUS
<1> HIDE DEF freed
<1> QED  BY <1>1, <1>2, <1>3

(* Every action has its type.                                              *)
LEMMA InstallTypeStep ==
  ASSUME InstallTypeOK, [InstallNext]_installVars
  PROVE  InstallTypeOK'
<1> USE InstallAssumption DEF InstallAssumption, InstallTypeOK, diskVars
<1>1. ASSUME NEW j \in Install PROVE ModelOf(j) \in InstallModel
  BY DEF InstallModel
<1>2. ASSUME NEW j \in Install, StartInstall(j) PROVE InstallTypeOK'
  BY <1>2 DEF StartInstall
<1>3. ASSUME NEW j \in Install, BeginInstall(j) PROVE InstallTypeOK'
  BY <1>3 DEF BeginInstall
<1>4. ASSUME NEW j \in Install, LockModel(j) PROVE InstallTypeOK'
  BY <1>1, <1>4 DEF LockModel
<1>5. ASSUME NEW j \in Install, EnsureOllama(j) PROVE InstallTypeOK'
  BY <1>1, <1>5, EndsType DEF EnsureOllama, InstallGoes
<1>6. ASSUME NEW j \in Install, EnsureDiffusers(j) PROVE InstallTypeOK'
  BY <1>1, <1>6, EndsType DEF EnsureDiffusers, InstallGoes
<1>7. ASSUME NEW j \in Install, InstallPackages(j) PROVE InstallTypeOK'
  BY <1>1, <1>7, EndsType DEF InstallPackages, InstallGoes
<1>8. ASSUME NEW j \in Install, CheckInstalled(j) PROVE InstallTypeOK'
  BY <1>1, <1>8, EndsType DEF CheckInstalled, InstallGoes
<1>9. ASSUME NEW j \in Install, CleanModelDir(j) PROVE InstallTypeOK'
  <2>1. Cleaned(files[ModelOf(j)]) \subseteq files[ModelOf(j)]
    BY CleanedKeeps
  <2> QED  BY <1>1, <1>9, <2>1 DEF CleanModelDir, InstallGoes
<1>10. ASSUME NEW j \in Install, DownloadFile(j) PROVE InstallTypeOK'
  <2>1. PICK f \in RepoFiles(ModelOf(j)) :
          /\ got' = [got EXCEPT ![j] = @ \cup {f}]
          /\ files' = [files EXCEPT ![ModelOf(j)] = @ \cup {f}]
    BY <1>10 DEF DownloadFile
  <2>2. f \in WeightFile
    BY <1>1 DEF WeightFile
  <2> QED  BY <1>1, <1>10, <2>1, <2>2 DEF DownloadFile
<1>11. ASSUME NEW j \in Install, DownloadEnds(j) PROVE InstallTypeOK'
  BY <1>1, <1>11, EndsType DEF DownloadEnds
<1>12. ASSUME NEW j \in Install, DownloadFails(j) PROVE InstallTypeOK'
  BY <1>1, <1>12, EndsType DEF DownloadFails
<1>13. CASE RestartInstaller
  BY <1>13 DEF RestartInstaller
<1>14. CASE UNCHANGED installVars
  BY <1>14 DEF installVars, jobVars
<1> QED  BY <1>2, <1>3, <1>4, <1>5, <1>6, <1>7, <1>8, <1>9, <1>10, <1>11, <1>12, <1>13, <1>14
         DEF InstallNext

(* The first state has the type.                                           *)
LEMMA InstallTypeInit ==
  ASSUME InstallInit
  PROVE  InstallTypeOK
<1>1. 1 \in 1 .. MaxInstallers
  BY InstallAssumption DEF InstallAssumption
<1>2. modelLock \in [1 .. MaxInstallers -> [InstallModel -> Install \cup {NoJob}]]
  BY DEF InstallInit
<1>3. got \in [Install -> SUBSET WeightFile] /\ files \in [InstallModel -> SUBSET WeightFile]
  BY DEF InstallInit
<1> QED  BY <1>1, <1>2, <1>3 DEF InstallInit, InstallTypeOK, InstallModel

(* The state of the installers has its type.                               *)
THEOREM InstallTypeCorrect == InstallSpec => []InstallTypeOK
<1>1. InstallInit => InstallTypeOK
  BY InstallTypeInit
<1>2. InstallTypeOK /\ [InstallNext]_installVars => InstallTypeOK'
  BY InstallTypeStep
<1> QED  BY <1>1, <1>2, PTL DEF InstallSpec

-------------------------------------------------------------------------------
(* From the runtime on, a job holds the lock of its model in its installer.*)
Locked == {"runtime", "pip", "check", "clean", "download"}

LockHeld ==
  \A j \in Install : installPc[j] \in Locked => modelLock[installerOf[j]][ModelOf(j)] = j

CompletedIsOver == \A j \in Install : installStatus[j] = "completed" => installPc[j] = "over"

Weighty(fs) == fs \cap {"base", "half"} # {}

GotIsThere == \A j \in Install : Weighty(got[j]) => Weighty(files[ModelOf(j)])

InstallInv ==
  InstallTypeOK /\ LockHeld /\ CompletedIsOver /\ GotIsThere /\ InstalledOnceAndWhole

(* A job that goes on keeps the lock it has; one that ends lets its own go.*)
LEMMA LockStep ==
  ASSUME InstallTypeOK, LockHeld, [InstallNext]_installVars
  PROVE  LockHeld'
<1> USE DEF InstallTypeOK, LockHeld, Locked, InstallGoes, InstallEnds
<1>0. \A j \in Install : ModelOf(j) \in InstallModel
  BY DEF InstallModel
<1>1. ASSUME NEW j \in Install, StartInstall(j) PROVE LockHeld'
  BY <1>1 DEF StartInstall
<1>2. ASSUME NEW j \in Install, BeginInstall(j) PROVE LockHeld'
  BY <1>2 DEF BeginInstall
<1>3. ASSUME NEW j \in Install, LockModel(j) PROVE LockHeld'
  <2> SUFFICES ASSUME NEW k \in Install, installPc'[k] \in Locked
               PROVE  modelLock'[installerOf[k]][ModelOf(k)] = k
    BY <1>3 DEF LockModel
  <2>1. CASE k = j
    BY <1>0, <1>3, <2>1 DEF LockModel
  <2>2. CASE k # j
    <3>1. modelLock[installerOf[k]][ModelOf(k)] = k /\ k # NoJob
      BY <1>3, <2>2, InstallAssumption DEF InstallAssumption, LockModel
    <3>2. ~(installerOf[k] = installerOf[j] /\ ModelOf(k) = ModelOf(j))
      BY <1>3, <3>1 DEF LockModel
    <3> QED  BY <1>0, <1>3, <3>1, <3>2 DEF LockModel
  <2> QED  BY <2>1, <2>2
<1>4. ASSUME NEW j \in Install, installPc[j] \in Locked,
             \/ \E label \in Locked : InstallGoes(j, label)
             \/ \E s \in {"completed", "failed"} : InstallEnds(j, s)
      PROVE  LockHeld'
  <2>1. CASE \E label \in Locked : InstallGoes(j, label)
    BY <1>4, <2>1
  <2>2. CASE \E s \in {"completed", "failed"} : InstallEnds(j, s)
    <3> SUFFICES ASSUME NEW k \in Install, installPc'[k] \in Locked
                 PROVE  modelLock'[installerOf[k]][ModelOf(k)] = k
      BY <2>2
    <3>1. k # j
      BY <2>2
    <3>2. installPc[k] \in Locked
      BY <2>2, <3>1
    <3>3. modelLock[installerOf[k]][ModelOf(k)] = k /\ modelLock[installerOf[j]][ModelOf(j)] = j
      BY <1>4, <3>2
    <3>4. ~(installerOf[k] = installerOf[j] /\ ModelOf(k) = ModelOf(j))
      BY <3>1, <3>3
    <3> QED  BY <1>0, <2>2, <3>3, <3>4
  <2> QED  BY <1>4, <2>1, <2>2
<1>5. ASSUME NEW j \in Install,
             \/ EnsureOllama(j) \/ EnsureDiffusers(j) \/ InstallPackages(j) \/ CheckInstalled(j)
             \/ CleanModelDir(j) \/ DownloadEnds(j) \/ DownloadFails(j)
      PROVE  LockHeld'
  <2>1. /\ installPc[j] \in Locked
        /\ \/ \E label \in Locked : InstallGoes(j, label)
           \/ \E s \in {"completed", "failed"} : InstallEnds(j, s)
    BY <1>5, Zenon DEF EnsureOllama, EnsureDiffusers, InstallPackages, CheckInstalled,
                       CleanModelDir, DownloadEnds, DownloadFails
  <2> QED  BY <1>4, <2>1
<1>6. ASSUME NEW j \in Install, DownloadFile(j) PROVE LockHeld'
  BY <1>6 DEF DownloadFile
<1>7. CASE RestartInstaller
  BY <1>7 DEF RestartInstaller
<1>8. CASE UNCHANGED installVars
  BY <1>8 DEF installVars, jobVars
<1> QED  BY <1>1, <1>2, <1>3, <1>5, <1>6, <1>7, <1>8 DEF InstallNext

(* Only a goroutine that ends completes its job, and it does nothing more. *)
LEMMA CompletedStep ==
  ASSUME InstallTypeOK, CompletedIsOver, [InstallNext]_installVars
  PROVE  /\ CompletedIsOver'
         /\ \A k \in Install : installStatus[k] = "completed" =>
              installStatus'[k] = "completed" /\ installerOf'[k] = installerOf[k]
<1> USE DEF InstallTypeOK, CompletedIsOver, InstallGoes, InstallEnds
<1>1. ASSUME NEW j \in Install, StartInstall(j) \/ BeginInstall(j) \/ LockModel(j)
      PROVE  /\ CompletedIsOver'
             /\ \A k \in Install : installStatus[k] = "completed" =>
                  installStatus'[k] = "completed" /\ installerOf'[k] = installerOf[k]
  BY <1>1 DEF StartInstall, BeginInstall, LockModel
<1>2. ASSUME NEW j \in Install, EnsureOllama(j) \/ EnsureDiffusers(j) \/ InstallPackages(j)
      PROVE  /\ CompletedIsOver'
             /\ \A k \in Install : installStatus[k] = "completed" =>
                  installStatus'[k] = "completed" /\ installerOf'[k] = installerOf[k]
  BY <1>2 DEF EnsureOllama, EnsureDiffusers, InstallPackages
<1>3. ASSUME NEW j \in Install, CheckInstalled(j) \/ CleanModelDir(j) \/ DownloadFile(j)
      PROVE  /\ CompletedIsOver'
             /\ \A k \in Install : installStatus[k] = "completed" =>
                  installStatus'[k] = "completed" /\ installerOf'[k] = installerOf[k]
  BY <1>3 DEF CheckInstalled, CleanModelDir, DownloadFile
<1>4. ASSUME NEW j \in Install, DownloadEnds(j) \/ DownloadFails(j)
      PROVE  /\ CompletedIsOver'
             /\ \A k \in Install : installStatus[k] = "completed" =>
                  installStatus'[k] = "completed" /\ installerOf'[k] = installerOf[k]
  BY <1>4 DEF DownloadEnds, DownloadFails
<1>5. CASE RestartInstaller
  BY <1>5 DEF RestartInstaller
<1>6. CASE UNCHANGED installVars
  BY <1>6 DEF installVars, jobVars
<1> QED  BY <1>1, <1>2, <1>3, <1>4, <1>5, <1>6 DEF InstallNext

(* The lock keeps two jobs of one installer from downloading one model,    *)
(* and what is installed while a job downloads was completed elsewhere.    *)
LEMMA DownloadedOnceStep ==
  ASSUME InstallInv, [InstallNext]_installVars
  PROVE  DownloadedOnce'
<1> USE DEF InstallInv, InstallTypeOK, InstallGoes, InstallEnds, Downloading
<1> DEFINE Elsewhere(j) ==
             \E k \in Install : /\ ModelOf(k) = ModelOf(j) /\ installerOf[k] # installerOf[j]
                                /\ installStatus[k] = "completed"
<1>1. LockHeld'
  BY LockStep
<1>2. ASSUME NEW j \in Install, Downloading(j)', NEW k \in Install \ {j},
             ModelOf(k) = ModelOf(j), installerOf'[k] = installerOf'[j]
      PROVE  ~Downloading(k)'
  <2>1. modelLock'[installerOf'[j]][ModelOf(j)] = j
    BY <1>1, <1>2 DEF LockHeld, Locked
  <2>2. Downloading(k)' => modelLock'[installerOf'[k]][ModelOf(k)] = k
    BY <1>1 DEF LockHeld, Locked
  <2> QED  BY <1>2, <2>1, <2>2
<1>3. ASSUME NEW j \in Install, Downloading(j), installerOf'[j] = installerOf[j], Elsewhere(j)
      PROVE  Elsewhere(j)'
  BY <1>3, CompletedStep
<1>4. ASSUME NEW j \in Install, Downloading(j)', ModelOf(j) \in installed' PROVE Elsewhere(j)'
  <2>1. CASE ~Downloading(j)
    <3>1. ASSUME NEW i \in Install, CheckInstalled(i) PROVE ModelOf(j) \notin installed'
      BY <1>4, <2>1, <3>1 DEF CheckInstalled, diskVars
    <3>2. ASSUME NEW i \in Install,
                 \/ StartInstall(i) \/ BeginInstall(i) \/ LockModel(i)
                 \/ EnsureOllama(i) \/ EnsureDiffusers(i) \/ InstallPackages(i)
          PROVE  ~Downloading(j)'
      BY <2>1, <3>2 DEF StartInstall, BeginInstall, LockModel, EnsureOllama, EnsureDiffusers,
                        InstallPackages
    <3>3. ASSUME NEW i \in Install,
                 CleanModelDir(i) \/ DownloadFile(i) \/ DownloadEnds(i) \/ DownloadFails(i)
          PROVE  ~Downloading(j)'
      BY <2>1, <3>3 DEF CleanModelDir, DownloadFile, DownloadEnds, DownloadFails
    <3>4. CASE RestartInstaller
      BY <2>1, <3>4, <1>4 DEF RestartInstaller
    <3>5. CASE UNCHANGED installVars
      BY <2>1, <3>5, <1>4 DEF installVars, jobVars
    <3> QED  BY <1>4, <3>1, <3>2, <3>3, <3>4, <3>5 DEF InstallNext
  <2>2. CASE Downloading(j)
    <3>1. installerOf'[j] = installerOf[j]
      BY <2>2 DEF InstallNext, StartInstall, BeginInstall, LockModel, EnsureOllama,
                  EnsureDiffusers, InstallPackages, CheckInstalled, CleanModelDir, DownloadFile,
                  DownloadEnds, DownloadFails, RestartInstaller, installVars, jobVars
    <3>2. CASE ModelOf(j) \in installed
      BY <1>3, <2>2, <3>1, <3>2 DEF InstalledOnceAndWhole, DownloadedOnce
    <3>3. CASE ModelOf(j) \notin installed
      <4>1. ASSUME NEW i \in Install,
                   \/ StartInstall(i) \/ BeginInstall(i) \/ LockModel(i) \/ EnsureOllama(i)
                   \/ EnsureDiffusers(i) \/ InstallPackages(i) \/ CheckInstalled(i)
                   \/ CleanModelDir(i) \/ DownloadFile(i) \/ DownloadFails(i)
            PROVE  UNCHANGED installed
        BY <4>1 DEF StartInstall, BeginInstall, LockModel, EnsureOllama, EnsureDiffusers,
                    InstallPackages, CheckInstalled, CleanModelDir, DownloadFile, DownloadFails,
                    diskVars
      <4>2. RestartInstaller \/ UNCHANGED installVars => UNCHANGED installed
        BY DEF RestartInstaller, installVars, diskVars
      <4>3. PICK i \in Install : DownloadEnds(i)
        BY <1>4, <3>3, <4>1, <4>2 DEF InstallNext
      <4>4. ModelOf(i) = ModelOf(j)
        BY <1>4, <3>3, <4>3 DEF DownloadEnds
      <4>5. i # j
        BY <1>4, <4>3 DEF DownloadEnds
      <4>6. installerOf[i] # installerOf[j]
        BY <2>2, <4>3, <4>4, <4>5 DEF DownloadEnds, InstalledOnceAndWhole, DownloadedOnce
      <4> QED  BY <4>3, <4>4, <4>6 DEF DownloadEnds
    <3> QED  BY <3>2, <3>3
  <2> QED  BY <2>1, <2>2
<1> QED  BY <1>2, <1>4 DEF DownloadedOnce

(* Files are never left without weights once some of them are there, and   *)
(* the marker is written when a download has them all.                     *)
LEMMA WeightsStep ==
  ASSUME InstallInv, [InstallNext]_installVars
  PROVE  GotIsThere' /\ InstalledHasWeights'
<1> USE DEF InstallInv, InstallTypeOK, InstallGoes, InstallEnds, InstalledOnceAndWhole, GotIsThere,
            InstalledHasWeights, Weighty
<1>0. \A j \in Install : ModelOf(j) \in InstallModel
  BY DEF InstallModel
<1>1. CASE UNCHANGED <<got, files, installed>>
  BY <1>1
<1>2. ASSUME NEW j \in Install, CleanModelDir(j) PROVE GotIsThere' /\ InstalledHasWeights'
  <2>1. files' = [files EXCEPT ![ModelOf(j)] = Cleaned(files[ModelOf(j)])] /\ UNCHANGED <<got, installed>>
    BY <1>2 DEF CleanModelDir
  <2>2. \A m \in InstallModel : Weighty(files[m]) => Weighty(files'[m])
    BY <1>0, <2>1, CleanedKeeps
  <2> QED  BY <1>0, <2>1, <2>2
<1>3. ASSUME NEW j \in Install, DownloadFile(j) PROVE GotIsThere' /\ InstalledHasWeights'
  <2>1. PICK f \in RepoFiles(ModelOf(j)) :
          /\ got' = [got EXCEPT ![j] = @ \cup {f}]
          /\ files' = [files EXCEPT ![ModelOf(j)] = @ \cup {f}]
          /\ UNCHANGED installed
    BY <1>3 DEF DownloadFile
  <2>2. /\ files'[ModelOf(j)] = files[ModelOf(j)] \cup {f} /\ got'[j] = got[j] \cup {f}
        /\ \A m \in InstallModel \ {ModelOf(j)} : files'[m] = files[m]
        /\ \A k \in Install \ {j} : got'[k] = got[k]
    BY <1>0, <2>1
  <2>3. GotIsThere'
    <3> SUFFICES ASSUME NEW k \in Install, Weighty(got'[k]) PROVE Weighty(files'[ModelOf(k)])
      OBVIOUS
    <3>1. CASE k = j
      BY <2>2, <3>1
    <3>2. CASE k # j
      BY <1>0, <2>2, <3>2
    <3> QED  BY <3>1, <3>2
  <2>4. InstalledHasWeights'
    BY <1>0, <2>1, <2>2
  <2> QED  BY <2>3, <2>4
<1>4. ASSUME NEW j \in Install, DownloadEnds(j) PROVE GotIsThere' /\ InstalledHasWeights'
  <2>1. ModelOf(j) \in DiffusersModel => Weighty(files[ModelOf(j)])
    BY <1>0, <1>4, InstallAssumption DEF InstallAssumption, DownloadEnds
  <2> QED  BY <1>4, <2>1 DEF DownloadEnds
<1>5. ASSUME NEW j \in Install,
             \/ StartInstall(j) \/ BeginInstall(j) \/ LockModel(j) \/ EnsureOllama(j)
             \/ EnsureDiffusers(j) \/ InstallPackages(j) \/ CheckInstalled(j) \/ DownloadFails(j)
      PROVE  UNCHANGED <<got, files, installed>>
  BY <1>5 DEF StartInstall, BeginInstall, LockModel, EnsureOllama, EnsureDiffusers,
              InstallPackages, CheckInstalled, DownloadFails, diskVars
<1>6. RestartInstaller \/ UNCHANGED installVars => UNCHANGED <<got, files, installed>>
  BY DEF RestartInstaller, installVars, jobVars, diskVars
<1> QED  BY <1>1, <1>2, <1>3, <1>4, <1>5, <1>6 DEF InstallNext

(* A model is downloaded once by the jobs of an installer, however many    *)
(* ask for it, and one that counts as installed has its weights            *)
(* (localModelInstaller.run, cleanupUnusedDiffusersArtifacts).             *)
THEOREM InstalledOnce == InstallSpec => []InstalledOnceAndWhole
<1>1. InstallInit => InstallInv
  <2>1. InstallInit => InstallTypeOK
    BY InstallTypeInit
  <2> QED  BY <2>1 DEF InstallInit, InstallInv, LockHeld, Locked, CompletedIsOver, GotIsThere, Weighty,
              InstalledOnceAndWhole, DownloadedOnce, Downloading, InstalledHasWeights
<1>2. InstallInv /\ [InstallNext]_installVars => InstallInv'
  <2> SUFFICES ASSUME InstallInv, [InstallNext]_installVars PROVE InstallInv'
    OBVIOUS
  <2>1. InstallTypeOK'
    BY InstallTypeStep DEF InstallInv
  <2>2. LockHeld' /\ CompletedIsOver'
    BY LockStep, CompletedStep DEF InstallInv
  <2> QED  BY <2>1, <2>2, DownloadedOnceStep, WeightsStep DEF InstallInv, InstalledOnceAndWhole
<1>3. InstallInv => InstalledOnceAndWhole
  BY DEF InstallInv
<1> QED  BY <1>1, <1>2, <1>3, PTL DEF InstallSpec

-------------------------------------------------------------------------------
(* Training jobs.                                                          *)

(* A write of a status keeps the type of the table,                        *)
LEMMA StatusType ==
  ASSUME TrainingTypeOK, NEW j \in Training, NEW s \in {"failed", "canceled"} \cup Active,
         SetTrainingStatus(j, s)
  PROVE  /\ trainingRow' \in [Training -> {"none", "failed", "canceled"} \cup Active]
         /\ trainingFaults' \in Nat
<1>1. CASE trainingRow' = [trainingRow EXCEPT ![j] = s] /\ UNCHANGED trainingFaults
  BY <1>1 DEF TrainingTypeOK
<1>2. CASE trainingFaults' = trainingFaults + 1 /\ UNCHANGED trainingRow
  BY <1>2 DEF TrainingTypeOK
<1> QED  BY <1>1, <1>2 DEF SetTrainingStatus

(* a fault is a number,                                                    *)
LEMMA CountsType ==
  ASSUME TrainingTypeOK
  PROVE  /\ trainingFaults \in Nat /\ trainingRestarts \in Nat
         /\ trainingFaults + 1 \in Nat \ {0} /\ trainingRestarts + 1 \in Nat \ {0}
BY DEF TrainingTypeOK

(* What saving the data does to the state.                                 *)
LEMMA DatasetSaved ==
  ASSUME NEW j \in Training, SaveDataset(j)
  PROVE  \/ RefuseTraining(j) /\ UNCHANGED trainingFaults
         \/ /\ trainingPc' = [trainingPc EXCEPT ![j] = "count"]
            /\ UNCHANGED <<tableVars, requestVars, contextVars, ollama, trainingRestarts, trainingFaults>>
BY DEF SaveDataset

(* a refusal that of the state,                                            *)
LEMMA RefuseType ==
  ASSUME TrainingTypeOK, NEW j \in Training, RefuseTraining(j), trainingFaults' \in Nat
  PROVE  TrainingTypeOK'
BY DEF RefuseTraining, TrainingTypeOK, tableVars, contextVars

(* and so does every action of the training jobs.                          *)
LEMMA TrainingTypeStep ==
  ASSUME TrainingTypeOK, [TrainingNext]_trainingVars
  PROVE  TrainingTypeOK'
<1> USE DEF TrainingTypeOK, Working, Active, tableVars, requestVars, contextVars
<1>1. ASSUME NEW j \in Training, PrepareTraining(j) PROVE TrainingTypeOK'
  BY <1>1 DEF PrepareTraining
<1>2. ASSUME NEW j \in Training, SaveDataset(j) PROVE TrainingTypeOK'
  <2>1. CASE RefuseTraining(j) /\ UNCHANGED trainingFaults
    BY <2>1, RefuseType
  <2>2. CASE /\ trainingPc' = [trainingPc EXCEPT ![j] = "count"]
             /\ UNCHANGED <<tableVars, requestVars, contextVars, ollama, trainingRestarts, trainingFaults>>
    BY <2>2
  <2> QED  BY <1>2, <2>1, <2>2, DatasetSaved
<1>3. ASSUME NEW j \in Training, CountDuplicates(j) PROVE TrainingTypeOK'
  <2>1. CASE RefuseTraining(j) /\ UNCHANGED trainingFaults
    BY <2>1, RefuseType
  <2>2. CASE /\ candid' = [candid EXCEPT ![j] = {k \in Training : Candid(k)}]
             /\ trainingPc' = [trainingPc EXCEPT ![j] = "insert"]
             /\ UNCHANGED <<tableVars, trainingRequest, jobDir, contextVars, ollama, trainingRestarts,
                            trainingFaults>>
    BY <2>2
  <2> QED  BY <1>3, <2>1, <2>2 DEF CountDuplicates
<1>4. ASSUME NEW j \in Training, InsertTraining(j) PROVE TrainingTypeOK'
  <2>1. CASE /\ trainingRow' = [trainingRow EXCEPT ![j] = "queued"]
             /\ trainingPc' = [trainingPc EXCEPT ![j] = "register cancel"]
             /\ UNCHANGED <<outputModel, requestVars, contextVars, ollama, trainingRestarts, trainingFaults>>
    BY <2>1
  <2>2. CASE trainingFaults' = trainingFaults + 1 /\ RefuseTraining(j)
    <3>1. trainingFaults' \in Nat
      BY <2>2, CountsType
    <3> QED  BY <2>2, <3>1, RefuseType
  <2> QED  BY <1>4, <2>1, <2>2 DEF InsertTraining
<1>5. ASSUME NEW j \in Training, RegisterCancel(j) PROVE TrainingTypeOK'
  BY <1>5 DEF RegisterCancel
<1>6. ASSUME NEW j \in Training, BeginTraining(j) PROVE TrainingTypeOK'
  BY <1>6, StatusType DEF BeginTraining
<1>7. ASSUME NEW j \in Training, CommandEnds(j) PROVE TrainingTypeOK'
  <2>1. NextLabel(j) \in Working
    BY <1>7 DEF CommandEnds, External, NextLabel
  <2> QED  BY <1>7, <2>1 DEF CommandEnds
<1>8. ASSUME NEW j \in Training, TrainingFails(j) PROVE TrainingTypeOK'
  <2>1. /\ trainingRow' \in [Training -> {"none", "failed", "canceled"} \cup Active]
        /\ trainingFaults' \in Nat
    BY <1>8, StatusType DEF TrainingFails
  <2> QED  BY <1>8, <2>1 DEF TrainingFails
<1>9. ASSUME NEW j \in Training, RegisterModel(j) PROVE TrainingTypeOK'
  BY <1>9 DEF RegisterModel
<1>10. ASSUME NEW j \in Training, CompleteTraining(j) PROVE TrainingTypeOK'
  BY <1>10, StatusType DEF CompleteTraining
<1>11. ASSUME NEW j \in Training, LeaveTraining(j) PROVE TrainingTypeOK'
  BY <1>11 DEF LeaveTraining
<1>12. ASSUME NEW j \in Training, CancelTraining(j) PROVE TrainingTypeOK'
  <2>1. CASE CancelReads(j) \/ CancelSignals(j)
    BY <2>1 DEF CancelReads, CancelSignals
  <2>2. CASE CancelWrites(j)
    BY <2>2, StatusType DEF CancelWrites
  <2> QED  BY <1>12, <2>1, <2>2 DEF CancelTraining
<1>13. CASE RestartTraining
  <2>1. trainingRestarts' \in Nat /\ trainingFaults' \in Nat
    BY <1>13, CountsType DEF RestartTraining
  <2>2. trainingRow' \in [Training -> {"none", "failed", "canceled"} \cup Active]
    BY <1>13 DEF RestartTraining, Recovered
  <2>3. trainingPc' \in [Training -> {"idle", "save", "count", "insert", "over"} \cup Working]
    BY <1>13 DEF RestartTraining
  <2> QED  BY <1>13, <2>1, <2>2, <2>3 DEF RestartTraining
<1>14. CASE UNCHANGED trainingVars
  BY <1>14 DEF trainingVars
<1> QED  BY <1>1, <1>2, <1>3, <1>4, <1>5, <1>6, <1>7, <1>8, <1>9, <1>10, <1>11, <1>12, <1>13, <1>14
         DEF TrainingNext, CreateTraining, RunTraining

(* The first state has its type.                                           *)
LEMMA TrainingTypeInit == TrainingInit => TrainingTypeOK
BY DEF TrainingInit, TrainingTypeOK, Active, Working

(* The state of the training jobs has its type.                            *)
THEOREM TrainingTypeCorrect == TrainingSpec => []TrainingTypeOK
<1>1. TrainingTypeOK /\ [TrainingNext]_trainingVars => TrainingTypeOK'
  BY TrainingTypeStep
<1> QED  BY <1>1, TrainingTypeInit, PTL DEF TrainingSpec

-------------------------------------------------------------------------------
(* A row is that of a goroutine, at work or over, and only a row that is   *)
(* there is being canceled.                                                *)
RowInv ==
  \A j \in Training :
    /\ trainingRow[j] # "none" => trainingPc[j] \in Working \cup {"over"}
    /\ cancelPc[j] # "idle" => trainingRow[j] # "none"

(* What is to be registered, or is, has its name in Ollama.                *)
InstalledInv ==
  \A j \in Training :
    (j \in outputModel \/ trainingPc[j] \in {"register", "complete"}) => OutputName(j) \in ollama

(* What a create has counted as ended cannot register any more.            *)
CandidInv ==
  \A j, k \in Training :
    (j \in candid[k] /\ j # k /\ OutputName(j) = OutputName(k)) =>
      /\ trainingRow[j] # "none" /\ j \notin outputModel
      /\ j \in contextOver \/ trainingPc[j] = "over"

(* A goroutine that leaves has said its last word.                         *)
LeavesAccounted ==
  \A j \in Training :
    trainingFaults = 0 /\ trainingPc[j] = "leave" =>
      trainingRow[j] \notin {"queued", "running"} \/ j \in contextOver

TrainingInv ==
  TrainingTypeOK /\ RowInv /\ InstalledInv /\ CandidInv /\ LeavesAccounted /\ NothingLeftBehind

(* What a status does to the rows of the other jobs, and to its own.       *)
LEMMA StatusSet ==
  ASSUME TrainingTypeOK, NEW j \in Training, NEW s, s # "none", SetTrainingStatus(j, s)
  PROVE  /\ \A k \in Training \ {j} : trainingRow'[k] = trainingRow[k]
         /\ trainingRow'[j] = s \/ (trainingRow'[j] = trainingRow[j] /\ trainingFaults' # 0)
         /\ trainingFaults' = 0 => trainingFaults = 0
BY DEF TrainingTypeOK, SetTrainingStatus

(* What a step of a create does to the state: it moves its job only, and a *)
(* row is inserted when the goroutine is about to start.                   *)
LEMMA Created ==
  ASSUME TrainingTypeOK, NEW j \in Training, CreateTraining(j)
  PROVE  /\ trainingPc[j] \in {"idle", "save", "count", "insert", "register cancel"}
         /\ trainingPc'[j] \in {"save", "count", "insert", "register cancel", "begin", "over"}
         /\ \A k \in Training \ {j} :
              /\ trainingPc'[k] = trainingPc[k] /\ trainingRow'[k] = trainingRow[k]
              /\ k \in jobDir' <=> k \in jobDir
         /\ UNCHANGED <<outputModel, contextOver, cancelPc, ollama, trainingRestarts>>
         /\ trainingPc[j] = "register cancel" <=> trainingPc'[j] = "begin"
         /\ trainingPc'[j] = "begin" => jobDir' = jobDir
         /\ trainingPc'[j] = "over" => j \notin jobDir'
         /\ trainingRow'[j] # trainingRow[j] => trainingPc'[j] = "register cancel"
         /\ trainingPc'[j] = "register cancel" => trainingRow'[j] = "queued"
         /\ trainingFaults' = 0 => trainingFaults = 0
         /\ ~CountDuplicates(j) => candid' = candid
<1> USE DEF TrainingTypeOK, tableVars, requestVars, contextVars
<1>1. CASE PrepareTraining(j)
  BY <1>1 DEF PrepareTraining
<1>2. CASE SaveDataset(j)
  <2>1. trainingPc[j] = "save"
    BY <1>2 DEF SaveDataset
  <2> QED  BY <1>2, <2>1, DatasetSaved DEF RefuseTraining
<1>3. CASE CountDuplicates(j)
  BY <1>3 DEF CountDuplicates, RefuseTraining
<1>4. CASE InsertTraining(j)
  <2>1. trainingFaults' = 0 => trainingFaults = 0
    BY <1>4, CountsType DEF InsertTraining
  <2> QED  BY <1>4, <2>1 DEF InsertTraining, RefuseTraining
<1>5. CASE RegisterCancel(j)
  BY <1>5 DEF RegisterCancel
<1> QED  BY <1>1, <1>2, <1>3, <1>4, <1>5 DEF CreateTraining

(* What a restart does.                                                    *)
LEMMA Restarted ==
  ASSUME TrainingTypeOK, RestartTraining
  PROVE  /\ \A j \in Training :
              /\ trainingRow'[j] = "none" <=> trainingRow[j] = "none"
              /\ trainingPc'[j] \in {trainingPc[j], "over"}
              /\ cancelPc'[j] = "idle"
              /\ trainingFaults' = 0 => trainingRow'[j] \notin {"queued", "running"}
         /\ trainingRestarts' # 0
         /\ UNCHANGED <<outputModel, jobDir, candid, contextOver, ollama>>
<1>1. trainingRestarts' # 0 /\ (trainingFaults' = 0 => trainingFaults' # trainingFaults + 1)
  BY CountsType DEF RestartTraining
<1>2. trainingFaults' = 0 => trainingRow' = [j \in Training |-> Recovered(trainingRow[j])]
  BY <1>1 DEF RestartTraining
<1>3. /\ \A j \in Training : trainingRow'[j] \in {trainingRow[j], Recovered(trainingRow[j])}
      /\ \A j \in Training : trainingFaults' = 0 => trainingRow'[j] = Recovered(trainingRow[j])
  BY <1>2 DEF RestartTraining, TrainingTypeOK
<1>4. \A j \in Training : /\ trainingPc'[j] \in {trainingPc[j], "over"}
                          /\ cancelPc'[j] = "idle"
  BY DEF RestartTraining, TrainingTypeOK
<1>5. UNCHANGED <<outputModel, jobDir, candid, contextOver, ollama>>
  BY DEF RestartTraining, requestVars
<1>6. \A s : (Recovered(s) = "none" <=> s = "none") /\ Recovered(s) \notin {"queued", "running"}
  BY DEF Recovered
<1>7. \A j \in Training : /\ trainingRow'[j] = "none" <=> trainingRow[j] = "none"
                          /\ trainingFaults' = 0 => trainingRow'[j] \notin {"queued", "running"}
  BY <1>3, <1>6
<1> QED  BY <1>1, <1>4, <1>5, <1>7

(* Every action keeps the parts of the invariant: the rows,                *)
LEMMA RowStep ==
  ASSUME TrainingInv, [TrainingNext]_trainingVars
  PROVE  RowInv'
<1> USE DEF TrainingInv, RowInv
<1>1. ASSUME NEW j \in Training, CreateTraining(j) PROVE RowInv'
  BY <1>1, Created DEF Working
<1>2. ASSUME NEW j \in Training, RunTraining(j) PROVE RowInv'
  <2>1. /\ trainingPc[j] \in Working /\ trainingPc'[j] \in Working \cup {"over"}
        /\ \A k \in Training \ {j} : trainingPc'[k] = trainingPc[k] /\ trainingRow'[k] = trainingRow[k]
        /\ cancelPc' = cancelPc
        /\ trainingRow[j] # "none" => trainingRow'[j] # "none"
    BY <1>2 DEF RunTraining, BeginTraining, CommandEnds, TrainingFails, RegisterModel, CompleteTraining,
             LeaveTraining, SetTrainingStatus, External, NextLabel, Working, TrainingTypeOK, contextVars,
             tableVars
  <2> QED  BY <2>1
<1>3. ASSUME NEW j \in Training, CancelTraining(j) PROVE RowInv'
  <2>1. /\ trainingPc' = trainingPc
        /\ \A k \in Training \ {j} : cancelPc'[k] = cancelPc[k] /\ trainingRow'[k] = trainingRow[k]
        /\ trainingRow[j] # "none" /\ trainingRow'[j] # "none"
    BY <1>3 DEF CancelTraining, CancelReads, CancelSignals, CancelWrites, SetTrainingStatus, TrainingTypeOK,
             tableVars
  <2> QED  BY <2>1
<1>4. CASE RestartTraining
  BY <1>4, Restarted
<1>5. CASE UNCHANGED trainingVars
  BY <1>5 DEF trainingVars, tableVars, contextVars
<1> QED  BY <1>1, <1>2, <1>3, <1>4, <1>5 DEF TrainingNext

(* the names in Ollama,                                                    *)
LEMMA InstalledStep ==
  ASSUME TrainingInv, [TrainingNext]_trainingVars
  PROVE  InstalledInv'
<1> USE DEF TrainingInv, InstalledInv, tableVars, requestVars, contextVars
<1>1. ASSUME NEW j \in Training, CreateTraining(j) PROVE InstalledInv'
  BY <1>1, Created
<1>2. ASSUME NEW j \in Training, CommandEnds(j) PROVE InstalledInv'
  <2>1. /\ ollama \subseteq ollama' /\ outputModel' = outputModel
        /\ \A k \in Training \ {j} : trainingPc'[k] = trainingPc[k]
    BY <1>2 DEF CommandEnds, TrainingTypeOK
  <2>2. trainingPc'[j] \in {"register", "complete"} => OutputName(j) \in ollama'
    BY <1>2 DEF CommandEnds, External, NextLabel, TrainingTypeOK
  <2> QED  BY <2>1, <2>2
<1>3. ASSUME NEW j \in Training, BeginTraining(j) \/ TrainingFails(j) \/ RegisterModel(j)
                                   \/ CompleteTraining(j) \/ LeaveTraining(j)
      PROVE  InstalledInv'
  BY <1>3 DEF BeginTraining, TrainingFails, RegisterModel, CompleteTraining, LeaveTraining, TrainingTypeOK
<1>4. ASSUME NEW j \in Training, CancelTraining(j) PROVE InstalledInv'
  BY <1>4 DEF CancelTraining, CancelReads, CancelSignals, CancelWrites
<1>5. CASE RestartTraining
  BY <1>5 DEF RestartTraining, TrainingTypeOK
<1>6. CASE UNCHANGED trainingVars
  BY <1>6 DEF trainingVars
<1> QED  BY <1>1, <1>2, <1>3, <1>4, <1>5, <1>6 DEF TrainingNext, RunTraining

(* A job that has been counted as ended stays so, whatever happens.        *)
Settled(j) == trainingRow[j] # "none" /\ j \notin outputModel /\ (j \in contextOver \/ trainingPc[j] = "over")

(* No step takes that back.                                                *)
LEMMA StaysSettled ==
  ASSUME TrainingInv, [TrainingNext]_trainingVars, NEW j \in Training, Settled(j)
  PROVE  Settled(j)'
<1> USE DEF TrainingInv, Settled, tableVars, requestVars, contextVars
<1>1. ASSUME NEW k \in Training, CreateTraining(k) PROVE Settled(j)'
  <2>1. trainingPc[j] \in Working \cup {"over"}
    BY DEF RowInv
  <2> QED  BY <1>1, <2>1, Created DEF Working
<1>2. ASSUME NEW k \in Training, RunTraining(k) PROVE Settled(j)'
  <2>1. CASE k = j
    BY <1>2, <2>1 DEF RunTraining, BeginTraining, CommandEnds, TrainingFails, RegisterModel, CompleteTraining,
             LeaveTraining, SetTrainingStatus, External, TrainingTypeOK
  <2>2. CASE k # j
    BY <1>2, <2>2 DEF RunTraining, BeginTraining, CommandEnds, TrainingFails, RegisterModel, CompleteTraining,
             LeaveTraining, SetTrainingStatus, TrainingTypeOK
  <2> QED  BY <2>1, <2>2
<1>3. ASSUME NEW k \in Training, CancelTraining(k) PROVE Settled(j)'
  BY <1>3 DEF CancelTraining, CancelReads, CancelSignals, CancelWrites, SetTrainingStatus, TrainingTypeOK
<1>4. CASE RestartTraining
  BY <1>4 DEF RestartTraining, Recovered, TrainingTypeOK
<1>5. CASE UNCHANGED trainingVars
  BY <1>5 DEF trainingVars
<1> QED  BY <1>1, <1>2, <1>3, <1>4, <1>5 DEF TrainingNext

(* what the creates have counted,                                          *)
LEMMA CandidStep ==
  ASSUME TrainingInv, [TrainingNext]_trainingVars
  PROVE  CandidInv'
<1> USE DEF TrainingInv
<1> SUFFICES ASSUME NEW j \in Training, NEW k \in Training,
                    j \in candid'[k], j # k, OutputName(j) = OutputName(k)
             PROVE  Settled(j)'
  BY DEF CandidInv, Settled
<1>1. CASE j \in candid[k]
  BY <1>1, StaysSettled DEF CandidInv, Settled
<1>2. CASE j \notin candid[k]
  <2>1. CountDuplicates(k)
    <3>1. ASSUME NEW i \in Training, CountDuplicates(i) PROVE i = k
      BY <1>2, <3>1 DEF CountDuplicates, RefuseTraining, TrainingTypeOK
    <3>2. ASSUME NEW i \in Training, ~CountDuplicates(i), CreateTraining(i) PROVE FALSE
      BY <1>2, <3>2, Created
    <3>3. ASSUME NEW i \in Training, RunTraining(i) \/ CancelTraining(i) PROVE FALSE
      BY <1>2, <3>3 DEF RunTraining, BeginTraining, CommandEnds, TrainingFails, RegisterModel,
               CompleteTraining, LeaveTraining, CancelTraining, CancelReads, CancelSignals, CancelWrites,
               requestVars
    <3>4. CASE RestartTraining
      BY <1>2, <3>4 DEF RestartTraining, requestVars
    <3>5. CASE UNCHANGED trainingVars
      BY <1>2, <3>5 DEF trainingVars, requestVars
    <3> QED  BY <3>1, <3>2, <3>3, <3>4, <3>5 DEF TrainingNext
  <2>2. /\ OutputName(k) \notin ollama /\ Counted(k) = {}
        /\ Candid(j)
        /\ UNCHANGED <<tableVars, contextVars>> /\ trainingPc' = [trainingPc EXCEPT ![k] = "insert"]
    BY <1>2, <2>1 DEF CountDuplicates, RefuseTraining, TrainingTypeOK
  <2>3. j \notin outputModel
    BY <2>2 DEF InstalledInv
  <2>4. trainingRow[j] # "none" /\ (j \in contextOver \/ trainingPc[j] \notin Working)
    BY <2>2 DEF Counted, Candid
  <2>5. j \in contextOver \/ trainingPc[j] = "over"
    BY <2>4 DEF RowInv
  <2> QED  BY <2>2, <2>3, <2>4, <2>5 DEF Settled, tableVars, contextVars, TrainingTypeOK
<1> QED  BY <1>1, <1>2

(* and that nothing is left behind.                                        *)
LEMMA AccountedStep ==
  ASSUME TrainingInv, [TrainingNext]_trainingVars
  PROVE  LeavesAccounted' /\ NothingLeftBehind'
<1> USE DEF TrainingInv, LeavesAccounted, NothingLeftBehind, tableVars, requestVars, contextVars
<1> DEFINE Good == LeavesAccounted /\ NothingLeftBehind
<1>1. ASSUME NEW j \in Training, CreateTraining(j) PROVE Good'
  <2>1. LeavesAccounted'
    BY <1>1, Created
  <2>2. NothingLeftBehind'
    <3> SUFFICES ASSUME NEW k \in Training
                 PROVE  /\ (trainingFaults' = 0 /\ trainingRow'[k] \in {"queued", "running"}) =>
                             trainingPc'[k] \in Working \/ k \in contextOver'
                        /\ (trainingRestarts' = 0 /\ k \in jobDir' /\ trainingRow'[k] = "none") =>
                             trainingPc'[k] \in {"save", "count", "insert"}
      OBVIOUS
    <3>1. CASE k = j
      BY <1>1, <3>1, Created DEF RowInv, Working
    <3>2. CASE k # j
      BY <1>1, <3>2, Created
    <3> QED  BY <3>1, <3>2
  <2> QED  BY <2>1, <2>2
<1>2. ASSUME NEW j \in Training, BeginTraining(j) PROVE Good'
  <2>1. /\ \A k \in Training \ {j} : trainingRow'[k] = trainingRow[k]
        /\ trainingRow'[j] = "none" => trainingRow[j] = "none"
        /\ trainingFaults' = 0 => trainingFaults = 0
    BY <1>2, StatusSet DEF BeginTraining
  <2> QED  BY <1>2, <2>1 DEF BeginTraining, Working, TrainingTypeOK
<1>3. ASSUME NEW j \in Training, CommandEnds(j) PROVE Good'
  BY <1>3 DEF CommandEnds, External, NextLabel, Working, TrainingTypeOK
<1>4. ASSUME NEW j \in Training, TrainingFails(j) PROVE Good'
  <2>1. /\ \A k \in Training \ {j} : trainingRow'[k] = trainingRow[k]
        /\ j \in contextOver \/ trainingRow'[j] = "failed" \/ trainingFaults' # 0
        /\ trainingRow[j] # "none" => trainingRow'[j] # "none"
        /\ trainingFaults' = 0 => trainingFaults = 0
    BY <1>4, StatusSet DEF TrainingFails
  <2> QED  BY <1>4, <2>1 DEF TrainingFails, External, Working, RowInv, TrainingTypeOK
<1>5. ASSUME NEW j \in Training, RegisterModel(j) PROVE Good'
  BY <1>5 DEF RegisterModel, Working, TrainingTypeOK
<1>6. ASSUME NEW j \in Training, CompleteTraining(j) PROVE Good'
  <2>1. /\ \A k \in Training \ {j} : trainingRow'[k] = trainingRow[k]
        /\ trainingRow'[j] = "completed" \/ (trainingRow'[j] = trainingRow[j] /\ trainingFaults' # 0)
        /\ trainingFaults' = 0 => trainingFaults = 0
    BY <1>6, StatusSet DEF CompleteTraining
  <2> QED  BY <1>6, <2>1 DEF CompleteTraining, Working, TrainingTypeOK
<1>7. ASSUME NEW j \in Training, LeaveTraining(j) PROVE Good'
  BY <1>7 DEF LeaveTraining, Working, TrainingTypeOK
<1>8. ASSUME NEW j \in Training, CancelReads(j) \/ CancelSignals(j) PROVE Good'
  BY <1>8 DEF CancelReads, CancelSignals, TrainingTypeOK
<1>9. ASSUME NEW j \in Training, CancelWrites(j) PROVE Good'
  BY <1>9, StatusSet DEF CancelWrites, TrainingTypeOK
<1>10. CASE RestartTraining
  BY <1>10, Restarted
<1>11. CASE UNCHANGED trainingVars
  BY <1>11 DEF trainingVars
<1> QED  BY <1>1, <1>2, <1>3, <1>4, <1>5, <1>6, <1>7, <1>8, <1>9, <1>10, <1>11
         DEF TrainingNext, RunTraining, CancelTraining

(* The invariant holds at first and is kept, and gives the property.       *)
LEMMA TrainingInvInit == TrainingInit => TrainingInv
<1> SUFFICES ASSUME TrainingInit PROVE TrainingInv
  OBVIOUS
<1>1. TrainingTypeOK
  BY TrainingTypeInit
<1> QED  BY <1>1 DEF TrainingInit, TrainingInv, RowInv, InstalledInv, CandidInv, LeavesAccounted,
               NothingLeftBehind

(* Every step of a training job keeps the invariant.                       *)
LEMMA TrainingInvStep == TrainingInv /\ [TrainingNext]_trainingVars => TrainingInv'
BY TrainingTypeStep, RowStep, InstalledStep, CandidStep, AccountedStep DEF TrainingInv

(* And it says what is promised.                                           *)
LEMMA TrainingInvGives == TrainingInv => TrainedOrEnded
BY DEF TrainingInv, TrainedOrEnded, TrainedNameOnce, CandidInv, TrainingTypeOK

(* A model is trained once by creates that see each other's rows, and no   *)
(* row or directory is left that nobody will write or remove.              *)
THEOREM TrainedOnceOrEnded == TrainingSpec => []TrainedOrEnded
BY TrainingInvInit, TrainingInvStep, TrainingInvGives, PTL DEF TrainingSpec

-------------------------------------------------------------------------------
(* Scheduled tasks.                                                        *)

(* At the start a task has no row, and nothing is being executed.          *)
LEMMA TypeInit ==
  ASSUME Init
  PROVE  TypeOK
<1>1. 1 \in Minutes /\ 1 \in Instances
  BY ScheduleAssumption DEF ScheduleAssumption, Minutes, Instances
<1>2. NoRow \in Row /\ Unused \in Execution
  BY DEF NoRow, Row, Unused, Execution, ExecLabels
<1> QED  BY <1>1, <1>2 DEF Init, TypeOK

(* The steps of a scanner have their type.                                 *)
LEMMA ScanType ==
  ASSUME TypeOK, NEW i \in Instances, Scan(i) \/ ScanFails(i)
  PROVE  TypeOK'
<1> USE DEF TypeOK, scanVars
<1>1. CASE TickList(i)
  BY <1>1 DEF TickList
<1>2. ASSUME NEW t \in Tasks, TickMatch(i, t) PROVE TypeOK'
  <2>1. [task |-> t, at |-> minute] \in [task : Tasks, at : Minutes] \cup {None}
    OBVIOUS
  <2> QED  BY <1>2, <2>1 DEF TickMatch
<1>3. CASE TickClaim(i)
  <2>1. slot[i] \in [task : Tasks, at : Minutes]
    BY <1>3 DEF TickClaim
  <2> DEFINE t == slot[i].task
             at == slot[i].at
  <2>2. t \in Tasks /\ at \in Minutes
    BY <2>1
  <2>3. row' = [row EXCEPT ![t].slot = at] \/ row' = row
    BY <1>3 DEF TickClaim
  <2>4. row' \in [Tasks -> Row]
    BY <2>2, <2>3 DEF Row
  <2>5. exec' \in [Executions -> Execution]
    <3>1. CASE exec' = exec
      BY <3>1
    <3>2. ASSUME NEW e \in Executions, Starts(i, e) PROVE exec' \in [Executions -> Execution]
      <4>1. [pc |-> "log", by |-> i, task |-> t, slot |-> at, result |-> None] \in Execution
        BY <2>2 DEF Execution, ExecLabels
      <4> QED  BY <3>2, <4>1 DEF Starts
    <3> QED  BY <1>3, <3>1, <3>2 DEF TickClaim
  <2> QED  BY <1>3, <2>4, <2>5 DEF TickClaim
<1>4. CASE ScanFails(i)
  BY <1>4 DEF ScanFails
<1> QED  BY <1>1, <1>2, <1>3, <1>4 DEF Scan

(* The steps of an execution have their type.                              *)
LEMMA ExecuteType ==
  ASSUME TypeOK, NEW e \in Executions, Execute(e) \/ ExecuteFails(e)
  PROVE  TypeOK'
<1> USE DEF TypeOK, scanVars
<1>1. \A from, to \in ExecLabels : Goto(e, from, to) => exec' \in [Executions -> Execution]
  BY DEF Goto, Execution
<1>2. {"log", "run", "approve", "saveJob", "saveTask", "over"} \subseteq ExecLabels
  BY DEF ExecLabels
<1>3. CASE ExecuteLog(e)
  BY <1>1, <1>2, <1>3 DEF ExecuteLog
<1>4. ASSUME NEW result \in Result, ExecuteRun(e, result) PROVE TypeOK'
  <2>1. AfterRun(result) \in ExecLabels
    BY <1>2 DEF AfterRun
  <2> QED  BY <1>4, <2>1 DEF ExecuteRun, Execution
<1>5. CASE ExecuteApprove(e)
  BY <1>1, <1>2, <1>5 DEF ExecuteApprove
<1>6. CASE ExecuteSaveJob(e)
  BY <1>1, <1>2, <1>6 DEF ExecuteSaveJob, Outcome
<1>7. CASE ExecuteSaveTask(e)
  BY <1>1, <1>2, <1>7 DEF ExecuteSaveTask
<1>8. CASE ExecuteFails(e)
  <2>1. exec' \in [Executions -> Execution]
    BY <1>1, <1>2, <1>8 DEF ExecuteFails
  <2> QED  BY <1>8, <2>1 DEF ExecuteFails
<1> QED  BY <1>3, <1>4, <1>5, <1>6, <1>7, <1>8 DEF Execute

(* Every step of the schedules keeps the types.                            *)
LEMMA TypeStep ==
  ASSUME TypeOK, [Next]_vars
  PROVE  TypeOK'
<1> USE DEF TypeOK, scanVars
<1>1. ASSUME NEW t \in Tasks, NEW s \in {"active", "paused"}, Create(t) \/ Delete(t) \/ Update(t, s)
      PROVE  TypeOK'
  <2>1. row' \in [Tasks -> Row]
    <3>1. CASE Create(t)
      <4>1. [row[t] EXCEPT !.known = TRUE] \in Row
        BY DEF Row
      <4> QED  BY <3>1, <4>1 DEF Create
    <3>2. CASE Delete(t)
      <4>1. [row[t] EXCEPT !.deleted = TRUE, !.status = "paused"] \in Row
        BY DEF Row
      <4> QED  BY <3>2, <4>1 DEF Delete
    <3>3. CASE Update(t, s)
      <4>1. [row[t] EXCEPT !.status = s] \in Row
        BY DEF Row
      <4> QED  BY <3>3, <4>1 DEF Update
    <3> QED  BY <1>1, <3>1, <3>2, <3>3
  <2> QED  BY <1>1, <2>1 DEF Create, Delete, Update
<1>2. ASSUME NEW e \in Executions, DecideApproval(e) PROVE TypeOK'
  BY <1>2 DEF DecideApproval
<1>3. CASE Tick
  BY <1>3, ScheduleAssumption DEF Tick, Minutes, ScheduleAssumption
<1>4. CASE Restart
  BY <1>4, ScheduleAssumption DEF Restart, Instances, ScheduleAssumption
<1>5. CASE Crash
  <2>1. instance + 1 \in Instances
    BY <1>5, ScheduleAssumption DEF Crash, Instances, ScheduleAssumption
  <2>2. \A e \in Executions : [exec[e] EXCEPT !.pc = "dead"] \in Execution
    BY DEF Execution, ExecLabels
  <2> QED  BY <1>5, <2>1, <2>2 DEF Crash
<1>6. CASE UNCHANGED vars
  BY <1>6 DEF vars
<1> QED  BY <1>1, <1>2, <1>3, <1>4, <1>5, <1>6, ScanType, ExecuteType DEF Next

(* The state of the scheduled tasks has its type.                          *)
THEOREM ScheduleTypeCorrect == Spec => []TypeOK
BY TypeInit, TypeStep, PTL DEF Spec

-------------------------------------------------------------------------------
(* While no second scanner runs, the slot of a task is the last one that   *)
(* was claimed for it, and what the scanner is about to claim is not       *)
(* before it.                                                              *)
ClaimsInTurn ==
  /\ \A e \in Executions : IF exec[e].pc = "unused" THEN exec[e].task = None
                          ELSE exec[e].task \in Tasks /\ exec[e].slot \in Minutes
  /\ \A i \in Instances : slot[i] # None => i \in scanners /\ slot[i].at <= minute
  /\ \A t \in Tasks : row[t].slot # None => row[t].slot <= minute
  /\ ~shared =>
       /\ scanners = {instance}
       /\ \A i \in Instances :
            (slot[i] # None /\ row[slot[i].task].slot # None)
              => row[slot[i].task].slot <= slot[i].at
       /\ \A e \in Executions : exec[e].pc # "unused" =>
            row[exec[e].task].slot # None /\ exec[e].slot <= row[exec[e].task].slot

SlotInv == TypeOK /\ ClaimsInTurn /\ SlotRunOnce

(* A claim starts at most one execution, of a slot no execution had.       *)
LEMMA ClaimStep ==
  ASSUME SlotInv, NEW i \in Instances, TickClaim(i)
  PROVE  ClaimsInTurn' /\ SlotRunOnce'
<1> DEFINE t == slot[i].task
           at == slot[i].at
<1> USE DEF SlotInv, TypeOK
<1>0. slot[i] \in [task : Tasks, at : Minutes] /\ t \in Tasks /\ at \in Minutes
  BY DEF TickClaim
<1>1. /\ slot' = [slot EXCEPT ![i] = None]
      /\ UNCHANGED <<minute, instance, scanners, shared>>
  BY DEF TickClaim
<1>2. CASE UNCHANGED <<row, exec>>
  BY <1>1, <1>2 DEF ClaimsInTurn, SlotRunOnce
<1>3. CASE Claimed(row[t], at) /\ row' = [row EXCEPT ![t].slot = at]
  <2>1. /\ row'[t].slot = at /\ row[t].slot # at /\ at <= minute /\ at # None
        /\ \A u \in Tasks \ {t} : row'[u] = row[u]
    BY <1>0, <1>3, ScheduleAssumption
    DEF ClaimsInTurn, TickClaim, Claimed, Row, ScheduleAssumption
  <2>2. \A k \in Instances : slot'[k] # None => slot'[k] = slot[k] /\ k # i
    BY <1>1
  <2>3. \A k \in Instances : slot'[k] # None => shared
    BY <1>1, <2>2 DEF ClaimsInTurn, TickClaim
  <2>4. ~shared => (row[t].slot # None => row[t].slot < at)
    <3>1. row[t].slot \in Minutes \cup {None} /\ slot[i] # None
      BY <1>0 DEF Row, TickClaim
    <3>2. (~shared /\ row[t].slot # None) => row[t].slot <= at
      BY <1>0, <3>1 DEF ClaimsInTurn
    <3> QED  BY <1>0, <2>1, <3>1, <3>2 DEF Minutes
  <2>5. ~shared => \A d \in Executions : exec[d].pc # "unused" =>
           /\ row'[exec[d].task].slot # None /\ exec[d].slot <= row'[exec[d].task].slot
           /\ exec[d].task = t => exec[d].slot < at
    <3> SUFFICES ASSUME ~shared, NEW d \in Executions, exec[d].pc # "unused"
                 PROVE  /\ row'[exec[d].task].slot # None
                        /\ exec[d].slot <= row'[exec[d].task].slot
                        /\ exec[d].task = t => exec[d].slot < at
      OBVIOUS
    <3>1. /\ exec[d].task \in Tasks /\ exec[d].slot \in Minutes
          /\ row[exec[d].task].slot # None /\ exec[d].slot <= row[exec[d].task].slot
      BY DEF ClaimsInTurn
    <3>2. CASE exec[d].task = t
      <4>1. exec[d].slot <= row[t].slot /\ row[t].slot < at /\ row[t].slot \in Minutes
        BY <1>0, <2>4, <3>1, <3>2 DEF Row
      <4>2. exec[d].slot < at
        BY <1>0, <3>1, <4>1 DEF Minutes
      <4> QED  BY <1>0, <2>1, <3>1, <3>2, <4>2 DEF Minutes
    <3>3. CASE exec[d].task # t
      BY <2>1, <3>1, <3>3
    <3> QED  BY <3>2, <3>3
  <2>6. CASE UNCHANGED exec
    <3>1. ~shared => \A e \in Executions : exec[e].pc # "unused" =>
             row'[exec[e].task].slot # None /\ exec[e].slot <= row'[exec[e].task].slot
      BY <1>0, <2>1, <2>4, <2>5
    <3> QED  BY <1>0, <1>1, <2>1, <2>2, <2>3, <2>6, <3>1 DEF ClaimsInTurn, SlotRunOnce
  <2>7. ASSUME NEW e \in Executions, Starts(i, e) PROVE ClaimsInTurn' /\ SlotRunOnce'
    <3>1. /\ exec'[e] = [pc |-> "log", by |-> i, task |-> t, slot |-> at, result |-> None]
          /\ \A d \in Executions \ {e} : exec'[d] = exec[d]
          /\ exec[e].pc = "unused"
      BY <2>7 DEF Starts
    <3>2. t # None
      BY <1>0, ScheduleAssumption DEF ScheduleAssumption
    <3>3. ~shared => \A d \in Executions \ {e} : exec[d].pc # "unused" =>
             /\ row'[exec[d].task].slot # None /\ exec[d].slot <= row'[exec[d].task].slot
             /\ exec[d].task = t => exec[d].slot < at
      BY <1>0, <2>1, <2>4, <2>5
    <3>4. ClaimsInTurn'
      BY <1>0, <1>1, <2>1, <2>2, <2>3, <3>1, <3>2, <3>3 DEF ClaimsInTurn, Minutes
    <3>5. ~shared => \A d \in Executions \ {e} :
             ~(exec[d].task = t /\ exec[d].slot = at)
      BY <1>0, <3>2, <3>3 DEF ClaimsInTurn, Minutes
    <3>6. SlotRunOnce'
      BY <1>1, <3>1, <3>5 DEF SlotRunOnce
    <3> QED  BY <3>4, <3>6
  <2> QED  BY <1>3, <2>6, <2>7 DEF TickClaim
<1> QED  BY <1>2, <1>3 DEF TickClaim

(* No other step starts an execution, or moves a slot back.                *)
LEMMA SlotStep ==
  ASSUME SlotInv, [Next]_vars
  PROVE  ClaimsInTurn' /\ SlotRunOnce'
<1> USE DEF SlotInv, TypeOK, scanVars
<1>1. ASSUME NEW t \in Tasks, NEW s \in {"active", "paused"}, Create(t) \/ Delete(t) \/ Update(t, s)
      PROVE  ClaimsInTurn' /\ SlotRunOnce'
  <2>1. /\ \A u \in Tasks : row'[u].slot = row[u].slot
        /\ UNCHANGED <<minute, instance, scanners, shared, slot, exec>>
    <3>1. CASE Create(t)
      BY <3>1 DEF Create, Row
    <3>2. CASE Delete(t)
      BY <3>2 DEF Delete, Row
    <3>3. CASE Update(t, s)
      BY <3>3 DEF Update, Row
    <3> QED  BY <1>1, <3>1, <3>2, <3>3
  <2> QED  BY <2>1 DEF ClaimsInTurn, SlotRunOnce, Execution
<1>2. ASSUME NEW e \in Executions, DecideApproval(e) PROVE ClaimsInTurn' /\ SlotRunOnce'
  BY <1>2 DEF DecideApproval, ClaimsInTurn, SlotRunOnce
<1>3. ASSUME NEW i \in Instances, TickList(i) \/ ScanFails(i) PROVE ClaimsInTurn' /\ SlotRunOnce'
  BY <1>3 DEF TickList, ScanFails, ClaimsInTurn, SlotRunOnce
<1>4. ASSUME NEW i \in Instances, NEW t \in Tasks, TickMatch(i, t)
      PROVE  ClaimsInTurn' /\ SlotRunOnce'
  BY <1>4 DEF TickMatch, ClaimsInTurn, SlotRunOnce, Minutes
<1>5. ASSUME NEW e \in Executions, Execute(e) \/ ExecuteFails(e)
      PROVE  ClaimsInTurn' /\ SlotRunOnce'
  <2>1. /\ UNCHANGED <<minute, instance, scanners, shared, row, slot>>
        /\ \A d \in Executions : /\ exec'[d].task = exec[d].task /\ exec'[d].slot = exec[d].slot
                                 /\ exec'[d].pc = "unused" <=> exec[d].pc = "unused"
    <3> USE DEF Goto, Execution
    <3>1. CASE ExecuteLog(e) \/ ExecuteApprove(e) \/ ExecuteSaveJob(e) \/ ExecuteSaveTask(e)
      BY <3>1 DEF ExecuteLog, ExecuteApprove, ExecuteSaveJob, ExecuteSaveTask
    <3>2. ASSUME NEW result \in Result, ExecuteRun(e, result)
          PROVE  /\ UNCHANGED <<minute, instance, scanners, shared, row, slot>>
                 /\ \A d \in Executions : /\ exec'[d].task = exec[d].task /\ exec'[d].slot = exec[d].slot
                                          /\ exec'[d].pc = "unused" <=> exec[d].pc = "unused"
      BY <3>2 DEF ExecuteRun, AfterRun
    <3>3. CASE ExecuteFails(e)
      BY <3>3 DEF ExecuteFails
    <3> QED  BY <1>5, <3>1, <3>2, <3>3 DEF Execute
  <2> QED  BY <2>1 DEF ClaimsInTurn, SlotRunOnce
<1>6. CASE Tick
  BY <1>6 DEF Tick, ClaimsInTurn, SlotRunOnce, Minutes, Row
<1>7. CASE Restart
  BY <1>7 DEF Restart, ClaimsInTurn, SlotRunOnce
<1>8. CASE Crash
  BY <1>8 DEF Crash, ClaimsInTurn, SlotRunOnce, Execution
<1>9. CASE UNCHANGED vars
  BY <1>9 DEF vars, ClaimsInTurn, SlotRunOnce
<1> QED  BY <1>1, <1>2, <1>3, <1>4, <1>5, <1>6, <1>7, <1>8, <1>9, ClaimStep DEF Next, Scan

-------------------------------------------------------------------------------
(* Without a failing statement, a run that has found something asks for    *)
(* its approval before anything is saved of it.                            *)
FoundInv ==
  /\ \A e \in Executions :
       exec[e].pc \in {"unused", "log", "run", "approve"} => job[e] # "success"
  /\ \A e \in Executions : exec[e].pc \in {"unused", "log", "run"} => exec[e].result = None
  /\ faults = 0 => \A e \in Executions : exec[e].result = "found" =>
       \/ approval[e] # None
       \/ exec[e].pc \in {"approve", "dead"} /\ job[e] # "success"

(* One step of one execution keeps it, whichever the step.                 *)
LEMMA FoundExecute ==
  ASSUME TypeOK, FoundInv, NEW e \in Executions, Execute(e) \/ ExecuteFails(e)
  PROVE  FoundInv'
<1>0. None \notin {"found", "success", "pending", "decided"}
  BY ScheduleAssumption DEF ScheduleAssumption
<1> USE <1>0 DEF TypeOK, FoundInv, Goto, Execution
<1>1. CASE ExecuteLog(e)
  BY <1>1 DEF ExecuteLog
<1>2. ASSUME NEW result \in Result, ExecuteRun(e, result) PROVE FoundInv'
  BY <1>2 DEF ExecuteRun, AfterRun
<1>3. CASE ExecuteApprove(e)
  BY <1>3 DEF ExecuteApprove
<1>4. CASE ExecuteSaveJob(e)
  BY <1>4 DEF ExecuteSaveJob, Outcome
<1>5. CASE ExecuteSaveTask(e)
  BY <1>5 DEF ExecuteSaveTask
<1>6. CASE ExecuteFails(e)
  <2>1. faults' # 0 /\ UNCHANGED <<job, approval>>
    BY <1>6 DEF ExecuteFails
  <2>2. \A d \in Executions : exec'[d].result = exec[d].result
    BY <1>6 DEF ExecuteFails
  <2>3. \A d \in Executions : exec'[d].pc \in {"unused", "log", "run", "approve"} =>
           /\ exec[d].pc \in {"unused", "log", "run", "approve"}
           /\ exec'[d].pc # "approve" => exec[d].pc # "approve"
    <3>1. \A d \in Executions \ {e} : exec'[d].pc = exec[d].pc
      BY <1>6 DEF ExecuteFails
    <3>2. \/ exec[e].pc = "log" /\ exec'[e].pc = "run"
          \/ exec'[e].pc \in {"saveJob", "saveTask", "over"}
      BY <1>6 DEF ExecuteFails
    <3> QED  BY <3>1, <3>2
  <2> QED  BY <2>1, <2>2, <2>3
<1> QED  BY <1>1, <1>2, <1>3, <1>4, <1>5, <1>6 DEF Execute

(* What has been found is kept by every step.                              *)
LEMMA FoundStep ==
  ASSUME TypeOK, FoundInv, [Next]_vars
  PROVE  FoundInv'
<1>0. None \notin {"found", "success", "pending", "decided"}
  BY ScheduleAssumption DEF ScheduleAssumption
<1> USE <1>0 DEF TypeOK, FoundInv, scanVars
<1>1. ASSUME NEW t \in Tasks, NEW s \in {"active", "paused"}, Create(t) \/ Delete(t) \/ Update(t, s)
      PROVE  FoundInv'
  BY <1>1 DEF Create, Delete, Update
<1>2. ASSUME NEW e \in Executions, DecideApproval(e) PROVE FoundInv'
  BY <1>2 DEF DecideApproval
<1>3. ASSUME NEW i \in Instances, NEW t \in Tasks, TickList(i) \/ TickMatch(i, t) \/ ScanFails(i)
      PROVE  FoundInv'
  BY <1>3 DEF TickList, TickMatch, ScanFails
<1>4. ASSUME NEW i \in Instances, TickList(i) \/ ScanFails(i) PROVE FoundInv'
  BY <1>4 DEF TickList, ScanFails
<1>5. ASSUME NEW i \in Instances, TickClaim(i) PROVE FoundInv'
  <2>1. UNCHANGED <<job, approval, faults>>
    BY <1>5 DEF TickClaim
  <2>2. CASE UNCHANGED exec
    BY <2>1, <2>2
  <2>3. ASSUME NEW e \in Executions, Starts(i, e) PROVE FoundInv'
    BY <2>1, <2>3 DEF Starts, Execution
  <2> QED  BY <1>5, <2>2, <2>3 DEF TickClaim
<1>6. CASE Tick \/ Restart
  BY <1>6 DEF Tick, Restart
<1>7. CASE Crash
  BY <1>7 DEF Crash, Execution
<1>8. CASE UNCHANGED vars
  BY <1>8 DEF vars
<1> QED  BY <1>1, <1>2, <1>3, <1>4, <1>5, <1>6, <1>7, <1>8, FoundExecute DEF Next, Scan

(* One execution per slot, and every finding reviewed (tick, execute).     *)
THEOREM RunsAreOnceAndReviewed == Spec => []RunsOnceReviewed
<1>1. Init => SlotInv /\ FoundInv
  <2> SUFFICES ASSUME Init PROVE SlotInv /\ FoundInv
    OBVIOUS
  <2>1. TypeOK
    BY TypeInit
  <2>2. ClaimsInTurn /\ SlotRunOnce
    BY DEF Init, ClaimsInTurn, SlotRunOnce, Unused, NoRow
  <2>3. FoundInv
    BY ScheduleAssumption DEF Init, FoundInv, Unused, ScheduleAssumption
  <2> QED  BY <2>1, <2>2, <2>3 DEF SlotInv
<1>2. SlotInv /\ FoundInv /\ [Next]_vars => (SlotInv /\ FoundInv)'
  BY TypeStep, SlotStep, FoundStep DEF SlotInv
<1>3. SlotInv /\ FoundInv => RunsOnceReviewed
  BY ScheduleAssumption
  DEF SlotInv, FoundInv, RunsOnceReviewed, FoundIsReviewed, ScheduleAssumption
<1> QED  BY <1>1, <1>2, <1>3, PTL DEF Spec
-------------------------------------------------------------------------------
(* Induction, of a set: were n not in S, the successor would map the members*)
(* of 0 .. n that are, which are finitely many, to themselves; one of them *)
(* would come before 0.                                                    *)
LEMMA NatInd ==
  ASSUME NEW S, 0 \in S, \A n \in Nat : n \in S => n + 1 \in S
  PROVE  Nat \subseteq S
<1> SUFFICES ASSUME NEW n \in Nat, n \notin S PROVE FALSE
  OBVIOUS
<1> DEFINE A == (0 .. n) \cap S
           up == [m \in A |-> m + 1]
<1>1. IsFiniteSet(0 .. n)  BY FS_Interval
<1>2. IsFiniteSet(A)  BY <1>1, FS_Subset
<1>3. up \in Injection(A, A)
  <2>1. \A m \in A : m + 1 \in A
    <3>1. SUFFICES ASSUME NEW m \in A PROVE m + 1 \in A  OBVIOUS
    <3>2. m \in Nat /\ m <= n /\ m \in S /\ m # n  OBVIOUS
    <3>3. m + 1 \in S  BY <3>2
    <3> QED  BY <3>2, <3>3
  <2>2. \A a, b \in A : up[a] = up[b] => a = b  OBVIOUS
  <2>3. up \in [A -> A]  BY <2>1
  <2> HIDE DEF up, A
  <2> QED  BY <2>2, <2>3 DEF Injection, IsInjective
<1>4. up \in Surjection(A, A)
  <2> HIDE DEF up, A
  <2> QED  BY <1>2, <1>3, FS_Injection
<1>5. 0 \in A  OBVIOUS
<1>6. PICK m \in A : up[m] = 0
  <2> HIDE DEF up, A
  <2> QED  BY <1>4, <1>5 DEF Surjection
<1> QED  BY <1>6

(* Multiples and remainders.                                               *)
LEMMA Multiple ==
  ASSUME NEW k \in Nat, NEW s \in Nat, s > 0
  PROVE  (k * s) % s = 0
  BY SMT

(* The values that lie a whole number of steps behind v.                   *)
Behind(v, last, step) == {w \in v .. last : \E k \in Nat : w = v + k * step}

(* They are what the loop of expandCronField steps through.                *)
LEMMA BehindGoesOn ==
  ASSUME NEW v \in Int, NEW last \in Int, NEW step \in Nat, step > 0, v <= last
  PROVE  Behind(v, last, step) = {v} \cup Behind(v + step, last, step)
<1>1. ASSUME NEW w \in Behind(v, last, step)  PROVE w \in {v} \cup Behind(v + step, last, step)
  <2>1. PICK k \in Nat : w = v + k * step  BY <1>1 DEF Behind
  <2>2. CASE k = 0  BY <2>1, <2>2
  <2>3. CASE k # 0
    <3>1. k - 1 \in Nat /\ k * step = step + (k - 1) * step  BY <2>3
    <3>2. (k - 1) * step \in Nat  BY <3>1
    <3>3. w = (v + step) + (k - 1) * step  BY <2>1, <3>1, <3>2
    <3>4. w \in Int /\ w <= last /\ w >= v + step  BY <1>1, <3>2, <3>3 DEF Behind
    <3> QED  BY <3>1, <3>3, <3>4 DEF Behind
  <2> QED  BY <2>2, <2>3
<1>2. v \in Behind(v, last, step)
  <2>1. v = v + 0 * step  OBVIOUS
  <2> QED  BY <2>1 DEF Behind
<1>3. ASSUME NEW w \in Behind(v + step, last, step)  PROVE w \in Behind(v, last, step)
  <2>1. PICK k \in Nat : w = (v + step) + k * step  BY <1>3 DEF Behind
  <2>2. k + 1 \in Nat /\ (k + 1) * step = step + k * step /\ k * step \in Nat  OBVIOUS
  <2>3. w = v + (k + 1) * step  BY <2>1, <2>2
  <2>4. w \in v .. last  BY <1>3, <2>1 DEF Behind
  <2> QED  BY <2>2, <2>3, <2>4 DEF Behind
<1> QED  BY <1>1, <1>2, <1>3

(* By induction on how far the loop has still to go.  That there is a      *)
(* function as Expanded defines it is shown by giving one.                 *)
LEMMA ExpandedIsBehind ==
  ASSUME NEW token \in CronToken, NEW bounds \in [min : Int, max : Int], ValidToken(token, bounds)
  PROVE  Expanded(token, bounds) = Behind(First(token, bounds), Final(token, bounds), token.step)
<1> DEFINE first == First(token, bounds)
           last == Final(token, bounds)
           step == token.step
           D == first .. last + step
           Eq(g) == g = [value \in D |-> IF value > last THEN {} ELSE {value} \cup g[value + step]]
           h == [value \in D |-> Behind(value, last, step)]
           from == CHOOSE g : Eq(g)
<1>1. first \in Int /\ last \in Int /\ step \in Nat /\ step > 0 /\ first <= last
  BY DEF ValidToken, First, Final, CronToken
<1>2. Expanded(token, bounds) = from[first]
  BY DEF Expanded
<1> HIDE DEF first, last, step
<1>3. Eq(h)
  <2>1. ASSUME NEW v \in D, v > last  PROVE Behind(v, last, step) = {}
    BY <1>1, <2>1 DEF Behind
  <2>2. ASSUME NEW v \in D, ~(v > last)  PROVE v + step \in D /\ Behind(v, last, step) = {v} \cup h[v + step]
    <3>1. v + step \in D /\ v \in Int /\ v <= last  BY <1>1, <2>2
    <3> QED  BY <1>1, <3>1, BehindGoesOn
  <2>3. \A v \in D : h[v] = IF v > last THEN {} ELSE {v} \cup h[v + step]
    BY <2>1, <2>2
  <2> QED  BY <2>3
<1>4. Eq(from)
  <2> HIDE DEF Eq, h
  <2> QED  BY <1>3
<1> DEFINE S == {n \in Nat : \A v \in D : v + n > last => from[v] = Behind(v, last, step)}
<1>5. 0 \in S
  <2>1. ASSUME NEW v \in D, v > last  PROVE from[v] = Behind(v, last, step)
    <3>1. from[v] = {}  BY <1>4, <2>1
    <3> QED  BY <1>1, <2>1, <3>1 DEF Behind
  <2> QED  BY <1>1, <2>1
<1>6. ASSUME NEW n \in Nat, n \in S  PROVE n + 1 \in S
  <2>1. ASSUME NEW v \in D, v + (n + 1) > last  PROVE from[v] = Behind(v, last, step)
    <3>1. CASE v > last  BY <1>5, <3>1, <1>1
    <3>2. CASE ~(v > last)
      <4>1. v \in Int /\ v <= last /\ v + step \in D /\ (v + step) + n > last  BY <1>1, <2>1, <3>2
      <4>2. from[v + step] = Behind(v + step, last, step)  BY <1>6, <4>1
      <4>3. from[v] = {v} \cup from[v + step]  BY <1>4, <3>2
      <4>4. Behind(v, last, step) = {v} \cup Behind(v + step, last, step)  BY <1>1, <4>1, BehindGoesOn
      <4> QED  BY <4>2, <4>3, <4>4
    <3> QED  BY <3>1, <3>2
  <2> QED  BY <2>1
<1>7. Nat \subseteq S
  <2> HIDE DEF S
  <2> QED  BY <1>5, <1>6, NatInd
<1>8. PICK n \in Nat : first + n > last
  <2>1. last - first + 1 \in Nat /\ first + (last - first + 1) > last  BY <1>1
  <2> QED  BY <2>1
<1>9. first \in D  BY <1>1
<1> QED  BY <1>2, <1>7, <1>8, <1>9 DEF first, last, step

(* A number is its quotient times the divisor, and the rest.               *)
LEMMA Quotient ==
  ASSUME NEW n \in Nat, NEW s \in Nat, s > 0
  PROVE  n \div s \in Nat /\ n = (n \div s) * s + (n % s)
  BY SMT

(* A token's values are those it means.                                    *)
LEMMA ExpandedIsMeant ==
  ASSUME NEW token \in CronToken, NEW bounds \in [min : Int, max : Int], ValidToken(token, bounds), NEW v
  PROVE  v \in Expanded(token, bounds) <=>
           /\ v \in Int /\ First(token, bounds) <= v /\ v <= Final(token, bounds)
           /\ (v - First(token, bounds)) % token.step = 0
<1> DEFINE first == First(token, bounds)
           last == Final(token, bounds)
           step == token.step
<1>1. first \in Int /\ last \in Int /\ step \in Nat /\ step > 0
  BY DEF ValidToken, First, Final, CronToken
<1>2. Expanded(token, bounds) = Behind(first, last, step)  BY ExpandedIsBehind
<1> HIDE DEF first, last, step
<1>3. ASSUME v \in Behind(first, last, step)
      PROVE  v \in Int /\ first <= v /\ v <= last /\ (v - first) % step = 0
  <2>1. v \in first .. last /\ v \in Int /\ first <= v /\ v <= last  BY <1>1, <1>3 DEF Behind
  <2>2. PICK k \in Nat : v = first + k * step  BY <1>3 DEF Behind
  <2>3. v - first = k * step
    <3>1. k * step \in Int  BY <1>1
    <3> QED  BY <1>1, <2>2, <3>1
  <2>4. (k * step) % step = 0  BY <1>1, Multiple
  <2> QED  BY <2>1, <2>3, <2>4
<1>4. ASSUME v \in Int, first <= v, v <= last, (v - first) % step = 0
      PROVE  v \in Behind(first, last, step)
  <2>1. v - first \in Nat  BY <1>1, <1>4
  <2>2. (v - first) \div step \in Nat /\ v - first = ((v - first) \div step) * step + 0
    BY <1>1, <1>4, <2>1, Quotient
  <2>3. ((v - first) \div step) * step \in Int  BY <1>1, <2>2
  <2>4. v = first + ((v - first) \div step) * step  BY <1>1, <1>4, <2>2, <2>3
  <2>5. v \in first .. last  BY <1>1, <1>4
  <2> QED  BY <2>2, <2>4, <2>5 DEF Behind
<1> QED  BY <1>2, <1>3, <1>4 DEF first, last, step

(* And a field's are those of its tokens.                                  *)
LEMMA FieldIsMeant ==
  ASSUME NEW expr \in Seq(Seq(CronToken)), ValidCron(expr), NEW f \in 1 .. 5, NEW v
  PROVE  v \in ExpandCronField(expr[f], Bounds[f]) <=>
           /\ v \in Int
           /\ \E i \in DOMAIN expr[f] :
                LET token == expr[f][i] IN
                /\ First(token, Bounds[f]) <= v /\ v <= Final(token, Bounds[f])
                /\ (v - First(token, Bounds[f])) % token.step = 0
<1>1. expr[f] \in Seq(CronToken) /\ ValidField(expr[f], Bounds[f])
  <2>1. Len(expr) = 5 /\ \A g \in 1 .. 5 : ValidField(expr[g], Bounds[g])  BY DEF ValidCron
  <2>2. f \in 1 .. Len(expr)  BY <2>1
  <2>3. expr[f] \in Seq(CronToken)  BY <2>2
  <2> QED  BY <2>1, <2>3
<1>2. Bounds[f] \in [min : Int, max : Int]  BY DEF Bounds
<1>3. \A i \in DOMAIN expr[f] : expr[f][i] \in CronToken /\ ValidToken(expr[f][i], Bounds[f])
  BY <1>1 DEF ValidField
<1>4. \A i \in DOMAIN expr[f] :
        v \in Expanded(expr[f][i], Bounds[f]) <=>
          /\ v \in Int
          /\ First(expr[f][i], Bounds[f]) <= v /\ v <= Final(expr[f][i], Bounds[f])
          /\ (v - First(expr[f][i], Bounds[f])) % expr[f][i].step = 0
  BY <1>2, <1>3, ExpandedIsMeant
<1>5. v \in ExpandCronField(expr[f], Bounds[f]) <=>
        \E i \in DOMAIN expr[f] : v \in Expanded(expr[f][i], Bounds[f])
  BY DEF ExpandCronField
<1> QED  BY <1>4, <1>5

(* An expression matches the times it means, and no others                 *)
(* (expandCronField, cronMatches).                                         *)
THEOREM CronMatchesWhatItMeans ==
  ASSUME NEW expr \in Seq(Seq(CronToken)), ValidCron(expr), NEW at
  PROVE  /\ CronMatches(expr, at) => Means(expr, at)
         /\ Means(expr, at) /\ (\A f \in 1 .. 5 : at[f] \in Int) => CronMatches(expr, at)
  BY FieldIsMeant DEF CronMatches, Means

-------------------------------------------------------------------------------
(* What a scanner is about to claim is a minute its task is due at, and a  *)
(* deleted task is paused.                                                 *)
DueInv ==
  /\ \A i \in Instances : slot[i] # None => slot[i].at \in DueAt[slot[i].task]
  /\ \A t \in Tasks : row[t].deleted => row[t].status = "paused"

(* Only the clock's minute is put aside for a task, and only if it is due. *)
LEMMA DueStep ==
  ASSUME TypeOK, DueInv, [Next]_vars
  PROVE  DueInv'
<1> USE DEF TypeOK, DueInv, scanVars
<1>1. ASSUME NEW t \in Tasks, NEW s \in {"active", "paused"}, Create(t) \/ Delete(t) \/ Update(t, s)
      PROVE  DueInv'
  BY <1>1 DEF Create, Delete, Update, Row
<1>2. ASSUME NEW e \in Executions, DecideApproval(e) \/ Execute(e) \/ ExecuteFails(e)  PROVE DueInv'
  <2>1. UNCHANGED <<row, slot>>
    BY <1>2 DEF DecideApproval, Execute, ExecuteFails, ExecuteLog, ExecuteRun, ExecuteApprove,
                ExecuteSaveJob, ExecuteSaveTask
  <2> QED  BY <2>1
<1>3. ASSUME NEW i \in Instances, TickList(i) \/ ScanFails(i)  PROVE DueInv'
  BY <1>3 DEF TickList, ScanFails
<1>4. ASSUME NEW i \in Instances, NEW t \in Tasks, TickMatch(i, t)  PROVE DueInv'
  BY <1>4 DEF TickMatch
<1>5. ASSUME NEW i \in Instances, TickClaim(i)  PROVE DueInv'
  <2>1. slot' = [slot EXCEPT ![i] = None]  BY <1>5 DEF TickClaim
  <2>2. \A t \in Tasks : row'[t].deleted = row[t].deleted /\ row'[t].status = row[t].status
    BY <1>5 DEF TickClaim, Row
  <2> QED  BY <2>1, <2>2
<1>6. CASE Tick \/ Restart \/ Crash \/ UNCHANGED vars
  BY <1>6 DEF Tick, Restart, Crash, vars
<1> QED  BY <1>1, <1>2, <1>3, <1>4, <1>5, <1>6 DEF Next, Scan

(* Executions are started by claims only.                                  *)
LEMMA StartedByClaim ==
  ASSUME TypeOK, [Next]_vars, NEW e \in Executions, exec[e].pc = "unused", exec'[e].pc # "unused"
  PROVE  \E i \in Instances : TickClaim(i) /\ Claimed(row[slot[i].task], slot[i].at) /\ Starts(i, e)
<1> USE DEF TypeOK, scanVars
<1>1. ASSUME NEW d \in Executions, Execute(d) \/ ExecuteFails(d)  PROVE FALSE
  <2>1. exec[d].pc # "unused" /\ \A c \in Executions \ {d} : exec'[c] = exec[c]
    BY <1>1 DEF Execute, ExecuteFails, Goto, ExecuteLog, ExecuteRun, ExecuteApprove,
                ExecuteSaveJob, ExecuteSaveTask
  <2> QED  BY <2>1
<1>2. CASE Crash
  BY <1>2 DEF Crash
<1>3. ASSUME exec' = exec  PROVE FALSE
  BY <1>3
<1>4. ASSUME NEW i \in Instances, TickClaim(i)
      PROVE  Claimed(row[slot[i].task], slot[i].at) /\ Starts(i, e)
  <2>1. Claimed(row[slot[i].task], slot[i].at) /\ \E d \in Executions : Starts(i, d)
    BY <1>3, <1>4 DEF TickClaim
  <2> QED  BY <2>1 DEF Starts
<1>5. ASSUME NEW i \in Instances, TickList(i) \/ (\E t \in Tasks : TickMatch(i, t)) \/ ScanFails(i)
      PROVE  FALSE
  BY <1>3, <1>5 DEF TickList, TickMatch, ScanFails
<1>6. ASSUME NEW t \in Tasks, NEW s \in {"active", "paused"}, Create(t) \/ Delete(t) \/ Update(t, s)
      PROVE  FALSE
  BY <1>3, <1>6 DEF Create, Delete, Update
<1>7. ASSUME (\E d \in Executions : DecideApproval(d)) \/ Tick \/ Restart \/ UNCHANGED vars  PROVE FALSE
  BY <1>3, <1>7 DEF DecideApproval, Tick, Restart, vars
<1> QED  BY <1>1, <1>2, <1>4, <1>5, <1>6, <1>7 DEF Next, Scan

(* What is executed is what was asked for: no run for a task that is       *)
(* deleted or paused, none outside the minutes its expression means (tick, *)
(* cronMatches, expandCronField).                                          *)
THEOREM ExecutionsAreAsAsked == Spec => StartedAsAsked
<1>1. Init => DueInv
  BY DEF Init, DueInv, NoRow
<1>2. TypeOK /\ DueInv /\ [Next]_vars =>
        [\A e \in Executions :
           (exec[e].pc = "unused" /\ exec'[e].pc # "unused") =>
             /\ ~row[exec'[e].task].deleted /\ row[exec'[e].task].status = "active"
             /\ Means(CronOf[exec'[e].task], TimeOf(exec'[e].slot))]_vars
  <2> SUFFICES ASSUME TypeOK, DueInv, [Next]_vars, NEW e \in Executions,
                      exec[e].pc = "unused", exec'[e].pc # "unused"
               PROVE  /\ ~row[exec'[e].task].deleted /\ row[exec'[e].task].status = "active"
                      /\ Means(CronOf[exec'[e].task], TimeOf(exec'[e].slot))
    OBVIOUS
  <2>1. PICK i \in Instances : TickClaim(i) /\ Claimed(row[slot[i].task], slot[i].at) /\ Starts(i, e)
    BY StartedByClaim
  <2> DEFINE t == slot[i].task
             at == slot[i].at
  <2>2. slot[i] # None /\ t \in Tasks /\ at \in DueAt[t]
    BY <2>1 DEF TickClaim, DueInv, TypeOK
  <2>3. exec'[e].task = t /\ exec'[e].slot = at
    BY <2>1 DEF Starts, TypeOK
  <2>4. row[t].status = "active" /\ ~row[t].deleted
    BY <2>1, <2>2 DEF Claimed, DueInv, TypeOK, Row
  <2>5. CronMatches(CronOf[t], TimeOf(at))
    BY <2>2 DEF DueAt
  <2>6. CronOf[t] \in Seq(Seq(CronToken)) /\ ValidCron(CronOf[t])
    BY <2>2, ScheduleAssumption DEF ScheduleAssumption
  <2>7. Means(CronOf[t], TimeOf(at))
    BY <2>5, <2>6, CronMatchesWhatItMeans
  <2> HIDE DEF t, at
  <2> QED  BY <2>3, <2>4, <2>7
<1>3. TypeOK /\ DueInv /\ [Next]_vars => DueInv'
  BY DueStep
<1> QED  BY <1>1, <1>2, <1>3, ScheduleTypeCorrect, PTL DEF Spec, StartedAsAsked
===============================================================================
