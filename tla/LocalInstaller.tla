----------------------------- MODULE LocalInstaller ----------------------------
(***************************************************************************)
(* Installation of local models (localModelInstaller).                     *)
(*                                                                         *)
(* A job is an entry of the installer's map and a goroutine that takes the *)
(* lock of its model, makes sure of the runtime, looks whether the model   *)
(* is there, and downloads it.  Jobs and locks live in memory: a restart   *)
(* in place makes a new installer while the goroutines of the old one go   *)
(* on, a crash ends them.  What is on the disk stays.                      *)
(*                                                                         *)
(* There are two runtimes.  Ollama is a server that keeps its own models.  *)
(* Diffusers is a Python environment (venv, then packages), and a model is *)
(* a directory of files with a marker written last.                        *)
(***************************************************************************)
EXTENDS Naturals

CONSTANTS
  Install,                 \* the jobs
  UserOf(_), ModelOf(_),   \* who wants what
  DiffusersModel,          \* the models that Diffusers runs, Ollama the others
  RepoFiles(_),            \* the weights a Diffusers model has on the hub
  Host,                    \* what the machine is like
  MaxInstallers            \* bound: installers there may be, one after another

InstallModel == {ModelOf(j) : j \in Install}
WeightFile == UNION {RepoFiles(m) : m \in InstallModel}
NoJob == "no job"

(* A Diffusers model that can be chosen has its weights on the hub.        *)
ASSUME InstallAssumption ==
  /\ MaxInstallers \in Nat \ {0}
  /\ NoJob \notin Install
  /\ \A m \in InstallModel \cap DiffusersModel : RepoFiles(m) \cap {"base", "half"} # {}

VARIABLES
  installStatus,   \* of a job, "none" before it
  installPc,       \* where its goroutine is
  installerOf,     \* the installer it belongs to
  installer,       \* the number of the one that serves requests
  modelLock,       \* who holds the lock of a model, by installer
  got,             \* the files a job's download has written
  files,           \* the weights in a model's directory
  installed,       \* the models that are complete
  ollamaUp,        \* is the server running
  venv, packages   \* the Python environment

jobVars     == <<installStatus, installPc, installerOf, got>>
diskVars    == <<files, installed, ollamaUp, venv, packages>>
installVars == <<jobVars, installer, modelLock, diskVars>>

InstallTypeOK ==
  /\ installStatus \in [Install -> {"none", "queued", "running", "completed", "failed"}]
  /\ installPc \in [Install -> {"idle", "begin", "lock", "runtime", "pip", "check", "clean",
                                "download", "over"}]
  /\ installerOf \in [Install -> 1 .. MaxInstallers]
  /\ installer \in 1 .. MaxInstallers
  /\ modelLock \in [1 .. MaxInstallers -> [InstallModel -> Install \cup {NoJob}]]
  /\ got \in [Install -> SUBSET WeightFile]
  /\ \A j \in Install : got[j] \subseteq RepoFiles(ModelOf(j))
  /\ files \in [InstallModel -> SUBSET WeightFile]
  /\ \A m \in InstallModel : files[m] \subseteq RepoFiles(m)
  /\ installed \subseteq InstallModel
  /\ ollamaUp \in BOOLEAN /\ venv \in BOOLEAN /\ packages \in BOOLEAN

InstallInit ==
  /\ installStatus = [j \in Install |-> "none"]
  /\ installPc = [j \in Install |-> "idle"]
  /\ installerOf = [j \in Install |-> 1]
  /\ installer = 1
  /\ modelLock = [i \in 1 .. MaxInstallers |-> [m \in InstallModel |-> NoJob]]
  /\ got = [j \in Install |-> {}]
  /\ files = [m \in InstallModel |-> {}]
  /\ installed = {}
  /\ ollamaUp = FALSE /\ venv = FALSE /\ packages = FALSE

-------------------------------------------------------------------------------
(* What the machine allows (inspectLocalEnvironment and                    *)
(* inspectDiffusersEnvironment): enough memory, as far as that is known,   *)
(* and a runtime that is there or can be installed.                        *)
OllamaPossible == Host.ollama \/ Host.canInstallOllama

DiffusersPossible == Host.platform /\ (venv \/ Host.python)

Installable(m) ==
  /\ Host.memory = 0 \/ Host.memory >= Host.needs
  /\ IF m \in DiffusersModel THEN DiffusersPossible ELSE OllamaPossible

(* start gives the job that the user already has for the model, or a new   *)
(* one.                                                                    *)
InstallUnderWay(u, m) ==
  \E k \in Install : /\ UserOf(k) = u /\ ModelOf(k) = m
                     /\ installerOf[k] = installer /\ installStatus[k] \in {"queued", "running"}

StartInstall(j) ==
  /\ installPc[j] = "idle"
  /\ Installable(ModelOf(j))
  /\ ~InstallUnderWay(UserOf(j), ModelOf(j))
  /\ installStatus' = [installStatus EXCEPT ![j] = "queued"]
  /\ installPc' = [installPc EXCEPT ![j] = "begin"]
  /\ installerOf' = [installerOf EXCEPT ![j] = installer]
  /\ UNCHANGED <<got, installer, modelLock, diskVars>>

-------------------------------------------------------------------------------
(* The goroutine goes on at label, or ends with a status and lets the lock *)
(* go (the deferred unlock).                                               *)
InstallGoes(j, label) ==
  /\ installPc' = [installPc EXCEPT ![j] = label]
  /\ UNCHANGED <<installStatus, installerOf, installer, modelLock>>

InstallEnds(j, s) ==
  /\ installStatus' = [installStatus EXCEPT ![j] = s]
  /\ installPc' = [installPc EXCEPT ![j] = "over"]
  /\ modelLock' = [modelLock EXCEPT ![installerOf[j]][ModelOf(j)] = NoJob]
  /\ UNCHANGED <<installerOf, installer>>

(* run: running is said before the lock is had.                            *)
BeginInstall(j) ==
  /\ installPc[j] = "begin"
  /\ installStatus' = [installStatus EXCEPT ![j] = "running"]
  /\ installPc' = [installPc EXCEPT ![j] = "lock"]
  /\ UNCHANGED <<installerOf, got, installer, modelLock, diskVars>>

(* Faulty variant: the lock is the user's, not the model's.                *)
LockModelOfUser(j) ==
  /\ installPc[j] = "lock"
  /\ LET holder == modelLock[installerOf[j]][ModelOf(j)]
     IN  holder = NoJob \/ UserOf(holder) # UserOf(j)
  /\ modelLock' = [modelLock EXCEPT ![installerOf[j]][ModelOf(j)] = j]
  /\ installPc' = [installPc EXCEPT ![j] = "runtime"]
  /\ UNCHANGED <<installStatus, installerOf, got, installer, diskVars>>

LockModel(j) ==
  /\ installPc[j] = "lock"
  /\ modelLock[installerOf[j]][ModelOf(j)] = NoJob
  /\ modelLock' = [modelLock EXCEPT ![installerOf[j]][ModelOf(j)] = j]
  /\ installPc' = [installPc EXCEPT ![j] = "runtime"]
  /\ UNCHANGED <<installStatus, installerOf, got, installer, diskVars>>

(* Ollama is installed (where that can be) and started, or it is not.      *)
EnsureOllama(j) ==
  /\ installPc[j] = "runtime"
  /\ ModelOf(j) \notin DiffusersModel
  /\ \/ InstallGoes(j, "check") /\ ollamaUp' = TRUE
     \/ ~ollamaUp /\ InstallEnds(j, "failed") /\ UNCHANGED ollamaUp
  /\ UNCHANGED <<got, files, installed, venv, packages>>

(* The Python environment is made when its interpreter is not there,       *)
EnsureDiffusers(j) ==
  /\ installPc[j] = "runtime"
  /\ ModelOf(j) \in DiffusersModel
  /\ \/ venv /\ InstallGoes(j, "check") /\ UNCHANGED venv
     \/ ~venv /\ InstallGoes(j, "pip") /\ venv' = TRUE
     \/ ~venv /\ InstallEnds(j, "failed") /\ UNCHANGED venv
  /\ UNCHANGED <<got, files, installed, ollamaUp, packages>>

(* and its packages are installed by whoever made it; whoever finds it     *)
(* made takes them for granted.                                            *)
InstallPackages(j) ==
  /\ installPc[j] = "pip"
  /\ \/ InstallGoes(j, "check") /\ packages' = TRUE
     \/ InstallEnds(j, "failed") /\ UNCHANGED packages
  /\ UNCHANGED <<got, files, installed, ollamaUp, venv>>

(* A model that is there is not downloaded again.                          *)
CheckInstalled(j) ==
  /\ installPc[j] = "check"
  /\ IF ModelOf(j) \in installed THEN InstallEnds(j, "completed")
     ELSE InstallGoes(j, IF ModelOf(j) \in DiffusersModel THEN "clean" ELSE "download")
  /\ UNCHANGED <<got, diskVars>>

-------------------------------------------------------------------------------
(* cleanupUnusedDiffusersArtifacts: weights that are there in half         *)
(* precision as well are removed.                                          *)
Cleaned(fs) == IF "half" \in fs THEN fs \ {"base"} ELSE fs

CleanModelDir(j) ==
  /\ installPc[j] = "clean"
  /\ files' = [files EXCEPT ![ModelOf(j)] = Cleaned(@)]
  /\ InstallGoes(j, "download")
  /\ UNCHANGED <<got, installed, ollamaUp, venv, packages>>

(* snapshot_download writes one file after another,                        *)
DownloadFile(j) ==
  /\ installPc[j] = "download"
  /\ ModelOf(j) \in DiffusersModel
  /\ packages
  /\ \E f \in RepoFiles(ModelOf(j)) \ got[j] :
       /\ got' = [got EXCEPT ![j] = @ \cup {f}]
       /\ files' = [files EXCEPT ![ModelOf(j)] = @ \cup {f}]
  /\ UNCHANGED <<installStatus, installPc, installerOf, installer, modelLock, installed,
                 ollamaUp, venv, packages>>

(* and the marker when it has them all; Ollama's stream ends without an    *)
(* error when the model is there.                                          *)
DownloadEnds(j) ==
  /\ installPc[j] = "download"
  /\ ModelOf(j) \in DiffusersModel => got[j] = RepoFiles(ModelOf(j))
  /\ installed' = installed \cup {ModelOf(j)}
  /\ InstallEnds(j, "completed")
  /\ UNCHANGED <<got, files, ollamaUp, venv, packages>>

DownloadFails(j) ==
  /\ installPc[j] = "download"
  /\ InstallEnds(j, "failed")
  /\ UNCHANGED <<got, diskVars>>

(* A new installer knows nothing of the old one's jobs and locks.          *)
RestartInstaller ==
  /\ installer < MaxInstallers
  /\ installer' = installer + 1
  /\ \/ UNCHANGED installPc
     \/ installPc' = [j \in Install |-> IF installPc[j] = "idle" THEN "idle" ELSE "over"]
  /\ UNCHANGED <<installStatus, installerOf, got, modelLock, diskVars>>

InstallNext ==
  \/ \E j \in Install :
       \/ StartInstall(j) \/ BeginInstall(j) \/ LockModel(j)
       \/ EnsureOllama(j) \/ EnsureDiffusers(j) \/ InstallPackages(j)
       \/ CheckInstalled(j) \/ CleanModelDir(j)
       \/ DownloadFile(j) \/ DownloadEnds(j) \/ DownloadFails(j)
  \/ RestartInstaller

InstallSpec == InstallInit /\ [][InstallNext]_installVars

-------------------------------------------------------------------------------
(* Two jobs of one installer never download the same model at once, and    *)
(* none downloads what another of them has completed, though many may have *)
(* been asked for it, as the look at the disk is under the model's lock    *)
(* (localModelInstaller.run): what is downloaded though it is installed    *)
(* was completed by a job of another installer meanwhile.                  *)
Downloading(j) == installPc[j] \in {"clean", "download"}

DownloadedOnce ==
  \A j \in Install : Downloading(j) =>
    /\ \A k \in Install \ {j} :
         (ModelOf(k) = ModelOf(j) /\ installerOf[k] = installerOf[j]) => ~Downloading(k)
    /\ ModelOf(j) \in installed =>
         \E k \in Install : /\ ModelOf(k) = ModelOf(j) /\ installerOf[k] # installerOf[j]
                            /\ installStatus[k] = "completed"

(* A model that counts as installed has its weights, also when a new       *)
(* installer cleans up a directory into which a goroutine of the old one   *)
(* still downloads (the marker is written last, and cleaning removes only  *)
(* what is there twice).                                                   *)
InstalledHasWeights ==
  \A m \in installed \cap DiffusersModel : files[m] \cap {"base", "half"} # {}

(* A model is downloaded once, and whole.                                  *)
InstalledOnceAndWhole == DownloadedOnce /\ InstalledHasWeights
===============================================================================
