---------------------------- MODULE ServiceRestart -----------------------------
(***************************************************************************)
(* The configuration file, a restart in place, and the ports it needs      *)
(* (main.go, boot.Init, config.Handler with its port guard).               *)
(*                                                                         *)
(* The process serves one instance after the other.  A restart is asked    *)
(* for over HTTP: the programs that listen on the ports in question are    *)
(* looked up, some of them terminated, the request is answered, and a      *)
(* quarter of a second later a signal is left in the channel of the        *)
(* instance that has answered.  Its loop takes the signal, waits for the   *)
(* requests under way (ten seconds at most) and starts the next instance,  *)
(* which loads the file.                                                   *)
(*                                                                         *)
(* A file is its version; the answers of agent-runtime, lsof and the       *)
(* services probed on a port are external.                                 *)
(***************************************************************************)
EXTENDS Naturals, FiniteSets

CONSTANTS
  Request, NoRequest,
  Proc, Self, Runtime,     \* programs: this one, agent-runtime, and others
  PortOf(_), ServiceOf(_), \* where they listen, and what they answer to be
  Ports(_),                \* the ports of a target, "client" or "runtime"
  Confirmations,           \* the programs a request may confirm
  MaxInstance, MaxRequests \* bounds of the checked instance

VARIABLES
  phase, serving,   \* the loop of main, and its instance
  signal, timer,    \* per instance: is its channel full, and the timers to come
  file, loaded,     \* the version of the file, and the one in use
  request,          \* the requests under way
  requests,         \* what the bound counts
  running,          \* the programs that are running
  owed,             \* ghost: the newest version a restart was promised for
  late,             \* ghost: has an instance been ended before its requests
  killed            \* ghost: what was terminated, and why

restartVars == <<phase, serving, signal, timer, file, loaded, request, requests, running,
                 owed, late, killed>>

ASSUME RestartAssumption ==
  /\ MaxInstance \in Nat \ {0}
  /\ \A p \in Proc : ServiceOf(p) \in STRING
  /\ Confirmations \subseteq SUBSET Proc

Instance == 1 .. MaxInstance
Target == {"client", "runtime"}
Conflict == [proc : Proc, same : BOOLEAN]

RestartRequest == [pc : {"save", "inspect", "terminate"}, at : Instance, target : Target,
                   confirmed : SUBSET Proc, todo : SUBSET Conflict]
Killing == [proc : Proc, target : Target, confirmed : BOOLEAN, company : SUBSET STRING]

RestartTypeOK ==
  /\ phase \in {"serving", "stopping", "starting", "down"} /\ serving \in Instance
  /\ signal \in [Instance -> BOOLEAN] /\ timer \in [Instance -> Nat]
  /\ file \in Nat /\ loaded \in Nat /\ owed \in Nat
  /\ request \in [Request -> RestartRequest \cup {NoRequest}]
  /\ requests \in Nat /\ running \subseteq Proc /\ late \in BOOLEAN
  /\ killed \subseteq Killing

RestartInit ==
  /\ phase = "serving" /\ serving = 1
  /\ signal = [i \in Instance |-> FALSE] /\ timer = [i \in Instance |-> 0]
  /\ file = 1 /\ loaded = 1 /\ owed = 1
  /\ request = [r \in Request |-> NoRequest] /\ requests = 0
  /\ running = Proc /\ late = FALSE /\ killed = {}

-------------------------------------------------------------------------------
(* Requests.  A server that shuts down takes no new one.                   *)
Arrives(r, pc, target, confirmed) ==
  /\ phase = "serving" /\ request[r] = NoRequest
  /\ requests < MaxRequests /\ requests' = requests + 1
  /\ request' = [request EXCEPT ![r] = [pc |-> pc, at |-> serving, target |-> target,
                                        confirmed |-> confirmed, todo |-> {}]]
  /\ UNCHANGED <<phase, serving, signal, timer, file, loaded, running, owed, late, killed>>

AtStep(r, pc) == request[r] # NoRequest /\ request[r].pc = pc

Answered(r) == request' = [request EXCEPT ![r] = NoRequest]

(* SaveAppConfig: validated, and put in place by one rename, or refused.   *)
SaveAppConfig(r) ==
  /\ AtStep(r, "save")
  /\ Answered(r)
  /\ file' = file + 1 \/ UNCHANGED file
  /\ UNCHANGED <<phase, serving, signal, timer, loaded, requests, running, owed, late, killed>>

(* restartConflicts: who listens on the target's ports, and is it another  *)
(* of its kind.  A port is probed, not a program: the answer of any of its *)
(* listeners goes for all of them.                                         *)
Listening(port) == {p \in running : PortOf(p) = port}

Managed(target) == IF target = "client" THEN Self ELSE Runtime

InspectPorts(r) ==
  LET target == request[r].target
      found == UNION {Listening(port) : port \in Ports(target)}
  IN  /\ AtStep(r, "inspect")
      /\ \E answers \in [{PortOf(p) : p \in found} -> found] :
           /\ \A port \in DOMAIN answers : PortOf(answers[port]) = port
           /\ request' = [request EXCEPT
                ![r].pc = "terminate",
                ![r].todo = {[proc |-> p, same |-> ServiceOf(answers[PortOf(p)]) = target] :
                               p \in found \ {Managed(target)}}]
      /\ UNCHANGED <<phase, serving, signal, timer, file, loaded, requests, running, owed, late, killed>>

MayEnd(r, conflict) == conflict.same \/ conflict.proc \in request[r].confirmed

(* terminateProcess: one after the other; this process is refused, which   *)
(* ends the request, and so is a program that is gone.                     *)
TerminateProcess(r, conflict) ==
  /\ AtStep(r, "terminate") /\ conflict \in request[r].todo
  /\ MayEnd(r, conflict)
  /\ IF conflict.proc = Self \/ conflict.proc \notin running
     THEN Answered(r) /\ UNCHANGED <<running, killed>>
     ELSE /\ request' = [request EXCEPT ![r].todo = @ \ {conflict}]
          /\ running' = running \ {conflict.proc}
          /\ killed' = killed \cup
               {[proc |-> conflict.proc, target |-> request[r].target,
                 confirmed |-> conflict.proc \in request[r].confirmed,
                 company |-> {ServiceOf(p) : p \in {q \in Proc : PortOf(q) = PortOf(conflict.proc)}}]}
  /\ UNCHANGED <<phase, serving, signal, timer, file, loaded, requests, owed, late>>

(* What is left needs a confirmation, and the request is refused; or the   *)
(* restart is promised.  That of agent-runtime is passed on to it.         *)
AnswerRestart(r) ==
  LET i == request[r].at IN
  /\ AtStep(r, "terminate")
  /\ \A conflict \in request[r].todo : ~MayEnd(r, conflict)
  /\ Answered(r)
  /\ IF request[r].todo = {} /\ request[r].target = "client"
     THEN timer' = [timer EXCEPT ![i] = @ + 1] /\ owed' = file
     ELSE UNCHANGED <<timer, owed>>
  /\ UNCHANGED <<phase, serving, signal, file, loaded, requests, running, late, killed>>

-------------------------------------------------------------------------------
(* The loop.                                                               *)
FireTimer(i) ==
  /\ timer[i] > 0
  /\ timer' = [timer EXCEPT ![i] = @ - 1]
  /\ signal' = [signal EXCEPT ![i] = TRUE]
  /\ UNCHANGED <<phase, serving, file, loaded, request, requests, running, owed, late, killed>>

TakeSignal ==
  /\ phase = "serving" /\ signal[serving]
  /\ phase' = "stopping"
  /\ signal' = [signal EXCEPT ![serving] = FALSE]
  /\ UNCHANGED <<serving, timer, file, loaded, request, requests, running, owed, late, killed>>

RequestsUnderWay == {r \in Request : request[r] # NoRequest /\ request[r].at = serving}

(* Faulty variant: the server is closed without waiting.                   *)
ShutdownAtOnce ==
  /\ phase = "stopping"
  /\ phase' = "starting"
  /\ UNCHANGED <<serving, signal, timer, file, loaded, request, requests, running, owed, late, killed>>

(* Shutdown waits for the requests under way, or for ten seconds.          *)
Shutdown ==
  /\ phase = "stopping"
  /\ phase' = "starting"
  /\ late' = (late \/ RequestsUnderWay # {})
  /\ UNCHANGED <<serving, signal, timer, file, loaded, request, requests, running, owed, killed>>

(* boot.Init: the file is loaded, into an instance with a channel of its   *)
(* own; what fails here ends the process.                                  *)
Start ==
  /\ phase = "starting"
  /\ \/ /\ serving < MaxInstance
        /\ serving' = serving + 1
        /\ phase' = "serving" /\ loaded' = file
     \/ phase' = "down" /\ UNCHANGED <<serving, loaded>>
  /\ UNCHANGED <<signal, timer, file, request, requests, running, owed, late, killed>>

RestartNext ==
  \/ \E r \in Request :
       \/ Arrives(r, "save", "client", {})
       \/ \E target \in Target, confirmed \in Confirmations : Arrives(r, "inspect", target, confirmed)
       \/ SaveAppConfig(r) \/ InspectPorts(r) \/ AnswerRestart(r)
       \/ \E p \in Proc, same \in BOOLEAN : TerminateProcess(r, [proc |-> p, same |-> same])
  \/ \E i \in Instance : FireTimer(i)
  \/ TakeSignal \/ Shutdown \/ Start

RestartSpec == RestartInit /\ [][RestartNext]_restartVars

-------------------------------------------------------------------------------
(* Properties.                                                             *)

(* A restart that was promised is made: once nothing is on its way to the  *)
(* loop, the configuration in use is at least the one that was in the file *)
(* at the promise, whatever requests and restarts have crossed, as long as *)
(* no instance was ended over its requests (Restart, its timer and its     *)
(* channel, which die with their instance; serve, Shutdown and boot.Init). *)
AckedIsLoaded ==
  (phase = "serving" /\ ~signal[serving] /\ timer[serving] = 0 /\ ~late) => loaded >= owed

(* No program is terminated that nobody has confirmed, unless one of the   *)
(* target's kind listens on its port too; and neither this process nor the *)
(* program to be restarted itself (prepareRestart, terminateProcess).      *)
KillsConfirmed ==
  \A k \in killed :
    /\ k.confirmed \/ k.target \in k.company
    /\ k.proc \notin {Self, Managed(k.target)}

(* A restart does what was promised and no more.                           *)
RestartAsAsked == AckedIsLoaded /\ KillsConfirmed
===============================================================================
