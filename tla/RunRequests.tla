----------------------------- MODULE RunRequests ------------------------------
(***************************************************************************)
(* What agent-runtime is asked in a run (RuntimeService.Run, RunStream,    *)
(* RunAgent, RunAgentStream): the request a client sent, completed from    *)
(* the agent it names, the user's memories and models, then once per step  *)
(* from what a device has observed; and the memories a run leaves.         *)
(*                                                                         *)
(* All runs are of one user.  A value of a request is known by where it    *)
(* comes from; an observation by its number in the run.  What a run finds  *)
(* once is part of what is asked: the row of the agent, whether a device   *)
(* is reachable, whether the default model sees.  The steps of a run, its  *)
(* events and the device are in RunStream, the resolution of a model in    *)
(* ModelBinding; the sessions a device keeps open are left out.            *)
(***************************************************************************)
EXTENDS Naturals, Sequences, FiniteSets

CONSTANTS
  Run, AskForms(_),     \* the runs, and what may be asked of each
  AgentName,            \* what may stand for an agent in a request or a memory; "" is none
  Nobody,               \* no agent, no binding, no run
  Memory, MemoryForm(_),  \* rows of memory; those that are there at first, or Nobody
  Learned,              \* what a run may leave
  MaxSteps,             \* requests of a run (8 in the code)
  MaxHistory,           \* observations a request may tell (8)
  MaxRecalled,          \* memories a request may tell (20)
  Attachments,          \* what an observation may come with
  MaxMemoryCalls, MaxMemoryFaults  \* bounds: memories the user adds or deletes, statements that fail

VARIABLES
  memory,       \* table agent_memory
  runs,         \* the runs: where each stands, and the request it makes
  sent,         \* the last message to agent-runtime
  seen,         \* ghost: the attachments of a run's observations
  before,       \* ghost: the runs that had been answered when one began
  memoryCalls, memoryFaults  \* what the bounds count

requestsVars == <<memory, runs, sent, seen, before, memoryCalls, memoryFaults>>

Kind == {"run", "runStream", "agent", "agentStream"}
OfConfig == {"run", "runStream"}
Streams == {"runStream", "agentStream"}

(* The lists and settings a request carries; an agent may supply all but   *)
(* the last two.  A capability may be "unnamed": it has a blank id.        *)
Stored == {"knowledge_bases", "skills", "mcps", "clis", "a2a", "capabilities", "internal_agents",
           "sub_agents", "options", "sandbox"}
Part == Stored \cup {"messages", "files"}

PromptKey == {"system_prompt", "instruction"}
ContextKey == PromptKey \cup {"user_id", "note", "desktop_bridge", "long_term_memories"}
BoundRole == {"default", "embedding", "image", "video"}
RoleName == BoundRole \cup {"rewrite"}
Origin == {"none", "client", "unnamed", "agent", "binding", "service"}

Ask == [kind : Kind, context : SUBSET ContextKey, parts : [Part -> Origin], models : SUBSET RoleName,
        history : Nat, agent : AgentName, reachable : BOOLEAN, sees : BOOLEAN]

RunRequest == [context : [ContextKey -> Origin], parts : [Part -> Origin], models : [RoleName -> Origin],
               task : Nat, history : Seq(Nat), images : SUBSET Nat]

(* What is found under the id of an agent; an entry a run leaves, and a    *)
(* row of memory; and a run, wherever it stands.                           *)
AgentRow == [live : BOOLEAN, enabled : BOOLEAN, system : BOOLEAN, owner : {"me", "another"},
             prompt : BOOLEAN, context : SUBSET ContextKey, parts : [Part -> Origin],
             models : SUBSET RoleName, configured : SUBSET RoleName,
             binding : SUBSET (RoleName \cup {"unbound"})]

Entry == [blank : BOOLEAN, importance : Nat]

MemoryRow == [state : {"live", "deleted"}, user : {"me", "another"}, agent : AgentName,
              importance : Nat \ {0}, at : Nat, from : Run \cup {Nobody}]

RunPlaces == {"refused", "recall", "models", "send", "asked", "failed", "acting", "store",
              "answered", "ended"}

RunUnderway == [pc : RunPlaces, ask : Ask, request : RunRequest, recalled : SUBSET Memory,
                step : 1..MaxSteps, entries : Seq(Entry), leaves : Seq(Entry), whole : BOOLEAN]

NotBegun == [pc |-> "idle"]

(* A run that names an agent finds a row or is refused; rows that are      *)
(* there at first are no run's, and were written one after another.        *)
FirstRows == {m \in Memory : MemoryForm(m) # Nobody}

ASSUME RequestsAssumption ==
  /\ IsFiniteSet(Memory) /\ "" \in AgentName
  /\ Nobody \notin Run /\ Nobody \notin MemoryRow /\ Nobody \notin RunRequest
  /\ \A r \in Run : \A form \in AskForms(r) :
       /\ form.ask \in Ask /\ form.row \in AgentRow \cup {Nobody}
       /\ form.ask.agent # "" => form.row # Nobody
  /\ \A m \in FirstRows :
       /\ MemoryForm(m) \in MemoryRow /\ MemoryForm(m).from = Nobody
       /\ MemoryForm(m).at < Cardinality(FirstRows)
       /\ \A n \in FirstRows : MemoryForm(m).at = MemoryForm(n).at => m = n
  /\ Learned \subseteq Seq(Entry)
  /\ MaxSteps \in Nat \ {0} /\ MaxHistory \in Nat \ {0} /\ MaxRecalled \in Nat
  /\ MaxMemoryCalls \in Nat /\ MaxMemoryFaults \in Nat

RequestsTypeOK ==
  /\ memory \in [Memory -> MemoryRow \cup {Nobody}]
  /\ runs \in [Run -> RunUnderway \cup {NotBegun}]
  /\ sent \in [Run -> RunRequest \cup {Nobody}]
  /\ seen \in [Run -> Seq(Attachments)]
  /\ before \in [Run -> SUBSET Run]
  /\ memoryCalls \in 0..MaxMemoryCalls /\ memoryFaults \in 0..MaxMemoryFaults

-------------------------------------------------------------------------------
(* The request of a run.                                                   *)

Given(keys, from) == [k \in ContextKey |-> IF k \in keys THEN from ELSE "none"]

(* The user is the one that is logged in, whatever the client says.        *)
AuthenticatedContext(ask) == [Given(ask.context, "client") EXCEPT !["user_id"] = "service"]

(* A device that could act is announced; a client may have claimed one.    *)
ControlContext(context, reachable) ==
  IF reachable THEN [context EXCEPT !["desktop_bridge"] = "service"] ELSE context

(* Every part goes in as it came; a run that streams has options.          *)
ToInput(ask, context) ==
  [context |-> context,
   parts |-> IF ask.kind = "runStream" /\ ask.parts["options"] = "none"
             THEN [ask.parts EXCEPT !["options"] = "service"] ELSE ask.parts,
   models |-> [r \in RoleName |-> IF r \in ask.models THEN "client" ELSE "none"],
   task |-> 0, history |-> [i \in 1..ask.history |-> 0], images |-> {}]

StripPromptContext(context) ==
  [k \in ContextKey |-> IF k \in PromptKey THEN "none" ELSE context[k]]

(* What the client gave is kept, part by part; the rest is the agent's.    *)
(* Its system prompt always is.                                            *)
MergeStoredAgentConfig(request, row) ==
  [context |-> [k \in ContextKey |->
                  IF k = "system_prompt" /\ row.prompt THEN "agent"
                  ELSE IF request.context[k] = "none" /\ k \in row.context THEN "agent"
                  ELSE request.context[k]],
   parts |-> [p \in Part |-> IF request.parts[p] = "none" /\ p \in Stored THEN row.parts[p]
                             ELSE request.parts[p]],
   models |-> request.models, task |-> request.task,
   history |-> request.history, images |-> request.images]

(* Faulty variant: a binding goes over the columns role by role.           *)
BindRoleByRole(row) ==
  LET bound == row.system /\ row.binding # {"unbound"} IN
  [r \in RoleName |->
     IF bound /\ r \in row.binding THEN "binding"
     ELSE IF r \in row.models \cup row.configured THEN "agent" ELSE "none"]

(* The models of an agent that is named replace the client's.  Its columns *)
(* or, for a system agent, the user's binding name them; without a default *)
(* model there, those of its configuration are left.  A role they cannot   *)
(* name is the configuration's.                                            *)
BindStoredAgentModels(row) ==
  LET bound  == row.system /\ row.binding # {"unbound"}
      named  == IF bound THEN row.binding ELSE row.models
      origin == IF bound THEN "binding" ELSE "agent"
  IN  [r \in RoleName |->
         IF "default" \in named /\ r \in BoundRole
         THEN IF r \in named THEN origin ELSE "none"
         ELSE IF r \in row.configured \ {"default"} THEN "agent" ELSE "none"]

Usable(row) == row.live /\ row.enabled /\ (row.system \/ row.owner = "me")

HydrateAgentConfig(request, row) ==
  LET stripped == [request EXCEPT !.context = StripPromptContext(@)] IN
  IF row = Nobody THEN stripped
  ELSE [MergeStoredAgentConfig(stripped, row) EXCEPT !.models = BindStoredAgentModels(row)]

HydrateAgentModels(request, row) ==
  IF row = Nobody THEN request ELSE [request EXCEPT !.models = BindStoredAgentModels(row)]

(* What crosses to agent-runtime: no capability without an id, and of the  *)
(* built-in agent's request no part but its capabilities.                  *)
Sendable(parts) == [p \in Part |-> IF parts[p] = "unnamed" THEN "none" ELSE parts[p]]

ToRunRequest(request) == [request EXCEPT !.parts = Sendable(@)]

ToAgentRequest(request) ==
  [request EXCEPT !.parts = [p \in Part |-> IF p = "capabilities" THEN Sendable(@)[p] ELSE "none"]]

-------------------------------------------------------------------------------
RequestsInit ==
  /\ memory = [m \in Memory |-> MemoryForm(m)]
  /\ runs = [r \in Run |-> NotBegun]
  /\ sent = [r \in Run |-> Nobody]
  /\ seen = [r \in Run |-> <<>>]
  /\ before = [r \in Run |-> {}]
  /\ memoryCalls = 0 /\ memoryFaults = 0

AtPc(r, pc) == runs[r].pc = pc
Moves(r, pc) == runs' = [runs EXCEPT ![r].pc = pc]

(* A run begins: what is asked, with the agent's row, unless it is of no   *)
(* use.                                                                    *)
BeginRun(r, ask, row) ==
  LET input    == ToInput(ask, ControlContext(AuthenticatedContext(ask), ask.reachable))
      hydrated == IF ask.kind \in OfConfig THEN HydrateAgentConfig(input, row)
                  ELSE HydrateAgentModels(input, row)
  IN  /\ AtPc(r, "idle")
      /\ runs' = [runs EXCEPT ![r] =
           [pc |-> IF row = Nobody \/ Usable(row) THEN "recall" ELSE "refused",
            ask |-> ask, request |-> IF row = Nobody \/ Usable(row) THEN hydrated ELSE input,
            recalled |-> {}, step |-> 1, entries |-> <<>>, leaves |-> <<>>,
            whole |-> FALSE]]
      /\ before' = [before EXCEPT ![r] = {q \in Run : AtPc(q, "answered")}]
      /\ UNCHANGED <<memory, sent, seen, memoryCalls, memoryFaults>>

-------------------------------------------------------------------------------
(* Memories.                                                               *)

(* List: the user's, of the agent that is named if any is, the important   *)
(* and then the recent first.                                              *)
Recallable(agent) ==
  {m \in Memory : /\ memory[m] # Nobody
                  /\ memory[m].user = "me" /\ memory[m].state = "live"
                  /\ agent = "" \/ memory[m].agent = agent}

Precedes(m, n) ==
  \/ memory[m].importance > memory[n].importance
  \/ memory[m].importance = memory[n].importance /\ memory[m].at > memory[n].at

Recalled(agent) ==
  {m \in Recallable(agent) : Cardinality({n \in Recallable(agent) : Precedes(n, m)}) < MaxRecalled}

WithMemories(request, recalled) ==
  IF recalled = {} THEN request ELSE [request EXCEPT !.context["long_term_memories"] = "service"]

InjectMemories(r) ==
  LET recalled == Recalled(runs[r].ask.agent) IN
  /\ AtPc(r, "recall")
  /\ runs' = [runs EXCEPT ![r].pc = "models", ![r].recalled = recalled,
                          ![r].request = WithMemories(@, recalled)]
  /\ UNCHANGED <<memory, sent, seen, before, memoryCalls, memoryFaults>>

(* Faulty variant: the memories of a run are kept for no agent.            *)
RememberedForNone(user, agent, importance, from) ==
  [state |-> "live", user |-> user, agent |-> IF from = Nobody THEN agent ELSE "",
   importance |-> IF importance = 0 THEN 1 ELSE importance,
   at |-> Cardinality({m \in Memory : memory[m] # Nobody}), from |-> from]

(* Create: an importance that is not positive is one.                      *)
Remembered(user, agent, importance, from) ==
  [state |-> "live", user |-> user, agent |-> agent,
   importance |-> IF importance = 0 THEN 1 ELSE importance,
   at |-> Cardinality({m \in Memory : memory[m] # Nobody}), from |-> from]

Free == {m \in Memory : memory[m] = Nobody}
NextFree == CHOOSE m \in Free : TRUE

(* StoreExtracted, entry by entry; a blank one or a failing statement ends *)
(* it, and the answer goes out all the same.                               *)
StoreExtracted(r) ==
  LET left  == runs[r].entries
      entry == Head(left)
  IN  /\ AtPc(r, "store")
      /\ \/ /\ left = <<>>
            /\ runs' = [runs EXCEPT ![r].pc = "answered", ![r].whole = TRUE]
            /\ UNCHANGED <<memory, memoryFaults>>
         \/ /\ left # <<>> /\ ~entry.blank /\ Free # {}
            /\ memory' = [memory EXCEPT ![NextFree] =
                            Remembered("me", runs[r].ask.agent, entry.importance, r)]
            /\ runs' = [runs EXCEPT ![r].entries = Tail(left)]
            /\ UNCHANGED memoryFaults
         \/ /\ left # <<>>
            /\ \/ entry.blank /\ UNCHANGED memoryFaults
               \/ /\ ~entry.blank /\ memoryFaults < MaxMemoryFaults
                  /\ memoryFaults' = memoryFaults + 1
            /\ Moves(r, "answered")
            /\ UNCHANGED memory
      /\ UNCHANGED <<sent, seen, before, memoryCalls>>

(* The user adds a memory, or deletes one.                                 *)
CreateMemory(agent, importance) ==
  /\ Free # {}
  /\ memoryCalls < MaxMemoryCalls /\ memoryCalls' = memoryCalls + 1
  /\ memory' = [memory EXCEPT ![NextFree] = Remembered("me", agent, importance, Nobody)]
  /\ UNCHANGED <<runs, sent, seen, before, memoryFaults>>

DeleteMemory(m) ==
  /\ memory[m] # Nobody /\ memory[m].user = "me" /\ memory[m].state = "live"
  /\ memoryCalls < MaxMemoryCalls /\ memoryCalls' = memoryCalls + 1
  /\ memory' = [memory EXCEPT ![m].state = "deleted"]
  /\ UNCHANGED <<runs, sent, seen, before, memoryFaults>>

-------------------------------------------------------------------------------
(* Models: without a default model, one of the user's own; each is looked  *)
(* up, and any that does not resolve ends the run.  Whether the default    *)
(* model sees is said by its row, never by the client.                     *)
EnsureUserModel(request) ==
  IF request.models["default"] = "none" THEN [request EXCEPT !.models["default"] = "service"]
  ELSE request

HydrateModels(r, resolved) ==
  /\ AtPc(r, "models")
  /\ IF resolved
     THEN runs' = [runs EXCEPT ![r].pc = "send", ![r].request = EnsureUserModel(@)]
     ELSE Moves(r, "refused")
  /\ UNCHANGED <<memory, sent, seen, before, memoryCalls, memoryFaults>>

(* One request of agent-runtime.                                           *)
AskRuntime(r) ==
  /\ AtPc(r, "send")
  /\ sent' = [sent EXCEPT ![r] = IF runs[r].ask.kind \in OfConfig
                                 THEN ToRunRequest(runs[r].request)
                                 ELSE ToAgentRequest(runs[r].request)]
  /\ Moves(r, "asked")
  /\ UNCHANGED <<memory, seen, before, memoryCalls, memoryFaults>>

-------------------------------------------------------------------------------
(* What agent-runtime answers.                                             *)

(* It fails, or a run that streams tells of an Action; whatever a done     *)
(* after it says is dropped.                                               *)
Fails(r) ==
  /\ AtPc(r, "asked") /\ Moves(r, "failed")
  /\ UNCHANGED <<memory, sent, seen, before, memoryCalls, memoryFaults>>

AnswersAction(r) ==
  /\ AtPc(r, "asked") /\ runs[r].ask.kind \in Streams
  /\ Moves(r, "acting")
  /\ UNCHANGED <<memory, sent, seen, before, memoryCalls, memoryFaults>>

(* It is done, with memories, which are stored before the answer goes on;  *)
(* those of the built-in agent without a stream are not.                   *)
AnswersDone(r, learned) ==
  /\ AtPc(r, "asked")
  /\ IF runs[r].ask.kind = "agent"
     THEN Moves(r, "answered")
     ELSE runs' = [runs EXCEPT ![r].pc = "store", ![r].entries = learned, ![r].leaves = learned]
  /\ UNCHANGED <<memory, sent, seen, before, memoryCalls, memoryFaults>>

-------------------------------------------------------------------------------
(* The device's observation makes the next request.                        *)

AppendObservationHistory(history, observation) ==
  LET all == Append(history, observation) IN
  SubSeq(all, IF Len(all) > MaxHistory THEN Len(all) - MaxHistory + 1 ELSE 1, Len(all))

(* The images of an observation, for a model that sees.                    *)
VisualInputs(vision, observation, attachments) ==
  IF vision /\ "image" \in attachments THEN {observation} ELSE {}

ApplyDeviceObservation(request, n, vision, attachments) ==
  [request EXCEPT !.task = n, !.history = AppendObservationHistory(request.history, n),
                  !.images = VisualInputs(vision, n, attachments)]

Observe(r, attachments) ==
  LET n == Len(seen[r]) + 1 IN
  /\ AtPc(r, "acting")
  /\ seen' = [seen EXCEPT ![r] = Append(@, attachments)]
  /\ runs' = [runs EXCEPT
       ![r].pc = IF runs[r].step < MaxSteps THEN "send" ELSE "failed",
       ![r].step = IF @ < MaxSteps THEN @ + 1 ELSE @,
       ![r].request = ApplyDeviceObservation(@, n, runs[r].ask.sees, attachments)]
  /\ UNCHANGED <<memory, sent, before, memoryCalls, memoryFaults>>

(* The user is waited for, or has cancelled, or the Action came to nothing.*)
ActionEnds(r) ==
  /\ AtPc(r, "acting") /\ Moves(r, "ended")
  /\ UNCHANGED <<memory, sent, seen, before, memoryCalls, memoryFaults>>

RequestsNext ==
  \/ \E r \in Run :
       \/ \E form \in AskForms(r) : BeginRun(r, form.ask, form.row)
       \/ InjectMemories(r)
       \/ \E resolved \in BOOLEAN : HydrateModels(r, resolved)
       \/ AskRuntime(r) \/ Fails(r) \/ AnswersAction(r)
       \/ \E learned \in Learned : AnswersDone(r, learned)
       \/ StoreExtracted(r)
       \/ \E attachments \in Attachments : Observe(r, attachments)
       \/ ActionEnds(r)
  \/ \E agent \in AgentName : CreateMemory(agent, 0)
  \/ \E m \in Memory : DeleteMemory(m)

RequestsSpec == RequestsInit /\ [][RequestsNext]_requestsVars

-------------------------------------------------------------------------------
(* Properties.                                                             *)

(* The request is of one agent.  A run whose agent is named is asked with  *)
(* none of the client's models; its models are the binding's alone or the  *)
(* agent's (but for a default of the user's own); and no prompt a client   *)
(* put in the context of a run reaches the model (stripPromptContext,      *)
(* hydrateAgentConfig, bindStoredAgentModels, and the order of the three). *)
OfOneAgent(r) ==
  LET models == {sent[r].models[role] : role \in BoundRole} IN
  /\ runs[r].ask.agent # "" => \A role \in RoleName : sent[r].models[role] # "client"
  /\ ~({"binding", "agent"} \subseteq models)
  /\ sent[r].models["default"] # "none"
  /\ runs[r].ask.kind \in OfConfig => \A k \in PromptKey : sent[r].context[k] # "client"
  /\ sent[r].context["user_id"] = "service"

(* Each step follows the observations.  A request tells the last one, the  *)
(* last of those before in their order, and shows the images of the last   *)
(* one only, and only to a model that sees (applyDeviceObservation,        *)
(* visualInputsFromObservation).                                           *)
FollowsObservations(r) ==
  LET n   == Len(seen[r])
      all == [i \in 1..runs[r].ask.history |-> 0] \o [i \in 1..n |-> i]
  IN  AtPc(r, "asked") =>
        /\ sent[r].task = n
        /\ n > 0 => /\ Len(sent[r].history) = IF Len(all) > MaxHistory THEN MaxHistory ELSE Len(all)
                    /\ \A i \in 1..Len(sent[r].history) :
                         sent[r].history[i] = all[Len(all) - Len(sent[r].history) + i]
        /\ sent[r].images = {i \in {n} : runs[r].ask.sees /\ i > 0 /\ "image" \in seen[r][n]}

RequestsAsMeant == \A r \in Run : sent[r] # Nobody => OfOneAgent(r) /\ FollowsObservations(r)

(* What a run has learned is told to the next.  A run is told memories of  *)
(* its user and agent only; and those that a run answered before it began  *)
(* has left, of the same agent, are among them, but for the deleted, for   *)
(* want of room, or if one of them was blank or a statement failed.        *)
ToldTo(m, r) == m \in runs[r].recalled \/ memory[m].state = "deleted"
                \/ Cardinality(runs[r].recalled) = MaxRecalled

LearnedIsTold ==
  \A r \in Run : runs[r].pc \notin {"idle", "recall", "refused"} =>
    /\ \A m \in runs[r].recalled :
         memory[m].user = "me" /\ (runs[r].ask.agent # "" => memory[m].agent = runs[r].ask.agent)
    /\ \A q \in before[r] :
         LET left == {m \in Memory : memory[m] # Nobody /\ memory[m].from = q} IN
         (runs[q].whole /\ runs[r].ask.agent \in {"", runs[q].ask.agent}) =>
            /\ Cardinality(left) = Len(runs[q].leaves)
            /\ \A m \in left : ToldTo(m, r)

(* What a run is asked is what was meant by its client, its agent, and     *)
(* what was observed and learned before.                                   *)
AskedAsMeant == RequestsAsMeant /\ LearnedIsTold
===============================================================================
