------------------------------ MODULE AgentConfigs ------------------------------
(***************************************************************************)
(* The prompts in an agent's configuration (SysAgentService, its           *)
(* assembler).                                                             *)
(*                                                                         *)
(* A configuration is shown without prompts and API keys.  Who has seen it *)
(* sends it back changed, and the service puts the prompts that are        *)
(* missing back in from the row it has read: an item of a list takes them  *)
(* from the old item of its id or, failing that, from the one that stood   *)
(* in its place.                                                           *)
(*                                                                         *)
(* The model has one agent, one prompt and one API key at the top, and one *)
(* list whose items have a prompt each.  A prompt is known by its number,  *)
(* in the order they were first written; 0 is none, and a blank one.  A    *)
(* text that is no JSON is stored as it is sent, and left out; so are the  *)
(* bindings of models, which are in ModelBinding.                          *)
(***************************************************************************)
EXTENDS Naturals, Sequences

CONSTANTS
  Item, IdOf(_),        \* the items of the list, whatever they are called; their ids
  NoId,                 \* an item without an id
  Editor,               \* clients that edit the agent
  NoDraft,              \* a client that does not
  MaxPrompts, MaxViews, MaxItems  \* bounds: prompts written, views, items of a list

VARIABLES
  agentConfig,  \* sys_agent.config
  editor,       \* the clients
  prompts, views,  \* what the bounds count
  lastPrompt,   \* ghost: the prompt each item was given last
  topPrompt     \* ghost: the prompt the agent itself was given last

configVars == <<agentConfig, editor, prompts, views, lastPrompt, topPrompt>>

Listed(items) == {items[i].who : i \in DOMAIN items}
ConfigItem == [who : Item, prompt : 0..MaxPrompts]
AgentConfig == [top : 0..MaxPrompts, apiKey : BOOLEAN, items : Seq(ConfigItem)]

Draft == [pc : {"view", "save"}, draft : AgentConfig, existing : AgentConfig, late : BOOLEAN]

ASSUME ConfigAssumption ==
  /\ NoDraft \notin Draft
  /\ MaxPrompts \in Nat /\ MaxViews \in Nat /\ MaxItems \in Nat

ConfigTypeOK ==
  /\ agentConfig \in AgentConfig
  /\ editor \in [Editor -> Draft \cup {NoDraft}]
  /\ prompts \in 0..MaxPrompts /\ views \in 0..MaxViews
  /\ lastPrompt \in [Item -> 0..MaxPrompts] /\ topPrompt \in 0..MaxPrompts

ConfigInit ==
  /\ agentConfig = [top |-> 0, apiKey |-> TRUE, items |-> <<>>]
  /\ editor = [e \in Editor |-> NoDraft]
  /\ prompts = 0 /\ views = 0
  /\ lastPrompt = [w \in Item |-> 0] /\ topPrompt = 0

-------------------------------------------------------------------------------
(* What is shown of a configuration.                                       *)
Scrubbed(config) ==
  [top |-> 0, apiKey |-> FALSE,
   items |-> [i \in DOMAIN config.items |-> [config.items[i] EXCEPT !.prompt = 0]]]

FindSysAgentById(e) ==
  /\ editor[e] = NoDraft
  /\ views < MaxViews /\ views' = views + 1
  /\ editor' = [editor EXCEPT ![e] = [pc |-> "view", draft |-> Scrubbed(agentConfig),
                                      existing |-> Scrubbed(agentConfig), late |-> FALSE]]
  /\ UNCHANGED <<agentConfig, prompts, lastPrompt, topPrompt>>

(* What a client may make of its view: it reorders, removes and adds       *)
(* items, and may write the prompt of the "agent", or of one item.         *)
Orders == {order \in UNION {[1..n -> Item] : n \in 0..MaxItems} :
             \A i, j \in DOMAIN order : order[i] = order[j] => i = j}

Drafts(view, order, written, number) ==
  [view EXCEPT !.top = IF written = "agent" THEN number ELSE 0,
               !.items = [i \in DOMAIN order |->
                            [who |-> order[i], prompt |-> IF written = order[i] THEN number ELSE 0]]]

(* An update arrives, and the row is read.                                 *)
UpdateAgentConfig(e, order, written) ==
  /\ editor[e] # NoDraft /\ editor[e].pc = "view"
  /\ IF written = "nothing" THEN UNCHANGED prompts
     ELSE prompts < MaxPrompts /\ prompts' = prompts + 1
  /\ editor' = [editor EXCEPT ![e] =
       [@ EXCEPT !.pc = "save", !.existing = agentConfig,
                 !.draft = Drafts(editor[e].draft, order, written, prompts')]]
  /\ UNCHANGED <<agentConfig, views, lastPrompt, topPrompt>>

-------------------------------------------------------------------------------
(* The old item an item takes its prompt from: that of its id,             *)
SameId(old, who) == {j \in DOMAIN old : IdOf(who) # NoId /\ IdOf(old[j].who) = IdOf(who)}

(* Faulty variant: old items are found by their place only.                *)
OldItemInPlace(old, who, i) == IF i \in DOMAIN old THEN i ELSE 0

(* the last if there are several, or else that in its place, if any.       *)
OldItem(old, who, i) ==
  IF SameId(old, who) # {} THEN CHOOSE j \in SameId(old, who) : \A k \in SameId(old, who) : k <= j
  ELSE IF i \in DOMAIN old THEN i ELSE 0

PreserveSensitiveValues(old, new) ==
  [new EXCEPT
     !.top = IF new.top = 0 THEN old.top ELSE new.top,
     !.items = [i \in DOMAIN new.items |->
       LET j == OldItem(old.items, new.items[i].who, i) IN
       [new.items[i] EXCEPT !.prompt = IF @ = 0 /\ j # 0 THEN old.items[j].prompt ELSE @]]]

(* Is an item known for what it was?  It has been in the list, and has an  *)
(* id of its own or has kept its place.                                    *)
Known(old, who, i) ==
  /\ who \in Listed(old)
  /\ IF IdOf(who) = NoId THEN i \in DOMAIN old /\ old[i].who = who
     ELSE \A j \in SameId(old, who) : old[j].who = who

(* The row is written.  The ghosts follow what a client has written; of an *)
(* item that is not known, and of an update that has not read the last     *)
(* one, they follow the row.                                               *)
SaveAgent(e) ==
  LET new   == editor[e].draft
      old   == editor[e].existing
      saved == PreserveSensitiveValues(old, new)
  IN  /\ editor[e] # NoDraft /\ editor[e].pc = "save"
      /\ agentConfig' = saved
      /\ lastPrompt' = [w \in Item |->
           IF w \notin Listed(new.items) THEN 0
           ELSE LET i == CHOOSE k \in DOMAIN new.items : new.items[k].who = w IN
                IF new.items[i].prompt # 0 THEN new.items[i].prompt
                ELSE IF editor[e].late \/ ~Known(old.items, w, i) THEN saved.items[i].prompt
                ELSE lastPrompt[w]]
      /\ topPrompt' = IF new.top # 0 THEN new.top ELSE IF editor[e].late THEN saved.top ELSE topPrompt
      /\ editor' = [d \in Editor |->
           IF d = e THEN NoDraft
           ELSE IF editor[d] # NoDraft /\ editor[d].pc = "save" THEN [editor[d] EXCEPT !.late = TRUE]
           ELSE editor[d]]
      /\ UNCHANGED <<prompts, views>>

(* The update is refused, or its row is not written.  A client that gives  *)
(* up stays at its view.                                                   *)
EndsEdit(e) ==
  /\ editor[e] # NoDraft /\ editor[e].pc = "save"
  /\ editor' = [editor EXCEPT ![e] = NoDraft]
  /\ UNCHANGED <<agentConfig, prompts, views, lastPrompt, topPrompt>>

ConfigNext ==
  \E e \in Editor :
    \/ FindSysAgentById(e) \/ SaveAgent(e) \/ EndsEdit(e)
    \/ \E order \in Orders : \E written \in {"agent", "nothing"} \cup {order[i] : i \in DOMAIN order} :
         UpdateAgentConfig(e, order, written)

ConfigSpec == ConfigInit /\ [][ConfigNext]_configVars

-------------------------------------------------------------------------------
(* Properties.                                                             *)

(* What cannot be seen is not lost, nor given to another: an agent, and an *)
(* item with an id of its own wherever it is moved, and one without in its *)
(* place, keep the prompt they were given last through any edits of a view *)
(* that shows none, unless two updates have read the same row              *)
(* (scrubSensitiveAgentConfig, preserveSensitiveValues).                   *)
PromptsKept ==
  /\ agentConfig.top = topPrompt
  /\ \A i \in DOMAIN agentConfig.items :
       agentConfig.items[i].prompt = lastPrompt[agentConfig.items[i].who]
===============================================================================
