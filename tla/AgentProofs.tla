------------------------------ MODULE AgentProofs ------------------------------
(***************************************************************************)
(* Proofs about what an agent is made of: its configuration (AgentConfigs),*)
(* its skills (Skills), its models and their keys (ModelBinding).          *)
(***************************************************************************)
EXTENDS AgentConfigs, Skills, ModelBinding, FiniteSetTheorems, SequenceTheorems, WellFoundedInduction, TLAPS

-------------------------------------------------------------------------------
(* Configurations.                                                         *)

(* A set of naturals that is not empty has a least element, and one that   *)
(* is bounded a greatest.                                                  *)
LEMMA LeastOf ==
  ASSUME NEW S, S \subseteq Nat, S # {}
  PROVE  \E x \in S : \A y \in S : x <= y
<1>1. PICK x \in S : \A y \in S : ~(<<y, x>> \in OpToRel(<, Nat))
  BY WFMin, NatLessThanWellFounded
<1>2. \A y \in S : ~(y < x)
  BY <1>1 DEF OpToRel
<1> QED  BY <1>2

(* A nonempty set of numbers up to n has a greatest one.                   *)
LEMMA GreatestOf ==
  ASSUME NEW n \in Nat, NEW S, S \subseteq 0 .. n, S # {}
  PROVE  \E x \in S : \A y \in S : y <= x
<1> DEFINE T == {n - y : y \in S}
<1>1. \A y \in 0 .. n : n - y \in Nat
  OBVIOUS
<1>2. T \subseteq Nat /\ T # {}
  BY <1>1
<1>3. PICK t \in T : \A u \in T : t <= u
  BY <1>2, LeastOf
<1>4. PICK x \in S : t = n - x
  OBVIOUS
<1>5. ASSUME NEW y \in S PROVE y <= x
  <2>1. n - y \in T /\ x \in 0 .. n /\ y \in 0 .. n
    BY <1>5
  <2>2. n - x <= n - y
    BY <1>3, <1>4, <2>1
  <2> QED  BY <2>1, <2>2
<1> QED  BY <1>5

(* The items of a list are called differently.                             *)
Distinct(items) == \A i, j \in DOMAIN items : items[i].who = items[j].who => i = j

(* A client that has sent its update has read the row as it is, unless     *)
(* another was written since; what it sends is a list of distinct items.   *)
EditKept(e) ==
  (editor[e] # NoDraft /\ editor[e].pc = "save") =>
    /\ Distinct(editor[e].draft.items)
    /\ ~editor[e].late => editor[e].existing = agentConfig

ConfigInv ==
  /\ ConfigTypeOK
  /\ Distinct(agentConfig.items)
  /\ \A e \in Editor : EditKept(e)
  /\ PromptsKept

(* An update under way is of configurations, what it read and what it will *)
(* send.                                                                   *)
LEMMA ConfigAtWork ==
  ASSUME ConfigTypeOK, NEW e \in Editor, editor[e] # NoDraft
  PROVE  /\ editor[e] \in Draft
         /\ editor[e].draft \in AgentConfig /\ editor[e].existing \in AgentConfig
         /\ editor[e].draft.items \in Seq(ConfigItem) /\ editor[e].existing.items \in Seq(ConfigItem)
BY DEF ConfigTypeOK, Draft, AgentConfig

(* What an editor is shown, its prompts hidden, is a configuration.        *)
LEMMA ScrubbedIsConfig == ASSUME NEW config \in AgentConfig PROVE Scrubbed(config) \in AgentConfig
<1> DEFINE items == [i \in DOMAIN config.items |-> [config.items[i] EXCEPT !.prompt = 0]]
<1>1. config.items \in Seq(ConfigItem) /\ DOMAIN config.items = 1 .. Len(config.items) /\ Len(config.items) \in Nat
  BY DEF AgentConfig
<1>2. ASSUME NEW i \in 1 .. Len(config.items) PROVE [config.items[i] EXCEPT !.prompt = 0] \in ConfigItem
  <2>1. config.items[i] \in ConfigItem
    BY <1>1
  <2> QED  BY <2>1, ConfigAssumption DEF ConfigItem
<1>3. items \in Seq(ConfigItem)
  <2>1. items \in [1 .. Len(config.items) -> ConfigItem]
    BY <1>1, <1>2
  <2> QED  BY <1>1, <2>1
<1> HIDE DEF items
<1>4. [top |-> 0, apiKey |-> FALSE, items |-> items] \in AgentConfig
  BY <1>3, ConfigAssumption DEF AgentConfig
<1> QED  BY <1>4 DEF Scrubbed, items

(* What an editor may send back is a configuration, whose items are called *)
(* differently.                                                            *)
LEMMA DraftsAreConfigs ==
  ASSUME NEW view \in AgentConfig, NEW order \in Orders, NEW written, NEW number \in 0 .. MaxPrompts
  PROVE  /\ Drafts(view, order, written, number) \in AgentConfig
         /\ Distinct(Drafts(view, order, written, number).items)
<1> DEFINE items == [i \in DOMAIN order |->
                       [who |-> order[i], prompt |-> IF written = order[i] THEN number ELSE 0]]
<1>1. PICK n \in 0 .. MaxItems : order \in [1 .. n -> Item]
  BY DEF Orders
<1>2. n \in Nat /\ DOMAIN order = 1 .. n
  BY <1>1, ConfigAssumption
<1>3. \A i \in 1 .. n : [who |-> order[i], prompt |-> IF written = order[i] THEN number ELSE 0] \in ConfigItem
  BY <1>1, ConfigAssumption DEF ConfigItem
<1>4. items \in Seq(ConfigItem)
  <2>1. items \in [1 .. n -> ConfigItem]
    BY <1>2, <1>3
  <2> QED  BY <1>2, <2>1
<1>5. \A i, j \in DOMAIN order : order[i] = order[j] => i = j
  BY DEF Orders
<1>6. DOMAIN items = DOMAIN order /\ \A i \in DOMAIN items : items[i].who = order[i]
  OBVIOUS
<1>7. Distinct(items)
  BY <1>5, <1>6 DEF Distinct
<1> DEFINE top == IF written = "agent" THEN number ELSE 0
<1>8. top \in 0 .. MaxPrompts
  BY ConfigAssumption
<1> HIDE DEF items, top
<1>9. /\ [view EXCEPT !.top = top, !.items = items] \in AgentConfig
      /\ [view EXCEPT !.top = top, !.items = items].items = items
  BY <1>4, <1>8 DEF AgentConfig
<1>10. Drafts(view, order, written, number) = [view EXCEPT !.top = top, !.items = items]
  BY DEF Drafts, items, top
<1> QED  BY <1>7, <1>9, <1>10

(* The old item an item is taken from is one of the old list.              *)
LEMMA OldItemIsOld ==
  ASSUME NEW old \in Seq(ConfigItem), NEW who, NEW i
  PROVE  OldItem(old, who, i) \in DOMAIN old \cup {0}
<1>1. CASE SameId(old, who) # {}
  <2>1. SameId(old, who) \subseteq 0 .. Len(old) /\ SameId(old, who) \subseteq DOMAIN old /\ Len(old) \in Nat
    BY DEF SameId
  <2>2. \E j \in SameId(old, who) : \A k \in SameId(old, who) : k <= j
    BY <1>1, <2>1, GreatestOf
  <2>3. OldItem(old, who, i) \in SameId(old, who)
    BY <1>1, <2>2 DEF OldItem
  <2> QED  BY <2>1, <2>3
<1>2. CASE SameId(old, who) = {}
  BY <1>2 DEF OldItem
<1> QED  BY <1>1, <1>2

(* What is stored: the draft's items, each with its own prompt, that of    *)
(* the old item it is taken from, or none.                                 *)
Preserved(old, new, i) ==
  LET j == OldItem(old.items, new.items[i].who, i) IN
  [new.items[i] EXCEPT !.prompt = IF @ = 0 /\ j # 0 THEN old.items[j].prompt ELSE @]

(* An item that is sent with a prompt keeps it; one sent without gets that *)
(* of the old item that OldItem finds for it.                              *)
LEMMA ItemPreserved ==
  ASSUME NEW old \in AgentConfig, NEW new \in AgentConfig, NEW i \in DOMAIN new.items
  PROVE  /\ Preserved(old, new, i) \in ConfigItem
         /\ Preserved(old, new, i).who = new.items[i].who
         /\ new.items[i].prompt # 0 => Preserved(old, new, i).prompt = new.items[i].prompt
         /\ (new.items[i].prompt = 0 /\ OldItem(old.items, new.items[i].who, i) # 0) =>
              Preserved(old, new, i).prompt = old.items[OldItem(old.items, new.items[i].who, i)].prompt
<1>1. new.items \in Seq(ConfigItem) /\ old.items \in Seq(ConfigItem)
  BY DEF AgentConfig
<1>2. new.items[i] \in ConfigItem
  BY <1>1
<1>3. PICK j : j = OldItem(old.items, new.items[i].who, i)
  OBVIOUS
<1>4. j # 0 => old.items[j] \in ConfigItem
  BY <1>1, <1>3, OldItemIsOld
<1> QED  BY <1>2, <1>3, <1>4 DEF Preserved, ConfigItem

(* PreserveSensitiveValues makes a configuration of the items that were    *)
(* sent, in their order, and puts the prompt at the top back if it was     *)
(* left out.                                                               *)
LEMMA ConfigPreserved ==
  ASSUME NEW old \in AgentConfig, NEW new \in AgentConfig
  PROVE  /\ PreserveSensitiveValues(old, new) \in AgentConfig
         /\ PreserveSensitiveValues(old, new).top = (IF new.top = 0 THEN old.top ELSE new.top)
         /\ PreserveSensitiveValues(old, new).items = [i \in DOMAIN new.items |-> Preserved(old, new, i)]
<1> DEFINE items == [i \in DOMAIN new.items |-> Preserved(old, new, i)]
           top == IF new.top = 0 THEN old.top ELSE new.top
<1>1. items \in Seq(ConfigItem)
  <2>1. new.items \in Seq(ConfigItem) /\ DOMAIN new.items = 1 .. Len(new.items) /\ Len(new.items) \in Nat
    BY DEF AgentConfig
  <2>2. items \in [1 .. Len(new.items) -> ConfigItem]
    BY <2>1, ItemPreserved
  <2> QED  BY <2>1, <2>2
<1>2. top \in 0 .. MaxPrompts
  BY DEF AgentConfig
<1>3. PreserveSensitiveValues(old, new) = [new EXCEPT !.top = top, !.items = items]
  BY DEF PreserveSensitiveValues, Preserved
<1> HIDE DEF items, top
<1>4. /\ [new EXCEPT !.top = top, !.items = items] \in AgentConfig
      /\ [new EXCEPT !.top = top, !.items = items].top = top
      /\ [new EXCEPT !.top = top, !.items = items].items = items
  BY <1>1, <1>2 DEF AgentConfig
<1> QED  BY <1>3, <1>4 DEF items, top

(* An item that is known keeps its prompt.                                 *)
LEMMA KnownIsKept ==
  ASSUME NEW old \in Seq(ConfigItem), Distinct(old), NEW w, NEW i \in Nat \ {0}, Known(old, w, i)
  PROVE  /\ OldItem(old, w, i) \in DOMAIN old /\ OldItem(old, w, i) # 0
         /\ old[OldItem(old, w, i)].who = w
<1>0. DOMAIN old = 1 .. Len(old) /\ Len(old) \in Nat
  OBVIOUS
<1>1. PICK k \in DOMAIN old : old[k].who = w
  BY DEF Known, Listed
<1>2. CASE IdOf(w) = NoId
  <2>1. SameId(old, w) = {}
    BY <1>2 DEF SameId
  <2> QED  BY <1>0, <1>2, <2>1 DEF OldItem, Known
<1>3. CASE IdOf(w) # NoId
  <2>1. k \in SameId(old, w)
    BY <1>1, <1>3 DEF SameId
  <2>2. \A j \in SameId(old, w) : j = k
    BY <1>1, <1>3 DEF Known, Distinct, SameId
  <2>3. k <= k
    BY <1>0, <1>1
  <2>4. OldItem(old, w, i) = k
    BY <2>1, <2>2, <2>3 DEF OldItem
  <2> QED  BY <1>0, <1>1, <2>4
<1> QED  BY <1>2, <1>3

-------------------------------------------------------------------------------
(* Every step keeps the types of the row, the views and the updates.       *)
LEMMA ConfigTypeStep == ASSUME ConfigTypeOK, [ConfigNext]_configVars PROVE ConfigTypeOK'
<1> USE ConfigAssumption
<1>1. ASSUME NEW e \in Editor, FindSysAgentById(e) PROVE ConfigTypeOK'
  <2>1. Scrubbed(agentConfig) \in AgentConfig
    BY ScrubbedIsConfig DEF ConfigTypeOK
  <2>2. [pc |-> "view", draft |-> Scrubbed(agentConfig), existing |-> Scrubbed(agentConfig),
         late |-> FALSE] \in Draft
    BY <2>1 DEF Draft
  <2> QED  BY <1>1, <2>2 DEF FindSysAgentById, ConfigTypeOK
<1>2. ASSUME NEW e \in Editor, NEW order \in Orders, NEW written,
             UpdateAgentConfig(e, order, written)
      PROVE  ConfigTypeOK'
  <2>1. editor[e] \in Draft /\ editor[e].draft \in AgentConfig
    BY <1>2, ConfigAtWork DEF UpdateAgentConfig
  <2>2. prompts' \in 0 .. MaxPrompts
    BY <1>2 DEF UpdateAgentConfig, ConfigTypeOK
  <2>3. PICK draft : draft = Drafts(editor[e].draft, order, written, prompts')
    OBVIOUS
  <2>4. draft \in AgentConfig
    BY <2>1, <2>2, <2>3, DraftsAreConfigs
  <2>5. [editor[e] EXCEPT !.pc = "save", !.existing = agentConfig, !.draft = draft] \in Draft
    BY <2>1, <2>4 DEF Draft, ConfigTypeOK
  <2>6. editor' = [editor EXCEPT ![e] = [editor[e] EXCEPT !.pc = "save", !.existing = agentConfig,
                                                         !.draft = draft]]
    BY <1>2, <2>3 DEF UpdateAgentConfig
  <2>7. editor' \in [Editor -> Draft \cup {NoDraft}]
    BY <2>5, <2>6 DEF ConfigTypeOK
  <2>8. agentConfig' = agentConfig /\ views' = views /\ lastPrompt' = lastPrompt /\ topPrompt' = topPrompt
    BY <1>2 DEF UpdateAgentConfig
  <2> QED  BY <2>2, <2>7, <2>8 DEF ConfigTypeOK
<1>3. ASSUME NEW e \in Editor, SaveAgent(e) PROVE ConfigTypeOK'
  <2>1. editor[e] \in Draft /\ editor[e].draft \in AgentConfig /\ editor[e].existing \in AgentConfig
    BY <1>3, ConfigAtWork DEF SaveAgent
  <2> DEFINE new == editor[e].draft
             old == editor[e].existing
             saved == PreserveSensitiveValues(old, new)
  <2>2. saved \in AgentConfig /\ saved.items = [i \in DOMAIN new.items |-> Preserved(old, new, i)]
    BY <2>1, ConfigPreserved
  <2>3. agentConfig' \in AgentConfig
    BY <1>3, <2>2 DEF SaveAgent
  <2>4. lastPrompt' \in [Item -> 0 .. MaxPrompts]
    <3>1. ASSUME NEW w \in Item
          PROVE  (IF w \notin Listed(new.items) THEN 0
                  ELSE LET i == CHOOSE k \in DOMAIN new.items : new.items[k].who = w IN
                       IF new.items[i].prompt # 0 THEN new.items[i].prompt
                       ELSE IF editor[e].late \/ ~Known(old.items, w, i) THEN saved.items[i].prompt
                       ELSE lastPrompt[w]) \in 0 .. MaxPrompts
      <4>1. CASE w \notin Listed(new.items)
        BY <4>1
      <4>2. CASE w \in Listed(new.items)
        <5>1. PICK i : i = CHOOSE k \in DOMAIN new.items : new.items[k].who = w
          OBVIOUS
        <5>2. i \in DOMAIN new.items
          BY <4>2, <5>1 DEF Listed
        <5>3. new.items[i].prompt \in 0 .. MaxPrompts
          <6>1. new \in AgentConfig
            BY <2>1
          <6> HIDE DEF new
          <6>2. new.items \in Seq(ConfigItem)
            BY <6>1 DEF AgentConfig
          <6>3. new.items[i] \in ConfigItem
            BY <5>2, <6>2
          <6> QED  BY <6>3 DEF ConfigItem
        <5>4. saved.items[i].prompt \in 0 .. MaxPrompts
          <6>1. Preserved(old, new, i) \in ConfigItem
            BY <2>1, <5>2, ItemPreserved
          <6> QED  BY <2>2, <5>2, <6>1 DEF ConfigItem
        <5>5. lastPrompt[w] \in 0 .. MaxPrompts
          BY DEF ConfigTypeOK
        <5> HIDE DEF new, old, saved
        <5> QED  BY <4>2, <5>1, <5>3, <5>4, <5>5
      <4> QED  BY <4>1, <4>2
    <3> QED  BY <1>3, <3>1 DEF SaveAgent
  <2>5. topPrompt' \in 0 .. MaxPrompts
    <3>1. new.top \in 0 .. MaxPrompts /\ saved.top \in 0 .. MaxPrompts
      BY <2>1, <2>2 DEF AgentConfig
    <3>2. topPrompt' = IF new.top # 0 THEN new.top ELSE IF editor[e].late THEN saved.top ELSE topPrompt
      BY <1>3 DEF SaveAgent
    <3> HIDE DEF new, saved
    <3> QED  BY <3>1, <3>2 DEF ConfigTypeOK
  <2>6. editor' \in [Editor -> Draft \cup {NoDraft}]
    <3>1. ASSUME NEW d \in Editor, editor[d] # NoDraft PROVE [editor[d] EXCEPT !.late = TRUE] \in Draft
      BY <3>1, ConfigAtWork DEF Draft
    <3>2. editor' = [d \in Editor |->
             IF d = e THEN NoDraft
             ELSE IF editor[d] # NoDraft /\ editor[d].pc = "save" THEN [editor[d] EXCEPT !.late = TRUE]
             ELSE editor[d]]
      BY <1>3 DEF SaveAgent
    <3> QED  BY <3>1, <3>2 DEF ConfigTypeOK
  <2> QED  BY <1>3, <2>3, <2>4, <2>5, <2>6 DEF SaveAgent, ConfigTypeOK
<1>4. ASSUME NEW e \in Editor, EndsEdit(e) PROVE ConfigTypeOK'
  BY <1>4 DEF EndsEdit, ConfigTypeOK
<1>5. CASE UNCHANGED configVars
  BY <1>5 DEF configVars, ConfigTypeOK
<1> QED  BY <1>1, <1>2, <1>3, <1>4, <1>5 DEF ConfigNext

(* At the start no update is under way.                                    *)
LEMMA ConfigInvInit == ASSUME ConfigInit PROVE ConfigInv
<1>1. ConfigTypeOK
  BY ConfigAssumption DEF ConfigInit, ConfigTypeOK, AgentConfig
<1> QED  BY <1>1 DEF ConfigInit, ConfigInv, Distinct, EditKept, PromptsKept

(* A write leaves in the row, for each item it lists, the prompt the item  *)
(* was given last.                                                         *)
LEMMA SaveKeepsPrompts ==
  ASSUME ConfigInv, NEW e \in Editor, SaveAgent(e)
  PROVE  Distinct(agentConfig.items)' /\ PromptsKept'
<1> DEFINE new == editor[e].draft
           old == editor[e].existing
           saved == PreserveSensitiveValues(old, new)
<1>1. new \in AgentConfig /\ old \in AgentConfig /\ new.items \in Seq(ConfigItem) /\ old.items \in Seq(ConfigItem)
  BY ConfigAtWork DEF SaveAgent, ConfigInv
<1>2. /\ saved.top = (IF new.top = 0 THEN old.top ELSE new.top)
      /\ saved.items = [i \in DOMAIN new.items |-> Preserved(old, new, i)]
  BY <1>1, ConfigPreserved
<1>3. agentConfig' = saved
  BY DEF SaveAgent
<1>4. Distinct(new.items) /\ (~editor[e].late => old = agentConfig)
  BY DEF SaveAgent, ConfigInv, EditKept
<1>5. DOMAIN saved.items = DOMAIN new.items
  BY <1>2
<1>6. \A i \in DOMAIN saved.items : saved.items[i].who = new.items[i].who
  BY <1>1, <1>2, ItemPreserved
<1>7. Distinct(saved.items)
  BY <1>4, <1>5, <1>6 DEF Distinct
<1>8. saved.top = topPrompt'
  <2>1. topPrompt' = IF new.top # 0 THEN new.top ELSE IF editor[e].late THEN saved.top ELSE topPrompt
    BY DEF SaveAgent
  <2>2. agentConfig.top = topPrompt
    BY DEF ConfigInv, PromptsKept
  <2> HIDE DEF new, old, saved
  <2> QED  BY <1>2, <1>4, <2>1, <2>2
<1>9. ASSUME NEW i \in DOMAIN saved.items
      PROVE  saved.items[i].prompt = lastPrompt'[saved.items[i].who]
  <2>1. PICK w : w = new.items[i].who
    OBVIOUS
  <2>2. i \in DOMAIN new.items /\ i \in Nat \ {0} /\ w \in Item /\ w \in Listed(new.items)
    <3>1. i \in DOMAIN new.items
      BY <1>5
    <3>2. i \in Nat \ {0} /\ new.items[i] \in ConfigItem
      BY <1>1, <3>1
    <3> QED  BY <2>1, <3>1, <3>2 DEF ConfigItem, Listed
  <2>3. i = CHOOSE k \in DOMAIN new.items : new.items[k].who = w
    BY <1>4, <2>1, <2>2 DEF Distinct
  <2>4. lastPrompt'[w] = IF new.items[i].prompt # 0 THEN new.items[i].prompt
                         ELSE IF editor[e].late \/ ~Known(old.items, w, i) THEN saved.items[i].prompt
                         ELSE lastPrompt[w]
    <3>1. lastPrompt'[w] =
            IF w \notin Listed(new.items) THEN 0
            ELSE LET x == CHOOSE k \in DOMAIN new.items : new.items[k].who = w IN
                 IF new.items[x].prompt # 0 THEN new.items[x].prompt
                 ELSE IF editor[e].late \/ ~Known(old.items, w, x) THEN saved.items[x].prompt
                 ELSE lastPrompt[w]
      BY <2>2 DEF SaveAgent
    <3> HIDE DEF new, old, saved
    <3> QED  BY <2>2, <2>3, <3>1
  <2>5. saved.items[i] = Preserved(old, new, i)
    BY <1>2, <2>2
  <2>6. new.items[i].prompt # 0 => saved.items[i].prompt = new.items[i].prompt
    BY <1>1, <2>2, <2>5, ItemPreserved
  <2>7. ASSUME new.items[i].prompt = 0, ~editor[e].late, Known(old.items, w, i)
        PROVE  saved.items[i].prompt = lastPrompt[w]
    <3>1. old = agentConfig
      BY <1>4, <2>7
    <3>2. Distinct(old.items)
      BY <3>1 DEF ConfigInv
    <3>3. PICK j : j = OldItem(old.items, w, i)
      OBVIOUS
    <3>4. j \in DOMAIN old.items /\ j # 0 /\ old.items[j].who = w
      BY <1>1, <2>2, <2>7, <3>2, <3>3, KnownIsKept
    <3>5. saved.items[i].prompt = old.items[j].prompt
      <4>1. Preserved(old, new, i).prompt = old.items[OldItem(old.items, new.items[i].who, i)].prompt
        <5>1. OldItem(old.items, new.items[i].who, i) # 0
          BY <2>1, <3>3, <3>4
        <5> HIDE DEF new, old
        <5> QED  BY <1>1, <2>2, <2>7, <5>1, ItemPreserved
      <4> HIDE DEF new, old, saved
      <4> QED  BY <2>1, <2>5, <3>3, <4>1
    <3>6. agentConfig.items[j].prompt = lastPrompt[agentConfig.items[j].who]
      BY <3>1, <3>4 DEF ConfigInv, PromptsKept
    <3> QED  BY <3>1, <3>4, <3>5, <3>6
  <2>8. saved.items[i].who = w
    BY <1>6, <2>1
  <2> HIDE DEF new, old, saved
  <2> QED  BY <2>4, <2>6, <2>7, <2>8
<1> HIDE DEF saved
<1> QED  BY <1>3, <1>7, <1>8, <1>9 DEF PromptsKept, Distinct

(* Every step keeps the invariant.                                         *)
LEMMA ConfigInvStep == ASSUME ConfigInv, [ConfigNext]_configVars PROVE ConfigInv'
<1>0. ConfigTypeOK'
  BY ConfigTypeStep DEF ConfigInv
<1>1. ASSUME NEW e \in Editor, FindSysAgentById(e) PROVE ConfigInv'
  <2>1. agentConfig' = agentConfig /\ lastPrompt' = lastPrompt /\ topPrompt' = topPrompt
    BY <1>1 DEF FindSysAgentById
  <2>2. \A d \in Editor : editor'[d] = IF d = e THEN [pc |-> "view", draft |-> Scrubbed(agentConfig),
                                                       existing |-> Scrubbed(agentConfig), late |-> FALSE]
                                        ELSE editor[d]
    BY <1>1 DEF FindSysAgentById, ConfigInv, ConfigTypeOK
  <2> QED  BY <1>0, <2>1, <2>2 DEF ConfigInv, EditKept, PromptsKept, Distinct
<1>2. ASSUME NEW e \in Editor, NEW order \in Orders, NEW written,
             UpdateAgentConfig(e, order, written)
      PROVE  ConfigInv'
  <2>1. agentConfig' = agentConfig /\ lastPrompt' = lastPrompt /\ topPrompt' = topPrompt
    BY <1>2 DEF UpdateAgentConfig
  <2>2. editor[e] \in Draft /\ editor[e].draft \in AgentConfig
    BY <1>2, ConfigAtWork DEF UpdateAgentConfig, ConfigInv
  <2>3. prompts' \in 0 .. MaxPrompts
    BY <1>0 DEF ConfigTypeOK
  <2>4. PICK draft : draft = Drafts(editor[e].draft, order, written, prompts')
    OBVIOUS
  <2>5. Distinct(draft.items)
    BY <2>2, <2>3, <2>4, DraftsAreConfigs
  <2>6. editor' = [editor EXCEPT ![e] = [editor[e] EXCEPT !.pc = "save", !.existing = agentConfig,
                                                         !.draft = draft]]
    BY <1>2, <2>4 DEF UpdateAgentConfig
  <2>7. PICK ed : ed = [editor[e] EXCEPT !.pc = "save", !.existing = agentConfig, !.draft = draft]
    OBVIOUS
  <2>8. ed.draft = draft /\ ed.existing = agentConfig
    BY <2>2, <2>7 DEF Draft
  <2>9. \A d \in Editor : editor'[d] = IF d = e THEN ed ELSE editor[d]
    BY <2>6, <2>7 DEF ConfigInv, ConfigTypeOK
  <2> QED  BY <1>0, <2>1, <2>5, <2>8, <2>9 DEF ConfigInv, EditKept, PromptsKept, Distinct
<1>3. ASSUME NEW e \in Editor, SaveAgent(e) PROVE ConfigInv'
  <2>1. Distinct(agentConfig.items)' /\ PromptsKept'
    BY <1>3, SaveKeepsPrompts
  <2>2. ASSUME NEW d \in Editor PROVE EditKept(d)'
    <3>1. editor'[d] = IF d = e THEN NoDraft
             ELSE IF editor[d] # NoDraft /\ editor[d].pc = "save" THEN [editor[d] EXCEPT !.late = TRUE]
             ELSE editor[d]
      BY <1>3 DEF SaveAgent
    <3>2. CASE d # e /\ editor[d] # NoDraft /\ editor[d].pc = "save"
      <4>1. editor[d] \in Draft
        BY <3>2, ConfigAtWork DEF ConfigInv
      <4>2. editor'[d].draft = editor[d].draft /\ editor'[d].late
        BY <3>1, <3>2, <4>1 DEF Draft
      <4> QED  BY <3>2, <4>2 DEF EditKept, ConfigInv, Distinct
    <3>3. CASE ~(d # e /\ editor[d] # NoDraft /\ editor[d].pc = "save")
      BY <3>1, <3>3 DEF EditKept
    <3> QED  BY <3>2, <3>3
  <2> QED  BY <1>0, <2>1, <2>2 DEF ConfigInv
<1>4. ASSUME NEW e \in Editor, EndsEdit(e) PROVE ConfigInv'
  <2>1. agentConfig' = agentConfig /\ lastPrompt' = lastPrompt /\ topPrompt' = topPrompt
    BY <1>4 DEF EndsEdit
  <2>2. \A d \in Editor : editor'[d] = IF d = e THEN NoDraft ELSE editor[d]
    BY <1>4 DEF EndsEdit, ConfigInv, ConfigTypeOK
  <2> QED  BY <1>0, <2>1, <2>2 DEF ConfigInv, EditKept, PromptsKept, Distinct
<1>5. CASE UNCHANGED configVars
  BY <1>0, <1>5 DEF configVars, ConfigInv, EditKept, PromptsKept, Distinct
<1> QED  BY <1>1, <1>2, <1>3, <1>4, <1>5 DEF ConfigNext

(* Configurations, drafts and ghosts keep their types, and updates their   *)
(* bounds (SysAgentService).                                               *)
THEOREM ConfigTypeCorrect == ConfigSpec => []ConfigTypeOK
<1>1. ConfigInv => ConfigTypeOK
  BY DEF ConfigInv
<1> QED  BY <1>1, ConfigInvInit, ConfigInvStep, PTL DEF ConfigSpec

(* Through any edits of a view that shows none, every prompt is what it    *)
(* was given last, unless two updates have read the same row               *)
(* (scrubSensitiveAgentConfig, preserveSensitiveValues).                   *)
THEOREM PromptsAreKept == ConfigSpec => []PromptsKept
<1>1. ConfigInv => PromptsKept
  BY DEF ConfigInv
<1> QED  BY <1>1, ConfigInvInit, ConfigInvStep, PTL DEF ConfigSpec

-------------------------------------------------------------------------------
(* Skills.                                                                 *)

Files(p) == {Contents(p).entries[k] : k \in DOMAIN Contents(p).entries}

AtInsert(u, name) == Now(u, "insert") /\ uploader[u].name = name

(* A name that is not unsure has one row at most, and the one upload that  *)
(* has found none is alone.                                                *)
OnceNamed(name) ==
  /\ \A i, j \in Rows(name) : i = j
  /\ \A u \in Uploader : AtInsert(u, name) =>
       Rows(name) = {} /\ \A w \in Uploader : AtInsert(w, name) => w = u

(* A file of a package that is there, its own or a later one.              *)
FileThere(p, f) == f \in SkillFile /\ unpacked[Contents(p).dir][f] # NoSkill

RowKept(i) ==
  LET p == skill[i].from IN
  p # NoSkill =>
    /\ "SKILL.md" \in Files(p) => skill[i].name = Contents(p).says
    /\ \A f \in Files(p) : FileThere(p, f)

(* Of an upload that none has crossed, every file is there, and no other   *)
(* has it open, or is still to be unpacked.                                *)
AtWork(u) == Now(u, "extract") \/ Now(u, "copy")
UnpackKept(u) ==
  LET p == uploader[u].of
      left == uploader[u].left
  IN  (AtWork(u) /\ ~uploader[u].crossed) =>
        \A f \in Files(p) :
          \/ \E k \in DOMAIN left : left[k] = f
          \/ /\ f \in SkillFile /\ unpacked[Contents(p).dir][f] = p
             /\ \A w \in Uploader : ~Copying(w, Contents(p).dir, f)

NameKept(u) ==
  LET p == uploader[u].of IN
  (Now(u, "check") \/ Now(u, "insert")) =>
    /\ uploader[u].name \in SkillName
    /\ ~uploader[u].crossed =>
         /\ "SKILL.md" \in Files(p) => uploader[u].name = Contents(p).says
         /\ \A f \in Files(p) : FileThere(p, f)

(* Uploads that have one file open know it, and so do the ghosts; a file   *)
(* that is torn is open or the ghost's.                                    *)
CopyKept(u) ==
  Now(u, "copy") =>
    /\ uploader[u].left # <<>> /\ Head(uploader[u].left) \in SkillFile
    /\ uploader[u].shared =>
         uploader[u].crossed /\ <<Contents(uploader[u].of).dir, Head(uploader[u].left)>> \in atRisk

FilesInv ==
  /\ \A u \in Uploader : CopyKept(u)
  /\ \A u, w \in Uploader, d \in Directory, f \in SkillFile :
       (Copying(u, d, f) /\ Copying(w, d, f) /\ u # w) => uploader[u].shared
  /\ \A d \in Directory, f \in SkillFile :
       unpacked[d][f] = Torn => <<d, f>> \in atRisk \/ \E u \in Uploader : Copying(u, d, f)

DeletionKept(u) == Now(u, "delete") => uploader[u].row \in DOMAIN skill

SkillInv ==
  /\ SkillTypeOK
  /\ \A name \in SkillName \ unsure : OnceNamed(name)
  /\ \A i \in DOMAIN skill : RowKept(i)
  /\ \A u \in Uploader : UnpackKept(u) /\ NameKept(u) /\ DeletionKept(u)
  /\ FilesInv

(* A set whose members are all equal has one at most.                      *)
LEMMA AtMostOneRow ==
  ASSUME NEW S, \A a, b \in S : a = b
  PROVE  Cardinality(S) <= 1
<1>1. CASE S = {}
  BY <1>1, FS_EmptySet
<1>2. ASSUME NEW a \in S PROVE Cardinality(S) <= 1
  <2>1. S = {a}
    OBVIOUS
  <2> QED  BY <2>1, FS_Singleton
<1> QED  BY <1>1, <1>2

(* What a call is at each point of its code.                               *)
LEMMA UploadUnderWay ==
  ASSUME SkillTypeOK, NEW u \in Uploader
  PROVE  /\ (AtWork(u) \/ Now(u, "check") \/ Now(u, "insert")) =>
              /\ uploader[u] \in Upload
              /\ uploader[u].of \in Package /\ uploader[u].left \in Archive
              /\ uploader[u].crossed \in BOOLEAN /\ uploader[u].shared \in BOOLEAN
         /\ Now(u, "delete") => uploader[u] \in Deletion
BY DEF SkillTypeOK, AtWork, Now, Upload, Deletion

(* A row of a skill is one, and is of a package or of none.                *)
LEMMA RowsTyped ==
  ASSUME SkillTypeOK, NEW i \in DOMAIN skill
  PROVE  skill[i] \in SkillRow /\ skill[i].from \in Package \cup {NoSkill}
<1>1. skill[i] \in SkillRow
  BY DEF SkillTypeOK
<1> QED  BY <1>1 DEF SkillRow

(* A package is unpacked into a directory, which gives its skill a name.   *)
LEMMA DirectoryNamed ==
  ASSUME SkillTypeOK, NEW p \in Package
  PROVE  NamesIn(Contents(p).dir) \subseteq SkillName /\ Contents(p).dir \in Directory
<1>1. Contents(p).dir \in Directory
  BY DEF Directory
<1>2. unpacked[Contents(p).dir]["SKILL.md"] \in Package \cup {NoSkill, Torn}
  BY <1>1 DEF SkillTypeOK, SkillFile
<1> QED  BY <1>1, <1>2 DEF NamesIn, SkillName

(* The first entry of an archive and the rest of it, in which are all its  *)
(* entries.                                                                *)
LEMMA ArchiveEntries ==
  ASSUME NEW left \in Archive, left # <<>>
  PROVE  /\ Head(left) \in SkillFile \cup {"outside"} /\ Tail(left) \in Archive
         /\ \A k \in DOMAIN left : left[k] = Head(left) \/ \E j \in DOMAIN Tail(left) : Tail(left)[j] = left[k]
<1>1. Len(left) \in Nat \ {0} /\ DOMAIN left = 1 .. Len(left) /\ Len(Tail(left)) = Len(left) - 1
  BY DEF Archive
<1>2. Head(left) \in SkillFile \cup {"outside"} /\ Tail(left) \in Archive
  BY <1>1 DEF Archive
<1>3. ASSUME NEW k \in 1 .. Len(left), k # 1
      PROVE  \E j \in DOMAIN Tail(left) : Tail(left)[j] = left[k]
  <2>1. k - 1 \in 1 .. Len(left) - 1 /\ DOMAIN Tail(left) = 1 .. Len(left) - 1
    BY <1>1, <1>2, <1>3 DEF Archive
  <2>2. Tail(left)[k - 1] = left[k]
    BY <1>1, <1>3, <2>1 DEF Archive
  <2> QED  BY <2>1, <2>2
<1> QED  BY <1>1, <1>2, <1>3 DEF Archive

(* An append of a row leaves the others in place.                          *)
LEMMA RowAppended ==
  ASSUME SkillTypeOK, NEW row \in SkillRow, Len(skill) < MaxSkills, skill' = Append(skill, row)
  PROVE  /\ skill' \in Seq(SkillRow) /\ Len(skill') <= MaxSkills
         /\ \A i \in DOMAIN skill : skill'[i] = skill[i]
         /\ \E n : /\ n \in DOMAIN skill' /\ DOMAIN skill' = DOMAIN skill \cup {n}
                   /\ n \notin DOMAIN skill /\ skill'[n] = row
<1>1. skill \in Seq(SkillRow) /\ Len(skill) \in Nat /\ DOMAIN skill = 1 .. Len(skill) /\ MaxSkills \in Nat
  BY SkillAssumption DEF SkillTypeOK
<1>2. /\ skill' \in Seq(SkillRow) /\ Len(skill') = Len(skill) + 1 /\ DOMAIN skill' = 1 .. Len(skill) + 1
      /\ \A i \in 1 .. Len(skill) : skill'[i] = skill[i]
      /\ skill'[Len(skill) + 1] = row
  BY <1>1
<1>3. PICK n : n = Len(skill) + 1
  OBVIOUS
<1>4. n \in DOMAIN skill' /\ DOMAIN skill' = DOMAIN skill \cup {n} /\ n \notin DOMAIN skill
  BY <1>1, <1>2, <1>3
<1> QED  BY <1>1, <1>2, <1>3, <1>4

(* Opening a call changes no other.                                        *)
LEMMA CallOpens ==
  ASSUME SkillTypeOK, NEW u \in Uploader, NEW fields \in Upload \cup Deletion, Opens(u, fields)
  PROVE  /\ uploader' \in [Uploader -> Upload \cup Deletion \cup {NoSkill}]
         /\ uploads' \in 0 .. MaxUploads
         /\ \A w \in Uploader : uploader'[w] = IF w = u THEN fields ELSE uploader[w]
BY SkillAssumption DEF SkillTypeOK, Opens

(* Nor does closing one.                                                   *)
LEMMA CallCloses ==
  ASSUME SkillTypeOK, NEW u \in Uploader, Closes(u)
  PROVE  /\ uploader' \in [Uploader -> Upload \cup Deletion \cup {NoSkill}]
         /\ \A w \in Uploader : uploader'[w] = IF w = u THEN NoSkill ELSE uploader[w]
BY DEF SkillTypeOK, Closes

(* The number of failures stays within its bound.                          *)
LEMMA FaultCounted ==
  ASSUME SkillTypeOK, SkillFault \/ UNCHANGED skillFaults
  PROVE  skillFaults' \in 0 .. MaxSkillFaults
BY SkillAssumption DEF SkillTypeOK, SkillFault

(* A step of no copy leaves the copies what they are.                      *)
LEMMA CopiesStay ==
  ASSUME FilesInv, UNCHANGED <<unpacked, atRisk>>,
         \A w \in Uploader : uploader'[w] = uploader[w] \/ (~Now(w, "copy") /\ ~Now(w, "copy")')
  PROVE  FilesInv' /\ \A w \in Uploader : \A d, f : Copying(w, d, f)' <=> Copying(w, d, f)
<1>1. \A w \in Uploader : \A d, f : Copying(w, d, f)' <=> Copying(w, d, f)
  BY DEF Copying, Now
<1>2. \A w \in Uploader : CopyKept(w)'
  BY DEF FilesInv, CopyKept, Now
<1>3. ASSUME NEW u \in Uploader, NEW w \in Uploader, NEW d \in Directory, NEW f \in SkillFile,
             Copying(u, d, f)', Copying(w, d, f)', u # w
      PROVE  uploader'[u].shared
  <2>1. uploader[u].shared
    BY <1>1, <1>3 DEF FilesInv
  <2>2. Now(u, "copy")'
    BY <1>3 DEF Copying
  <2> QED  BY <2>1, <2>2
<1>4. ASSUME NEW d \in Directory, NEW f \in SkillFile, unpacked'[d][f] = Torn
      PROVE  <<d, f>> \in atRisk' \/ \E u \in Uploader : Copying(u, d, f)'
  BY <1>1, <1>4 DEF FilesInv
<1> QED  BY <1>1, <1>2, <1>3, <1>4 DEF FilesInv, Directory

(* A step that leaves rows, files and names alone, and changes one call.   *)
LEMMA CallMoves ==
  ASSUME SkillInv, SkillTypeOK', NEW u \in Uploader, UNCHANGED <<skill, unpacked, atRisk>>, unsure \subseteq unsure',
         \A w \in Uploader \ {u} : uploader'[w] = uploader[w],
         ~Now(u, "copy"), ~Now(u, "copy")', ~Now(u, "insert")', UnpackKept(u)', NameKept(u)', DeletionKept(u)'
  PROVE  SkillInv'
<1>1. skill' = skill /\ unpacked' = unpacked
  OBVIOUS
<1>2. \A name : Rows(name)' = Rows(name)
  BY <1>1 DEF Rows
<1>3. ASSUME NEW w \in Uploader \ {u}
      PROVE  \A pc : Now(w, pc)' = Now(w, pc)
  BY DEF Now
<1>4. \A w \in Uploader \ {u} : \A name : AtInsert(w, name)' = AtInsert(w, name)
  BY <1>3 DEF AtInsert
<1>5. \A name : ~AtInsert(u, name)'
  BY DEF AtInsert
<1>6. ASSUME NEW name \in (SkillName \ unsure)' PROVE OnceNamed(name)'
  <2>1. OnceNamed(name)
    BY DEF SkillInv, SkillName, Directory
  <2> QED  BY <1>2, <1>4, <1>5, <2>1 DEF OnceNamed
<1>7. ASSUME NEW i \in DOMAIN skill PROVE RowKept(i)'
  BY <1>1 DEF SkillInv, RowKept, FileThere
<1>8. FilesInv' /\ \A w \in Uploader : \A d, f : Copying(w, d, f)' <=> Copying(w, d, f)
  BY <1>1, CopiesStay DEF SkillInv
<1>9. ASSUME NEW w \in Uploader \ {u} PROVE UnpackKept(w)' /\ NameKept(w)' /\ DeletionKept(w)'
  <2>1. UnpackKept(w)'
    BY <1>1, <1>3, <1>8 DEF SkillInv, UnpackKept, AtWork
  <2>2. NameKept(w)' /\ DeletionKept(w)'
    BY <1>1, <1>3 DEF SkillInv, NameKept, DeletionKept, FileThere, SkillName, Directory
  <2> QED  BY <2>1, <2>2
<1> QED  BY <1>1, <1>6, <1>7, <1>9, <1>8 DEF SkillInv

(* At the start no call is under way.                                      *)
LEMMA SkillInvInit == ASSUME SkillInit PROVE SkillInv
<1>1. SkillTypeOK
  BY SkillAssumption DEF SkillInit, SkillTypeOK
<1>2. \A d \in Directory, f \in SkillFile : unpacked[d][f] # Torn
  BY SkillAssumption DEF SkillInit
<1> QED  BY <1>1, <1>2 DEF SkillInit, SkillInv, OnceNamed, Rows, AtInsert, RowKept, UnpackKept, NameKept, DeletionKept,
               FilesInv, CopyKept, Copying, AtWork, Now

(* UploadSysSkill: an upload begins with nothing of its package unpacked   *)
(* by it.                                                                  *)
LEMMA UploadKeeps ==
  ASSUME SkillInv, NEW u \in Uploader, NEW p \in Package, UploadSysSkill(u, p) PROVE SkillInv'
<1> DEFINE fields == [pc |-> "extract", of |-> p, left |-> Contents(p).entries, row |-> 0,
                      name |-> NoSkill, crossed |-> FALSE, shared |-> FALSE]
<1>1. fields \in Upload
  BY SkillAssumption DEF Upload
<1>2. /\ uploader' \in [Uploader -> Upload \cup Deletion \cup {NoSkill}]
      /\ uploads' \in 0 .. MaxUploads
      /\ \A w \in Uploader : uploader'[w] = IF w = u THEN fields ELSE uploader[w]
  BY <1>1, CallOpens DEF UploadSysSkill, SkillInv
<1>3. SkillTypeOK'
  BY <1>2 DEF SkillInv, SkillTypeOK, UploadSysSkill, SkillName, SkillRow, Directory
<1>4. /\ uploader'[u].pc = "extract" /\ uploader'[u].of = p /\ uploader'[u].left = Contents(p).entries
      /\ uploader[u] = NoSkill
  BY <1>2 DEF UploadSysSkill, Opens
<1>5. ~Now(u, "copy") /\ ~Now(u, "copy")' /\ ~Now(u, "insert")' /\ NameKept(u)' /\ DeletionKept(u)'
  BY <1>4 DEF NameKept, DeletionKept, Now
<1>6. UnpackKept(u)'
  BY <1>4 DEF UnpackKept, Files
<1> QED  BY <1>2, <1>3, <1>5, <1>6, CallMoves DEF UploadSysSkill

(* ParseSkillMd: the upload knows the name of its skill.                   *)
LEMMA ParseKeeps ==
  ASSUME SkillInv, NEW u \in Uploader, ParseSkillMd(u) PROVE SkillInv'
<1>1. SkillTypeOK
  BY DEF SkillInv
<1>2. Now(u, "extract") /\ uploader[u] \in Upload /\ uploader[u].of \in Package /\ uploader[u].left = <<>>
  BY <1>1, UploadUnderWay DEF ParseSkillMd, AtWork
<1>3. PICK p \in Package : p = uploader[u].of
  BY <1>2
<1>4. PICK d \in Directory : d = Contents(p).dir
  BY DEF Directory
<1>5. NamesIn(d) \subseteq SkillName /\ d \in SkillName
  BY <1>1, <1>4, DirectoryNamed DEF SkillName
<1>6. PICK up \in Upload :
        /\ uploader' = [uploader EXCEPT ![u] = up]
        /\ up.pc = "check" /\ up.of = p /\ up.name \in SkillName
        /\ ~up.crossed => ~uploader[u].crossed /\ up.name \in NamesIn(d)
  <2>1. ASSUME NEW name \in NamesIn(d), uploader' = [uploader EXCEPT ![u].pc = "check", ![u].name = name]
        PROVE  \E up \in Upload :
                 /\ uploader' = [uploader EXCEPT ![u] = up]
                 /\ up.pc = "check" /\ up.of = p /\ up.name \in SkillName
                 /\ ~up.crossed => ~uploader[u].crossed /\ up.name \in NamesIn(d)
    <3> DEFINE up == [uploader[u] EXCEPT !.pc = "check", !.name = name]
    <3>1. /\ up \in Upload /\ up.pc = "check" /\ up.name = name /\ up.of = p /\ up.crossed = uploader[u].crossed
      BY <1>2, <1>3, <1>5, <2>1 DEF Upload
    <3>2. uploader' = [uploader EXCEPT ![u] = up]
      BY <1>1, <1>2, <2>1 DEF SkillTypeOK, Upload
    <3> HIDE DEF up
    <3> QED  BY <1>5, <2>1, <3>1, <3>2
  <2>2. ASSUME uploader' = [uploader EXCEPT ![u].pc = "check", ![u].name = d, ![u].crossed = TRUE]
        PROVE  \E up \in Upload :
                 /\ uploader' = [uploader EXCEPT ![u] = up]
                 /\ up.pc = "check" /\ up.of = p /\ up.name \in SkillName
                 /\ ~up.crossed => ~uploader[u].crossed /\ up.name \in NamesIn(d)
    <3> DEFINE up == [uploader[u] EXCEPT !.pc = "check", !.name = d, !.crossed = TRUE]
    <3>1. /\ up \in Upload /\ up.pc = "check" /\ up.name = d /\ up.of = p /\ up.crossed
      BY <1>2, <1>3, <1>5 DEF Upload
    <3>2. uploader' = [uploader EXCEPT ![u] = up]
      BY <1>1, <1>2, <2>2 DEF SkillTypeOK, Upload
    <3> HIDE DEF up
    <3> QED  BY <1>5, <3>1, <3>2
  <2> QED  BY <1>3, <1>4, <2>1, <2>2 DEF ParseSkillMd
<1>7. /\ uploader' \in [Uploader -> Upload \cup Deletion \cup {NoSkill}]
      /\ \A w \in Uploader : uploader'[w] = IF w = u THEN up ELSE uploader[w]
  BY <1>1, <1>6 DEF SkillTypeOK
<1>8. skillFaults' \in 0 .. MaxSkillFaults
  <2>1. SkillFault \/ UNCHANGED skillFaults
    BY DEF ParseSkillMd
  <2> QED  BY <1>1, <2>1, FaultCounted
<1>9. skill' = skill /\ unpacked' = unpacked /\ unsure' = unsure /\ atRisk' = atRisk /\ uploads' = uploads
  BY DEF ParseSkillMd
<1>10. SkillTypeOK'
  BY <1>1, <1>7, <1>8, <1>9 DEF SkillTypeOK, SkillName, SkillRow, Directory
<1>11. ASSUME ~up.crossed
       PROVE  /\ "SKILL.md" \in Files(p) => up.name = Contents(p).says
              /\ \A f \in Files(p) : FileThere(p, f)
  <2>1. \A f \in Files(p) : f \in SkillFile /\ unpacked[d][f] = p
    BY <1>2, <1>3, <1>4, <1>6, <1>11 DEF SkillInv, UnpackKept, AtWork
  <2>2. p # NoSkill /\ p # Torn
    BY <1>3, SkillAssumption
  <2> QED  BY <1>4, <1>6, <1>11, <2>1, <2>2 DEF NamesIn, FileThere
<1>12. NameKept(u)'
  <2>1. uploader'[u] = up
    BY <1>7
  <2>2. \A f : FileThere(p, f)' <=> FileThere(p, f)
    BY <1>9 DEF FileThere
  <2> QED  BY <1>6, <1>11, <2>1, <2>2 DEF NameKept
<1>13. ~Now(u, "copy") /\ ~Now(u, "copy")' /\ ~Now(u, "insert")' /\ UnpackKept(u)' /\ DeletionKept(u)'
  BY <1>2, <1>6, <1>7 DEF Now, AtWork, UnpackKept, DeletionKept
<1> QED  BY <1>7, <1>9, <1>10, <1>12, <1>13, CallMoves

(* CheckSkill: an upload goes on only if the name is not taken.            *)
LEMMA CheckKeeps ==
  ASSUME SkillInv, NEW u \in Uploader, CheckSkill(u) PROVE SkillInv'
<1>1. SkillTypeOK
  BY DEF SkillInv
<1>2. Now(u, "check") /\ uploader[u] \in Upload /\ uploader[u].of \in Package
  BY <1>1, UploadUnderWay DEF CheckSkill
<1>3. PICK name : name = uploader[u].name
  OBVIOUS
<1>4. name \in SkillName
  BY <1>2, <1>3 DEF SkillInv, NameKept
<1>5. skill' = skill /\ unpacked' = unpacked /\ uploads' = uploads /\ skillFaults' = skillFaults /\ atRisk' = atRisk
  BY DEF CheckSkill
<1>6. CASE Taken(name)
  <2>1. Closes(u) /\ unsure' = unsure
    BY <1>3, <1>6 DEF CheckSkill
  <2>2. /\ uploader' \in [Uploader -> Upload \cup Deletion \cup {NoSkill}]
        /\ \A w \in Uploader : uploader'[w] = IF w = u THEN NoSkill ELSE uploader[w]
    BY <1>1, <2>1, CallCloses
  <2>3. SkillTypeOK'
    BY <1>1, <1>5, <2>1, <2>2 DEF SkillTypeOK, SkillName, SkillRow, Directory
  <2> QED  BY <1>2, <1>5, <2>1, <2>2, <2>3, CallMoves DEF UnpackKept, AtWork, NameKept, DeletionKept, Now
<1>7. CASE ~Taken(name)
  <2>1. PICK up : up = [uploader[u] EXCEPT !.pc = "insert"]
    OBVIOUS
  <2>2. /\ up \in Upload /\ up.pc = "insert" /\ up.name = name /\ up.of = uploader[u].of
        /\ up.crossed = uploader[u].crossed /\ up # NoSkill
    BY <1>2, <1>3, <2>1, SkillAssumption DEF Upload
  <2>3. uploader' = [uploader EXCEPT ![u] = up]
    <3>1. uploader' = [uploader EXCEPT ![u].pc = "insert"]
      BY <1>3, <1>7 DEF CheckSkill
    <3> QED  BY <2>1, <3>1
  <2>4. unsure' = IF Checking(name) \/ Rows(name) # {} THEN unsure \cup {name} ELSE unsure
    BY <1>3, <1>7 DEF CheckSkill
  <2>5. /\ uploader' \in [Uploader -> Upload \cup Deletion \cup {NoSkill}]
        /\ \A w \in Uploader : uploader'[w] = IF w = u THEN up ELSE uploader[w]
    BY <1>1, <2>2, <2>3 DEF SkillTypeOK
  <2>6. SkillTypeOK'
    BY <1>1, <1>4, <1>5, <2>4, <2>5 DEF SkillTypeOK, SkillName, SkillRow, Directory
  <2>7. \A w \in Uploader \ {u} : \A pc : Now(w, pc)' = Now(w, pc)
    BY <2>5 DEF Now
  <2>8. \A w \in Uploader \ {u} : \A n : AtInsert(w, n)' = AtInsert(w, n)
    BY <2>5, <2>7 DEF AtInsert
  <2>9. \A n : (AtInsert(u, n)' <=> n = name) /\ ~AtInsert(u, n)
    <3>1. uploader'[u] = up
      BY <2>5
    <3> QED  BY <1>2, <2>2, <3>1 DEF AtInsert, Now
  <2>10. \A n : Rows(n)' = Rows(n)
    BY <1>5 DEF Rows
  <2>11. ASSUME NEW n \in SkillName \ unsure' PROVE OnceNamed(n)'
    <3>1. OnceNamed(n)
      BY <2>4 DEF SkillInv
    <3>2. CASE n = name
      <4>1. ~Checking(name) /\ Rows(name) = {}
        BY <2>4, <2>11, <3>2
      <4>2. \A w \in Uploader : ~AtInsert(w, name)
        BY <4>1 DEF Checking, AtInsert, Now
      <4> QED  BY <2>8, <2>9, <2>10, <3>1, <3>2, <4>1, <4>2 DEF OnceNamed
    <3>3. CASE n # name
      BY <2>8, <2>9, <2>10, <3>1, <3>3 DEF OnceNamed
    <3> QED  BY <3>2, <3>3
  <2>12. \A p, f : FileThere(p, f)' = FileThere(p, f)
    BY <1>5 DEF FileThere
  <2>13. \A i \in DOMAIN skill : RowKept(i)'
    BY <1>5, <2>12 DEF SkillInv, RowKept
  <2>0. FilesInv' /\ \A w \in Uploader : \A d, f : Copying(w, d, f)' <=> Copying(w, d, f)
    <3>1. ~Now(u, "copy") /\ ~Now(u, "copy")'
      BY <1>2, <2>2, <2>5 DEF Now
    <3> QED  BY <1>5, <2>5, <3>1, CopiesStay DEF SkillInv
  <2>14. \A w \in Uploader \ {u} : UnpackKept(w)' /\ NameKept(w)' /\ DeletionKept(w)'
    <3>1. \A w \in Uploader \ {u} : UnpackKept(w)'
      BY <1>5, <2>0, <2>5, <2>7 DEF SkillInv, UnpackKept, AtWork
    <3>2. \A w \in Uploader \ {u} : NameKept(w)' /\ DeletionKept(w)'
      BY <1>5, <2>5, <2>7, <2>12 DEF SkillInv, NameKept, DeletionKept, SkillName, Directory
    <3> QED  BY <3>1, <3>2
  <2>15. UnpackKept(u)' /\ NameKept(u)' /\ DeletionKept(u)'
    <3>1. uploader'[u] = up
      BY <2>5
    <3>2. NameKept(u)
      BY DEF SkillInv
    <3> QED  BY <1>2, <1>3, <1>4, <2>2, <2>12, <3>1, <3>2 DEF UnpackKept, AtWork, NameKept, DeletionKept, Now
  <2>16. \A n \in (SkillName \ unsure)' : OnceNamed(n)'
    BY <2>11 DEF SkillName, Directory
  <2> QED  BY <1>5, <2>0, <2>6, <2>13, <2>14, <2>15, <2>16 DEF SkillInv
<1> QED  BY <1>6, <1>7

(* A file is opened: it is empty and there, and every upload that has it   *)
(* open knows that it is not alone.                                        *)
LEMMA OpenKeeps ==
  ASSUME SkillInv, NEW u \in Uploader, OpenSkillFile(u) PROVE SkillInv'
<1>1. SkillTypeOK
  BY DEF SkillInv
<1>2. /\ Now(u, "extract") /\ uploader[u] \in Upload /\ uploader[u].of \in Package
      /\ uploader[u].left \in Archive /\ uploader[u].left # <<>> /\ uploader[u].crossed \in BOOLEAN
  BY <1>1, UploadUnderWay DEF OpenSkillFile, AtWork
<1>3. PICK p \in Package : p = uploader[u].of
  BY <1>2
<1>4. PICK d \in Directory : d = Contents(p).dir
  BY DEF Directory
<1>5. PICK left \in Archive : left = uploader[u].left
  BY <1>2
<1>6. PICK f \in SkillFile \cup {"outside"} : f = Head(left)
  BY <1>2, <1>5, ArchiveEntries
<1>7. skill' = skill /\ uploads' = uploads /\ unsure' = unsure
  BY DEF OpenSkillFile
<1>8. skillFaults' \in 0 .. MaxSkillFaults
  <2>1. SkillFault \/ UNCHANGED skillFaults
    BY DEF OpenSkillFile
  <2> QED  BY <1>1, <2>1, FaultCounted
<1>9. CASE Closes(u) /\ UNCHANGED <<unpacked, atRisk>>
  <2>1. /\ uploader' \in [Uploader -> Upload \cup Deletion \cup {NoSkill}]
        /\ \A w \in Uploader : uploader'[w] = IF w = u THEN NoSkill ELSE uploader[w]
    BY <1>1, <1>9, CallCloses
  <2>2. SkillTypeOK'
    BY <1>1, <1>7, <1>8, <1>9, <2>1 DEF SkillTypeOK, SkillName, SkillRow, Directory
  <2> QED  BY <1>2, <1>7, <1>9, <2>1, <2>2, CallMoves DEF UnpackKept, AtWork, NameKept, DeletionKept, Now
<1>10. CASE ~(Closes(u) /\ UNCHANGED <<unpacked, atRisk>>)
  <2> DEFINE met == \E w \in Uploader : Copying(w, d, f)
  <2>1. f # "outside" /\ unpacked' = [unpacked EXCEPT ![d][f] = Torn] /\ skillFaults' = skillFaults
    BY <1>3, <1>4, <1>5, <1>6, <1>10 DEF OpenSkillFile
  <2>2. /\ uploader' = [w \in Uploader |->
                 IF w = u THEN [uploader[u] EXCEPT !.pc = "copy", !.crossed = @ \/ met, !.shared = met]
                 ELSE IF Unpacking(w, d)
                      THEN [uploader[w] EXCEPT !.crossed = TRUE, !.shared = @ \/ Copying(w, d, f)]
                      ELSE uploader[w]]
        /\ atRisk' = IF met THEN atRisk \cup {<<d, f>>} ELSE atRisk \ {<<d, f>>}
    BY <1>3, <1>4, <1>5, <1>6, <1>10 DEF OpenSkillFile
  <2>3. f \in SkillFile
    BY <2>1
  <2>4. /\ unpacked' \in [Directory -> [SkillFile -> Package \cup {NoSkill, Torn}]]
        /\ \A e \in Directory, g \in SkillFile :
             unpacked'[e][g] = IF e = d /\ g = f THEN Torn ELSE unpacked[e][g]
    BY <1>1, <2>1, <2>3 DEF SkillTypeOK
  <2>5. /\ uploader'[u] \in Upload /\ uploader'[u].pc = "copy" /\ uploader'[u].of = p /\ uploader'[u].left = left
        /\ uploader'[u].shared = met /\ uploader'[u].crossed = (uploader[u].crossed \/ met)
    <3>1. met \in BOOLEAN /\ (uploader[u].crossed \/ met) \in BOOLEAN
      BY <1>2
    <3>2. uploader'[u] = [uploader[u] EXCEPT !.pc = "copy", !.crossed = @ \/ met, !.shared = met]
      BY <2>2
    <3> HIDE DEF met
    <3> QED  BY <1>2, <1>3, <1>5, <3>1, <3>2 DEF Upload
  <2>6. ASSUME NEW w \in Uploader \ {u}, Unpacking(w, d)
        PROVE  /\ uploader'[w] \in Upload /\ uploader'[w].crossed
               /\ uploader'[w].pc = uploader[w].pc /\ uploader'[w].of = uploader[w].of
               /\ uploader'[w].left = uploader[w].left
               /\ uploader'[w].shared = (uploader[w].shared \/ Copying(w, d, f))
    <3>1. uploader[w] \in Upload /\ uploader[w].shared \in BOOLEAN
      BY <1>1, <2>6, UploadUnderWay DEF Unpacking, AtWork
    <3>2. uploader'[w] = [uploader[w] EXCEPT !.crossed = TRUE, !.shared = @ \/ Copying(w, d, f)]
      BY <2>2, <2>6
    <3>3. (uploader[w].shared \/ Copying(w, d, f)) \in BOOLEAN
      BY <3>1
    <3> QED  BY <3>1, <3>2, <3>3 DEF Upload
  <2>7. ASSUME NEW w \in Uploader \ {u}, ~Unpacking(w, d)
        PROVE  uploader'[w] = uploader[w]
    BY <2>2, <2>7
  <2> HIDE DEF met
  <2>8. uploader' \in [Uploader -> Upload \cup Deletion \cup {NoSkill}]
    <3>1. \A w \in Uploader : uploader'[w] \in Upload \cup Deletion \cup {NoSkill}
      BY <1>1, <2>5, <2>6, <2>7 DEF SkillTypeOK
    <3>2. uploader' = [w \in Uploader |-> uploader'[w]]
      BY <2>2
    <3> QED  BY <3>1, <3>2
  <2>9. atRisk' \subseteq Directory \X SkillFile
    <3>1. <<d, f>> \in Directory \X SkillFile
      BY <2>3
    <3>2. atRisk' \subseteq atRisk \cup {<<d, f>>}
      BY <2>2
    <3> QED  BY <1>1, <3>1, <3>2 DEF SkillTypeOK
  <2>10. SkillTypeOK'
    BY <1>1, <1>7, <2>1, <2>4, <2>8, <2>9 DEF SkillTypeOK, SkillName, SkillRow, Directory
  <2>11. \A w \in Uploader \ {u} : \A pc : Now(w, pc)' <=> Now(w, pc)
    <3>1. ASSUME NEW w \in Uploader \ {u}, Unpacking(w, d) PROVE uploader'[w] # NoSkill /\ uploader[w] # NoSkill
      BY <2>6, <3>1, SkillAssumption DEF Unpacking, Now
    <3> QED  BY <2>6, <2>7, <3>1 DEF Now
  <2>12. Now(u, "copy")' /\ \A pc : pc # "copy" => ~Now(u, pc)'
    BY <2>5, SkillAssumption DEF Now
  <2>13. \A w \in Uploader \ {u} : \A e, g : Copying(w, e, g)' <=> Copying(w, e, g)
    BY <2>6, <2>7, <2>11 DEF Copying
  <2>14. \A e, g : Copying(u, e, g)' <=> e = d /\ g = f
    BY <1>4, <1>6, <2>5, <2>12 DEF Copying
  <2>15. \A n : Rows(n)' = Rows(n)
    BY <1>7 DEF Rows
  <2>16. \A w \in Uploader : \A n : AtInsert(w, n)' <=> AtInsert(w, n)
    <3>1. ~Now(u, "insert") /\ ~Now(u, "insert")'
      BY <1>2, <2>12 DEF Now
    <3>2. \A w \in Uploader \ {u} : Unpacking(w, d) => ~Now(w, "insert")
      BY DEF Unpacking, Now
    <3> QED  BY <2>7, <2>11, <3>1, <3>2 DEF AtInsert
  <2>17. ASSUME NEW n \in (SkillName \ unsure)' PROVE OnceNamed(n)'
    <3>1. OnceNamed(n)
      BY <1>7, <2>17 DEF SkillInv, SkillName, Directory
    <3> QED  BY <2>15, <2>16, <3>1 DEF OnceNamed
  <2>18. \A q \in Package : \A g : FileThere(q, g) => FileThere(q, g)'
    BY <2>3, <2>4, SkillAssumption DEF FileThere, Directory
  <2>19. \A i \in DOMAIN skill' : RowKept(i)'
    <3>1. \A i \in DOMAIN skill : skill[i].from \in Package \cup {NoSkill}
      BY <1>1, RowsTyped
    <3> QED  BY <1>7, <2>18, <3>1 DEF SkillInv, RowKept
  <2>20. UnpackKept(u)'
    <3>1. ASSUME ~uploader'[u].crossed, NEW g \in Files(p)
          PROVE  \/ \E k \in DOMAIN left : left[k] = g
                 \/ g \in SkillFile /\ unpacked'[d][g] = p /\ \A w \in Uploader : ~Copying(w, d, g)'
      <4>1. UnpackKept(u) /\ ~uploader[u].crossed
        BY <2>5, <3>1 DEF SkillInv
      <4>2. \/ \E k \in DOMAIN left : left[k] = g
            \/ g \in SkillFile /\ unpacked[d][g] = p /\ \A w \in Uploader : ~Copying(w, d, g)
        BY <1>2, <1>3, <1>4, <1>5, <4>1 DEF UnpackKept, AtWork
      <4>3. \E k \in DOMAIN left : left[k] = f
        <5>1. left # <<>> /\ Len(left) \in Nat /\ DOMAIN left = 1 .. Len(left) /\ Head(left) = left[1]
          BY <1>2, <1>5 DEF Archive
        <5>2. 1 \in DOMAIN left
          BY <1>5, <5>1 DEF Archive
        <5> QED  BY <1>6, <5>1, <5>2
      <4>4. CASE g = f
        BY <4>3, <4>4
      <4>5. CASE g # f
        BY <2>4, <2>13, <2>14, <4>2, <4>5
      <4> QED  BY <4>4, <4>5
    <3> QED  BY <1>4, <2>5, <3>1 DEF UnpackKept
  <2>21. NameKept(u)' /\ DeletionKept(u)'
    BY <2>12 DEF NameKept, DeletionKept
  <2>22. ASSUME NEW w \in Uploader \ {u} PROVE UnpackKept(w)' /\ NameKept(w)' /\ DeletionKept(w)'
    <3>1. CASE Unpacking(w, d)
      <4>1. uploader'[w].crossed /\ AtWork(w)
        BY <2>6, <3>1 DEF Unpacking, AtWork
      <4>2. ~Now(w, "check")' /\ ~Now(w, "insert")' /\ ~Now(w, "delete")'
        BY <2>11, <4>1 DEF AtWork, Now
      <4> QED  BY <4>1, <4>2 DEF UnpackKept, NameKept, DeletionKept
    <3>2. CASE ~Unpacking(w, d)
      <4>1. uploader'[w] = uploader[w]
        BY <2>7, <3>2
      <4>2. AtWork(w) => uploader[w].of \in Package /\ Contents(uploader[w].of).dir \in Directory \ {d}
        BY <1>1, <3>2, UploadUnderWay DEF Directory, Unpacking, AtWork
      <4>3. UnpackKept(w)'
        <5>1. UnpackKept(w)
          BY DEF SkillInv
        <5>2. \A e \in Directory \ {d}, g \in SkillFile :
                unpacked'[e][g] = unpacked[e][g] /\ \A x \in Uploader : Copying(x, e, g)' => Copying(x, e, g)
          BY <2>4, <2>13, <2>14
        <5>3. AtWork(w)' <=> AtWork(w)
          BY <2>11 DEF AtWork
        <5> QED  BY <4>1, <4>2, <5>1, <5>2, <5>3 DEF UnpackKept
      <4>4. NameKept(w)'
        <5>1. NameKept(w)
          BY DEF SkillInv
        <5>2. (Now(w, "check") \/ Now(w, "insert")) => uploader[w].of \in Package
          BY <1>1, UploadUnderWay
        <5> QED  BY <2>11, <2>18, <4>1, <5>1, <5>2 DEF NameKept, SkillName, Directory
      <4>5. DeletionKept(w)'
        BY <1>7, <2>11, <4>1 DEF SkillInv, DeletionKept
      <4> QED  BY <4>3, <4>4, <4>5
    <3> QED  BY <3>1, <3>2
  <2>23. ASSUME NEW w \in Uploader PROVE CopyKept(w)'
    <3>1. CASE w = u
      <4>1. uploader'[u].shared =>
              uploader'[u].crossed /\ <<Contents(uploader'[u].of).dir, Head(uploader'[u].left)>> \in atRisk'
        <5>1. Contents(uploader'[u].of).dir = d /\ Head(uploader'[u].left) = f
          BY <1>4, <1>6, <2>5
        <5>2. met => uploader'[u].crossed /\ <<d, f>> \in atRisk'
          BY <1>2, <2>2, <2>5
        <5> QED  BY <2>5, <5>1, <5>2
      <4> QED  BY <1>2, <1>5, <1>6, <2>3, <2>5, <3>1, <4>1 DEF CopyKept
    <3>2. CASE w # u /\ Now(w, "copy")'
      <4>1. CopyKept(w) /\ Now(w, "copy")
        BY <2>11, <3>2 DEF SkillInv, FilesInv
      <4>2. uploader'[w].of = uploader[w].of /\ uploader'[w].left = uploader[w].left
        BY <2>6, <2>7, <3>2
      <4>3. PICK e, g : e = Contents(uploader[w].of).dir /\ g = Head(uploader[w].left)
        OBVIOUS
      <4>4. Copying(w, e, g)
        BY <4>1, <4>3 DEF Copying
      <4>5. CASE e = d /\ g = f
        <5>1. met /\ Unpacking(w, d)
          BY <4>1, <4>3, <4>4, <4>5 DEF met, Unpacking
        <5>2. uploader'[w].crossed /\ <<e, g>> \in atRisk'
          BY <2>2, <2>6, <3>2, <4>5, <5>1
        <5>3. /\ uploader'[w].left # <<>> /\ Head(uploader'[w].left) \in SkillFile
              /\ Contents(uploader'[w].of).dir = e /\ Head(uploader'[w].left) = g
          BY <4>1, <4>2, <4>3 DEF CopyKept
        <5> QED  BY <5>2, <5>3 DEF CopyKept
      <4>6. CASE ~(e = d /\ g = f)
        <5>1. <<e, g>> \in atRisk => <<e, g>> \in atRisk'
          BY <2>2, <4>6
        <5>2. uploader'[w].shared => uploader[w].shared
          <6>1. ~Copying(w, d, f)
            BY <4>3, <4>6 DEF Copying
          <6> QED  BY <2>6, <2>7, <3>2, <6>1
        <5>3. uploader[w].crossed => uploader'[w].crossed
          BY <2>6, <2>7, <3>2
        <5> QED  BY <4>1, <4>2, <4>3, <5>1, <5>2, <5>3 DEF CopyKept
      <4> QED  BY <4>5, <4>6
    <3> QED  BY <3>1, <3>2 DEF CopyKept
  <2>24. ASSUME NEW w \in Uploader, NEW x \in Uploader, NEW e \in Directory, NEW g \in SkillFile,
                Copying(w, e, g)', Copying(x, e, g)', w # x
         PROVE  uploader'[w].shared
    <3>1. CASE w = u
      <4>1. met
        BY <2>13, <2>14, <2>24, <3>1 DEF met
      <4> QED  BY <2>5, <3>1, <4>1
    <3>2. CASE x = u
      <4>1. Copying(w, d, f) /\ w # u
        BY <2>13, <2>14, <2>24, <3>2
      <4>2. Unpacking(w, d)
        BY <4>1 DEF Copying, Unpacking
      <4> QED  BY <2>6, <4>1, <4>2
    <3>3. CASE w # u /\ x # u
      <4>1. uploader[w].shared
        BY <2>13, <2>24, <3>3 DEF SkillInv, FilesInv
      <4> QED  BY <2>6, <2>7, <3>3, <4>1
    <3> QED  BY <3>1, <3>2, <3>3
  <2>25. ASSUME NEW e \in Directory, NEW g \in SkillFile, unpacked'[e][g] = Torn
         PROVE  <<e, g>> \in atRisk' \/ \E w \in Uploader : Copying(w, e, g)'
    <3>1. CASE e = d /\ g = f
      BY <2>14, <3>1
    <3>2. CASE ~(e = d /\ g = f)
      <4>1. unpacked[e][g] = Torn
        BY <2>4, <2>25, <3>2
      <4>2. <<e, g>> \in atRisk \/ \E w \in Uploader : Copying(w, e, g)
        BY <4>1 DEF SkillInv, FilesInv
      <4>3. ~Copying(u, e, g)
        BY <1>2 DEF Copying, Now
      <4>4. <<e, g>> \in atRisk => <<e, g>> \in atRisk'
        BY <2>2, <3>2
      <4> QED  BY <2>13, <4>2, <4>3, <4>4
    <3> QED  BY <3>1, <3>2
  <2>26. FilesInv'
    BY <2>23, <2>24, <2>25 DEF FilesInv, Directory
  <2> QED  BY <2>10, <2>17, <2>19, <2>20, <2>21, <2>22, <2>26 DEF SkillInv
<1> QED  BY <1>9, <1>10

(* A copy ends: what the file holds then is torn only if the ghost says    *)
(* so, and no upload but those that share the file has it as done.         *)
LEMMA CopyEnds ==
  ASSUME SkillInv, SkillTypeOK', NEW u \in Uploader, NEW d \in Directory, NEW f \in SkillFile, NEW file,
         Copying(u, d, f), unpacked' = [unpacked EXCEPT ![d][f] = file],
         file # NoSkill \/ file = unpacked[d][f], file = Torn => <<d, f>> \in atRisk',
         atRisk \subseteq atRisk', UNCHANGED <<skill, unsure>>,
         \A w \in Uploader \ {u} : uploader'[w] = uploader[w],
         ~Now(u, "copy")', ~Now(u, "insert")', UnpackKept(u)', NameKept(u)', DeletionKept(u)'
  PROVE  SkillInv'
<1>1. SkillTypeOK
  BY DEF SkillInv
<1>2. \A e \in Directory, g \in SkillFile :
        unpacked'[e][g] = IF e = d /\ g = f THEN file ELSE unpacked[e][g]
  BY <1>1 DEF SkillTypeOK
<1>3. \A w \in Uploader \ {u} : \A pc : Now(w, pc)' <=> Now(w, pc)
  BY DEF Now
<1>4. \A w \in Uploader \ {u} : \A e, g : Copying(w, e, g)' <=> Copying(w, e, g)
  BY <1>3 DEF Copying
<1>5. \A e, g : ~Copying(u, e, g)'
  BY DEF Copying
<1>6. skill' = skill /\ unsure' = unsure /\ \A n : Rows(n)' = Rows(n)
  BY DEF Rows
<1>7. \A w \in Uploader : \A n : AtInsert(w, n)' => AtInsert(w, n)
  BY <1>3 DEF AtInsert
<1>8. ASSUME NEW n \in (SkillName \ unsure)' PROVE OnceNamed(n)'
  <2>1. OnceNamed(n)
    BY <1>6, <1>8 DEF SkillInv, SkillName, Directory
  <2> QED  BY <1>6, <1>7, <2>1 DEF OnceNamed
<1>9. \A q \in Package : \A g : FileThere(q, g) => FileThere(q, g)'
  BY <1>2 DEF FileThere, Directory
<1>10. \A i \in DOMAIN skill' : RowKept(i)'
  <2>1. \A i \in DOMAIN skill : skill[i].from \in Package \cup {NoSkill}
    BY <1>1, RowsTyped
  <2> QED  BY <1>6, <1>9, <2>1 DEF SkillInv, RowKept
<1>11. ASSUME NEW w \in Uploader \ {u} PROVE UnpackKept(w)' /\ NameKept(w)' /\ DeletionKept(w)'
  <2>1. UnpackKept(w)'
    <3>1. UnpackKept(w) /\ (AtWork(w)' <=> AtWork(w))
      BY <1>3 DEF SkillInv, AtWork
    <3>2. AtWork(w) => uploader[w].of \in Package /\ Contents(uploader[w].of).dir \in Directory
      BY <1>1, UploadUnderWay DEF Directory
    <3>3. \A e \in Directory, g \in SkillFile : (\A x \in Uploader : ~Copying(x, e, g)) =>
            unpacked'[e][g] = unpacked[e][g] /\ \A x \in Uploader : ~Copying(x, e, g)'
      BY <1>2, <1>4, <1>5
    <3> QED  BY <3>1, <3>2, <3>3 DEF UnpackKept
  <2>2. NameKept(w)'
    <3>1. NameKept(w)
      BY DEF SkillInv
    <3>2. (Now(w, "check") \/ Now(w, "insert")) => uploader[w].of \in Package
      BY <1>1, UploadUnderWay
    <3> QED  BY <1>3, <1>9, <3>1, <3>2 DEF NameKept, SkillName, Directory
  <2>3. DeletionKept(w)'
    BY <1>3, <1>6 DEF SkillInv, DeletionKept
  <2> QED  BY <2>1, <2>2, <2>3
<1>12. \A w \in Uploader : CopyKept(w)'
  BY <1>3 DEF SkillInv, FilesInv, CopyKept
<1>13. ASSUME NEW w \in Uploader, NEW x \in Uploader, NEW e \in Directory, NEW g \in SkillFile,
              Copying(w, e, g)', Copying(x, e, g)', w # x
       PROVE  uploader'[w].shared
  BY <1>4, <1>5, <1>13 DEF SkillInv, FilesInv
<1>14. ASSUME NEW e \in Directory, NEW g \in SkillFile, unpacked'[e][g] = Torn
       PROVE  <<e, g>> \in atRisk' \/ \E w \in Uploader : Copying(w, e, g)'
  <2>1. CASE e = d /\ g = f
    BY <1>2, <1>14, <2>1
  <2>2. CASE ~(e = d /\ g = f)
    <3>1. unpacked[e][g] = Torn
      BY <1>2, <1>14, <2>2
    <3>2. ~Copying(u, e, g)
      BY <2>2 DEF Copying
    <3> QED  BY <1>4, <3>1, <3>2 DEF SkillInv, FilesInv
  <2> QED  BY <2>1, <2>2
<1>15. FilesInv'
  BY <1>12, <1>13, <1>14 DEF FilesInv, Directory
<1> QED  BY <1>8, <1>10, <1>11, <1>15 DEF SkillInv

(* CopySkillFile: a file is its package's, unless the copy fails or is not *)
(* alone.                                                                  *)
LEMMA CopyKeeps ==
  ASSUME SkillInv, NEW u \in Uploader, CopySkillFile(u) PROVE SkillInv'
<1>1. SkillTypeOK
  BY DEF SkillInv
<1>2. /\ Now(u, "copy") /\ uploader[u] \in Upload /\ uploader[u].of \in Package
      /\ uploader[u].left \in Archive /\ uploader[u].shared \in BOOLEAN /\ uploader[u].crossed \in BOOLEAN
  BY <1>1, UploadUnderWay DEF CopySkillFile, AtWork
<1>3. PICK p \in Package : p = uploader[u].of
  BY <1>2
<1>4. PICK d \in Directory : d = Contents(p).dir
  BY DEF Directory
<1>5. PICK left \in Archive : left = uploader[u].left
  BY <1>2
<1>6. PICK f \in SkillFile : f = Head(left) /\ left # <<>>
  BY <1>2, <1>5 DEF SkillInv, FilesInv, CopyKept
<1>7. uploader[u].shared => uploader[u].crossed /\ <<d, f>> \in atRisk
  BY <1>2, <1>3, <1>4, <1>5, <1>6 DEF SkillInv, FilesInv, CopyKept
<1>8. Copying(u, d, f)
  BY <1>2, <1>3, <1>4, <1>5, <1>6 DEF Copying
<1>9. skill' = skill /\ uploads' = uploads /\ unsure' = unsure
  BY DEF CopySkillFile
<1>10. p # NoSkill /\ p # Torn /\ Torn # NoSkill
  BY <1>3, SkillAssumption
<1>11. skillFaults' \in 0 .. MaxSkillFaults
  <2>1. SkillFault \/ UNCHANGED skillFaults
    BY DEF CopySkillFile
  <2> QED  BY <1>1, <2>1, FaultCounted
<1>12. PICK file :
         /\ unpacked' = [unpacked EXCEPT ![d][f] = file]
         /\ file \in {p, Torn, unpacked[d][f]}
         /\ \/ /\ Closes(u) /\ atRisk' = atRisk \cup {<<d, f>>}
            \/ /\ uploader' = [uploader EXCEPT ![u].pc = "extract", ![u].left = Tail(@), ![u].shared = FALSE]
               /\ atRisk' = atRisk /\ (file = p \/ uploader[u].shared)
  BY <1>3, <1>4, <1>5, <1>6 DEF CopySkillFile
<1>13. unpacked' \in [Directory -> [SkillFile -> Package \cup {NoSkill, Torn}]]
  BY <1>1, <1>12 DEF SkillTypeOK
<1>14. atRisk' \subseteq Directory \X SkillFile /\ atRisk \subseteq atRisk'
  BY <1>1, <1>12 DEF SkillTypeOK
<1>15. /\ file # NoSkill \/ file = unpacked[d][f]
       /\ file = Torn => <<d, f>> \in atRisk'
  BY <1>7, <1>10, <1>12
<1>16. CASE Closes(u)
  <2>1. /\ uploader' \in [Uploader -> Upload \cup Deletion \cup {NoSkill}]
        /\ \A w \in Uploader : uploader'[w] = IF w = u THEN NoSkill ELSE uploader[w]
    BY <1>1, <1>16, CallCloses
  <2>2. SkillTypeOK'
    BY <1>1, <1>9, <1>11, <1>13, <1>14, <2>1 DEF SkillTypeOK, SkillName, SkillRow, Directory
  <2>3. ~Now(u, "copy")' /\ ~Now(u, "insert")' /\ UnpackKept(u)' /\ NameKept(u)' /\ DeletionKept(u)'
    BY <2>1 DEF UnpackKept, AtWork, NameKept, DeletionKept, Now
  <2> QED  BY <1>8, <1>9, <1>12, <1>14, <1>15, <2>1, <2>2, <2>3, CopyEnds
<1>17. CASE ~Closes(u)
  <2>1. PICK mine : mine = [uploader[u] EXCEPT !.pc = "extract", !.left = Tail(left), !.shared = FALSE]
    OBVIOUS
  <2>2. /\ mine \in Upload /\ mine.pc = "extract" /\ mine.of = p /\ mine.left = Tail(left)
        /\ mine.crossed = uploader[u].crossed
    <3>1. Tail(left) \in Archive
      BY <1>6, ArchiveEntries
    <3> QED  BY <1>2, <1>3, <2>1, <3>1 DEF Upload
  <2>3. uploader' = [uploader EXCEPT ![u] = mine]
    BY <1>1, <1>2, <1>5, <1>12, <1>17, <2>1 DEF SkillTypeOK, Upload
  <2>4. /\ uploader' \in [Uploader -> Upload \cup Deletion \cup {NoSkill}]
        /\ \A w \in Uploader : uploader'[w] = IF w = u THEN mine ELSE uploader[w]
    BY <1>1, <2>2, <2>3 DEF SkillTypeOK
  <2>5. SkillTypeOK'
    BY <1>1, <1>9, <1>11, <1>13, <1>14, <2>4 DEF SkillTypeOK, SkillName, SkillRow, Directory
  <2>6. ~Now(u, "copy")' /\ ~Now(u, "insert")' /\ NameKept(u)' /\ DeletionKept(u)'
    BY <2>2, <2>4 DEF NameKept, DeletionKept, Now
  <2>7. UnpackKept(u)'
    <3>1. ASSUME ~mine.crossed, NEW g \in Files(p)
          PROVE  \/ \E k \in DOMAIN Tail(left) : Tail(left)[k] = g
                 \/ g \in SkillFile /\ unpacked'[d][g] = p /\ \A w \in Uploader : ~Copying(w, d, g)'
      <4>1. ~uploader[u].crossed /\ ~uploader[u].shared /\ file = p
        BY <1>7, <1>12, <1>17, <2>2, <3>1
      <4>2. \/ \E k \in DOMAIN left : left[k] = g
            \/ g \in SkillFile /\ unpacked[d][g] = p /\ \A w \in Uploader : ~Copying(w, d, g)
        BY <1>2, <1>3, <1>4, <1>5, <4>1 DEF SkillInv, UnpackKept, AtWork
      <4>3. \A w \in Uploader : \A e, h : Copying(w, e, h)' => Copying(w, e, h) /\ w # u
        BY <2>4, <2>6 DEF Copying, Now
      <4>4. \A e \in Directory, h \in SkillFile :
              unpacked'[e][h] = IF e = d /\ h = f THEN p ELSE unpacked[e][h]
        BY <1>1, <1>12, <4>1 DEF SkillTypeOK
      <4>5. CASE g = f
        <5>1. \A w \in Uploader : ~Copying(w, d, f)'
          BY <1>8, <4>1, <4>3 DEF SkillInv, FilesInv
        <5> QED  BY <4>4, <4>5, <5>1
      <4>6. CASE g # f /\ \E k \in DOMAIN left : left[k] = g
        BY <1>6, <4>6, ArchiveEntries
      <4>7. CASE g # f /\ ~\E k \in DOMAIN left : left[k] = g
        BY <4>2, <4>3, <4>4, <4>7
      <4> QED  BY <4>5, <4>6, <4>7
    <3> QED  BY <1>4, <2>2, <2>4, <3>1 DEF UnpackKept
  <2> QED  BY <1>8, <1>9, <1>12, <1>14, <1>15, <2>4, <2>5, <2>6, <2>7, CopyEnds
<1> QED  BY <1>16, <1>17

(* DeleteSysSkill: a deletion begins with a row that is there.             *)
LEMMA DeleteBeginsKeeps ==
  ASSUME SkillInv, NEW u \in Uploader, NEW i \in DOMAIN skill, DeleteSysSkill(u, i) PROVE SkillInv'
<1> DEFINE fields == [pc |-> "delete", row |-> i, crossed |-> FALSE]
<1>1. fields \in Deletion /\ fields.pc = "delete" /\ fields.row = i
  BY DEF SkillInv, SkillTypeOK, Deletion
<1> HIDE DEF fields
<1>2. Opens(u, fields)
  BY DEF DeleteSysSkill, fields
<1>3. /\ uploader' \in [Uploader -> Upload \cup Deletion \cup {NoSkill}]
      /\ uploads' \in 0 .. MaxUploads
      /\ \A w \in Uploader : uploader'[w] = IF w = u THEN fields ELSE uploader[w]
  BY <1>1, <1>2, CallOpens DEF SkillInv
<1>4. SkillTypeOK'
  BY <1>3 DEF SkillInv, SkillTypeOK, DeleteSysSkill, SkillName, SkillRow, Directory
<1>5. /\ UnpackKept(u)' /\ NameKept(u)' /\ DeletionKept(u)'
      /\ ~Now(u, "copy") /\ ~Now(u, "copy")' /\ ~Now(u, "insert")'
  BY <1>1, <1>2, <1>3 DEF DeleteSysSkill, Opens, UnpackKept, AtWork, NameKept, DeletionKept, Now
<1> QED  BY <1>3, <1>4, <1>5, CallMoves DEF DeleteSysSkill

(* A row that is marked stays in place and keeps its name.                 *)
LEMMA DeleteEndsKeeps ==
  ASSUME SkillInv, NEW u \in Uploader, DeleteSkillRow(u) PROVE SkillInv'
<1>1. SkillTypeOK
  BY DEF SkillInv
<1>2. Now(u, "delete") /\ uploader[u].row \in DOMAIN skill
  BY DEF DeleteSkillRow, SkillInv, DeletionKept
<1>3. PICK r \in DOMAIN skill : r = uploader[u].row
  BY <1>2
<1>4. /\ uploader' \in [Uploader -> Upload \cup Deletion \cup {NoSkill}]
      /\ \A w \in Uploader : uploader'[w] = IF w = u THEN NoSkill ELSE uploader[w]
  BY <1>1, CallCloses DEF DeleteSkillRow
<1>5. /\ skillFaults' \in 0 .. MaxSkillFaults /\ unpacked' = unpacked /\ uploads' = uploads /\ unsure' = unsure
      /\ atRisk' = atRisk
  BY <1>1, FaultCounted DEF DeleteSkillRow
<1>6. skill \in Seq(SkillRow) /\ Len(skill) <= MaxSkills
  BY <1>1 DEF SkillTypeOK
<1>7. /\ skill' \in Seq(SkillRow) /\ Len(skill') = Len(skill) /\ DOMAIN skill' = DOMAIN skill
      /\ \A i \in DOMAIN skill : skill'[i].name = skill[i].name /\ skill'[i].from = skill[i].from
  <2>1. CASE skill' = skill
    BY <1>6, <2>1
  <2>2. CASE skill' = [skill EXCEPT ![r].state = "deleted"]
    <3>1. PICK row : row = [skill[r] EXCEPT !.state = "deleted"]
      OBVIOUS
    <3>2. skill' = [skill EXCEPT ![r] = row]
      BY <2>2, <3>1
    <3>3. row \in SkillRow /\ row.name = skill[r].name /\ row.from = skill[r].from
      <4>1. skill[r] \in SkillRow
        BY <1>1, RowsTyped
      <4> QED  BY <3>1, <4>1 DEF SkillRow
    <3> QED  BY <1>3, <1>6, <3>2, <3>3
  <2> QED  BY <1>3, <2>1, <2>2 DEF DeleteSkillRow
<1>8. SkillTypeOK'
  BY <1>1, <1>4, <1>5, <1>6, <1>7 DEF SkillTypeOK, SkillName, SkillRow, Directory
<1>9. \A n : Rows(n)' = Rows(n)
  BY <1>7 DEF Rows
<1>10. \A w \in Uploader \ {u} : \A pc : Now(w, pc)' <=> Now(w, pc)
  BY <1>4 DEF Now
<1>11. \A n : ~AtInsert(u, n)'
  BY <1>4 DEF AtInsert, Now
<1>12. \A w \in Uploader \ {u} : \A n : AtInsert(w, n)' <=> AtInsert(w, n)
  BY <1>4, <1>10 DEF AtInsert
<1>13. ASSUME NEW n \in (SkillName \ unsure)' PROVE OnceNamed(n)'
  <2>1. OnceNamed(n)
    BY <1>5, <1>13 DEF SkillInv, SkillName, Directory
  <2> QED  BY <1>9, <1>11, <1>12, <2>1 DEF OnceNamed
<1>14. \A p, f : FileThere(p, f)' = FileThere(p, f)
  BY <1>5 DEF FileThere
<1>15. \A i \in DOMAIN skill' : RowKept(i)'
  BY <1>7, <1>14 DEF SkillInv, RowKept
<1>0. FilesInv' /\ \A w \in Uploader : \A d, f : Copying(w, d, f)' <=> Copying(w, d, f)
  <2>1. ~Now(u, "copy") /\ ~Now(u, "copy")'
    BY <1>2, <1>4 DEF Now
  <2> QED  BY <1>4, <1>5, <2>1, CopiesStay DEF SkillInv
<1>16. ASSUME NEW w \in Uploader \ {u} PROVE UnpackKept(w)' /\ NameKept(w)' /\ DeletionKept(w)'
  <2>1. UnpackKept(w) /\ NameKept(w) /\ DeletionKept(w) /\ uploader'[w] = uploader[w]
    BY <1>4 DEF SkillInv
  <2>2. UnpackKept(w)'
    BY <1>0, <1>5, <1>10, <2>1 DEF UnpackKept, AtWork
  <2>3. NameKept(w)'
    BY <1>10, <1>14, <2>1 DEF NameKept, SkillName, Directory
  <2>4. DeletionKept(w)'
    BY <1>7, <1>10, <2>1 DEF DeletionKept
  <2> QED  BY <2>2, <2>3, <2>4
<1>17. UnpackKept(u)' /\ NameKept(u)' /\ DeletionKept(u)'
  BY <1>4 DEF UnpackKept, AtWork, NameKept, DeletionKept, Now
<1> QED  BY <1>0, <1>8, <1>13, <1>15, <1>16, <1>17 DEF SkillInv

(* A row more: its name was not given, or is unsure from now on.           *)
LEMMA RowGiven ==
  ASSUME SkillInv, SkillTypeOK', NEW name \in SkillName, NEW n, n \in DOMAIN skill', skill'[n].name = name,
         DOMAIN skill' = DOMAIN skill \cup {n}, n \notin DOMAIN skill,
         \A i \in DOMAIN skill : skill'[i] = skill[i],
         unpacked' = unpacked, atRisk' = atRisk, unsure \subseteq unsure', RowKept(n)',
         \A w \in Uploader : uploader'[w] = uploader[w] \/ (uploader'[w] = NoSkill /\ ~Now(w, "copy")),
         name \in unsure' \/ (Rows(name) = {} /\ \A w \in Uploader : ~AtInsert(w, name)')
  PROVE  SkillInv'
<1>2. Rows(name)' = Rows(name) \cup {n} /\ \A m : m # name => Rows(m)' = Rows(m)
  BY DEF Rows
<1>3. \A w \in Uploader : \A pc : Now(w, pc)' => Now(w, pc) /\ uploader'[w] = uploader[w]
  BY DEF Now
<1>4. \A w \in Uploader : \A m : AtInsert(w, m)' => AtInsert(w, m)
  BY <1>3 DEF AtInsert
<1>5. ASSUME NEW m \in (SkillName \ unsure)' PROVE OnceNamed(m)'
  <2>1. OnceNamed(m)
    BY <1>5 DEF SkillInv, SkillName, Directory
  <2>2. CASE m = name
    BY <1>2, <1>5, <2>2 DEF OnceNamed
  <2>3. CASE m # name
    BY <1>2, <1>4, <2>1, <2>3 DEF OnceNamed
  <2> QED  BY <2>2, <2>3
<1>6. \A p, f : FileThere(p, f)' = FileThere(p, f)
  BY DEF FileThere
<1>7. \A i \in DOMAIN skill' : RowKept(i)'
  BY <1>6 DEF SkillInv, RowKept
<1>1. FilesInv' /\ \A w \in Uploader : \A d, f : Copying(w, d, f)' <=> Copying(w, d, f)
  <2>1. \A w \in Uploader : uploader'[w] = uploader[w] \/ (~Now(w, "copy") /\ ~Now(w, "copy")')
    BY DEF Now
  <2> QED  BY <2>1, CopiesStay DEF SkillInv
<1>8. ASSUME NEW w \in Uploader PROVE UnpackKept(w)' /\ NameKept(w)' /\ DeletionKept(w)'
  <2>1. UnpackKept(w) /\ NameKept(w) /\ DeletionKept(w)
    BY DEF SkillInv
  <2>2. UnpackKept(w)'
    BY <1>1, <1>3, <2>1 DEF UnpackKept, AtWork
  <2>3. NameKept(w)'
    BY <1>3, <1>6, <2>1 DEF NameKept, SkillName, Directory
  <2>4. DeletionKept(w)'
    BY <1>3, <2>1 DEF DeletionKept
  <2> QED  BY <2>2, <2>3, <2>4
<1> QED  BY <1>1, <1>5, <1>7, <1>8 DEF SkillInv

(* InsertSkill: the row has the name that was looked for, and the files of *)
(* its package are there, unless other calls were among them.              *)
LEMMA InsertKeeps ==
  ASSUME SkillInv, NEW u \in Uploader, InsertSkill(u) PROVE SkillInv'
<1>1. SkillTypeOK
  BY DEF SkillInv
<1>2. Now(u, "insert") /\ uploader[u] \in Upload /\ uploader[u].of \in Package /\ uploader[u].crossed \in BOOLEAN
  BY <1>1, UploadUnderWay DEF InsertSkill
<1>3. PICK name \in SkillName : name = uploader[u].name
  BY <1>2 DEF SkillInv, NameKept
<1>4. /\ uploader' \in [Uploader -> Upload \cup Deletion \cup {NoSkill}]
      /\ \A w \in Uploader : uploader'[w] = IF w = u THEN NoSkill ELSE uploader[w]
  BY <1>1, CallCloses DEF InsertSkill
<1>5. unpacked' = unpacked /\ uploads' = uploads /\ unsure' = unsure /\ atRisk' = atRisk
  BY DEF InsertSkill
<1>6. CASE SkillFault /\ UNCHANGED skill
  <2>1. skillFaults' \in 0 .. MaxSkillFaults
    BY <1>1, <1>6, FaultCounted
  <2>2. SkillTypeOK'
    BY <1>1, <1>4, <1>5, <1>6, <2>1 DEF SkillTypeOK, SkillName, SkillRow, Directory
  <2> QED  BY <1>2, <1>4, <1>5, <1>6, <2>2, CallMoves DEF UnpackKept, AtWork, NameKept, DeletionKept, Now
<1>7. CASE ~(SkillFault /\ UNCHANGED skill)
  <2>1. PICK from \in Package \cup {NoSkill} : from = IF uploader[u].crossed THEN NoSkill ELSE uploader[u].of
    BY <1>2
  <2>2. Len(skill) < MaxSkills /\ skill' = NewSkill(name, FALSE, from) /\ skillFaults' = skillFaults
    BY <1>3, <1>7, <2>1 DEF InsertSkill
  <2>3. PICK row \in SkillRow : row = [state |-> "live", name |-> name, system |-> FALSE, from |-> from]
    BY DEF SkillRow
  <2>4. PICK n : /\ n \in DOMAIN skill' /\ DOMAIN skill' = DOMAIN skill \cup {n} /\ n \notin DOMAIN skill
                 /\ skill'[n] = row /\ skill'[n].name = name /\ skill'[n].from = from
                 /\ skill' \in Seq(SkillRow) /\ Len(skill') <= MaxSkills
                 /\ \A i \in DOMAIN skill : skill'[i] = skill[i]
    <3>1. skill' = Append(skill, row) /\ Len(skill) < MaxSkills
      BY <2>2, <2>3 DEF NewSkill
    <3>2. row.name = name /\ row.from = from
      BY <2>3
    <3> QED  BY <1>1, <3>1, <3>2, RowAppended
  <2>5. SkillTypeOK'
    BY <1>1, <1>4, <1>5, <2>2, <2>4 DEF SkillTypeOK, SkillName, SkillRow, Directory
  <2>6. RowKept(n)'
    <3>1. ASSUME from # NoSkill
          PROVE  /\ "SKILL.md" \in Files(from) => name = Contents(from).says
                 /\ \A f \in Files(from) : FileThere(from, f)
      <4>1. ~uploader[u].crossed /\ from = uploader[u].of
        BY <2>1, <3>1
      <4> QED  BY <1>2, <1>3, <4>1 DEF SkillInv, NameKept
    <3>2. \A p, f : FileThere(p, f)' = FileThere(p, f)
      BY <1>5 DEF FileThere
    <3> QED  BY <2>4, <3>1, <3>2 DEF RowKept
  <2>7. name \in unsure' \/ (Rows(name) = {} /\ \A w \in Uploader : ~AtInsert(w, name)')
    <3>1. CASE name \in unsure
      BY <1>5, <3>1
    <3>2. CASE name \notin unsure
      <4>1. OnceNamed(name) /\ AtInsert(u, name)
        BY <1>2, <1>3, <3>2 DEF SkillInv, AtInsert
      <4>2. \A w \in Uploader \ {u} : ~AtInsert(w, name)
        BY <4>1 DEF OnceNamed
      <4> QED  BY <1>4, <4>1, <4>2 DEF OnceNamed, AtInsert, Now
    <3> QED  BY <3>1, <3>2
  <2>8. ~Now(u, "copy")
    BY <1>2 DEF Now
  <2> QED  BY <1>4, <1>5, <2>4, <2>5, <2>6, <2>7, <2>8, RowGiven
<1> QED  BY <1>6, <1>7

(* CreateSysSkill: a skill without a package.                              *)
LEMMA CreateKeeps ==
  ASSUME SkillInv, NEW name \in SkillName, NEW system \in BOOLEAN, CreateSysSkill(name, system) PROVE SkillInv'
<1>1. SkillTypeOK
  BY DEF SkillInv
<1>2. /\ skill' = NewSkill(name, system, NoSkill) /\ Len(skill) < MaxSkills
      /\ unpacked' = unpacked /\ unsure' = unsure \cup {name} /\ uploader' = uploader /\ skillFaults' = skillFaults
      /\ atRisk' = atRisk
  BY DEF CreateSysSkill
<1>3. uploads' \in 0 .. MaxUploads
  BY <1>1, SkillAssumption DEF CreateSysSkill, SkillTypeOK
<1>4. PICK row \in SkillRow : row = [state |-> "live", name |-> name, system |-> system, from |-> NoSkill]
  BY DEF SkillRow
<1>6. PICK n : /\ n \in DOMAIN skill' /\ DOMAIN skill' = DOMAIN skill \cup {n} /\ n \notin DOMAIN skill
               /\ skill'[n] = row /\ skill'[n].name = name /\ skill'[n].from = NoSkill
               /\ skill' \in Seq(SkillRow) /\ Len(skill') <= MaxSkills
               /\ \A i \in DOMAIN skill : skill'[i] = skill[i]
  <2>1. skill' = Append(skill, row) /\ Len(skill) < MaxSkills
    BY <1>2, <1>4 DEF NewSkill
  <2>2. row.name = name /\ row.from = NoSkill
    BY <1>4
  <2> QED  BY <1>1, <2>1, <2>2, RowAppended
<1>5. SkillTypeOK'
  BY <1>1, <1>2, <1>3, <1>6 DEF SkillTypeOK, SkillName, SkillRow, Directory
<1>7. RowKept(n)'
  BY <1>6 DEF RowKept
<1> QED  BY <1>2, <1>5, <1>6, <1>7, RowGiven

(* A row is given another name, which is unsure from now on.               *)
LEMMA UpdateKeeps ==
  ASSUME SkillInv, NEW r \in DOMAIN skill, NEW name \in SkillName, UpdateSysSkill(r, name) PROVE SkillInv'
<1>1. SkillTypeOK
  BY DEF SkillInv
<1>2. /\ unpacked' = unpacked /\ unsure' = unsure \cup {name} /\ uploader' = uploader /\ skillFaults' = skillFaults
      /\ atRisk' = atRisk
      /\ skill' = [skill EXCEPT ![r].name = name, ![r].from = NoSkill]
  BY DEF UpdateSysSkill
<1>3. uploads' \in 0 .. MaxUploads
  BY <1>1, SkillAssumption DEF UpdateSysSkill, SkillTypeOK
<1>4. skill \in Seq(SkillRow) /\ Len(skill) <= MaxSkills
  BY <1>1 DEF SkillTypeOK
<1>5. PICK row : row = [skill[r] EXCEPT !.name = name, !.from = NoSkill]
  OBVIOUS
<1>6. row \in SkillRow /\ row.name = name /\ row.from = NoSkill
  <2>1. skill[r] \in SkillRow
    BY <1>1, RowsTyped
  <2> QED  BY <1>5, <2>1 DEF SkillRow
<1>7. skill' = [skill EXCEPT ![r] = row]
  <2>1. skill[r] \in SkillRow
    BY <1>4
  <2> QED  BY <1>2, <1>4, <1>5, <2>1 DEF SkillRow
<1>8. /\ skill' \in Seq(SkillRow) /\ Len(skill') = Len(skill) /\ DOMAIN skill' = DOMAIN skill
      /\ \A i \in DOMAIN skill : skill'[i] = IF i = r THEN row ELSE skill[i]
  BY <1>4, <1>6, <1>7
<1>9. SkillTypeOK'
  BY <1>1, <1>2, <1>3, <1>4, <1>8 DEF SkillTypeOK, SkillName, SkillRow, Directory
<1>10. \A m : m # name => Rows(m)' \subseteq Rows(m)
  BY <1>6, <1>8 DEF Rows
<1>11. \A w, m : AtInsert(w, m)' <=> AtInsert(w, m)
  BY <1>2 DEF AtInsert, Now
<1>12. ASSUME NEW m \in (SkillName \ unsure)' PROVE OnceNamed(m)'
  <2>1. OnceNamed(m) /\ m # name
    BY <1>2, <1>12 DEF SkillInv, SkillName, Directory
  <2> QED  BY <1>10, <1>11, <2>1 DEF OnceNamed
<1>13. \A p, f : FileThere(p, f)' = FileThere(p, f)
  BY <1>2 DEF FileThere
<1>14. \A i \in DOMAIN skill' : RowKept(i)'
  BY <1>6, <1>8, <1>13 DEF SkillInv, RowKept
<1>0. FilesInv' /\ \A w \in Uploader : \A d, f : Copying(w, d, f)' <=> Copying(w, d, f)
  BY <1>2, CopiesStay DEF SkillInv
<1>15. ASSUME NEW w \in Uploader PROVE UnpackKept(w)' /\ NameKept(w)' /\ DeletionKept(w)'
  <2>1. UnpackKept(w) /\ NameKept(w) /\ DeletionKept(w) /\ uploader'[w] = uploader[w]
    BY <1>2 DEF SkillInv
  <2>2. \A pc : Now(w, pc)' <=> Now(w, pc)
    BY <1>2 DEF Now
  <2>3. UnpackKept(w)'
    BY <1>0, <1>2, <2>1, <2>2 DEF UnpackKept, AtWork
  <2>4. NameKept(w)'
    BY <1>13, <2>1, <2>2 DEF NameKept, SkillName, Directory
  <2>5. DeletionKept(w)'
    BY <1>8, <2>1, <2>2 DEF DeletionKept
  <2> QED  BY <2>3, <2>4, <2>5
<1> QED  BY <1>0, <1>9, <1>12, <1>14, <1>15 DEF SkillInv

(* Every step keeps the invariant.                                         *)
LEMMA SkillInvStep == ASSUME SkillInv, [SkillNext]_skillVars PROVE SkillInv'
<1>1. CASE UNCHANGED skillVars
  <2>1. FilesInv' /\ \A w \in Uploader : \A d, f : Copying(w, d, f)' <=> Copying(w, d, f)
    BY <1>1, CopiesStay DEF skillVars, SkillInv
  <2>2. \A u \in Uploader : UnpackKept(u)'
    BY <1>1, <2>1 DEF skillVars, SkillInv, UnpackKept, AtWork, Now
  <2>3. SkillTypeOK'
    BY <1>1 DEF skillVars, SkillInv, SkillTypeOK
  <2>4. \A name \in (SkillName \ unsure)' : OnceNamed(name)'
    BY <1>1 DEF skillVars, SkillInv, SkillName, Directory, OnceNamed, Rows, AtInsert, Now
  <2>5. \A i \in DOMAIN skill' : RowKept(i)'
    BY <1>1 DEF skillVars, SkillInv, RowKept, FileThere
  <2>6. \A u \in Uploader : NameKept(u)' /\ DeletionKept(u)'
    BY <1>1 DEF skillVars, SkillInv, NameKept, DeletionKept, FileThere, SkillName, Directory, Now
  <2> QED  BY <2>1, <2>2, <2>3, <2>4, <2>5, <2>6 DEF SkillInv
<1> QED  BY <1>1, UploadKeeps, OpenKeeps, CopyKeeps, ParseKeeps, CheckKeeps, InsertKeeps, DeleteBeginsKeeps,
            DeleteEndsKeeps, CreateKeeps, UpdateKeeps DEF SkillNext

(* And it says what is promised.                                           *)
LEMMA SkillInvGives == ASSUME SkillInv PROVE SkillsApart
<1>1. ASSUME NEW name \in SkillName \ unsure
      PROVE  Cardinality({i \in Rows(name) : skill[i].state = "live"}) <= 1
  <2>1. \A i, j \in {i \in Rows(name) : skill[i].state = "live"} : i = j
    BY DEF SkillInv, OnceNamed
  <2> QED  BY <2>1, AtMostOneRow
<1> QED  BY <1>1 DEF SkillInv, RowKept, FileThere, Files, FilesInv, SkillsApart

(* Rows, directories and uploads keep their types, and what is created and *)
(* what fails its bounds (SysSkillService).                                *)
THEOREM SkillTypeCorrect == SkillSpec => []SkillTypeOK
<1>1. SkillInv => SkillTypeOK
  BY DEF SkillInv
<1> QED  BY <1>1, SkillInvInit, SkillInvStep, PTL DEF SkillSpec

(* A name that was looked for is of one live skill; a package's row says   *)
(* its name and misses none of its files, unless two uploads met or its    *)
(* SKILL.md was not read; and a file is whole unless it is being copied,   *)
(* its last copy failed or two had it open (UploadSysSkill,                *)
(* extractSkillZip, extractFile).                                          *)
THEOREM SkillsKeptApart == SkillSpec => []SkillsApart
BY SkillInvInit, SkillInvStep, SkillInvGives, PTL DEF SkillSpec

-------------------------------------------------------------------------------
(* Keys, models and bindings.                                              *)

(* The owners of keys and models never change.                             *)
OwnersStay ==
  /\ \A k \in Key : key[k].owner = KeyForm(k).owner
  /\ \A m \in Model : model[m].owner = ModelForm(m).owner

(* A row of a model refers to its key rightly.                             *)
KeyStands(row) ==
  IF row.key = Unset THEN ~RequiresAPIKey(row.provider, row.endpoint)
  ELSE OwnKey(row.key, row.owner) /\ key[row.key].provider = row.provider

Untouched(c, rows) == call[c].touched \cap rows = {}

(* What a call checked is so as long as the rows it read are not written.  *)
KeyUpdateKept(c) ==
  Writing(c, "updateKey") =>
    \A m \in UsersOf(call[c].on, call[c].by) :
      Untouched(c, {m, call[c].on}) => call[c].with.provider \in {"", key[call[c].on].provider}

KeyDeleteKept(c) ==
  Writing(c, "deleteKey") => UsersOf(call[c].on, call[c].by) \subseteq call[c].touched

ModelWriteKept(c) ==
  Writing(c, "writeModel") =>
    /\ call[c].with.owner = ModelForm(call[c].on).owner
    /\ Untouched(c, {call[c].on, call[c].with.key}) => KeyStands(call[c].with)

RowChanged(row, with) ==
  [row EXCEPT !.key = with.key,
              !.provider = Keep(with.form.provider, row.provider),
              !.endpoint = Keep(with.form.endpoint, row.endpoint),
              !.type = Keep(with.form.type, row.type),
              !.can = IF with.form.can = {} THEN row.can ELSE with.form.can]

ModelChangeKept(c) ==
  Writing(c, "changeModel") =>
    (Untouched(c, {call[c].on, call[c].with.key}) => KeyStands(RowChanged(model[call[c].on], call[c].with)))

Binding(c) == Writing(c, "writeBinding") \/ Writing(c, "writeModelColumn") \/ Writing(c, "writeOtherColumns")

Suits(m, u, role) == m \in Model /\ OwnModel(m, u) /\ Fits(m, role)

BindingKept(c) ==
  Binding(c) => \A r \in Role : call[c].with[r] \notin call[c].touched \cup {Unset} =>
                  Suits(call[c].with[r], call[c].by, r)

CallKept(c) ==
  KeyUpdateKept(c) /\ KeyDeleteKept(c) /\ ModelWriteKept(c) /\ ModelChangeKept(c) /\ BindingKept(c)

SettledKept == \A s \in settled : Suits(bound[s[1]][s[2]][s[3]], s[2], s[3])

BindInv ==
  /\ BindTypeOK /\ OwnersStay /\ BoundKeyStands /\ SettledKept
  /\ \A c \in Call : CallKept(c)

-------------------------------------------------------------------------------
(* What a step leaves of a model, and of another call under way.           *)
SameModel(m) ==
  /\ model'[m].state = model[m].state /\ model'[m].owner = model[m].owner
  /\ model'[m].key = model[m].key /\ model'[m].provider = model[m].provider
  /\ model'[m].endpoint = model[m].endpoint /\ model'[m].type = model[m].type
  /\ model'[m].can = model[m].can

SameCall(c, rows) ==
  /\ call[c] # Unset /\ call'[c] # Unset
  /\ call'[c].op = call[c].op /\ call'[c].by = call[c].by
  /\ call'[c].on = call[c].on /\ call'[c].with = call[c].with
  /\ call'[c].touched = call[c].touched \cup rows

(* A call under way has the parameters that its operation needs.           *)
LEMMA CallTyped ==
  ASSUME BindTypeOK, NEW c \in Call, call[c] # Unset
  PROVE  /\ call[c] \in BindCall /\ call[c].by \in User /\ call[c].touched \subseteq Key \cup Model
         /\ call[c].op = "updateKey" => call[c].on \in Key /\ call[c].with \in KeyUpdate
         /\ call[c].op = "deleteKey" => call[c].on \in Key
         /\ call[c].op = "writeModel" => call[c].on \in Model /\ call[c].with \in ModelRow
         /\ call[c].op = "changeModel" =>
              /\ call[c].on \in Model /\ call[c].with \in [key : Key \cup {Unset}, form : ModelUpdate]
         /\ call[c].op \in {"writeBinding", "writeModelColumn", "writeOtherColumns"} =>
              call[c].on \in Agent /\ call[c].with \in Bound
<1>1. call[c] \in BindCall
  BY DEF BindTypeOK
<1> QED  BY <1>1 DEF BindCall, Pending

(* A call that is told of rows written meanwhile is otherwise the same.    *)
LEMMA Touches ==
  ASSUME BindTypeOK, NEW rows, rows \subseteq Key \cup Model, NEW c \in Call, call[c] # Unset
  PROVE  \A touched : touched = [call[c] EXCEPT !.touched = @ \cup rows] =>
           /\ touched \in BindCall /\ touched # Unset
           /\ touched.op = call[c].op /\ touched.by = call[c].by /\ touched.on = call[c].on
           /\ touched.with = call[c].with /\ touched.touched = call[c].touched \cup rows
<1>1. call[c] \in BindCall
  BY DEF BindTypeOK
<1>2. [call[c] EXCEPT !.touched = @ \cup rows] \in BindCall
  BY <1>1 DEF BindCall, Pending
<1>3. Unset \notin BindCall
  BY BindAssumption
<1>4. DOMAIN call[c] = {"op", "by", "on", "with", "touched"}
  BY <1>1 DEF BindCall, Pending
<1> QED  BY <1>1, <1>2, <1>3, <1>4 DEF BindCall, Pending

(* A call that writes is over, and tells the others what it has written.   *)
LEMMA WrittenMoves ==
  ASSUME BindTypeOK, NEW c \in Call, NEW rows, rows \subseteq Key \cup Model, Written(c, rows)
  PROVE  /\ call' \in [Call -> BindCall \cup {Unset}] /\ calls' \in 0..MaxCalls /\ call'[c] = Unset
         /\ \A d \in Call : call'[d] = Unset \/ SameCall(d, rows)
<1>1. call' = [d \in Call |-> IF d = c THEN Unset ELSE Touch(rows)[d]]
  BY DEF Written, Touch
<1>2. ASSUME NEW d \in Call, call[d] # Unset, d # c
      PROVE  call'[d] = [call[d] EXCEPT !.touched = @ \cup rows]
  BY <1>1, <1>2 DEF Touch
<1>3. ASSUME NEW d \in Call, call[d] = Unset \/ d = c PROVE call'[d] = Unset
  BY <1>1, <1>3 DEF Touch
<1>4. ASSUME NEW d \in Call PROVE call'[d] = Unset \/ (SameCall(d, rows) /\ call'[d] \in BindCall)
  <2>1. CASE call[d] # Unset /\ d # c
    <3>1. PICK touched : touched = [call[d] EXCEPT !.touched = @ \cup rows]
      OBVIOUS
    <3>2. call'[d] = touched
      BY <1>2, <2>1, <3>1
    <3>3. /\ touched \in BindCall /\ touched # Unset
          /\ touched.op = call[d].op /\ touched.by = call[d].by /\ touched.on = call[d].on
          /\ touched.with = call[d].with /\ touched.touched = call[d].touched \cup rows
      BY <2>1, <3>1, Touches
    <3> QED  BY <2>1, <3>2, <3>3 DEF SameCall
  <2> QED  BY <1>3, <2>1
<1> QED  BY <1>1, <1>3, <1>4 DEF Written, BindTypeOK

(* So does one that reads and writes in one step.                          *)
LEMMA AtOnceMoves ==
  ASSUME BindTypeOK, NEW rows, rows \subseteq Key \cup Model, AtOnce(rows)
  PROVE  /\ call' \in [Call -> BindCall \cup {Unset}] /\ calls' \in 0..MaxCalls
         /\ \A d \in Call : call'[d] = Unset \/ SameCall(d, rows)
<1>1. call' = Touch(rows)
  BY DEF AtOnce
<1>2. ASSUME NEW d \in Call, call[d] # Unset
      PROVE  call'[d] = [call[d] EXCEPT !.touched = @ \cup rows]
  BY <1>1, <1>2 DEF Touch
<1>3. ASSUME NEW d \in Call, call[d] = Unset PROVE call'[d] = Unset
  BY <1>1, <1>3 DEF Touch
<1>4. ASSUME NEW d \in Call PROVE call'[d] = Unset \/ (SameCall(d, rows) /\ call'[d] \in BindCall)
  <2>1. CASE call[d] # Unset
    <3>1. PICK touched : touched = [call[d] EXCEPT !.touched = @ \cup rows]
      OBVIOUS
    <3>2. call'[d] = touched
      BY <1>2, <2>1, <3>1
    <3>3. /\ touched \in BindCall /\ touched # Unset
          /\ touched.op = call[d].op /\ touched.by = call[d].by /\ touched.on = call[d].on
          /\ touched.with = call[d].with /\ touched.touched = call[d].touched \cup rows
      BY <2>1, <3>1, Touches
    <3> QED  BY <2>1, <3>2, <3>3 DEF SameCall
  <2> QED  BY <1>3, <2>1
<1>5. calls' \in 0..MaxCalls
  BY BindAssumption DEF AtOnce, BindTypeOK
<1> QED  BY <1>1, <1>4, <1>5 DEF Touch

(* A call that has checked what it was asked waits to write, and changes   *)
(* nothing else.                                                           *)
LEMMA CheckedMoves ==
  ASSUME BindTypeOK, NEW c \in Call, NEW op, NEW by \in User, NEW on, NEW with, Checked(c, op, by, on, with),
         [op |-> op, by |-> by, on |-> on, with |-> with, touched |-> {}] \in BindCall
  PROVE  /\ BindTypeOK' /\ UNCHANGED <<key, model, agent, bound, raced, settled>>
         /\ call'[c] # Unset /\ call'[c].op = op /\ call'[c].by = by /\ call'[c].on = on
         /\ call'[c].with = with /\ call'[c].touched = {}
         /\ \A d \in Call \ {c} : call'[d] = Unset \/ SameCall(d, {})
<1>1. PICK rec \in BindCall : rec = [op |-> op, by |-> by, on |-> on, with |-> with, touched |-> {}]
  OBVIOUS
<1>2. call' = [call EXCEPT ![c] = rec] /\ UNCHANGED <<key, model, agent, bound, raced, settled>>
  BY <1>1 DEF Checked
<1>3. calls' \in 0..MaxCalls
  BY BindAssumption DEF Checked, BindTypeOK
<1>4. call' \in [Call -> BindCall \cup {Unset}] /\ call'[c] = rec /\ \A d \in Call \ {c} : call'[d] = call[d]
  BY <1>2 DEF BindTypeOK
<1>5. BindTypeOK'
  BY <1>2, <1>3, <1>4 DEF BindTypeOK
<1>6. \A d \in Call \ {c} : call'[d] = Unset \/ SameCall(d, {})
  BY <1>4 DEF SameCall
<1>7. rec # Unset
  BY BindAssumption
<1> QED  BY <1>1, <1>2, <1>4, <1>5, <1>6, <1>7

(* A changed row keeps its owner, and the columns that the form left out.  *)
LEMMA RowChangedAs ==
  ASSUME NEW row \in ModelRow, NEW with \in [key : Key \cup {Unset}, form : ModelUpdate]
  PROVE  /\ RowChanged(row, with) \in ModelRow
         /\ RowChanged(row, with).key = with.key /\ RowChanged(row, with).owner = row.owner
         /\ RowChanged(row, with).provider = Keep(with.form.provider, row.provider)
         /\ RowChanged(row, with).endpoint = Keep(with.form.endpoint, row.endpoint)
<1>1. with.key \in Key \cup {Unset} /\ with.form \in ModelUpdate
  OBVIOUS
<1>2. /\ Keep(with.form.provider, row.provider) \in Provider
      /\ Keep(with.form.endpoint, row.endpoint) \in Endpoint
      /\ Keep(with.form.type, row.type) \in ModelType
      /\ (IF with.form.can = {} THEN row.can ELSE with.form.can) \in SUBSET Capability
  BY <1>1 DEF Keep, ModelUpdate, ModelRow
<1> QED  BY <1>1, <1>2 DEF RowChanged, ModelRow

(* What a call has checked stands when others write.                       *)
LEMMA PendingKept ==
  ASSUME BindTypeOK, BindTypeOK', NEW c \in Call, CallKept(c), NEW rows, SameCall(c, rows),
         \A k \in Key \ rows : key'[k] = key[k],
         \A m \in Model \ rows : SameModel(m)
  PROVE  CallKept(c)'
<1>1. /\ call[c] # Unset /\ call'[c] # Unset /\ call'[c].op = call[c].op /\ call'[c].by = call[c].by
      /\ call'[c].on = call[c].on /\ call'[c].with = call[c].with
      /\ call'[c].touched = call[c].touched \cup rows
  BY DEF SameCall
<1>2. \A op : Writing(c, op)' <=> Writing(c, op)
  BY <1>1 DEF Writing
<1>3. \A set : Untouched(c, set)' => Untouched(c, set) /\ set \cap rows = {}
  BY <1>1 DEF Untouched
<1>4. PICK by : by = call[c].by
  OBVIOUS
<1>5. PICK on : on = call[c].on
  OBVIOUS
<1>6. PICK with : with = call[c].with
  OBVIOUS
<1>7. ASSUME NEW m \in Model \ rows, NEW k, m \in UsersOf(k, by)' PROVE m \in UsersOf(k, by)
  BY <1>7 DEF UsersOf, SameModel
<1>8. KeyUpdateKept(c)'
  <2>1. ASSUME Writing(c, "updateKey"), NEW m \in UsersOf(on, by)', Untouched(c, {m, on})'
        PROVE  with.provider \in {"", key'[on].provider}
    <3>1. m \in Model /\ m \notin rows /\ on \notin rows /\ Untouched(c, {m, on})
      BY <1>3, <2>1 DEF UsersOf
    <3>2. m \in UsersOf(on, by)
      BY <1>7, <2>1, <3>1
    <3>3. on \in Key
      BY <1>1, <1>5, <2>1, CallTyped DEF Writing
    <3>4. key'[on] = key[on]
      BY <3>1, <3>3
    <3> QED  BY <1>4, <1>5, <1>6, <2>1, <3>1, <3>2, <3>4 DEF CallKept, KeyUpdateKept
  <2> QED  BY <1>1, <1>2, <1>4, <1>5, <1>6, <2>1 DEF KeyUpdateKept
<1>9. KeyDeleteKept(c)'
  <2>1. ASSUME Writing(c, "deleteKey"), NEW m \in UsersOf(on, by)' PROVE m \in call'[c].touched
    <3>1. m \in Model
      BY DEF UsersOf
    <3>2. m \notin rows => m \in UsersOf(on, by)
      BY <1>7, <2>1, <3>1
    <3> QED  BY <1>1, <1>4, <1>5, <2>1, <3>2 DEF CallKept, KeyDeleteKept
  <2> QED  BY <1>1, <1>2, <1>4, <1>5, <2>1 DEF KeyDeleteKept
<1>10. ModelWriteKept(c)'
  <2>1. ASSUME Writing(c, "writeModel"), Untouched(c, {on, with.key})' PROVE KeyStands(with)'
    <3>1. KeyStands(with) /\ with.key \notin rows
      BY <1>3, <1>5, <1>6, <2>1 DEF CallKept, ModelWriteKept
    <3>2. with \in ModelRow
      BY <1>1, <1>6, <2>1, CallTyped DEF Writing
    <3>3. with.key \in Key \cup {Unset}
      BY <3>2 DEF ModelRow
    <3> QED  BY <3>1, <3>3 DEF KeyStands, OwnKey
  <2>2. Writing(c, "writeModel") => with.owner = ModelForm(on).owner
    BY <1>5, <1>6 DEF CallKept, ModelWriteKept
  <2> QED  BY <1>1, <1>2, <1>5, <1>6, <2>1, <2>2 DEF ModelWriteKept
<1>11. ModelChangeKept(c)'
  <2>1. ASSUME Writing(c, "changeModel"), Untouched(c, {on, with.key})'
        PROVE  KeyStands(RowChanged(model[on], with))'
    <3>1. /\ on \in Model /\ with \in [key : Key \cup {Unset}, form : ModelUpdate]
          /\ with.key \in Key \cup {Unset}
      BY <1>1, <1>5, <1>6, <2>1, CallTyped DEF Writing
    <3>2. on \notin rows /\ with.key \notin rows /\ KeyStands(RowChanged(model[on], with))
      BY <1>3, <1>5, <1>6, <2>1 DEF CallKept, ModelChangeKept
    <3>3. SameModel(on)
      BY <3>1, <3>2
    <3>4. PICK old \in ModelRow : old = model[on]
      BY <3>1 DEF BindTypeOK
    <3>5. PICK new \in ModelRow : new = model'[on]
      BY <3>1 DEF BindTypeOK
    <3>6. /\ RowChanged(old, with).key = with.key /\ RowChanged(new, with).key = with.key
          /\ RowChanged(old, with).owner = RowChanged(new, with).owner
          /\ RowChanged(old, with).provider = RowChanged(new, with).provider
          /\ RowChanged(old, with).endpoint = RowChanged(new, with).endpoint
      BY <3>1, <3>3, <3>4, <3>5, RowChangedAs DEF SameModel
    <3>7. KeyStands(RowChanged(old, with))
      BY <3>2, <3>4
    <3>8. KeyStands(RowChanged(new, with))'
      BY <3>1, <3>2, <3>6, <3>7 DEF KeyStands, OwnKey
    <3> QED  BY <3>5, <3>8
  <2> QED  BY <1>1, <1>2, <1>5, <1>6, <2>1 DEF ModelChangeKept
<1>12. BindingKept(c)'
  <2>1. Binding(c)' <=> Binding(c)
    BY <1>2 DEF Binding
  <2>2. ASSUME Binding(c), NEW r \in Role, with[r] \notin call'[c].touched \cup {Unset}
        PROVE  Suits(with[r], by, r)'
    <3>1. Suits(with[r], by, r) /\ with[r] \notin rows
      BY <1>1, <1>4, <1>6, <2>2 DEF CallKept, BindingKept
    <3>2. SameModel(with[r])
      BY <3>1 DEF Suits
    <3> QED  BY <3>1, <3>2 DEF Suits, OwnModel, Fits, SameModel
  <2> QED  BY <1>1, <1>4, <1>6, <2>1, <2>2 DEF BindingKept
<1> QED  BY <1>8, <1>9, <1>10, <1>11, <1>12 DEF CallKept

(* At the start no call is under way.                                      *)
LEMMA BindInvInit == ASSUME BindInit PROVE BindInv
<1>1. ASSUME NEW k \in Key
      PROVE  /\ [KeyForm(k) EXCEPT !.state = "none"] \in KeyRow
             /\ [KeyForm(k) EXCEPT !.state = "none"].owner = KeyForm(k).owner
  BY BindAssumption DEF KeyRow, State
<1>2. ASSUME NEW m \in Model
      PROVE  /\ [ModelForm(m) EXCEPT !.state = "none"] \in ModelRow
             /\ [ModelForm(m) EXCEPT !.state = "none"].owner = ModelForm(m).owner
             /\ [ModelForm(m) EXCEPT !.state = "none"].state = "none"
  BY BindAssumption DEF ModelRow, State
<1>3. Unbound \in Bound
  BY DEF Unbound, Bound
<1>4. BindTypeOK
  BY <1>1, <1>2, <1>3, BindAssumption DEF BindInit, BindTypeOK, State
<1>5. OwnersStay
  BY <1>1, <1>2 DEF BindInit, OwnersStay
<1>6. BoundKeyStands
  BY <1>2 DEF BindInit, BoundKeyStands
<1>7. SettledKept /\ \A c \in Call : CallKept(c)
  BY DEF BindInit, SettledKept, CallKept, KeyUpdateKept, KeyDeleteKept, ModelWriteKept, ModelChangeKept,
         BindingKept, Binding, Writing
<1> QED  BY <1>4, <1>5, <1>6, <1>7 DEF BindInv

(* What a step must show: that the rows it leaves alone are the same, and  *)
(* that its own references stand.                                          *)
LEMMA StepKeeps ==
  ASSUME BindInv, BindTypeOK', NEW rows,
         \A k \in Key : key'[k].owner = key[k].owner,
         \A k \in Key \ rows : key'[k] = key[k],
         \A m \in Model : model'[m].owner = model[m].owner,
         \A m \in Model \ rows : SameModel(m),
         \A d \in Call : call'[d] = Unset \/ CallKept(d)' \/ SameCall(d, rows),
         BoundKeyStands', SettledKept'
  PROVE  BindInv'
<1>1. ASSUME NEW d \in Call PROVE CallKept(d)'
  <2>1. CASE call'[d] = Unset
    BY <2>1 DEF CallKept, KeyUpdateKept, KeyDeleteKept, ModelWriteKept, ModelChangeKept, BindingKept,
                Binding, Writing
  <2>2. CASE SameCall(d, rows)
    BY <2>2, PendingKept DEF BindInv
  <2> QED  BY <2>1, <2>2
<1>2. OwnersStay'
  BY DEF BindInv, OwnersStay
<1> QED  BY <1>1, <1>2 DEF BindInv

(* The key of a live model stands, unless a call overlapped with another   *)
(* that concerned them.                                                    *)
LEMMA ModelsKeepKeys ==
  ASSUME BindTypeOK, BoundKeyStands, NEW m \in Model, m \notin raced, model[m].state = "live"
  PROVE  KeyStands(model[m])
BY DEF BoundKeyStands, KeyStands

(* A model that stays, with a key that stays, keeps its reference.         *)
LEMMA KeyStillStands ==
  ASSUME NEW old \in ModelRow, NEW new \in ModelRow, KeyStands(old),
         new.key = old.key, new.owner = old.owner, new.provider = old.provider, new.endpoint = old.endpoint,
         old.key = Unset \/ key'[old.key] = key[old.key]
  PROVE  KeyStands(new)'
BY DEF KeyStands, OwnKey

(* It is enough to show that of models, row by row.                        *)
LEMMA ReferencesStand ==
  ASSUME \A m \in Model : (model'[m].state = "live" /\ m \notin raced') => KeyStands(model[m])'
  PROVE  BoundKeyStands'
BY DEF BoundKeyStands, KeyStands

(* Bindings that were settled stay so when their models do.                *)
LEMMA SettledStays ==
  ASSUME BindTypeOK, SettledKept, NEW rows, bound' = bound,
         \A s \in settled' : s \in settled /\ bound[s[1]][s[2]][s[3]] \notin rows,
         \A m \in Model \ rows : SameModel(m)
  PROVE  SettledKept'
<1>1. ASSUME NEW s \in settled' PROVE Suits(bound[s[1]][s[2]][s[3]], s[2], s[3])'
  <2>1. PICK m : m = bound[s[1]][s[2]][s[3]]
    OBVIOUS
  <2>2. Suits(m, s[2], s[3]) /\ m \notin rows
    BY <1>1, <2>1 DEF SettledKept
  <2>3. SameModel(m) /\ m \in Model
    BY <2>2 DEF Suits
  <2> QED  BY <2>1, <2>2, <2>3 DEF Suits, OwnModel, Fits, SameModel
<1> QED  BY <1>1 DEF SettledKept

(* A settled binding goes on fitting while models stay as they are.        *)
LEMMA SettledSame ==
  ASSUME BindTypeOK, SettledKept, bound' = bound, settled' = settled, \A m \in Model : SameModel(m)
  PROVE  SettledKept'
<1>1. PICK rows : rows = {}
  OBVIOUS
<1>2. \A s \in settled' : s \in settled /\ bound[s[1]][s[2]][s[3]] \notin rows
  BY <1>1
<1>3. \A m \in Model \ rows : SameModel(m)
  BY <1>1
<1> QED  BY <1>2, <1>3, SettledStays, Zenon

(* A call that has only checked leaves all rows as they are.               *)
LEMMA CheckKeepsRows ==
  ASSUME BindInv, BindTypeOK', NEW c \in Call, UNCHANGED <<key, model, agent, bound, raced, settled>>,
         \A d \in Call \ {c} : call'[d] = Unset \/ SameCall(d, {}), CallKept(c)'
  PROVE  BindInv'
<1>1. \A m \in Model : SameModel(m)
  BY DEF SameModel
<1>2. BoundKeyStands'
  BY DEF BindInv, BoundKeyStands, OwnKey
<1>3. SettledKept'
  BY <1>1, SettledSame DEF BindInv
<1> QED  BY <1>1, <1>2, <1>3, StepKeeps

(* CreateModelKey: a new key is the key of no model yet.                   *)
LEMMA CreateKeyKeeps == ASSUME BindInv, NEW k \in Key, CreateModelKey(k) PROVE BindInv'
<1>1. BindTypeOK
  BY DEF BindInv
<1>2. /\ call' \in [Call -> BindCall \cup {Unset}] /\ calls' \in 0..MaxCalls
      /\ \A d \in Call : call'[d] = Unset \/ SameCall(d, {k})
  BY <1>1, AtOnceMoves DEF CreateModelKey
<1>3. UNCHANGED <<model, agent, bound, raced, settled>> /\ key[k].state = "none"
  BY DEF CreateModelKey
<1>4. PICK row : row = [KeyForm(k) EXCEPT !.state = "live", !.enabled = TRUE]
  OBVIOUS
<1>5. row \in KeyRow /\ row.owner = KeyForm(k).owner
  BY <1>4, BindAssumption DEF KeyRow, State
<1>6. key' = [key EXCEPT ![k] = row]
  BY <1>4 DEF CreateModelKey
<1>7. BindTypeOK'
  BY <1>1, <1>2, <1>3, <1>5, <1>6 DEF BindTypeOK
<1>8. \A j \in Key : key'[j] = IF j = k THEN row ELSE key[j]
  BY <1>1, <1>6 DEF BindTypeOK
<1>9. \A j \in Key : key'[j].owner = key[j].owner
  BY <1>5, <1>8 DEF BindInv, OwnersStay
<1>10. \A m \in Model : SameModel(m)
  BY <1>3 DEF SameModel
<1>11. BoundKeyStands'
  <2>1. ASSUME NEW m \in Model, model[m].state = "live", m \notin raced PROVE KeyStands(model[m])'
    <3>1. KeyStands(model[m]) /\ model[m] \in ModelRow
      BY <1>1, <2>1, ModelsKeepKeys DEF BindInv, BindTypeOK
    <3>2. model[m].key = Unset \/ key'[model[m].key] = key[model[m].key]
      BY <1>3, <1>8, <3>1 DEF KeyStands, OwnKey, ModelRow
    <3>3. PICK r \in ModelRow : r = model[m]
      BY <3>1
    <3>4. KeyStands(r)'
      BY <3>1, <3>2, <3>3, KeyStillStands
    <3> QED  BY <1>3, <3>3, <3>4
  <2> QED  BY <1>3, <2>1, ReferencesStand
<1>12. SettledKept'
  BY <1>3, <1>10, SettledSame DEF BindInv
<1> QED  BY <1>2, <1>7, <1>8, <1>9, <1>10, <1>11, <1>12, StepKeeps DEF SameModel

(* UpdateModelKey, reading half: the change has been checked against the   *)
(* row.                                                                    *)
LEMMA UpdateKeyKeeps ==
  ASSUME BindInv, NEW c \in Call, NEW k \in Key, NEW u \in User, NEW change \in KeyChange,
         UpdateModelKey(c, k, u, change)
  PROVE  BindInv'
<1>1. BindTypeOK /\ change \in KeyUpdate
  BY BindAssumption DEF BindInv
<1>2. PICK with : with = [change EXCEPT !.enabled = IF @ = {} THEN {key[k].enabled} ELSE @]
  OBVIOUS
<1>3. key[k].enabled \in BOOLEAN
  BY <1>1 DEF BindTypeOK, KeyRow
<1>4. with \in KeyUpdate /\ with.provider = change.provider
  <2>1. (IF change.enabled = {} THEN {key[k].enabled} ELSE change.enabled) \in SUBSET BOOLEAN
    BY <1>1, <1>3 DEF KeyUpdate
  <2> QED  BY <1>1, <1>2, <2>1 DEF KeyUpdate
<1>5. [op |-> "updateKey", by |-> u, on |-> k, with |-> with, touched |-> {}] \in BindCall
  BY <1>4 DEF BindCall, Pending
<1>6. Checked(c, "updateKey", u, k, with)
  BY <1>2 DEF UpdateModelKey
<1>7. /\ BindTypeOK' /\ UNCHANGED <<key, model, agent, bound, raced, settled>>
      /\ call'[c] # Unset /\ call'[c].op = "updateKey" /\ call'[c].by = u /\ call'[c].on = k
      /\ call'[c].with = with /\ call'[c].touched = {}
      /\ \A d \in Call \ {c} : call'[d] = Unset \/ SameCall(d, {})
  BY <1>1, <1>5, <1>6, CheckedMoves
<1>8. UsersOf(k, u)' = UsersOf(k, u)
  BY <1>7 DEF UsersOf
<1>9. change.provider \in {"", key[k].provider} \/ UsersOf(k, u) = {}
  BY DEF UpdateModelKey
<1>10. CallKept(c)'
  BY <1>4, <1>7, <1>8, <1>9 DEF CallKept, KeyUpdateKept, KeyDeleteKept, ModelWriteKept, ModelChangeKept,
                              BindingKept, Binding, Writing
<1> QED  BY <1>7, <1>10, CheckKeepsRows

(* DeleteModelKey, reading half: no model was using the key when they were *)
(* counted.                                                                *)
LEMMA DeleteKeyKeeps ==
  ASSUME BindInv, NEW c \in Call, NEW k \in Key, NEW u \in User, DeleteModelKey(c, k, u)
  PROVE  BindInv'
<1>1. BindTypeOK
  BY DEF BindInv
<1>2. [op |-> "deleteKey", by |-> u, on |-> k, with |-> Unset, touched |-> {}] \in BindCall
  BY DEF BindCall, Pending
<1>3. /\ BindTypeOK' /\ UNCHANGED <<key, model, agent, bound, raced, settled>>
      /\ call'[c] # Unset /\ call'[c].op = "deleteKey" /\ call'[c].by = u /\ call'[c].on = k
      /\ call'[c].with = Unset /\ call'[c].touched = {}
      /\ \A d \in Call \ {c} : call'[d] = Unset \/ SameCall(d, {})
  BY <1>1, <1>2, CheckedMoves DEF DeleteModelKey
<1>4. UsersOf(k, u)' = UsersOf(k, u) /\ UsersOf(k, u) = {}
  BY <1>3 DEF UsersOf, DeleteModelKey
<1>5. CallKept(c)'
  BY <1>3, <1>4 DEF CallKept, KeyUpdateKept, KeyDeleteKept, ModelWriteKept, ModelChangeKept,
                    BindingKept, Binding, Writing
<1> QED  BY <1>3, <1>5, CheckKeepsRows

(* A key that is written: the models that use it are of its owner, and one *)
(* whose reference the write breaks was written meanwhile.                 *)
LEMMA WriteKeyKeeps == ASSUME BindInv, NEW c \in Call, WriteModelKey(c) PROVE BindInv'
<1>1. BindTypeOK
  BY DEF BindInv
<1>2. call[c] # Unset /\ call[c].op = "updateKey" /\ Writing(c, "updateKey")
  BY DEF WriteModelKey, Writing
<1>3. PICK k \in Key : k = call[c].on
  BY <1>1, <1>2, CallTyped
<1>4. PICK u \in User : u = call[c].by
  BY <1>1, <1>2, CallTyped
<1>5. PICK change \in KeyUpdate : change = call[c].with
  BY <1>1, <1>2, CallTyped
<1>6. PICK new \in Provider : new = Keep(change.provider, key[k].provider)
  BY <1>1 DEF BindTypeOK, KeyRow, KeyUpdate, Keep
<1>7. /\ call' \in [Call -> BindCall \cup {Unset}] /\ calls' \in 0..MaxCalls
      /\ \A d \in Call : call'[d] = Unset \/ SameCall(d, {k})
  BY <1>1, <1>3, WrittenMoves DEF WriteModelKey
<1>8. UNCHANGED <<model, agent, bound, settled>>
  BY DEF WriteModelKey
<1>9. PICK row : row = [key[k] EXCEPT !.provider = new, !.secret = key[k].secret \/ change.secret,
                                      !.enabled = (change.enabled = {TRUE})]
  OBVIOUS
<1>10. /\ row \in KeyRow /\ row.owner = key[k].owner /\ row.state = key[k].state /\ row.provider = new
  <2>1. key[k] \in KeyRow
    BY <1>1 DEF BindTypeOK
  <2>2. (key[k].secret \/ change.secret) \in BOOLEAN /\ (change.enabled = {TRUE}) \in BOOLEAN
    OBVIOUS
  <2> QED  BY <1>9, <2>1, <2>2 DEF KeyRow
<1>11. \/ key' = key /\ raced' = raced
       \/ /\ key' = [key EXCEPT ![k] = row] /\ OwnKey(k, u)
          /\ raced' = IF new = key[k].provider THEN raced
                      ELSE raced \cup {m \in UsersOf(k, u) : {m, k} \cap call[c].touched # {}}
  <2>1. CASE OwnKey(k, u)
    <3>1. key' = [key EXCEPT ![k].provider = new, ![k].secret = @ \/ change.secret,
                             ![k].enabled = change.enabled = {TRUE}]
      BY <1>3, <1>4, <1>5, <1>6, <2>1 DEF WriteModelKey
    <3>2. key[k] \in KeyRow
      BY <1>1 DEF BindTypeOK
    <3>3. key' = [key EXCEPT ![k] = row]
      BY <1>1, <1>9, <3>1, <3>2 DEF BindTypeOK, KeyRow
    <3> QED  BY <1>3, <1>4, <1>5, <1>6, <2>1, <3>3 DEF WriteModelKey
  <2>2. CASE ~OwnKey(k, u)
    BY <1>3, <1>4, <2>2 DEF WriteModelKey
  <2> QED  BY <2>1, <2>2
<1>12. raced \subseteq raced' /\ raced' \subseteq Model
  BY <1>1, <1>11 DEF BindTypeOK, UsersOf
<1>13. BindTypeOK'
  BY <1>1, <1>7, <1>8, <1>10, <1>11, <1>12 DEF BindTypeOK
<1>14. \A j \in Key : key'[j] = key[j] \/ (j = k /\ key'[j] = row)
  BY <1>1, <1>11 DEF BindTypeOK
<1>15. \A j \in Key : key'[j].owner = key[j].owner
  BY <1>10, <1>14
<1>16. \A m \in Model : SameModel(m)
  BY <1>8 DEF SameModel
<1>17. SettledKept'
  BY <1>1, <1>8, <1>16, SettledSame DEF BindInv
<1>18. BoundKeyStands'
  <2>1. ASSUME NEW m \in Model, model[m].state = "live", m \notin raced' PROVE KeyStands(model[m])'
    <3>1. KeyStands(model[m]) /\ model[m] \in ModelRow
      BY <1>1, <1>12, <2>1, ModelsKeepKeys DEF BindInv, BindTypeOK
    <3>2. PICK r \in ModelRow : r = model[m]
      BY <3>1
    <3>3. CASE r.key = Unset \/ key'[r.key] = key[r.key]
      <4>1. KeyStands(r)'
        BY <3>1, <3>2, <3>3, KeyStillStands
      <4> QED  BY <1>8, <3>2, <4>1
    <3>4. CASE ~(r.key = Unset \/ key'[r.key] = key[r.key])
      <4>1. r.key = k /\ r.key # Unset /\ key'[k] = row /\ key'[k] # key[k]
        BY <1>14, <3>2, <3>4 DEF ModelRow
      <4>2. OwnKey(k, u) /\ raced' = IF new = key[k].provider THEN raced
                      ELSE raced \cup {n \in UsersOf(k, u) : {n, k} \cap call[c].touched # {}}
        BY <1>11, <4>1
      <4>3. OwnKey(k, r.owner) /\ key[k].provider = r.provider
        BY <3>1, <3>2, <4>1 DEF KeyStands
      <4>4. r.owner = u /\ m \in UsersOf(k, u)
        BY <2>1, <3>2, <4>1, <4>2, <4>3 DEF OwnKey, UsersOf
      <4>5. new = key[k].provider
        <5>1. ASSUME new # key[k].provider PROVE FALSE
          <6>1. {m, k} \cap call[c].touched = {}
            BY <2>1, <4>2, <4>4, <5>1
          <6>2. Untouched(c, {m, k})
            BY <6>1 DEF Untouched
          <6>3. KeyUpdateKept(c)
            BY DEF BindInv, CallKept
          <6>4. change.provider \in {"", key[k].provider}
            BY <1>2, <1>3, <1>4, <1>5, <4>4, <6>2, <6>3 DEF KeyUpdateKept
          <6> QED  BY <1>6, <5>1, <6>4 DEF Keep
        <5> QED  BY <5>1
      <4>6. KeyStands(r)'
        BY <1>10, <4>1, <4>3, <4>5 DEF KeyStands, OwnKey
      <4> QED  BY <1>8, <3>2, <4>6
    <3> QED  BY <3>3, <3>4
  <2> QED  BY <1>8, <2>1, ReferencesStand
<1>19. \A j \in Key \ {k} : key'[j] = key[j]
  BY <1>14
<1> QED  BY <1>7, <1>13, <1>15, <1>16, <1>17, <1>18, <1>19, StepKeeps DEF SameModel

(* A key is erased: every model of its owner that uses it was written      *)
(* since its users were counted.                                           *)
LEMMA EraseKeyKeeps == ASSUME BindInv, NEW c \in Call, EraseModelKey(c) PROVE BindInv'
<1>1. BindTypeOK
  BY DEF BindInv
<1>2. call[c] # Unset /\ call[c].op = "deleteKey" /\ Writing(c, "deleteKey")
  BY DEF EraseModelKey, Writing
<1>3. PICK k \in Key : k = call[c].on
  BY <1>1, <1>2, CallTyped
<1>4. PICK u \in User : u = call[c].by
  BY <1>1, <1>2, CallTyped
<1>5. UsersOf(k, u) \subseteq call[c].touched
  BY <1>2, <1>3, <1>4 DEF BindInv, CallKept, KeyDeleteKept
<1>7. /\ call' \in [Call -> BindCall \cup {Unset}] /\ calls' \in 0..MaxCalls
      /\ \A d \in Call : call'[d] = Unset \/ SameCall(d, {k})
  BY <1>1, <1>3, WrittenMoves DEF EraseModelKey
<1>8. UNCHANGED <<model, agent, bound, settled>>
  BY DEF EraseModelKey
<1>9. PICK row : row = [key[k] EXCEPT !.state = "deleted", !.enabled = FALSE]
  OBVIOUS
<1>10. /\ row \in KeyRow /\ row.owner = key[k].owner
  <2>1. key[k] \in KeyRow
    BY <1>1 DEF BindTypeOK
  <2> QED  BY <1>9, <2>1 DEF KeyRow, State
<1>11. \/ key' = key /\ raced' = raced
       \/ key' = [key EXCEPT ![k] = row] /\ OwnKey(k, u) /\ raced' = raced \cup UsersOf(k, u)
  <2>1. CASE OwnKey(k, u)
    <3>1. key' = [key EXCEPT ![k].state = "deleted", ![k].enabled = FALSE]
      BY <1>3, <1>4, <2>1 DEF EraseModelKey
    <3>2. key[k] \in KeyRow
      BY <1>1 DEF BindTypeOK
    <3>3. key' = [key EXCEPT ![k] = row]
      BY <1>1, <1>9, <3>1, <3>2 DEF BindTypeOK, KeyRow
    <3>4. raced' = raced \cup (UsersOf(k, u) \cap call[c].touched)
      BY <1>3, <1>4, <2>1 DEF EraseModelKey
    <3> QED  BY <1>5, <2>1, <3>3, <3>4
  <2>2. CASE ~OwnKey(k, u)
    BY <1>3, <1>4, <2>2 DEF EraseModelKey
  <2> QED  BY <2>1, <2>2
<1>12. raced \subseteq raced' /\ raced' \subseteq Model
  BY <1>1, <1>11 DEF BindTypeOK, UsersOf
<1>13. BindTypeOK'
  BY <1>1, <1>7, <1>8, <1>10, <1>11, <1>12 DEF BindTypeOK
<1>14. \A j \in Key : key'[j] = key[j] \/ (j = k /\ key'[j] = row)
  BY <1>1, <1>11 DEF BindTypeOK
<1>15. \A j \in Key : key'[j].owner = key[j].owner
  BY <1>10, <1>14
<1>16. \A m \in Model : SameModel(m)
  BY <1>8 DEF SameModel
<1>17. SettledKept'
  BY <1>1, <1>8, <1>16, SettledSame DEF BindInv
<1>18. BoundKeyStands'
  <2>1. ASSUME NEW m \in Model, model[m].state = "live", m \notin raced' PROVE KeyStands(model[m])'
    <3>1. KeyStands(model[m]) /\ model[m] \in ModelRow
      BY <1>1, <1>12, <2>1, ModelsKeepKeys DEF BindInv, BindTypeOK
    <3>2. PICK r \in ModelRow : r = model[m]
      BY <3>1
    <3>3. CASE r.key = Unset \/ key'[r.key] = key[r.key]
      <4>1. KeyStands(r)'
        BY <3>1, <3>2, <3>3, KeyStillStands
      <4> QED  BY <1>8, <3>2, <4>1
    <3>4. CASE ~(r.key = Unset \/ key'[r.key] = key[r.key])
      <4>1. r.key = k /\ r.key # Unset /\ key'[k] # key[k]
        BY <1>14, <3>2, <3>4 DEF ModelRow
      <4>2. OwnKey(k, u) /\ raced' = raced \cup UsersOf(k, u)
        BY <1>11, <4>1
      <4>3. OwnKey(k, r.owner)
        BY <3>1, <3>2, <4>1 DEF KeyStands
      <4>4. m \in UsersOf(k, u)
        BY <2>1, <3>2, <4>1, <4>2, <4>3 DEF OwnKey, UsersOf
      <4> QED  BY <2>1, <4>2, <4>4
    <3> QED  BY <3>3, <3>4
  <2> QED  BY <1>8, <2>1, ReferencesStand
<1>19. \A j \in Key \ {k} : key'[j] = key[j]
  BY <1>14
<1> QED  BY <1>7, <1>13, <1>15, <1>16, <1>17, <1>18, <1>19, StepKeeps DEF SameModel

(* CreateSysModel: the key of the new model has been checked.              *)
LEMMA CreateModelKeeps ==
  ASSUME BindInv, NEW c \in Call, NEW m \in Model, NEW k \in Key \cup {Unset}, CreateSysModel(c, m, k)
  PROVE  BindInv'
<1>1. BindTypeOK
  BY DEF BindInv
<1>2. PICK form \in ModelRow : form = ModelForm(m)
  BY BindAssumption
<1>3. PICK row : row = [form EXCEPT !.state = "live", !.key = k, !.enabled = TRUE, !.mode = "on_demand"]
  OBVIOUS
<1>4. /\ row \in ModelRow /\ row.key = k /\ row.owner = form.owner /\ row.provider = form.provider
      /\ row.endpoint = form.endpoint /\ form.owner \in User
  BY <1>3 DEF ModelRow, State
<1>5. Checked(c, "writeModel", form.owner, m, row) /\ ValidModelKey(k, form.owner, form.provider, form.endpoint)
  BY <1>2, <1>3 DEF CreateSysModel
<1>6. [op |-> "writeModel", by |-> form.owner, on |-> m, with |-> row, touched |-> {}] \in BindCall
  BY <1>4 DEF BindCall, Pending
<1>7. /\ BindTypeOK' /\ UNCHANGED <<key, model, agent, bound, raced, settled>>
      /\ call'[c] # Unset /\ call'[c].op = "writeModel" /\ call'[c].by = form.owner /\ call'[c].on = m
      /\ call'[c].with = row /\ call'[c].touched = {}
      /\ \A d \in Call \ {c} : call'[d] = Unset \/ SameCall(d, {})
  BY <1>1, <1>4, <1>5, <1>6, CheckedMoves
<1>8. KeyStands(row)'
  BY <1>4, <1>5, <1>7 DEF KeyStands, ValidModelKey, OwnKey
<1>9. CallKept(c)'
  <2>1. ModelWriteKept(c)'
    BY <1>2, <1>4, <1>7, <1>8 DEF ModelWriteKept
  <2> QED  BY <1>7, <2>1 DEF CallKept, KeyUpdateKept, KeyDeleteKept, ModelChangeKept, BindingKept, Binding, Writing
<1> QED  BY <1>7, <1>9, CheckKeepsRows

(* UpdateSysModel, reading half: the key that the model will have has been *)
(* checked.                                                                *)
LEMMA UpdateModelKeeps ==
  ASSUME BindInv, NEW c \in Call, NEW m \in Model, NEW u \in User, NEW change \in ModelChange,
         NEW k \in Key \cup {Unset}, UpdateSysModel(c, m, u, change, k)
  PROVE  BindInv'
<1>1. BindTypeOK /\ change \in ModelUpdate
  BY BindAssumption DEF BindInv
<1>2. PICK row \in ModelRow : row = model[m]
  BY <1>1 DEF BindTypeOK
<1>3. PICK used \in Key \cup {Unset} : used = IF change.keepKey THEN model[m].key ELSE k
  BY <1>1, <1>2 DEF ModelRow
<1>4. PICK with \in [key : Key \cup {Unset}, form : ModelUpdate] :
        with = [key |-> used, form |-> change] /\ with.key = used /\ with.form = change
  <2>1. [key |-> used, form |-> change] \in [key : Key \cup {Unset}, form : ModelUpdate]
    BY <1>1
  <2> QED  BY <2>1
<1>5. /\ Checked(c, "changeModel", u, m, with) /\ row.owner = u
      /\ ValidModelKey(used, u, Keep(change.provider, row.provider), Keep(change.endpoint, row.endpoint))
  BY <1>2, <1>3, <1>4 DEF UpdateSysModel, OwnModel
<1>6. [op |-> "changeModel", by |-> u, on |-> m, with |-> with, touched |-> {}] \in BindCall
  BY DEF BindCall, Pending
<1>7. /\ BindTypeOK' /\ UNCHANGED <<key, model, agent, bound, raced, settled>>
      /\ call'[c] # Unset /\ call'[c].op = "changeModel" /\ call'[c].by = u /\ call'[c].on = m
      /\ call'[c].with = with /\ call'[c].touched = {}
      /\ \A d \in Call \ {c} : call'[d] = Unset \/ SameCall(d, {})
  BY <1>1, <1>5, <1>6, CheckedMoves
<1>8. PICK new \in ModelRow : /\ new = RowChanged(row, with) /\ new.key = used /\ new.owner = u
                              /\ new.provider = Keep(change.provider, row.provider)
                              /\ new.endpoint = Keep(change.endpoint, row.endpoint)
  BY <1>4, <1>5, RowChangedAs
<1>9. KeyStands(new)'
  BY <1>5, <1>7, <1>8 DEF KeyStands, ValidModelKey, OwnKey
<1>10. CallKept(c)'
  <2>1. RowChanged(model[m], with)' = new
    BY <1>2, <1>7, <1>8 DEF RowChanged
  <2>2. ModelChangeKept(c)'
    BY <1>7, <1>9, <2>1 DEF ModelChangeKept, KeyStands
  <2> QED  BY <1>7, <2>2 DEF CallKept, KeyUpdateKept, KeyDeleteKept, ModelWriteKept, BindingKept, Binding, Writing
<1> QED  BY <1>7, <1>10, CheckKeepsRows

(* A row that is written refers rightly, or was written meanwhile.         *)
LEMMA ModelWritten ==
  ASSUME BindInv, NEW c \in Call, NEW m \in Model, NEW row \in ModelRow, call[c] # Unset, WrittenModel(c, m, row),
         row.owner = model[m].owner, Untouched(c, {m, row.key}) => KeyStands(row)
  PROVE  BindInv'
<1>1. BindTypeOK
  BY DEF BindInv
<1>2. /\ call' \in [Call -> BindCall \cup {Unset}] /\ calls' \in 0..MaxCalls
      /\ \A d \in Call : call'[d] = Unset \/ SameCall(d, {m})
  BY <1>1, WrittenMoves DEF WrittenModel
<1>3. /\ UNCHANGED <<key, agent, bound>> /\ model' = [model EXCEPT ![m] = row]
      /\ raced' = (IF call[c].touched \cap {m, row.key} = {} THEN raced \ {m} ELSE raced \cup {m})
      /\ settled' = Unsettle(m)
  BY DEF WrittenModel
<1>4. BindTypeOK'
  BY <1>1, <1>2, <1>3 DEF BindTypeOK, Unsettle
<1>5. \A n \in Model : model'[n] = IF n = m THEN row ELSE model[n]
  BY <1>1, <1>3 DEF BindTypeOK
<1>6. \A n \in Model \ {m} : SameModel(n)
  BY <1>5 DEF SameModel
<1>7. \A n \in Model : model'[n].owner = model[n].owner
  BY <1>5
<1>8. SettledKept'
  <2>1. \A s \in settled' : s \in settled /\ bound[s[1]][s[2]][s[3]] \notin {m}
    BY <1>3 DEF Unsettle
  <2>2. SettledKept /\ bound' = bound
    BY <1>3 DEF BindInv
  <2> QED  BY <1>1, <1>6, <2>1, <2>2, SettledStays
<1>9. BoundKeyStands'
  <2>1. ASSUME NEW n \in Model, model'[n].state = "live", n \notin raced' PROVE KeyStands(model[n])'
    <3>1. CASE n = m
      <4>1. Untouched(c, {m, row.key})
        BY <1>3, <2>1, <3>1 DEF Untouched
      <4>2. KeyStands(row)'
        BY <1>3, <4>1 DEF KeyStands, OwnKey
      <4> QED  BY <1>5, <3>1, <4>2
    <3>2. CASE n # m
      <4>1. model'[n] = model[n] /\ n \notin raced
        BY <1>3, <1>5, <2>1, <3>2
      <4>2. KeyStands(model[n])
        BY <1>1, <2>1, <4>1, ModelsKeepKeys DEF BindInv
      <4> QED  BY <1>3, <4>1, <4>2 DEF KeyStands, OwnKey
    <3> QED  BY <3>1, <3>2
  <2> QED  BY <2>1, ReferencesStand
<1> QED  BY <1>2, <1>3, <1>4, <1>6, <1>7, <1>8, <1>9, StepKeeps

(* WriteModel: the row that was checked is written; what was written       *)
(* meanwhile makes it raced.                                               *)
LEMMA WriteModelKeeps == ASSUME BindInv, NEW c \in Call, WriteModel(c) PROVE BindInv'
<1>1. BindTypeOK /\ CallKept(c) /\ OwnersStay
  BY DEF BindInv
<1>2. CASE Writing(c, "writeModel") /\ WrittenModel(c, call[c].on, call[c].with)
  <2>1. /\ call[c] # Unset /\ call[c].on \in Model /\ call[c].with \in ModelRow
        /\ call[c].with.owner = ModelForm(call[c].on).owner
        /\ Untouched(c, {call[c].on, call[c].with.key}) => KeyStands(call[c].with)
    BY <1>1, <1>2, CallTyped DEF Writing, CallKept, ModelWriteKept
  <2> QED  BY <1>1, <1>2, <2>1, ModelWritten DEF OwnersStay
<1>3. CASE ~(Writing(c, "writeModel") /\ WrittenModel(c, call[c].on, call[c].with))
  <2>1. Writing(c, "changeModel")
    BY <1>3 DEF WriteModel
  <2>2. PICK m \in Model : m = call[c].on
    BY <1>1, <2>1, CallTyped DEF Writing
  <2>3. PICK with \in [key : Key \cup {Unset}, form : ModelUpdate] : with = call[c].with
    BY <1>1, <2>1, CallTyped DEF Writing
  <2>4. PICK old \in ModelRow : old = model[m]
    BY <1>1 DEF BindTypeOK
  <2>5. PICK new \in ModelRow : new = RowChanged(old, with) /\ new.key = with.key /\ new.owner = old.owner
    BY RowChangedAs
  <2>6. Untouched(c, {m, new.key}) => KeyStands(new)
    BY <1>1, <2>1, <2>2, <2>3, <2>4, <2>5 DEF CallKept, ModelChangeKept
  <2>7. WrittenModel(c, m, [model[m] EXCEPT !.key = with.key,
                                  !.provider = Keep(with.form.provider, @),
                                  !.endpoint = Keep(with.form.endpoint, @),
                                  !.type = Keep(with.form.type, @),
                                  !.can = IF with.form.can = {} THEN @ ELSE with.form.can])
    BY <1>3, <2>2, <2>3 DEF WriteModel
  <2>8. WrittenModel(c, m, new)
    BY <2>4, <2>5, <2>7 DEF RowChanged
  <2> QED  BY <2>1, <2>4, <2>5, <2>6, <2>8, ModelWritten DEF Writing
<1> QED  BY <1>2, <1>3

(* A switch of a model: no reference looks at it.                          *)
LEMMA SwitchKeeps ==
  ASSUME BindInv, NEW m \in Model, NEW row \in ModelRow, AtOnce({}), UNCHANGED <<key, agent, bound, raced, settled>>,
         model' = [model EXCEPT ![m] = row], row.state = model[m].state, row.owner = model[m].owner,
         row.key = model[m].key, row.provider = model[m].provider, row.endpoint = model[m].endpoint,
         row.type = model[m].type, row.can = model[m].can
  PROVE  BindInv'
<1>1. BindTypeOK
  BY DEF BindInv
<1>2. /\ call' \in [Call -> BindCall \cup {Unset}] /\ calls' \in 0..MaxCalls
      /\ \A d \in Call : call'[d] = Unset \/ SameCall(d, {})
  BY <1>1, AtOnceMoves
<1>3. BindTypeOK'
  BY <1>1, <1>2 DEF BindTypeOK
<1>4. \A n \in Model : SameModel(n)
  BY <1>1 DEF BindTypeOK, SameModel
<1>5. SettledKept'
  BY <1>1, <1>4, SettledSame DEF BindInv
<1>6. BoundKeyStands'
  <2>1. ASSUME NEW n \in Model, model'[n].state = "live", n \notin raced' PROVE KeyStands(model[n])'
    <3>1. KeyStands(model[n])
      BY <1>1, <1>4, <2>1, ModelsKeepKeys DEF BindInv, SameModel
    <3>2. SameModel(n)
      BY <1>4
    <3> QED  BY <3>1, <3>2 DEF KeyStands, OwnKey, SameModel
  <2> QED  BY <2>1, ReferencesStand
<1> QED  BY <1>2, <1>3, <1>4, <1>5, <1>6, StepKeeps DEF SameModel

(* A model that is enabled, disabled or given another mode keeps its key   *)
(* and its owner.                                                          *)
LEMMA SwitchesKeep ==
  ASSUME BindInv, NEW m \in Model,
         \/ \E enabled \in BOOLEAN : UpdateSysModelEnabled(m, enabled)
         \/ \E mode \in {"always_on", "on_demand", "off"} : UpdateSysModelRuntimeMode(m, mode)
  PROVE  BindInv'
<1>1. model[m] \in ModelRow
  BY DEF BindInv, BindTypeOK
<1>2. ASSUME NEW enabled \in BOOLEAN, UpdateSysModelEnabled(m, enabled) PROVE BindInv'
  <2>1. PICK row : row = [model[m] EXCEPT !.enabled = enabled]
    OBVIOUS
  <2>2. /\ row \in ModelRow /\ row.state = model[m].state /\ row.owner = model[m].owner
        /\ row.key = model[m].key /\ row.provider = model[m].provider /\ row.endpoint = model[m].endpoint
        /\ row.type = model[m].type /\ row.can = model[m].can
    BY <1>1, <2>1 DEF ModelRow
  <2>3. /\ model' = [model EXCEPT ![m] = row] /\ AtOnce({}) /\ UNCHANGED <<key, agent, bound, raced, settled>>
    BY <1>2, <2>1 DEF UpdateSysModelEnabled
  <2> QED  BY <2>2, <2>3, SwitchKeeps
<1>3. ASSUME NEW mode \in {"always_on", "on_demand", "off"}, UpdateSysModelRuntimeMode(m, mode) PROVE BindInv'
  <2>1. PICK row : row = [model[m] EXCEPT !.mode = mode]
    OBVIOUS
  <2>2. /\ row \in ModelRow /\ row.state = model[m].state /\ row.owner = model[m].owner
        /\ row.key = model[m].key /\ row.provider = model[m].provider /\ row.endpoint = model[m].endpoint
        /\ row.type = model[m].type /\ row.can = model[m].can
    BY <1>1, <2>1 DEF ModelRow
  <2>3. /\ model' = [model EXCEPT ![m] = row] /\ AtOnce({}) /\ UNCHANGED <<key, agent, bound, raced, settled>>
    BY <1>3, <2>1 DEF UpdateSysModelRuntimeMode
  <2> QED  BY <2>2, <2>3, SwitchKeeps
<1> QED  BY <1>2, <1>3

(* DeleteSysModel: a deleted model is nobody's to run.                     *)
LEMMA DeleteModelKeeps ==
  ASSUME BindInv, NEW m \in Model, NEW u \in User, DeleteSysModel(m, u) PROVE BindInv'
<1>1. BindTypeOK
  BY DEF BindInv
<1>2. /\ call' \in [Call -> BindCall \cup {Unset}] /\ calls' \in 0..MaxCalls
      /\ \A d \in Call : call'[d] = Unset \/ SameCall(d, {m})
  BY <1>1, AtOnceMoves DEF DeleteSysModel
<1>3. PICK row : row = [model[m] EXCEPT !.state = "deleted"]
  OBVIOUS
<1>4. row \in ModelRow /\ row.owner = model[m].owner /\ row.state = "deleted"
  <2>1. model[m] \in ModelRow
    BY <1>1 DEF BindTypeOK
  <2> QED  BY <1>3, <2>1 DEF ModelRow, State
<1>5. UNCHANGED <<key, agent, bound, raced>> /\ model' = [model EXCEPT ![m] = row] /\ settled' = Unsettle(m)
  BY <1>3 DEF DeleteSysModel
<1>6. BindTypeOK'
  BY <1>1, <1>2, <1>4, <1>5 DEF BindTypeOK, Unsettle
<1>7. \A n \in Model : model'[n] = IF n = m THEN row ELSE model[n]
  BY <1>1, <1>5 DEF BindTypeOK
<1>8. (\A n \in Model \ {m} : SameModel(n)) /\ \A n \in Model : model'[n].owner = model[n].owner
  BY <1>4, <1>7 DEF SameModel
<1>9. SettledKept'
  <2>1. \A s \in settled' : s \in settled /\ bound[s[1]][s[2]][s[3]] \notin {m}
    BY <1>5 DEF Unsettle
  <2>2. SettledKept /\ bound' = bound
    BY <1>5 DEF BindInv
  <2> QED  BY <1>1, <1>8, <2>1, <2>2, SettledStays
<1>10. BoundKeyStands'
  <2>1. ASSUME NEW n \in Model, model'[n].state = "live", n \notin raced' PROVE KeyStands(model[n])'
    <3>1. model'[n] = model[n] /\ n \notin raced
      BY <1>4, <1>5, <1>7, <2>1
    <3>2. KeyStands(model[n])
      BY <1>1, <2>1, <3>1, ModelsKeepKeys DEF BindInv
    <3> QED  BY <1>5, <3>1, <3>2 DEF KeyStands, OwnKey
  <2> QED  BY <2>1, ReferencesStand
<1> QED  BY <1>2, <1>5, <1>6, <1>8, <1>9, <1>10, StepKeeps

-------------------------------------------------------------------------------
(* Agents' bindings.                                                       *)
LEMMA ValidBindingSuits ==
  ASSUME NEW u, NEW models \in Bound, ValidBinding(u, models)
  PROVE  \A r \in Role : models[r] # Unset => Suits(models[r], u, r)
BY DEF ValidBinding, Bound, Suits

(* A binding that is about to be written fits what was read for it.        *)
LEMMA BindingChecked ==
  ASSUME BindInv, NEW c \in Call, NEW op \in {"writeBinding", "writeModelColumn"}, NEW u \in User, NEW a \in Agent,
         NEW models \in Bound, ValidBinding(u, models), Checked(c, op, u, a, models)
  PROVE  BindInv'
<1>1. BindTypeOK
  BY DEF BindInv
<1>2. [op |-> op, by |-> u, on |-> a, with |-> models, touched |-> {}] \in BindCall
  BY DEF BindCall, Pending
<1>3. /\ BindTypeOK' /\ UNCHANGED <<key, model, agent, bound, raced, settled>>
      /\ call'[c] # Unset /\ call'[c].op = op /\ call'[c].by = u /\ call'[c].on = a
      /\ call'[c].with = models /\ call'[c].touched = {}
      /\ \A d \in Call \ {c} : call'[d] = Unset \/ SameCall(d, {})
  BY <1>1, <1>2, CheckedMoves
<1>4. \A r \in Role : models[r] # Unset => Suits(models[r], u, r)'
  BY <1>3, ValidBindingSuits DEF Suits, OwnModel, Fits
<1>5. CallKept(c)'
  <2>1. BindingKept(c)'
    BY <1>3, <1>4 DEF BindingKept
  <2>2. op # "updateKey" /\ op # "deleteKey" /\ op # "writeModel" /\ op # "changeModel"
    OBVIOUS
  <2> QED  BY <1>3, <2>1, <2>2 DEF CallKept, KeyUpdateKept, KeyDeleteKept, ModelWriteKept, ModelChangeKept, Writing
<1> QED  BY <1>3, <1>5, CheckKeepsRows

(* CreateSysAgent, reading half.                                           *)
LEMMA CreateAgentKeeps ==
  ASSUME BindInv, NEW c \in Call, NEW a \in Agent, NEW u \in User, NEW models \in BindRequest,
         CreateSysAgent(c, a, u, models)
  PROVE  BindInv'
<1>1. models \in Bound
  BY BindAssumption
<1> QED  BY <1>1, BindingChecked DEF CreateSysAgent

(* UpdateSysAgent, reading half.                                           *)
LEMMA UpdateAgentKeeps ==
  ASSUME BindInv, NEW c \in Call, NEW a \in Agent, NEW u \in User, NEW models \in BindRequest,
         UpdateSysAgent(c, a, u, models)
  PROVE  BindInv'
<1>1. models \in Bound
  BY BindAssumption
<1>2. CASE a \in SystemAgent
  BY <1>1, <1>2, BindingChecked DEF UpdateSysAgent
<1>3. CASE a \notin SystemAgent
  <2>1. PICK kept : kept = [models EXCEPT !["default"] = IF @ = Unset THEN bound[a][u]["default"] ELSE @]
    OBVIOUS
  <2>2. bound[a][u] \in Bound
    BY DEF BindInv, BindTypeOK
  <2>3. kept \in Bound
    BY <1>1, <2>1, <2>2 DEF Bound
  <2>4. ValidBinding(u, kept) /\ Checked(c, "writeModelColumn", u, a, kept)
    BY <1>3, <2>1 DEF UpdateSysAgent
  <2> QED  BY <2>3, <2>4, BindingChecked
<1> QED  BY <1>2, <1>3

(* What is bound of the models that were checked is settled where no write *)
(* has passed.                                                             *)
LEMMA BindMoves ==
  ASSUME BindInv, NEW c \in Call, Binding(c), NEW roles, roles \subseteq Role, Bind(c, roles)
  PROVE  /\ UNCHANGED <<key, model, raced>> /\ bound' \in [Agent -> [User -> Bound]]
         /\ settled' \subseteq Agent \X User \X Role
         /\ BoundKeyStands' /\ SettledKept' /\ \A m \in Model : SameModel(m)
<1>1. BindTypeOK /\ SettledKept /\ BindingKept(c)
  BY DEF BindInv, CallKept
<1>2. /\ call[c] # Unset /\ call[c].on \in Agent /\ call[c].by \in User /\ call[c].with \in Bound
  BY <1>1, CallTyped DEF Binding, Writing
<1>3. PICK a \in Agent : a = call[c].on
  BY <1>2
<1>4. PICK u \in User : u = call[c].by
  BY <1>2
<1>5. PICK models \in Bound : models = call[c].with
  BY <1>2
<1>6. PICK row : row = [r \in Role |-> IF r \in roles THEN models[r] ELSE bound[a][u][r]]
  OBVIOUS
<1>7. bound' = [bound EXCEPT ![a][u] = row]
  BY <1>3, <1>4, <1>5, <1>6 DEF Bind
<1>8. settled' = {s \in settled : ~(s[1] = a /\ s[2] = u /\ s[3] \in roles)}
                   \cup {<<a, u, r>> : r \in {q \in roles : models[q] \notin call[c].touched \cup {Unset}}}
  BY <1>3, <1>4, <1>5 DEF Bind
<1>9. row \in Bound
  <2>1. bound[a][u] \in Bound
    BY <1>1 DEF BindTypeOK
  <2> QED  BY <1>6, <2>1 DEF Bound
<1>10. /\ bound' \in [Agent -> [User -> Bound]]
       /\ \A b \in Agent, v \in User : bound'[b][v] = IF b = a /\ v = u THEN row ELSE bound[b][v]
  BY <1>1, <1>7, <1>9 DEF BindTypeOK
<1>11. settled' \subseteq Agent \X User \X Role
  BY <1>1, <1>8 DEF BindTypeOK
<1>12. UNCHANGED <<key, model, raced>>
  BY DEF Bind
<1>13. \A m, v, r : Suits(m, v, r)' <=> Suits(m, v, r)
  BY <1>12 DEF Suits, OwnModel, Fits
<1>14. ASSUME NEW s \in settled' PROVE Suits(bound[s[1]][s[2]][s[3]], s[2], s[3])'
  <2>1. PICK b \in Agent, v \in User, r \in Role : s = <<b, v, r>>
    BY <1>11
  <2>2. PICK m : m = bound'[b][v][r]
    OBVIOUS
  <2>3. Suits(m, v, r)
    <3>1. CASE s \in settled /\ ~(b = a /\ v = u /\ r \in roles)
      <4>1. m = bound[b][v][r]
        BY <1>6, <1>10, <2>2, <3>1
      <4> QED  BY <1>1, <2>1, <3>1, <4>1 DEF SettledKept
    <3>2. CASE b = a /\ v = u /\ r \in roles /\ models[r] \notin call[c].touched \cup {Unset}
      <4>1. m = models[r]
        BY <1>6, <1>10, <2>2, <3>2
      <4> QED  BY <1>1, <1>4, <1>5, <3>2, <4>1 DEF BindingKept
    <3> QED  BY <1>8, <2>1, <3>1, <3>2
  <2>4. Suits(m, v, r)'
    BY <1>13, <2>3
  <2> QED  BY <2>1, <2>2, <2>4
<1>15. SettledKept'
  BY <1>14 DEF SettledKept
<1>16. BoundKeyStands' /\ \A m \in Model : SameModel(m)
  BY <1>12 DEF BindInv, BoundKeyStands, OwnKey, SameModel
<1> QED  BY <1>10, <1>11, <1>12, <1>15, <1>16

(* What a call has checked is written: all columns, or those that bind no  *)
(* model.                                                                  *)
LEMMA WriteBindingKeeps ==
  ASSUME BindInv, NEW c \in Call, WriteBinding(c) \/ WriteOtherColumns(c) PROVE BindInv'
<1>1. BindTypeOK
  BY DEF BindInv
<1>2. Binding(c) /\ Written(c, {}) /\ \E roles \in SUBSET Role : Bind(c, roles)
  BY DEF WriteBinding, WriteOtherColumns, Binding
<1>3. /\ call' \in [Call -> BindCall \cup {Unset}] /\ calls' \in 0..MaxCalls
      /\ \A d \in Call : call'[d] = Unset \/ SameCall(d, {})
  BY <1>1, <1>2, WrittenMoves
<1>4. /\ UNCHANGED <<key, model, raced>> /\ bound' \in [Agent -> [User -> Bound]]
      /\ settled' \subseteq Agent \X User \X Role
      /\ BoundKeyStands' /\ SettledKept' /\ \A m \in Model : SameModel(m)
  BY <1>2, BindMoves
<1>5. agent' \in [Agent -> [state : State, owner : User \cup {Unset}, enabled : BOOLEAN]]
  <2>1. call[c].on \in Agent /\ call[c].by \in User
    BY <1>1, <1>2, CallTyped DEF Binding, Writing
  <2>2. CASE agent' = agent
    BY <1>1, <2>2 DEF BindTypeOK
  <2>3. CASE agent' = [agent EXCEPT ![call[c].on] = [state |-> "live", owner |-> call[c].by, enabled |-> TRUE]]
    BY <1>1, <2>1, <2>3 DEF BindTypeOK, State
  <2> QED  BY <2>2, <2>3 DEF WriteBinding, WriteOtherColumns
<1>6. BindTypeOK'
  BY <1>1, <1>3, <1>4, <1>5 DEF BindTypeOK
<1> QED  BY <1>3, <1>4, <1>6, StepKeeps DEF SameModel

(* The column of the default model is written on its own.                  *)
LEMMA WriteColumnKeeps == ASSUME BindInv, NEW c \in Call, WriteModelColumn(c) PROVE BindInv'
<1>1. BindTypeOK
  BY DEF BindInv
<1>2. Binding(c) /\ Bind(c, {"default"}) /\ {"default"} \subseteq Role
  BY BindAssumption DEF WriteModelColumn, Binding
<1>3. call[c] # Unset /\ call[c] \in BindCall /\ call[c].op = "writeModelColumn"
  BY <1>1, CallTyped DEF WriteModelColumn, Writing
<1>4. PICK new : new = [call[c] EXCEPT !.op = "writeOtherColumns"]
  OBVIOUS
<1>5. /\ new \in BindCall /\ new.op = "writeOtherColumns" /\ new.by = call[c].by /\ new.with = call[c].with
      /\ new.touched = call[c].touched /\ new # Unset
  <2>1. new \in BindCall /\ new.op = "writeOtherColumns" /\ new.by = call[c].by /\ new.with = call[c].with
        /\ new.touched = call[c].touched
    BY <1>3, <1>4 DEF BindCall, Pending
  <2> QED  BY <2>1, BindAssumption
<1>6. call' = [call EXCEPT ![c] = new] /\ agent' = agent /\ calls' = calls
  BY <1>4 DEF WriteModelColumn
<1>7. /\ call' \in [Call -> BindCall \cup {Unset}] /\ call'[c] = new
      /\ \A d \in Call \ {c} : call'[d] = call[d]
  BY <1>1, <1>5, <1>6 DEF BindTypeOK
<1>8. /\ UNCHANGED <<key, model, raced>> /\ bound' \in [Agent -> [User -> Bound]]
      /\ settled' \subseteq Agent \X User \X Role
      /\ BoundKeyStands' /\ SettledKept' /\ \A m \in Model : SameModel(m)
  BY <1>2, BindMoves
<1>9. BindTypeOK'
  BY <1>1, <1>6, <1>7, <1>8 DEF BindTypeOK
<1>10. CallKept(c)'
  <2>1. \A r \in Role : new.with[r] \notin new.touched \cup {Unset} => Suits(new.with[r], new.by, r)
    BY <1>2, <1>5 DEF BindInv, CallKept, BindingKept
  <2>2. \A m, v, r : Suits(m, v, r)' <=> Suits(m, v, r)
    BY <1>8 DEF Suits, OwnModel, Fits
  <2>3. BindingKept(c)'
    BY <1>7, <2>1, <2>2 DEF BindingKept
  <2> QED  BY <1>5, <1>7, <2>3 DEF CallKept, KeyUpdateKept, KeyDeleteKept, ModelWriteKept, ModelChangeKept, Writing
<1>11. \A d \in Call \ {c} : call'[d] = Unset \/ SameCall(d, {})
  BY <1>7 DEF SameCall
<1> QED  BY <1>8, <1>9, <1>10, <1>11, StepKeeps DEF SameModel

(* An agent that is deleted, enabled or disabled changes no binding of     *)
(* another.                                                                *)
LEMMA AgentRowKeeps ==
  ASSUME BindInv, NEW a \in Agent, NEW u \in User,
         DeleteSysAgent(a, u) \/ \E enabled \in BOOLEAN : UpdateSysAgentEnabled(a, u, enabled)
  PROVE  BindInv'
<1>1. BindTypeOK
  BY DEF BindInv
<1>2. AtOnce({}) /\ UNCHANGED <<key, model, bound, raced, settled>>
  BY DEF DeleteSysAgent, UpdateSysAgentEnabled
<1>3. /\ call' \in [Call -> BindCall \cup {Unset}] /\ calls' \in 0..MaxCalls
      /\ \A d \in Call : call'[d] = Unset \/ SameCall(d, {})
  BY <1>1, <1>2, AtOnceMoves
<1>4. agent' \in [Agent -> [state : State, owner : User \cup {Unset}, enabled : BOOLEAN]]
  <2>1. CASE DeleteSysAgent(a, u)
    <3>1. agent' = [agent EXCEPT ![a].state = "deleted"] /\ "deleted" \in State
      BY <2>1 DEF DeleteSysAgent, State
    <3> QED  BY <1>1, <3>1 DEF BindTypeOK
  <2>2. ASSUME NEW enabled \in BOOLEAN, UpdateSysAgentEnabled(a, u, enabled)
        PROVE  agent' \in [Agent -> [state : State, owner : User \cup {Unset}, enabled : BOOLEAN]]
    <3>1. agent' = [agent EXCEPT ![a].enabled = enabled]
      BY <2>2 DEF UpdateSysAgentEnabled
    <3> QED  BY <1>1, <3>1 DEF BindTypeOK
  <2> QED  BY <2>1, <2>2
<1>5. BindTypeOK'
  BY <1>1, <1>2, <1>3, <1>4 DEF BindTypeOK
<1>6. (\A m \in Model : SameModel(m)) /\ BoundKeyStands'
  BY <1>2 DEF SameModel, BindInv, BoundKeyStands, OwnKey
<1>7. SettledKept'
  BY <1>1, <1>2, <1>6, SettledSame DEF BindInv
<1> QED  BY <1>2, <1>3, <1>5, <1>6, <1>7, StepKeeps DEF SameModel

(* Every step keeps the invariant.                                         *)
LEMMA BindInvStep == ASSUME BindInv, [BindNext]_bindVars PROVE BindInv'
<1>1. CASE UNCHANGED bindVars
  <2>1. UNCHANGED <<key, model, agent, bound, raced, settled>> /\ call' = call /\ calls' = calls
    BY <1>1 DEF bindVars
  <2>2. BindTypeOK' /\ \A d \in Call : call'[d] = Unset \/ SameCall(d, {})
    BY <2>1 DEF BindInv, BindTypeOK, SameCall
  <2>3. (\A m \in Model : SameModel(m)) /\ BoundKeyStands'
    BY <2>1 DEF SameModel, BindInv, BoundKeyStands, OwnKey
  <2>4. SettledKept'
    BY <2>1, <2>3, SettledSame DEF BindInv
  <2> QED  BY <2>1, <2>2, <2>3, <2>4, StepKeeps DEF SameModel
<1> QED  BY <1>1, CreateKeyKeeps, UpdateKeyKeeps, WriteKeyKeeps, DeleteKeyKeeps, EraseKeyKeeps, CreateModelKeeps,
            UpdateModelKeeps, WriteModelKeeps, DeleteModelKeeps, SwitchesKeep, CreateAgentKeeps, UpdateAgentKeeps,
            WriteBindingKeeps, WriteColumnKeeps, AgentRowKeeps DEF BindNext

(* What a run does with a model follows from what was checked.             *)
LEMMA ModelResolves ==
  ASSUME BindInv, NEW m \in Model, NEW u \in User, NEW r, OwnModel(m, u), model[m].enabled, model[m].mode # "off",
         m \notin raced, model[m].key # Unset => key[model[m].key].enabled /\ key[model[m].key].secret,
         RuntimeFits(m, r)
  PROVE  Resolves(m, u, r)
<1>1. KeyStands(model[m]) /\ model[m].owner = u
  BY ModelsKeepKeys DEF BindInv, OwnModel
<1> QED  BY <1>1 DEF Resolves, StoredModelResolves, KeyStands

(* And it says what is promised of bindings.                               *)
LEMMA BindInvGives == ASSUME BindInv PROVE BindingsHold
<1>1. ASSUME NEW s \in settled, Switched(bound[s[1]][s[2]][s[3]]), ~OutputOnly(bound[s[1]][s[2]][s[3]], s[3])
      PROVE  Resolves(bound[s[1]][s[2]][s[3]], s[2], s[3])
  <2>1. PICK m : m = bound[s[1]][s[2]][s[3]]
    OBVIOUS
  <2>2. Suits(m, s[2], s[3])
    BY <1>1, <2>1 DEF BindInv, SettledKept
  <2>3. s[2] \in User
    BY <1>1 DEF BindInv, BindTypeOK
  <2>4. RuntimeFits(m, s[3])
    BY <1>1, <2>1, <2>2 DEF Suits, Fits, OutputOnly, RuntimeFits, Generates, TypeOf
  <2>5. Resolves(m, s[2], s[3])
    BY <1>1, <2>1, <2>2, <2>3, <2>4, ModelResolves DEF Suits, Switched
  <2> QED  BY <2>1, <2>5
<1>2. ASSUME NEW u \in User, NEW m \in UserModel(u), m \notin raced,
             model[m].key # Unset => key[model[m].key].enabled /\ key[model[m].key].secret
      PROVE  Resolves(m, u, "default")
  <2>1. m \in Model /\ OwnModel(m, u) /\ model[m].enabled /\ model[m].type = "llm" /\ model[m].mode # "off"
    BY DEF UserModel
  <2>2. RuntimeFits(m, "default")
    BY <2>1 DEF RuntimeFits, TypeOf
  <2> QED  BY <1>2, <2>1, <2>2, ModelResolves
<1>3. BindingRuns
  BY <1>1, <1>2 DEF BindingRuns
<1> QED  BY <1>3 DEF BindInv, BindingsHold

(* Keys, models, agents, bindings and calls keep their types               *)
(* (SysModelService, SysAgentService).                                     *)
THEOREM BindTypeCorrect == BindSpec => []BindTypeOK
<1>1. BindInv => BindTypeOK
  BY DEF BindInv
<1> QED  BY <1>1, BindInvInit, BindInvStep, PTL DEF BindSpec

(* A model's key stands, and a binding that was accepted runs, whatever    *)
(* calls come after; the exceptions are what two calls at once have        *)
(* written (validateModelKey, DeleteModelKey, UpdateModelKey,              *)
(* validateAgentModels, resolveModel).                                     *)
THEOREM BindingsAlwaysHold == BindSpec => []BindingsHold
BY BindInvInit, BindInvStep, BindInvGives, PTL DEF BindSpec

===============================================================================
