----------------------------- MODULE ModelBinding ------------------------------
(***************************************************************************)
(* Keys, models, agents, and what a run makes of them                      *)
(* (SysModelService, SysAgentService, RuntimeService's hydration).         *)
(*                                                                         *)
(* A model refers to a key, and an agent, or a user's binding of a system  *)
(* agent, refers to a model for each role.  No constraint of the database  *)
(* holds these references: every call reads, checks, and then writes, and  *)
(* two calls may overlap.  A step is the reading half or the writing half  *)
(* of a call; "touched" holds the rows written under a call in between.    *)
(*                                                                         *)
(* A name, a description and a configuration are left out, and so are the  *)
(* further roles a configuration may name; a base URL is private, public   *)
(* or empty.  A failed check or statement is a call that never writes.     *)
(***************************************************************************)
EXTENDS Naturals, Sequences

CONSTANTS
  User, Key, Model, Agent, SystemAgent,
  Role,               \* of "default", "embedding", "image", "video"
  Unset,               \* an empty reference
  KeyForm(_),         \* the row a key is created with
  ModelForm(_),       \* the row a model is created with
  KeyChange, ModelChange,  \* what updates may ask for
  BindRequest,        \* the models an agent's requests may name
  Call, MaxCalls      \* the calls under way at a time, and their number

VARIABLES
  key, model,     \* tables sys_model_key and sys_model
  agent,          \* table sys_agent
  bound,          \* the models of an agent's row, or of a user's binding
  call,           \* the calls that have checked and not yet written
  calls,          \* what the bound counts
  raced,          \* ghost: models that overlapping calls may have left inconsistent
  settled         \* ghost: bindings whose model no write has passed since its check

bindVars == <<key, model, agent, bound, call, calls, raced, settled>>

State == {"none", "live", "deleted"}
Provider == {"local", "remote", "other"}
Endpoint == {"", "private", "public"}
ModelType == {"llm", "embedding", "image", "video"}
Capability == {"text-to-image", "image-output", "text-to-video", "video-output"}

KeyRow ==
  [state : State, owner : User, provider : Provider, endpoint : Endpoint,
   secret : BOOLEAN, enabled : BOOLEAN]
ModelRow ==
  [state : State, owner : User, provider : Provider, endpoint : Endpoint, key : Key \cup {Unset},
   type : ModelType, can : SUBSET Capability, category : {"default", ""}, enabled : BOOLEAN,
   mode : {"always_on", "on_demand", "off"}]
Bound == [Role -> Model \cup {Unset}]

(* What an update of a key, and one of a model, may say; "" and {} leave   *)
(* what there is.                                                          *)
KeyUpdate == [provider : Provider \cup {""}, secret : BOOLEAN, enabled : SUBSET BOOLEAN]
ModelUpdate ==
  [keepKey : BOOLEAN, provider : Provider \cup {""}, endpoint : Endpoint,
   type : ModelType \cup {""}, can : SUBSET Capability]

(* A call that has checked: what it is about to write, and on which row.   *)
Pending(ops, rows, what) == [op : ops, by : User, on : rows, with : what, touched : SUBSET (Key \cup Model)]
BindCall ==
  Pending({"updateKey"}, Key, KeyUpdate) \cup Pending({"deleteKey"}, Key, {Unset})
    \cup Pending({"writeModel"}, Model, ModelRow)
    \cup Pending({"changeModel"}, Model, [key : Key \cup {Unset}, form : ModelUpdate])
    \cup Pending({"writeBinding", "writeModelColumn", "writeOtherColumns"}, Agent, Bound)

ASSUME BindAssumption ==
  /\ Unset \notin Key \cup Model \cup BindCall
  /\ \A k \in Key : KeyForm(k) \in KeyRow
  /\ \A m \in Model : ModelForm(m) \in ModelRow
  /\ KeyChange \subseteq KeyUpdate /\ ModelChange \subseteq ModelUpdate /\ BindRequest \subseteq Bound
  /\ "default" \in Role /\ MaxCalls \in Nat

BindTypeOK ==
  /\ key \in [Key -> KeyRow]
  /\ model \in [Model -> ModelRow]
  /\ agent \in [Agent -> [state : State, owner : User \cup {Unset}, enabled : BOOLEAN]]
  /\ bound \in [Agent -> [User -> Bound]]
  /\ call \in [Call -> BindCall \cup {Unset}] /\ calls \in 0..MaxCalls
  /\ raced \subseteq Model
  /\ settled \subseteq Agent \X User \X Role

Unbound == [r \in Role |-> Unset]

BindInit ==
  /\ key = [k \in Key |-> [KeyForm(k) EXCEPT !.state = "none"]]
  /\ model = [m \in Model |-> [ModelForm(m) EXCEPT !.state = "none"]]
  /\ agent = [a \in Agent |-> [state |-> IF a \in SystemAgent THEN "live" ELSE "none",
                               owner |-> Unset, enabled |-> TRUE]]
  /\ bound = [a \in Agent |-> [u \in User |-> Unbound]]
  /\ call = [c \in Call |-> Unset] /\ calls = 0
  /\ raced = {} /\ settled = {}

-------------------------------------------------------------------------------
(* The two halves of a call.                                               *)
Checked(c, op, by, on, with) ==
  /\ calls < MaxCalls /\ calls' = calls + 1
  /\ call[c] = Unset
  /\ call' = [call EXCEPT ![c] = [op |-> op, by |-> by, on |-> on, with |-> with, touched |-> {}]]
  /\ UNCHANGED <<key, model, agent, bound, raced, settled>>

Touch(rows) == [c \in Call |-> IF call[c] = Unset THEN Unset
                               ELSE [call[c] EXCEPT !.touched = @ \cup rows]]

Writing(c, op) == call[c] # Unset /\ call[c].op = op

Written(c, rows) == call' = [Touch(rows) EXCEPT ![c] = Unset] /\ UNCHANGED calls

(* A call whose write overlaps no other that matters is one step.          *)
AtOnce(rows) == calls < MaxCalls /\ calls' = calls + 1 /\ call' = Touch(rows)

Keep(new, old) == IF new = "" THEN old ELSE new

RequiresAPIKey(provider, endpoint) == provider # "local" /\ endpoint # "private"

-------------------------------------------------------------------------------
(* Keys.                                                                   *)
UsersOf(k, u) == {m \in Model : model[m].state = "live" /\ model[m].key = k /\ model[m].owner = u}

OwnKey(k, u) == key[k].state = "live" /\ key[k].owner = u

CreateModelKey(k) ==
  /\ key[k].state = "none"
  /\ AtOnce({k})
  /\ key' = [key EXCEPT ![k] = [KeyForm(k) EXCEPT !.state = "live", !.enabled = TRUE]]
  /\ UNCHANGED <<model, agent, bound, raced, settled>>

(* A key in use keeps its provider.                                        *)
UpdateModelKey(c, k, u, change) ==
  /\ OwnKey(k, u)
  /\ change.provider \in {"", key[k].provider} \/ UsersOf(k, u) = {}
  /\ Checked(c, "updateKey", u, k,
             [change EXCEPT !.enabled = IF @ = {} THEN {key[k].enabled} ELSE @])

WriteModelKey(c) ==
  LET k == call[c].on
      change == call[c].with
      new == Keep(change.provider, key[k].provider)
  IN  /\ Writing(c, "updateKey")
      /\ Written(c, {k})
      /\ IF OwnKey(k, call[c].by)
         THEN /\ key' = [key EXCEPT ![k].provider = new, ![k].secret = @ \/ change.secret,
                                    ![k].enabled = change.enabled = {TRUE}]
              /\ raced' = IF new = key[k].provider THEN raced
                          ELSE raced \cup {m \in UsersOf(k, call[c].by) :
                                             {m, k} \cap call[c].touched # {}}
         ELSE UNCHANGED <<key, raced>>
      /\ UNCHANGED <<model, agent, bound, settled>>

DeleteModelKey(c, k, u) ==
  /\ OwnKey(k, u)
  /\ UsersOf(k, u) = {}
  /\ Checked(c, "deleteKey", u, k, Unset)

EraseModelKey(c) ==
  LET k == call[c].on IN
  /\ Writing(c, "deleteKey")
  /\ Written(c, {k})
  /\ IF OwnKey(k, call[c].by)
     THEN /\ key' = [key EXCEPT ![k].state = "deleted", ![k].enabled = FALSE]
          /\ raced' = raced \cup (UsersOf(k, call[c].by) \cap call[c].touched)
     ELSE UNCHANGED <<key, raced>>
  /\ UNCHANGED <<model, agent, bound, settled>>

-------------------------------------------------------------------------------
(* Models.                                                                 *)
ValidModelKey(k, u, provider, endpoint) ==
  IF k = Unset THEN ~RequiresAPIKey(provider, endpoint)
  ELSE OwnKey(k, u) /\ key[k].enabled /\ key[k].provider = provider

OwnModel(m, u) == model[m].state = "live" /\ model[m].owner = u

Unsettle(m) == {s \in settled : bound[s[1]][s[2]][s[3]] # m}

CreateSysModel(c, m, k) ==
  LET form == ModelForm(m) IN
  /\ model[m].state = "none"
  /\ \A d \in Call : call[d] # Unset => call[d].on # m
  /\ ValidModelKey(k, form.owner, form.provider, form.endpoint)
  /\ Checked(c, "writeModel", form.owner, m,
             [form EXCEPT !.state = "live", !.key = k, !.enabled = TRUE, !.mode = "on_demand"])

(* Faulty variant: the key is compared with the provider asked for.        *)
UpdateSysModelAsAsked(c, m, u, change, k) ==
  /\ OwnModel(m, u)
  /\ LET used == IF change.keepKey THEN model[m].key ELSE k
     IN  /\ change.provider = "" \/ ValidModelKey(used, u, change.provider, change.endpoint)
         /\ Checked(c, "changeModel", u, m, [key |-> used, form |-> change])

(* What an update leaves out stays, and is checked with what it changes.   *)
UpdateSysModel(c, m, u, change, k) ==
  /\ OwnModel(m, u)
  /\ LET used == IF change.keepKey THEN model[m].key ELSE k
     IN  /\ ValidModelKey(used, u, Keep(change.provider, model[m].provider),
                                   Keep(change.endpoint, model[m].endpoint))
         /\ Checked(c, "changeModel", u, m, [key |-> used, form |-> change])

WrittenModel(c, m, row) ==
  /\ Written(c, {m})
  /\ model' = [model EXCEPT ![m] = row]
  /\ raced' = IF call[c].touched \cap {m, row.key} = {} THEN raced \ {m} ELSE raced \cup {m}
  /\ settled' = Unsettle(m)
  /\ UNCHANGED <<key, agent, bound>>

WriteModel(c) ==
  \/ Writing(c, "writeModel") /\ WrittenModel(c, call[c].on, call[c].with)
  \/ LET m == call[c].on
         form == call[c].with.form
     IN  /\ Writing(c, "changeModel")
         /\ WrittenModel(c, m, [model[m] EXCEPT !.key = call[c].with.key,
                                  !.provider = Keep(form.provider, @),
                                  !.endpoint = Keep(form.endpoint, @),
                                  !.type = Keep(form.type, @),
                                  !.can = IF form.can = {} THEN @ ELSE form.can])

DeleteSysModel(m, u) ==
  /\ OwnModel(m, u)
  /\ AtOnce({m})
  /\ model' = [model EXCEPT ![m].state = "deleted"]
  /\ settled' = Unsettle(m)
  /\ UNCHANGED <<key, agent, bound, raced>>

(* The administrator's two switches; the second is for local models only.  *)
UpdateSysModelEnabled(m, enabled) ==
  /\ model[m].state = "live"
  /\ AtOnce({})
  /\ model' = [model EXCEPT ![m].enabled = enabled]
  /\ UNCHANGED <<key, agent, bound, raced, settled>>

UpdateSysModelRuntimeMode(m, mode) ==
  /\ model[m].state = "live" /\ model[m].provider = "local"
  /\ AtOnce({})
  /\ model' = [model EXCEPT ![m].mode = mode]
  /\ UNCHANGED <<key, agent, bound, raced, settled>>

-------------------------------------------------------------------------------
(* Agents.                                                                 *)
TypeOf(role) == IF role = "default" THEN "llm" ELSE role

(* Faulty variant: any model of the user's will do.                        *)
FitsAny(m, role) == TRUE

(* What a role may be given: a model of its type, or a media model.        *)
Fits(m, role) ==
  \/ model[m].type = TypeOf(role)
  \/ role = "image" /\ model[m].can \cap {"text-to-image", "image-output"} # {}
  \/ role = "video" /\ model[m].can \cap {"text-to-video", "video-output"} # {}

ValidBinding(u, models) ==
  /\ models["default"] # Unset
  /\ \A r \in Role : models[r] # Unset => OwnModel(models[r], u) /\ Fits(models[r], r)

OwnAgent(a, u) == agent[a].state = "live" /\ agent[a].owner = u

CreateSysAgent(c, a, u, models) ==
  /\ agent[a].state = "none"
  /\ \A d \in Call : call[d] # Unset => call[d].on # a
  /\ ValidBinding(u, models)
  /\ Checked(c, "writeBinding", u, a, models)

(* An update of a system agent is the user's own binding of it; that of an *)
(* agent of theirs keeps its model when it names none.                     *)
UpdateSysAgent(c, a, u, models) ==
  /\ agent[a].state = "live"
  /\ \/ a \in SystemAgent /\ ValidBinding(u, models) /\ Checked(c, "writeBinding", u, a, models)
     \/ /\ a \notin SystemAgent /\ agent[a].owner = u
        /\ LET kept == [models EXCEPT !["default"] = IF @ = Unset THEN bound[a][u]["default"] ELSE @]
           IN  ValidBinding(u, kept) /\ Checked(c, "writeModelColumn", u, a, kept)

(* The roles a statement writes, of the models that were checked.          *)
Bind(c, roles) ==
  LET a == call[c].on
      u == call[c].by
      models == call[c].with
  IN  /\ bound' = [bound EXCEPT ![a][u] = [r \in Role |-> IF r \in roles THEN models[r] ELSE bound[a][u][r]]]
      /\ settled' = {s \in settled : ~(s[1] = a /\ s[2] = u /\ s[3] \in roles)}
                      \cup {<<a, u, r>> : r \in {q \in roles : models[q] \notin call[c].touched \cup {Unset}}}
      /\ UNCHANGED <<key, model, raced>>

WriteBinding(c) ==
  /\ Writing(c, "writeBinding")
  /\ Bind(c, Role)
  /\ Written(c, {})
  /\ agent' = IF call[c].on \in SystemAgent THEN agent
              ELSE [agent EXCEPT ![call[c].on] =
                      [state |-> "live", owner |-> call[c].by, enabled |-> TRUE]]

(* The row of an agent is updated in two statements.                       *)
WriteModelColumn(c) ==
  /\ Writing(c, "writeModelColumn")
  /\ Bind(c, {"default"})
  /\ call' = [call EXCEPT ![c].op = "writeOtherColumns"]
  /\ UNCHANGED <<agent, calls>>

WriteOtherColumns(c) ==
  /\ Writing(c, "writeOtherColumns")
  /\ Bind(c, Role \ {"default"})
  /\ Written(c, {})
  /\ UNCHANGED agent

DeleteSysAgent(a, u) ==
  /\ OwnAgent(a, u)
  /\ AtOnce({})
  /\ agent' = [agent EXCEPT ![a].state = "deleted"]
  /\ UNCHANGED <<key, model, bound, raced, settled>>

UpdateSysAgentEnabled(a, u, enabled) ==
  /\ OwnAgent(a, u)
  /\ AtOnce({})
  /\ agent' = [agent EXCEPT ![a].enabled = enabled]
  /\ UNCHANGED <<key, model, bound, raced, settled>>

BindNext ==
  \/ \E k \in Key : CreateModelKey(k)
  \/ \E c \in Call :
       \/ \E u \in User, k \in Key :
            DeleteModelKey(c, k, u) \/ \E change \in KeyChange : UpdateModelKey(c, k, u, change)
       \/ \E m \in Model, k \in Key \cup {Unset} :
            \/ CreateSysModel(c, m, k)
            \/ \E u \in User, change \in ModelChange : UpdateSysModel(c, m, u, change, k)
       \/ \E a \in Agent, u \in User, models \in BindRequest :
            CreateSysAgent(c, a, u, models) \/ UpdateSysAgent(c, a, u, models)
       \/ WriteModelKey(c) \/ EraseModelKey(c) \/ WriteModel(c)
       \/ WriteBinding(c) \/ WriteModelColumn(c) \/ WriteOtherColumns(c)
  \/ \E m \in Model :
       \/ \E u \in User : DeleteSysModel(m, u)
       \/ \E enabled \in BOOLEAN : UpdateSysModelEnabled(m, enabled)
       \/ \E mode \in {"always_on", "on_demand", "off"} : UpdateSysModelRuntimeMode(m, mode)
  \/ \E a \in Agent, u \in User :
       DeleteSysAgent(a, u) \/ \E enabled \in BOOLEAN : UpdateSysAgentEnabled(a, u, enabled)

BindSpec == BindInit /\ [][BindNext]_bindVars

-------------------------------------------------------------------------------
(* What a run makes of a model.                                            *)

(* supportsMediaCapability: a model that names no capability generates.    *)
Generates(m, mediaType) ==
  mediaType \in {"image", "video"} /\ (model[m].can = {} \/ "text-to-" \o mediaType \in model[m].can)

RuntimeFits(m, role) == model[m].type = TypeOf(role) \/ Generates(m, role)

(* resolveStoredModel: the model's own base URL, or the key's.             *)
StoredModelResolves(m, u) ==
  LET k == model[m].key IN
  /\ model[m].mode # "off"
  /\ IF k = Unset THEN ~RequiresAPIKey(model[m].provider, model[m].endpoint)
     ELSE /\ OwnKey(k, u) /\ key[k].enabled
          /\ key[k].secret
             \/ ~RequiresAPIKey(model[m].provider, Keep(model[m].endpoint, key[k].endpoint))

(* resolveModel, for a model named by its id.                              *)
Resolves(m, u, role) ==
  OwnModel(m, u) /\ model[m].enabled /\ RuntimeFits(m, role) /\ StoredModelResolves(m, u)

(* ensureUserModel: what a run without a model of its own may be given.    *)
UserModel(u) ==
  LET usable == {m \in Model : OwnModel(m, u) /\ model[m].enabled /\ model[m].type = "llm"
                                              /\ model[m].mode # "off"}
      favourite == {m \in usable : model[m].category = "default"}
  IN  IF favourite = {} THEN usable ELSE favourite

-------------------------------------------------------------------------------
(* Properties.                                                             *)

(* A model's reference to its key stands, whatever is created, changed and *)
(* deleted around it, unless two calls have overlapped: the key is there,  *)
(* it is of the model's owner and provider, and only a model that needs no *)
(* key has none (validateModelKey, and the counts of DeleteModelKey and    *)
(* UpdateModelKey).                                                        *)
BoundKeyStands ==
  \A m \in Model : (model[m].state = "live" /\ m \notin raced) =>
    IF model[m].key = Unset THEN ~RequiresAPIKey(model[m].provider, model[m].endpoint)
    ELSE OwnKey(model[m].key, model[m].owner) /\ key[model[m].key].provider = model[m].provider

(* A binding that was accepted runs: as long as its model is not written   *)
(* again, a run finds it to be the user's, of a fitting kind, and with its *)
(* key, provided that the model is switched on and its key still enabled   *)
(* and filled in; and so does a model chosen for a run without one.  The   *)
(* one exception is a media role held by a model that can only be said to  *)
(* put out its media, which an agent may be given and no run accepts.      *)
Switched(m) ==
  /\ model[m].enabled /\ model[m].mode # "off" /\ m \notin raced
  /\ model[m].key # Unset => key[model[m].key].enabled /\ key[model[m].key].secret

OutputOnly(m, role) ==
  /\ role \in {"image", "video"} /\ model[m].type # role
  /\ model[m].can # {} /\ "text-to-" \o role \notin model[m].can

BindingRuns ==
  /\ \A s \in settled :
       LET m == bound[s[1]][s[2]][s[3]]
       IN  Switched(m) /\ ~OutputOnly(m, s[3]) => Resolves(m, s[2], s[3])
  /\ \A u \in User : \A m \in UserModel(u) :
       (m \notin raced /\ (model[m].key # Unset => key[model[m].key].enabled /\ key[model[m].key].secret))
         => Resolves(m, u, "default")

(* What was bound stays good: a model's key, and an agent's models (the    *)
(* validation of both, and the counts that guard their deletion).          *)
BindingsHold == BoundKeyStands /\ BindingRuns
===============================================================================
