------------------------------- MODULE MCServices -------------------------------
(***************************************************************************)
(* Instances for TLC of the services that share no state with one another: *)
(* each behaviour is one of a single service, the others stand still.      *)
(***************************************************************************)
EXTENDS ScheduledTasks, MediaJobs, ModelTraining, LocalInstaller, ChatRecorder,
        ModelBinding, WorkspaceReads, Credentials, ServiceRestart, RunRequests, Accounts, Skills,
        AgentConfigs, VoiceAvatars, TLC

CONSTANTS
  i1, i2, i3,                \* installation jobs
  n1, n2,                    \* turns of a chat
  u1, k1, k2, m1, m2, a0,    \* a user, keys, models, an agent
  v1, v2, v3, v4,            \* avatars
  fa, fb,                    \* files
  self, twin, rt, other      \* programs

VARIABLE exercised

servicesVars == <<vars, mediaVars, trainingVars, installVars, turnVars, bindVars, readsVars,
                  credentialVars, restartVars, requestsVars, accountVars, skillVars, configVars, voiceVars, exercised>>

-------------------------------------------------------------------------------
(* One scheduled task, due in every second minute and in the 59th of three *)
(* hours, on a clock that goes from 10:59 to 11:00.                        *)
EverySecond ==
  [t \in Tasks |-> <<<<Every(2), Number(59)>>, <<Span(9, 10), Number(11)>>, <<Star>>, <<Star>>, <<Star>>>>]

FromTen(m) == <<(58 + m) % 60, IF m = 1 THEN 10 ELSE 11, 31, 7, 5>>

(* Two training jobs of one name.  Their data may be too little; its last  *)
(* line would be refused if it were looked at.                             *)
OneName(j) == "n"

FineTune(lines) ==
  [mode |-> "fine_tune", student |-> "ollama", teacher |-> "none", teacherIsStudent |-> FALSE,
   lines |-> lines, maxSamples |-> 2]

Requests ==
  {FineTune(<<{"prompt", "completion"}, {}>>),
   FineTune(<<{"prompt", "completion"}, {}, {"answered messages"}, {"prompt", "completion"},
              {"prompt"}>>)}

(* Two users want a Diffusers model, one of them a model of Ollama as well.*)
Installs(j) == IF j = i2 THEN "u2" ELSE "u1"
Wants(j) == IF j = i3 THEN "ollama" ELSE "diffusers"
Weights(m) == IF m = "diffusers" THEN {"base", "half"} ELSE {}
Machine == [ollama |-> FALSE, canInstallOllama |-> TRUE, platform |-> TRUE, python |-> TRUE,
            memory |-> 0, needs |-> 8]

(* A turn that is streamed, and one that is not: with counts per model and *)
(* without a prompt and an agent, or without a session.                    *)
Totals == [prompt |-> 1, completion |-> 1, total |-> 0, models |-> <<>>]
PerModel == [prompt |-> 0, completion |-> 0, total |-> 3,
             models |-> <<[prompt |-> 1, completion |-> 1, total |-> 0, requests |-> 0]>>]
Streamed == [prompt |-> TRUE, agent |-> TRUE, session |-> TRUE, streamed |-> TRUE, metadata |-> Totals]
Completed == [Streamed EXCEPT !.streamed = FALSE]

TurnKinds(n) ==
  IF n = n1 THEN {Streamed}
  ELSE {[Completed EXCEPT !.agent = FALSE, !.prompt = FALSE, !.metadata = PerModel],
        [Completed EXCEPT !.session = FALSE]}

(* A key with a secret and one without; a remote model, which puts out     *)
(* images, and a local one.                                                *)
KeyRows(k) == [state |-> "live", owner |-> u1, provider |-> IF k = k1 THEN "remote" ELSE "other",
               endpoint |-> "", secret |-> k = k1, enabled |-> TRUE]
ModelRows(m) ==
  IF m = m1
  THEN [state |-> "live", owner |-> u1, provider |-> "remote", endpoint |-> "public", key |-> Unset,
        type |-> "llm", can |-> {"image-output"}, category |-> "", enabled |-> TRUE, mode |-> "on_demand"]
  ELSE [state |-> "live", owner |-> u1, provider |-> "local", endpoint |-> "", key |-> Unset,
        type |-> "llm", can |-> {}, category |-> "default", enabled |-> TRUE, mode |-> "on_demand"]
KeyChanges == {[provider |-> "other", secret |-> FALSE, enabled |-> {}],
               [provider |-> "", secret |-> TRUE, enabled |-> {FALSE}]}
Unchanged == [keepKey |-> FALSE, provider |-> "", endpoint |-> "", type |-> "", can |-> {}]
ModelChanges == {Unchanged, [Unchanged EXCEPT !.keepKey = TRUE, !.provider = "other"],
                 [Unchanged EXCEPT !.provider = "remote", !.endpoint = "public", !.type = "image",
                                   !.can = {"text-to-image"}]}
Bindings == {[r \in Role |-> IF r = "default" THEN m1 ELSE Unset],
             [r \in Role |-> IF r = "default" THEN Unset ELSE m1],
             [r \in Role |-> IF r = "default" THEN m2 ELSE m1]}

(* Two files, one of them with two spellings, and a path that leads out.   *)
Spelt(p) == IF p = "b" THEN fb ELSE IF p = "out" THEN NoFile ELSE fa
ByLine(p, s, e, r) == [path |-> p, start |-> s, end |-> e, replace |-> r, find |-> <<>>, occurrence |-> 0]
ByText(p, find, o, r) == [path |-> p, start |-> 0, end |-> 0, replace |-> r, find |-> find, occurrence |-> o]
YX == <<"y", NL, "x", NL>>
X  == <<"x">>
Changes ==
  {<<ByLine("a", 1, 0, YX), ByLine("a", 3, 0, X)>>,
   <<ByLine("a", 1, 0, <<>>), ByLine("a", 2, 3, <<>>)>>,
   <<ByLine("a", 2, 0, YX), ByLine("a", 3, 0, X), ByLine("a", 1, 0, <<>>), ByLine("b", 1, 2, X)>>,
   <<ByLine("a", 1, 0, <<>>), ByLine("b", 1, 0, <<>>), ByLine("a", 2, 0, X)>>,
   <<ByText("a", <<"p">>, 0, <<>>)>>, <<ByText("a", <<"p">>, 2, <<>>), ByLine("a", 1, 0, YX)>>,
   <<ByLine("out", 1, 0, X)>>, <<ByLine("a", 1, 0, <<>>), ByLine("./a", 2, 0, <<>>)>>}
Saves == {<<"E", NL, "p", NL, "p">>, <<"q", NL, "P", NL>>, <<"q", "q", "q", "p", NL>>,
          <<"q", "p", NL, "p", "q", NL>>}

(* A capital, and a symbol that is longer in lower case.                   *)
Lower(text) ==
  FoldLeft(LAMBDA lower, symbol : lower \o (CASE symbol = "P" -> <<"p">>
                                              [] symbol = "E" -> <<"e", "e">>
                                              [] OTHER        -> <<symbol>>), <<>>, text)

(* One file is a manifest, another has a word of the queries in its path.  *)
(* The longest text is too large to be read, a line of another for the     *)
(* scanner, and that line for an excerpt.                                  *)
FilesByPath == <<fa, fb>>
WordsOf(f) == IF f = fa THEN {"q"} ELSE {}
Asked == {[words |-> <<"p">>, names |-> {}, limit |-> 0], [words |-> <<"x", "q">>, names |-> {}, limit |-> 1],
          [words |-> <<"x">>, names |-> {fb}, limit |-> 2]}
Held(d) == CASE d = "root" -> <<"a", "build", "link", "sub">>
             [] d = "sub" -> <<"b", "c">>
             [] d = "build" -> <<"d">>

(* Another copy of this program on its port; agent-runtime, with a program *)
(* on the second of its ports.                                             *)
Listens(p) == CASE p = rt -> 2 [] p = other -> 3 [] OTHER -> 1
Answers(p) == CASE p = rt -> "runtime" [] p = other -> "" [] OTHER -> "client"
PortsOf(target) == IF target = "client" THEN {1} ELSE {2, 3}
Confirmed == {{}, {other}}

(* A run that streams, with one agent or another, and may act; and one     *)
(* that does not.  A memory of another user's, and one of the agent's.     *)
NoParts == [p \in Part |-> "none"]
AgentA == [live |-> TRUE, enabled |-> TRUE, system |-> FALSE, owner |-> "me", prompt |-> TRUE,
             context |-> {"note", "instruction"}, parts |-> [p \in Part |-> "agent"],
             models |-> {"default", "image"}, configured |-> {"rewrite", "video"},
             binding |-> {"unbound"}]
PlainAsk == [kind |-> "run", context |-> {}, parts |-> NoParts, models |-> {}, history |-> 0,
             agent |-> "", reachable |-> TRUE, sees |-> FALSE]
FullAsk == [kind |-> "runStream", context |-> PromptKey \cup {"user_id", "note", "desktop_bridge"},
            parts |-> [NoParts EXCEPT !["capabilities"] = "unnamed", !["files"] = "client"],
            models |-> {"default", "image"}, history |-> 1, agent |-> "a", reachable |-> FALSE, sees |-> TRUE]
AsksOf(r) ==
  IF r = "first"
  THEN {[ask |-> FullAsk, row |-> AgentA],
        [ask |-> [FullAsk EXCEPT !.kind = "agentStream"],
         row |-> [AgentA EXCEPT !.system = TRUE, !.binding = {"default"}]],
        [ask |-> [PlainAsk EXCEPT !.context = {"system_prompt"}, !.models = {"image"}], row |-> Nobody],
        [ask |-> FullAsk, row |-> [AgentA EXCEPT !.owner = "another"]]}
  ELSE {[ask |-> [PlainAsk EXCEPT !.agent = "a"],
         row |-> [AgentA EXCEPT !.models = {"image"}, !.prompt = FALSE]],
        [ask |-> [PlainAsk EXCEPT !.kind = "agent"], row |-> Nobody]}
Shots == {{}, {"image", "spoilt"}}
MemoryRows(m) ==
  CASE m = 1 -> [state |-> "live", user |-> "another", agent |-> "a", importance |-> 2, at |-> 0, from |-> Nobody]
    [] m = 2 -> [state |-> "live", user |-> "me", agent |-> "a", importance |-> 2, at |-> 1, from |-> Nobody]
    [] OTHER -> Nobody
Leavings == {<<[blank |-> FALSE, importance |-> 0], [blank |-> FALSE, importance |-> 2]>>,
             <<[blank |-> TRUE, importance |-> 1], [blank |-> FALSE, importance |-> 1]>>}

(* Packages of one directory: one whole, one without a SKILL.md, and one  *)
(* with an entry that leads out of it.                                     *)
Packed(p) ==
  [dir |-> "d",
   says |-> IF p = "bad" THEN "t" ELSE "s",
   entries |-> CASE p = "whole" -> <<"script", "SKILL.md">>
                 [] p = "bare"  -> <<"script">>
                 [] p = "bad"   -> <<"SKILL.md", "outside">>]

(* One avatar more than a user may have, one of them a video that is known *)
(* by its declared type only; and an image that is too large.              *)
Portraits(p) ==
  CASE p = v1 -> [sniffed |-> "image", declared |-> "image", size |-> 1, sound |-> TRUE]
    [] p = v2 -> [sniffed |-> "unknown", declared |-> "video", size |-> 3, sound |-> TRUE]
    [] p = v3 -> [sniffed |-> "image", declared |-> "image", size |-> 1, sound |-> TRUE]
    [] OTHER -> [sniffed |-> "image", declared |-> "image", size |-> 2, sound |-> TRUE]

(* Items with an id, and one without.                                      *)
IdsOf(item) == IF item = "plain" THEN "none" ELSE item

-------------------------------------------------------------------------------
ServicesInit ==
  /\ Init /\ MediaInit /\ TrainingInit /\ InstallInit /\ TurnInit /\ BindInit /\ ReadsInit
  /\ CredentialInit /\ RestartInit /\ RequestsInit /\ AccountInit
  /\ SkillInit /\ ConfigInit /\ VoiceInit
  /\ exercised \in {"schedule", "media", "training", "install", "chat", "models",
                    "workspace", "reads", "credentials", "restart", "requests", "accounts", "skills", "configs", "voices"}
  /\ exercised # "training" => \A j \in Training : Len(trainingRequest[j].lines) > 2
  /\ exercised \notin {"workspace", "reads"} => \A f \in File : Len(disk[f]) = 4

ServicesNext ==
  \/ /\ exercised = "schedule" /\ Next
     /\ UNCHANGED <<mediaVars, trainingVars, installVars, turnVars, bindVars, readsVars,
                    credentialVars, restartVars, requestsVars, accountVars, skillVars, configVars, voiceVars, exercised>>
  \/ /\ exercised = "media" /\ MediaNext
     /\ UNCHANGED <<vars, trainingVars, installVars, turnVars, bindVars, readsVars,
                    credentialVars, restartVars, requestsVars, accountVars, skillVars, configVars, voiceVars, exercised>>
  \/ /\ exercised = "training" /\ TrainingNext
     /\ UNCHANGED <<vars, mediaVars, installVars, turnVars, bindVars, readsVars,
                    credentialVars, restartVars, requestsVars, accountVars, skillVars, configVars, voiceVars, exercised>>
  \/ /\ exercised = "install" /\ InstallNext
     /\ UNCHANGED <<vars, mediaVars, trainingVars, turnVars, bindVars, readsVars,
                    credentialVars, restartVars, requestsVars, accountVars, skillVars, configVars, voiceVars, exercised>>
  \/ /\ exercised = "chat" /\ TurnNext
     /\ UNCHANGED <<vars, mediaVars, trainingVars, installVars, bindVars, readsVars,
                    credentialVars, restartVars, requestsVars, accountVars, skillVars, configVars, voiceVars, exercised>>
  \/ /\ exercised = "models" /\ BindNext
     /\ UNCHANGED <<vars, mediaVars, trainingVars, installVars, turnVars, readsVars,
                    credentialVars, restartVars, requestsVars, accountVars, skillVars, configVars, voiceVars, exercised>>
  \/ /\ exercised = "workspace" /\ WorkNext /\ UNCHANGED reading
     /\ UNCHANGED <<vars, mediaVars, trainingVars, installVars, turnVars, bindVars,
                    credentialVars, restartVars, requestsVars, accountVars, skillVars, configVars, voiceVars, exercised>>
  \/ /\ exercised = "reads" /\ ReadsNext
     /\ UNCHANGED <<vars, mediaVars, trainingVars, installVars, turnVars, bindVars,
                    credentialVars, restartVars, requestsVars, accountVars, skillVars, configVars, voiceVars, exercised>>
  \/ /\ exercised = "credentials" /\ CredentialNext
     /\ UNCHANGED <<vars, mediaVars, trainingVars, installVars, turnVars, bindVars, readsVars,
                    restartVars, requestsVars, accountVars, skillVars, configVars, voiceVars, exercised>>
  \/ /\ exercised = "restart" /\ RestartNext
     /\ UNCHANGED <<vars, mediaVars, trainingVars, installVars, turnVars, bindVars, readsVars,
                    credentialVars, requestsVars, accountVars, skillVars, configVars, voiceVars, exercised>>
  \/ /\ exercised = "requests" /\ RequestsNext
     /\ UNCHANGED <<vars, mediaVars, trainingVars, installVars, turnVars, bindVars, readsVars,
                    credentialVars, restartVars, accountVars, skillVars, configVars, voiceVars, exercised>>
  \/ /\ exercised = "accounts" /\ AccountNext
     /\ UNCHANGED <<vars, mediaVars, trainingVars, installVars, turnVars, bindVars, readsVars,
                    credentialVars, restartVars, requestsVars, skillVars, configVars, voiceVars, exercised>>
  \/ /\ exercised = "skills" /\ SkillNext
     /\ UNCHANGED <<vars, mediaVars, trainingVars, installVars, turnVars, bindVars, readsVars,
                    credentialVars, restartVars, requestsVars, accountVars, configVars, voiceVars, exercised>>
  \/ /\ exercised = "configs" /\ ConfigNext
     /\ UNCHANGED <<vars, mediaVars, trainingVars, installVars, turnVars, bindVars, readsVars,
                    credentialVars, restartVars, requestsVars, accountVars, skillVars, voiceVars, exercised>>
  \/ /\ exercised = "voices" /\ VoiceNext
     /\ UNCHANGED <<vars, mediaVars, trainingVars, installVars, turnVars, bindVars, readsVars,
                    credentialVars, restartVars, requestsVars, accountVars, skillVars, configVars, exercised>>

ServicesSpec == ServicesInit /\ [][ServicesNext]_servicesVars

(* Where RunsOnceReviewed has nothing more to say, for good, once the store *)
(* has failed and a second scanner was at work, nor AvatarsListed once two *)
(* handlers were.                                                          *)
StillPromised == (faults = 0 \/ ~shared) /\ ~doubled

(* Bounds: a failing statement of training and a restart are explored      *)
(* apart, and so are one of accounts and an avatar that was not the user's.*)
OneTrouble == /\ trainingFaults = 0 \/ trainingRestarts = 0
              /\ memberFaults = 0 \/ lent = {}

(* Behaviours are not followed any further where this does not hold.       *)
Followed == StillPromised /\ OneTrouble

(* The types of the service at work; the others keep their first values.   *)
ServicesTypeOK ==
  CASE exercised = "schedule"    -> TypeOK
    [] exercised = "media"       -> MediaTypeOK
    [] exercised = "training"    -> TrainingTypeOK
    [] exercised = "install"     -> InstallTypeOK
    [] exercised = "chat"        -> TurnTypeOK
    [] exercised = "models"      -> BindTypeOK
    [] exercised = "workspace"   -> WorkTypeOK
    [] exercised = "reads"       -> ReadsTypeOK
    [] exercised = "credentials" -> CredentialTypeOK
    [] exercised = "restart"     -> RestartTypeOK
    [] exercised = "requests"    -> RequestsTypeOK
    [] exercised = "accounts"    -> AccountTypeOK
    [] exercised = "skills"      -> SkillTypeOK
    [] exercised = "configs"     -> ConfigTypeOK
    [] exercised = "voices"      -> VoiceTypeOK

(* The two callers or jobs of a service are the same two values in each.   *)
Symmetric == Permutations(Call)
===============================================================================
