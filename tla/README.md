# Verification of agent-runtime-client

agent-runtime-client is the Go service between a browser and agent-runtime: it
streams runs to the browser, owns the control plane that lets an agent act on a
user's desktop device, runs scheduled tasks, and keeps users, models, agents and
files in a database. This directory holds TLA+ models of its concurrent parts,
TLC configurations that check them on small instances, and TLAPS proofs of the
properties that matter most.

    tlc -config MCControlHub_dispatch.cfg MCControlHub     # a run
    tlapm DeviceRegistryProofs.tla                         # the proofs

`PROJECT.json` lists the runs, the source lines of every definition, the hazards,
the findings, and, for every property, a faulty variant of the code that violates it.

## 1. The system

### Parts, state and operations

| Part | Source | State | Operations |
|---|---|---|---|
| Control hub | `application/service/control/hub.go`, `infra/repository/repo/control/store.go`, `api/http/handler/control` | in memory: task sessions, pending actions, completed observations; tables `agent_control_task`, `_action`, `_observation` | BeginTask, Dispatch, Observe, Progress, SetTaskStatus, CancelByConversation |
| Device registry | the same files | Hub.devices, sockets; table `agent_control_device` | Register, Unregister, Touch, BindDevice, ResolveDevice, MarkAllDevicesOffline |
| Streaming run | `api/http/handler/runtime/run_handler.go`, `application/service/runtime/service.go`, `infra/runtime/gateway.go`, `mapping_stream.go` | per request: event channel, result channel, task context; the loop's locals | stream, runControlLoop / runAgentControlLoop, runControlStep, dispatchControlAction |
| Requests of a run, memory | `application/service/runtime/service.go`, `infra/runtime/mapping_request.go`, `application/service/memory` | the request a run sends step by step; table of memories | Run, RunStream, RunAgent, RunAgentStream, hydration, StoreExtracted |
| Scheduled tasks, cron | `application/service/scheduledtask` | tables `scheduled_task`, `job_execution`, `chat_approval`; a semaphore | Create, Update, Delete, DecideApproval, tick, execute, cronMatches |
| Media jobs | `application/service/runtime/service.go`, `media_job_repo.go` | table of jobs, one goroutine each | create, run, delete, FailInterruptedMediaJobs |
| Model training | `api/http/handler/public/model/training.go` | table of jobs, map of cancel functions, directories | create, run, cancel, recovery at start |
| Local model installer | `api/http/handler/public/model/local_installer.go` | map of jobs, lock per model, files | start, run, ensure the runtime, download |
| Chat recorder | `application/service/runtime/chat_recorder.go` | capture of one stream; chat tables | Wrap, recordStream, recordCompletion |
| Workspace | `api/http/handler/public/workspace` | files of the user's folder | import, tree, read, search, context; build and apply a patch |
| Configuration and restart | `main.go`, `boot/init.go`, `api/http/handler/public/config` | config file, restart channel, processes on ports | save, restart, clear ports |
| Browser credentials | `application/service/browsercredential` | vault and a table | create, update, delete |
| Models, keys, agents | `application/service/model`, `application/service/agent` | one table each, and bindings | create, update, delete, switch, bind |
| Users and sessions | `application/service/user`, `api/http/middleware/auth.go` | two tables, files of avatars | register, log in, admit, delete, avatar |
| Skills | `application/service/skill` | a table and a directory per package | create, update, upload, delete |
| Voice avatars | `api/http/handler/public/voiceavatar` | an index file per user, a directory of media, a mutex | upload, list, delete |
| Knowledge base, channels, dashboard, job log, command | `application/service/*`, `api/http/handler/public/*` | one table or file each | create, read, update, delete |
| Glue | `infra/db`, `pkg`, `application/assembler`, DTOs, router, middleware | none | conversion, routing |

External: agent-runtime (gRPC), the database, the desktop device, git, Ollama,
agent-browser, and Python processes.

### How they interact

A streaming request starts a goroutine that runs the control loop. Each step of
the loop forwards the events of one agent-runtime stream; a step that ends with
an Action resolves a device (registry), begins a task and dispatches the Action
(hub). The hub sends it over the device's WebSocket and waits in a select for the
observation, the deadline, or the end of the run's context. The goroutine that
reads the WebSocket calls Observe, Progress and Touch, and Progress calls back
into the run's emitter, so three goroutines share the event channel. Stop cancels
the tasks of a conversation from a fourth. A scheduled execution is a run without
a stream.

The service restarts in place for a new configuration: `main.go` builds everything
again in the same process. Sockets that have become WebSockets, scanners and job
goroutines of the previous instance go on. A crash, by contrast, ends everything
and leaves the tables.

### What is hard

Steps of several goroutines between two sections under `Hub.mu`; saves of clones
out of order; store errors that are dropped; observations that race the deadline;
reconnecting devices; restarts in place; a bounded channel between a run, a client
that may stall, and a device that may be silent; conditional updates as the only
lock between scanners. `PROJECT.json` lists the hazards line by line, with the
properties that cover each, or why none does yet.

What makes each modelled part correct:

- hub: one waiting call per action; what is done is not done again; a task's first
  outcome is final, in memory and in the store; every call returns.
- registry: a device has one owner for good; only that user's requests reach it; the
  online flag and the registrations follow the connections.
- run: the client learns everything once, and the truth; the run survives the client;
  run and handler end. What agent-runtime is asked is of one agent, tells the
  observations in order, and tells what was learned before.
- scheduled tasks: a slot is run once; a deleted or paused task is not run, and one that
  is due by its expression is; what was found is reviewed.
- background jobs: a row tells the truth and has somebody who finishes it; a name is
  trained once; a canceled job ends; a model is downloaded once and whole.
- history: what is stored of a turn is what its client was told.
- configuration: a reference that was checked goes on standing; a secret belongs to its row;
  hidden prompts survive an edit; a promised restart is made, and nobody is terminated unasked.
- files and users: line numbers mean the lines that were seen, in a patch, an excerpt and a
  search alike; a tree that is cut short says so; a package's files are mixed with another's,
  or cut off, only where two uploads met or one failed; a session is its
  user's, and a user's name is not given twice; an avatar that is listed has its file.

## 2. Modules

| Module | Models | State and steps |
|---|---|---|
| `TaskStatus` | the status rules of `protocol.go` and `recordObservationLocked` | operators only |
| `TaskOutcome` | the abstract promise about an outcome | unknown, open, one outcome for good |
| `ControlHub` | tasks, actions, observations | `sessions`, `pending`, `completed`, `chan` are the Hub's maps and channels; `rows`, `actionRows`, `obsRows` the tables; `pc` and `frame` where each goroutine is and its locals |
| `ControlHubProofs` | theorems about `ControlHub` | |
| `DeviceRegistry` | connections and ownership | `devices[h]` is the map of Hub number h; `row` the table; `cpc`, `sock`, `owner`, `found`, `old` a connection and its Device; `rpc`, `req` a request |
| `DeviceRegistryProofs` | theorems about `DeviceRegistry` | |
| `RunStream` | one streaming run | `rpc` and locals of the run, `events`/`closed`/`result`/`ctx` the channels, `hpc` and `written` the handler, `ppc` the readers of devices |
| `RunRequests` | what the calls of a run are sent | `runs` the request under way and where it is; `sent` the last one sent; `memory` the table; `seen` the observations |
| `RunStreamProofs` | theorems about `RunStream` and `RunRequests` | |
| `Cron` | fields of an expression | operators only |
| `ScheduledTasks` | scanner and executions (extends `Cron`) | `todo`, `slot` a scan of each instance; `exec` the executions; `row`, `job`, `approval` the tables |
| `MediaJobs` | media generation | `mediaRow` the table, `mediaCopy` and `mediaPc` the goroutines |
| `ModelTraining` | training jobs | `trainingRow`, `trainingPc`, `contextOver`, `jobDir`, `outputModel` |
| `LocalInstaller` | installation of models | `installPc`, `modelLock`, what is on the disk |
| `JobProofs` | theorems about `ScheduledTasks` with `Cron`, `MediaJobs`, `ModelTraining` and `LocalInstaller` | |
| `ChatRecorder` | the record of a turn | `capture`, `entry`, and the chat tables |
| `ModelBinding` | keys, models, agents, bindings, and what a run resolves | a table each; a call has a reading and a writing half |
| `AgentConfigs` | the prompts and keys of an agent's configuration | `agentConfig` the row, `editor` the views and updates under way |
| `Workspaces` | changes, patches, files | `disk`, `imported`, `built` |
| `WorkspaceReads` | what a client is shown of them (extends `Workspaces`) | `reading` the request under way, or its answer |
| `Credentials` | a row and its secret | `site`, `vault`, `visit` the calls under way |
| `ServiceRestart` | configuration, restart in place, port guard | `serving`, `phase`, `signal`, `timer`, `file`, `loaded` |
| `HostProofs` | theorems about `Credentials`, `ServiceRestart` and `Workspaces` | |
| `WorkspaceReadsProofs` | theorems about `WorkspaceReads` (extends `HostProofs`) | |
| `Accounts` | users, sessions, avatars | `member`, `session`, `avatars`, `visitor` the calls under way |
| `Skills` | skills and their packages | `skill`, `unpacked`, `uploader` |
| `AgentProofs` | theorems about `AgentConfigs`, `Skills` and `ModelBinding` | |
| `VoiceAvatars` | avatars for the voice | `voiceIndex` and `voiceMedia` the files, `voiceCall` the calls under way, `voiceHandler` whose mutex counts |
| `UserProofs` | theorems about `Accounts`, `VoiceAvatars` and `ChatRecorder` | |
| `MCControlHub`, `MCDeviceRegistry` | instances for TLC | constants and symmetry |
| `MCRuns` | `RunStream` or `ModelTraining`: what goes on under a context | `exercised` says which |
| `MCServices` | the other services, which share no state | `exercised` says which one acts; the others stand still |

A step is one section under a mutex, one statement or transaction of the database,
one send, one receive, or one choice of a select; whatever the code does between
two of them can be interleaved with steps of others. Every action is named for
the code it stands for, in the order of the code: `DispatchLookup`,
`DispatchStored`, `DispatchRegister`, ... follow `Hub.Dispatch` from top to bottom.
Definitions ending in `Raw`, `Anyway`, `Unasked` and the like are the faulty
variants; no specification uses them.

### Abstractions

- Time is a clock that ticks (`ControlHub`, `ScheduledTasks`) or nothing at all: a
  deadline may fire whenever its goroutine waits. `ControlHub` keeps `updated_at` as
  the clock's value or as `UnixSeconds`, which is smaller than every millisecond
  stamp, because SaveTask compares the two.
- An observation is an action, a status, and whether task and sequence match.
  Metadata, active sessions, arguments and attachments are left out.
- The store is always there (the hub without a database has fewer steps, and no
  durability). Any statement may fail, `MaxFaults` times.
- `ControlHub` has one device with numbered links, and its `Restart` is a crash: what a
  restart in place does is in `DeviceRegistry` and `ScheduledTasks`.
- Dispatch reads `device.UserID` outside the lock; the model reads it before or after a
  concurrent write, never torn. What the owner check then does is `DeviceRegistry`'s.
- A scan's claim and the start of its goroutine are one step; the semaphore is the
  number of running executions of the instance.
- Of a streamed run, an Action per step; what it is asked is in `RunRequests`, where a
  value is known by who gave it (client, agent, binding, service), which is what decides
  whose prompt or model wins. The two modules are not composed: the loop of the one
  decides when a request is sent, the other what is in it.
- A model of a table keeps the columns a property or a guard reads. A file is its
  presence, or the package or version it is of; a text is a sequence of a few symbols where
  lines matter (`Workspaces`), and a number where only identity does (`AgentConfigs`).
- A cron expression starts split into tokens, whose steps are too small for the sum of a value and a
  step to overflow (a step of `2^63 - 59` or more could, at `cron.go:89`).
- Rows of memory are written one after another: two of the same importance and the same millisecond,
  which the database may list either way, are left out.
- In `WorkspaceReads` a symbol is a word, and limits of bytes are limits of symbols. `ToLower` maps
  each symbol to any number of them, since lower case may be longer or shorter in bytes; the index of
  a match in the text in lower case is then used in the text itself, as in the code. A line
  that is too long for `bufio.Scanner` ends the search of its file, as in the code. Links
  to folders are left out, links to nothing are not. The recursion of buildTree, which shares one count,
  is a loop over the entries still to be shown, in the same order.
- A file of `Skills` is known by the package it is of, or is `Torn`: empty, cut off or mixed.
  `OpenSkillFile` empties it, `CopySkillFile` fills it or fails; two uploads that have one file open
  may leave either's or neither's, and a torn SKILL.md may be read as any name.
- An avatar of `Accounts` is the number of the call that wrote its file, and 0 is one that is elsewhere; an
  update of a user may name any of them, removed or another user's.
- A portrait of `VoiceAvatars` is its sniffed and its declared type, its size, and whether it
  decodes. No decoder for webp is registered, so a webp image is one that does not decode: it is
  refused, although the message at `voice_avatar_handler.go:143` offers the format.
- In `ChatRecorder` a count of tokens is any natural number of a given set, and progress of the
  device may come after the record was made: it is sent on, but what it does to the record is nothing,
  and it does not count as told.
- Every bound is a constant named `Max...`; the constants are given values in the cfgs.

A property that does not hold of calls that overlap says so, by a variable that
remembers it and that no action reads: `raced` and `settled` (`ModelBinding`), `candid`
(`ModelTraining`), `overlapped` and `failed` (`Credentials`), `late` (`ServiceRestart`, `AgentConfigs`),
`doubtful`, `unread` and `lent` (`Accounts`), `unsure` and `atRisk` (`Skills`), `before` and `seen`
(`RunRequests`), `lastPrompt` and `topPrompt` (`AgentConfigs`), `promised`, `hurt` and `doubled`
(`VoiceAvatars`), and, in the request of `WorkspaceReads`, `of`: each file as it was when it
was read. What these leave out is what the code does not promise, and each is set by the
overlap or the failure only, so the order of statements within a call, and of calls that
follow one another, stays checked.

## 3. Runs

| Run | Bounds | Shows |
|---|---|---|
| `hub_dispatch` | 1 action, 2 calls by 2 users, 1 reader, 2 links, 1 restart, 1 store failure | `SingleFlight`, `ReplayNotResent`, `ReturnedIsDurable`, types |
| `hub_outcome` | 1 call, 1 run that ends the task, 2 processes, 3 instants, 1 store failure | `OutcomeKept`: the stored status implements `TaskOutcome` |
| `hub_process` | 1 call, 1 stop, 1 reader; cancelled and uncorrelated reports | `OutcomeAgreement`, `FirstOutcomeStays`, and, fair, `DispatchReturns`, `OutcomeReachesStore` |
| `registry_owners` | 1 device, 2 connections, 2 requests by 2 users, 2 Hubs, 1 failure | `ExclusiveUse`, `MemoryOwnerStored`, `OwnerStays`, `ReadMeansRegistered`, types |
| `registry_online` | 1 device, 2 connections, 1 request, 2 Hubs, 1 failure | fair: `SupersededEnds`, `SilentForgotten`, `ConnectedShownOnline` |
| `runs` | a run: channel of 1, 2 iterations, 2 events per step, 1 late progress; training: 2 jobs, 1 restart | `ShownToTheEnd`, `DetachedAndTold`, types; fair: `RunEnds`, `HandlerReturns`, `CancelStopsTraining` |
| `services` | below | one property or two of each service |
| `hub_correlation`, `hub_sequence`, `hub_first_outcome`, `registry_reach`, `stream_closed` | small | the findings of section 6 |

`services` lets one service act per behaviour:

| Service | Bounds | Property |
|---|---|---|
| scheduled tasks | 1 task due by a step expression, 2 minutes, 2 executions, room for 1, 2 instances, 1 failure | `RunsOnceReviewed`, `StartedAsAsked` |
| media jobs | 2 jobs, 2 restarts, 1 failure | `MediaRowHonest` |
| training | 2 jobs of one name, 1 restart or 1 failure | `TrainedOrEnded` |
| installer | 3 jobs of 2 models and 2 users, 2 installers | `InstalledOnceAndWhole` |
| chat recorder | 2 turns of a session, 1 failure | `RecordedAsTold` |
| models and agents | 2 users, 2 keys, 2 models, 2 agents, 2 roles, 5 calls, 2 at once | `BindingsHold` |
| configurations | 3 items, lists of 2, 2 prompts, 2 edits by 2 clients | `PromptsKept` |
| workspace | 2 files of 1 to 3 lines, 4 texts, 8 lists of changes, 2 saves by an editor | `LinesAsNumbered` |
| reads | 2 files, 4 texts, a symbol that is longer in lower case, 3 queries, lines of 3 scanned, a window of 3, room for 4, 3 hits, 3 entries, 2 saves | `ShownAsRead` |
| credentials | 1 row, 4 calls, 2 at once, 1 failure | `SecretFollowsRow` |
| restart | 3 instances, 4 requests, 4 programs on 3 ports | `RestartAsAsked` |
| requests of runs | 2 runs, of several kinds and owners, 3 steps, room for 2 observations and 2 memories, 1 failure | `AskedAsMeant` |
| users | 2 rows of one name, 1 session, 4 calls, 2 at once, 1 failure or avatars given to others | `AccountsKept` |
| skills | 3 packages of one directory, 3 calls, 2 rows, 1 failure | `SkillsApart` |
| voice avatars | 2 users, 4 portraits of which one is too large, room for 2, 2 callers, 2 handlers, 1 failure or crash | `AvatarsListed` |

The callers and jobs of all services are the same two model values, `c1` and `c2`, so that
one symmetry set serves each of them; no property of `services` is a liveness property.
Its constraint, `Followed`, ends a behaviour in two kinds of states. `StillPromised`: those in
which a property that has a precondition (`RunsOnceReviewed` after a failure with a second
scanner, `AvatarsListed` after two handlers worked at once) has nothing more to say, ever.
`OneTrouble`: those in which both a statement of training failed and the process restarted,
or both a statement of the accounts failed and an avatar was given to a user who did not
have it. So it also bounds what the types and `StartedAsAsked` are checked on;
`JobProofs` and `UserProofs` prove all these properties without it.

Why the bounds are enough to be interesting: two calls of one action are a race and a
retry, and a third would meet the same entry of `pending`; one restart separates
what memory knows from what the tables know; one store failure hits each
statement in turn; two connections of one device have every order of an old
Unregister and a new Register; two users are the least that can disagree about an
owner. A channel of one slot is full after one event, as the real one is after 128,
and two iterations reach the limit that the code sets at eight; three steps of a
request with room for two observations cut the history as nine do with room for eight. Two minutes let a
scanner claim the later slot before another claims the earlier one. Faulty variants
of the code are found within the same bounds.

Two calls at once are the least that race, and a third call after them meets what they have
left; one failing statement hits each statement in turn.

`ContextAsRead` (a part of `ShownAsRead`) says that an excerpt shows its match where the match's line begins less than a
third of the window before it, and where lower case keeps the length of what is in front of it. The excerpt starts a third of the window before the match, is moved
back to the start of that line and is cut at the window's length, so that farther back the match itself
may be cut off; the code promises nothing there. Nor does it where lower case changes lengths: the window
is then around another place. `SearchWhole` (a part of it too) says that a search that is not full has all hits but for
those at or behind a line that is too long for the scanner. The answer says nothing of such a line.

`OutcomeAsTold` (a part of `DetachedAndTold`) allows a failed task whose client was told `done`: consumeStream reads once
more after it, and that may fail. The client, if it stays, is then told `error` as well.

`AvatarStands` (a part of `AccountsKept`) leaves out avatars that an update gave to a row that did not have
them: UpdateSysUser stores whatever URL the request has, and an upload of the new owner then removes the
file. The third part of `SkillsApart` says which files of a skill may be torn: those being copied, and those whose last copy
failed or met another.

What the properties do not reach, and why, is said at each hazard in `PROJECT.json`. The run of
`OutcomeReachesStore` has no failing store, since nothing writes an outcome again after the last save has
failed; `OutcomeKept` is checked with failures. The run of `ReplayNotResent` has one key, so the cache of completed
observations is emptied only in the theorem. `candid` and `raced` exempt the two races between a count and what
rests on it (training jobs created side by side; a key deleted while it is being bound). `LinesAsNumbered` leaves out
lists in which changes of several files alternate, for which LineLess is no order. `RestartAsAsked` permits
that programs are ended before a later one turns out to need confirmation. `doubtful` exempts names that two calls
looked for at once. A completed media job may have an empty URL, which agent-runtime may answer.

`AvatarsListed` speaks of one handler at a time. The mutex of `VoiceAvatars` is a field of the handler,
and a call of an old handler can go on beside those of the new one, with a mutex each.

No run checks for deadlock: calls, connections, requests, jobs and executions are bounded,
so every behaviour stops when they are used up. That nobody waits for ever is what the
liveness properties say.

`FirstOutcomeStays` is in two runs. Where every task is begun in this process and
one loop works on it, it holds, under a stop, late progress and late observations.
Where SetTaskStatus can find the session missing while BeginTask is making it,
it does not (`hub_first_outcome`, section 6).

`SlotRunOnce` (a part of `RunsOnceReviewed`) is claimed as long as one scanner runs at a time, crashes included. With the
second scanner of a restart in place the conditional update alone does not give it:
one scanner can claim the next minute between the other's look at the clock and its claim.

### Fairness

- `ControlHub`: a goroutine that has begun goes on; the store and sends return; the timer
  of a waiting Dispatch fires. No device has to answer, and nobody has to call.
- `DeviceRegistry`: goroutines go on; the read deadline fires; a device whose socket is
  open and not silent sends heartbeats. Nobody has to connect, hang up, or ask.
- `RunStream`: goroutines go on when they can; the timers of the Action's deadline and of
  `taskCtx` fire (each is set by the code); a gRPC stream whose context is over fails. Neither
  agent-runtime nor the device has to answer, and the client need not read.
- `ModelTraining`: a job's goroutine goes on, and a command whose context has ended fails
  (`exec.CommandContext` kills it). A command need not end otherwise.
- The modules of `services` have no liveness property and assume no fairness.

Go's scheduler runs every goroutine that can run, and a mutex is not held across
a wait, so weak fairness per goroutine is what the code has.

## 4. Proofs

`DeviceRegistryProofs` proves, for any sets of devices, users, connections and
requests, and any numbers of Hubs and store failures, from `RegistryAssumption`:

| Theorem | States |
|---|---|
| `TypeCorrect` | `Spec => []TypeOK` |
| `OwnerInvariant` | `Spec => []OwnerInv` |
| `MemoryFollowsStore` | `Spec => []MemoryOwnerStored` |
| `OwnerNeverChanges` | `Spec => OwnerStays` |
| `UseIsExclusive` | `Spec => []ExclusiveUse` |
| `RegistrationHolds` | `Spec => []ReadMeansRegistered` |

The ownership argument. That an owner in memory is the stored owner is not
inductive: Register installs an owner it read two steps earlier, and bindDevice one
it stored a step earlier. `OwnerInv` adds what they carry: a found owner is the
stored one (`FoundStored`), a request that has bound its device finds itself the
owner (`BoundStored`), an unknown row has no owner (`UnknownUnowned`), so that the owner an
UpsertDevice inserts is none. All of that rests on one fact, that a stored owner never changes
(`OwnerKept`), which holds step by step because BindDevice is conditional and UpsertDevice
leaves the owner out of its DoUpdates. `ExclusiveUse` then follows from
`BoundStored`: two requests served by one device are both its stored owner.

The registration argument. A connection serves from the moment it is installed,
which is before it closes the one it replaced, so `ServingInv` covers
that moment too; the replaced connection is `Superseded` until it is closed.

`ControlHubProofs` proves, for any sets of tasks, users, actions, keys, calls, runs,
stops and readers, and any bounds on time, links, restarts and failures, from `HubAssumption`:

| Theorem | States |
|---|---|
| `HubInvariant` | `Spec => []HubInv` |
| `HubTypeCorrect` | `Spec => []TypeOK` |
| `OneCallInFlight` | `Spec => []SingleFlight` |
| `OutcomeKeptForGood` | `Spec => OutcomeKept`: the rows implement `TaskOutcome` |
| `AnsweredNotResent` | `Spec => []ReplayNotResent` |
| `ReturnedFromStore` | `Spec => []ReturnedIsDurable` |
| `FirstOutcomeKept` | `Spec /\ []NeverReinstalled => FirstOutcomeStays` |
| `OutcomesAgree` | `Spec /\ []OneProcess /\ []NeverReinstalled => []OutcomeAgreement` |
| `OutcomesAgreeWithoutRuns` | with no `Runs`, `Spec /\ []OneProcess => []OutcomeAgreement /\ FirstOutcomeStays` |

The argument from the locals. TypeOK alone is not inductive: an action uses locals
without a look at whether they are filled, and a frame of the right type may be empty. `HubInv`
adds `LocalsFilled`: at each label the locals that the code there reads are filled,
and after a save a call goes on to its lookup, its send or its return, anybody else to
where it came from. A move of one goroutine disturbs only what is said of that goroutine
(`InvAfter`), so each action needs one lemma about the label and frame it goes to.

- `SingleFlight` is inductive together with `HubInv`: a call registers only where nobody
  waits, and it alone removes its entry.
- `OutcomeKept`: `SaveTask` alone writes rows (`RowsWritten`); `LocalsFilled` says that what it
  saves has a status, and `SaveSettles` that a row with an outcome keeps it. So a step is
  an `Open`, a `Settle`, or a stutter.
- `ReplayNotResent` needs `Answerable`: such a call has not passed its second lookup, and
  what that lookup will find is still stored, because the tables of actions and
  observations only grow (`ObservationsWritten`, `TablesGrow`).
- `ReturnedIsDurable` needs `AllDurable`: an observation of the device is stored wherever
  the Hub has it, in a channel, in the cache, in a local, but for the reader that is
  about to store it.
- `FirstOutcomeStays` and `OutcomeAgreement` do not hold of every behaviour: SetTaskStatus may put back
  a session that it has read from the store, over one that has ended since (finding
  `hub_first_outcome`), and a restart empties the memory. `NeverReinstalled` (no goroutine gets as far as that
  assignment) and `OneProcess` (no restart) are all that is needed beside: then
  a status goes on from no outcome, and a clone is of the session as it is (`StatusesGoOn`, one
  lemma per handler), so that what is in the store, or on its way there in any order, has its session,
  with the same outcome if it is one (`AgreeInv`). Where no run ends a task before its first call of
  Dispatch, which is what the instance of `hub_process` has, one process never puts a session back: `Known` says that
  whoever is about to set a status has its task's session before them, so SetTaskStatus never looks into the store.

`RunStreamProofs`, from `StreamAssumption`, for any capacity of the channel and any numbers of
iterations, events, late progress and readers:

| Theorem | States |
|---|---|
| `StreamTypeCorrect` | `Spec => []TypeOK` |
| `ClientShownToTheEnd` | `Spec => []ShownToTheEnd` |
| `RunDetachedAndTold` | `Spec => []DetachedAndTold` |

An event is on the way in three places: the channel, the handler's hands, what was
written. `OrderInv` says that nothing but progress and errors follows a `done` over all three, and that a
`done` on the way means that the last step has told its end, after which its stream may still fail. `ErrorInv` says that at most one error is
on the way, and that the handler's flag `sawError` knows of it. `RunInv` ties these to where the run
is, and `LoopInv` to where the handler is: when it leaves its loop, the channel is closed and empty, so that what
it has written is all there was.

And from `RequestsAssumption`, for any runs, whatever each asks, any agents, memories, observations
and steps, and any limits on histories and memories:

| Theorem | States |
|---|---|
| `RequestsTypeCorrect` | `RequestsSpec => []RequestsTypeOK` |
| `RequestsAreAsMeant` | `RequestsSpec => []AskedAsMeant` |

`RequestsInv` has two parts. `RequestKept` follows the request of a run from the moment it is hydrated: where its
models and prompts come from (`Meant`) is not changed by what is added later, and its history
(`HistoryTold`) tells the last of the observations in their order, however often it was cut.
`MemoriesInv` follows the table: its rows are strictly ordered, what a run has left stays its own, there are as many
such rows as the run has stored, and what a run was told is what it should have been told of
those that were answered before it. The lemma behind the last is `RecalledAll`: in a finite strict order the
first `MaxRecalled` are all, or exactly `MaxRecalled`. It is proved without induction, from the rank
of each row being a bijection onto `0..(n - 1)`.

The scheduled tasks (in `JobProofs`), from `ScheduleAssumption`, for any tasks and expressions, any numbers of
minutes, instances and failing statements:

| Theorem | States |
|---|---|
| `ScheduleTypeCorrect` | `Spec => []TypeOK` |
| `RunsAreOnceAndReviewed` | `Spec => []RunsOnceReviewed` |
| `CronMatchesWhatItMeans` | for a valid `expr`, `CronMatches(expr, at) <=> Means(expr, at)` |
| `ExecutionsAreAsAsked` | `Spec => StartedAsAsked` |

`ClaimsInTurn` is what makes a slot unique: with one scanner, the claimed slot of a row is
the last one of all executions of its task, and what the scanner is about to claim is not before
it; since a claim must change the slot, it moves on. `FoundInv` says that an execution that has found
something and has no approval has not yet saved its job.

`CronMatchesWhatItMeans` is about the loop of expandCronField, a recursive function in the model. The library's
induction theorems cannot be used here, but induction over a set can be proved: if n is not in S, and
S has 0 and every successor, then the successor maps the members of `0..n` in S to
themselves, one to one, hence onto them, for they are finitely many (`FS_Injection`); but 0 is no successor
(`NatInd`). That there is a function as `Expanded` defines it, which a CHOOSE needs, is shown by
giving it in closed form (`Behind`); that it is the only one, by `NatInd` over what the loop
has still to go. `ExecutionsAreAsAsked` follows with `DueInv`: what a scanner has put aside is due,
and a deleted task is paused.

The rest of `JobProofs`, with `HostProofs`, `UserProofs` and `AgentProofs`, for any sets of jobs, rows, calls,
programs, users, models, agents, packages and turns, and any numbers of failures and restarts, each
from the assumption its module names (`InstallAssumption`, `CredentialAssumption`, `RestartAssumption`,
`AccountAssumption`, `VoiceAssumption`, `ChatAssumption`, `ConfigAssumption`, `SkillAssumption`,
`BindAssumption`, `WorkAssumption`; media jobs and training need none):

| Theorem | States | Inductive because of |
|---|---|---|
| `MediaTypeCorrect` | `MediaSpec => []MediaTypeOK` | |
| `MediaHonest` | `MediaSpec => []MediaRowHonest` | `CopyInv`: the copy a goroutine saves is coherent, and has the status its label calls for, whatever the row has become |
| `CredentialTypeCorrect` | `CredentialSpec => []CredentialTypeOK` | |
| `SecretFollows` | `CredentialSpec => []SecretFollowsRow` | `CallsInv`: what the vault holds between the two writes of each kind of call; `AloneInv`: there is one such call, unless calls have overlapped |
| `RestartTypeCorrect` | `RestartSpec => []RestartTypeOK` | |
| `RestartHonoured` | `RestartSpec => []RestartAsAsked` | `PromiseInv`: what was promised is in the file, and loaded, or a timer or signal of the serving instance is there for it; `TodoInv`: what a request means to terminate has been told apart from its target |
| `WorkspaceTypes` | `WorkSpec => []WorkTypeOK` | |
| `PatchesByLine` | `WorkSpec => []LinesAsNumbered` | `PatchAnswers`: a patch is what `Patched` makes of the files and changes it was asked for; the rest is about that function, below |
| `InstallTypeCorrect` | `InstallSpec => []InstallTypeOK` | |
| `InstalledOnce` | `InstallSpec => []InstalledOnceAndWhole` | `LockHeld`: a job from the runtime on holds its model's lock; `CompletedIsOver`; `GotIsThere`: weights a job has written are on the disk until the marker is |
| `TrainingTypeCorrect` | `TrainingSpec => []TrainingTypeOK` | |
| `TrainedOnceOrEnded` | `TrainingSpec => []TrainedOrEnded` | `InstalledInv`: what is registered, or about to be, has its name in Ollama; `CandidInv`: a job that a create has counted as ended cannot register any more; `LeavesAccounted`: a goroutine that leaves has said its last word |
| `AccountTypeCorrect` | `AccountSpec => []AccountTypeOK` | |
| `AccountsAreKept` | `AccountSpec => []AccountsKept` | `AdmissionInv`: what a call knows of its session and its user; `NameInv`: of the calls that will give a name there is one, and no row has it yet; `CallsApart`, `RowsInv`, `OldInv`, `OwnFileInv`: a file that no update has lent is named by the row of one user, or is that of one call which has yet to name it or to take it back |
| `VoiceTypeCorrect` | `VoiceSpec => []VoiceTypeOK` | |
| `AvatarsAreListed` | `VoiceSpec => []AvatarsListed` | `LockInv`: with one handler at a time one call is under way; `ListKept`: the list it will write; `IndexInv`, `PromiseInv`, `FilesInv`: what an index lists is there once, is what was promised, and the files are those promised and that of the call |
| `TurnTypeCorrect` | `TurnSpec => []TurnTypeOK` | |
| `HistoryIsAsTold` | `TurnSpec => []RecordedAsTold` | `CaptureTold`, `EntryTold`: until the record is made the capture is what the client was told, from then on the record is; `MessagesInTurn`, `CountsInTurn`: the rows of a turn are what its record's place has stored of it; `MessageKept`, `LostWhole` |
| `ConfigTypeCorrect` | `ConfigSpec => []ConfigTypeOK` | |
| `PromptsAreKept` | `ConfigSpec => []PromptsKept` | `ConfigInv`: the items of a list are called differently; `EditKept`: an update that is sent has read the row as it is, unless another was written since |
| `SkillTypeCorrect` | `SkillSpec => []SkillTypeOK` | |
| `SkillsKeptApart` | `SkillSpec => []SkillsApart` | `OnceNamed`: a name has one row, or one upload that found none and is alone; `RowKept`, `UnpackKept`, `NameKept`: the files of a row's package are there, and those of an upload that nobody has crossed are there or still to be unpacked; `FilesInv`: uploads that have one file open know of each other, and a torn file is open or at risk; `DeletionKept` |
| `BindTypeCorrect` | `BindSpec => []BindTypeOK` | |
| `BindingsAlwaysHold` | `BindSpec => []BindingsHold` | `OwnersStay`: keys and models keep their owners; `CallKept`: what a call has checked is so as long as the rows it read are not written; `SettledKept`: a settled binding goes on fitting |

`PatchesByLine` has hardly anything to do with the state, and all with what `Patched` computes:

- A fold and a recursive function are unfolded one step at a time, and what is said of them is shown by the same
  induction over a set as above. `LineStarts` yields, in order, 1 and every place behind an NL that is
  not the last symbol; so the lines of a text determine where each begins and ends.
- Cut and join: the lines of a text cut where a line starts, and of one text put behind another that
  ends in NL, are the lines of the parts, one after the other. `LinesReplaced` puts these together: after
  ReplaceLineRange the lines are those before, those of the replacement, and those behind.
- `SortOrders`: where the changes of a file stand together, the insertion sort keeps every change, and those of
  a file come out from the last line to the first. This is where the side condition of
  `LinesAsNumbered` is used: `LineLess` is not an order over several files, so that changes of two files that
  alternate may not be sorted at all.
- `LinesAsApplied`: as the changes of a file go up from its end, those already made lie behind
  the next one, whose numbers still mean the lines of the original. After each of them the lines are the pieces
  that `AsNumbered` names, as far down as the changes made, and the lines of the original in front of them.

`WorkspaceReadsProofs`, from `ReadsAssumption` and `WorkAssumption`, for any texts, words, queries, folders
and limits, while an editor saves files:

| Theorem | States |
|---|---|
| `ReadsTypes` | `ReadsSpec => []ReadsTypeOK` |
| `ReadsAreTrue` | `ReadsSpec => []ShownAsRead` |

The invariant, `ReadsInv`, says of each kind of request what it has so far, and what its answer is
computed from; the rest is about those computations:

- `SearchInv`: after each file, the hits are those scanned of the files gone through, each once, and all of them
  unless there are `MaxSearchHits`. A scan that a long line ends finds what is in front of it, so that any other
  hit of the file is at or behind that line.
- An excerpt is a slice of its text. The lines of a slice are the lines of the text from
  that of its first symbol on, whole but for the outer ends of the first and the last one; this is shown by cutting
  the text at two places, with the lemmas on lines of `HostProofs`, and stays so when more is cut away for
  want of room.
- The first match in lower case is the first place in the text where a token is, as long as lower case keeps the
  length of what is in front of it (`ReadsAssumption` says that it works symbol by symbol). A match whose line begins less than a third of the window before it lies in the window after its start was
  moved to the start of a line and its end to the end of one: so it is shown.
- `Best` is a fold over the list that `Ranked` sorts. As long as it takes candidates there is room; the first
  that is left out finds the limit of files or of bytes reached, and none behind it has a higher score.
- `BuildTree` is a loop over what is left to be shown, depth first. Every node shown is in `Below`, and of
  each, its children are shown or left; it ends with nothing left, when the nodes are closed under
  children and thus all of `Below`, or with `MaxTreeEntries` counted, when the answer says so. That `Below`
  is closed after as many steps as there are entries follows from its sets growing at each step until they
  stop. Nothing is assumed of how folders lie in each other.

What the assumptions say: `WorkAssumption`, that NL is a symbol, and a path means a file or none; `ReadsAssumption`, that
a path is listed once, that queries have words, that lower case goes symbol by symbol, that limits are numbers, and that folders are finitely many and hold lists; `ScheduleAssumption`, that expressions are valid, as Create and Update make sure, and
that there is room for one run, one minute and one instance; `StreamAssumption`, that the channel has
room for one event and the loop one iteration; `InstallAssumption`, that a Diffusers model has weights on
the hub; `RestartAssumption`, that services have names; `SkillAssumption`, `ChatAssumption` and `BindAssumption`,
that what may be uploaded, asked or filled in has the form the handlers bind it to; `RequestsAssumption`, that the
memories are finitely many, that a run that names an agent finds a row or is refused (`hydrateAgentConfig`), and that
the rows that are there at first were left by no run and written one after another. The rest of each is
typing: marks such as `None` and `Absent` are not among the values they stand beside.

Only model-checked: all liveness, since fairness and ENABLED are beyond the prover; and `RunsTypeOK` and
`ServicesTypeOK`, which only put together the types of the modules, each proved for its own.

## 5. Plan

What would be added next, in this order.

1. The read side of the hub: Tasks, Task and ActiveSessions, and what a reader may see of a
   task between two of its saves.
2. A composition of `RunStream` with `RunRequests` and `ChatRecorder`: the loop decides when a request
   is sent and what is recorded, and today each of the three has a loop of its own.
3. The seeding of the database (`InitTables`, the administrator, the public agents, the catalog of
   models), which runs at every start, over rows that were edited.

## 6. Findings

| Run | What |
|---|---|
| `hub_correlation` | Observe stores an observation before Dispatch checks its correlation; a retry returns the stored, uncorrelated one (`hub.go:412`, `hub.go:561`). |
| `hub_sequence` | SaveTask's guard compares milliseconds with the seconds GORM writes with the status, so a late save of an old clone takes the sequence back (`store.go:115`, `store.go:128`). |
| `hub_first_outcome` | SetTaskStatus installs a reloaded session over one that has ended meanwhile (`hub.go:482`). |
| `registry_reach` | After a restart in place the old hub keeps a device's socket and shows the device online, while the new hub cannot reach it (`hub.go:138`, `main.go:73`). |
| `stream_closed` | A late progress message is sent on the closed event channel: a panic that ends the device's connection (`run_handler.go:219`, `run_handler.go:230`). |

## 7. Not modelled

- Components without a module: knowledge base and retrieval, channels, dashboard, job log, command,
  callback and weixin. Each request reads or writes one row or file, or passes a request on, with no
  state in between.
- Conversions (field by field mappings, DTOs, assemblers, queries, identifiers), routing, logging,
  tracing, and lists that only read, those of the hub among them.
- The seeding of the database at start (section 5).
- Of modelled components: the dialog that selects a folder and the clean-up of a patch's wrapping
  (workspace), the wording of prompts (runs), progress and logs (training, installer), passwords and the audit log
  (users), usage metrics (models), the splitting of an expression's text (cron).

The devices, agent-runtime and the database are external: they appear as what they may send, how
they may fail, and what a statement or transaction does.

Some things met while modelling are worth a look, though no run refutes a line of the repository with
them. An agent's API keys are hidden from who edits the agent, as its
prompts are, but only the prompts are put back when the edit is saved (`assembler.go:99`,
`sys_agent_svc.go:214`). The options stored with an agent are not used in a stream, because options are
filled in before the agent is read. A model that is only said to
put out images or videos (`image-output`, `video-output`) may be given to an agent for that role, and
no run accepts it; `BindingRuns` excepts it. `config.Load` says that a missing file is no error
(`config.go:127`), which is so when no path is given; a path to a file that is not there is one.
