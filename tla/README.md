# SiriusPulse in TLA+

SiriusPulse runs chat personas. Each persona is a worker process with an engine
(memory, decision, generation, tools) and one or more platform adapters; several
personas may sit in the same group chat. This directory holds TLA+ models of the
parts whose correctness depends on the order in which things happen, TLC
configurations that check them on small instances, and TLAPS proofs.

Paths below are relative to `src/sirius_pulse/`.

## 1. The system: components, state, operations, hazards

| Component | State | Operations | What is hard about it |
|---|---|---|---|
| Group dispatcher `core/group_dispatcher.py` | one SQLite file shared by all persona workers: events, candidates, groups (the active lease, the peer conversation), receipts, workers | `register`, `coordinate`, `admit`, `begin_delivery`, `acknowledge_delivery`, `renew`, `finish`, expiry, pruning | several processes, each transaction sees what others left; leases lapse; workers die; rows are pruned while their outcome still matters |
| Delayed reply queue `core/delayed_response_queue.py` | `_queues`, `_in_flight`, `_deliveries`; snapshot in `delayed_queue.json` | `enqueue`, `merge_incoming`, `promote_pending`, `tick`, `stage_delivery`, `take_prepared_delivery`, `begin_delivery`, `fail_delivery`, `requeue_in_flight`, `commit_in_flight`, `restore` | destructive consumption, retries with a bound, what may be replayed after a crash |
| Delayed reply tasks `core/bg_tasks_delayed.py` | `_delayed_event_emitted` | ticker, `tick_delayed_queue`, the tool loop | tools and partial replies escape before the reply exists; marks that suppress a second trigger |
| NapCat adapter `platforms/onebot_v11/napcat/adapter.py` | connection, listener, `_pending` futures, leases kept and deliveries active, retry tasks | `_listen_loop`, `_reconnect_loop`, `call_api`, `_process_event`, dispatch retries, `_deliver_delayed_event`, `rebind_engine` | every `await` is a place to be cancelled, to lose the lease or the connection, or to die; answers get lost or come late |
| Event bus `core/events.py` | bounded queue per subscriber | `emit`, `subscribe`, `close` | full or unsubscribed bus |
| Engine core `core/engine_core.py` | turn locks, tool-chain and work-mode windows | `process_message`, `begin/end_tool_chain`, `begin/end_work_mode` | messages that arrive while a turn runs |
| Pipeline `core/pipeline.py`, participation, rhythm, cognition | scores | `perception`, `compute_signal`, `pre_filter`, `generate` | ordering of persistence and announcement |
| Engine persistence `core/engine_persistence.py` | JSON files | save/load per group | crash between files |
| Work mode `core/work_mode.py` | current run, stash | stash, flush, replay | replay once and in order whatever ends the run |
| Background tasks `core/bg_tasks.py`, `tools/cron_tasks.py` | reminders, proactive cursors, maintenance requests as files | fire, acknowledge, retry; the worker loops | at most once over the same ledger |
| Autonomy `core/intent.py`, `core/autonomy.py`, `tools/builtin/autonomy.py` | `intentions.json` without a lock, cooldowns, night window | tools form and retarget intentions; `run_tick` shares, thinks, takes free time | a copy of the file is held over awaits and saved after them; the words travel through the bus and the ledger |
| Runtime and worker `platforms/runtime.py`, `persona_worker.py` | the engine under a lock, the rebuild task, the adapters' bindings, a flag file | build, publish, retire, rebind, reload request, shutdown | two engines alive during a swap; failure and cancellation at every await; the web interface is another process |
| Persona notebook `memory/persona_notebook.py`, `core/notebook_maintenance.py` | entries within a budget, requests that wait, receipts; one slot for the model | write, mark, tidy with a model's help | maintenance races new entries and other maintenance |
| Basic memory, memory units `memory/` | window of raw messages, units per group, checkpoint cache, duplicate report; vectors in a file of their own | checkpoint, merge, deduplicate, reconcile, edit from the web interface | two processes and two background tasks write the same file; crash between two files |
| People service `people/service.py` | SQLite: people, claims, changes, revisions | propose, correct, retire, confirm | who may say what, and what stands after any order of calls |
| Visual assets `visual/`, `tools/builtin/image_generate.py` | jobs in the database, jobs in the queue file, grants, charges | reserve, enqueue, submit, recover, withdraw, call back | money is spent outside; consent may be withdrawn at any await; two stores and a crash between them |
| Workflow state `tools/builtin/workflow_state.py`, `tools/executor.py` | revisioned record with steps, tokens and leases | `resume`, `restart`, `claim`, `checkpoint`, `fail`; the executor around a tool | a tool's effect must not be repeated by another turn, after a lapse or a restart |
| Plugins `plugins/` | registry, instances, schedules | load, dispatch, tick, unload | instances shared by handlers |
| Tools, model access, prompts, configuration, token accounting, stickers | mostly lookup, I/O, text | | |
| Web interface `webui/`, `frontend/`, scripts | request handlers in a second process, a browser client | | writes the same files as the worker |

How they interact. The adapter receives a platform message over its connection,
records it in the transcript and asks the dispatcher whether this persona may
answer. If so the engine's pipeline answers at once or puts an item on the
delayed queue, and the ticker (or, for an immediate reply, the pipeline itself)
emits `DELAYED_RESPONSE_TRIGGERED` on the event bus. The adapter's bus listener
claims the item's stable id with `admit()`, calls `tick_delayed_queue` under the
chat's turn lock, and sends the reply part by part through `call_api`. Before
an irreversible send it fences twice: `begin_delivery` in the ledger, then
`"sending"` in the queue file - unless the outcome of an earlier call, a tool's, is
still open, when the first fence stands for the second. After each it records what it knows in the reverse
order of trust: the queue file, then the ledger. Tool calls of a turn go through
the executor, which keeps the workflow record, and write the notebook, the
intentions, the claims about people and the picture jobs. The heartbeat sends
what the persona decided to tell along the same bus and ledger. Beside the turns
the worker turns raw messages into units, merges duplicates, tidies the notebook
and polls picture jobs. The runtime replaces the engine under all of them. The
web interface is a second process that shares only files with the worker:
configuration and its flag file, units, maintenance requests.

What makes the system correct, component by component:

* dispatcher: one active turn per group whatever the workers do; an outcome is
  final; a dead persona does not silence a group;
* delivery: a stable id is delivered at most once, where "may have been
  delivered" counts; no item is stranded, replayed after an effect escaped, or
  filed as sent when part of it was not; every item ends;
* inbound path: a message is read once and has one turn; the group's lease is not
  kept for nothing; a rebind leaves nothing of the old engine behind;
* connection: an outcome told to a caller is so; one listener; nothing hangs;
* work mode: what arrives meanwhile is read once, requeued once, or given up with
  the process;
* runtime: never two engines, adapters follow the engine, shutdown ends;
* workflow, notebook, claims, intentions: what one writer decided is not undone,
  repeated or forgotten by another that read earlier;
* memory: every message is still raw or covered by a unit on file, once; a text
  is never read with the vector of another;
* picture jobs: paid once, charged for good, never shown after withdrawal;
* revisions of a profile: one is formal, and what is gone does not come back.

## 2. Modules

| Module | What it is |
|---|---|
| `TurnLedger` | abstract specification: per group at most one speaker, per stable id a fate (`open`, `flying`, `sent`, `uncertain`) |
| `GroupDispatcher` | the dispatcher with its SQLite tables; `Ledger == INSTANCE TurnLedger WITH speaker <- ..., fate <- ...` is the refinement mapping |
| `DelayedQueue` | the queue's methods, as operators from a queue value to a queue value |
| `DelayedDelivery` | ticker + event bus + adapter handler + queue file, composed with `TurnLedger` (the specification `GroupDispatcher` implements) and with crashes |
| `InboundTurn` | a group message's way through the adapter: chat lock, transcript, verdict, turn, retry, kept lease, rebinding |
| `PlatformLink` | the adapter's connection: connect, reconnect, listen, `call_api`, close |
| `WorkMode` | one turn's rounds of model calls and tools, and what happens to the messages that arrive meanwhile: tool-chain window, work-mode stash, requeueing |
| `PersonaRuntime` | the worker process: engine life cycle, reload requests, adapters, shutdown |
| `WorkflowState` | steps of a workflow claimed by competing turns, with the executor and the store's file |
| `Notebook` | the notebook, its waiting requests and the maintenance that tidies it |
| `PersonClaims` | claims about people: proposal, consent, correction, retirement |
| `Autonomy` | intentions and the heartbeat that acts on them |
| `MemoryUnits` | raw messages, checkpointer, duplicate clerk, web edits |
| `VectorFiles` | the unit file and its vector file |
| `VisualJobs` | paid picture jobs in two stores |
| `VisualRevisions` | the revisions of a profile, written from two processes |
| `MCGroupDispatcher`, `MCDelayedDelivery`, `MCWorkMode` | instances and symmetry sets for TLC |
| `MCStores`, `MCBackground`, `MCLive` | several independent components for TLC, one per behaviour (see section 3) |
| `GroupDispatcherProofs`, `DelayedDeliveryProofs`, `WorkModeProofs`, `PersonaRuntimeProofs`, `InboundTurnProofs`, `PlatformLinkProofs` | TLAPS proofs about the module they are named after |
| `BackgroundProofs` | TLAPS proofs about `VisualJobs`, `VisualRevisions`, `MemoryUnits` and `VectorFiles`, in this order |
| `StoresProofs` | TLAPS proofs about `WorkflowState`, `Notebook`, `PersonClaims` and `Autonomy`, in this order |

A definition whose name begins with `Wrong` stands beside the one it alters: it is
a slip one could make in the code, and it breaks a property (section 3).

### GroupDispatcher and the code

Every public method of the class is one `BEGIN IMMEDIATE` transaction, so each
is one action, including the housekeeping it performs first (`admit()` expires
every overdue lease and then prunes; `_finalize_candidate` expires its group's).
The variables are the tables: `row` (dispatcher_events), `vote`
(dispatcher_candidates), `turn`, `peerTurns`, `required`, `loop`
(dispatcher_groups), `receipt` (dispatcher_delivery_receipts), `live`
(dispatcher_workers within the TTL). `held` is what each worker process has in
memory. `coordinate()` is not one transaction: it submits and then polls, so it
is `Submit`, any number of `Finalize...` attempts and `Learn`.

Abstractions. Clocks become the comparisons the code makes with them (`lapsed`,
`ripe`, `cooling`, `settling`, membership of `live`), each of which may become
true at any time. Scores within one response strategy are arbitrary. Message
texts are replaced by who is mentioned or named. `admit()` is modelled for
stable ids with `sender_type="system"`, the only way it is called. A row's
retention is "any row that is not active may be old": a lease that is renewed
for more than a day without a fence is outside the model. Candidates are pruned
with their event's row.

### DelayedQueue, DelayedDelivery and the code

The queue's methods contain no `await`; each is an operator, and each handler
step of `DelayedDelivery` applies one or several of them and saves (`Save`),
because `persist_delayed_queue` follows in the same synchronous stretch. Where
the code does not save, neither does the model (`MergeIncoming`,
`BeginWorkMode`). `turn.at` is the handler's program counter between two
awaits; `shown` is what the world has seen.

`start_delivery` is two steps (`FenceLedger`, `FenceQueue`) and
`known_outcome` with what follows is two (`Acked`, `AckLedger`), because the
process may die between the writes to the two files. A tool that calls the
platform (`ToolCalls`) goes through the same `start_delivery`; its call ends
(`CallEnds`) without `known_outcome`, so `io_pending` (`turn.pending`) stays set.
`stage_delivery` then files the finished reply as "ready", and the first part
leaves through `AlreadyFenced`: at once, with the queue file still at "ready" and a
lapsed lease unnoticed. What keeps such a part from being repeated after a crash is
the ledger, where the delivery has been in flight since the tool's call.

Abstractions. One chat, one source adapter, one persona process; other personas
are the rival of `TurnLedger`. The ticker names the item it wakes, so a batch is
one item. Time is nondeterminism: an item may be due, or too old, at any moment;
a lease may lapse at any moment. The tool loop is any sequence of tool calls and
partial replies up to `MaxEarly`. A rich reply is a first part whose rejection
falls back to text. Saving always succeeds (see section 7).

### InboundTurn and the code

One adapter, one group. `at[m]` is where the task of a message is between two
awaits of `_handle_event`, `_process_event` and the retry task: waiting for the
chat's lock (`TakeChat`), parsing, observing it into the transcript
(`Overhear`), submitting to the dispatcher (`Bid`), polling until a verdict is
there (`Grant`, `Refuse` are transactions of whichever worker finalizes;
`ReadGrant`, `ReadDeferral`, `ReadRefusal` are what the task learns), the turn,
sending, or leaving the answer on the queue. `EndOfTurn` is the `finally`: it
finishes the lease unless the answer waits on the queue, in which case
`kept` (`_dispatch_leases`) holds it for `Launch` and `Land`, the delivery.
`verdict`, `lease` and `floor` are the dispatcher's rows as this persona sees
them; `Rival` and `FloorLapses` are the others and the clock. `RetireBound`,
`Unbind`, `CancelHandlers`, `CancelRetries`, `Rebind` are `rebind_engine` and
`_detach_engine` cut at their awaits.

Abstractions. A message id that comes twice is dropped before anything else and
is not modelled. What is injected into a running tool chain belongs to
`WorkMode`. Private chats need no dispatcher. The deadline of the retry is the
bound `MaxRetries` with `GiveUp` at any earlier moment. The check of the engine
generation is never needed here, since cancellation precedes rebinding.
Exceptions while a message is observed are left out.

### PlatformLink and the code

`loop` is where `_reconnect_loop` is, `listeners` the connections a
`_listen_loop` reads, `up` those not closed by either end, `ws` the attribute.
A call is `AskToSend`/`TakeSendLock` (sends go one at a time), pacing, `Issue`
(the future enters `_pending`), `Write`, and the wait that `Answered`,
`TimeOut` or `Abandon` ends; `Ended` is the common way out through the `finally`
blocks. `Receive` resolves the future by its echo if there still is one.
`StopLink`, `CutLink` and `Disconnect` are `close()` between its awaits.
`Unknown` is the code's decision that an irreversible call whose request may have
gone out ends "uncertain" and not "failed".

Abstractions. The platform is external: it carries a request out and says so, or
says it is still at it, or refuses and has not carried it out. Each call is made
once, since an echo is a fresh counter. Pauses, back-off and pacing take any
time. `MAX_RECONNECT_ATTEMPTS` is 0 in the code, so the branch in which attempts
run out is not there.

### WorkMode and the code

A turn is `tick_delayed_queue`: `phase` says between which two of its awaits it
is. `TickDelayedQueue` takes an item, `Round` is the top of the loop
(`take_flushed`, the window), `Answer` and `EnterWorkMode` are what comes back
from the model, `QuitWorkMode`, `GoOn`, `Respond`, `ControlOnly`, `UseTools` are
the ways a reply is handled, `ToolsDone` the tools' results, `RoundLimit` and
`LeaveLoop` the ends of the loop, `EndTurn` and `Fail` the `finally` after a
return and after an exception or cancellation (`Finally` is the part they
share). `chain` is membership of `_active_tool_chain_groups`, `window`
`_tool_chain_messages`, `run` the registered `WorkModeRun`, `trace` its status
in `sessions.json`.

A message's way in is a small state machine of its own (`at`), because it awaits
between the moments it reads the windows and the moment it writes them: `Offer`
and `InjectToolChainMessage` are before and after the captioning of its
pictures, `ProcessMessage` and `Decide` before and after cognition.

`shown`, `released`, `served`, `forgone` and `dropped` are histories that no
guard reads: what entered the prompt, what `take_flushed` let in, what a later
turn took from the queue, what was given up, what was accepted and thrown away.

Abstractions. Stash, window and items are sets, so the order in which messages
are replayed is not modelled. The model's reply is any member of `Replies`. One
chat. The turns that callbacks start, the settings of work mode, the steps
written to a trace, failing writes of the trace and the permission check of
tools are left out. The queue survives a crash, which `DelayedDelivery` looks at
in detail.

### PersonaRuntime and the code

`life` is the holder of `_engine_lock` and which await of
`_reload_engine_locked`, `_build_engine` or `_ensure_engine` it is at: unloading
plugins, closing, building, setting up, publishing. `task` is `run()`'s start or
`_engine_reload_task` with the adapters it still has to bind. `handler` is a
platform event between its admission and its end; `Admits` is the test of
`_runtime_retiring`. `beat` holds what `_check_config_reload` has read of the
flag file and not yet deleted; `web` is the other process between writing the
configuration and writing the flag. `Shutdown` and `CancelRebuild` may meet the
task at every point; `CloseAdapters` and `StopRuntime` are `_cleanup`.

Abstractions. What a reload changes is one of two types: what only a rebuild
applies and what is applied in place. An engine object is used again once nobody
refers to it. The lazy start (`platforms/runtime.py:887-898`,
`persona_worker.py:105-110`: the first engine is built when somebody asks for it),
engines built outside the worker, an adapter whose rebinding fails
(`persona_worker.py:349-355`), health checks and the content of the configuration
are left out.

### WorkflowState and the code

`flow` is the record in memory, `flowFile` the record in the store's file; every
call of the tool changes memory, saves, and answers (`FlowAnswer`), and a failing
save leaves memory changed and the turn without an answer. `turn[t].at` is what
a turn remembers: it has read the record, was permitted a step (`claimed=true`),
is inside the tool, or saw it return or fail. `Claim` is a claim that is granted,
`ClaimInVain` one that is not, `CallTool` is the executor running the step's tool,
whatever has become of the claim meanwhile. `Checkpoint` and `Fail` record the
outcome for revision and token; `Replayed` is a repeated call with an outcome
already recorded. `effects` is the history of tokens under which the tool has been
called. A tool's arguments, plans with more than the current and the next step,
and the wording of answers are left out. The code hands the token of a claim to
any turn that reads the record (`tools/builtin/workflow_state.py:630`, 889-899,
1227-1237); the model lets a turn report only under a token it was granted itself,
as the instructions to the model have it.

### Notebook and the code

`note` is the file: text, requests that wait (`pending`), receipts and revision.
A text is known by its size, since only the budget and "is it still the same"
are looked at. `ApplyNow` is a request that fits; `Enqueue` one that does not and
is kept whole beside the entries; `Marked` is the marking of requests whose
target has changed. A maintenance run (`upkeep[r]`, one per engine of the
process, because two can overlap while an engine is replaced) reads, asks the
model under the one slot (`AskModel`, `ModelAnswers`, `GiveUpAsking`,
`CallEnds`), plans, takes the file's lock, checks that the revision is the one it
read, and replaces. The model's call is a task of its own: a run that stops
waiting does not give the slot back, the end of the call does. Prompt and
parsing are left out.

### PersonClaims and the code

Every public call of the service is one SQLite transaction and one action; a call
whose `expected_revision` is out of date is rolled back as a whole, so it is the
guard `BumpRevision`. `claim` and `change` are the tables, `revision` is
`people.revision`. A call presents a message (`Evidence`) with an author; what its
author may do follows from who maintains the person, who controls, and whether an
importer presents it. Identities, visibility, merging and the migration of an old
database are left out.

### Autonomy and the code

`wish` is `intentions.json`. Nobody locks it: a tool loads and saves in its own
thread (`pen` is the copy it holds), the heartbeat loads at the start of a tick
and holds `beat.copy` over its awaits. A tick is `BeatLoads`, `BeatShares` (the
event is put on the bus) with the wait for the adapter's receipt
(`BeatGivesUp`, `BeatRefused`, `BeatRecordsShare`), or an autonomous turn
(`BeatThinks`, `BeatThought`), or free time (`BeatRoams`, `BeatRoamed`), or
nothing. `post` are the events on their way to the adapter. The adapter spawns a
task for each (`adapter.py:2484-2515`), and the tasks run beside each other;
`event_lock` (3046-3049) and `admit()` bring those of one message into an order,
and the heartbeat awaits one at a time, so the model lets them go one after the
other. The way of an adapter without a dispatcher (3055-3061) is left out.
`ledger` is the dispatcher's row of the id made of intention and chat,
and `said` the history of what the chat has seen. Scores are reduced to which
intention comes first: any. Developer chats are left out.

### MemoryUnits and the code

One group. A message is a number in the order of arrival, a unit its id, its
sources, the ids merged into it and whether the text is the user's.

In the worker `keeper` is the checkpointer between its awaits (asking the model,
waiting for the write lock, awaiting verdicts) and `clerk` the maintenance worker
(scan, announced apply, apply, reconcile). Each verdict is a step of its own
(`KeeperDecides`, `ClerkDecides`): the loop awaits one for every unit, the oldest
first, and other tasks and the other process run in between; `kept` is the list so
far, `left` the units without a verdict. `LockFree` is `_mutation_lock`. `sync` is
a read and a write without an await between them, during which the event loop runs
nothing else: `AddUnits`/`AddedUnits` of a tool, under the lock, and
`GroupLoads`/`GroupLoaded` of `ensure_group_loaded`, without it. `Reload` drops the
cache `covered` when the web interface reports a rebuild.

The web interface takes no lock. Its handlers are cut at every read and write of a
file: POST and DELETE are `WebReads`, `WebWrites`; PUT writes twice, without the
unit and then with it (`PutReads`, `PutRemoves`, `PutReadsAgain`, `PutAdds`); each
ends with a note to reconcile (`WebNotes`, a read and a write of its own). A scan
or an apply is asked for by two files, the request and the status (`AskForScan`,
`AskForApply`, `WebQueues`). The rebuild of the embeddings runs in a thread beside
them (`RebuildReads`, `RebuildWrites`). The process may die anywhere (`WebDies`).
`job` is the request, status and report files. That POST and PUT ask whether an
apply was announced before they await the body lets them come later than it.

`traced` and `dropped` are histories: units that were written, and messages whose
unit the user deleted or that a crash took. Two more tell whom a write goes over:
`current`, the parties whose copy is of the file as it is, and `overtaken`, the
units and messages that a write from an outdated copy lost or put back. Retrieval,
the window's hard limit of 10,000 messages and the text of units are left out.

### VectorFiles and the code

`json` is the unit file with the name of its vector file, `bins` the vector files
there are; an item knows the offset of its vector and of which text it is.
`save[s]` is what a saver has in memory or where its save is: the worker, mostly
without vectors (`LoadUnits`, `ChangeUnits`, `Embed`), and the web interface's
rebuild (`RebuildLoads`). A save is `SaveVectors`, `SaveItems`, `SaveDiscards`; two
of them may meet, and a process may die between any two steps (`Dies`). `draft` is
the web interface's edit: what it read (`WebOpens`), the name of the vector file
it asks for again when it writes (`WebNames`), the write (`WebSaves`), and for a
PUT the second reading (`WebReopens`), to which the unit brings its offset in the
file first read. `crossed` tells that an edit was written over a file it had not
read.

### VisualJobs and the code

A job's `binding` is its row in the persona's database, `entry` its row in the
queue file. All code runs on one event loop: `hand` is the stretch that runs
without an await (creating a job, the worker's tick, taking consent back),
`outside` what the worker awaits (the upstream model, the agent's turn about the
job). Each write to one of the two stores is one action, so that the process can
die between any two (`Stop`), after which `Recover` and `SaveRecovered` run before
anything else. `TakeBack` is the withdrawal of a grant, the retirement of a
picture or the deletion of a person, and goes through the jobs one by one.
`calls`, `clean`, `acted` and `shownPic` are histories. Daily buckets, the chain of
parents and jobs older than bindings are left out. So is a second process: the web
interface could open the same database (as in `VisualRevisions`), and
`consume_deployment` (`visual/policies.py:149-160`) reads and then writes; `JobSafety`
is about one process. A deletion cancels all jobs and then scrubs them in one
transaction (`visual/retention.py:350-407`); the model does it job by job, with more
states in between.

### VisualRevisions and the code

One profile: `formal` is its `active_revision`, `head` its `head_revision`, `rev` the
rows of its revisions, `derived` the jobs that derive a turnaround, `deletedRow` the
mark of a deleted person. `desk[s]` is the handler that process `s` is in, and what it
read before its next commit: no handler awaits in between, so one process runs one at
a time. Usually there is one process. When the web interface finds no engine in its
own it opens the database by itself, and the two run side by side: `apart`, chosen in
`Init`. Each transaction, and each statement that commits alone, is one action
(`StageDraft`, `WriteActivation`; `Retire`, `RetireLooks`, `RetireClears`;
`PictureArrives`, `InsertCandidate`, `MarkDerived`; `BeginDeletion` to `Scrub`), and a
process may die after any of them (`Falls`). `MayActivate` is every refusal of
`_activate_revision`, `PointerHolds` the comparison in the statement that moves the
pointer. What a job costs is in `VisualJobs`. Files, grants, the answer to a repeated
request, and `assign_draft` (nothing makes unbound profiles any more) are left out.
`revived`, `late` and `lost` are histories.

## 3. What the runs check

| Run | Instance | Shows |
|---|---|---|
| `orphans` | 2 workers, 1 group, 2 stable ids, 2 leases | `OrphanFreed` (liveness: a dead worker's turn is taken away), `ImplementsLedger` (refinement of `TurnLedger`), `LeaseAgreesWithRow`, `SettledForGood` (an outcome is final), `InFlightNeverForgotten` (past the fence, a delivery ends through its worker or as uncertain) |
| `talk` | 2 workers, 1 group, a human message that mentions one of them and a peer's message, 2 leases | `OneTurnPerGroup`; `OneAnswerPerMessage` (the lease a message was given is never replaced) |
| `addressed` | 2 workers, 1 human message | violated: see section 6 |
| `one` | 1 item, 2 messages, 2 parts, 2 retries, 2 crashes, 1 rival, 2 tools or partial replies, of which tools may call the platform | `PartsOnceInOrder`, `NoReplay`, `SentIsWhole`, `EffectsAreFenced`, `GivenUpForGood`, `ConfirmedIsGone`; `EveryItemEnds` (liveness) |
| `two` | 2 items (symmetric), bus of 2 | `TakenIsServed`, `MarkedIsAwaited` |
| `work_group` | group chat, 3 messages of which one names the persona, 2 tool rounds, 1 crash | `StashIsKept`, `ReleasedOnce`, `NothingStaysOpen`, `NamedIsShownNext` |
| `work_private` | private chat, 2 messages, 1 tool round, 1 crash | `StashIsResolved` (liveness) |
| `work_requeued` | 3 messages, 1 tool round, no crash | violated: see section 6 |
| `stores` | workflow: 2 turns, 2 steps, 2 restarts, 3 claims, 1 failing save; notebook: 2 entries, 2 maintenance runs, 2 waiting requests, 4 revisions; claims: 1 person, the person's, a third party's and an importer's message, 3 claims; heartbeat: 1 intention, 2 chats, bus of 2 | `StepSafety`, `OutcomesStand`; `NotebookSafety`, `UpkeepServes`; `ClaimSafety`, `RetiredForGood`; `IntentSafety` |
| `background` | units: 2 messages, 2 units, 2 requests of the web interface or restarts of the worker; vectors: 2 units with 2 texts each, 3 vector files, 1 change, 1 death; pictures: 2 jobs, one automatic, 2 tries, 1 death; revisions: 2, 1 derivation, 1 death, one process or two | `UnitSafety`, `VectorsOutliveSaves`; `JobSafety`, `UncertainStaysSo`; `RevisionSafety` |
| `live` | notebook: as above with 3 revisions; runtime: 2 adapters, 2 engines, 1 failing build; inbound: 2 messages (one from a peer), 3 leases, 1 rebind; connection: 2 sends, one of them irreversible, 2 connections, 1 refusal, 1 bad frame | `SlotComesBack`; `EngineSafety`, `EventsMeetTheLiving`, `ShutdownEnds`; `InboundSafety`; `LinkSafety`; `NothingHangs` (liveness) |
| `deaf` | 2 adapters, 2 engines, 1 failing build | violated: see section 6 |

`stores`, `background` and `live` each hold several components that share no
state: the variable `which` says which of them a behaviour is about, and the
others do not move. What the model checker sees is therefore the union of the
components' states, not their product. Each of the properties reads the
variables of one component (`NothingHangs` and `UnitSafety` those of two), so it is checked on
exactly the behaviours of that component. In `live` every component brings its
own fairness.

The safety properties of these components are conjunctions of named parts. They
are stated above their definition; in short:

* `StepSafety`: at most one step is open and it is the one told next
  (`OneOpenStep`); two turns are inside one step's tool only past a lapse
  (`RunnersApart`); no tool was called for a claim the file does not know
  (`EffectIsOnFile`). `OutcomesStand`: an outcome is recorded by the turn that
  holds the newest claim and ran the tool, and a success on file is never
  claimed again.
* `NotebookSafety`: within the budget; a request that is not marked still finds
  its entry as it was (`UnmarkedIsCurrent`); no request waits twice.
  `UpkeepServes`: a waiting request leaves only by being carried out, and
  maintenance writes only over what it has read.
* `ClaimSafety`: what others say of a person stands only by consent; a correction
  and what it replaces never stand together; the revision tells every write.
  `RetiredForGood`: what was corrected or retired never stands again.
* `IntentSafety`: words are seen in a chat at most once, count as shared only if
  they were seen, and free time is offered at most once in an interval.
* `UnitSafety` is `MemorySafety` and `VectorSafety`. `MemorySafety`: every message
  is raw, covered by a unit on file, or went with a unit the user deleted or a
  crash (`TracedSources`); no unit is lost to another writer (`TracedUnits`); nothing
  is summarised twice (`SummarisedOnce`). The exception is exactly what a write from
  an outdated copy took or put back (`overtaken`). Within the worker the lock lets no
  copy become outdated, so there nothing is excepted; between the two processes
  nothing prevents it (section 6), and what the properties say is that nothing else
  is ever lost.
* `VectorSafety`: no text is read with another's vector, and the unit file never
  names a vector file that is gone, until an edit was written over a file it had not
  read (`crossed`). `VectorsOutliveSaves`: until then, every write but a save of a
  file that has changed since the save began (`Overtakes`) keeps the vectors of the
  texts it keeps.
* `JobSafety`: one request per job and what went out stays charged; a picture
  that came after withdrawal is never handed to the agent; the agent's turn runs
  its tools once. `UncertainStaysSo`: a request lost under way is never decided
  later.
* `RevisionSafety`: the profile points at a confirmed revision, at a retired one only
  while that is being undone or after a death (`PointerIsFormal`); no other revision
  is marked formal (`OneFormal`); in one process nothing retired becomes formal unasked,
  and after a deletion nothing is made or becomes formal (`GoneForGood`).
* `EngineSafety`: one engine at most; the adapters follow it; nothing is left
  after the end. `EventsMeetTheLiving`: no event begins with an engine that is
  on its way out.
* `InboundSafety`: our lease is active only while something uses it or the grant
  is unread; a message is read once and has one turn; a rebind leaves no task and
  no lease behind.
* `LinkSafety`: an irreversible call that failed was not carried out and will not
  be, one that succeeded was; a waiting caller has its entry in `_pending` and an
  entry its caller; one connection, one listener; quiet after `close()`.

Why the bounds suffice. Two workers are needed for any race; a third plays no
other role than one of them. Two leases allow a grant, its expiry and another
grant; three, with two messages, a regrant of each. No run mixes `admit()` with
`coordinate()` in one group; that the two together keep one turn per group is
what `MutualExclusion` proves. Two parts distinguish first, later and last; two
retries distinguish the first failure, a repeated one and the bound. Two crashes
let a recovery be interrupted. Two items on a bus of two fill it. In the work
runs, three messages are one to start the turn, one that names the persona and
one that does not while it runs; two rounds let a message be stashed in one
round and let in by the next, with one more behind the limit. The model need not
reach `MaxRounds`, so shorter turns are among them.

For the workflow, two turns contend for a step, three claims let a lapsed one be
reclaimed twice, and two runs let a late answer come from the run before. Two
entries whose sizes fill the budget make every write a question of room, and two
maintenance runs are an old engine's and a new one's. Three claims are one, its
correction and a competitor. One intention with two chats is told, retargeted and
told again. Two messages with a context of one separate those that may be
summarised from those that may not, two units meet in a merge or duplicate, and
two disturbances put an edit or a rebuild beside a scan, a second edit, or a
restart that separates what a save covered from what it did not. Two units with
two texts and three vector files, the one there, the worker's and the rebuild's,
show every mixture of old and new. Two jobs with
quotas of two, of which one is automatic, let a refund of one hide a charge of
the other. Two engines are an old and a new one; an adapter that is bound early
and one that is bound late need two adapters. Two sends contend for the send
lock, one of them irreversible; two connections let an answer come after its
connection is gone.

Deadlock is not checked in `two`, the work runs, `stores`, `background`,
`live` and `deaf`: with every item finished, every message in, the shutdown done
or the bounds used up, there is nothing left to do.

Symmetry is used where no liveness is checked: the items of `two`, the messages
of `work_group` and `work_requeued`, the turns and maintenance runs of `stores`.

## 4. Fairness

`GroupDispatcher!FairSpec`: clocks run (`LeaseLapses` of each group), and some
worker's ticker keeps claiming: `delayed_queue_ticker` is an endless loop, and
every claim expires all overdue leases first. Nothing is assumed of the worker
that died. `OrphanFreed` excepts behaviours that have used up the bound on
leases.

`DelayedDelivery!FairSpec`: the ticker and the listener loop run; the handler's
next step is always taken (every platform call is ended by `api_timeout`, the
tool loop by `max_tool_rounds`); other turns of the chat end; the lease of a
process that died lapses. No fairness is assumed of messages, crashes, or of
the platform accepting anything: weak fairness on the handler as a whole lets
every single send fail.

`WorkMode!FairSpec`: the turn's next step is always taken (provider, tool
executor and platform call each have a timeout, and `max_tool_rounds` bounds the
loop), and a dead worker is started again. Nothing is assumed of messages, of
the model's choices, or of the absence of failures and crashes.

`NotebookFair`: a maintenance run stops waiting for the model (`wait_for`), and a
call to the model ends (the provider's time-out). That is all `SlotComesBack`
needs; runs need not be started, succeed or write.

`InboundFair`: each message's task goes on (captions, polls and sends have
time-outs, the turn is bounded by its rounds, the retry by its deadline), and a
detach that has begun is finished. Nothing is assumed of the other personas, of
the dispatcher granting anything, or of the delivery.

`LinkFair`: the reconnect loop and the listener of a closed connection go on,
each call's next step is taken (the send lock's queue is fair, the wait has a
time-out), and `close()` goes through. Nothing is assumed of the platform: no
request need arrive and no answer come back. Connections up to the last one
permitted by the bound may break at any time.

`RuntimeFair`: the worker's event loop runs (`RuntimeStep`). `ShutdownEnds` rests
on this alone. For `deaf` the heartbeat keeps looking at the flag (strong
fairness, because the web interface may be in the middle of writing it whenever
the heartbeat looks) and the user keeps asking for a reload: a generous
assumption, under which the engine still does not come back.

## 5. Proofs

What is proved holds for every value of the constants that satisfies the named
assumption of the module (`ConstantsOK`, `QueueConstantsOK` and
`DeliveryConstantsOK`, `WorkModeConstantsOK`, `FlowConstantsOK`,
`NotebookConstantsOK`, `ClaimConstantsOK`, `AutonomyConstantsOK`, `RuntimeConstantsOK`, `VisualAssumption`,
`RevisionAssumption`, `MemoryAssumption`, `VectorAssumption`, `InboundConstantsOK`,
`LinkConstantsOK`), and the proofs rest on nothing else. Every proof module has
the same plan: an inductive invariant; one lemma for the initial states; one
lemma per action, with a step for each part of the invariant the action can
disturb; a theorem of invariance; and the properties as consequences.

`GroupDispatcherProofs` proves, for any number of workers, groups, events and
any `MaxLease`:

* `Typing`, `Agreement`, `MutualExclusion`: `Spec => []TypeOK`,
  `[]LeaseAgreesWithRow`, `[]OneTurnPerGroup`;
* `AtMostOnce`, `NeverForgotten`: `Spec => SettledForGood` and
  `Spec => InFlightNeverForgotten`;
* `Refinement`: `Spec => ImplementsLedger`;
* `OneLeasePerMessage`: `Spec => OneAnswerPerMessage`.

The inductive invariant is `IInv == TypeOK /\ LeaseAgreesWithRow /\
NoReceiptInFlight`. One turn per group is not inductive: the code looks at the
group row when it grants and at the event row when it delivers, so the argument
has to say that the two agree (an active row has the group's turn, a turn's row
is active and carries the same lease and worker, and a lease id is on one row
only, which in turn needs that ids on rows are older than the next fresh one).
`NoReceiptInFlight` says that a stable id with a recorded outcome is not active;
without it expiry could try to record a second outcome. The action properties and
the simulation of `TurnLedger` then follow step by step. That a message is leased
once has an argument of its own, `GivenOnce`, transaction by transaction, over an
invariant of its own: a row that is collecting, and so may still be granted, has
no lease. A grant leaves that status, and neither expiry, a late finalization, a
deferral nor a second submission brings a row that was leased back to it.

`DelayedDeliveryProofs` proves, for any items, parts, retries, crashes and
rivals: `Typing` (`TypeOK`), `Fenced` (`EffectsAreFenced`), `NoneStranded`
(`TakenIsServed`), `SentLeaves` (`ConfirmedIsGone`), `GivenUp`
(`GivenUpForGood`), `NeverReplayed` (`NoReplay`), `MarksAreHeard`
(`MarkedIsAwaited`), `PartsInOrder` (`PartsOnceInOrder`) and `SentWhole`
(`SentIsWhole`).

Here `IInv` ties four places where the same item is known: the handler's program
counter, the queue entry, the queue file and the ledger (`Placed`, `Shape`,
`FileOK`, `Closed`). It is needed because each property speaks of two of them
while every step reads a third: that a restart files the part in the air as
uncertain follows from the file only if the file equals the entry there, which
holds because no other task may touch a taken entry. So there are two general
lemmas, `Bystander` (what other tasks do to the queue) and `OwnEntry` (what the
handler does), one lemma per queue method, and one per action. `NoReplay` needs
a second invariant, `NothingEscaped`: an entry, or an entry of the file, from
which a reply could still be generated belongs to an item of which nothing was
shown, and no step makes an entry replayable that was not (`Sound`). `Shape` says
of every place of the handler which fence stands there: past a tool's call the
ledger's alone may (`Barring`), everywhere else the file's does too; `Fenced` reads
it off. What waits
for an answer needs a third, `Heard` (an item marked as announced is one that
was handed out, and while its entry is pending the event is on the bus or in the
handler's hands), and what the chat has seen a fourth, `Tallied`: of an entry
that can still be answered, in memory or after a restart from the file, the
parts shown are those up to the cursor, none if there is no reply yet, and a
reply is made of everything that was asked - or the ledger bars the item
(`Barred`), as after a crash with a part in the air that only the ledger knew of,
and it is never shown again. That the parts form a prefix is said
with sets of numbers, without a recursive count, so that the provers can use it.

`WorkModeProofs` proves, for any messages, any of them addressed, group or
private, any `MaxRounds` and `MaxCrashes`: `WorkTyping` (`TypeOK`), `StashKept`
(`StashIsKept`), `NotRequeued` (`ReleasedOnce`), `AllShut` (`NothingStaysOpen`)
and `NamedFirst` (`NamedIsShownNext`). Its `IInv` adds to the properties `Placed`
(a message is held or released only when it came in through a run, and queued or
taken only when it was stashed or decided), `Apart` (held, released and queued
exclude each other) and `Shut` (nothing is stashed without a run, no run without
a turn). `ReleasedOnce` alone is not inductive: that `Finally` requeues nothing
that was released needs the replay list to be apart from it, and that a stashed
message cannot also come in through `Decide` needs `Placed`.

`StoresProofs` proves the properties of four stores.

For the workflow tool it proves `StepsRunOnce` (`StepSafety`) and `StepsStayDone`
(`OutcomesStand`), for any turns, steps, tokens, failing saves and at least one
run. `FlowInv` is `FlowShapes`, `RecordsTell` (in memory and in the file a touched
step names a token that was granted for it, and only the current step is open),
`FileBehind` (the file is an earlier record, and what succeeded there has not
changed), `TurnsTell` (two busy turns never hold one token; neither record has
forgotten a busy turn's token; while the record still names it, no newer one was
granted) and `EffectsTell` (neither record has forgotten a token whose tool was
called). `EffectIsOnFile` alone is not inductive: a save puts the
record of memory over the file, so that record must not have forgotten the token
either.

For the notebook it proves `NotesKept` (`UpkeepServes`), for any entries, sizes,
budget, requests and runs. `NoteInv` adds to the shapes that ids are given once
and leave what waits when their receipt is written, that the revision tells the
text (`RunTells`), and that one run at most is between the check and the
replacement (`OneLock`). Which request a run selects does not matter to the
proof, nor what the entries weigh. `NotesFit` (`NotebookSafety`) does need the
weights: `NoteKeeps` says that the text fits the budget, that a request that waits
still finds the entry it was about and is asked once (`Promises`), and that the text a
run between its check and its replacement is about to write fits as well (`Ready`).

For the claims it proves `ClaimsStand` (`ClaimSafety`) and `ClaimsRetired`
(`RetiredForGood`), for any persons, actors, fields, evidence and controllers.
`ClaimsInv` adds to the property `Tables` (rows have their shape, the trail is
finite) and `TrailTells` (a change is about a claim of its person, waits
unconfirmed, and is the only one with its key): without it a confirmation could
make two rows one, or confirm one twice, and `RevisionTellsAll`, which counts
rows, would not be inductive. Each operation is shown to let the tables grow (`Grows`) and to keep what was
consented to (`ConsentKept`).

For the intentions it proves `WordsSaidOnce` (`IntentSafety`) for any wishes,
chats, attempts and bus. `AutoInv` is `Shapes`, `LedgerTells` (no words were
seen twice, none where the ledger's row is free, and some where it says sent),
`CopiesHonest` (the heartbeat's and the tools'
copies count as shared only what was said: a stale copy may forget, never
invent), `ReceiptsHonest` (at most one event is awaited, it is about the intention the heartbeat
waits for, and a "yes" means that its words were seen) and `TimeKept`.

`PersonaRuntimeProofs` proves `EngineKept` (`EngineSafety`) and `EventsServed`
(`EventsMeetTheLiving`). `RuntimeInv` is `CoreShape` and three parts that tell what
the place of each actor implies: `LifeTells` (which engines are open, busy and
retiring at each await under the lock), `TaskTells` (who may hold the
lock, by the place of the task and of the shutdown), `SidesTell` (an adapter is
bound to the published engine or to one marked as retiring, and which adapters
and handlers are already on the new one).

`BackgroundProofs` proves, of the picture jobs, `JobsKept` (`JobSafety`) and `UncertainForGood`
(`UncertainStaysSo`). `VisualInv` is `RequestInv` (the boundary of a binding tells
how many requests went out, and where the code without an await stands with it),
`MoneyInv` (everything that is held for a job and was not given back is
charged, so that a refund cannot take back another job's charge), `PictureInv`
(an entry that can show a picture is one whose picture came while nothing was
withdrawn), `TurnInv` (once the agent's turn has run a tool, its entry says so and
no further turn begins) and `TakenInv` (what the worker has taken up has a row).
It also proves `RevisionsKept` (`RevisionSafety`). `RevisionInv` adds to the three parts
what a handler relies on over its commits (`DeskTells`: the revision it is about to make
formal exists, the number it has taken is still empty, a deletion it carries out is on
file; in one process also that nothing was deleted or retired meanwhile) and that no
number beyond `head` is used (`Unused`). Without `DeskTells` the comparison of the
pointer alone would let a late write mark a revision that was never made.

Of the memory units it proves `UnitsKept` (`UnitSafety`) and `VectorsKept`
(`VectorsOutliveSaves`), for any messages, units, batch sizes, requests, files,
restarts and deaths, with both processes at work and nothing assumed about when.
The two halves have an inductive invariant each. `MemoryInv` says of every writer
what it holds between its read and its write: as long as its copy is `current`, a
list that *carries* the file (`Carries`: it covers the same messages, and shows
every unit, under its own id or among those merged into another, in the user's
words where they were). Verdicts preserve that (`VerdictCarries`), so a report
carries what its scan has seen (`JobTells`), a list under the lock carries the file
(`KeeperTells`, `ClerkTells`), a synchronous stretch too (`SyncTells`), and an edit
all but what it deletes (`WebTells`); between the two writes of a PUT the unit
counts where it is, in the handler's hands (`HandTells`). A write from a current
copy therefore loses nothing, and one from an outdated copy books what it undoes
(`WriteTells`). `OneWriter` says that no two tasks of the worker are between read
and write at once, except the scan, whose report is compared with the file first.
The cache knows the sources on file (`CacheTells`), which is why a batch never
contains one.

`VectorInv` says that each list that may become the JSON file - the one there, the
one about to be committed by either saver, the one the web interface holds - fits
the vector file it will stand beside (`Paired`, `Aimed`: every offset lies in it and
finds the vector of the text whose print is beside the offset), that no text that
had a vector in the file read loses it (`Outlives`), and that a file not yet named
is known to its saver alone (`OwnFile`), so the other's clean-up cannot take it.
`BlobHolds` proves that packing puts each vector at the offset counted for it.

`InboundTurnProofs` proves `InboundKept` (`InboundSafety`). `InboundInv` adds to the
properties `MessageTells` (what a task's place says of transcript, verdict and
lease), `Apart` (one message at a time is inside the chat's lock; two messages never share
a lease, nor a message and a delivery), `KeptTells` (a turn under an active lease
keeps it, and a kept lease is that of a turn that works or of an answer that
waits) and `PhaseTells` (no delivery outlives the cancellation of the handlers).

`PlatformLinkProofs` proves `LinkKept` (`LinkSafety`). `LinkInv` adds `CallTells`
(a call's place tells whether its request may be under way and whether its future
is registered), which makes `HonestOutcome` inductive, and `CutTells` (once
`close()` has cut the loop off nothing connects any more).

Checked by TLC only. Liveness under fairness is beyond the proof system:
`OrphanFreed`, `EveryItemEnds`, `StashIsResolved`, `ShutdownEnds`,
`SlotComesBack`, `NothingHangs`. Every invariant and every other action property of
the passing runs is proved.
The other way round, `TypeOK` of the first three modules is proved and no run
lists it.

## 6. Findings

Each of the first three has a run in which TLC finds the disagreement.

`addressed`: the comment at `core/group_dispatcher.py:622` says that a message
which explicitly names a persona "must never be silently dropped". It is when
the collection window closes before the named worker has submitted: the worker
that polls finalizes with the candidates there are, finds none eligible
(lines 649-655), and the event is observed. The named worker's submission then
finds the event closed (lines 393-394).

`work_requeued`: a message stashed in work mode that names nobody enters the
prompt at the very next round, because the loop calls `take_flushed_for_model`
whether or not `take_flushed` released anything (`core/bg_tasks_delayed.py:834`);
its payload stays in `replay`, so the persona, who has read it, is asked about it
again when the work ends. The comment two lines above and the test at
`tests/test_reply_sending_window.py:400` say otherwise.

`deaf`: after a rebuild has failed there is no engine, and a reload request, the
user's way to have one built, is read, deleted and skipped because there is none
(`persona_worker.py:309`). The log lines at `platforms/runtime.py:966`
("initialised again on next access") and 735 ("retrying in ... seconds") promise
what nothing does: the persona stays deaf until the process is restarted.

The rest have no run of their own. Each is a definition of its module, which TLC
refutes when it is given as a property on the bounds of the module's run:

* `WorkMode!WindowIsShut`: `inject_tool_chain_message` checks the window, awaits
  the captioning of pictures and appends without looking again
  (`core/engine_core.py:1442`). If the turn ends in between, the message turns
  up in the first round of an unrelated turn, which the comment at 1478 says must
  not happen.
* `WorkMode!AcceptedIsRead`: an addressed message accepted after the last round,
  or into a window that `enter_work_mode` closes, is discarded unread
  (`core/engine_core.py:1481`) although it was kept from the ordinary path.
* `WorkMode!WorkHasResult`: a `quit_work_mode` result that holds nothing but a
  poke or an unknown sticker marker passes the check for emptiness
  (`core/bg_tasks_delayed.py:1025`), becomes empty when the markers are taken
  out, and the turn sends nothing, against the comment at 1482.
* `WorkMode!WorkTextStaysInside`: text without a tool call in the last permitted
  round of work mode becomes the reply (`core/bg_tasks_delayed.py:1476`), although
  the docstring at 552 says that the model's own text is never sent in work mode.
* `Autonomy!WishSurvives`: an intention that a tool forms while the heartbeat waits
  for a delivery is lost, because the copy loaded before the delivery is saved
  after it (`tools/builtin/autonomy.py:158-165`, 214-215); `core/intent.py:6` says
  that intentions survive across ticks.
* `PlatformLink!HeardAgain`: a frame whose handling raises, such as JSON that is
  not an object (`adapter.py:871`), ends the listener (866) while the socket
  stays open. The reconnect loop finds it open and pauses for ever (745, 787): the
  adapter is offline in silence, which the docstring at 737 says must not happen.

Unit files have two writing processes and a lock in only one of them
(`memory/units/manager.py:47`; `webui/memory_api.py:901`, 944 and 996 look at the
announced apply and at nothing else). The properties of section 3 except what follows
from it, so it is told here; TLC shows each trace when the exception is taken out:

* `MemoryUnits!TracedUnits` without `overtaken`: a unit the user writes while the
  worker awaits a verdict is overwritten by the worker's save, and a rebuild of the
  embeddings, which awaits the model with the whole file in hand, takes back both
  the worker's and the user's writes. A PUT removes the unit and writes it again
  (980-986): if the web process dies in between the unit is gone, and a worker that
  reads in between saves without it.
* The status of a maintenance job is written after its request (1025-1028,
  1051-1057): the worker may have claimed the request by then, and a late "queued"
  covers "applying", so that edits are let in during the apply, or "completed", so
  that no later scan is accepted. A worker that dies while it applies leaves
  "applying" behind, and all edits are refused until somebody removes the file.
* `VectorFiles!NamedFileIsThere` without `crossed`: an edit asks for the name of the
  vector file, the worker replaces the JSON file and deletes the old vector file,
  the edit is written and names the deleted one. Later saves of that group fail,
  because the named file must open (`memory/units/store.py:275`).
* `VectorFiles!NeverMispaired` without `crossed`: the worker loads; a PUT makes its
  first write; the worker saves a new vector file with other offsets; the PUT
  reads again and appends its unit with the offset in the old file. If only other
  fields than the text changed, the unit is read with another text's vector. The
  comment at `memory/units/store.py:226` says that this cannot come about, of a save
  that is interrupted, which is true.

Everything else that is checked here holds.

Not claimed as findings, since nothing in the repository promises otherwise; each
was met while reading, and is outside the models or left open by them:

* Dispatcher and inbound path. The peer conversation is bounded by
  `max_peer_turns`, but loops, drafts and follow-ups reopen it
  (`core/group_dispatcher.py:477`). An event that another worker finalizes in our
  favour after our task was cancelled or gave up holds the group until the lease
  lapses (`adapter.py:2434`); `FloorIsUsed` has the exception for it.
  `_deliver_delayed_event` gives back the kept lease of the group, which may be a
  later turn's. Between unbinding and rebinding an adapter bids with the legacy
  candidate's top score (2219). A human message whose retry deadline passes is
  neither observed nor answered (2425). An inbound reply is sent without fence or
  heartbeat, so its lease may lapse before it is through (2130). A peer's message may
  be stashed when it is observed and presented again by the retry (2186).
* Connection. The pacing mark is set only after a success (934). A cancelled call
  that was irreversible ends as an ordinary exception, which the canceller does
  not see (960, 974).
* Delayed queue. Messages merged into a waiting item are not saved until the next
  save of the group (`core/engine_core.py:1869`). Items without a reply, uncertain or
  failed stay in `_in_flight` and in the file (`core/delayed_response_queue.py:469`).
  A failing save between taking and staging leaves an item taken
  (`core/bg_tasks_delayed.py:440`). The last write of a run's trace may fail three
  times and is not made up for (`core/work_mode.py:291`).
* Workflow. A reset starts the revisions at 0 again, so a turn from before it may
  hold a revision that fits (`WorkflowState` has the run in the record). A
  synchronous tool that timed out goes on in its thread (`tools/executor.py:377`).
* Autonomy. An intention whose audience is changed after a time-out may be told in
  two chats (`core/intent.py:265`): `NeverSaidTwice` is per chat. An urgent share
  that cannot be delivered keeps all others waiting (`tools/builtin/autonomy.py:163`).
* People. A claim that has been superseded can be corrected again, which leaves two
  successors (`people/service.py:1029`).
* Memory. Raw messages since the last save are lost in a crash. A request or
  reconciliation file that a crash leaves in its `.processing` form is not taken up
  again (`core/bg_tasks.py:370`, 447). `save_many_atomically` replaces its files one
  after the other (`memory/units/store.py:386`).
* Picture jobs. A refund goes to the bucket of the day on which it is made
  (`visual/policies.py:189`); the
  deployment's counter is read and written back outside a transaction (149);
  the mark of a refunded budget is overwritten by that of the grant (453). A crash
  between the request and its record tells the user of a failure although the
  picture was paid for (`tools/builtin/image_generate.py:1262`); a crash between the
  reservation and the binding leaves the reservation charged (371).
* Revisions. With two processes, a retirement that has seen its revision formal clears
  the pointer without comparing (`visual/service.py:1042`) and takes away what the other
  has just made formal (`lost`), and an activation that read the status before a
  retirement makes the retired revision formal again (1215, 1262): `GoneForGood` is
  stated for one process. A crash between the commits at 1039 and 1042 leaves the pointer on a
  retired revision. An activation by an administrator without evidence has the key of
  an earlier one with the same predecessor, so that A, B, A, B ends with `already_processed`
  and A formal (1242-1253); a `stage` with activation that was cut off in between is answered
  `already_processed` when it is repeated, with the draft left as it is (463). `auto_candidates`
  counts the answer `candidate_exists` as submitted (2347): with a limit of one, a grant
  whose candidate has been superseded or retired keeps the later grants waiting.
* Runtime. The flag file is read, merged and written by the web interface without
  a lock, and an `mcp` request can be dropped with others (`persona_worker.py:297`,
  339). One adapter whose rebinding fails leaves the later ones unbound (349).
* Plugins and others. Handlers of one plugin share its context
  (`plugins/executor.py:295`); two first commands create two instances (286), and
  unloading does not wait for a command (370); cron's Sunday, 0, never matches
  (`plugins/scheduler.py:228`); a new concurrency limit replaces the semaphore under
  its holders (`core/brain.py:847`); keys are saved one after the other
  (`providers/amkr_sync.py:388`).

## 7. Not modelled, and why

Of the components modelled, what is left out is named in section 2. In particular
saving the delayed queue always succeeds in `DelayedDelivery`, private chats have
no `InboundTurn`, and the order of replayed messages is not in `WorkMode`.

Not modelled at all:

* Plugins: declaration, look-up and calls into plugin code; what its scheduler and
  unloading leave open is listed above. AMKR synchronisation is one pass over a
  remote catalogue.
* Cognition, semantic and user memory: stores that one writer appends to.
* Participation, rhythm, emotion and intent scores: arithmetic that decides which
  strategy is chosen. Every model takes any choice, so what is shown holds whatever
  the scores are.
* Model providers, embedding, web look-up, built-in wrappers: HTTP or a shell with
  no state of their own. Their time-outs and failures are in the models that wait
  for them.
* Prompts, personas, markers, stickers, formatting, configuration, logging and
  token statistics: text.
* The web interface: handlers over stores. What they do to state shared with the
  worker (units, duplicate reports, the flag file) is in `MemoryUnits`,
  `VectorFiles` and `PersonaRuntime`. The browser client and the scripts keep none
  of the engine's state.

The models map about a seventh of the implementation's lines. Most of the rest is
of the kinds above; a model of it would restate assignments. The next candidates,
were the work to go on, are failing saves of the queue file, private chats and plugin
unloading.
