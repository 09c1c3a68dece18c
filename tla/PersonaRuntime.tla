----------------------------- MODULE PersonaRuntime -----------------------------
(***************************************************************************)
(* A persona's worker process: the engine's life (platforms/runtime.py),   *)
(* the heartbeat that takes up reload requests, the task that rebuilds the *)
(* engine and the clean-up at the end (persona_worker.py), the adapters    *)
(* that are bound to an engine (NapCat adapter), and the web interface, a  *)
(* second process that changes the configuration and leaves a request in a *)
(* flag file.  The worker is one event loop: a step ends at an await.  An  *)
(* engine's life is guarded by a lock; cancellation may meet its holder at *)
(* any await.                                                              *)
(***************************************************************************)
EXTENDS Naturals

CONSTANTS
  Adapters,
  Engines,      \* engine objects; one is used again when nobody refers to it
  NoEngine,
  MaxFailures   \* bound: builds that fail

ASSUME RuntimeConstantsOK == NoEngine \notin Engines /\ MaxFailures \in Nat

VARIABLES
  engine,    \* EngineRuntime._engine
  making,    \* _building_engine
  alive,     \* engines with an open event bus, plugins, MCP connections
  busy,      \* engines whose background tasks run
  retiring,  \* engines marked _runtime_retiring
  life,      \* the holder of _engine_lock, where it is, what comes after the teardown
  task,      \* run()'s start, or _engine_reload_task, and the adapters it has still to bind
  adapter,   \* each adapter: off, on or detaching, and its engine
  handler,   \* each adapter's handler of a platform event
  stale,     \* what was changed on disk and is not yet in the engine
  flag,      \* engine_state/reload_requested: the types in it
  web,       \* the web interface between writing the configuration and the flag
  beat,      \* _check_config_reload between read and unlink: the types it has read
  exit,      \* shutdown() and _cleanup
  failures

runtimeVars == <<engine, making, alive, busy, retiring, life, task, adapter, handler,
                 stale, flag, web, beat, exit, failures>>

ReloadTypes == {"mcp", "hot"}   \* what only a rebuild applies, what is applied in place
Unheld == [at |-> "free", after |-> "nothing"]
NoTask == [at |-> "none", left |-> {}]
NoHandler == [at |-> "none", engine |-> NoEngine]
NoWriter == [at |-> "rest", types |-> {}]

RuntimeInit ==
  /\ engine = NoEngine /\ making = NoEngine /\ alive = {} /\ busy = {} /\ retiring = {}
  /\ life = [at |-> "building", after |-> "nothing"]
  /\ task = [at |-> "starting", left |-> Adapters]
  /\ adapter = [a \in Adapters |-> [at |-> "off", engine |-> NoEngine]]
  /\ handler = [a \in Adapters |-> NoHandler]
  /\ stale = {} /\ flag = {} /\ web = NoWriter /\ beat = {} /\ exit = "no" /\ failures = 0

engineVars == <<engine, making, alive, busy, retiring>>
files == <<stale, flag, web, beat>>
sides == <<adapter, handler>>

\* Reading and removing the flag is one stretch without an await; only the web comes between.
Loop == beat = {}
Starting == task.at = "starting"

-----------------------------------------------------------------------------
(* The end of an engine: _reload_engine_locked.                              *)

Retire(e, after) ==
  /\ engine' = e /\ retiring' = retiring \cup ({e} \ {NoEngine})
  /\ life' = [at |-> "unloading", after |-> after]

\* rebuild_engine, with the lock: the engine is marked, its state saved, plugins are unloaded.
BeginRebuild ==
  /\ Loop /\ task.at = "waiting" /\ life = Unheld
  /\ Retire(engine, "build") /\ task' = [task EXCEPT !.at = "rebuilding"]
  /\ UNCHANGED <<making, alive, busy, sides, files, exit, failures>>

Stopped == busy \ {engine}

StopBackground ==
  /\ Loop /\ life.at = "unloading"
  /\ busy' = Stopped /\ life' = [life EXCEPT !.at = "closing"]
  /\ UNCHANGED <<engine, making, alive, retiring, task, sides, files, exit, failures>>

\* A rebuild goes on to build; a failed or cancelled one ends here, and so does stop().
CloseEngine ==
  /\ Loop /\ life.at = "closing"
  /\ alive' = alive \ {engine} /\ engine' = NoEngine /\ making' = NoEngine
  /\ life' = IF life.after = "build" THEN [at |-> "building", after |-> "nothing"] ELSE Unheld
  /\ task' = IF life.after = "raise" THEN NoTask ELSE task
  /\ exit' = IF life.after = "close"
               \/ (life.after = "raise" /\ Starting) THEN "closed" ELSE exit
  /\ UNCHANGED <<busy, retiring, sides, files, failures>>

-----------------------------------------------------------------------------
(* The making of an engine: _ensure_engine_locked, _build_engine.            *)

Referred == {engine, making} \cup alive
            \cup {adapter[a].engine : a \in Adapters} \cup {handler[a].engine : a \in Adapters}

\* The configuration is read, the engine made, tools and plugins are set up.
MakeEngine(e) ==
  /\ Loop /\ life.at = "building" /\ e \in Engines \ Referred
  /\ making' = e /\ alive' = alive \cup {e} /\ retiring' = retiring \ {e}
  /\ stale' = {} /\ life' = [life EXCEPT !.at = "setup"]
  /\ UNCHANGED <<engine, busy, task, sides, flag, web, beat, exit, failures>>

PublishEngine ==
  /\ Loop /\ life.at = "setup"
  /\ engine' = making /\ busy' = busy \cup {making}
  /\ life' = [life EXCEPT !.at = "publishing"]
  /\ UNCHANGED <<making, alive, retiring, task, sides, files, exit, failures>>

WrongLockReturned == [at |-> "free", after |-> "raise"]
LockReturned == Unheld

\* The schedulers run; the lock is given back.
EngineReady ==
  /\ Loop /\ life.at = "publishing"
  /\ making' = NoEngine /\ life' = Unheld
  /\ task' = IF Starting THEN task ELSE [at |-> "rebinding", left |-> Adapters]
  /\ UNCHANGED <<engine, alive, busy, retiring, sides, files, exit, failures>>

\* What is torn down when the making of an engine is broken off.
WrongLeftBehind == engine
LeftBehind == IF engine = NoEngine THEN making ELSE engine

\* No credentials, no embedding service: there is no engine yet. Tasks that do not start.
\* A start that fails ends the process.
BuildFails ==
  /\ Loop /\ failures < MaxFailures /\ failures' = failures + 1
  /\ \/ /\ life.at = "building"
        /\ life' = LockReturned /\ task' = NoTask
        /\ exit' = IF Starting THEN "closed" ELSE exit
        /\ UNCHANGED engineVars
     \/ /\ life.at = "publishing"
        /\ Retire(LeftBehind, "raise")
        /\ UNCHANGED <<making, alive, busy, task, exit>>
  /\ UNCHANGED <<sides, files>>

-----------------------------------------------------------------------------
(* Adapters: start_handling, rebind_engine, stop_handling.                   *)

StartAdapter(a) ==
  /\ Loop /\ Starting /\ life = Unheld /\ a \in task.left
  /\ adapter' = [adapter EXCEPT ![a] = [at |-> "on", engine |-> engine]]
  /\ task' = IF task.left = {a} THEN NoTask ELSE [task EXCEPT !.left = @ \ {a}]
  /\ UNCHANGED <<engineVars, life, handler, files, exit, failures>>

Detaching == \E a \in Adapters : adapter[a].at = "detaching"

\* _detach_engine_locked before its first await ...
DetachAdapter(a) ==
  /\ Loop /\ ~Detaching /\ adapter[a].at = "on"
  /\ \/ task.at = "rebinding" /\ a \in task.left
     \/ exit = "adapters"
  /\ adapter' = [adapter EXCEPT ![a] = [at |-> "detaching", engine |-> NoEngine]]
  /\ UNCHANGED <<engineVars, life, task, handler, files, exit, failures>>

Drained(a) == [handler EXCEPT ![a] = NoHandler]

StillToBind(a) == task.left \ {a}

\* ... its handlers are cancelled and awaited; then it is bound to the new engine, ...
BindAdapter(a) ==
  /\ Loop /\ task.at = "rebinding" /\ adapter[a].at = "detaching"
  /\ handler' = Drained(a)
  /\ adapter' = [adapter EXCEPT ![a] = [at |-> "on", engine |-> engine]]
  /\ task' = IF StillToBind(a) = {} THEN NoTask ELSE [task EXCEPT !.left = StillToBind(a)]
  /\ UNCHANGED <<engineVars, life, files, exit, failures>>

\* ... or, at the end, closed.
CloseAdapter(a) ==
  /\ Loop /\ exit = "adapters" /\ adapter[a].at = "detaching"
  /\ handler' = Drained(a)
  /\ adapter' = [adapter EXCEPT ![a].at = "off"]
  /\ UNCHANGED <<engineVars, life, task, files, exit, failures>>

\* _dispatch: a task for the event.
EventArrives(a) ==
  /\ Loop /\ adapter[a].at = "on" /\ handler[a] = NoHandler
  /\ handler' = [handler EXCEPT ![a].at = "queued"]
  /\ UNCHANGED <<engineVars, life, task, adapter, files, exit, failures>>

WrongAdmits(a) == adapter[a].at = "on"
\* _on_event, _engine_ready
Admits(a) == adapter[a].at = "on" /\ adapter[a].engine \notin retiring

HandlerBegins(a) ==
  /\ Loop /\ handler[a].at = "queued"
  /\ handler' = [handler EXCEPT ![a] =
       IF Admits(a) THEN [at |-> "running", engine |-> adapter[a].engine] ELSE NoHandler]
  /\ UNCHANGED <<engineVars, life, task, adapter, files, exit, failures>>

HandlerEnds(a) ==
  /\ Loop /\ handler[a].at = "running"
  /\ handler' = [handler EXCEPT ![a] = NoHandler]
  /\ UNCHANGED <<engineVars, life, task, adapter, files, exit, failures>>

-----------------------------------------------------------------------------
(* Requests.                                                                 *)

\* A page is saved: first the configuration, then the flag is read, merged and written.
EditConfig(t) ==
  /\ web.at = "rest"
  /\ stale' = stale \cup {t} /\ web' = [at |-> "saved", types |-> {t}]
  /\ UNCHANGED <<engineVars, life, task, sides, flag, beat, exit, failures>>

WebReadsFlag ==
  /\ web.at = "saved" /\ web' = [at |-> "merged", types |-> web.types \cup flag]
  /\ UNCHANGED <<engineVars, life, task, sides, stale, flag, beat, exit, failures>>

WebWritesFlag ==
  /\ web.at = "merged" /\ flag' = web.types /\ web' = NoWriter
  /\ UNCHANGED <<engineVars, life, task, sides, stale, beat, exit, failures>>

\* The heartbeat runs after the start until shutdown(); the flag has been quiet for 2 seconds.
BeatReadsFlag ==
  /\ Loop /\ exit = "no" /\ ~Starting /\ flag # {}
  /\ beat' = flag
  /\ UNCHANGED <<engineVars, life, task, sides, stale, flag, web, exit, failures>>

\* The flag is removed. Without an engine the request is gone; with one, what can be applied in
\* place is, and a rebuild is scheduled unless one is under way.
BeatTakesUp ==
  /\ beat # {}
  /\ flag' = {} /\ beat' = {}
  /\ stale' = IF engine = NoEngine THEN stale ELSE stale \ (beat \cap {"hot"})
  /\ task' = IF engine # NoEngine /\ "mcp" \in beat /\ task = NoTask
               THEN [at |-> "waiting", left |-> {}] ELSE task
  /\ UNCHANGED <<engineVars, life, sides, web, exit, failures>>

-----------------------------------------------------------------------------
(* shutdown() and _cleanup.                                                  *)

Shutdown ==
  /\ Loop /\ exit = "no" /\ exit' = "asked"
  /\ UNCHANGED <<engineVars, life, task, sides, files, failures>>

\* _await_cleanup: a teardown goes on to its end, then the cancellation is raised.
Cancelled == [life EXCEPT !.after = "raise"]

\* The rebuild is cancelled wherever it is, and awaited.
CancelRebuild ==
  /\ Loop /\ exit = "asked" /\ ~Starting /\ exit' = "cancelled"
  /\ \/ task.at = "none" /\ UNCHANGED <<engineVars, life, task>>
     \/ task.at = "waiting" /\ task' = NoTask /\ UNCHANGED <<engineVars, life>>
     \/ /\ task.at = "rebuilding" /\ life.at \in {"unloading", "closing"}
        /\ life' = Cancelled /\ UNCHANGED <<engineVars, task>>
     \/ /\ task.at = "rebuilding" /\ life.at = "building"
        /\ life' = LockReturned /\ task' = NoTask /\ UNCHANGED engineVars
     \/ /\ task.at = "rebuilding" /\ life.at \in {"setup", "publishing"}
        /\ Retire(LeftBehind, "raise") /\ UNCHANGED <<making, alive, busy, task>>
     \/ /\ task.at = "rebinding" /\ UNCHANGED <<engineVars, life>>
        /\ \/ task' = NoTask
           \/ UNCHANGED task     \* the await on the old listener swallows it
  /\ UNCHANGED <<sides, files, failures>>

RebuildOver == task = NoTask

CloseAdapters ==
  /\ Loop /\ exit = "cancelled" /\ RebuildOver /\ exit' = "adapters"
  /\ UNCHANGED <<engineVars, life, task, sides, files, failures>>

\* stop(): nothing may be published any more; teardown, then the stores are closed.
StopRuntime ==
  /\ Loop /\ exit = "adapters" /\ \A a \in Adapters : adapter[a].at = "off"
  /\ life = Unheld /\ Retire(engine, "close") /\ exit' = "stopping"
  /\ UNCHANGED <<making, alive, busy, task, sides, files, failures>>

RuntimeStep ==
  \/ BeginRebuild \/ StopBackground \/ CloseEngine \/ (\E e \in Engines : MakeEngine(e))
  \/ PublishEngine \/ EngineReady
  \/ \E a \in Adapters : StartAdapter(a) \/ DetachAdapter(a) \/ BindAdapter(a) \/ CloseAdapter(a)
  \/ BeatTakesUp \/ CancelRebuild \/ CloseAdapters \/ StopRuntime

RuntimeNext ==
  \/ RuntimeStep \/ BuildFails \/ Shutdown \/ BeatReadsFlag
  \/ \E a \in Adapters : EventArrives(a) \/ HandlerBegins(a) \/ HandlerEnds(a)
  \/ (\E t \in ReloadTypes : EditConfig(t)) \/ WebReadsFlag \/ WebWritesFlag

RuntimeSpec == RuntimeInit /\ [][RuntimeNext]_runtimeVars

(* The event loop runs whatever is ready, every await of the engine's life  *)
(* is bounded by a time-out or a cancellation; the heartbeat never stops,   *)
(* and the user, seeing no change, saves again.                             *)
RuntimeFair ==
  /\ WF_runtimeVars(RuntimeStep)
  /\ SF_runtimeVars(BeatReadsFlag) /\ WF_runtimeVars(EditConfig("mcp"))
  /\ WF_runtimeVars(WebReadsFlag) /\ WF_runtimeVars(WebWritesFlag)

RuntimeFairSpec == RuntimeSpec /\ RuntimeFair

-----------------------------------------------------------------------------
(* Properties.                                                               *)

(* The variables have their types; a handler that runs has an engine.       *)
RuntimeTyped ==
  /\ {engine, making} \subseteq Engines \cup {NoEngine}
  /\ busy \subseteq alive /\ alive \cup retiring \subseteq Engines
  /\ \A a \in Adapters : /\ handler[a].at = "running" <=> handler[a].engine \in Engines
                         /\ adapter[a].at = "on" <=> adapter[a].engine \in Engines
  /\ life.at \in {"free", "unloading", "closing", "building", "setup", "publishing"}
  /\ stale \subseteq ReloadTypes /\ failures \in 0..MaxFailures

(* _engine_lock, _building_engine: whatever fails or is cancelled on the    *)
(* way, never are two engines open, none is forgotten open, and only the    *)
(* published one works in the background.                                   *)
OneEngineAlive ==
  /\ alive \subseteq {engine, making}
  /\ \A e, f \in alive : e = f
  /\ busy \subseteq {engine}

(* _runtime_retiring: no event is begun with an engine that is on its way   *)
(* out, nor with one that was never published.                              *)
EventsMeetTheLiving ==
  [][\A a \in Adapters : handler[a].at = "queued" /\ handler'[a].at = "running" =>
       handler'[a].engine = engine /\ engine \notin retiring]_runtimeVars

(* rebind_engine: when the task has ended, every adapter serves the engine  *)
(* there is, and nobody works with an older one.                            *)
AdaptersFollow ==
  task = NoTask /\ life = Unheld /\ exit = "no" /\ engine # NoEngine =>
    \A a \in Adapters : /\ adapter[a] = [at |-> "on", engine |-> engine]
                        /\ handler[a].engine \in {NoEngine, engine}

(* _closed: after stop() has closed the persona's database no engine, no    *)
(* background task and no handler is left to use it.                        *)
ClosedForGood ==
  exit = "closed" =>
    /\ engine = NoEngine /\ alive = {} /\ busy = {} /\ task = NoTask
    /\ \A a \in Adapters : handler[a] = NoHandler

(* Rebuilds, failures, cancellation and shutdown leave one engine or none,  *)
(* and the adapters with it.                                                *)
EngineSafety == RuntimeTyped /\ OneEngineAlive /\ AdaptersFollow /\ ClosedForGood

(* _cleanup waits for the rebuild it has cancelled and for the lock: it     *)
(* gets to its end from wherever shutdown() has met the worker.             *)
ShutdownEnds == exit = "asked" ~> exit = "closed"

(* "engine marked for rebuild, will be initialised on next access"          *)
(* (_reload_engine_locked), "retrying in ... seconds" (_build_engine): an   *)
(* engine comes back, at the latest when the user asks for a reload.  After *)
(* one failed rebuild it does not.                                          *)
EngineComesBack == (engine = NoEngine /\ exit = "no") ~> (engine # NoEngine \/ exit # "no")
=============================================================================
