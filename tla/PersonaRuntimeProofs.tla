-------------------------- MODULE PersonaRuntimeProofs --------------------------
(***************************************************************************)
(* What TLAPS proves of PersonaRuntime, for any number of adapters, engine *)
(* objects and failures.  The argument follows the lock: its holder's      *)
(* place tells which of _engine and _building_engine is open, its task     *)
(* tells who may take it next, and what an adapter is bound to is either   *)
(* the published engine or marked as on its way out.                       *)
(***************************************************************************)
EXTENDS PersonaRuntime, TLAPS

Objects == Engines \cup {NoEngine}
Life == [at : {"free", "unloading", "closing", "building", "setup", "publishing"},
         after : {"nothing", "build", "raise", "close"}]
Task == [at : {"none", "starting", "waiting", "rebuilding", "rebinding"}, left : SUBSET Adapters]
Binding == [at : {"off", "on", "detaching"}, engine : Objects]
Handler == [at : {"none", "queued", "running"}, engine : Objects]

CoreShape ==
  /\ engine \in Objects /\ making \in Objects
  /\ alive \subseteq Engines /\ busy \subseteq Engines /\ retiring \subseteq Engines
  /\ life \in Life /\ task \in Task
  /\ exit \in {"no", "asked", "cancelled", "adapters", "stopping", "closed"}
  /\ exit # "no" => beat = {}
  /\ stale \subseteq ReloadTypes /\ failures \in 0..MaxFailures

(* What is open, by the place of the lock's holder. *)
LifeTells ==
  /\ busy \subseteq {engine} /\ busy \subseteq alive
  /\ life.at = "free" =>
       life.after = "nothing" /\ making = NoEngine /\ alive = {engine} \ {NoEngine} /\ engine \notin retiring
  /\ life.at \in {"unloading", "closing"} =>
       /\ life.after # "nothing" /\ making \in {NoEngine, engine}
       /\ alive \subseteq {engine} /\ engine \in retiring \cup {NoEngine}
  /\ life.at = "closing" => busy = {}
  /\ life.at = "building" =>
       life.after = "nothing" /\ engine = NoEngine /\ making = NoEngine /\ alive = {}
  /\ life.at = "setup" =>
       life.after = "nothing" /\ engine = NoEngine /\ making \in Engines \ retiring /\ alive = {making}
  /\ life.at = "publishing" =>
       life.after = "nothing" /\ engine = making /\ making \in Engines \ retiring /\ alive = {making}

(* Who holds the lock, by the task and the end of the process. *)
TaskTells ==
  /\ task.at \in {"none", "waiting"} => task.left = {}
  /\ task.at = "none" => life.at = "free" \/ life.after = "close"
  /\ task.at \in {"waiting", "rebinding"} => life.at = "free"
  /\ task.at = "rebinding" => engine \in Engines
  /\ task.at = "starting" =>
       /\ life.after \in {"nothing", "raise"} /\ exit \in {"no", "asked"}
       /\ life.at = "free" => engine \in Engines
       /\ life.at # "free" => task.left = Adapters
  /\ task.at = "rebuilding" => life.at # "free" /\ life.after # "close"
  /\ exit \in {"adapters", "stopping", "closed"} => task.at = "none"
  /\ life.after = "close" => exit = "stopping"
  /\ exit = "stopping" => life.after = "close"
  /\ exit = "closed" => life.at = "free" /\ engine = NoEngine

(* What the adapters and their handlers work with. *)
SidesTell ==
  /\ adapter \in [Adapters -> Binding] /\ handler \in [Adapters -> Handler]
  /\ \A a \in Adapters :
       /\ adapter[a].at = "on" <=> adapter[a].engine \in Engines
       /\ handler[a].at = "running" <=> handler[a].engine \in Engines
       /\ adapter[a].at = "on" /\ adapter[a].engine \notin retiring => adapter[a].engine = engine
       /\ adapter[a].at = "off" => handler[a] = NoHandler
       /\ (task.at = "starting" /\ life.at # "free") \/ exit \in {"stopping", "closed"} =>
            adapter[a].at = "off"
       /\ task.at = "starting" /\ a \in task.left => adapter[a].at = "off"
       /\ /\ task.at \in {"none", "starting", "rebinding"} /\ life.at = "free" /\ exit = "no"
          /\ engine # NoEngine /\ a \notin task.left
          => /\ adapter[a].at = "on" /\ adapter[a].engine = engine
             /\ handler[a].engine \in {NoEngine, engine}

RuntimeInv == CoreShape /\ LifeTells /\ TaskTells /\ SidesTell

-----------------------------------------------------------------------------
LEMMA RuntimeInitSafe == RuntimeInit => RuntimeInv
BY RuntimeConstantsOK
DEF RuntimeInit, RuntimeInv, CoreShape, LifeTells, TaskTells, SidesTell, Objects, Life, Task,
    Binding, Handler, NoHandler, NoTask, ReloadTypes

(* The engine's life. *)
LEMMA LifeSafe ==
  ASSUME RuntimeInv,
         BeginRebuild \/ StopBackground \/ CloseEngine \/ (\E e \in Engines : MakeEngine(e))
         \/ PublishEngine \/ EngineReady \/ BuildFails
  PROVE  RuntimeInv'
<1> USE RuntimeConstantsOK DEF RuntimeInv
<1>1. CASE BeginRebuild
  <2>1. CoreShape'
    BY <1>1 DEF BeginRebuild, Retire, Unheld, CoreShape, Life, Task, Objects, sides, files
  <2>2. LifeTells' /\ TaskTells'
    BY <1>1 DEF BeginRebuild, Retire, Unheld, CoreShape, Life, Task, Objects, LifeTells, TaskTells, sides, files
  <2>3. SidesTell'
    BY <1>1 DEF BeginRebuild, Retire, Unheld, CoreShape, Life, Task, TaskTells, SidesTell, sides
  <2> QED
    BY <2>1, <2>2, <2>3
<1>2. CASE StopBackground
  <2>1. CoreShape'
    BY <1>2 DEF StopBackground, Stopped, CoreShape, Life, files
  <2>2. LifeTells' /\ TaskTells'
    BY <1>2 DEF StopBackground, Stopped, CoreShape, Life, LifeTells, TaskTells
  <2>3. SidesTell'
    BY <1>2 DEF StopBackground, CoreShape, Life, SidesTell, sides
  <2> QED
    BY <2>1, <2>2, <2>3
<1>3. CASE CloseEngine
  <2>1. CoreShape'
    BY <1>3 DEF CloseEngine, CoreShape, Life, Task, NoTask, Unheld, Objects, files, Loop
  <2>2. LifeTells' /\ TaskTells'
    BY <1>3 DEF CloseEngine, CoreShape, Life, Task, NoTask, Unheld, Objects, LifeTells, TaskTells,
                Starting
  <2>3. SidesTell'
    BY <1>3 DEF CloseEngine, CoreShape, Life, Task, NoTask, Unheld, LifeTells, TaskTells, SidesTell,
                Starting, sides, Binding, Objects
  <2> QED
    BY <2>1, <2>2, <2>3
<1>4. ASSUME NEW e \in Engines, MakeEngine(e) PROVE RuntimeInv'
  <2>0. \A a \in Adapters : e # adapter[a].engine /\ e # handler[a].engine
    BY <1>4 DEF MakeEngine, Referred
  <2>1. CoreShape'
    BY <1>4 DEF MakeEngine, CoreShape, Life, Objects
  <2>2. LifeTells' /\ TaskTells'
    BY <1>4 DEF MakeEngine, CoreShape, Life, Objects, LifeTells, TaskTells
  <2>3. SidesTell'
    BY <1>4, <2>0 DEF MakeEngine, CoreShape, Life, LifeTells, SidesTell, sides
  <2> QED
    BY <2>1, <2>2, <2>3
<1>5. CASE PublishEngine
  <2>1. CoreShape'
    BY <1>5 DEF PublishEngine, CoreShape, Life, LifeTells, Objects, files
  <2>2. LifeTells' /\ TaskTells'
    BY <1>5 DEF PublishEngine, CoreShape, Life, LifeTells, TaskTells
  <2>3. SidesTell'
    BY <1>5 DEF PublishEngine, CoreShape, Life, LifeTells, SidesTell, sides
  <2> QED
    BY <2>1, <2>2, <2>3
<1>6. CASE EngineReady
  <2>1. CoreShape'
    BY <1>6 DEF EngineReady, CoreShape, Life, Task, Unheld, Objects, Starting, files
  <2>2. LifeTells' /\ TaskTells'
    BY <1>6 DEF EngineReady, CoreShape, Life, Task, Unheld, Objects, Starting, LifeTells, TaskTells
  <2>3. SidesTell'
    <3>1. /\ life.at = "publishing" /\ life'.at = "free" /\ UNCHANGED <<engine, retiring, adapter, handler, exit>>
          /\ task'.at # "none" /\ task'.left = Adapters
      BY <1>6 DEF EngineReady, Unheld, Starting, CoreShape, Life, Task, TaskTells, sides
    <3> QED
      BY <1>6, <3>1 DEF EngineReady, SidesTell, Starting
  <2> QED
    BY <2>1, <2>2, <2>3
<1>7. CASE BuildFails
  <2>1. CASE life.at = "building"
    <3>1. /\ life' = Unheld /\ task' = NoTask /\ UNCHANGED engineVars /\ UNCHANGED sides /\ UNCHANGED files
          /\ failures' = failures + 1 /\ failures < MaxFailures /\ beat = {}
          /\ exit' = IF Starting THEN "closed" ELSE exit
      BY <1>7, <2>1 DEF BuildFails, LockReturned, Loop
    <3>2. CoreShape'
      BY <3>1 DEF CoreShape, Life, Task, NoTask, Unheld, engineVars, files
    <3>3. LifeTells' /\ TaskTells'
      BY <2>1, <3>1 DEF CoreShape, Life, Task, NoTask, Unheld, engineVars, LifeTells, TaskTells, Starting
    <3>4. SidesTell'
      BY <2>1, <3>1 DEF NoTask, Unheld, engineVars, sides, LifeTells, SidesTell, Starting, TaskTells
    <3> QED
      BY <3>2, <3>3, <3>4
  <2>2. CASE life.at # "building"
    <3>1. /\ life.at = "publishing" /\ Retire(LeftBehind, "raise")
          /\ UNCHANGED <<making, alive, busy, task, exit>> /\ UNCHANGED sides /\ UNCHANGED files
          /\ failures' = failures + 1 /\ failures < MaxFailures
      BY <1>7, <2>2 DEF BuildFails
    <3>2. engine' = engine /\ retiring' = retiring \cup {engine} /\ engine \in Engines
          /\ life' = [at |-> "unloading", after |-> "raise"]
      BY <3>1 DEF Retire, LeftBehind, LifeTells
    <3>3. CoreShape'
      BY <3>1, <3>2 DEF CoreShape, Life, files
    <3>4. LifeTells' /\ TaskTells'
      BY <3>1, <3>2 DEF CoreShape, Life, LifeTells, TaskTells
    <3>5. SidesTell'
      BY <3>1, <3>2 DEF sides, SidesTell
    <3> QED
      BY <3>3, <3>4, <3>5
  <2> QED
    BY <2>1, <2>2
<1> QED
  BY <1>1, <1>2, <1>3, <1>4, <1>5, <1>6, <1>7

(* Adapters and their handlers. *)
LEMMA SidesSafe ==
  ASSUME RuntimeInv, NEW a \in Adapters,
         \/ StartAdapter(a) \/ DetachAdapter(a) \/ BindAdapter(a) \/ CloseAdapter(a)
         \/ EventArrives(a) \/ HandlerBegins(a) \/ HandlerEnds(a)
  PROVE  RuntimeInv'
<1> USE RuntimeConstantsOK DEF RuntimeInv
<1>1. UNCHANGED <<engineVars, life, files, exit, failures>>
  BY DEF StartAdapter, DetachAdapter, BindAdapter, CloseAdapter, EventArrives, HandlerBegins, HandlerEnds
<1>2. /\ task' \in Task
      /\ task' # task => task.at \in {"starting", "rebinding"} /\ life.at = "free" /\ task'.at \in {"none", task.at}
      /\ task'.at = "none" => task'.left = {}
  BY DEF StartAdapter, DetachAdapter, BindAdapter, CloseAdapter, EventArrives, HandlerBegins, HandlerEnds,
         CoreShape, TaskTells, Task, NoTask, Starting, Unheld, StillToBind
<1>3. CoreShape'
  BY <1>1, <1>2 DEF CoreShape, engineVars, files
<1>4. LifeTells'
  BY <1>1 DEF LifeTells, engineVars
<1>5. TaskTells'
  BY <1>1, <1>2 DEF TaskTells, engineVars, CoreShape, Task
<1>6. SidesTell'
  <2>1. CASE StartAdapter(a)
    <3>1. /\ life.at = "free" /\ task.at = "starting" /\ a \in task.left /\ UNCHANGED handler
          /\ adapter' = [adapter EXCEPT ![a] = [at |-> "on", engine |-> engine]]
          /\ task'.left = task.left \ {a} /\ task'.at \in {"none", "starting"}
      BY <2>1 DEF StartAdapter, Starting, Unheld, CoreShape, Task, NoTask
    <3> QED
      BY <1>1, <3>1 DEF engineVars, SidesTell, Binding, Objects, TaskTells, LifeTells, NoHandler
  <2>2. CASE DetachAdapter(a)
    BY <1>1, <2>2 DEF DetachAdapter, engineVars, SidesTell, Binding, Objects, NoHandler, TaskTells
  <2>3. CASE BindAdapter(a)
    <3>1. /\ task.at = "rebinding" /\ adapter[a].at = "detaching" /\ handler' = [handler EXCEPT ![a] = NoHandler]
          /\ adapter' = [adapter EXCEPT ![a] = [at |-> "on", engine |-> engine]]
          /\ task'.left = task.left \ {a} /\ task'.at \in {"none", "rebinding"}
      BY <2>3 DEF BindAdapter, Drained, StillToBind, CoreShape, Task, NoTask
    <3> QED
      BY <1>1, <3>1 DEF engineVars, SidesTell, Binding, Handler, Objects, TaskTells, LifeTells, NoHandler
  <2>4. CASE CloseAdapter(a)
    BY <1>1, <2>4 DEF CloseAdapter, Drained, engineVars, SidesTell, Binding, Handler, Objects, NoHandler
  <2>5. CASE EventArrives(a)
    BY <1>1, <2>5 DEF EventArrives, engineVars, SidesTell, Handler, Objects, NoHandler
  <2>6. CASE HandlerBegins(a)
    BY <1>1, <2>6 DEF HandlerBegins, Admits, engineVars, SidesTell, Binding, Handler, Objects, NoHandler
  <2>7. CASE HandlerEnds(a)
    BY <1>1, <2>7 DEF HandlerEnds, engineVars, SidesTell, Handler, Objects, NoHandler
  <2> QED
    BY <2>1, <2>2, <2>3, <2>4, <2>5, <2>6, <2>7
<1> QED
  BY <1>3, <1>4, <1>5, <1>6

(* Requests from the web interface. *)
LEMMA RequestsSafe ==
  ASSUME RuntimeInv,
         BeatTakesUp \/ BeatReadsFlag \/ (\E t \in ReloadTypes : EditConfig(t)) \/ WebReadsFlag \/ WebWritesFlag
  PROVE  RuntimeInv'
<1> USE RuntimeConstantsOK DEF RuntimeInv
<1>1. UNCHANGED <<engineVars, life, sides, exit, failures>>
  BY DEF BeatTakesUp, BeatReadsFlag, EditConfig, WebReadsFlag, WebWritesFlag
<1>2. stale' \subseteq ReloadTypes /\ (exit # "no" => beat' = {})
  BY DEF BeatTakesUp, BeatReadsFlag, EditConfig, WebReadsFlag, WebWritesFlag, CoreShape
<1>3. task' = task \/ (task = NoTask /\ task' = [at |-> "waiting", left |-> {}] /\ exit = "no")
  BY DEF BeatTakesUp, BeatReadsFlag, EditConfig, WebReadsFlag, WebWritesFlag, CoreShape
<1>4. CoreShape' /\ LifeTells'
  BY <1>1, <1>2, <1>3 DEF CoreShape, LifeTells, engineVars, Task
<1>5. TaskTells'
  BY <1>1, <1>3 DEF TaskTells, engineVars, NoTask
<1>6. SidesTell'
  BY <1>1, <1>3 DEF SidesTell, engineVars, sides, NoTask
<1> QED
  BY <1>4, <1>5, <1>6

(* The end of the process. *)
LEMMA ExitSafe ==
  ASSUME RuntimeInv, Shutdown \/ CancelRebuild \/ CloseAdapters \/ StopRuntime
  PROVE  RuntimeInv'
<1> USE RuntimeConstantsOK DEF RuntimeInv
<1>1. UNCHANGED sides /\ UNCHANGED files /\ UNCHANGED failures /\ beat = {} /\ exit' # "no"
  BY DEF Shutdown, CancelRebuild, CloseAdapters, StopRuntime, Loop
<1>2. CASE Shutdown \/ CloseAdapters
  BY <1>1, <1>2 DEF Shutdown, CloseAdapters, RebuildOver, NoTask, engineVars, sides, files,
                    CoreShape, LifeTells, TaskTells, SidesTell
<1>3. CASE CancelRebuild
  <2>1. exit = "asked" /\ exit' = "cancelled" /\ task.at # "starting"
    BY <1>3 DEF CancelRebuild, Starting
  <2>2. CASE UNCHANGED <<engineVars, life>> /\ (task' = NoTask \/ UNCHANGED task) /\ life.at = "free"
    BY <1>1, <2>1, <2>2 DEF engineVars, sides, files, NoTask, Task, CoreShape, LifeTells, TaskTells, SidesTell
  <2>3. CASE life.at \in {"unloading", "closing"} /\ life' = Cancelled /\ UNCHANGED <<engineVars, task>>
             /\ task.at = "rebuilding"
    BY <1>1, <2>1, <2>3 DEF Cancelled, Life, engineVars, sides, files, CoreShape, LifeTells, TaskTells, SidesTell
  <2>4. CASE life.at = "building" /\ life' = Unheld /\ task' = NoTask /\ UNCHANGED engineVars
    BY <1>1, <2>1, <2>4 DEF Unheld, NoTask, Life, Task, engineVars, sides, files, CoreShape, LifeTells, TaskTells, SidesTell
  <2>5. CASE /\ life.at \in {"setup", "publishing"} /\ Retire(LeftBehind, "raise")
             /\ UNCHANGED <<making, alive, busy, task>> /\ task.at = "rebuilding"
    <3>1. /\ engine' = making /\ making \in Engines /\ retiring' = retiring \cup {making}
          /\ life' = [at |-> "unloading", after |-> "raise"]
      BY <2>5 DEF Retire, LeftBehind, LifeTells
    <3>2. CoreShape' /\ LifeTells' /\ TaskTells'
      BY <1>1, <2>1, <2>5, <3>1 DEF files, CoreShape, Life, LifeTells, TaskTells
    <3>3. SidesTell'
      BY <1>1, <2>1, <2>5, <3>1 DEF sides, SidesTell, LifeTells
    <3> QED
      BY <3>2, <3>3
  <2>6. CASE task.at = "none" /\ UNCHANGED <<engineVars, life, task>>
    BY <1>1, <2>1, <2>6 DEF engineVars, sides, files, CoreShape, LifeTells, TaskTells, SidesTell
  <2> QED
    BY <1>3, <2>2, <2>3, <2>4, <2>5, <2>6 DEF CancelRebuild, LockReturned, TaskTells
<1>4. CASE StopRuntime
  <2>1. /\ engine' = engine /\ retiring' = retiring \cup ({engine} \ {NoEngine})
        /\ life' = [at |-> "unloading", after |-> "close"] /\ exit' = "stopping"
        /\ UNCHANGED <<making, alive, busy, task>> /\ life.at = "free"
        /\ \A a \in Adapters : adapter[a].at = "off"
    BY <1>4 DEF StopRuntime, Retire, Unheld
  <2>2. exit = "adapters"
    BY <1>4 DEF StopRuntime
  <2>3. CoreShape' /\ LifeTells' /\ TaskTells'
    BY <1>1, <2>1, <2>2 DEF files, CoreShape, Life, Objects, LifeTells, TaskTells
  <2>4. SidesTell'
    BY <1>1, <2>1 DEF sides, SidesTell
  <2> QED
    BY <2>3, <2>4
<1> QED
  BY <1>2, <1>3, <1>4

LEMMA RuntimeStepSafe == RuntimeInv /\ [RuntimeNext]_runtimeVars => RuntimeInv'
<1> SUFFICES ASSUME RuntimeInv, [RuntimeNext]_runtimeVars PROVE RuntimeInv'
  OBVIOUS
<1>1. CASE UNCHANGED runtimeVars
  BY <1>1 DEF runtimeVars, RuntimeInv, CoreShape, LifeTells, TaskTells, SidesTell
<1>2. CASE RuntimeNext
  BY <1>2, LifeSafe, SidesSafe, RequestsSafe, ExitSafe DEF RuntimeNext, RuntimeStep
<1> QED
  BY <1>1, <1>2

THEOREM RuntimeInvariance == RuntimeSpec => []RuntimeInv
BY RuntimeInitSafe, RuntimeStepSafe, PTL DEF RuntimeSpec

(* Whatever fails or is cancelled on the way, there is one engine or none,  *)
(* every adapter is bound to it when the task has ended, and after the end  *)
(* nothing is left that could use the closed stores.                        *)
THEOREM EngineKept == RuntimeSpec => []EngineSafety
<1>1. RuntimeInv => RuntimeTyped
  BY RuntimeConstantsOK
  DEF RuntimeInv, CoreShape, LifeTells, SidesTell, RuntimeTyped, Life, Objects
<1>2. RuntimeInv => OneEngineAlive
  BY DEF RuntimeInv, CoreShape, LifeTells, OneEngineAlive, Life
<1>3. RuntimeInv => AdaptersFollow
  <2> SUFFICES ASSUME RuntimeInv, task = NoTask, life = Unheld, exit = "no", engine # NoEngine,
                      NEW a \in Adapters
               PROVE  adapter[a] = [at |-> "on", engine |-> engine] /\ handler[a].engine \in {NoEngine, engine}
    BY DEF AdaptersFollow
  <2>1. task.at = "none" /\ a \notin task.left /\ life.at = "free"
    BY DEF NoTask, Unheld
  <2>2. adapter[a] \in Binding /\ adapter[a].at = "on" /\ adapter[a].engine = engine
    BY <2>1 DEF RuntimeInv, SidesTell
  <2>3. handler[a].engine \in {NoEngine, engine}
    BY <2>1 DEF RuntimeInv, SidesTell
  <2> QED
    BY <2>2, <2>3 DEF Binding
<1>4. RuntimeInv => ClosedForGood
  BY DEF RuntimeInv, CoreShape, LifeTells, TaskTells, SidesTell, ClosedForGood, Task, NoTask
<1> QED
  BY <1>1, <1>2, <1>3, <1>4, RuntimeInvariance, PTL DEF EngineSafety

(* No event is ever begun with an engine that is marked as on its way out,  *)
(* or with one that is not the published one.                               *)
THEOREM EventsServed == RuntimeSpec => EventsMeetTheLiving
<1> DEFINE Living == \A a \in Adapters : handler[a].at = "queued" /\ handler'[a].at = "running" =>
                       handler'[a].engine = engine /\ engine \notin retiring
<1>1. RuntimeInv /\ [RuntimeNext]_runtimeVars => [Living]_runtimeVars
  <2> SUFFICES ASSUME RuntimeInv, RuntimeNext, NEW a \in Adapters,
                      handler[a].at = "queued", handler'[a].at = "running"
               PROVE  handler'[a].engine = engine /\ engine \notin retiring
    OBVIOUS
  <2>0. handler \in [Adapters -> Handler]
    BY DEF RuntimeInv, SidesTell
  <2>1. HandlerBegins(a)
    <3>1. ASSUME NEW b \in Adapters, HandlerBegins(b) PROVE b = a
      BY <2>0, <3>1 DEF HandlerBegins
    <3>2. ASSUME NEW b \in Adapters, BindAdapter(b) \/ CloseAdapter(b) \/ EventArrives(b) \/ HandlerEnds(b)
          PROVE FALSE
      BY <2>0, <3>2 DEF BindAdapter, CloseAdapter, EventArrives, HandlerEnds, Drained, NoHandler, Handler
    <3>3. handler' # handler
      OBVIOUS
    <3> QED
      BY <3>1, <3>2, <3>3
      DEF RuntimeNext, RuntimeStep, BeginRebuild, StopBackground, CloseEngine, MakeEngine, PublishEngine,
          EngineReady, StartAdapter, DetachAdapter, BeatTakesUp, CancelRebuild, CloseAdapters, StopRuntime,
          BuildFails, Shutdown, BeatReadsFlag, EditConfig, WebReadsFlag, WebWritesFlag, sides
  <2>2. Admits(a) /\ handler'[a].engine = adapter[a].engine
    BY <2>0, <2>1 DEF HandlerBegins, NoHandler
  <2> QED
    BY <2>2 DEF Admits, RuntimeInv, SidesTell
<1>2. RuntimeSpec => [][Living]_runtimeVars
  BY <1>1, RuntimeInvariance, PTL DEF RuntimeSpec
<1> QED
  BY <1>2 DEF EventsMeetTheLiving
=============================================================================
