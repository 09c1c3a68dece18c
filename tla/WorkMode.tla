------------------------------- MODULE WorkMode -------------------------------
(***************************************************************************)
(* One agent turn of a chat and the messages that arrive while it runs:    *)
(* the loop of core/bg_tasks_delayed.py (_tick_delayed_queue_impl), the    *)
(* windows of core/engine_core.py and WorkModeRun of core/work_mode.py.    *)
(*                                                                         *)
(* A message may be accepted into the tool-chain window, stashed by the    *)
(* work-mode run, queued for a later turn, or only remembered.  The turn   *)
(* lock admits one turn at a time; a turn awaits the model, its tools and  *)
(* the platform, and messages come in whenever it awaits.                  *)
(***************************************************************************)
EXTENDS Naturals, FiniteSets

CONSTANTS
  Msgs,
  Addressed,   \* the messages that name this persona
  Private,     \* the chat is a private one
  MaxRounds,   \* max_tool_rounds
  MaxCrashes   \* bound: process deaths

ASSUME WorkModeConstantsOK ==
  /\ Addressed \subseteq Msgs /\ Private \in BOOLEAN
  /\ MaxRounds \in Nat /\ MaxCrashes \in Nat

VARIABLES
  at,       \* how far each inbound message has come
  queue,    \* the pending items of the delayed queue, each a set of messages
  taken,    \* the messages of the item this turn answers
  phase,    \* where the turn is
  rounds,   \* _round
  reply,    \* the model's last reply
  worked,   \* was_in_work_mode: the run was on when the model was asked
  unsafe,   \* mark_generation_unsafe: the turn has done what cannot be redone
  final,    \* what the turn hands to the adapter
  chain,    \* the chat is in _active_tool_chain_groups
  window,   \* _tool_chain_messages
  run,      \* the registered run's status
  stash,    \* WorkModeRun._model_stash
  replay,   \* WorkModeRun.replay
  flush,    \* WorkModeRun.flush_pending
  trace,    \* the run's status in memory/work_mode/sessions.json
  shown,    \* history: what came in late and entered the prompt
  released, \* history: what take_flushed let into the prompt
  served,   \* history: what some turn took from the queue
  forgone,  \* history: cleared on entering work mode, or taken by a crash
  dropped,  \* history: accepted, then discarded before any model call
  crashes

inbound == <<at, queue>>
turn == <<taken, phase, rounds, reply, worked, unsafe, final>>
windows == <<chain, window, run, stash, replay, flush, trace>>
history == <<shown, released, served, forgone, dropped, crashes>>
vars == <<at, queue, taken, phase, rounds, reply, worked, unsafe, final,
          chain, window, run, stash, replay, flush, trace,
          shown, released, served, forgone, dropped, crashes>>

(* What matters of a model reply: whether it has text, calls enter_work_mode, *)
(* the ordinary tools it calls, and what the result of quit_work_mode holds:  *)
(* text, a sticker we have, or only markers that come to nothing.  "note" is  *)
(* any other control call: send_midway_msg, or quit_work_mode with no result. *)
Replies ==
  [text : BOOLEAN, enter : BOOLEAN, note : BOOLEAN, quit : {"no"},
   tools : {"none", "silent", "loud"}]
  \cup [text : {FALSE}, enter : BOOLEAN, note : {FALSE}, tools : {"none"},
        quit : {"text", "sticker", "marker"}]
Mute == [text |-> FALSE, enter |-> FALSE, note |-> FALSE, quit |-> "no", tools |-> "none"]

Quits(r) == r.quit # "no"
Calls(r) == r.enter \/ r.note \/ Quits(r) \/ r.tools # "none"

Phases == {"idle", "loop", "asked", "acting", "tooling", "closing", "last", "down"}
Finals == {"none", "text", "work", "result", "sticker", "notice", "complete", "nothing", "forced"}
Ways == {"new", "injecting", "windowed", "routed", "thinking", "stashed", "done"}

Pending == UNION queue

Init ==
  /\ at = [m \in Msgs |-> "new"] /\ queue = {} /\ taken = {}
  /\ phase = "idle" /\ rounds = 0 /\ reply = Mute /\ worked = FALSE
  /\ unsafe = FALSE /\ final = "none"
  /\ chain = FALSE /\ window = {}
  /\ run = "none" /\ stash = {} /\ replay = {} /\ flush = FALSE /\ trace = "none"
  /\ shown = {} /\ released = {} /\ served = {} /\ forgone = {} /\ dropped = {}
  /\ crashes = 0

-----------------------------------------------------------------------------
(* Messages. *)

Up == phase # "down"

(* is_tool_chain_active: work mode counts as a running chain. *)
ChainActive == chain \/ run # "none"

(* The operators named Wrong... are slips the code could have made; each    *)
(* shows which property notices it.                                         *)

(* enqueue() and merge_incoming(): into a pending item if there is one. *)
Joined(q, ms) == IF q = {} THEN {{ms}} ELSE {(q \ {i}) \cup {i \cup ms} : i \in q}

(* The adapter offers a message to the window first; the message is noted  *)
(* as accepted before its pictures are captioned, which awaits.            *)
Offer(m) ==
  /\ Up /\ at[m] = "new"
  /\ at' = [at EXCEPT ![m] = IF m \in Addressed /\ ChainActive /\ ~Private
                             THEN "injecting" ELSE "routed"]
  /\ UNCHANGED <<queue, turn, windows, history>>

InjectToolChainMessage(m) ==
  /\ Up /\ at[m] = "injecting"
  /\ at' = [at EXCEPT ![m] = "windowed"]
  /\ window' = window \cup {m}
  /\ UNCHANGED <<queue, turn, chain, run, stash, replay, flush, trace, history>>

(* stash_message *)
Stash(m, mentions) ==
  /\ at' = [at EXCEPT ![m] = "stashed"]
  /\ stash' = stash \cup {m}
  /\ replay' = replay \cup {m}
  /\ flush' = (flush \/ mentions)
  /\ UNCHANGED <<queue, turn, chain, window, run, trace, history>>

ProcessInWorkMode(m) ==
  /\ Up /\ at[m] = "routed" /\ run # "none"
  /\ Stash(m, m \in Addressed)

(* The dispatcher found that this message is not for this persona to answer. *)
ObserveInWorkMode(m) ==
  /\ Up /\ at[m] = "routed" /\ run # "none" /\ ~Private
  /\ Stash(m, FALSE)

Observe(m) ==
  /\ Up /\ at[m] = "routed" /\ run = "none" /\ ~Private
  /\ at' = [at EXCEPT ![m] = "done"]
  /\ UNCHANGED <<queue, turn, windows, history>>

(* Outside work mode the message goes on to perception and cognition, which *)
(* await; what was read of the run is not read again.                       *)
ProcessMessage(m) ==
  /\ Up /\ at[m] = "routed" /\ run = "none"
  /\ at' = [at EXCEPT ![m] = "thinking"]
  /\ UNCHANGED <<queue, turn, windows, history>>

Decide(m) ==
  /\ Up /\ at[m] = "thinking"
  /\ at' = [at EXCEPT ![m] = "done"]
  /\ queue' \in Joined(queue, {m}) \cup {queue}
  /\ UNCHANGED <<turn, windows, history>>

-----------------------------------------------------------------------------
(* The rounds of a turn. *)

TickDelayedQueue ==
  /\ phase = "idle"
  /\ \E i \in queue : /\ queue' = queue \ {i}
                      /\ taken' = i /\ served' = served \cup i
  /\ phase' = "loop" /\ rounds' = 0 /\ reply' = Mute /\ worked' = FALSE
  /\ unsafe' = FALSE /\ final' = "none"
  /\ UNCHANGED <<at, windows, shown, released, forgone, dropped, crashes>>

OutOfRounds == rounds > MaxRounds

WrongReplayAfterFlush == replay

(* take_flushed: the messages handed back, if any, leave the replay list. *)
Flushed == IF flush THEN replay ELSE {}
ReplayAfterFlush == IF flush THEN {} ELSE replay

WrongWindowTaken == {}

(* What the top of a round puts into the prompt. *)
WindowTaken == window

TakeFlushed ==
  IF run = "none" THEN UNCHANGED <<stash, replay, flush, released>>
  ELSE /\ stash' = {}
       /\ replay' = ReplayAfterFlush
       /\ released' = released \cup Flushed
       /\ flush' = FALSE

Round ==
  /\ phase = "loop" /\ ~OutOfRounds
  /\ TakeFlushed
  /\ shown' = shown \cup stash \cup WindowTaken
  /\ window' = window \ WindowTaken
  /\ phase' = "asked" /\ rounds' = rounds + 1 /\ worked' = (run # "none")
  /\ UNCHANGED <<inbound, taken, reply, unsafe, final, chain, run, trace,
                 served, forgone, dropped, crashes>>

(* The end of the loop: a window of its own is closed, and a run that has  *)
(* not been finished is recorded as aborted.                               *)
Left(f, rest) ==
  /\ phase' = "last" /\ final' = f
  /\ chain' = FALSE
  /\ window' = IF chain THEN {} ELSE rest
  /\ run' = IF run = "running" THEN "aborted" ELSE run
  /\ trace' = IF run = "running" THEN "aborted" ELSE trace

(* The last reply, if it called tools, is followed by one more model call   *)
(* that may not; else its text is the turn's reply.                         *)
LastWords ==
  IF Calls(reply) THEN "forced"
  ELSE IF reply.text THEN (IF worked THEN "work" ELSE "text")
  ELSE IF run = "none" THEN "nothing" ELSE "notice"

RoundLimit ==
  /\ phase = "loop" /\ OutOfRounds
  /\ TakeFlushed
  /\ shown' = shown \cup stash \cup WindowTaken
  /\ dropped' = IF Calls(reply) THEN dropped ELSE dropped \cup Flushed \cup WindowTaken
  /\ Left(LastWords, window \ WindowTaken)
  /\ UNCHANGED <<inbound, taken, rounds, reply, worked, unsafe, served, forgone, crashes>>

(* The model answers outside work mode, or without calling enter_work_mode. *)
Answer ==
  /\ phase = "asked"
  /\ reply' \in {r \in Replies : r.enter => run # "none"}
  /\ phase' = "acting"
  /\ unsafe' \in {unsafe, TRUE}
  /\ UNCHANGED <<inbound, taken, rounds, worked, final, windows, history>>

(* enter_work_mode: begin_work_mode registers the run and clears the queue, *)
(* the chain window is closed, the trace is begun; something has been said. *)
EnterWorkMode ==
  /\ phase = "asked" /\ run = "none"
  /\ reply' \in {r \in Replies : r.enter}
  /\ phase' = "acting" /\ unsafe' = TRUE
  /\ run' = "running" /\ trace' = "running"
  /\ queue' = {} /\ forgone' = forgone \cup Pending
  /\ chain' = FALSE
  /\ window' = IF chain THEN {} ELSE window
  /\ dropped' = IF chain THEN dropped \cup window ELSE dropped
  /\ UNCHANGED <<at, taken, rounds, worked, final, stash, replay, flush,
                 shown, released, served, crashes>>

(* What a result of quit_work_mode leaves once its markers are taken out. *)
Outcome(r) ==
  CASE r.quit = "text" -> "result"
    [] r.quit = "sticker" -> "sticker"
    [] OTHER -> "nothing"

QuitWorkMode ==
  /\ phase = "acting" /\ Quits(reply)
  /\ phase' = "last" /\ final' = Outcome(reply)
  /\ run' = IF run = "none" THEN run ELSE "completed"
  /\ trace' = IF run = "none" THEN trace ELSE "completed"
  /\ chain' = FALSE
  /\ window' = IF chain THEN {} ELSE window
  /\ dropped' = IF chain THEN dropped \cup window ELSE dropped
  /\ UNCHANGED <<inbound, taken, rounds, reply, worked, unsafe, stash, replay, flush,
                 shown, released, served, forgone, crashes>>

(* No call at all: in work mode the model is told to go on; else the text   *)
(* is the reply, unless a message has been accepted meanwhile.              *)
GoOn ==
  /\ phase = "acting" /\ ~Calls(reply) /\ (run # "none" \/ window # {})
  /\ phase' = "loop"
  /\ shown' = IF run = "none" THEN shown \cup window ELSE shown
  /\ window' = IF run = "none" THEN {} ELSE window
  /\ UNCHANGED <<inbound, taken, rounds, reply, worked, unsafe, final, chain, run, stash,
                 replay, flush, trace, released, served, forgone, dropped, crashes>>

Respond ==
  /\ phase = "acting" /\ ~Calls(reply) /\ run = "none" /\ window = {}
  /\ phase' = "closing"
  /\ final' = IF reply.text THEN "text" ELSE "nothing"
  /\ UNCHANGED <<inbound, taken, rounds, reply, worked, unsafe, windows, history>>

LeaveLoop ==
  /\ phase = "closing"
  /\ Left(final, window)
  /\ dropped' = IF chain THEN dropped \cup window ELSE dropped
  /\ UNCHANGED <<inbound, taken, rounds, reply, worked, unsafe, stash, replay, flush,
                 shown, released, served, forgone, crashes>>

ControlOnly ==
  /\ phase = "acting" /\ Calls(reply) /\ ~Quits(reply) /\ reply.tools = "none"
  /\ phase' = "loop"
  /\ UNCHANGED <<inbound, taken, rounds, reply, worked, unsafe, final, windows, history>>

UseTools ==
  /\ phase = "acting" /\ ~Quits(reply) /\ reply.tools # "none"
  /\ chain' = (chain \/ (run = "none" /\ ~Private))
  /\ phase' = "tooling" /\ unsafe' \in {unsafe, TRUE}
  /\ UNCHANGED <<inbound, taken, rounds, reply, worked, final, window, run, stash, replay,
                 flush, trace, history>>

(* Silent tools that all went well are the whole turn, outside work mode. *)
SilentEnd(failed) == run = "none" /\ reply.tools = "silent" /\ ~failed

ToolsDone ==
  /\ phase = "tooling"
  /\ \E failed \in BOOLEAN :
       IF SilentEnd(failed) /\ window = {}
       THEN Left("complete", window) /\ UNCHANGED shown
       ELSE /\ phase' = "loop"
            /\ shown' = IF SilentEnd(failed) THEN shown \cup window ELSE shown
            /\ window' = IF SilentEnd(failed) THEN {} ELSE window
            /\ UNCHANGED <<final, chain, run, trace>>
  /\ UNCHANGED <<inbound, taken, rounds, reply, worked, unsafe, stash, replay, flush,
                 released, served, forgone, dropped, crashes>>

-----------------------------------------------------------------------------
(* The end of a turn, however it ends: the finally of tick_delayed_queue    *)
(* closes the window, unregisters the run and requeues what is left of it.  *)

WrongRequeued(q) == {q}

Requeued(q) == IF replay = {} THEN {q} ELSE Joined(q, replay)

WrongTraceAtEnd == trace
WrongChainAtEnd == chain

(* finish_if_running *)
TraceAtEnd == IF run = "running" THEN "aborted" ELSE trace
ChainAtEnd == FALSE

Finally(q) ==
  /\ queue' \in Requeued(q)
  /\ chain' = ChainAtEnd
  /\ window' = {} /\ dropped' = dropped \cup window
  /\ run' = "none" /\ trace' = TraceAtEnd
  /\ stash' = {} /\ replay' = {} /\ flush' = FALSE
  /\ phase' = "idle" /\ taken' = {} /\ reply' = Mute /\ rounds' = 0
  /\ worked' = FALSE /\ unsafe' = FALSE

EndTurn ==
  /\ phase = "last"
  /\ final' \in IF final = "forced" THEN {"text", "notice"} ELSE {final}
  /\ Finally(queue)
  /\ UNCHANGED <<at, shown, released, served, forgone, crashes>>

(* An exception or a cancellation at any await.  The item goes back to the  *)
(* queue if nothing of the turn has escaped and it has retries left.        *)
Awaiting == phase \in {"loop", "asked", "acting", "tooling", "closing", "last"}

Fail ==
  /\ Awaiting
  /\ \E back \in IF unsafe THEN {FALSE} ELSE BOOLEAN :
       Finally(IF back THEN queue \cup {taken} ELSE queue)
  /\ final' = "none"
  /\ UNCHANGED <<at, shown, released, served, forgone, crashes>>

(* The windows and the stash are memory; the queue and the trace are files. *)
Crash ==
  /\ Up /\ crashes < MaxCrashes /\ crashes' = crashes + 1
  /\ at' = [m \in Msgs |-> IF at[m] \in {"injecting", "routed", "thinking"} THEN "done" ELSE at[m]]
  /\ phase' = "down" /\ taken' = {} /\ reply' = Mute /\ rounds' = 0
  /\ worked' = FALSE /\ unsafe' = FALSE /\ final' = "none"
  /\ chain' = FALSE /\ window' = {} /\ run' = "none"
  /\ stash' = {} /\ replay' = {} /\ flush' = FALSE
  /\ forgone' = forgone \cup replay
  /\ UNCHANGED <<queue, trace, shown, released, served, dropped>>

(* reconcile_running *)
Restart ==
  /\ phase = "down" /\ phase' = "idle"
  /\ trace' = IF trace = "running" THEN "aborted" ELSE trace
  /\ UNCHANGED <<inbound, taken, rounds, reply, worked, unsafe, final, chain, window, run,
                 stash, replay, flush, history>>

-----------------------------------------------------------------------------
Arrive(m) ==
  \/ Offer(m) \/ InjectToolChainMessage(m) \/ ProcessInWorkMode(m)
  \/ ObserveInWorkMode(m) \/ Observe(m) \/ ProcessMessage(m) \/ Decide(m)

Step ==
  \/ Round \/ RoundLimit \/ Answer \/ EnterWorkMode \/ QuitWorkMode \/ GoOn \/ Respond
  \/ LeaveLoop \/ ControlOnly \/ UseTools \/ ToolsDone \/ EndTurn \/ Restart

Next == (\E m \in Msgs : Arrive(m)) \/ TickDelayedQueue \/ Step \/ Fail \/ Crash

Spec == Init /\ [][Next]_vars

(* Every await of a turn is bounded by a timeout of the provider, of the    *)
(* tool executor or of the platform call, so a turn that runs goes on; and  *)
(* a worker that died is started again.                                     *)
FairSpec == Spec /\ WF_vars(Step)

-----------------------------------------------------------------------------
(* Properties. *)

(* Each variable has its type; the rounds of a turn are bounded. *)
TypeOK ==
  /\ at \in [Msgs -> Ways] /\ queue \subseteq SUBSET Msgs /\ taken \subseteq Msgs
  /\ phase \in Phases /\ rounds \in 0..MaxRounds + 1 /\ reply \in Replies
  /\ worked \in BOOLEAN /\ unsafe \in BOOLEAN /\ final \in Finals
  /\ chain \in BOOLEAN /\ window \subseteq Msgs
  /\ run \in {"none", "running", "completed", "aborted"}
  /\ stash \subseteq Msgs /\ replay \subseteq Msgs /\ flush \in BOOLEAN
  /\ trace \in {"none", "running", "completed", "aborted"}
  /\ shown \subseteq Msgs /\ released \subseteq Msgs /\ served \subseteq Msgs
  /\ forgone \subseteq Msgs /\ dropped \subseteq Msgs /\ crashes \in 0..MaxCrashes

(* end_work_mode: what was said while she worked is not lost.  A stashed    *)
(* message is still held, was let into the prompt, waits in the queue, was  *)
(* taken by a later turn, or was given up for a later piece of work or by   *)
(* a crash; no exception, cancellation or round limit loses it.             *)
StashIsKept ==
  \A m \in Msgs :
    at[m] = "stashed" => m \in replay \cup released \cup Pending \cup served \cup forgone

(* take_flushed: what was let into the prompt because the persona was named *)
(* does not come back to the queue when the run ends.                       *)
ReleasedOnce == released \cap (replay \cup Pending) = {}

(* However a turn ends, no window, no run and no trace of a run stays open: *)
(* the next message is not swallowed by a chain that no longer runs, and    *)
(* the page does not show work that has stopped.                            *)
NothingStaysOpen ==
  phase = "idle" => ~chain /\ run = "none" /\ replay = {} /\ trace # "running"

(* "The next round shows it to her": when the model is asked, all that was  *)
(* accepted into the window, and the whole stash once she has been named,   *)
(* is in front of it.                                                       *)
NamedIsShownNext ==
  [][phase' = "asked" /\ phase # "asked"
     => /\ window \subseteq shown' /\ window' = {}
        /\ flush => replay \subseteq released' /\ replay' = {}]_vars

(* A stashed message does not wait for ever: it is let into the prompt,     *)
(* requeued, or given up with the process.                                  *)
StashIsResolved ==
  \A m \in Msgs : (m \in replay) ~> (m \in released \cup Pending \cup forgone)

(* What the code's own words promise and the code does not keep.            *)

(* A turn that came to its end, not by an exception, has just finished.     *)
Returned == phase = "idle" /\ final # "none"

(* tests/test_reply_sending_window.py: messages that have entered her       *)
(* context are not queued again when work mode ends.                        *)
ShownIsNotRequeued == Returned => (shown \ served) \cap Pending = {}

(* end_work_mode: the window is shut with the run, so that nothing left in  *)
(* it turns up in an unrelated later turn.                                  *)
WindowIsShut == phase = "idle" => window = {}

(* inject_tool_chain_message: an accepted message is for the next round.    *)
AcceptedIsRead == Returned => dropped = {}

(* A turn that has been in work mode leaves something to say.               *)
WorkHasResult == phase = "last" /\ run # "none" => final # "nothing"

(* In work mode the model's own text is never sent.                         *)
WorkTextStaysInside == final # "work"
=============================================================================
