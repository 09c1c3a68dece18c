---------------------------- MODULE WorkModeProofs ----------------------------
(***************************************************************************)
(* What TLAPS proves of WorkMode, for any messages and any bounds.  The    *)
(* argument is where a message can be: a stashed one is held, or released, *)
(* or has left through the queue, and never two of these at once.          *)
(***************************************************************************)
EXTENDS WorkMode, TLAPS

(* A message is stashed only on one of the two ways into a work-mode run,  *)
(* and only a message that is done or stashed can have been queued.        *)
Placed ==
  \A m \in Msgs :
    /\ m \in replay \cup released => at[m] = "stashed"
    /\ m \in Pending \cup served => at[m] \in {"stashed", "done"}

(* Held, released, and left through the queue are three different things.  *)
Apart ==
  /\ replay \cap released = {}
  /\ (replay \cup released) \cap (Pending \cup served) = {}
  /\ taken \subseteq served

(* A run is on only while a turn is; what is stashed is stashed in a run.  *)
Shut ==
  /\ run = "none" => replay = {} /\ ~flush
  /\ phase \in {"idle", "down"} => run = "none" /\ ~chain
  /\ phase # "down" /\ run # "running" => trace # "running"

IInv == TypeOK /\ Placed /\ Apart /\ StashIsKept /\ Shut

-----------------------------------------------------------------------------
(* What enqueue() and the end of a turn leave pending. *)

LEMMA JoinedHolds ==
  ASSUME NEW q, q \subseteq SUBSET Msgs, NEW ms, ms \subseteq Msgs, NEW r, r \in Joined(q, ms)
  PROVE  r \subseteq SUBSET Msgs /\ \A x : x \in UNION r <=> x \in UNION q \/ x \in ms
<1>1. CASE q = {}
  <2>1. r = {ms}
    BY <1>1 DEF Joined
  <2>2. r \subseteq SUBSET Msgs
    BY <2>1
  <2>3. UNION r = ms
    BY <2>1
  <2>4. UNION q = {}
    BY <1>1
  <2> QED
    BY <2>2, <2>3, <2>4
<1>2. CASE q # {}
  <2>1. PICK i \in q : r = (q \ {i}) \cup {i \cup ms}
    BY <1>2 DEF Joined
  <2>2. i \subseteq Msgs /\ r \subseteq SUBSET Msgs
    BY <2>1
  <2>3. \A x : x \in UNION r => x \in UNION q \/ x \in ms
    BY <2>1
  <2>4. i \cup ms \in r /\ q \ {i} \subseteq r
    BY <2>1
  <2>5. ms \subseteq UNION r /\ i \subseteq UNION r
    BY <2>4
  <2>6. \A x : x \in UNION q => x \in UNION r
    BY <2>4, <2>5
  <2> QED
    BY <2>2, <2>3, <2>5, <2>6
<1> QED
  BY <1>1, <1>2

LEMMA RequeuedHolds ==
  ASSUME NEW q, q \subseteq SUBSET Msgs, replay \subseteq Msgs, NEW r, r \in Requeued(q)
  PROVE  r \subseteq SUBSET Msgs /\ \A x : x \in UNION r <=> x \in UNION q \/ x \in replay
<1>1. CASE replay = {}
  BY <1>1 DEF Requeued
<1>2. CASE replay # {}
  BY <1>2, JoinedHolds DEF Requeued
<1> QED
  BY <1>1, <1>2

(* The places of messages matter only through these variables. *)
LEMMA PlacesUntouched ==
  ASSUME IInv, UNCHANGED <<at, queue, taken, replay, released, served, forgone>>
  PROVE  Placed' /\ Apart' /\ StashIsKept'
BY DEF IInv, Placed, Apart, StashIsKept, Pending

(* The same when a turn lets go of what it has taken. *)
LEMMA PlacesReleased ==
  ASSUME IInv, taken' \subseteq taken, UNCHANGED <<at, queue, replay, released, served, forgone>>
  PROVE  Placed' /\ Apart' /\ StashIsKept'
BY DEF IInv, Placed, Apart, StashIsKept, Pending

-----------------------------------------------------------------------------
(* Messages on their way in. *)

LEMMA ArriveSafe ==
  ASSUME IInv, NEW m \in Msgs, Arrive(m)
  PROVE  IInv'
<1> USE DEF IInv
<1>1. CASE Offer(m)
  <2>1. Placed' /\ Apart' /\ StashIsKept'
    BY <1>1 DEF Offer, Placed, Apart, StashIsKept, Pending, windows, history, turn, TypeOK, Ways
  <2> QED
    BY <1>1, <2>1 DEF Offer, TypeOK, Shut, windows, history, turn, Ways
<1>2. CASE InjectToolChainMessage(m)
  <2>1. Placed' /\ Apart' /\ StashIsKept'
    BY <1>2 DEF InjectToolChainMessage, Placed, Apart, StashIsKept, Pending, history, turn,
                TypeOK, Ways
  <2> QED
    BY <1>2, <2>1 DEF InjectToolChainMessage, TypeOK, Shut, history, turn, Ways
<1>3. ASSUME NEW b \in BOOLEAN, Stash(m, b), at[m] = "routed", run # "none"
      PROVE  IInv'
  <2>1. m \notin replay \cup released \cup Pending \cup served
    BY <1>3 DEF Placed
  <2>2. Placed' /\ Apart' /\ StashIsKept'
    BY <1>3, <2>1 DEF Stash, Placed, Apart, StashIsKept, Pending, history, turn, TypeOK, Ways
  <2> QED
    BY <1>3, <2>2 DEF Stash, TypeOK, Shut, history, turn, Ways
<1>4. CASE ProcessInWorkMode(m)
  <2>1. (m \in Addressed) \in BOOLEAN
    OBVIOUS
  <2> QED
    BY <1>3, <1>4, <2>1 DEF ProcessInWorkMode
<1>5. CASE ObserveInWorkMode(m)
  BY <1>3, <1>5 DEF ObserveInWorkMode
<1>6. CASE Observe(m)
  <2>1. Placed' /\ Apart' /\ StashIsKept'
    BY <1>6 DEF Observe, Placed, Apart, StashIsKept, Pending, windows, history, turn, TypeOK, Ways
  <2> QED
    BY <1>6, <2>1 DEF Observe, TypeOK, Shut, windows, history, turn, Ways
<1>7. CASE ProcessMessage(m)
  <2>1. Placed' /\ Apart' /\ StashIsKept'
    BY <1>7 DEF ProcessMessage, Placed, Apart, StashIsKept, Pending, windows, history, turn,
                TypeOK, Ways
  <2> QED
    BY <1>7, <2>1 DEF ProcessMessage, TypeOK, Shut, windows, history, turn, Ways
<1>8. CASE Decide(m)
  <2>1. queue' \subseteq SUBSET Msgs /\ Pending \subseteq Pending'
        /\ \A x : x \in Pending' => x \in Pending \/ x = m
    <3>1. queue' = queue \/ queue' \in Joined(queue, {m})
      BY <1>8 DEF Decide
    <3>2. queue \subseteq SUBSET Msgs /\ {m} \subseteq Msgs
      BY DEF TypeOK
    <3>3. CASE queue' \in Joined(queue, {m})
      <4> DEFINE ms == {m}
      <4>1. ms \subseteq Msgs /\ queue' \in Joined(queue, ms)
        BY <3>3
      <4>2. \A x : x \in ms <=> x = m
        OBVIOUS
      <4> HIDE DEF ms
      <4>3. queue' \subseteq SUBSET Msgs
            /\ \A x : x \in UNION queue' <=> x \in UNION queue \/ x \in ms
        BY <3>2, <4>1, JoinedHolds
      <4> QED
        BY <4>2, <4>3 DEF Pending
    <3> QED
      BY <3>1, <3>2, <3>3 DEF Pending
  <2>2. m \notin replay \cup released
    BY <1>8 DEF Decide, Placed
  <2>3. Placed' /\ Apart' /\ StashIsKept'
    BY <1>8, <2>1, <2>2 DEF Decide, Placed, Apart, StashIsKept, windows, history, turn,
                TypeOK, Ways
  <2> QED
    BY <1>8, <2>1, <2>3 DEF Decide, TypeOK, Shut, windows, history, turn, Ways
<1> QED
  BY <1>1, <1>2, <1>4, <1>5, <1>6, <1>7, <1>8 DEF Arrive

-----------------------------------------------------------------------------
(* The rounds of a turn. *)

LEMMA TickSafe ==
  ASSUME IInv, WorkModeConstantsOK, TickDelayedQueue
  PROVE  IInv'
<1> USE DEF IInv
<1>1. PICK i \in queue : queue' = queue \ {i} /\ taken' = i /\ served' = served \cup i
  BY DEF TickDelayedQueue
<1>2. /\ i \subseteq Msgs /\ queue' \subseteq SUBSET Msgs
      /\ Pending' \subseteq Pending /\ Pending \subseteq Pending' \cup i /\ i \subseteq Pending
  BY <1>1 DEF TypeOK, Pending
<1>3. UNCHANGED <<at, replay, released, forgone>>
  BY DEF TickDelayedQueue, windows
<1>4. Placed' /\ Apart' /\ StashIsKept'
  BY <1>1, <1>2, <1>3 DEF Placed, Apart, StashIsKept
<1>5. Mute \in Replies
  BY DEF Mute, Replies
<1>6. served' \subseteq Msgs /\ taken' \subseteq Msgs
  BY <1>1, <1>2 DEF TypeOK
<1>7. TypeOK'
  <2>1. rounds' \in 0..MaxRounds + 1
    BY DEF TickDelayedQueue, WorkModeConstantsOK
  <2> QED
    BY <1>2, <1>5, <1>6, <2>1 DEF TickDelayedQueue, TypeOK, windows, Phases, Finals
<1>8. Shut'
  BY DEF TickDelayedQueue, Shut, windows
<1> QED
  BY <1>4, <1>7, <1>8

(* take_flushed moves the stash into the prompt, or leaves it held. *)
LEMMA FlushSafe ==
  ASSUME IInv, TakeFlushed, UNCHANGED <<at, queue, taken, served, forgone>>
  PROVE  /\ Placed' /\ Apart' /\ StashIsKept'
         /\ stash' \subseteq Msgs /\ replay' \subseteq Msgs /\ released' \subseteq Msgs
         /\ flush' \in BOOLEAN
         /\ run = "none" => replay' = {} /\ ~flush'
<1> USE DEF IInv
<1>1. UNCHANGED Pending
  BY DEF Pending
<1>2. CASE run = "none"
  BY <1>2, PlacesUntouched DEF TakeFlushed, TypeOK, Shut
<1>3. CASE run # "none" /\ flush
  <2>1. replay' = {} /\ released' = released \cup replay /\ stash' = {} /\ flush' = FALSE
    BY <1>3 DEF TakeFlushed, Flushed, ReplayAfterFlush
  <2>2. Placed' /\ Apart' /\ StashIsKept'
    BY <1>1, <2>1 DEF Placed, Apart, StashIsKept
  <2> QED
    BY <1>3, <2>1, <2>2 DEF TypeOK
<1>4. CASE run # "none" /\ ~flush
  <2>1. replay' = replay /\ released' = released /\ stash' = {} /\ flush' = FALSE
    BY <1>4 DEF TakeFlushed, Flushed, ReplayAfterFlush
  <2> QED
    BY <1>4, <2>1, PlacesUntouched DEF TypeOK
<1> QED
  BY <1>2, <1>3, <1>4

LEMMA RoundSafe ==
  ASSUME IInv, WorkModeConstantsOK, Round \/ RoundLimit
  PROVE  IInv'
<1>1. TakeFlushed /\ UNCHANGED <<at, queue, taken, served, forgone>>
  BY DEF Round, RoundLimit, inbound
<1>2. /\ Placed' /\ Apart' /\ StashIsKept'
      /\ stash' \subseteq Msgs /\ replay' \subseteq Msgs /\ released' \subseteq Msgs
      /\ flush' \in BOOLEAN
      /\ run = "none" => replay' = {} /\ ~flush'
  BY <1>1, FlushSafe
<1> USE DEF IInv
<1>3. CASE Round
  <2>1. rounds' \in 0..MaxRounds + 1
    BY <1>3 DEF Round, OutOfRounds, TypeOK, WorkModeConstantsOK
  <2> QED
    BY <1>2, <1>3, <2>1 DEF Round, WindowTaken, TypeOK, Shut, inbound, Phases
<1>4. CASE RoundLimit
  <2>1. dropped' \subseteq Msgs /\ LastWords \in Finals
    BY <1>4 DEF RoundLimit, WindowTaken, Flushed, TypeOK, LastWords, Finals
  <2>2. TypeOK'
    BY <1>2, <1>4, <2>1 DEF RoundLimit, Left, WindowTaken, TypeOK, inbound, Phases
  <2>3. Shut'
    BY <1>2, <1>4 DEF RoundLimit, Left, TypeOK, Shut
  <2> QED
    BY <1>2, <2>2, <2>3
<1> QED
  BY <1>3, <1>4

LEMMA EnterSafe ==
  ASSUME IInv, EnterWorkMode
  PROVE  IInv'
<1> USE DEF IInv
<1>1. Pending' = {} /\ forgone' = forgone \cup Pending /\ Pending \subseteq Msgs
  BY DEF EnterWorkMode, Pending, TypeOK
<1>2. UNCHANGED <<at, taken, replay, released, served>>
  BY DEF EnterWorkMode
<1>3. Placed' /\ Apart' /\ StashIsKept'
  BY <1>1, <1>2 DEF Placed, Apart, StashIsKept
<1>4. Shut'
  BY DEF EnterWorkMode, Shut
<1>5. /\ queue' \subseteq SUBSET Msgs /\ forgone' \subseteq Msgs
      /\ dropped' \subseteq Msgs /\ window' \subseteq Msgs
  BY <1>1 DEF EnterWorkMode, TypeOK
<1> QED
  BY <1>3, <1>4, <1>5 DEF EnterWorkMode, TypeOK, Phases

(* The steps of a turn that leave every message where it is. *)
LEMMA LoopSafe ==
  ASSUME IInv,
         \/ Answer \/ QuitWorkMode \/ GoOn \/ Respond \/ LeaveLoop
         \/ ControlOnly \/ UseTools \/ ToolsDone
  PROVE  IInv'
<1>1. UNCHANGED <<at, queue, taken, replay, released, served, forgone>>
  BY DEF Answer, QuitWorkMode, GoOn, Respond, LeaveLoop, ControlOnly, UseTools, ToolsDone,
         inbound, windows, history
<1>2. Placed' /\ Apart' /\ StashIsKept'
  BY <1>1, PlacesUntouched
<1> USE DEF IInv, TypeOK, Shut, inbound, turn, windows, history, Phases, Finals
<1>3. CASE Answer
  <2>1. reply' \in Replies
    BY <1>3 DEF Answer
  <2>2. unsafe' \in BOOLEAN
    BY <1>3 DEF Answer
  <2> QED
    BY <1>2, <1>3, <2>1, <2>2 DEF Answer
<1>4. CASE QuitWorkMode
  <2>1. /\ final' \in Finals /\ dropped' \subseteq Msgs /\ window' \subseteq Msgs
        /\ run' \in {"none", "completed"}
        /\ trace' \in {"none", "running", "completed", "aborted"}
    BY <1>4 DEF QuitWorkMode, Outcome
  <2>2. Shut'
    BY <1>4 DEF QuitWorkMode
  <2> QED
    BY <1>2, <1>4, <2>1, <2>2 DEF QuitWorkMode
<1>5. CASE GoOn
  <2>1. shown' \subseteq Msgs /\ window' \subseteq Msgs
    BY <1>5 DEF GoOn
  <2>2. Shut'
    BY <1>5 DEF GoOn
  <2> QED
    BY <1>2, <1>5, <2>1, <2>2 DEF GoOn
<1>6. CASE Respond
  BY <1>2, <1>6 DEF Respond
<1>7. CASE LeaveLoop
  <2>1. /\ window' \subseteq Msgs /\ dropped' \subseteq Msgs
        /\ run' \in {"none", "running", "completed", "aborted"}
        /\ trace' \in {"none", "running", "completed", "aborted"}
    BY <1>7 DEF LeaveLoop, Left
  <2>2. Shut'
    BY <1>7 DEF LeaveLoop, Left
  <2> QED
    BY <1>2, <1>7, <2>1, <2>2 DEF LeaveLoop, Left
<1>8. CASE ControlOnly
  BY <1>2, <1>8 DEF ControlOnly
<1>9. CASE UseTools
  <2>1. chain' \in BOOLEAN /\ unsafe' \in BOOLEAN /\ phase = "acting" /\ phase' = "tooling"
    BY <1>9 DEF UseTools
  <2>2. UNCHANGED <<inbound, taken, rounds, reply, worked, final, window, run, stash, replay,
                    flush, trace, history>>
    BY <1>9 DEF UseTools
  <2>3. Shut'
    BY <2>1, <2>2
  <2> QED
    BY <1>2, <2>1, <2>2, <2>3
<1>10. CASE ToolsDone
  <2>1. PICK failed \in BOOLEAN :
          \/ Left("complete", window) /\ UNCHANGED shown
          \/ /\ phase' = "loop" /\ shown' \in {shown, shown \cup window}
             /\ window' \in {window, {}} /\ UNCHANGED <<final, chain, run, trace>>
    BY <1>10 DEF ToolsDone
  <2>2. /\ phase' \in Phases /\ final' \in Finals /\ shown' \subseteq Msgs
        /\ window' \subseteq Msgs
    BY <2>1 DEF Left
  <2>3. /\ chain' \in BOOLEAN /\ run' \in {"none", "running", "completed", "aborted"}
        /\ trace' \in {"none", "running", "completed", "aborted"}
    BY <2>1 DEF Left
  <2>4. Shut'
    BY <1>10, <2>1 DEF ToolsDone, Left
  <2> QED
    BY <1>2, <1>10, <2>2, <2>3, <2>4 DEF ToolsDone
<1> QED
  BY <1>3, <1>4, <1>5, <1>6, <1>7, <1>8, <1>9, <1>10

-----------------------------------------------------------------------------
(* The end of a turn. *)

(* What is still held goes back to the queue; the item itself may too. *)
LEMMA FinallySafe ==
  ASSUME IInv, WorkModeConstantsOK, phase # "down", NEW q, q \in {queue, queue \cup {taken}}, Finally(q),
         final' \in Finals, UNCHANGED <<at, shown, released, served, forgone, crashes>>
  PROVE  IInv'
<1> USE DEF IInv
<1>1. q \subseteq SUBSET Msgs /\ UNION q \in {Pending, Pending \cup taken}
  BY DEF TypeOK, Pending
<1>2. queue' \subseteq SUBSET Msgs /\ \A x : x \in Pending' <=> x \in UNION q \/ x \in replay
  BY <1>1, RequeuedHolds DEF Finally, TypeOK, Pending
<1>3. replay' = {} /\ taken' = {}
  BY DEF Finally
<1>4. Placed' /\ Apart' /\ StashIsKept'
  <2>1. Pending' \subseteq Pending \cup taken \cup replay /\ Pending \cup replay \subseteq Pending'
    <3>1. CASE UNION q = Pending
      BY <1>2, <3>1
    <3>2. CASE UNION q = Pending \cup taken
      BY <1>2, <3>2
    <3> QED
      BY <1>1, <3>1, <3>2
  <2>2. UNCHANGED <<at, released, served, forgone>>
    OBVIOUS
  <2>3. Placed'
    BY <1>3, <2>1, <2>2 DEF Placed, Apart
  <2>4. Apart'
    BY <1>3, <2>1, <2>2 DEF Apart
  <2>5. StashIsKept'
    BY <1>3, <2>1, <2>2 DEF StashIsKept
  <2> QED
    BY <2>3, <2>4, <2>5
<1>5. Mute \in Replies
  BY DEF Mute, Replies
<1>6. TypeOK'
  <2>1. /\ chain' \in BOOLEAN /\ flush' \in BOOLEAN /\ worked' \in BOOLEAN
        /\ unsafe' \in BOOLEAN
    BY DEF Finally, ChainAtEnd
  <2>2. trace' \in {"none", "running", "completed", "aborted"}
    BY DEF Finally, TraceAtEnd, TypeOK
  <2>3. phase' \in Phases /\ rounds' \in 0..MaxRounds + 1
    BY DEF Finally, Phases, WorkModeConstantsOK
  <2>4. dropped' \subseteq Msgs /\ window' \subseteq Msgs /\ stash' \subseteq Msgs
    BY DEF Finally, TypeOK
  <2> QED
    BY <1>2, <1>3, <1>5, <2>1, <2>2, <2>3, <2>4 DEF Finally, TypeOK
<1>7. Shut'
  BY <1>3 DEF Finally, Shut, TypeOK, TraceAtEnd, ChainAtEnd
<1> QED
  BY <1>4, <1>6, <1>7

LEMMA EndSafe ==
  ASSUME IInv, WorkModeConstantsOK, EndTurn \/ Fail
  PROVE  IInv'
<1>1. CASE EndTurn
  <2>1. final' \in Finals
    BY <1>1 DEF EndTurn, IInv, TypeOK, Finals
  <2> QED
    BY <1>1, <2>1, FinallySafe DEF EndTurn
<1>2. CASE Fail
  <2>1. PICK back \in BOOLEAN : Finally(IF back THEN queue \cup {taken} ELSE queue)
    BY <1>2 DEF Fail
  <2>2. final' \in Finals /\ phase # "down"
    BY <1>2 DEF Fail, Finals, Awaiting
  <2> QED
    BY <1>2, <2>1, <2>2, FinallySafe DEF Fail
<1> QED
  BY <1>1, <1>2

LEMMA CrashSafe ==
  ASSUME IInv, WorkModeConstantsOK, Crash \/ Restart
  PROVE  IInv'
<1> USE DEF IInv
<1>1. CASE Crash
  <2>1. UNCHANGED <<queue, released, served, Pending>> /\ replay' = {} /\ taken' = {}
        /\ forgone' = forgone \cup replay
    BY <1>1 DEF Crash, Pending
  <2>2. \A m \in Msgs : /\ at[m] \in {"stashed", "done"} => at'[m] = at[m]
                        /\ at'[m] = "stashed" => at[m] = "stashed"
    BY <1>1 DEF Crash
  <2>3. Placed' /\ Apart' /\ StashIsKept'
    BY <2>1, <2>2 DEF Placed, Apart, StashIsKept
  <2>4. Mute \in Replies
    BY DEF Mute, Replies
  <2>5. at' \in [Msgs -> Ways]
    BY <1>1 DEF Crash, TypeOK, Ways
  <2>6. crashes' \in 0..MaxCrashes /\ rounds' \in 0..MaxRounds + 1
    BY <1>1 DEF Crash, TypeOK, WorkModeConstantsOK
  <2>7. forgone' \subseteq Msgs /\ replay' \subseteq Msgs /\ taken' \subseteq Msgs
    BY <2>1 DEF TypeOK
  <2>8. TypeOK'
    BY <1>1, <2>1, <2>4, <2>5, <2>6, <2>7 DEF Crash, TypeOK, Phases, Finals
  <2> QED
    BY <1>1, <2>3, <2>8 DEF Crash, Shut
<1>2. CASE Restart
  <2>1. Placed' /\ Apart' /\ StashIsKept'
    BY <1>2, PlacesUntouched DEF Restart, inbound, history
  <2> QED
    BY <1>2, <2>1 DEF Restart, TypeOK, Shut, inbound, history, Phases
<1> QED
  BY <1>1, <1>2

-----------------------------------------------------------------------------
LEMMA StepSafe ==
  ASSUME IInv, WorkModeConstantsOK, [Next]_vars
  PROVE  IInv'
<1>1. CASE \E m \in Msgs : Arrive(m)
  BY <1>1, ArriveSafe
<1>2. CASE TickDelayedQueue
  BY <1>2, TickSafe
<1>3. CASE Step
  BY <1>3, RoundSafe, EnterSafe, LoopSafe, EndSafe, CrashSafe DEF Step
<1>4. CASE Fail \/ Crash
  BY <1>4, EndSafe, CrashSafe
<1>5. CASE UNCHANGED vars
  <2>1. Placed' /\ Apart' /\ StashIsKept'
    BY <1>5, PlacesUntouched DEF vars
  <2> QED
    BY <1>5, <2>1 DEF IInv, TypeOK, Shut, vars
<1> QED
  BY <1>1, <1>2, <1>3, <1>4, <1>5 DEF Next

LEMMA InitSafe ==
  ASSUME Init, WorkModeConstantsOK
  PROVE  IInv
<1>1. Mute \in Replies
  BY DEF Mute, Replies
<1>2. Pending = {}
  BY DEF Init, Pending
<1>3. Placed /\ Apart /\ StashIsKept
  BY <1>2 DEF Init, Placed, Apart, StashIsKept
<1>4. TypeOK
  <2>1. /\ rounds \in 0..MaxRounds + 1 /\ crashes \in 0..MaxCrashes
        /\ at \in [Msgs -> Ways]
    BY DEF Init, WorkModeConstantsOK, Ways
  <2> QED
    BY <1>1, <2>1 DEF Init, TypeOK, Phases, Finals
<1>5. Shut
  BY DEF Init, Shut
<1> QED
  BY <1>3, <1>4, <1>5 DEF IInv

(* The invariant the theorems below are read off. *)
THEOREM WorkInvariance == Spec => []IInv
<1>1. Init => IInv
  BY InitSafe, WorkModeConstantsOK
<1>2. IInv /\ [Next]_vars => IInv'
  BY StepSafe, WorkModeConstantsOK
<1> QED
  BY <1>1, <1>2, PTL DEF Spec

(* Every variable keeps its type and a turn its bound on rounds. *)
THEOREM WorkTyping == Spec => []TypeOK
<1>1. IInv => TypeOK
  BY DEF IInv
<1> QED
  BY <1>1, WorkInvariance, PTL

(* A message stashed during a piece of work is never lost, however the     *)
(* work ends.                                                              *)
THEOREM StashKept == Spec => []StashIsKept
<1>1. IInv => StashIsKept
  BY DEF IInv
<1> QED
  BY <1>1, WorkInvariance, PTL

(* What being named let into the prompt does not come back to the queue.   *)
THEOREM NotRequeued == Spec => []ReleasedOnce
<1>1. IInv => ReleasedOnce
  BY DEF IInv, Apart, ReleasedOnce
<1> QED
  BY <1>1, WorkInvariance, PTL

(* No turn ends with a window, a run or a trace left open.                 *)
THEOREM AllShut == Spec => []NothingStaysOpen
<1>1. IInv => NothingStaysOpen
  BY DEF IInv, Shut, NothingStaysOpen
<1> QED
  BY <1>1, WorkInvariance, PTL

(* The model is never asked before it has been shown what named her.       *)
THEOREM NamedFirst == Spec => NamedIsShownNext
<1> DEFINE Shown ==
      phase' = "asked" /\ phase # "asked"
      => /\ window \subseteq shown' /\ window' = {}
         /\ flush => replay \subseteq released' /\ replay' = {}
<1>1. ASSUME IInv, [Next]_vars PROVE [Shown]_vars
  <2>1. CASE Round
    BY <1>1, <2>1 DEF IInv, Shut, Round, TakeFlushed, Flushed, ReplayAfterFlush, WindowTaken
  <2>2. CASE ~Round
    <3>1. ASSUME phase' = "asked", phase # "asked" PROVE FALSE
      BY <1>1, <2>2, <3>1
      DEF Next, Arrive, Step, Offer, InjectToolChainMessage, ProcessInWorkMode, Stash,
          ObserveInWorkMode, Observe, ProcessMessage, Decide, TickDelayedQueue, RoundLimit,
          Left, Answer, EnterWorkMode, QuitWorkMode, GoOn, Respond, LeaveLoop, ControlOnly,
          UseTools, ToolsDone, EndTurn, Finally, Fail, Crash, Restart, vars, turn
    <3> QED
      BY <3>1
  <2> QED
    BY <2>1, <2>2
<1> QED
  BY <1>1, WorkInvariance, PTL DEF Spec, NamedIsShownNext
=============================================================================
