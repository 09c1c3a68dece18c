---------------------------- MODULE DelayedDelivery ----------------------------
(***************************************************************************)
(* From a queued item to words in the chat.  One persona process and one   *)
(* chat: the ticker of core/bg_tasks_delayed.py announces items on the     *)
(* event bus of core/events.py, the NapCat adapter's handler claims the    *)
(* chat's turn, generates, and sends the reply part by part.  The process  *)
(* may die between any two steps; the queue file, the turn ledger and what *)
(* the platform has already shown survive.                                 *)
(*                                                                         *)
(* The ledger is TurnLedger, which GroupDispatcher implements.  Between    *)
(* two awaits the process runs alone, so an update in memory and the save  *)
(* that follows it are one step.                                           *)
(***************************************************************************)
EXTENDS DelayedQueue, Sequences

CONSTANTS
  Chat, Rival,  \* the chat, and any other event that takes its turn
  NoItem,
  MaxBus,       \* max_queue_size of the event bus subscription
  MaxCrashes,   \* bound: process deaths
  MaxRivals,    \* bound: turns that rivals take
  MaxEarly      \* bound: tool calls and partial replies of one turn

VARIABLES
  queue,   \* DelayedResponseQueue in memory
  disk,    \* delayed_queue.json
  told,    \* _delayed_event_emitted
  bus,     \* DELAYED_RESPONSE_TRIGGERED events not yet handled, by item
  turn,    \* the one delivery handler (_dispatch_delivery_active)
  lock,    \* get_agent_turn_lock is held by some other agent turn
  speaker, fate,  \* the turn ledger
  shown,   \* what the world has seen of each item: part numbers, 0 for
           \* a tool's effect or a partial reply
  known,   \* the item ids handed out so far
  crashes, rivals

memory == <<queue, told, bus, turn, lock>>
ledger == <<speaker, fate>>
count == <<known, crashes, rivals>>
vars == <<queue, disk, told, bus, turn, lock, speaker, fate, shown, known, crashes, rivals>>

ASSUME DeliveryConstantsOK ==
  /\ Rival \notin Items /\ NoItem \notin Items \cup {Rival}
  /\ MaxBus \in Nat /\ MaxCrashes \in Nat /\ MaxRivals \in Nat /\ MaxEarly \in Nat

Ledger == INSTANCE TurnLedger WITH
  Groups <- {Chat}, Inbound <- {Rival}, Stable <- Items,
  GroupOf <- [e \in Items \cup {Rival} |-> Chat], NoEvent <- NoItem

(* Where the handler is: at, the item it serves, what the I/O is for (a    *)
(* part of the reply, a partial reply, a tool that calls the adapter),     *)
(* whether an I/O has begun whose outcome the handler has not taken note   *)
(* of (io_pending), whether it has sent anything (sent_count), whether it  *)
(* has used a tool, the tool calls and partial replies so far, and how the *)
(* last send, or the whole turn, came out.                                 *)
Places == {"idle", "claimed", "gen", "tool", "start", "fenced", "air", "acked", "send", "close"}
Turns ==
  [at : Places, item : Items \cup {NoItem},
   io : {"part", "partial", "tool"}, pending : BOOLEAN,
   spoke : BOOLEAN, used : BOOLEAN, acts : 0..MaxEarly,
   out : {"none", "ok", "refused", "sent", "open", "uncertain"}]
Resting == [at |-> "idle", item |-> NoItem, io |-> "part", pending |-> FALSE,
            spoke |-> FALSE, used |-> FALSE, acts |-> 0, out |-> "none"]

Init ==
  /\ queue = [i \in Items |-> NoEntry]
  /\ disk = [i \in Items |-> NoEntry]
  /\ told = {}
  /\ bus = <<>>
  /\ turn = Resting /\ lock = FALSE
  /\ Ledger!Init
  /\ shown = [i \in Items |-> <<>>]
  /\ known = {} /\ crashes = 0 /\ rivals = 0

Save(q) == queue' = q /\ disk' = Snapshot(q)

Move(place) == turn' = [turn EXCEPT !.at = place]
Report(place, out) == turn' = [turn EXCEPT !.at = place, !.out = out]

-----------------------------------------------------------------------------
(* Messages come in. *)

Waiting == {i \in Items : Mergeable(queue, i)}
BusAccepts == Len(bus) < MaxBus

(* Slips, as in DelayedQueue: the mark is set though the bus refused the    *)
(* event; and, below, a deferral that leaves it set.                        *)
WrongAnnounce(i) ==
  /\ bus' = IF BusAccepts THEN Append(bus, i) ELSE bus
  /\ told' = told \cup {i}

Announce(i) ==
  IF BusAccepts THEN bus' = Append(bus, i) /\ told' = told \cup {i}
  ELSE UNCHANGED <<bus, told>>

(* The full pipeline: enqueue(), then the group's state is saved.  A reply *)
(* that is due at once is announced without waiting for the ticker.        *)
Enqueue(i, immediate) ==
  /\ \/ Waiting = {} /\ i \notin known /\ Save(Enqueued(queue, i))
     \/ i \in Waiting /\ queue[i].asked < MaxMessages /\ Save(Merged(queue, i))
  /\ known' = known \cup {i}
  /\ IF immediate THEN Announce(i) ELSE UNCHANGED <<told, bus>>
  /\ UNCHANGED <<turn, lock, ledger, shown, crashes, rivals>>

(* The short cut past the pipeline: merge_incoming(), unsaved, and for an  *)
(* explicit mention promote_pending(), which is announced again.           *)
MergeIncoming(i, mention) ==
  /\ i \in Waiting /\ queue[i].asked < MaxMessages
  /\ queue' = Merged(queue, i)
  /\ IF ~mention THEN UNCHANGED <<told, bus>>
     ELSE IF BusAccepts THEN Announce(i)
     ELSE told' = told \ {i} /\ UNCHANGED bus
  /\ UNCHANGED <<disk, turn, lock, ledger, shown, count>>

(* Any other message of the chat saves the queue as well. *)
SaveGroup == Save(queue) /\ UNCHANGED <<told, bus, turn, lock, ledger, shown, count>>

(* delayed_queue_ticker: expired items are announced once; the marks of    *)
(* items that are no longer pending are dropped first.                     *)
Pending == {i \in Items : queue[i].status = "pending"}

Tick(i) ==
  /\ i \in Pending /\ i \notin told
  /\ BusAccepts
  /\ bus' = Append(bus, i)
  /\ told' = (told \cap Pending) \cup {i}
  /\ UNCHANGED <<queue, disk, turn, lock, ledger, shown, count>>

-----------------------------------------------------------------------------
(* The handler takes an event off the bus. *)

Take(i) ==
  /\ bus # <<>> /\ Head(bus) = i
  /\ bus' = Tail(bus)

(* A delivery is running in this chat already: the item stays eligible. *)
TurnedAway(i) ==
  /\ Take(i) /\ turn.at # "idle"
  /\ told' = told \ {i}
  /\ UNCHANGED <<queue, disk, turn, lock, ledger, shown, count>>

(* Another agent turn holds the turn lock, or the ledger has given the     *)
(* chat to somebody: the event is spent, the item waits.                   *)
Final == {"sent", "uncertain"}

WrongDeferred(i) ==
  /\ bus # <<>> /\ Head(bus) = i /\ bus' = Tail(bus)
  /\ turn.at = "idle"
  /\ lock \/ (fate[i] \notin {"sent", "uncertain"} /\ speaker[Chat] # NoItem)
  /\ UNCHANGED <<queue, disk, told, turn, lock, ledger, shown, count>>

Deferred(i) ==
  /\ Take(i) /\ turn.at = "idle"
  /\ \/ lock
     \/ fate[i] \notin Final /\ speaker[Chat] # NoItem
  /\ told' = told \ {i}
  /\ UNCHANGED <<queue, disk, turn, lock, ledger, shown, count>>

(* admit() knows the outcome already: what is still queued of the item is  *)
(* filed accordingly.                                                      *)
Settled(i) ==
  /\ Take(i) /\ turn.at = "idle" /\ ~lock
  /\ fate[i] \in Final
  /\ told' = told \ {i}
  /\ LET q == TakePrepared(queue, i) IN
     IF i \in Pending /\ HasPayload(queue, i)
     THEN Save(IF fate[i] = "sent" THEN Commit(q, i) ELSE FailUncertain(q, i))
     ELSE Save(queue)
  /\ UNCHANGED <<turn, lock, ledger, shown, count>>

Claim(i) ==
  /\ Take(i) /\ turn.at = "idle" /\ ~lock
  /\ Ledger!Give({}, i)
  /\ turn' = [Resting EXCEPT !.at = "claimed", !.item = i]
  /\ UNCHANGED <<queue, disk, told, lock, shown, count>>

-----------------------------------------------------------------------------
(* tick_delayed_queue: a prepared reply is taken as it is; otherwise the   *)
(* item is consumed and a reply is generated.                              *)

Mine == turn.item
At(place) == turn.at = place

TakeReply ==
  /\ At("claimed") /\ ~lock /\ Mine \in Pending /\ HasPayload(queue, Mine)
  /\ Save(TakePrepared(queue, Mine))
  /\ Move("send")
  /\ UNCHANGED <<told, bus, lock, ledger, shown, count>>

Generate ==
  /\ At("claimed") /\ ~lock /\ Mine \in Waiting
  /\ Save(Started(queue, Mine))
  /\ Move("gen")
  /\ UNCHANGED <<told, bus, lock, ledger, shown, count>>

(* Too old to answer (freshness_ttl_seconds). *)
Stale ==
  /\ At("claimed") /\ ~lock /\ Mine \in Waiting
  /\ Save(Expired(queue, Mine))
  /\ Report("close", "open")
  /\ UNCHANGED <<told, bus, lock, ledger, shown, count>>

(* Nothing of the item is pending any more: the result is empty. *)
NothingToDo ==
  /\ At("claimed") /\ ~lock /\ Mine \notin Pending
  /\ Save(queue)
  /\ Report("close", "open")
  /\ UNCHANGED <<told, bus, lock, ledger, shown, count>>

(* Before a tool runs, or a partial reply leaves, the queue file says that *)
(* this turn must not be replayed.                                         *)
FenceEffect(place) ==
  /\ At("gen") /\ turn.acts < MaxEarly
  /\ Save(MarkUnsafe(queue, Mine))
  /\ turn' = [turn EXCEPT !.at = place, !.io = IF place = "start" THEN "partial" ELSE @,
                          !.used = @ \/ place = "tool", !.acts = @ + 1]
  /\ UNCHANGED <<told, bus, lock, ledger, shown, count>>

ToolRuns(works) ==
  /\ At("tool")
  /\ shown' = IF works THEN [shown EXCEPT ![Mine] = Append(@, 0)] ELSE shown
  /\ Move("gen")
  /\ UNCHANGED <<queue, disk, told, bus, lock, ledger, count>>

(* A tool that sends through the adapter goes through start_delivery too.  *)
(* The tool, and generation with it, takes any outcome for an answer; only *)
(* io_pending stays set.                                                   *)
ToolCalls ==
  /\ At("tool")
  /\ turn' = [turn EXCEPT !.at = "start", !.io = "tool"]
  /\ UNCHANGED <<queue, disk, told, bus, lock, ledger, shown, count>>

(* A tool takes the chat into work mode: what waits is dropped. *)
BeginWorkMode ==
  /\ At("gen")
  /\ Pending # {}
  /\ queue' = ClearGroup(queue)
  /\ UNCHANGED <<disk, told, bus, turn, lock, ledger, shown, count>>

(* A reply of n parts; none at all is a result too, the expected one after *)
(* silent tools.                                                           *)
Reply(n, rich, done) ==
  /\ At("gen")
  /\ rich => n > 0
  /\ done => n = 0 /\ turn.used
  /\ Save(Staged(queue, Mine, [parts |-> n, cursor |-> 0, rich |-> rich, done |-> done]))
  /\ told' = told \ {Mine}
  /\ Move("send")
  /\ UNCHANGED <<bus, lock, ledger, shown, count>>

(* Generation raised or was cancelled: it is retried only if nothing of it *)
(* can have escaped.                                                       *)
AfterGenerationError(q) ==
  IF RetrySafe(q, Mine) THEN Requeue(q, Mine, MaxRetries) ELSE FailUncertain(q, Mine)

Unsaid == IF turn.pending THEN "uncertain" ELSE "open"

GenerationFails ==
  /\ At("gen") \/ At("tool")
  /\ Save(AfterGenerationError(queue))
  /\ told' = told \ {Mine}
  /\ Report("close", Unsaid)
  /\ UNCHANGED <<bus, lock, ledger, shown, count>>

-----------------------------------------------------------------------------
(* Delivery, part by part. *)

Answer == queue[Mine].delivery.reply
PartsLeft == Answer.cursor < Answer.parts

NextPart ==
  /\ At("send") /\ PartsLeft
  /\ Move("start")
  /\ UNCHANGED <<queue, disk, told, bus, lock, ledger, shown, count>>

(* start_delivery returns at once while an earlier outcome is outstanding, *)
(* though the reply may have been staged over the fence in the file.       *)
AlreadyFenced ==
  /\ At("start") /\ turn.pending
  /\ Move("air")
  /\ UNCHANGED <<queue, disk, told, bus, lock, ledger, shown, count>>

(* start_delivery, first half: dispatcher.begin_delivery, the ledger. *)
FenceLedger ==
  /\ At("start") /\ ~turn.pending /\ Ledger!Fly(Mine)
  /\ Move("fenced")
  /\ UNCHANGED <<queue, disk, told, bus, lock, shown, count>>

(* A refused image is replaced by text; any other refusal ends the turn.   *)
Excused == turn.io = "part" /\ Answer.rich /\ Answer.cursor = 0

Plain(q) == [q EXCEPT ![Mine].delivery.reply.rich = FALSE]

(* known_outcome: the queue file first, the ledger next. *)
Acked(ok) ==
  LET q == AcknowledgePart(queue, Mine) IN
  /\ Save(IF ok /\ turn.io = "part" THEN [q EXCEPT ![Mine].delivery.reply.cursor = @ + 1]
          ELSE IF ~ok /\ Excused THEN Plain(q) ELSE q)
  /\ turn' = [turn EXCEPT !.at = "acked", !.pending = FALSE, !.spoke = @ \/ ok,
                          !.out = IF ok \/ Excused THEN "ok" ELSE "refused"]

(* Back in the turn that a tool, or a partial reply, is part of. *)
Resume == turn' = [turn EXCEPT !.at = "gen", !.io = "part"]

(* Nothing is sent: the lease is gone, or the socket is down. *)
NotSent ==
  /\ At("start")
  /\ IF turn.io = "tool" THEN Resume /\ UNCHANGED <<queue, disk>> ELSE Acked(FALSE)
  /\ UNCHANGED <<told, bus, lock, ledger, shown, count>>

(* start_delivery, second half: the queue file says "sending". *)
FenceQueue ==
  /\ At("fenced")
  /\ Save(BeginDelivery(queue, Mine))
  /\ turn' = [turn EXCEPT !.at = "air", !.pending = TRUE]
  /\ UNCHANGED <<told, bus, lock, ledger, shown, count>>

PartNo == IF turn.io = "part" THEN Answer.cursor + 1 ELSE 0
Show == shown' = [shown EXCEPT ![Mine] = Append(@, PartNo)]

(* The platform accepts the part and says so. *)
Accepted ==
  /\ At("air") /\ turn.io # "tool" /\ Show /\ Acked(TRUE)
  /\ UNCHANGED <<told, bus, lock, ledger, count>>

(* The platform rejects the part. *)
Rejected ==
  /\ At("air") /\ turn.io # "tool" /\ Acked(FALSE)
  /\ UNCHANGED <<told, bus, lock, ledger, shown, count>>

(* No answer (timeout, broken socket, cancellation), arrived or not.       *)
Unconfirmed(arrived) ==
  /\ At("air") /\ turn.io # "tool"
  /\ IF arrived THEN Show ELSE UNCHANGED shown
  /\ Save(FailUncertain(queue, Mine))
  /\ Report("close", "uncertain")
  /\ UNCHANGED <<told, bus, ledger, lock, count>>

(* A tool's call ends, one way or the other. *)
CallEnds(arrived) ==
  /\ At("air") /\ turn.io = "tool"
  /\ IF arrived THEN Show ELSE UNCHANGED shown
  /\ Resume
  /\ UNCHANGED <<queue, disk, told, bus, lock, ledger, count>>

(* What follows an acknowledged part, once the ledger knows as well.       *)
Onward ==
  IF turn.out = "ok"
  THEN (IF turn.io = "part" THEN Move("send") ELSE Resume) /\ UNCHANGED <<queue, disk>>
  ELSE /\ Save(IF turn.io = "part" THEN FailKnown(queue, Mine) ELSE AfterGenerationError(queue))
       /\ Report("close", "open")

AckLedger ==
  /\ At("acked")
  /\ IF speaker[Chat] = Mine /\ fate[Mine] = "flying"
     THEN Ledger!Land(Mine) ELSE UNCHANGED ledger
  /\ Onward
  /\ UNCHANGED <<told, bus, lock, shown, count>>

(* The image could not even be rendered: text instead. *)
RichFallback ==
  /\ At("send") /\ Excused
  /\ Acked(FALSE)
  /\ UNCHANGED <<told, bus, lock, ledger, shown, count>>

(* The handler is cancelled between two parts, or while it waits for the   *)
(* turn lock; fail_delivery(uncertain=io_pending) files what it served.    *)
Interrupted ==
  /\ \/ /\ At("send") /\ PartsLeft
        /\ Save(IF turn.pending THEN FailUncertain(queue, Mine) ELSE FailKnown(queue, Mine))
     \/ At("claimed") /\ lock /\ UNCHANGED <<queue, disk>>
  /\ Report("close", Unsaid)
  /\ UNCHANGED <<told, bus, lock, ledger, shown, count>>

(* All parts are out. *)
Complete ==
  /\ At("send") /\ ~PartsLeft
  /\ Answer.parts > 0 \/ Answer.done \/ turn.spoke
  /\ Save(Commit(queue, Mine))
  /\ Report("close", "sent")
  /\ UNCHANGED <<told, bus, lock, ledger, shown, count>>

(* There was nothing to say: given up at once. *)
NoOutput ==
  /\ At("send") /\ Answer.parts = 0 /\ ~Answer.done /\ ~turn.spoke
  /\ Save(Requeue(queue, Mine, 0))
  /\ Report("close", "open")
  /\ UNCHANGED <<told, bus, lock, ledger, shown, count>>

(* finish(): the turn goes back, and the ledger keeps the outcome.         *)
Finish ==
  /\ At("close")
  /\ IF speaker[Chat] = Mine THEN Ledger!Close(Chat, turn.out) ELSE UNCHANGED ledger
  /\ turn' = Resting
  /\ told' = told \ {Mine}
  /\ UNCHANGED <<queue, disk, bus, lock, shown, count>>

-----------------------------------------------------------------------------
(* The rest of the world. *)

(* The handler owns the turn lock while it generates. *)
OwnsLock == turn.at \in {"gen", "tool"} \/ turn.io # "part"

OtherTurnBegins ==
  /\ rivals < MaxRivals
  /\ ~lock /\ ~OwnsLock
  /\ lock' = TRUE /\ rivals' = rivals + 1
  /\ UNCHANGED <<queue, told, bus, turn, disk, ledger, shown, known, crashes>>

OtherTurnEnds ==
  /\ lock /\ lock' = FALSE
  /\ UNCHANGED <<queue, told, bus, turn, disk, ledger, shown, count>>

RivalSpeaks ==
  /\ rivals < MaxRivals
  /\ Ledger!Give({}, Rival)
  /\ rivals' = rivals + 1
  /\ UNCHANGED <<memory, disk, shown, known, crashes>>

RivalEnds ==
  /\ speaker[Chat] = Rival
  /\ Ledger!Close(Chat, "open")
  /\ UNCHANGED <<memory, disk, shown, count>>

(* The heartbeat came too late, or its process is gone. *)
LeaseLapses ==
  /\ speaker[Chat] # NoItem
  /\ Ledger!Expire({Chat})
  /\ UNCHANGED <<memory, disk, shown, count>>

Restarted ==
  /\ queue' = Restore(disk)
  /\ told' = {} /\ bus' = <<>>
  /\ turn' = Resting /\ lock' = FALSE
  /\ crashes' = crashes + 1
  /\ UNCHANGED <<disk, ledger, known, rivals>>

(* The process dies and starts again.  A part in the air, or a tool that   *)
(* is running, may still take effect.                                      *)
Crash ==
  /\ crashes < MaxCrashes
  /\ Restarted
  /\ \/ UNCHANGED shown
     \/ At("air") /\ Show
     \/ At("tool") /\ shown' = [shown EXCEPT ![Mine] = Append(@, 0)]

-----------------------------------------------------------------------------
Arrival ==
  \/ \E i \in Items, b \in BOOLEAN : Enqueue(i, b) \/ MergeIncoming(i, b)
  \/ SaveGroup

Event(i) == TurnedAway(i) \/ Deferred(i) \/ Settled(i) \/ Claim(i)

Handler ==
  \/ TakeReply \/ Generate \/ Stale \/ NothingToDo
  \/ \E p \in {"tool", "start"} : FenceEffect(p)
  \/ \E b \in BOOLEAN : ToolRuns(b) \/ Unconfirmed(b) \/ CallEnds(b)
  \/ ToolCalls \/ BeginWorkMode
  \/ \E n \in 0..MaxParts, b, d \in BOOLEAN : Reply(n, b, d)
  \/ GenerationFails
  \/ NextPart \/ AlreadyFenced \/ FenceLedger \/ NotSent \/ FenceQueue
  \/ Accepted \/ Rejected \/ AckLedger \/ RichFallback
  \/ Interrupted \/ Complete \/ NoOutput \/ Finish

Next ==
  \/ Arrival
  \/ \E i \in Items : Tick(i) \/ Event(i)
  \/ Handler
  \/ OtherTurnBegins \/ OtherTurnEnds \/ RivalSpeaks \/ RivalEnds \/ LeaseLapses
  \/ Crash

Spec == Init /\ [][Next]_vars

(* The event loop runs its tasks, api_timeout ends every wait for the      *)
(* platform, other turns end, and the lease of a dead process runs out.    *)
Abandoned == speaker[Chat] \in Items /\ At("idle")

FairSpec ==
  /\ Spec
  /\ \A i \in Items : WF_vars(Tick(i))
  /\ WF_vars(\E i \in Items : Event(i))
  /\ WF_vars(Handler)
  /\ WF_vars(OtherTurnEnds) /\ WF_vars(RivalEnds)
  /\ WF_vars(Abandoned /\ LeaseLapses)

-----------------------------------------------------------------------------
TypeOK ==
  /\ queue \in [Items -> Entries] /\ disk \in [Items -> Entries]
  /\ told \subseteq Items
  /\ bus \in Seq(Items) /\ Len(bus) <= MaxBus
  /\ turn \in Turns /\ lock \in BOOLEAN
  /\ speaker \in [{Chat} -> Items \cup {Rival, NoItem}]
  /\ fate \in [Items -> {"open", "flying", "uncertain", "sent"}]
  /\ shown \in [Items -> Seq(0..MaxParts)]
  /\ known \subseteq Items

(* The parts of a reply reach the chat in order and each at most once,     *)
(* through rejections, retries, cancellations, lapsed leases and crashes.  *)
PartsAmong(i, n) == {shown[i][m] : m \in 1..n} \ {0}
PartsShown(i) == PartsAmong(i, Len(shown[i]))
PartsOnceInOrder ==
  \A i \in Items : \A n \in 1..Len(shown[i]) :
    shown[i][n] > 0 => PartsAmong(i, n - 1) = 1..(shown[i][n] - 1)

(* A turn of which anything has escaped, a tool's effect, a partial reply  *)
(* or a part, is never generated again.                                    *)
NoReplay ==
  [][\A i \in Items :
       /\ queue'[i].status = "triggered" /\ ~HasPayload(queue', i)
       /\ queue[i].status = "pending"
       => shown[i] = <<>>]_vars

(* An item is filed as sent only if every part of its reply is in the chat *)
(* and the reply was made from all the messages the item consolidates.     *)
SentIsWhole ==
  [][\A i \in Items :
       queue'[i].status = "sent" /\ queue[i].status # "sent"
       => /\ queue[i].delivery.of = queue[i].asked
          /\ PartsShown(i) = 1..queue[i].delivery.reply.parts]_vars

(* What is in the air is barred from being delivered again by the ledger,  *)
(* and what is in the air or running as a tool is barred from being        *)
(* generated again by the file: were the process to die now, its successor *)
(* would read there that the outcome is uncertain, or the finished reply.  *)
EffectsAreFenced ==
  /\ At("air") => fate[Mine] \in {"flying", "uncertain"}
  /\ At("air") \/ At("tool") =>
       Restore(disk)[Mine].status = "uncertain" \/ HasPayload(disk, Mine)

(* An item taken off the queue is being served; none is stranded.          *)
TakenIsServed ==
  \A i \in Items : queue[i].status = "triggered" => Mine = i /\ ~At("idle")

(* Given up is given up: nothing brings a failed or an uncertain item back *)
(* into the queue, a restart included.                                     *)
GivenUpForGood ==
  [][\A i \in Items : queue[i].status \in {"failed", "uncertain"}
                       => queue'[i].status = queue[i].status]_vars

(* When the ledger says sent, the item has left the queue and the file.    *)
ConfirmedIsGone ==
  \A i \in Items : fate[i] = "sent" => queue[i].status \in Gone /\ disk[i] = NoEntry

(* The mark that keeps an item from being announced twice never keeps it   *)
(* from being announced at all: an event is on its way or being handled.   *)
MarkedIsAwaited ==
  \A i \in told \cap Pending : Mine = i \/ \E n \in 1..Len(bus) : bus[n] = i

(* Every item that waits is answered or given up.                          *)
Open(i) == queue[i].status \in {"pending", "triggered"}
EveryItemEnds == \A i \in Items : Open(i) ~> ~Open(i)
=============================================================================
