----------------------------- MODULE DelayedQueue -----------------------------
(***************************************************************************)
(* The delayed reply queue, sirius_pulse/core/delayed_response_queue.py,   *)
(* for one chat and one source adapter.  The methods never await, so each  *)
(* is an operator from a queue to the queue it leaves behind.              *)
(*                                                                         *)
(* Where an item is follows from its status: "pending" is in _queues;      *)
(* "triggered", "failed" and "uncertain" are in _in_flight; the rest have  *)
(* left.  A batch is one item: the ticker names the item it wakes for.     *)
(***************************************************************************)
EXTENDS Naturals

CONSTANTS
  Items,       \* item_id
  MaxRetries,  \* DEFAULT_MAX_GENERATION_RETRIES
  MaxMessages, \* bound: messages consolidated into one item
  MaxParts,    \* bound: parts (lines, stickers, pokes) of one reply
  NoReply      \* the delivery has no "results" yet

(* A generated reply: its parts, how many of them the platform has         *)
(* acknowledged, whether the first is tried as a rendered image, and       *)
(* whether silent tools have done all there was to do (delivery_complete). *)
Replies == [parts : 0..MaxParts, cursor : 0..MaxParts, rich : BOOLEAN, done : BOOLEAN]

ASSUME QueueConstantsOK ==
  /\ MaxRetries \in Nat /\ MaxMessages \in Nat \ {0} /\ MaxParts \in Nat
  /\ NoReply \notin Replies

InFlight == {"triggered", "failed", "uncertain"}
Gone == {"none", "cancelled", "cleared", "sent"}

(* _deliveries: the batch state, replay_safe, and what it was made of.     *)
Deliveries ==
  [state : {"none", "generating", "ready", "sending", "uncertain", "failed"},
   safe : BOOLEAN, of : 0..MaxMessages, reply : Replies \cup {NoReply}]

Entries ==
  [status : {"pending"} \cup InFlight \cup Gone,
   asked : 0..MaxMessages,  \* messages in message_content
   tries : 0..MaxRetries,   \* retry_count
   delivery : Deliveries]

NoDelivery == [state |-> "none", safe |-> TRUE, of |-> 0, reply |-> NoReply]
NoEntry == [status |-> "none", asked |-> 0, tries |-> 0, delivery |-> NoDelivery]

HasPayload(q, i) == q[i].delivery.reply # NoReply

-----------------------------------------------------------------------------
(* Input.  A message joins the pending item that has no reply yet. *)

(* The operators named Wrong... are slips the code could have made; each    *)
(* shows which property notices it.                                         *)
WrongMergeable(q, i) == q[i].status = "pending"

Mergeable(q, i) == q[i].status = "pending" /\ ~HasPayload(q, i)

Enqueued(q, i) == [q EXCEPT ![i] = [NoEntry EXCEPT !.status = "pending", !.asked = 1]]

Merged(q, i) == [q EXCEPT ![i].asked = @ + 1]

(* clear_group drops what waits and forgets neither payloads nor work. *)
ClearGroup(q) ==
  [i \in Items |-> IF q[i].status = "pending" THEN [q[i] EXCEPT !.status = "cleared"] ELSE q[i]]

-----------------------------------------------------------------------------
(* Generation. *)

(* tick() takes the item away and mark_generation_started() notes it. *)
Started(q, i) ==
  [q EXCEPT ![i].status = "triggered",
            ![i].delivery = [NoDelivery EXCEPT !.state = "generating", !.of = q[i].asked]]

Expired(q, i) == [q EXCEPT ![i].status = "cancelled"]

WrongMarkUnsafe(q, i) == q

MarkUnsafe(q, i) == [q EXCEPT ![i].delivery.safe = FALSE]

WrongRetrySafe(q, i) == q[i].delivery.state # "sending"

RetrySafe(q, i) == q[i].delivery.safe /\ q[i].delivery.state # "sending"

Staged(q, i, reply) ==
  [q EXCEPT ![i].delivery = [@ EXCEPT !.state = "ready", !.safe = TRUE, !.reply = reply]]

TakePrepared(q, i) == [q EXCEPT ![i].status = "triggered"]

-----------------------------------------------------------------------------
(* Delivery. *)

BeginDelivery(q, i) == [q EXCEPT ![i].delivery.state = "sending"]

AcknowledgePart(q, i) ==
  [q EXCEPT ![i].delivery.state = IF HasPayload(q, i) THEN "ready" ELSE "generating"]

WrongFromTheTop(q, i, max) ==
  IF q[i].status # "triggered" THEN q
  ELSE IF q[i].tries >= max
  THEN [q EXCEPT ![i].status = "failed", ![i].delivery.state = "failed"]
  ELSE [q EXCEPT ![i].status = "pending", ![i].tries = @ + 1,
                 ![i].delivery = IF HasPayload(q, i) THEN [@ EXCEPT !.reply.cursor = 0]
                                 ELSE NoDelivery]

(* requeue_in_flight: back to the queue, at most max times. *)
Requeue(q, i, max) ==
  IF q[i].status # "triggered" THEN q
  ELSE IF q[i].tries >= max
  THEN [q EXCEPT ![i].status = "failed", ![i].delivery.state = "failed"]
  ELSE [q EXCEPT ![i].status = "pending", ![i].tries = @ + 1,
                 ![i].delivery = IF HasPayload(q, i) THEN @ ELSE NoDelivery]

(* fail_delivery: an outcome nobody knows is never replayed. *)
FailUncertain(q, i) ==
  [q EXCEPT ![i].status = IF @ \in InFlight THEN "uncertain" ELSE @,
            ![i].delivery.state = "uncertain"]

WrongFailKnown(q, i) == AcknowledgePart(q, i)

FailKnown(q, i) == Requeue(AcknowledgePart(q, i), i, MaxRetries)

WrongCommit(q, i) == [q EXCEPT ![i].delivery = NoDelivery]

Commit(q, i) == [q EXCEPT ![i].status = "sent", ![i].delivery = NoDelivery]

-----------------------------------------------------------------------------
(* Persistence: snapshot() writes what is waiting or in flight; restore()  *)
(* decides what a restarted process may do again.                          *)

Snapshot(q) == [i \in Items |-> IF q[i].status \in Gone THEN NoEntry ELSE q[i]]

Unproven(d) == \/ d.state = "sending"
               \/ d.state = "generating" /\ ~d.safe

WrongRestoredEntry(e) == [e EXCEPT !.status = IF e = NoEntry THEN @ ELSE "pending"]

RestoredEntry(e) ==
  IF e.delivery.state = "none"
  THEN [e EXCEPT !.status = IF @ = "triggered" THEN "uncertain" ELSE @]
  ELSE IF Unproven(e.delivery)
  THEN [e EXCEPT !.status = "uncertain", !.delivery.state = "uncertain"]
  ELSE [e EXCEPT !.status = IF e.delivery.state \in {"uncertain", "failed"}
                            THEN e.delivery.state ELSE "pending"]

Restore(d) == [i \in Items |-> RestoredEntry(d[i])]
=============================================================================
