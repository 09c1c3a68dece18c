------------------------ MODULE DelayedDeliveryProofs ------------------------
(***************************************************************************)
(* What TLAPS proves of DelayedDelivery, for any items and any bounds.     *)
(* The invariant ties the handler's place to the entry it is working on;   *)
(* what other tasks do to the queue cannot touch that entry (Bystander),   *)
(* and what the handler does touches only that entry (OwnEntry).           *)
(***************************************************************************)
EXTENDS DelayedDelivery, SequenceTheorems, TLAPS

Serving == {"gen", "tool", "start", "fenced", "air", "acked", "send"}
Sending == {"start", "fenced", "air", "acked"}

(* The status an entry is filed under says why it was given up. *)
Filed(e) ==
  /\ e.status = "failed" => e.delivery.state = "failed"
  /\ e.status = "uncertain" => e.delivery.state \in {"uncertain", "none"}

(* The file holds what is worth holding, and a restart would read the same *)
(* verdict from it.                                                        *)
EntryOK(i) ==
  /\ Filed(queue[i]) /\ Filed(disk[i])
  /\ disk[i].status \in Gone => disk[i] = NoEntry
  /\ queue[i].status \in {"failed", "uncertain"}
     => RestoredEntry(disk[i]).status = queue[i].status
  /\ queue[i].status # "none" \/ disk[i] # NoEntry \/ fate[i] # "open" => i \in known
FileOK == \A i \in Items : EntryOK(i)

(* The handler holds the one item that is taken. *)
Placed ==
  /\ At("idle") <=> Mine = NoItem
  /\ \A i \in Items : queue[i].status = "triggered" <=> Mine = i /\ turn.at \in Serving

(* An outcome of the ledger that keeps an item from being delivered. *)
Barring == {"flying", "uncertain"}

(* What the handler has in hand where. *)
Shape ==
  /\ turn.at \in {"claimed", "gen", "tool", "send"} => turn.io = "part"
  /\ At("acked") => turn.io # "tool"
  /\ At("gen") \/ At("tool") \/ (turn.at \in Sending /\ turn.io # "part")
     => ~HasPayload(queue, Mine) /\ queue[Mine].delivery.state \in {"generating", "sending"}
  /\ At("tool") \/ (At("gen") /\ turn.pending) \/ (turn.at \in Sending /\ turn.io # "part")
     => ~queue[Mine].delivery.safe
  /\ At("send") \/ (turn.at \in Sending /\ turn.io = "part") => HasPayload(queue, Mine)
  /\ turn.at \in Sending \ {"acked"} /\ turn.io = "part" => PartsLeft
  /\ At("claimed") \/ At("acked") => ~turn.pending
  /\ At("air") => turn.pending
  /\ turn.at \in Serving /\ (turn.pending \/ At("fenced")) => fate[Mine] \in Barring
  /\ turn.at \in Serving => disk[Mine] = queue[Mine]

(* The outcome the handler is about to report is the one it filed. *)
Closed ==
  At("close") =>
    /\ turn.out \in {"open", "sent", "uncertain"}
    /\ turn.out = "sent" => queue[Mine].status = "sent" /\ disk[Mine] = NoEntry
    /\ turn.out = "uncertain" => queue[Mine].status = "uncertain"

IInv == TypeOK /\ FileOK /\ Placed /\ Shape /\ Closed /\ ConfirmedIsGone

-----------------------------------------------------------------------------
(* What the queue's methods do to the one entry they are about. *)

Queues == [Items -> Entries]

(* q and r differ at most in the entry of i. *)
Only(q, r, i) == r \in Queues /\ \A j \in Items \ {i} : r[j] = q[j]

LEMMA DeliveryFields ==
  ASSUME NEW d \in Deliveries
  PROVE  /\ d.state \in {"none", "generating", "ready", "sending", "uncertain", "failed"}
         /\ d.safe \in BOOLEAN /\ d.of \in 0..MaxMessages
         /\ d.reply # NoReply => d.reply \in Replies
BY DEF Deliveries

LEMMA EntryFields ==
  ASSUME NEW e \in Entries
  PROVE  /\ e.status \in {"pending"} \cup InFlight \cup Gone
         /\ e.asked \in 0..MaxMessages /\ e.tries \in 0..MaxRetries
         /\ e.delivery \in Deliveries
BY DEF Entries

LEMMA EmptyEntry ==
  ASSUME QueueConstantsOK
  PROVE  NoDelivery \in Deliveries /\ NoEntry \in Entries
<1>1. NoDelivery \in Deliveries
  BY DEF NoDelivery, Deliveries, QueueConstantsOK
<1> QED BY <1>1 DEF NoEntry, Entries, Gone, QueueConstantsOK

(* An entry filed under another status, with another delivery. *)
File(q, i, s, d) == [q EXCEPT ![i].status = s, ![i].delivery = d]

LEMMA Refiled ==
  ASSUME NEW q \in Queues, NEW i \in Items, NEW s \in {"pending"} \cup InFlight \cup Gone,
         NEW d \in Deliveries
  PROVE  /\ Only(q, File(q, i, s, d), i)
         /\ File(q, i, s, d)[i].status = s /\ File(q, i, s, d)[i].delivery = d
         /\ File(q, i, s, d)[i].asked = q[i].asked
<1> DEFINE e == [q[i] EXCEPT !.status = s, !.delivery = d]
<1>1. q[i] \in Entries
  BY DEF Queues
<1>2. e \in Entries /\ e.status = s /\ e.delivery = d /\ e.asked = q[i].asked
  BY <1>1 DEF Entries
<1>3. File(q, i, s, d) = [q EXCEPT ![i] = e]
  BY DEF Queues, File
<1> QED BY <1>2, <1>3 DEF Only, Queues

LEMMA Restated ==
  ASSUME NEW d \in Deliveries,
         NEW s \in {"none", "generating", "ready", "sending", "uncertain", "failed"}
  PROVE  LET c == [d EXCEPT !.state = s] IN
         c \in Deliveries /\ c.state = s /\ c.safe = d.safe /\ c.reply = d.reply /\ c.of = d.of
BY DEF Deliveries

LEMMA StartedIs ==
  ASSUME QueueConstantsOK, NEW q \in Queues, NEW i \in Items
  PROVE  LET r == Started(q, i) IN
         /\ Only(q, r, i) /\ r[i].status = "triggered"
         /\ r[i].delivery.state = "generating" /\ ~HasPayload(r, i) /\ r[i].delivery.safe
         /\ r[i].delivery.of = r[i].asked
<1> DEFINE d == [NoDelivery EXCEPT !.state = "generating", !.of = q[i].asked]
<1>1. q[i] \in Entries
  BY DEF Queues
<1>2. d \in Deliveries /\ d.state = "generating" /\ d.reply = NoReply /\ d.safe /\ d.of = q[i].asked
  BY <1>1, EntryFields DEF NoDelivery, Deliveries
<1>3. Started(q, i) = File(q, i, "triggered", d)
  BY DEF Started, File
<1> HIDE DEF d
<1>4. /\ Only(q, Started(q, i), i) /\ Started(q, i)[i].status = "triggered"
      /\ Started(q, i)[i].delivery = d /\ Started(q, i)[i].asked = q[i].asked
  BY <1>2, <1>3, Refiled DEF InFlight
<1> QED BY <1>2, <1>4 DEF HasPayload

(* The operators that change the status only. *)
WithStatus(q, i, s) == [q EXCEPT ![i].status = s]

LEMMA StatusIs ==
  ASSUME NEW q \in Queues, NEW i \in Items, NEW s \in {"pending"} \cup InFlight \cup Gone
  PROVE  LET r == WithStatus(q, i, s) IN
         Only(q, r, i) /\ r[i].status = s /\ r[i].delivery = q[i].delivery /\ r[i].asked = q[i].asked
<1> DEFINE e == [q[i] EXCEPT !.status = s]
<1>1. q[i] \in Entries
  BY DEF Queues
<1>2. e \in Entries /\ e.status = s /\ e.delivery = q[i].delivery /\ e.asked = q[i].asked
  BY <1>1 DEF Entries
<1>3. WithStatus(q, i, s) = [q EXCEPT ![i] = e]
  BY DEF Queues, WithStatus
<1> QED BY <1>2, <1>3 DEF Only, Queues

(* The operators that change the delivery only. *)
LEMMA DeliveryIs ==
  ASSUME NEW q \in Queues, NEW i \in Items, NEW d \in Deliveries
  PROVE  LET r == [q EXCEPT ![i].delivery = d] IN
         Only(q, r, i) /\ r[i].status = q[i].status /\ r[i].delivery = d /\ r[i].asked = q[i].asked
<1> DEFINE e == [q[i] EXCEPT !.delivery = d]
<1>1. q[i] \in Entries
  BY DEF Queues
<1>2. e \in Entries /\ e.status = q[i].status /\ e.delivery = d /\ e.asked = q[i].asked
  BY <1>1 DEF Entries
<1>3. [q EXCEPT ![i].delivery = d] = [q EXCEPT ![i] = e]
  BY DEF Queues
<1> QED BY <1>2, <1>3 DEF Only, Queues

WithState(q, i, s) == [q EXCEPT ![i].delivery.state = s]

LEMMA StateIs ==
  ASSUME NEW q \in Queues, NEW i \in Items,
         NEW s \in {"none", "generating", "ready", "sending", "uncertain", "failed"}
  PROVE  LET r == WithState(q, i, s) IN
         /\ Only(q, r, i) /\ r[i].status = q[i].status /\ r[i].delivery.state = s
         /\ r[i].delivery.reply = q[i].delivery.reply /\ r[i].delivery.safe = q[i].delivery.safe
         /\ r[i].delivery.of = q[i].delivery.of /\ r[i].asked = q[i].asked
<1> DEFINE d == [q[i].delivery EXCEPT !.state = s]
<1>1. q[i].delivery \in Deliveries
  BY EntryFields DEF Queues
<1>2. d \in Deliveries /\ d.state = s /\ d.reply = q[i].delivery.reply /\ d.safe = q[i].delivery.safe
      /\ d.of = q[i].delivery.of
  BY <1>1, Restated
<1>3. WithState(q, i, s) = [q EXCEPT ![i].delivery = d]
  BY DEF Queues, Entries, WithState
<1> HIDE DEF d
<1>4. /\ Only(q, [q EXCEPT ![i].delivery = d], i) /\ [q EXCEPT ![i].delivery = d][i].status = q[i].status
      /\ [q EXCEPT ![i].delivery = d][i].delivery = d
      /\ [q EXCEPT ![i].delivery = d][i].asked = q[i].asked
  BY <1>2, DeliveryIs
<1> QED BY <1>2, <1>3, <1>4

LEMMA MarkUnsafeIs ==
  ASSUME NEW q \in Queues, NEW i \in Items
  PROVE  LET r == MarkUnsafe(q, i) IN
         /\ Only(q, r, i) /\ r[i].status = q[i].status
         /\ r[i].delivery.state = q[i].delivery.state /\ ~r[i].delivery.safe
         /\ r[i].delivery.reply = q[i].delivery.reply
         /\ r[i].delivery.of = q[i].delivery.of /\ r[i].asked = q[i].asked
<1> DEFINE d == [q[i].delivery EXCEPT !.safe = FALSE]
<1>1. q[i].delivery \in Deliveries
  BY EntryFields DEF Queues
<1>2. d \in Deliveries /\ d.state = q[i].delivery.state /\ d.reply = q[i].delivery.reply /\ ~d.safe
      /\ d.of = q[i].delivery.of
  BY <1>1 DEF Deliveries
<1>3. MarkUnsafe(q, i) = [q EXCEPT ![i].delivery = d]
  BY DEF Queues, Entries, MarkUnsafe
<1> HIDE DEF d
<1>4. /\ Only(q, [q EXCEPT ![i].delivery = d], i) /\ [q EXCEPT ![i].delivery = d][i].status = q[i].status
      /\ [q EXCEPT ![i].delivery = d][i].delivery = d
      /\ [q EXCEPT ![i].delivery = d][i].asked = q[i].asked
  BY <1>2, DeliveryIs
<1> QED BY <1>2, <1>3, <1>4

LEMMA StagedIs ==
  ASSUME QueueConstantsOK, NEW q \in Queues, NEW i \in Items, NEW a \in Replies
  PROVE  LET r == Staged(q, i, a) IN
         /\ Only(q, r, i) /\ r[i].status = q[i].status /\ HasPayload(r, i)
         /\ r[i].delivery.reply = a /\ r[i].delivery.of = q[i].delivery.of /\ r[i].asked = q[i].asked
<1> DEFINE d == [q[i].delivery EXCEPT !.state = "ready", !.safe = TRUE, !.reply = a]
<1>1. q[i].delivery \in Deliveries
  BY EntryFields DEF Queues
<1>2. d \in Deliveries /\ d.reply = a /\ d.of = q[i].delivery.of
  BY <1>1 DEF Deliveries
<1>3. Staged(q, i, a) = [q EXCEPT ![i].delivery = d]
  BY DEF Queues, Entries, Staged
<1> HIDE DEF d
<1>4. /\ Only(q, [q EXCEPT ![i].delivery = d], i) /\ [q EXCEPT ![i].delivery = d][i].status = q[i].status
      /\ [q EXCEPT ![i].delivery = d][i].delivery = d
      /\ [q EXCEPT ![i].delivery = d][i].asked = q[i].asked
  BY <1>2, DeliveryIs
<1>5. a # NoReply
  BY DEF QueueConstantsOK
<1> QED BY <1>2, <1>3, <1>4, <1>5 DEF HasPayload

LEMMA AcknowledgePartIs ==
  ASSUME NEW q \in Queues, NEW i \in Items
  PROVE  LET r == AcknowledgePart(q, i) IN
         /\ Only(q, r, i) /\ r[i].status = q[i].status
         /\ r[i].delivery.state = IF HasPayload(q, i) THEN "ready" ELSE "generating"
         /\ r[i].delivery.reply = q[i].delivery.reply /\ r[i].delivery.safe = q[i].delivery.safe
         /\ r[i].delivery.of = q[i].delivery.of /\ r[i].asked = q[i].asked
<1>1. CASE HasPayload(q, i)
  <2>1. AcknowledgePart(q, i) = WithState(q, i, "ready")
    BY <1>1 DEF AcknowledgePart, WithState
  <2> QED BY <1>1, <2>1, StateIs
<1>2. CASE ~HasPayload(q, i)
  <2>1. AcknowledgePart(q, i) = WithState(q, i, "generating")
    BY <1>2 DEF AcknowledgePart, WithState
  <2> QED BY <1>2, <2>1, StateIs
<1> QED BY <1>1, <1>2

LEMMA BeginDeliveryIs ==
  ASSUME NEW q \in Queues, NEW i \in Items
  PROVE  LET r == BeginDelivery(q, i) IN
         /\ Only(q, r, i) /\ r[i].status = q[i].status /\ r[i].delivery.state = "sending"
         /\ r[i].delivery.reply = q[i].delivery.reply /\ r[i].delivery.safe = q[i].delivery.safe
         /\ r[i].delivery.of = q[i].delivery.of /\ r[i].asked = q[i].asked
<1>1. BeginDelivery(q, i) = WithState(q, i, "sending")
  BY DEF BeginDelivery, WithState
<1> QED BY <1>1, StateIs

LEMMA CommitIs ==
  ASSUME QueueConstantsOK, NEW q \in Queues, NEW i \in Items
  PROVE  Only(q, Commit(q, i), i) /\ Commit(q, i)[i].status = "sent"
<1>1. Commit(q, i) = File(q, i, "sent", NoDelivery)
  BY DEF Commit, File
<1> QED BY <1>1, EmptyEntry, Refiled DEF Gone

(* A taken item whose outcome nobody knows is filed as uncertain. *)
LEMMA FailUncertainIs ==
  ASSUME NEW q \in Queues, NEW i \in Items, q[i].status = "triggered"
  PROVE  LET r == FailUncertain(q, i) IN
         Only(q, r, i) /\ r[i].status = "uncertain" /\ r[i].delivery.state = "uncertain"
<1> DEFINE d == [q[i].delivery EXCEPT !.state = "uncertain"]
<1>1. q[i].delivery \in Deliveries
  BY EntryFields DEF Queues
<1>2. d \in Deliveries /\ d.state = "uncertain"
  BY <1>1, Restated
<1>3. FailUncertain(q, i) = File(q, i, "uncertain", d)
  BY DEF Queues, Entries, FailUncertain, InFlight, File
<1> HIDE DEF d
<1>4. /\ Only(q, FailUncertain(q, i), i) /\ FailUncertain(q, i)[i].status = "uncertain"
      /\ FailUncertain(q, i)[i].delivery = d
  BY <1>2, <1>3, Refiled DEF InFlight
<1> QED BY <1>2, <1>4

(* A taken item goes back to the queue or is filed as failed. *)
LEMMA RequeueIs ==
  ASSUME QueueConstantsOK, NEW q \in Queues, NEW i \in Items, NEW max \in 0..MaxRetries,
         q[i].status = "triggered"
  PROVE  LET r == Requeue(q, i, max) IN
         /\ Only(q, r, i) /\ r[i].status \in {"pending", "failed"}
         /\ r[i].status = "failed" => r[i].delivery.state = "failed"
         /\ r[i].status = "pending" =>
              IF HasPayload(q, i) THEN r[i].delivery = q[i].delivery /\ r[i].asked = q[i].asked
              ELSE ~HasPayload(r, i)
<1>1. q[i] \in Entries /\ q[i].delivery \in Deliveries /\ q[i].tries \in 0..MaxRetries
  BY EntryFields DEF Queues
<1>2. CASE q[i].tries >= max
  <2> DEFINE d == [q[i].delivery EXCEPT !.state = "failed"]
  <2>1. d \in Deliveries /\ d.state = "failed"
    BY <1>1, Restated
  <2>2. Requeue(q, i, max) = File(q, i, "failed", d)
    BY <1>2 DEF Queues, Entries, Requeue, File
  <2> HIDE DEF d
  <2>3. /\ Only(q, Requeue(q, i, max), i) /\ Requeue(q, i, max)[i].status = "failed"
        /\ Requeue(q, i, max)[i].delivery = d
    BY <2>1, <2>2, Refiled DEF InFlight
  <2> QED BY <2>1, <2>3
<1>3. CASE q[i].tries < max
  <2> DEFINE d == IF HasPayload(q, i) THEN q[i].delivery ELSE NoDelivery
             e == [q[i] EXCEPT !.status = "pending", !.tries = @ + 1, !.delivery = d]
  <2>1. d \in Deliveries
    BY <1>1, EmptyEntry
  <2>2. q[i].tries + 1 \in 0..MaxRetries
    BY <1>1, <1>3 DEF QueueConstantsOK
  <2>3. e \in Entries /\ e.status = "pending" /\ e.delivery = d /\ e.asked = q[i].asked
    BY <1>1, <2>1, <2>2 DEF Entries, HasPayload
  <2>4. ~(q[i].tries >= max)
    BY <1>1, <1>3 DEF QueueConstantsOK
  <2>5. Requeue(q, i, max) = [q EXCEPT ![i].status = "pending", ![i].tries = @ + 1,
             ![i].delivery = IF HasPayload(q, i) THEN @ ELSE NoDelivery]
    BY <2>4 DEF Requeue
  <2>6. @ = [q EXCEPT ![i] = e]
    BY DEF Queues, Entries
  <2>7. ~HasPayload(q, i) => d.reply = NoReply
    BY DEF NoDelivery
  <2> QED BY <2>3, <2>5, <2>6, <2>7 DEF Only, Queues, HasPayload
<1> QED BY <1>1, <1>2, <1>3 DEF QueueConstantsOK

(* What the adapter writes into the delivery itself. *)
LEMMA PlainIs ==
  ASSUME QueueConstantsOK, NEW q \in Queues, Mine \in Items, HasPayload(q, Mine)
  PROVE  LET r == Plain(q) IN
         /\ Only(q, r, Mine) /\ r[Mine].status = q[Mine].status /\ HasPayload(r, Mine)
         /\ r[Mine].delivery.state = q[Mine].delivery.state
         /\ r[Mine].delivery.reply.cursor = q[Mine].delivery.reply.cursor
         /\ r[Mine].delivery.reply.parts = q[Mine].delivery.reply.parts
         /\ r[Mine].delivery.of = q[Mine].delivery.of /\ r[Mine].asked = q[Mine].asked
<1> DEFINE i == Mine
           a == [q[i].delivery.reply EXCEPT !.rich = FALSE]
           d == [q[i].delivery EXCEPT !.reply = a]
<1>1. q[i].delivery \in Deliveries /\ q[i].delivery.reply \in Replies
  BY EntryFields, DeliveryFields DEF Queues, HasPayload
<1>2. a \in Replies /\ a # NoReply
      /\ a.cursor = q[i].delivery.reply.cursor /\ a.parts = q[i].delivery.reply.parts
  BY <1>1 DEF Replies, QueueConstantsOK
<1> HIDE DEF a
<1>3. d \in Deliveries /\ d.reply = a /\ d.state = q[i].delivery.state
      /\ d.of = q[i].delivery.of
  BY <1>1, <1>2 DEF Deliveries
<1>4. Plain(q) = [q EXCEPT ![i].delivery = d]
  BY <1>1 DEF Queues, Entries, Plain, a, Deliveries, Replies
<1> HIDE DEF d
<1>5. /\ Only(q, [q EXCEPT ![i].delivery = d], i) /\ [q EXCEPT ![i].delivery = d][i].status = q[i].status
      /\ [q EXCEPT ![i].delivery = d][i].delivery = d
      /\ [q EXCEPT ![i].delivery = d][i].asked = q[i].asked
  BY <1>3, DeliveryIs
<1> QED BY <1>2, <1>3, <1>4, <1>5 DEF HasPayload

Further(q) == [q EXCEPT ![Mine].delivery.reply.cursor = @ + 1]

LEMMA FurtherIs ==
  ASSUME QueueConstantsOK, NEW q \in Queues, Mine \in Items, HasPayload(q, Mine),
         q[Mine].delivery.reply.cursor < q[Mine].delivery.reply.parts
  PROVE  LET r == Further(q) IN
         /\ Only(q, r, Mine) /\ r[Mine].status = q[Mine].status /\ HasPayload(r, Mine)
         /\ r[Mine].delivery.state = q[Mine].delivery.state
         /\ r[Mine].delivery.reply.cursor = q[Mine].delivery.reply.cursor + 1
         /\ r[Mine].delivery.reply.parts = q[Mine].delivery.reply.parts
         /\ r[Mine].delivery.of = q[Mine].delivery.of /\ r[Mine].asked = q[Mine].asked
<1> DEFINE i == Mine
           a == [q[i].delivery.reply EXCEPT !.cursor = @ + 1]
           d == [q[i].delivery EXCEPT !.reply = a]
<1>1. q[i].delivery \in Deliveries /\ q[i].delivery.reply \in Replies
  BY EntryFields, DeliveryFields DEF Queues, HasPayload
<1>2. a \in Replies /\ a # NoReply
      /\ a.cursor = q[i].delivery.reply.cursor + 1 /\ a.parts = q[i].delivery.reply.parts
  BY <1>1 DEF Replies, QueueConstantsOK
<1> HIDE DEF a
<1>3. d \in Deliveries /\ d.reply = a /\ d.state = q[i].delivery.state
      /\ d.of = q[i].delivery.of
  BY <1>1, <1>2 DEF Deliveries
<1>4. Further(q) = [q EXCEPT ![i].delivery = d]
  BY <1>1 DEF Queues, Entries, Further, a, Deliveries, Replies
<1> HIDE DEF d
<1>5. /\ Only(q, [q EXCEPT ![i].delivery = d], i) /\ [q EXCEPT ![i].delivery = d][i].status = q[i].status
      /\ [q EXCEPT ![i].delivery = d][i].delivery = d
      /\ [q EXCEPT ![i].delivery = d][i].asked = q[i].asked
  BY <1>3, DeliveryIs
<1> QED BY <1>2, <1>3, <1>4, <1>5 DEF HasPayload

(* A taken item after generation went wrong. *)
LEMMA AfterGenerationErrorIs ==
  ASSUME QueueConstantsOK, NEW q \in Queues, Mine \in Items, q[Mine].status = "triggered"
  PROVE  LET r == AfterGenerationError(q) IN
         /\ Only(q, r, Mine) /\ r[Mine].status \in {"pending", "failed", "uncertain"}
         /\ Filed(r[Mine])
         /\ r[Mine].status = "pending" => q[Mine].delivery.safe /\ (HasPayload(q, Mine) <=> HasPayload(r, Mine))
<1>1. MaxRetries \in 0..MaxRetries
  BY DEF QueueConstantsOK
<1> QED BY <1>1, RequeueIs, FailUncertainIs DEF AfterGenerationError, RetrySafe, Filed, HasPayload

(* A taken item after a part came back refused. *)
LEMMA FailKnownIs ==
  ASSUME QueueConstantsOK, NEW q \in Queues, NEW i \in Items, q[i].status = "triggered"
  PROVE  LET r == FailKnown(q, i) IN
         /\ Only(q, r, i) /\ r[i].status \in {"pending", "failed"} /\ Filed(r[i])
         /\ r[i].status = "pending" /\ HasPayload(q, i) =>
              /\ HasPayload(r, i) /\ r[i].delivery.reply = q[i].delivery.reply
              /\ r[i].delivery.of = q[i].delivery.of /\ r[i].asked = q[i].asked
<1>1. MaxRetries \in 0..MaxRetries
  BY DEF QueueConstantsOK
<1>2. /\ Only(q, AcknowledgePart(q, i), i) /\ AcknowledgePart(q, i) \in Queues
      /\ AcknowledgePart(q, i)[i].status = "triggered"
      /\ AcknowledgePart(q, i)[i].delivery.reply = q[i].delivery.reply
      /\ AcknowledgePart(q, i)[i].delivery.of = q[i].delivery.of
      /\ AcknowledgePart(q, i)[i].asked = q[i].asked
  BY AcknowledgePartIs DEF Only
<1> QED BY <1>1, <1>2, RequeueIs DEF FailKnown, Filed, Only, HasPayload

-----------------------------------------------------------------------------
(* The file. *)

LEMMA SnapshotIs ==
  ASSUME QueueConstantsOK, NEW q \in Queues
  PROVE  /\ Snapshot(q) \in Queues
         /\ \A i \in Items : Snapshot(q)[i] = IF q[i].status \in Gone THEN NoEntry ELSE q[i]
BY EmptyEntry DEF Snapshot, Queues

(* What a restart makes of an entry of the file. *)
LEMMA RestoredEntryIs ==
  ASSUME QueueConstantsOK, NEW e \in Entries, Filed(e), e.status \in Gone => e = NoEntry
  PROVE  LET r == RestoredEntry(e) IN
         /\ r \in Entries /\ Filed(r) /\ r.status # "triggered"
         /\ r.status \in {"failed", "uncertain"} => RestoredEntry(e).status = r.status
         /\ e = NoEntry <=> r.status \in Gone
         /\ e = NoEntry => r = NoEntry
         /\ e.status \in {"failed", "uncertain"} => r.status = e.status
<1> DEFINE r == RestoredEntry(e)
<1>1. e.delivery \in Deliveries /\ e.status \in {"pending"} \cup InFlight \cup Gone
  BY EntryFields
<1>2. CASE e.delivery.state = "none"
  <2>1. r = [e EXCEPT !.status = IF e.status = "triggered" THEN "uncertain" ELSE e.status]
    BY <1>2 DEF RestoredEntry
  <2>2. r \in Entries /\ r.status = (IF e.status = "triggered" THEN "uncertain" ELSE e.status) /\ r.delivery = e.delivery
    BY <2>1, <1>1 DEF Entries, InFlight
  <2>3. e.status # "triggered" => r = e
    BY <2>1 DEF Entries
  <2> QED BY <1>1, <1>2, <2>2, <2>3 DEF Filed, Gone, NoEntry, InFlight
<1>3. CASE e.delivery.state # "none" /\ Unproven(e.delivery)
  <2>1. r = [e EXCEPT !.status = "uncertain", !.delivery = [e.delivery EXCEPT !.state = "uncertain"]]
    BY <1>3 DEF RestoredEntry, Entries
  <2>2. [e.delivery EXCEPT !.state = "uncertain"] \in Deliveries /\ [e.delivery EXCEPT !.state = "uncertain"].state = "uncertain"
    BY <1>1, Restated
  <2>3. r \in Entries /\ r.status = "uncertain" /\ r.delivery.state = "uncertain"
    BY <2>1, <2>2 DEF Entries, InFlight
  <2>4. e # NoEntry
    BY <1>3 DEF NoEntry, NoDelivery
  <2>5. e.status # "failed"
    BY <1>3 DEF Filed, Unproven
  <2> QED BY <2>3, <2>4, <2>5 DEF Filed, Gone
<1>4. CASE e.delivery.state # "none" /\ ~Unproven(e.delivery)
  <2> DEFINE s == IF e.delivery.state \in {"uncertain", "failed"} THEN e.delivery.state ELSE "pending"
  <2>1. r = [e EXCEPT !.status = s]
    BY <1>4 DEF RestoredEntry
  <2>2. s \in {"pending", "uncertain", "failed"}
    OBVIOUS
  <2>3. r \in Entries /\ r.status = s /\ r.delivery = e.delivery
    BY <2>1, <2>2 DEF Entries, InFlight
  <2>4. e # NoEntry
    BY <1>4 DEF NoEntry, NoDelivery
  <2>5. e.status \in {"failed", "uncertain"} => s = e.status
    BY <1>4 DEF Filed
  <2> QED BY <2>2, <2>3, <2>4, <2>5 DEF Filed, Gone
<1> QED BY <1>2, <1>3, <1>4

-----------------------------------------------------------------------------
(* The type invariant in three parts. *)

QueueTyped == queue \in Queues /\ disk \in Queues
LedgerTyped ==
  /\ speaker \in [{Chat} -> Items \cup {Rival, NoItem}]
  /\ fate \in [Items -> {"open", "flying", "uncertain", "sent"}]
RestTyped ==
  /\ told \subseteq Items
  /\ bus \in Seq(Items) /\ Len(bus) <= MaxBus
  /\ lock \in BOOLEAN
  /\ shown \in [Items -> Seq(0..MaxParts)]
  /\ known \subseteq Items

LEMMA TypeParts ==
  TypeOK <=> QueueTyped /\ LedgerTyped /\ RestTyped /\ turn \in Turns
BY DEF TypeOK, QueueTyped, LedgerTyped, RestTyped, Queues

LEMMA TurnFields ==
  ASSUME turn \in Turns
  PROVE  /\ turn.at \in Places /\ Mine \in Items \cup {NoItem}
         /\ turn.io \in {"part", "partial", "tool"} /\ turn.pending \in BOOLEAN
         /\ turn.spoke \in BOOLEAN /\ turn.used \in BOOLEAN
         /\ turn.acts \in 0..MaxEarly
         /\ turn.out \in {"none", "ok", "refused", "sent", "open", "uncertain"}
BY DEF Turns, Mine

-----------------------------------------------------------------------------
(* What the ledger does, as the delivery sees it. *)

LEMMA GiveIs ==
  ASSUME DeliveryConstantsOK, LedgerTyped, NEW e \in Items \cup {Rival}, Ledger!Give({}, e)
  PROVE  LedgerTyped' /\ \A i \in Items : fate'[i] = fate[i]
<1>1. speaker' = [Ledger!Freed({}) EXCEPT ![[f \in Items \cup {Rival} |-> Chat][e]] = e]
  BY DEF Ledger!Give
<1>2. [f \in Items \cup {Rival} |-> Chat][e] = Chat
  OBVIOUS
<1>3. Ledger!Freed({}) \in [{Chat} -> Items \cup {Rival, NoItem}]
  BY DEF Ledger!Freed, LedgerTyped
<1>4. speaker' \in [{Chat} -> Items \cup {Rival, NoItem}]
  BY <1>1, <1>2, <1>3
<1>5. fate' = [i \in Items |-> fate[i]]
  BY DEF Ledger!Give, Ledger!TimedOut
<1> QED BY <1>4, <1>5 DEF LedgerTyped

LEMMA ExpireIs ==
  ASSUME LedgerTyped, Ledger!Expire({Chat})
  PROVE  /\ LedgerTyped'
         /\ \A i \in Items : fate'[i] = fate[i] \/ (fate[i] = "flying" /\ fate'[i] = "uncertain")
<1>1. speaker' \in [{Chat} -> Items \cup {Rival, NoItem}]
  BY DEF Ledger!Expire, Ledger!Freed, LedgerTyped
<1>2. fate' = [i \in Items |-> IF fate[i] = "flying" /\ \E g \in {Chat} : speaker[g] = i
                               THEN "uncertain" ELSE fate[i]]
  BY DEF Ledger!Expire, Ledger!TimedOut
<1> QED BY <1>1, <1>2 DEF LedgerTyped

LEMMA CloseIs ==
  ASSUME LedgerTyped, NEW o \in {"open", "sent", "uncertain"}, Ledger!Close(Chat, o)
  PROVE  /\ LedgerTyped'
         /\ \A i \in Items : fate'[i] = IF i = speaker[Chat] THEN o ELSE fate[i]
<1>1. speaker' \in [{Chat} -> Items \cup {Rival, NoItem}]
  BY DEF Ledger!Close, LedgerTyped
<1>2. fate' = [i \in Items |-> IF i = speaker[Chat] THEN o ELSE fate[i]]
  BY DEF Ledger!Close
<1> QED BY <1>1, <1>2 DEF LedgerTyped

LEMMA FlyIs ==
  ASSUME LedgerTyped, NEW e \in Items, Ledger!Fly(e)
  PROVE  /\ LedgerTyped'
         /\ \A i \in Items : fate'[i] = IF i = e THEN "flying" ELSE fate[i]
BY DEF Ledger!Fly, LedgerTyped

LEMMA LandIs ==
  ASSUME LedgerTyped, NEW e \in Items, Ledger!Land(e)
  PROVE  /\ LedgerTyped'
         /\ \A i \in Items : fate'[i] = IF i = e THEN "open" ELSE fate[i]
BY DEF Ledger!Land, LedgerTyped

-----------------------------------------------------------------------------
(* Steps that save, and steps that leave queue and file alone. *)

LEMMA Saved ==
  ASSUME QueueConstantsOK, queue' \in Queues, disk' = Snapshot(queue'),
         \A i \in Items : Filed(queue'[i]),
         \A i \in Items : queue'[i].status # "none" \/ fate'[i] # "open" => i \in known',
         \A i \in Items : fate'[i] = "sent" => queue'[i].status \in Gone
  PROVE  /\ QueueTyped' /\ FileOK' /\ ConfirmedIsGone'
         /\ \A i \in Items : disk'[i] = IF queue'[i].status \in Gone THEN NoEntry ELSE queue'[i]
<1>1. /\ disk' \in Queues
      /\ \A i \in Items : disk'[i] = IF queue'[i].status \in Gone THEN NoEntry ELSE queue'[i]
  BY SnapshotIs
<1>2. QueueTyped' /\ ConfirmedIsGone'
  BY <1>1 DEF QueueTyped, ConfirmedIsGone
<1>3. ASSUME NEW i \in Items PROVE EntryOK(i)'
  <2>1. Filed(NoEntry) /\ NoEntry.status = "none"
    BY DEF Filed, NoEntry
  <2>2. Filed(disk'[i]) /\ disk'[i] \in Entries
    BY <1>1, <2>1 DEF Queues
  <2>3. disk'[i].status \in Gone => disk'[i] = NoEntry
    BY <1>1
  <2>4. disk'[i] # NoEntry => queue'[i].status # "none"
    BY <1>1 DEF Gone
  <2>5. queue'[i].status \in {"failed", "uncertain"} => disk'[i] = queue'[i]
    BY <1>1 DEF Gone
  <2>6. queue'[i].status \in {"failed", "uncertain"} => RestoredEntry(disk'[i]).status = queue'[i].status
    BY <2>2, <2>3, <2>5, RestoredEntryIs
  <2> QED BY <2>2, <2>3, <2>4, <2>6 DEF EntryOK
<1> QED BY <1>1, <1>2, <1>3 DEF FileOK

(* What bars a delivery stays, unless the handler learns the outcome. *)
Firm == \A i \in Items : fate[i] \in Barring => fate'[i] \in Barring

(* The ledger may move for items it knows, but never to "sent". *)
Quiet == \A i \in Items : fate'[i] = fate[i] \/ (i \in known /\ fate'[i] # "sent")

LEMMA Kept ==
  ASSUME FileOK, QueueTyped, ConfirmedIsGone, UNCHANGED <<queue, disk, known>>, Quiet
  PROVE  QueueTyped' /\ FileOK' /\ ConfirmedIsGone'
<1>1. QueueTyped' /\ ConfirmedIsGone'
  BY DEF QueueTyped, ConfirmedIsGone, Quiet
<1>2. ASSUME NEW i \in Items PROVE EntryOK(i)'
  BY DEF FileOK, EntryOK, Quiet
<1> QED BY <1>1, <1>2 DEF FileOK

(* The handler rewrites its own entry and saves. *)
LEMMA OwnEntry ==
  ASSUME QueueConstantsOK, DeliveryConstantsOK, IInv, Mine \in Items,
         Only(queue, queue', Mine), disk' = Snapshot(queue'), Filed(queue'[Mine]),
         queue[Mine].status \in {"pending", "triggered"},
         Quiet, known' = known, turn'.item = Mine, turn'.at # "idle",
         queue'[Mine].status = "triggered" <=> turn'.at \in Serving
  PROVE  /\ QueueTyped' /\ FileOK' /\ ConfirmedIsGone' /\ Placed'
         /\ disk'[Mine] = IF queue'[Mine].status \in Gone THEN NoEntry ELSE queue'[Mine]
<1>1. \A i \in Items : queue'[i] = queue[i] \/ i = Mine
  BY DEF Only
<1>2. queue' \in Queues
  BY DEF Only
<1>3. \A i \in Items : Filed(queue'[i])
  BY <1>1 DEF IInv, FileOK, EntryOK
<1>4. fate[Mine] # "sent" /\ Mine \in known
  BY DEF IInv, ConfirmedIsGone, Gone, FileOK, EntryOK
<1>5. \A i \in Items : queue'[i].status # "none" \/ fate'[i] # "open" => i \in known'
  BY <1>1, <1>4 DEF IInv, FileOK, EntryOK, Quiet
<1>6. \A i \in Items : fate'[i] = "sent" => queue'[i].status \in Gone
  BY <1>1, <1>4 DEF IInv, ConfirmedIsGone, Quiet
<1>7. Placed'
  BY <1>1 DEF IInv, Placed, At, Mine, DeliveryConstantsOK
<1> QED BY <1>2, <1>3, <1>5, <1>6, <1>7, Saved

(* Other tasks rewrite entries that wait or are new, and leave the         *)
(* handler alone.                                                          *)
LEMMA Bystander ==
  ASSUME QueueConstantsOK, IInv, turn' = turn, queue' \in Queues, LedgerTyped', RestTyped', Quiet, Firm,
         disk' = Snapshot(queue') \/ (disk' = disk /\ \A i \in Items : queue'[i].status = "uncertain" => queue[i].status = "uncertain"),
         known \subseteq known',
         \A i \in Items :
           \/ queue'[i] = queue[i]
           \/ /\ queue[i].status = "pending" \/ i \notin known
              /\ Filed(queue'[i]) /\ i \in known'
              /\ queue'[i].status \in {"pending", "cleared", "sent", "uncertain"}
  PROVE  IInv'
<1>1. \A i \in Items : i \notin known => queue[i].status = "none" /\ fate[i] = "open"
  BY DEF IInv, FileOK, EntryOK
<1>2. \A i \in Items : Filed(queue'[i])
  BY DEF IInv, FileOK, EntryOK
<1>3. \A i \in Items : queue'[i].status # "none" \/ fate'[i] # "open" => i \in known'
  BY DEF IInv, FileOK, EntryOK, Quiet
<1>4. \A i \in Items : queue[i].status \notin {"none", "pending"} => queue'[i] = queue[i]
  BY <1>1
<1>5. \A i \in Items : fate'[i] = "sent" => queue'[i].status \in Gone /\ disk[i] = NoEntry
  BY <1>1 DEF IInv, ConfirmedIsGone, Quiet, Gone
<1>6. QueueTyped' /\ FileOK' /\ ConfirmedIsGone'
  <2>1. CASE disk' = Snapshot(queue')
    BY <2>1, <1>2, <1>3, <1>5, Saved
  <2>2. CASE disk' = disk /\ \A i \in Items : queue'[i].status = "uncertain" => queue[i].status = "uncertain"
    <3>1. QueueTyped' /\ ConfirmedIsGone'
      BY <2>2, <1>5 DEF IInv, TypeOK, QueueTyped, ConfirmedIsGone, Queues
    <3>2. ASSUME NEW i \in Items PROVE EntryOK(i)'
      <4>1. /\ Filed(disk'[i]) /\ (disk'[i].status \in Gone => disk'[i] = NoEntry)
            /\ disk'[i] # NoEntry => i \in known'
        BY <2>2 DEF IInv, FileOK, EntryOK
      <4>2. queue'[i].status \in {"failed", "uncertain"} => queue'[i] = queue[i]
        BY <2>2, <1>1
      <4>3. queue'[i].status \in {"failed", "uncertain"} => RestoredEntry(disk'[i]).status = queue'[i].status
        BY <2>2, <4>2 DEF IInv, FileOK, EntryOK
      <4> QED BY <4>1, <4>3, <1>2, <1>3 DEF EntryOK
    <3> QED BY <3>1, <3>2 DEF FileOK
  <2> QED BY <2>1, <2>2
<1>7. \A i \in Items : queue'[i].status = "triggered" <=> queue[i].status = "triggered"
  BY <1>4
<1>8. Placed'
  BY <1>7 DEF IInv, Placed, At, Mine
<1>9. turn.at \in Serving => Mine \in Items /\ queue[Mine].status = "triggered" /\ queue'[Mine] = queue[Mine]
  BY <1>4, TurnFields, TypeParts DEF IInv, Placed, Serving, At
<1>10. turn.at \in Serving => disk'[Mine] = queue'[Mine] /\ (fate[Mine] \in Barring => fate'[Mine] \in Barring)
  <2>1. turn.at \in Serving => (disk' = Snapshot(queue') => disk'[Mine] = queue'[Mine])
    BY <1>9, SnapshotIs DEF Gone
  <2> QED BY <2>1, <1>9 DEF IInv, Shape, Firm
<1>11. Shape'
  BY <1>9, <1>10 DEF IInv, Shape, At, Mine, Serving, Sending, HasPayload, PartsLeft, Answer
<1>12. Closed'
  <2> SUFFICES ASSUME At("close") PROVE
        /\ turn.out = "sent" => queue'[Mine].status = "sent" /\ disk'[Mine] = NoEntry
        /\ turn.out = "uncertain" => queue'[Mine].status = "uncertain"
    BY DEF IInv, Closed, At, Mine
  <2>1. Mine \in Items
    BY TurnFields, TypeParts DEF IInv, Placed, At
  <2>2. turn.out \in {"sent", "uncertain"} => queue'[Mine] = queue[Mine]
    BY <2>1, <1>4 DEF IInv, Closed
  <2>3. turn.out = "sent" => disk'[Mine] = NoEntry
    BY <2>1, <2>2, SnapshotIs DEF IInv, Closed, Gone
  <2> QED BY <2>2, <2>3 DEF IInv, Closed
<1>13. TypeOK'
  BY <1>6, TypeParts DEF TypeOK, QueueTyped, LedgerTyped, RestTyped, IInv, Queues
<1> QED BY <1>6, <1>8, <1>11, <1>12, <1>13 DEF IInv

-----------------------------------------------------------------------------
(* The steps of other tasks. *)

(* Most of them do not touch the queue at all. *)
LEMMA QuietStep ==
  ASSUME QueueConstantsOK, IInv, UNCHANGED <<turn, queue, disk, known>>,
         LedgerTyped', RestTyped', Quiet, Firm
  PROVE  IInv'
<1>1. queue' \in Queues
  BY TypeParts DEF IInv, QueueTyped
<1> QED BY <1>1, Bystander

LEMMA AnnounceIs ==
  ASSUME DeliveryConstantsOK, RestTyped, NEW i \in Items, Announce(i)
  PROVE  told' \subseteq Items /\ bus' \in Seq(Items) /\ Len(bus') <= MaxBus
<1>1. CASE BusAccepts
  <2>1. Append(bus, i) \in Seq(Items) /\ Len(Append(bus, i)) = Len(bus) + 1 /\ Len(bus) \in Nat
    BY AppendProperties DEF RestTyped
  <2>2. bus' = Append(bus, i) /\ told' = told \cup {i} /\ Len(bus) < MaxBus /\ MaxBus \in Nat
    BY <1>1 DEF Announce, BusAccepts, DeliveryConstantsOK
  <2>3. Len(bus') <= MaxBus
    BY <2>1, <2>2
  <2>4. told' \subseteq Items
    BY <2>2 DEF RestTyped
  <2> QED BY <2>1, <2>2, <2>3, <2>4
<1>2. CASE ~BusAccepts
  BY <1>2 DEF Announce, RestTyped
<1> QED BY <1>1, <1>2

LEMMA TakeIs ==
  ASSUME DeliveryConstantsOK, RestTyped, NEW i \in Items, Take(i)
  PROVE  bus' \in Seq(Items) /\ Len(bus') <= MaxBus
<1>1. bus # <<>> /\ bus \in Seq(Items) /\ bus' = Tail(bus)
  BY DEF Take, RestTyped
<1>2. Tail(bus) \in Seq(Items) /\ Len(Tail(bus)) = Len(bus) - 1 /\ Len(bus) \in Nat
  BY <1>1, HeadTailProperties
<1> QED BY <1>1, <1>2 DEF RestTyped, DeliveryConstantsOK

LEMMA EnqueuedIs ==
  ASSUME QueueConstantsOK, NEW q \in Queues, NEW i \in Items
  PROVE  Only(q, Enqueued(q, i), i) /\ Enqueued(q, i)[i].status = "pending"
<1> DEFINE e == [NoEntry EXCEPT !.status = "pending", !.asked = 1]
<1>1. e \in Entries /\ e.status = "pending"
  <2>1. 1 \in 0..MaxMessages
    BY DEF QueueConstantsOK
  <2> QED BY <2>1, EmptyEntry DEF Entries
<1>2. Enqueued(q, i) = [q EXCEPT ![i] = e]
  BY DEF Enqueued
<1> QED BY <1>1, <1>2 DEF Only, Queues

LEMMA MergedIs ==
  ASSUME QueueConstantsOK, NEW q \in Queues, NEW i \in Items, q[i].asked < MaxMessages
  PROVE  /\ Only(q, Merged(q, i), i) /\ Merged(q, i)[i].status = q[i].status
         /\ Merged(q, i)[i].delivery = q[i].delivery
<1> DEFINE e == [q[i] EXCEPT !.asked = @ + 1]
<1>1. q[i].asked + 1 \in 0..MaxMessages /\ q[i] \in Entries
  BY EntryFields DEF Queues, QueueConstantsOK
<1>2. e \in Entries /\ e.status = q[i].status /\ e.delivery = q[i].delivery
  BY <1>1 DEF Entries
<1>3. Merged(q, i) = [q EXCEPT ![i] = e]
  BY DEF Merged, Queues, Entries
<1> QED BY <1>2, <1>3 DEF Only, Queues

LEMMA EnqueueStep ==
  ASSUME QueueConstantsOK, DeliveryConstantsOK, IInv, NEW i \in Items, NEW b \in BOOLEAN, Enqueue(i, b)
  PROVE  IInv'
<1>1. QueueTyped /\ LedgerTyped /\ RestTyped
  BY TypeParts DEF IInv
<1>2. queue \in Queues
  BY <1>1 DEF QueueTyped
<1>3. /\ Only(queue, queue', i) /\ queue'[i].status = "pending"
      /\ queue[i].status = "pending" \/ i \notin known
      /\ disk' = Snapshot(queue')
  <2>1. CASE i \notin known /\ Save(Enqueued(queue, i))
    BY <2>1, <1>2, EnqueuedIs DEF Save
  <2>2. CASE i \in Waiting /\ queue[i].asked < MaxMessages /\ Save(Merged(queue, i))
    BY <2>2, <1>2, MergedIs DEF Save, Waiting, Mergeable
  <2> QED BY <2>1, <2>2 DEF Enqueue
<1>4. LedgerTyped' /\ Quiet /\ Firm
  BY <1>1 DEF Enqueue, ledger, LedgerTyped, Quiet, Firm
<1>5. RestTyped'
  BY <1>1, AnnounceIs DEF Enqueue, RestTyped
<1>6. Filed(queue'[i]) /\ i \in known' /\ known \subseteq known' /\ turn' = turn
  BY <1>3 DEF Filed, Enqueue
<1>7. \A j \in Items : queue'[j] = queue[j] \/ j = i
  BY <1>3 DEF Only
<1>8. queue' \in Queues
  BY <1>3 DEF Only
<1> QED BY <1>3, <1>4, <1>5, <1>6, <1>7, <1>8, Bystander

LEMMA MergeIncomingStep ==
  ASSUME QueueConstantsOK, DeliveryConstantsOK, IInv, NEW i \in Items, NEW b \in BOOLEAN, MergeIncoming(i, b)
  PROVE  IInv'
<1>1. QueueTyped /\ LedgerTyped /\ RestTyped
  BY TypeParts DEF IInv
<1>2. queue \in Queues
  BY <1>1 DEF QueueTyped
<1>3. Only(queue, queue', i) /\ queue'[i].status = "pending" /\ queue[i].status = "pending" /\ disk' = disk
  BY <1>2, MergedIs DEF MergeIncoming, Waiting, Mergeable
<1>4. LedgerTyped' /\ Quiet /\ Firm
  BY <1>1 DEF MergeIncoming, ledger, LedgerTyped, Quiet, Firm
<1>5. RestTyped'
  BY <1>1, AnnounceIs DEF MergeIncoming, RestTyped, count
<1>6. Filed(queue'[i]) /\ i \in known' /\ known' = known /\ turn' = turn
  BY <1>3 DEF Filed, MergeIncoming, count, IInv, FileOK, EntryOK
<1>7. \A j \in Items : queue'[j] = queue[j] \/ j = i
  BY <1>3 DEF Only
<1>8. queue' \in Queues
  BY <1>3 DEF Only
<1> QED BY <1>3, <1>4, <1>5, <1>6, <1>7, <1>8, Bystander

LEMMA SaveGroupStep ==
  ASSUME QueueConstantsOK, DeliveryConstantsOK, IInv, SaveGroup
  PROVE  IInv'
<1>1. QueueTyped /\ LedgerTyped /\ RestTyped
  BY TypeParts DEF IInv
<1>2. queue' \in Queues /\ queue' = queue /\ disk' = Snapshot(queue') /\ turn' = turn /\ known' = known
  BY <1>1 DEF QueueTyped, SaveGroup, Save, count
<1>3. LedgerTyped' /\ Quiet /\ Firm
  BY <1>1 DEF SaveGroup, ledger, LedgerTyped, Quiet, Firm
<1>4. RestTyped'
  BY <1>1 DEF SaveGroup, RestTyped, count
<1> QED BY <1>2, <1>3, <1>4, Bystander

LEMMA TickStep ==
  ASSUME QueueConstantsOK, DeliveryConstantsOK, IInv, NEW i \in Items, Tick(i)
  PROVE  IInv'
<1>1. QueueTyped /\ LedgerTyped /\ RestTyped
  BY TypeParts DEF IInv
<1>2. LedgerTyped' /\ Quiet /\ Firm
  BY <1>1 DEF Tick, ledger, LedgerTyped, Quiet, Firm
<1>3. bus' \in Seq(Items) /\ Len(bus') <= MaxBus
  BY <1>1 DEF Tick, RestTyped, BusAccepts, DeliveryConstantsOK
<1>4. RestTyped'
  BY <1>1, <1>3 DEF Tick, RestTyped, count
<1> QED BY <1>2, <1>4, QuietStep DEF Tick, count

LEMMA SpentEventStep ==
  ASSUME QueueConstantsOK, DeliveryConstantsOK, IInv, NEW i \in Items, TurnedAway(i) \/ Deferred(i)
  PROVE  IInv'
<1>1. QueueTyped /\ LedgerTyped /\ RestTyped
  BY TypeParts DEF IInv
<1>2. LedgerTyped' /\ Quiet /\ Firm
  BY <1>1 DEF TurnedAway, Deferred, ledger, LedgerTyped, Quiet, Firm
<1>3. RestTyped'
  BY <1>1, TakeIs DEF TurnedAway, Deferred, RestTyped, count
<1> QED BY <1>2, <1>3, QuietStep DEF TurnedAway, Deferred, count

LEMMA SettledStep ==
  ASSUME QueueConstantsOK, DeliveryConstantsOK, IInv, NEW i \in Items, Settled(i)
  PROVE  IInv'
<1>1. QueueTyped /\ LedgerTyped /\ RestTyped
  BY TypeParts DEF IInv
<1>2. queue \in Queues
  BY <1>1 DEF QueueTyped
<1> DEFINE q == TakePrepared(queue, i)
<1>3. Only(queue, q, i) /\ q[i].status = "triggered" /\ q \in Queues
  BY <1>2, StatusIs DEF TakePrepared, WithStatus, Only, InFlight
<1> HIDE DEF q
<1>4. \/ queue' = queue
      \/ /\ Only(queue, queue', i) /\ queue[i].status = "pending"
         /\ queue'[i].status \in {"sent", "uncertain"} /\ Filed(queue'[i])
  <2>1. CASE queue' = Commit(q, i) /\ i \in Pending
    BY <2>1, <1>3, CommitIs DEF Only, Filed, Pending
  <2>2. CASE queue' = FailUncertain(q, i) /\ i \in Pending
    BY <2>2, <1>3, FailUncertainIs DEF Only, Filed, Pending
  <2>3. CASE queue' = queue
    BY <2>3
  <2> QED BY <2>1, <2>2, <2>3 DEF Settled, Save, q
<1>5. disk' = Snapshot(queue') /\ turn' = turn /\ known' = known
  BY DEF Settled, Save, count
<1>6. LedgerTyped' /\ Quiet /\ Firm
  BY <1>1 DEF Settled, ledger, LedgerTyped, Quiet, Firm
<1>7. RestTyped'
  BY <1>1, TakeIs DEF Settled, RestTyped, count
<1>8. queue' \in Queues /\ \A j \in Items : queue'[j] = queue[j] \/ j = i
  BY <1>2, <1>4 DEF Only
<1>9. queue[i].status = "pending" => i \in known
  BY DEF IInv, FileOK, EntryOK
<1> QED BY <1>4, <1>5, <1>6, <1>7, <1>8, <1>9, Bystander

LEMMA BeginWorkModeStep ==
  ASSUME QueueConstantsOK, DeliveryConstantsOK, IInv, BeginWorkMode
  PROVE  IInv'
<1>1. QueueTyped /\ LedgerTyped /\ RestTyped
  BY TypeParts DEF IInv
<1>2. ASSUME NEW i \in Items
      PROVE  /\ queue'[i] \in Entries
             /\ \/ queue'[i] = queue[i]
                \/ queue[i].status = "pending" /\ queue'[i].status = "cleared"
  <2>1. queue[i] \in Entries
    BY <1>1 DEF QueueTyped, Queues
  <2>2. [queue[i] EXCEPT !.status = "cleared"] \in Entries /\ [queue[i] EXCEPT !.status = "cleared"].status = "cleared"
    BY <2>1 DEF Entries, Gone
  <2> QED BY <2>1, <2>2 DEF BeginWorkMode, ClearGroup
<1>3. queue' \in Queues
  BY <1>2 DEF BeginWorkMode, ClearGroup, Queues
<1>4. disk' = disk /\ turn' = turn /\ known' = known
  BY DEF BeginWorkMode, count
<1>5. LedgerTyped' /\ Quiet /\ Firm
  BY <1>1 DEF BeginWorkMode, ledger, LedgerTyped, Quiet, Firm
<1>6. RestTyped'
  BY <1>1 DEF BeginWorkMode, RestTyped, count
<1>7. \A i \in Items : queue[i].status = "pending" => i \in known
  BY DEF IInv, FileOK, EntryOK
<1>8. \A i \in Items : queue'[i].status = "cleared" => Filed(queue'[i])
  BY DEF Filed
<1> QED BY <1>2, <1>3, <1>4, <1>5, <1>6, <1>7, <1>8, Bystander

LEMMA WorldStep ==
  ASSUME QueueConstantsOK, DeliveryConstantsOK, IInv,
         OtherTurnBegins \/ OtherTurnEnds \/ RivalSpeaks \/ RivalEnds \/ LeaseLapses
  PROVE  IInv'
<1>1. QueueTyped /\ LedgerTyped /\ RestTyped
  BY TypeParts DEF IInv
<1>2. CASE OtherTurnBegins \/ OtherTurnEnds
  <2>1. LedgerTyped' /\ Quiet /\ Firm
    BY <1>1, <1>2 DEF OtherTurnBegins, OtherTurnEnds, ledger, LedgerTyped, Quiet, Firm
  <2>2. RestTyped'
    BY <1>1, <1>2 DEF OtherTurnBegins, OtherTurnEnds, RestTyped, count
  <2> QED BY <2>1, <2>2, <1>2, QuietStep DEF OtherTurnBegins, OtherTurnEnds, count
<1>3. CASE RivalSpeaks \/ RivalEnds \/ LeaseLapses
  <2>1. RestTyped' /\ UNCHANGED <<turn, queue, disk, known>>
    BY <1>1, <1>3 DEF RivalSpeaks, RivalEnds, LeaseLapses, RestTyped, memory, count
  <2>2. \A i \in Items : fate[i] # "open" => i \in known
    BY DEF IInv, FileOK, EntryOK
  <2>3. CASE RivalSpeaks
    <3>1. LedgerTyped' /\ \A i \in Items : fate'[i] = fate[i]
      BY <1>1, <2>3, GiveIs DEF RivalSpeaks
    <3> QED BY <3>1, <2>1, QuietStep DEF Quiet, Firm
  <2>4. CASE RivalEnds
    <3>1. LedgerTyped' /\ \A i \in Items : fate'[i] = fate[i]
      BY <1>1, <2>4, CloseIs DEF RivalEnds, DeliveryConstantsOK
    <3> QED BY <3>1, <2>1, QuietStep DEF Quiet, Firm
  <2>5. CASE LeaseLapses
    <3>1. /\ LedgerTyped'
          /\ \A i \in Items : fate'[i] = fate[i] \/ (fate[i] = "flying" /\ fate'[i] = "uncertain")
      BY <1>1, <2>5, ExpireIs DEF LeaseLapses
    <3> QED BY <3>1, <2>1, <2>2, QuietStep DEF Quiet, Firm, Barring
  <2> QED BY <1>3, <2>3, <2>4, <2>5
<1> QED BY <1>2, <1>3

-----------------------------------------------------------------------------
(* The handler's steps, by what they have in common. *)

(* What the handler saves of the item it serves is what it holds. *)
LEMMA OnFile ==
  ASSUME disk'[Mine] = (IF queue'[Mine].status \in Gone THEN NoEntry ELSE queue'[Mine]),
         queue'[Mine].status = "triggered"
  PROVE  disk'[Mine] = queue'[Mine]
BY DEF Gone

LEMMA Assembled ==
  ASSUME QueueTyped', LedgerTyped', RestTyped', (turn \in Turns)',
         FileOK', Placed', Shape', Closed', ConfirmedIsGone'
  PROVE  IInv'
BY DEF IInv, TypeOK, QueueTyped, LedgerTyped, RestTyped, Queues

LEMMA InHand ==
  ASSUME IInv, ~At("idle")
  PROVE  /\ QueueTyped /\ LedgerTyped /\ RestTyped /\ turn \in Turns /\ queue \in Queues
         /\ Mine \in Items
         /\ turn.at \in Serving <=> queue[Mine].status = "triggered"
         /\ turn.at \in Serving => Mine \in known
<1>1. QueueTyped /\ LedgerTyped /\ RestTyped /\ turn \in Turns /\ queue \in Queues
  BY TypeParts DEF IInv, QueueTyped
<1>2. Mine \in Items
  BY <1>1, TurnFields DEF IInv, Placed
<1>3. turn.at \in Serving <=> queue[Mine].status = "triggered"
  BY <1>2 DEF IInv, Placed
<1> QED BY <1>1, <1>2, <1>3 DEF IInv, FileOK, EntryOK

LEMMA MoveIs ==
  ASSUME turn \in Turns, NEW p \in Places, Move(p)
  PROVE  /\ (turn \in Turns)' /\ turn'.at = p /\ turn'.item = Mine
         /\ turn'.io = turn.io /\ turn'.pending = turn.pending /\ turn'.spoke = turn.spoke
BY DEF Move, Turns, Mine

LEMMA ReportIs ==
  ASSUME turn \in Turns, NEW p \in Places,
         NEW o \in {"none", "ok", "refused", "sent", "open", "uncertain"}, Report(p, o)
  PROVE  /\ (turn \in Turns)' /\ turn'.at = p /\ turn'.item = Mine /\ turn'.out = o
         /\ turn'.io = turn.io /\ turn'.pending = turn.pending /\ turn'.spoke = turn.spoke
BY DEF Report, Turns, Mine

(* The turn ends, and the entry is filed under what came out of it. *)
LEMMA Closes ==
  ASSUME QueueConstantsOK, DeliveryConstantsOK, IInv, ~At("idle"),
         NEW o \in {"open", "sent", "uncertain"}, Report("close", o),
         Only(queue, queue', Mine), disk' = Snapshot(queue'), Filed(queue'[Mine]),
         queue[Mine].status \in {"pending", "triggered"}, queue'[Mine].status # "triggered",
         o = "sent" => queue'[Mine].status = "sent",
         o = "uncertain" => queue'[Mine].status = "uncertain",
         Quiet, known' = known, LedgerTyped', RestTyped'
  PROVE  IInv'
<1>1. (turn \in Turns)' /\ turn'.at = "close" /\ turn'.item = Mine /\ turn'.out = o
  BY InHand, ReportIs DEF Places
<1>2. turn'.at \notin Serving /\ turn'.at # "idle"
  BY <1>1 DEF Serving
<1>3. /\ QueueTyped' /\ FileOK' /\ ConfirmedIsGone' /\ Placed'
      /\ disk'[Mine] = IF queue'[Mine].status \in Gone THEN NoEntry ELSE queue'[Mine]
  BY <1>1, <1>2, InHand, OwnEntry
<1>4. Shape'
  BY <1>1 DEF Shape, At, Sending, Serving
<1>5. Closed'
  BY <1>1, <1>3 DEF Closed, Mine, Gone
<1> QED BY <1>1, <1>3, <1>4, <1>5, Assembled

(* The handler goes on without touching the queue. *)
LEMMA Walks ==
  ASSUME QueueConstantsOK, DeliveryConstantsOK, IInv, ~At("idle"),
         UNCHANGED <<queue, disk, known>>, Quiet, turn'.item = Mine, turn'.at # "idle",
         turn'.at \in Serving <=> turn.at \in Serving
  PROVE  QueueTyped' /\ FileOK' /\ ConfirmedIsGone' /\ Placed'
<1>1. QueueTyped' /\ FileOK' /\ ConfirmedIsGone'
  BY Kept, InHand DEF IInv
<1>2. Placed'
  BY InHand DEF IInv, Placed, At, Mine, DeliveryConstantsOK
<1> QED BY <1>1, <1>2

-----------------------------------------------------------------------------
(* Taking the item. *)

LEMMA ClaimStep ==
  ASSUME QueueConstantsOK, DeliveryConstantsOK, IInv, NEW i \in Items, Claim(i)
  PROVE  IInv'
<1>1. QueueTyped /\ LedgerTyped /\ RestTyped
  BY TypeParts DEF IInv
<1>2. LedgerTyped' /\ Quiet /\ Firm
  BY <1>1, GiveIs DEF Claim, Quiet, Firm
<1>3. RestTyped'
  BY <1>1, TakeIs DEF Claim, RestTyped, count
<1>4. /\ (turn \in Turns)' /\ turn'.at = "claimed" /\ turn'.item = i
      /\ turn'.io = "part" /\ ~turn'.pending
  <2>1. turn' = [at |-> "claimed", item |-> i, io |-> "part", pending |-> FALSE, spoke |-> FALSE,
                 used |-> FALSE, acts |-> 0, out |-> "none"]
    BY DEF Claim, Resting
  <2>2. 0 \in 0..MaxEarly
    BY DEF DeliveryConstantsOK
  <2> QED BY <2>1, <2>2 DEF Turns, Places
<1>5. UNCHANGED <<queue, disk, known>> /\ At("idle")
  BY DEF Claim, At, count
<1>6. QueueTyped' /\ FileOK' /\ ConfirmedIsGone'
  BY <1>1, <1>2, <1>5, Kept DEF IInv
<1>7. \A j \in Items : queue[j].status # "triggered"
  BY <1>5 DEF IInv, Placed, At, Serving
<1>8. Placed'
  BY <1>4, <1>5, <1>7 DEF Placed, At, Mine, Serving, DeliveryConstantsOK
<1>9. Shape' /\ Closed'
  BY <1>4 DEF Shape, Closed, At, Sending, Serving
<1> QED BY <1>2, <1>3, <1>4, <1>6, <1>8, <1>9, Assembled

LEMMA TakeReplyStep ==
  ASSUME QueueConstantsOK, DeliveryConstantsOK, IInv, TakeReply
  PROVE  IInv'
<1>1. /\ ~At("idle") /\ queue[Mine].status = "pending" /\ HasPayload(queue, Mine)
      /\ queue' = TakePrepared(queue, Mine) /\ disk' = Snapshot(queue') /\ known' = known
      /\ Move("send")
  BY DEF TakeReply, At, Pending, Save, count
<1>2. LedgerTyped' /\ RestTyped' /\ Quiet /\ Firm
  BY <1>1, InHand DEF TakeReply, ledger, count, LedgerTyped, RestTyped, Quiet, Firm
<1>3. /\ (turn \in Turns)' /\ turn'.at = "send" /\ turn'.item = Mine
      /\ turn'.io = turn.io /\ turn'.pending = turn.pending
  BY <1>1, InHand, MoveIs DEF Places
<1>4. /\ Only(queue, queue', Mine) /\ queue'[Mine].status = "triggered"
      /\ queue'[Mine].delivery = queue[Mine].delivery
  <2>1. queue \in Queues /\ Mine \in Items
    BY <1>1, InHand
  <2>2. queue' = WithStatus(queue, Mine, "triggered")
    BY <1>1 DEF TakePrepared, WithStatus
  <2> QED
    BY <2>1, <2>2, StatusIs DEF InFlight
<1>5. Filed(queue'[Mine]) /\ turn'.at \in Serving /\ turn'.at # "idle"
  BY <1>3, <1>4 DEF Filed, Serving
<1>6. /\ QueueTyped' /\ FileOK' /\ ConfirmedIsGone' /\ Placed'
      /\ disk'[Mine] = IF queue'[Mine].status \in Gone THEN NoEntry ELSE queue'[Mine]
  BY <1>1, <1>2, <1>3, <1>4, <1>5, InHand, OwnEntry
<1>7. turn'.io = "part" /\ ~turn'.pending /\ disk'[Mine] = queue'[Mine]
  BY <1>3, <1>4, <1>6, OnFile DEF TakeReply, At, IInv, Shape
<1>8. Shape' /\ Closed'
  BY <1>1, <1>3, <1>4, <1>7 DEF Shape, Closed, At, Mine, Sending, Serving, HasPayload
<1> QED BY <1>2, <1>3, <1>6, <1>8, Assembled

LEMMA GenerateStep ==
  ASSUME QueueConstantsOK, DeliveryConstantsOK, IInv, Generate
  PROVE  IInv'
<1>1. /\ ~At("idle") /\ queue[Mine].status = "pending"
      /\ queue' = Started(queue, Mine) /\ disk' = Snapshot(queue') /\ known' = known
      /\ Move("gen")
  BY DEF Generate, At, Waiting, Mergeable, Save, count
<1>2. LedgerTyped' /\ RestTyped' /\ Quiet /\ Firm
  BY <1>1, InHand DEF Generate, ledger, count, LedgerTyped, RestTyped, Quiet, Firm
<1>3. /\ (turn \in Turns)' /\ turn'.at = "gen" /\ turn'.item = Mine
      /\ turn'.io = turn.io /\ turn'.pending = turn.pending
  BY <1>1, InHand, MoveIs DEF Places
<1>4. /\ Only(queue, queue', Mine) /\ queue'[Mine].status = "triggered"
      /\ queue'[Mine].delivery.state = "generating" /\ ~HasPayload(queue', Mine)
  BY <1>1, InHand, StartedIs
<1>5. Filed(queue'[Mine]) /\ turn'.at \in Serving /\ turn'.at # "idle"
  BY <1>3, <1>4 DEF Filed, Serving
<1>6. /\ QueueTyped' /\ FileOK' /\ ConfirmedIsGone' /\ Placed'
      /\ disk'[Mine] = IF queue'[Mine].status \in Gone THEN NoEntry ELSE queue'[Mine]
  BY <1>1, <1>2, <1>3, <1>4, <1>5, InHand, OwnEntry
<1>7. turn'.io = "part" /\ ~turn'.pending /\ disk'[Mine] = queue'[Mine]
  BY <1>3, <1>4, <1>6, OnFile DEF Generate, At, IInv, Shape
<1>8. Shape' /\ Closed'
  BY <1>3, <1>4, <1>7 DEF Shape, Closed, At, Mine, Sending, Serving, HasPayload
<1> QED BY <1>2, <1>3, <1>6, <1>8, Assembled

LEMMA StaleStep ==
  ASSUME QueueConstantsOK, DeliveryConstantsOK, IInv, Stale
  PROVE  IInv'
<1>1. /\ ~At("idle") /\ queue[Mine].status = "pending"
      /\ queue' = Expired(queue, Mine) /\ disk' = Snapshot(queue') /\ known' = known
      /\ Report("close", "open")
  BY DEF Stale, At, Waiting, Mergeable, Save, count
<1>2. LedgerTyped' /\ RestTyped' /\ Quiet /\ Firm
  BY <1>1, InHand DEF Stale, ledger, count, LedgerTyped, RestTyped, Quiet, Firm
<1>3. Only(queue, queue', Mine) /\ queue'[Mine].status = "cancelled"
  <2>1. queue' = WithStatus(queue, Mine, "cancelled")
    BY <1>1 DEF Expired, WithStatus
  <2> QED BY <1>1, <2>1, InHand, StatusIs DEF Gone
<1> QED BY <1>1, <1>2, <1>3, Closes DEF Filed

LEMMA NothingToDoStep ==
  ASSUME QueueConstantsOK, DeliveryConstantsOK, IInv, NothingToDo
  PROVE  IInv'
<1>1. /\ At("claimed") /\ ~At("idle") /\ queue' = queue /\ disk' = Snapshot(queue') /\ known' = known
      /\ Report("close", "open")
  BY DEF NothingToDo, At, Save, count
<1>2. LedgerTyped' /\ RestTyped' /\ fate' = fate
  BY <1>1, InHand DEF NothingToDo, ledger, count, LedgerTyped, RestTyped
<1>3. (turn \in Turns)' /\ turn'.at = "close" /\ turn'.item = Mine /\ turn'.out = "open"
  BY <1>1, InHand, ReportIs DEF Places
<1>4. /\ queue' \in Queues
      /\ \A i \in Items : Filed(queue'[i])
      /\ \A i \in Items : queue'[i].status # "none" \/ fate'[i] # "open" => i \in known'
      /\ \A i \in Items : fate'[i] = "sent" => queue'[i].status \in Gone
  BY <1>1, <1>2, InHand DEF IInv, FileOK, EntryOK, ConfirmedIsGone
<1>5. QueueTyped' /\ FileOK' /\ ConfirmedIsGone'
  BY <1>1, <1>4, Saved
<1>6. Placed'
  BY <1>1, <1>3, InHand DEF IInv, Placed, At, Mine, Serving, DeliveryConstantsOK
<1>7. Shape' /\ Closed'
  BY <1>3 DEF Shape, Closed, At, Sending, Serving
<1> QED BY <1>2, <1>3, <1>5, <1>6, <1>7, Assembled

-----------------------------------------------------------------------------
(* Generating. *)

LEMMA FenceEffectStep ==
  ASSUME QueueConstantsOK, DeliveryConstantsOK, IInv, NEW p \in {"tool", "start"}, FenceEffect(p)
  PROVE  IInv'
<1>1. /\ At("gen") /\ ~At("idle") /\ turn.at \in Serving /\ turn.acts < MaxEarly
      /\ queue' = MarkUnsafe(queue, Mine) /\ disk' = Snapshot(queue') /\ known' = known
  BY DEF FenceEffect, At, Serving, Save, count
<1>2. LedgerTyped' /\ RestTyped' /\ Quiet /\ Firm
  BY <1>1, InHand DEF FenceEffect, ledger, count, LedgerTyped, RestTyped, Quiet, Firm
<1>3. /\ (turn \in Turns)' /\ turn'.at = p /\ turn'.item = Mine
      /\ turn'.io = (IF p = "start" THEN "partial" ELSE "part") /\ turn'.pending = turn.pending
  <2>1. turn.acts + 1 \in 0..MaxEarly /\ turn \in Turns /\ turn.io = "part"
    BY <1>1, InHand, TurnFields DEF DeliveryConstantsOK, IInv, Shape, At
  <2> QED BY <2>1 DEF FenceEffect, Turns, Places, Mine
<1>4. /\ Only(queue, queue', Mine) /\ queue'[Mine].status = "triggered"
      /\ queue'[Mine].delivery.state \in {"generating", "sending"} /\ ~HasPayload(queue', Mine)
      /\ ~queue'[Mine].delivery.safe
  BY <1>1, InHand, MarkUnsafeIs DEF HasPayload, IInv, Shape
<1>5. Filed(queue'[Mine]) /\ turn'.at \in Serving /\ turn'.at # "idle"
  BY <1>3, <1>4 DEF Filed, Serving
<1>6. /\ QueueTyped' /\ FileOK' /\ ConfirmedIsGone' /\ Placed'
      /\ disk'[Mine] = IF queue'[Mine].status \in Gone THEN NoEntry ELSE queue'[Mine]
  BY <1>1, <1>2, <1>3, <1>4, <1>5, InHand, OwnEntry
<1>7. (turn.pending => fate'[Mine] \in Barring) /\ disk'[Mine] = queue'[Mine]
  BY <1>1, <1>2, <1>4, <1>6, InHand, OnFile DEF IInv, Shape, Firm
<1>8. Shape' /\ Closed'
  BY <1>3, <1>4, <1>7 DEF Shape, Closed, At, Mine, Sending, Serving, HasPayload
<1> QED BY <1>2, <1>3, <1>6, <1>8, Assembled

LEMMA ToolRunsStep ==
  ASSUME QueueConstantsOK, DeliveryConstantsOK, IInv, NEW b \in BOOLEAN, ToolRuns(b)
  PROVE  IInv'
<1>1. /\ At("tool") /\ ~At("idle") /\ turn.at \in Serving
      /\ UNCHANGED <<queue, disk, known>> /\ Move("gen")
  BY DEF ToolRuns, At, Serving, count
<1>2. /\ (turn \in Turns)' /\ turn'.at = "gen" /\ turn'.item = Mine
      /\ turn'.io = turn.io /\ turn'.pending = turn.pending
  BY <1>1, InHand, MoveIs DEF Places
<1>3. LedgerTyped' /\ Quiet /\ Firm
  BY <1>1, InHand DEF ToolRuns, ledger, LedgerTyped, Quiet, Firm
<1>4. shown' \in [Items -> Seq(0..MaxParts)]
  <2>1. shown \in [Items -> Seq(0..MaxParts)] /\ 0 \in 0..MaxParts /\ Mine \in Items
    BY <1>1, InHand DEF RestTyped, QueueConstantsOK
  <2>2. Append(shown[Mine], 0) \in Seq(0..MaxParts)
    BY <2>1, AppendProperties
  <2> QED BY <2>1, <2>2 DEF ToolRuns
<1>5. RestTyped'
  BY <1>1, <1>4, InHand DEF ToolRuns, RestTyped, count
<1>6. turn'.at \in Serving /\ turn'.at # "idle"
  BY <1>2 DEF Serving
<1>7. QueueTyped' /\ FileOK' /\ ConfirmedIsGone' /\ Placed'
  BY <1>1, <1>2, <1>3, <1>6, Walks
<1>8. turn.pending => fate'[Mine] \in Barring
  BY <1>1, <1>3, InHand DEF IInv, Shape, Firm
<1>9. Shape' /\ Closed'
  BY <1>1, <1>2, <1>8 DEF IInv, Shape, Closed, At, Mine, Sending, Serving, HasPayload
<1> QED BY <1>2, <1>3, <1>5, <1>7, <1>9, Assembled

LEMMA ToolCallsStep ==
  ASSUME QueueConstantsOK, DeliveryConstantsOK, IInv, ToolCalls
  PROVE  IInv'
<1>1. /\ At("tool") /\ ~At("idle") /\ turn.at \in Serving
      /\ UNCHANGED <<queue, disk, known>>
  BY DEF ToolCalls, At, Serving, count
<1>2. /\ (turn \in Turns)' /\ turn'.at = "start" /\ turn'.item = Mine
      /\ turn'.io = "tool" /\ turn'.pending = turn.pending
  BY <1>1, InHand DEF ToolCalls, Turns, Places, Mine
<1>3. LedgerTyped' /\ RestTyped' /\ Quiet /\ Firm
  BY <1>1, InHand DEF ToolCalls, ledger, count, LedgerTyped, RestTyped, Quiet, Firm
<1>4. turn'.at \in Serving /\ turn'.at # "idle"
  BY <1>2 DEF Serving
<1>5. QueueTyped' /\ FileOK' /\ ConfirmedIsGone' /\ Placed'
  BY <1>1, <1>2, <1>3, <1>4, Walks
<1>6. turn.pending => fate'[Mine] \in Barring
  BY <1>1, <1>3, InHand DEF IInv, Shape, Firm
<1>7. Shape' /\ Closed'
  BY <1>1, <1>2, <1>6 DEF IInv, Shape, Closed, At, Mine, Sending, Serving, HasPayload
<1> QED BY <1>2, <1>3, <1>5, <1>7, Assembled

LEMMA ReplyStep ==
  ASSUME QueueConstantsOK, DeliveryConstantsOK, IInv,
         NEW n \in 0..MaxParts, NEW b \in BOOLEAN, NEW d \in BOOLEAN, Reply(n, b, d)
  PROVE  IInv'
<1> DEFINE a == [parts |-> n, cursor |-> 0, rich |-> b, done |-> d]
<1>1. /\ ~At("idle") /\ turn.at \in Serving
      /\ queue' = Staged(queue, Mine, a) /\ disk' = Snapshot(queue') /\ known' = known
      /\ Move("send")
  BY DEF Reply, At, Serving, Save, count
<1>2. a \in Replies
  BY DEF Replies, QueueConstantsOK
<1> HIDE DEF a
<1>3. LedgerTyped' /\ RestTyped' /\ Quiet /\ Firm
  BY <1>1, InHand DEF Reply, ledger, count, LedgerTyped, RestTyped, Quiet, Firm
<1>4. /\ (turn \in Turns)' /\ turn'.at = "send" /\ turn'.item = Mine
      /\ turn'.io = turn.io /\ turn'.pending = turn.pending
  BY <1>1, InHand, MoveIs DEF Places
<1>5. Only(queue, queue', Mine) /\ queue'[Mine].status = "triggered" /\ HasPayload(queue', Mine)
  BY <1>1, <1>2, InHand, StagedIs
<1>6. Filed(queue'[Mine]) /\ turn'.at \in Serving /\ turn'.at # "idle"
  BY <1>4, <1>5 DEF Filed, Serving
<1>7. /\ QueueTyped' /\ FileOK' /\ ConfirmedIsGone' /\ Placed'
      /\ disk'[Mine] = IF queue'[Mine].status \in Gone THEN NoEntry ELSE queue'[Mine]
  BY <1>1, <1>3, <1>4, <1>5, <1>6, InHand, OwnEntry
<1>8. /\ turn'.io = "part" /\ disk'[Mine] = queue'[Mine]
      /\ turn.pending => fate'[Mine] \in Barring
  BY <1>1, <1>3, <1>4, <1>5, <1>7, InHand, OnFile DEF Reply, At, IInv, Shape, Firm
<1>9. Shape' /\ Closed'
  BY <1>4, <1>5, <1>8 DEF Shape, Closed, At, Mine, Sending, Serving, HasPayload
<1> QED BY <1>3, <1>4, <1>7, <1>9, Assembled

LEMMA GenerationFailsStep ==
  ASSUME QueueConstantsOK, DeliveryConstantsOK, IInv, GenerationFails
  PROVE  IInv'
<1>1. /\ ~At("idle") /\ turn.at \in Serving
      /\ queue' = AfterGenerationError(queue) /\ disk' = Snapshot(queue') /\ known' = known
      /\ Report("close", Unsaid)
  BY DEF GenerationFails, At, Serving, Save, count
<1>2. LedgerTyped' /\ RestTyped' /\ Quiet /\ Firm
  BY <1>1, InHand DEF GenerationFails, ledger, count, LedgerTyped, RestTyped, Quiet, Firm
<1>3. /\ Only(queue, queue', Mine) /\ Filed(queue'[Mine])
      /\ queue'[Mine].status \in {"pending", "failed", "uncertain"}
  BY <1>1, InHand, AfterGenerationErrorIs
<1>4. turn.pending => queue'[Mine].status = "uncertain"
  <2>1. turn.pending => ~RetrySafe(queue, Mine)
    BY DEF GenerationFails, IInv, Shape, RetrySafe
  <2> QED BY <1>1, <2>1, InHand, FailUncertainIs DEF AfterGenerationError
<1>5. Unsaid \in {"open", "uncertain"} /\ (Unsaid = "uncertain" => turn.pending)
  BY DEF Unsaid
<1> QED BY <1>1, <1>2, <1>3, <1>4, <1>5, InHand, Closes

-----------------------------------------------------------------------------
(* Delivering. *)

LEMMA NextPartStep ==
  ASSUME QueueConstantsOK, DeliveryConstantsOK, IInv, NextPart
  PROVE  IInv'
<1>1. /\ At("send") /\ ~At("idle") /\ turn.at \in Serving /\ PartsLeft
      /\ UNCHANGED <<queue, disk, known>>
  BY DEF NextPart, At, Serving, count
<1>2. /\ (turn \in Turns)' /\ turn'.at = "start" /\ turn'.item = Mine
      /\ turn'.io = "part" /\ turn'.pending = turn.pending
  BY <1>1, InHand, MoveIs DEF NextPart, Places, IInv, Shape, At
<1>3. LedgerTyped' /\ RestTyped' /\ Quiet /\ Firm
  BY <1>1, InHand DEF NextPart, ledger, count, LedgerTyped, RestTyped, Quiet, Firm
<1>4. turn'.at \in Serving /\ turn'.at # "idle"
  BY <1>2 DEF Serving
<1>5. QueueTyped' /\ FileOK' /\ ConfirmedIsGone' /\ Placed'
  BY <1>1, <1>2, <1>3, <1>4, Walks
<1>6. turn.pending => fate'[Mine] \in Barring
  BY <1>1, <1>3, InHand DEF IInv, Shape, Firm
<1>7. Shape' /\ Closed'
  BY <1>1, <1>2, <1>6
     DEF IInv, Shape, Closed, At, Mine, Sending, Serving, HasPayload, PartsLeft, Answer
<1> QED BY <1>2, <1>3, <1>5, <1>7, Assembled

LEMMA AlreadyFencedStep ==
  ASSUME QueueConstantsOK, DeliveryConstantsOK, IInv, AlreadyFenced
  PROVE  IInv'
<1>1. /\ At("start") /\ turn.pending /\ ~At("idle") /\ turn.at \in Serving
      /\ UNCHANGED <<queue, disk, known>> /\ Move("air")
  BY DEF AlreadyFenced, At, Serving, count
<1>2. /\ (turn \in Turns)' /\ turn'.at = "air" /\ turn'.item = Mine
      /\ turn'.io = turn.io /\ turn'.pending = turn.pending
  BY <1>1, InHand, MoveIs DEF Places
<1>3. LedgerTyped' /\ RestTyped' /\ Quiet /\ Firm
  BY <1>1, InHand DEF AlreadyFenced, ledger, count, LedgerTyped, RestTyped, Quiet, Firm
<1>4. turn'.at \in Serving /\ turn'.at # "idle"
  BY <1>2 DEF Serving
<1>5. QueueTyped' /\ FileOK' /\ ConfirmedIsGone' /\ Placed'
  BY <1>1, <1>2, <1>3, <1>4, Walks
<1>6. fate'[Mine] \in Barring
  BY <1>1, <1>3, InHand DEF IInv, Shape, Firm
<1>7. Shape' /\ Closed'
  BY <1>1, <1>2, <1>6
     DEF IInv, Shape, Closed, At, Mine, Sending, Serving, HasPayload, PartsLeft, Answer
<1> QED BY <1>2, <1>3, <1>5, <1>7, Assembled

LEMMA FenceLedgerStep ==
  ASSUME QueueConstantsOK, DeliveryConstantsOK, IInv, FenceLedger
  PROVE  IInv'
<1>1. /\ At("start") /\ ~At("idle") /\ turn.at \in Serving
      /\ UNCHANGED <<queue, disk, known>> /\ Move("fenced")
  BY DEF FenceLedger, At, Serving, count
<1>2. /\ (turn \in Turns)' /\ turn'.at = "fenced" /\ turn'.item = Mine
      /\ turn'.io = turn.io /\ turn'.pending = turn.pending
  BY <1>1, InHand, MoveIs DEF Places
<1>3. LedgerTyped' /\ Quiet
  BY <1>1, InHand, FlyIs DEF FenceLedger, Quiet
<1>4. RestTyped'
  BY <1>1, InHand DEF FenceLedger, RestTyped, count
<1>5. turn'.at \in Serving /\ turn'.at # "idle"
  BY <1>2 DEF Serving
<1>6. QueueTyped' /\ FileOK' /\ ConfirmedIsGone' /\ Placed'
  BY <1>1, <1>2, <1>3, <1>5, Walks
<1>7. fate'[Mine] \in Barring
  BY <1>1, InHand, FlyIs DEF FenceLedger, Barring
<1>8. Shape' /\ Closed'
  BY <1>1, <1>2, <1>7
     DEF IInv, Shape, Closed, At, Mine, Sending, Serving, HasPayload, PartsLeft, Answer
<1> QED BY <1>2, <1>3, <1>4, <1>6, <1>8, Assembled

LEMMA FenceQueueStep ==
  ASSUME QueueConstantsOK, DeliveryConstantsOK, IInv, FenceQueue
  PROVE  IInv'
<1>1. /\ At("fenced") /\ ~At("idle") /\ turn.at \in Serving
      /\ queue' = BeginDelivery(queue, Mine) /\ disk' = Snapshot(queue') /\ known' = known
      /\ turn' = [turn EXCEPT !.at = "air", !.pending = TRUE]
  BY DEF FenceQueue, At, Serving, Save, count
<1>2. LedgerTyped' /\ RestTyped' /\ Quiet /\ Firm
  BY <1>1, InHand DEF FenceQueue, ledger, count, LedgerTyped, RestTyped, Quiet, Firm
<1>3. /\ (turn \in Turns)' /\ turn'.at = "air" /\ turn'.item = Mine
      /\ turn'.io = turn.io /\ turn'.pending
  BY <1>1, InHand DEF Turns, Places, Mine
<1>4. /\ Only(queue, queue', Mine) /\ queue'[Mine].status = "triggered"
      /\ queue'[Mine].delivery.state = "sending"
      /\ queue'[Mine].delivery.reply = queue[Mine].delivery.reply
      /\ queue'[Mine].delivery.safe = queue[Mine].delivery.safe
  BY <1>1, InHand, BeginDeliveryIs
<1>5. Filed(queue'[Mine]) /\ turn'.at \in Serving /\ turn'.at # "idle"
  BY <1>3, <1>4 DEF Filed, Serving
<1>6. /\ QueueTyped' /\ FileOK' /\ ConfirmedIsGone' /\ Placed'
      /\ disk'[Mine] = IF queue'[Mine].status \in Gone THEN NoEntry ELSE queue'[Mine]
  BY <1>1, <1>2, <1>3, <1>4, <1>5, InHand, OwnEntry
<1>7. fate'[Mine] \in Barring /\ disk'[Mine] = queue'[Mine]
  BY <1>1, <1>2, <1>4, <1>6, InHand, OnFile DEF IInv, Shape, Firm
<1>8. Shape' /\ Closed'
  BY <1>1, <1>3, <1>4, <1>7
     DEF IInv, Shape, Closed, At, Mine, Sending, Serving, HasPayload, PartsLeft, Answer
<1> QED BY <1>2, <1>3, <1>6, <1>8, Assembled

(* Whatever is known of a send, the entry stays in the handler's hands. *)
LEMMA AckedIs ==
  ASSUME QueueConstantsOK, DeliveryConstantsOK, IInv, NEW ok \in BOOLEAN, Acked(ok), turn.io # "tool",
         At("start") \/ At("air") \/ (At("send") /\ ~ok /\ Excused), known' = known, LedgerTyped', RestTyped', Quiet
  PROVE  IInv'
<1> DEFINE q == AcknowledgePart(queue, Mine)
<1>1. /\ ~At("idle") /\ turn.at \in Serving
      /\ At("send") \/ turn.at \in Sending \ {"acked"}
  BY DEF At, Serving, Sending
<1>2. /\ (turn \in Turns)' /\ turn'.at = "acked" /\ turn'.item = Mine
      /\ turn'.io = turn.io /\ ~turn'.pending
  BY <1>1, InHand DEF Acked, Turns, Places, Mine
<1>3. /\ Only(queue, q, Mine) /\ q \in Queues /\ q[Mine].status = "triggered"
      /\ q[Mine].delivery.state = (IF HasPayload(queue, Mine) THEN "ready" ELSE "generating")
      /\ q[Mine].delivery.reply = queue[Mine].delivery.reply
      /\ q[Mine].delivery.safe = queue[Mine].delivery.safe
  BY <1>1, InHand, AcknowledgePartIs DEF Only
<1> HIDE DEF q
<1>4. /\ turn.io # "part" => ~HasPayload(queue, Mine) /\ ~q[Mine].delivery.safe
      /\ turn.io = "part" => HasPayload(q, Mine)
      /\ turn.io = "part" /\ ok => q[Mine].delivery.reply.cursor < q[Mine].delivery.reply.parts
  BY <1>1, <1>3 DEF IInv, Shape, HasPayload, PartsLeft, Answer, At, Excused
<1>5. /\ Only(q, queue', Mine) /\ queue'[Mine].status = "triggered"
      /\ HasPayload(queue', Mine) <=> turn.io = "part"
      /\ turn.io # "part" => queue'[Mine].delivery.state = "generating" /\ ~queue'[Mine].delivery.safe
  <2>1. CASE ok /\ turn.io = "part"
    <3>1. queue' = Further(q)
      BY <2>1 DEF Acked, Save, Further, q
    <3> QED BY <2>1, <3>1, <1>1, <1>3, <1>4, InHand, FurtherIs
  <2>2. CASE ~ok /\ Excused
    <3>1. queue' = Plain(q) /\ turn.io = "part"
      BY <2>2 DEF Acked, Save, Excused, q
    <3> QED BY <2>2, <3>1, <1>1, <1>3, <1>4, InHand, PlainIs
  <2>3. CASE ~(ok /\ turn.io = "part") /\ ~(~ok /\ Excused)
    <3>1. queue' = q
      BY <2>3 DEF Acked, Save, q
    <3> QED BY <3>1, <1>3, <1>4 DEF HasPayload, Only
  <2> QED BY <2>1, <2>2, <2>3
<1>6. Only(queue, queue', Mine) /\ disk' = Snapshot(queue')
  BY <1>3, <1>5 DEF Only, Acked, Save
<1>7. Filed(queue'[Mine]) /\ turn'.at \in Serving /\ turn'.at # "idle"
  BY <1>2, <1>5 DEF Filed, Serving
<1>8. /\ QueueTyped' /\ FileOK' /\ ConfirmedIsGone' /\ Placed'
      /\ disk'[Mine] = IF queue'[Mine].status \in Gone THEN NoEntry ELSE queue'[Mine]
  BY <1>1, <1>2, <1>5, <1>6, <1>7, InHand, OwnEntry
<1>9. disk'[Mine] = queue'[Mine]
  BY <1>5, <1>8, OnFile
<1>10. Shape' /\ Closed'
  BY <1>2, <1>5, <1>9 DEF Shape, Closed, At, Mine, Sending, Serving, HasPayload
<1> QED BY <1>2, <1>8, <1>10, Assembled

(* A part that shows up has one of the numbers a part can have. *)
LEMMA ShowIs ==
  ASSUME QueueConstantsOK, IInv, At("air"), Show
  PROVE  shown' \in [Items -> Seq(0..MaxParts)]
<1>1. ~At("idle") /\ turn.at \in Serving
  BY DEF At, Serving
<1>2. shown \in [Items -> Seq(0..MaxParts)] /\ Mine \in Items
  BY <1>1, InHand DEF RestTyped
<1>3. PartNo \in 0..MaxParts
  <2>1. CASE turn.io # "part"
    BY <2>1 DEF PartNo, QueueConstantsOK
  <2>2. CASE turn.io = "part"
    <3>1. HasPayload(queue, Mine) /\ PartsLeft
      BY <2>2 DEF IInv, Shape, At, Sending
    <3>2. Answer \in Replies
      BY <3>1, <1>1, InHand, EntryFields, DeliveryFields DEF Queues, HasPayload, Answer
    <3>3. Answer.cursor \in 0..MaxParts /\ Answer.parts \in 0..MaxParts
      BY <3>2 DEF Replies
    <3>4. Answer.cursor + 1 \in 0..MaxParts
      BY <3>1, <3>3 DEF PartsLeft, QueueConstantsOK
    <3> QED BY <2>2, <3>4 DEF PartNo
  <2> QED BY <2>1, <2>2
<1>4. Append(shown[Mine], PartNo) \in Seq(0..MaxParts)
  BY <1>2, <1>3, AppendProperties
<1> QED BY <1>2, <1>4 DEF Show

(* The handler learns how a send of its own ended, or a tool's call ends   *)
(* and generation takes over again.                                        *)
Learns == Accepted \/ Rejected \/ RichFallback \/ (NotSent /\ turn.io # "tool")
Returns == (NotSent /\ turn.io = "tool") \/ \E b \in BOOLEAN : CallEnds(b)

LEMMA LearnsIs ==
  ASSUME IInv, Learns
  PROVE  /\ Acked(TRUE) \/ Acked(FALSE)
         /\ ~At("idle") /\ turn.at \in Serving /\ turn.io # "tool"
         /\ At("start") \/ At("air") \/ (At("send") /\ Acked(FALSE) /\ Excused)
         /\ turn.io = "part" => HasPayload(queue, Mine)
         /\ turn.io # "part" => ~HasPayload(queue, Mine) /\ ~queue[Mine].delivery.safe
<1>1. /\ Acked(TRUE) \/ Acked(FALSE)
      /\ At("start") \/ At("air") \/ (At("send") /\ Acked(FALSE) /\ Excused)
  BY DEF Learns, Accepted, Rejected, RichFallback, NotSent
<1>2. turn.io # "tool"
  BY DEF Learns, Accepted, Rejected, RichFallback, NotSent, Excused
<1>3. ~At("idle") /\ turn.at \in Serving
  BY <1>1 DEF At, Serving
<1>4. At("send") => turn.io = "part"
  BY DEF IInv, Shape, At
<1> QED BY <1>1, <1>2, <1>3, <1>4 DEF IInv, Shape, At, Sending

(* What the handler writes when it learns an outcome. *)
LEMMA LearnsFiles ==
  ASSUME IInv, Learns
  PROVE  LET q == AcknowledgePart(queue, Mine) IN
         \/ queue' = q
         \/ turn.io = "part" /\ queue' = Plain(q)
         \/ Accepted /\ turn.io = "part" /\ queue' = Further(q) /\ PartsLeft
<1>1. CASE Accepted
  <2>1. turn.io = "part" => PartsLeft
    BY <1>1 DEF Accepted, IInv, Shape, At, Sending
  <2> QED BY <1>1, <2>1 DEF Accepted, Acked, Save, Further, Excused
<1>2. CASE ~Accepted
  <2>1. Acked(FALSE)
    BY <1>2 DEF Learns, Rejected, RichFallback, NotSent
  <2> QED BY <2>1 DEF Acked, Save, Excused
<1> QED BY <1>1, <1>2

LEMMA OutcomeKnownStep ==
  ASSUME QueueConstantsOK, DeliveryConstantsOK, IInv, Learns
  PROVE  IInv'
<1>1. ~At("idle") /\ turn.io # "tool"
  BY LearnsIs
<1>2. LedgerTyped' /\ Quiet /\ known' = known
  BY <1>1, InHand DEF Learns, NotSent, Accepted, Rejected, RichFallback, ledger, LedgerTyped, Quiet, count
<1>3. shown' \in [Items -> Seq(0..MaxParts)]
  BY <1>1, InHand, ShowIs DEF Learns, NotSent, Accepted, Rejected, RichFallback, RestTyped
<1>4. RestTyped'
  BY <1>1, <1>3, InHand DEF Learns, NotSent, Accepted, Rejected, RichFallback, RestTyped, count
<1>5. CASE Accepted
  BY <1>1, <1>2, <1>4, <1>5, AckedIs DEF Accepted
<1>6. CASE Rejected \/ RichFallback \/ (NotSent /\ turn.io # "tool")
  <2>1. Acked(FALSE) /\ (At("start") \/ At("air") \/ (At("send") /\ Excused))
    BY <1>6 DEF Rejected, RichFallback, NotSent
  <2> QED BY <1>1, <1>2, <1>4, <2>1, AckedIs
<1> QED BY <1>5, <1>6 DEF Learns

LEMMA ResumeIs ==
  ASSUME turn \in Turns, Resume
  PROVE  /\ (turn \in Turns)' /\ turn'.at = "gen" /\ turn'.item = Mine
         /\ turn'.io = "part" /\ turn'.pending = turn.pending /\ turn'.spoke = turn.spoke
BY DEF Resume, Turns, Places, Mine

LEMMA ReturnsStep ==
  ASSUME QueueConstantsOK, DeliveryConstantsOK, IInv, Returns
  PROVE  IInv'
<1>1. /\ ~At("idle") /\ turn.at \in Serving /\ turn.at \in Sending /\ turn.io = "tool"
      /\ UNCHANGED <<queue, disk, known>> /\ Resume
  BY DEF Returns, NotSent, CallEnds, At, Serving, Sending, count
<1>2. /\ (turn \in Turns)' /\ turn'.at = "gen" /\ turn'.item = Mine
      /\ turn'.io = "part" /\ turn'.pending = turn.pending
  BY <1>1, InHand, ResumeIs
<1>3. LedgerTyped' /\ Quiet /\ Firm
  BY <1>1, InHand DEF Returns, NotSent, CallEnds, ledger, LedgerTyped, Quiet, Firm
<1>4. shown' \in [Items -> Seq(0..MaxParts)]
  BY <1>1, InHand, ShowIs DEF Returns, NotSent, CallEnds, RestTyped
<1>5. RestTyped'
  BY <1>1, <1>4, InHand DEF Returns, NotSent, CallEnds, RestTyped, count
<1>6. turn'.at \in Serving /\ turn'.at # "idle"
  BY <1>2 DEF Serving
<1>7. QueueTyped' /\ FileOK' /\ ConfirmedIsGone' /\ Placed'
  BY <1>1, <1>2, <1>3, <1>6, Walks
<1>8. turn.pending => fate'[Mine] \in Barring
  BY <1>1, <1>3, InHand DEF IInv, Shape, Firm
<1>9. Shape' /\ Closed'
  BY <1>1, <1>2, <1>8 DEF IInv, Shape, Closed, At, Mine, Sending, Serving, HasPayload
<1> QED BY <1>2, <1>3, <1>5, <1>7, <1>9, Assembled

LEMMA UnconfirmedStep ==
  ASSUME QueueConstantsOK, DeliveryConstantsOK, IInv, NEW b \in BOOLEAN, Unconfirmed(b)
  PROVE  IInv'
<1>1. /\ At("air") /\ ~At("idle") /\ turn.at \in Serving
      /\ queue' = FailUncertain(queue, Mine) /\ disk' = Snapshot(queue') /\ known' = known
      /\ Report("close", "uncertain")
  BY DEF Unconfirmed, At, Serving, Save, count
<1>2. LedgerTyped' /\ Quiet /\ Firm
  BY <1>1, InHand DEF Unconfirmed, ledger, LedgerTyped, Quiet, Firm
<1>3. shown' \in [Items -> Seq(0..MaxParts)]
  BY <1>1, InHand, ShowIs DEF Unconfirmed, RestTyped
<1>4. RestTyped'
  BY <1>1, <1>3, InHand DEF Unconfirmed, RestTyped, count
<1>5. /\ Only(queue, queue', Mine) /\ Filed(queue'[Mine]) /\ queue'[Mine].status = "uncertain"
  BY <1>1, InHand, FailUncertainIs DEF Filed
<1> QED BY <1>1, <1>2, <1>4, <1>5, InHand, Closes

LEMMA AckLedgerStep ==
  ASSUME QueueConstantsOK, DeliveryConstantsOK, IInv, AckLedger
  PROVE  IInv'
<1>1. /\ At("acked") /\ ~At("idle") /\ turn.at \in Serving /\ known' = known
  BY DEF AckLedger, At, Serving, count
<1>2. LedgerTyped' /\ \A i \in Items : fate'[i] = fate[i] \/ (i = Mine /\ fate'[i] = "open")
  <2>1. CASE Ledger!Land(Mine)
    BY <2>1, <1>1, InHand, LandIs
  <2>2. CASE UNCHANGED ledger
    BY <2>2, <1>1, InHand DEF ledger, LedgerTyped
  <2> QED BY <2>1, <2>2 DEF AckLedger
<1>3. Quiet
  BY <1>1, <1>2, InHand DEF Quiet
<1>4. RestTyped'
  BY <1>1, InHand DEF AckLedger, RestTyped, count
<1>5. CASE turn.out = "ok"
  <2>1. UNCHANGED <<queue, disk, known>>
    BY <1>1, <1>5 DEF AckLedger, Onward
  <2>2. /\ (turn \in Turns)' /\ turn'.at = (IF turn.io # "part" THEN "gen" ELSE "send") /\ turn'.item = Mine
        /\ turn'.io = "part" /\ turn'.pending = turn.pending
    <3>1. CASE turn.io = "part"
      <4>1. Move("send")
        BY <3>1, <1>5 DEF AckLedger, Onward
      <4> QED BY <3>1, <4>1, <1>1, InHand, MoveIs DEF Places
    <3>2. CASE turn.io # "part"
      <4>1. Resume
        BY <3>2, <1>5 DEF AckLedger, Onward
      <4> QED BY <3>2, <4>1, <1>1, InHand, ResumeIs
    <3> QED BY <3>1, <3>2
  <2>3. turn'.at \in Serving /\ turn'.at # "idle"
    BY <2>2 DEF Serving
  <2>4. QueueTyped' /\ FileOK' /\ ConfirmedIsGone' /\ Placed'
    BY <1>1, <1>3, <2>1, <2>2, <2>3, Walks
  <2>5. Shape' /\ Closed'
    BY <1>1, <2>1, <2>2 DEF IInv, Shape, Closed, At, Mine, Sending, Serving, HasPayload
  <2> QED BY <1>2, <1>4, <2>2, <2>4, <2>5, Assembled
<1>6. CASE turn.out # "ok"
  <2>1. disk' = Snapshot(queue') /\ Report("close", "open")
    BY <1>6 DEF AckLedger, Onward, Save
  <2>2. queue[Mine].status = "triggered" /\ queue \in Queues /\ Mine \in Items
    BY <1>1, InHand
  <2>3. /\ Only(queue, queue', Mine) /\ Filed(queue'[Mine])
        /\ queue'[Mine].status \in {"pending", "failed", "uncertain"}
    <3>1. CASE turn.io # "part"
      <4>1. queue' = AfterGenerationError(queue)
        BY <3>1, <1>6 DEF AckLedger, Onward, Save
      <4> QED BY <2>2, <4>1, AfterGenerationErrorIs
    <3>2. CASE turn.io = "part"
      <4>1. queue' = FailKnown(queue, Mine)
        BY <3>2, <1>6 DEF AckLedger, Onward, Save
      <4> QED BY <2>2, <4>1, FailKnownIs
    <3> QED BY <3>1, <3>2
  <2> QED BY <1>1, <1>2, <1>3, <1>4, <2>1, <2>2, <2>3, Closes
<1> QED BY <1>5, <1>6

LEMMA InterruptedStep ==
  ASSUME QueueConstantsOK, DeliveryConstantsOK, IInv, Interrupted
  PROVE  IInv'
<1>1. ~At("idle") /\ Report("close", Unsaid) /\ known' = known
  BY DEF Interrupted, At, count
<1>2. LedgerTyped' /\ RestTyped' /\ Quiet /\ Firm
  BY <1>1, InHand DEF Interrupted, ledger, count, LedgerTyped, RestTyped, Quiet, Firm
<1>3. CASE At("send") /\ turn.pending /\ Save(FailUncertain(queue, Mine))
  <2>1. turn.at \in Serving /\ queue' = FailUncertain(queue, Mine) /\ disk' = Snapshot(queue')
    BY <1>3 DEF At, Serving, Save
  <2>2. Only(queue, queue', Mine) /\ Filed(queue'[Mine]) /\ queue'[Mine].status = "uncertain"
    BY <1>1, <2>1, InHand, FailUncertainIs DEF Filed
  <2>3. Unsaid = "uncertain"
    BY <1>3 DEF Unsaid
  <2> QED BY <1>1, <1>2, <2>1, <2>2, <2>3, InHand, Closes
<1>4. CASE At("send") /\ ~turn.pending /\ Save(FailKnown(queue, Mine))
  <2>1. turn.at \in Serving /\ queue' = FailKnown(queue, Mine) /\ disk' = Snapshot(queue')
    BY <1>4 DEF At, Serving, Save
  <2>2. /\ Only(queue, queue', Mine) /\ Filed(queue'[Mine])
        /\ queue'[Mine].status \in {"pending", "failed"}
    BY <1>1, <2>1, InHand, FailKnownIs
  <2>3. Unsaid = "open"
    BY <1>4 DEF Unsaid
  <2> QED BY <1>1, <1>2, <2>1, <2>2, <2>3, InHand, Closes
<1>5. CASE At("claimed") /\ UNCHANGED <<queue, disk>>
  <2>1. Unsaid = "open"
    BY <1>5 DEF Unsaid, IInv, Shape
  <2>2. (turn \in Turns)' /\ turn'.at = "close" /\ turn'.item = Mine /\ turn'.out = "open"
    BY <1>1, <2>1, InHand, ReportIs DEF Places
  <2>3. turn'.at \notin Serving /\ turn.at \notin Serving /\ turn'.at # "idle"
    BY <1>5, <2>2 DEF Serving, At
  <2>4. QueueTyped' /\ FileOK' /\ ConfirmedIsGone' /\ Placed'
    BY <1>1, <1>2, <1>5, <2>2, <2>3, Walks
  <2>5. Shape' /\ Closed'
    BY <2>2 DEF Shape, Closed, At, Sending, Serving
  <2> QED BY <1>2, <2>2, <2>4, <2>5, Assembled
<1> QED BY <1>3, <1>4, <1>5 DEF Interrupted

LEMMA CompleteStep ==
  ASSUME QueueConstantsOK, DeliveryConstantsOK, IInv, Complete
  PROVE  IInv'
<1>1. /\ ~At("idle") /\ turn.at \in Serving
      /\ queue' = Commit(queue, Mine) /\ disk' = Snapshot(queue') /\ known' = known
      /\ Report("close", "sent")
  BY DEF Complete, At, Serving, Save, count
<1>2. LedgerTyped' /\ RestTyped' /\ Quiet /\ Firm
  BY <1>1, InHand DEF Complete, ledger, count, LedgerTyped, RestTyped, Quiet, Firm
<1>3. Only(queue, queue', Mine) /\ queue'[Mine].status = "sent" /\ Filed(queue'[Mine])
  BY <1>1, InHand, CommitIs DEF Filed
<1> QED BY <1>1, <1>2, <1>3, InHand, Closes

LEMMA NoOutputStep ==
  ASSUME QueueConstantsOK, DeliveryConstantsOK, IInv, NoOutput
  PROVE  IInv'
<1>1. /\ ~At("idle") /\ turn.at \in Serving
      /\ queue' = Requeue(queue, Mine, 0) /\ disk' = Snapshot(queue') /\ known' = known
      /\ Report("close", "open")
  BY DEF NoOutput, At, Serving, Save, count
<1>2. LedgerTyped' /\ RestTyped' /\ Quiet /\ Firm
  BY <1>1, InHand DEF NoOutput, ledger, count, LedgerTyped, RestTyped, Quiet, Firm
<1>3. 0 \in 0..MaxRetries
  BY DEF QueueConstantsOK
<1>4. /\ Only(queue, queue', Mine) /\ Filed(queue'[Mine]) /\ queue'[Mine].status \in {"pending", "failed"}
  BY <1>1, <1>3, InHand, RequeueIs DEF Filed
<1> QED BY <1>1, <1>2, <1>4, InHand, Closes

LEMMA FinishStep ==
  ASSUME QueueConstantsOK, DeliveryConstantsOK, IInv, Finish
  PROVE  IInv'
<1>1. /\ At("close") /\ ~At("idle") /\ UNCHANGED <<queue, disk, known>> /\ turn' = Resting
  BY DEF Finish, At, count
<1>2. Mine \in Items /\ queue[Mine].status # "triggered" /\ FileOK /\ QueueTyped
  BY <1>1, InHand DEF Serving, At, IInv
<1>3. turn.out \in {"open", "sent", "uncertain"}
  BY <1>1 DEF IInv, Closed
<1>4. LedgerTyped' /\ \A i \in Items : fate'[i] = fate[i] \/ (i = Mine /\ fate'[i] = turn.out)
  <2>1. CASE speaker[Chat] = Mine /\ Ledger!Close(Chat, turn.out)
    BY <2>1, <1>1, <1>3, InHand, CloseIs
  <2>2. CASE UNCHANGED ledger
    BY <2>2, <1>1, InHand DEF ledger, LedgerTyped
  <2> QED BY <2>1, <2>2 DEF Finish
<1>5. RestTyped'
  BY <1>1, InHand DEF Finish, RestTyped, count
<1>6. /\ turn.out = "sent" => queue[Mine].status = "sent" /\ disk[Mine] = NoEntry
      /\ turn.out = "uncertain" => queue[Mine].status = "uncertain"
  BY <1>1 DEF IInv, Closed
<1>7. turn.out # "open" => Mine \in known
  BY <1>2, <1>3, <1>6 DEF FileOK, EntryOK
<1>8. QueueTyped' /\ ConfirmedIsGone'
  BY <1>1, <1>2, <1>4, <1>6 DEF IInv, QueueTyped, ConfirmedIsGone, Gone
<1>9. FileOK'
  <2>1. ASSUME NEW i \in Items PROVE EntryOK(i)'
    BY <1>1, <1>2, <1>4, <1>7 DEF FileOK, EntryOK
  <2> QED BY <2>1 DEF FileOK
<1>10. /\ turn' = [at |-> "idle", item |-> NoItem, io |-> "part", pending |-> FALSE, spoke |-> FALSE,
                    used |-> FALSE, acts |-> 0, out |-> "none"]
  BY <1>1 DEF Resting
<1>11. (turn \in Turns)'
  <2>1. 0 \in 0..MaxEarly
    BY DEF DeliveryConstantsOK
  <2> QED BY <1>10, <2>1 DEF Turns, Places
<1>12. \A i \in Items : queue[i].status # "triggered"
  BY <1>1 DEF IInv, Placed, At, Serving
<1>13. Placed'
  BY <1>1, <1>10, <1>12 DEF Placed, At, Mine, Serving
<1>14. Shape' /\ Closed'
  BY <1>10 DEF Shape, Closed, At, Sending, Serving
<1> QED BY <1>4, <1>5, <1>8, <1>9, <1>11, <1>13, <1>14, Assembled

-----------------------------------------------------------------------------
(* The process dies and starts again. *)

LEMMA CrashStep ==
  ASSUME QueueConstantsOK, DeliveryConstantsOK, IInv, Crash
  PROVE  IInv'
<1>1. /\ queue' = Restore(disk) /\ UNCHANGED <<disk, ledger, known>> /\ turn' = Resting
      /\ told' = {} /\ bus' = <<>> /\ lock' = FALSE
  BY DEF Crash, Restarted
<1>2. QueueTyped /\ LedgerTyped /\ RestTyped /\ turn \in Turns /\ FileOK /\ ConfirmedIsGone
  BY TypeParts DEF IInv
<1>3. ASSUME NEW i \in Items
      PROVE  /\ queue'[i] = RestoredEntry(disk[i]) /\ queue'[i] \in Entries
             /\ Filed(queue'[i]) /\ queue'[i].status # "triggered"
             /\ disk[i] = NoEntry <=> queue'[i].status \in Gone
  <2>1. queue'[i] = RestoredEntry(disk[i])
    BY <1>1 DEF Restore
  <2>2. disk[i] \in Entries /\ Filed(disk[i]) /\ (disk[i].status \in Gone => disk[i] = NoEntry)
    BY <1>2 DEF QueueTyped, Queues, FileOK, EntryOK
  <2> QED BY <2>1, <2>2, RestoredEntryIs
<1>4. QueueTyped' /\ ConfirmedIsGone'
  BY <1>1, <1>2, <1>3 DEF QueueTyped, Queues, Restore, ConfirmedIsGone, ledger
<1>5. FileOK'
  <2>1. ASSUME NEW i \in Items PROVE EntryOK(i)'
    <3>1. queue'[i].status # "none" => disk[i] # NoEntry
      <4>1. disk[i] = NoEntry => queue'[i] = NoEntry
        <5>1. RestoredEntry(NoEntry) = NoEntry
          BY DEF RestoredEntry, NoEntry, NoDelivery
        <5> QED BY <1>3, <5>1
      <4> QED BY <4>1 DEF NoEntry
    <3> QED BY <1>1, <1>2, <1>3, <3>1 DEF FileOK, EntryOK, ledger
  <2> QED BY <2>1 DEF FileOK
<1>6. turn' = [at |-> "idle", item |-> NoItem, io |-> "part", pending |-> FALSE, spoke |-> FALSE,
               used |-> FALSE, acts |-> 0, out |-> "none"]
  BY <1>1 DEF Resting
<1>7. (turn \in Turns)'
  <2>1. 0 \in 0..MaxEarly
    BY DEF DeliveryConstantsOK
  <2> QED BY <1>6, <2>1 DEF Turns, Places
<1>8. Placed' /\ Shape' /\ Closed'
  BY <1>3, <1>6 DEF Placed, Shape, Closed, At, Mine, Sending, Serving
<1>9. LedgerTyped'
  BY <1>1, <1>2 DEF ledger, LedgerTyped
<1>10. shown' \in [Items -> Seq(0..MaxParts)]
  <2>1. CASE At("air") /\ Show
    BY <2>1, ShowIs
  <2>2. CASE At("tool") /\ shown' = [shown EXCEPT ![Mine] = Append(@, 0)]
    <3>1. shown \in [Items -> Seq(0..MaxParts)] /\ 0 \in 0..MaxParts /\ Mine \in Items
      BY <2>2, InHand DEF At, RestTyped, QueueConstantsOK
    <3>2. Append(shown[Mine], 0) \in Seq(0..MaxParts)
      BY <3>1, AppendProperties
    <3> QED BY <2>2, <3>1, <3>2
  <2>3. CASE UNCHANGED shown
    BY <2>3, <1>2 DEF RestTyped
  <2> QED BY <2>1, <2>2, <2>3 DEF Crash
<1>11. bus' \in Seq(Items) /\ Len(bus') <= MaxBus
  BY <1>1, EmptySeq DEF DeliveryConstantsOK
<1>12. RestTyped'
  BY <1>1, <1>2, <1>10, <1>11 DEF RestTyped
<1> QED BY <1>4, <1>5, <1>7, <1>8, <1>9, <1>12, Assembled

-----------------------------------------------------------------------------
(* The invariant. *)

LEMMA Initially ==
  ASSUME QueueConstantsOK, DeliveryConstantsOK, Init
  PROVE  IInv
<1>1. /\ \A i \in Items : queue[i] = NoEntry /\ disk[i] = NoEntry
      /\ told = {} /\ bus = <<>> /\ turn = Resting /\ lock = FALSE /\ known = {}
      /\ shown = [i \in Items |-> <<>>]
  BY DEF Init
<1>2. QueueTyped
  BY EmptyEntry DEF Init, QueueTyped, Queues
<1>3. LedgerTyped /\ \A i \in Items : fate[i] = "open"
  BY DEF Init, Ledger!Init, LedgerTyped
<1>4. RestTyped
  <2>1. bus \in Seq(Items) /\ Len(bus) <= MaxBus
    BY <1>1, EmptySeq DEF DeliveryConstantsOK
  <2>2. shown \in [Items -> Seq(0..MaxParts)]
    BY <1>1, EmptySeq
  <2> QED BY <1>1, <2>1, <2>2 DEF RestTyped
<1>5. turn = [at |-> "idle", item |-> NoItem, io |-> "part", pending |-> FALSE, spoke |-> FALSE,
              used |-> FALSE, acts |-> 0, out |-> "none"]
  BY <1>1 DEF Resting
<1>6. turn \in Turns
  <2>1. 0 \in 0..MaxEarly
    BY DEF DeliveryConstantsOK
  <2> QED BY <1>5, <2>1 DEF Turns, Places
<1>7. NoEntry.status = "none"
  BY DEF NoEntry
<1>8. FileOK /\ ConfirmedIsGone
  BY <1>1, <1>3, <1>7 DEF FileOK, EntryOK, Filed, ConfirmedIsGone, Gone
<1>9. Placed /\ Shape /\ Closed
  BY <1>1, <1>5, <1>7 DEF Placed, Shape, Closed, At, Mine, Serving, Sending
<1> QED BY <1>2, <1>3, <1>4, <1>6, <1>8, <1>9, TypeParts DEF IInv

LEMMA StepKeeps ==
  ASSUME QueueConstantsOK, DeliveryConstantsOK, IInv, [Next]_vars
  PROVE  IInv'
<1>1. CASE Arrival
  BY <1>1, EnqueueStep, MergeIncomingStep, SaveGroupStep DEF Arrival
<1>2. CASE \E i \in Items : Tick(i) \/ Event(i)
  BY <1>2, TickStep, SpentEventStep, SettledStep, ClaimStep DEF Event
<1>3. CASE Handler
  BY <1>3, TakeReplyStep, GenerateStep, StaleStep, NothingToDoStep, FenceEffectStep,
     ToolRunsStep, ToolCallsStep, UnconfirmedStep, BeginWorkModeStep, ReplyStep,
     GenerationFailsStep, NextPartStep, AlreadyFencedStep, FenceLedgerStep, OutcomeKnownStep,
     ReturnsStep, FenceQueueStep, AckLedgerStep, InterruptedStep, CompleteStep, NoOutputStep,
     FinishStep DEF Handler, Learns, Returns
<1>4. CASE OtherTurnBegins \/ OtherTurnEnds \/ RivalSpeaks \/ RivalEnds \/ LeaseLapses
  BY <1>4, WorldStep
<1>5. CASE Crash
  BY <1>5, CrashStep
<1>6. CASE UNCHANGED vars
  <2>1. UNCHANGED <<turn, queue, disk, known>>
    BY <1>6 DEF vars
  <2>2. LedgerTyped' /\ RestTyped' /\ Quiet /\ Firm
    BY <1>6, TypeParts DEF IInv, vars, LedgerTyped, RestTyped, Quiet, Firm
  <2> QED BY <2>1, <2>2, QuietStep
<1> QED BY <1>1, <1>2, <1>3, <1>4, <1>5, <1>6 DEF Next

(* The invariant behind the theorems below: the handler's place, the entry *)
(* it holds, the queue file and the ledger agree at every step.            *)
THEOREM Invariance == Spec => []IInv
<1>1. Init => IInv
  BY Initially, QueueConstantsOK, DeliveryConstantsOK
<1>2. IInv /\ [Next]_vars => IInv'
  BY StepKeeps, QueueConstantsOK, DeliveryConstantsOK
<1> QED BY <1>1, <1>2, PTL DEF Spec

(* The variables keep their types: no retry count, part number or message  *)
(* count of the queue leaves its range.                                    *)
THEOREM Typing == Spec => []TypeOK
<1>1. IInv => TypeOK
  BY DEF IInv
<1> QED BY <1>1, Invariance, PTL

(* While something happens in the world, the ledger and the file hold what *)
(* fences it.                                                              *)
LEMMA FencedOnFile ==
  ASSUME IInv
  PROVE  EffectsAreFenced
<1>1. At("air") \/ At("tool") => ~At("idle") /\ turn.at \in Serving
  BY DEF At, Serving
<1>2. At("air") => fate[Mine] \in {"flying", "uncertain"}
  BY <1>1 DEF IInv, Shape, Barring
<1>3. ASSUME At("air") \/ At("tool"), ~HasPayload(disk, Mine)
      PROVE  Restore(disk)[Mine].status = "uncertain"
  <2>1. /\ disk[Mine] = queue[Mine] /\ queue[Mine] \in Entries /\ Mine \in Items
        /\ queue[Mine].delivery \in Deliveries
    BY <1>1, <1>3, InHand, EntryFields DEF IInv, Shape, Queues
  <2>2. turn.io # "part" \/ At("tool")
    BY <1>3, <2>1 DEF IInv, Shape, HasPayload, At, Sending
  <2>3. queue[Mine].delivery.state # "none" /\ Unproven(queue[Mine].delivery)
    BY <1>3, <2>2 DEF IInv, Shape, Unproven, At, Sending
  <2>4. RestoredEntry(queue[Mine]).status = "uncertain"
    BY <2>1, <2>3 DEF RestoredEntry, Entries
  <2> QED BY <2>1, <2>4 DEF Restore
<1> QED BY <1>2, <1>3 DEF EffectsAreFenced

(* What may be happening in the world is fenced beforehand: a send in the  *)
(* ledger (start_delivery), and a send or a tool in the queue file, which  *)
(* holds the verdict or the finished reply a successor goes on from.       *)
THEOREM Fenced == Spec => []EffectsAreFenced
<1>1. IInv => EffectsAreFenced
  BY FencedOnFile
<1> QED BY <1>1, Invariance, PTL

(* An item that tick() took off the queue is in the handler's hands.       *)
THEOREM NoneStranded == Spec => []TakenIsServed
<1>1. IInv => TakenIsServed
  BY DEF IInv, Placed, TakenIsServed, At, Serving
<1> QED BY <1>1, Invariance, PTL

(* A reply the ledger knows as sent is neither queued nor on file.         *)
THEOREM SentLeaves == Spec => []ConfirmedIsGone
<1>1. IInv => ConfirmedIsGone
  BY DEF IInv
<1> QED BY <1>1, Invariance, PTL

-----------------------------------------------------------------------------
(* Nothing but a restart reads a verdict again, and it reads the same one. *)

Standing == \A i \in Items : queue[i].status \in {"failed", "uncertain"}
                               => queue'[i].status = queue[i].status

(* The handler rewrites only its own entry, which is waiting or taken.     *)
LEMMA OwnStanding ==
  ASSUME Only(queue, queue', Mine), queue[Mine].status \in {"pending", "triggered"}
  PROVE  Standing
<1>1. \A i \in Items : queue'[i] = queue[i] \/ i = Mine
  BY DEF Only
<1> QED BY <1>1 DEF Standing

LEMMA OthersStand ==
  ASSUME QueueConstantsOK, DeliveryConstantsOK, IInv,
         Arrival \/ (\E i \in Items : Tick(i) \/ Event(i)) \/ BeginWorkMode
  PROVE  Standing
<1>1. queue \in Queues
  BY TypeParts DEF IInv, QueueTyped
<1>2. ASSUME NEW i \in Items, NEW b \in BOOLEAN, Enqueue(i, b) PROVE Standing
  <2>1. CASE i \notin known /\ Save(Enqueued(queue, i))
    <3>1. queue[i].status = "none"
      BY <2>1 DEF IInv, FileOK, EntryOK
    <3>2. Only(queue, queue', i)
      BY <1>1, <2>1, EnqueuedIs DEF Save
    <3> QED BY <3>1, <3>2 DEF Only, Standing
  <2>2. CASE i \in Waiting /\ queue[i].asked < MaxMessages /\ Save(Merged(queue, i))
    <3>1. Only(queue, queue', i) /\ queue'[i].status = queue[i].status
      BY <1>1, <2>2, MergedIs DEF Save
    <3> QED BY <3>1 DEF Only, Standing
  <2> QED BY <1>2, <2>1, <2>2 DEF Enqueue
<1>3. ASSUME NEW i \in Items, NEW b \in BOOLEAN, MergeIncoming(i, b) PROVE Standing
  <2>1. Only(queue, queue', i) /\ queue'[i].status = queue[i].status
    BY <1>1, <1>3, MergedIs DEF MergeIncoming
  <2> QED BY <2>1 DEF Only, Standing
<1>4. CASE SaveGroup
  BY <1>4 DEF SaveGroup, Save, Standing
<1>5. ASSUME NEW i \in Items, Settled(i) PROVE Standing
  <2> DEFINE q == TakePrepared(queue, i)
  <2>1. q = WithStatus(queue, i, "triggered")
    BY DEF TakePrepared, WithStatus
  <2>2. Only(queue, q, i) /\ q[i].status = "triggered" /\ q \in Queues
    BY <1>1, <2>1, StatusIs DEF Only, InFlight
  <2> HIDE DEF q
  <2>3. \/ queue' = queue
        \/ i \in Pending /\ (queue' = Commit(q, i) \/ queue' = FailUncertain(q, i))
    BY <1>5 DEF Settled, Save, q
  <2>4. queue' = queue \/ (i \in Pending /\ Only(q, queue', i))
    BY <2>2, <2>3, CommitIs, FailUncertainIs
  <2> QED BY <2>2, <2>4 DEF Only, Standing, Pending
<1>6. ASSUME NEW i \in Items, Tick(i) \/ TurnedAway(i) \/ Deferred(i) \/ Claim(i) PROVE Standing
  BY <1>6 DEF Tick, TurnedAway, Deferred, Claim, Standing
<1>7. CASE BeginWorkMode
  BY <1>7 DEF BeginWorkMode, ClearGroup, Standing
<1> QED BY <1>2, <1>3, <1>4, <1>5, <1>6, <1>7 DEF Arrival, Event

(* Whatever the handler does to the queue, short of a tool that clears the  *)
(* chat, it does to its own entry.                                         *)
OwnWork ==
  \/ queue' = queue
  \/ Only(queue, queue', Mine) /\ queue[Mine].status \in {"pending", "triggered"}

LEMMA HandlerWorks ==
  ASSUME QueueConstantsOK, DeliveryConstantsOK, IInv, Handler, ~BeginWorkMode
  PROVE  OwnWork
<1>1. CASE queue' = queue
  BY <1>1 DEF OwnWork
<1>2. CASE TakeReply
  <2>1. ~At("idle") /\ queue[Mine].status = "pending" /\ queue' = WithStatus(queue, Mine, "triggered")
    BY <1>2 DEF TakeReply, At, Pending, Save, TakePrepared, WithStatus
  <2> QED BY <2>1, InHand, StatusIs DEF InFlight, OwnWork
<1>3. CASE Generate
  <2>1. ~At("idle") /\ queue[Mine].status = "pending" /\ queue' = Started(queue, Mine)
    BY <1>3 DEF Generate, At, Waiting, Mergeable, Save
  <2> QED BY <2>1, InHand, StartedIs DEF OwnWork
<1>4. CASE Stale
  <2>1. ~At("idle") /\ queue[Mine].status = "pending" /\ queue' = WithStatus(queue, Mine, "cancelled")
    BY <1>4 DEF Stale, At, Waiting, Mergeable, Save, Expired, WithStatus
  <2> QED BY <2>1, InHand, StatusIs DEF Gone, OwnWork
<1>5. CASE \E p \in {"tool", "start"} : FenceEffect(p)
  <2>1. ~At("idle") /\ turn.at \in Serving /\ queue' = MarkUnsafe(queue, Mine)
    BY <1>5 DEF FenceEffect, At, Serving, Save
  <2> QED BY <2>1, InHand, MarkUnsafeIs DEF OwnWork
<1>6. CASE (\E b \in BOOLEAN : Unconfirmed(b)) \/ GenerationFails
  <2>1. /\ ~At("idle") /\ turn.at \in Serving
        /\ queue' = FailUncertain(queue, Mine) \/ queue' = AfterGenerationError(queue)
    BY <1>6 DEF Unconfirmed, GenerationFails, At, Serving, Save
  <2> QED BY <2>1, InHand, FailUncertainIs, AfterGenerationErrorIs DEF OwnWork
<1>7. ASSUME NEW n \in 0..MaxParts, NEW b \in BOOLEAN, NEW d \in BOOLEAN, Reply(n, b, d)
      PROVE  OwnWork
  <2> DEFINE a == [parts |-> n, cursor |-> 0, rich |-> b, done |-> d]
  <2>1. ~At("idle") /\ turn.at \in Serving /\ queue' = Staged(queue, Mine, a)
    BY <1>7 DEF Reply, At, Serving, Save
  <2>2. a \in Replies
    BY DEF Replies, QueueConstantsOK
  <2> HIDE DEF a
  <2> QED BY <2>1, <2>2, InHand, StagedIs DEF OwnWork
<1>8. CASE Learns
  <2> DEFINE q == AcknowledgePart(queue, Mine)
  <2>1. ~At("idle") /\ turn.at \in Serving /\ (turn.io = "part" => HasPayload(queue, Mine))
    BY <1>8, LearnsIs
  <2>2. /\ Only(queue, q, Mine) /\ q \in Queues
        /\ q[Mine].delivery.reply = queue[Mine].delivery.reply
    BY <2>1, InHand, AcknowledgePartIs DEF Only
  <2>3. /\ turn.io = "part" => HasPayload(q, Mine)
        /\ PartsLeft => q[Mine].delivery.reply.cursor < q[Mine].delivery.reply.parts
    BY <2>1, <2>2 DEF HasPayload, PartsLeft, Answer
  <2>4. queue' = q \/ (turn.io = "part" /\ ((queue' = Further(q) /\ PartsLeft) \/ queue' = Plain(q)))
    BY <1>8, LearnsFiles
  <2> HIDE DEF q
  <2>5. Only(q, queue', Mine)
    BY <2>1, <2>2, <2>3, <2>4, InHand, FurtherIs, PlainIs DEF Only
  <2>6. Only(queue, queue', Mine)
    BY <2>2, <2>5 DEF Only
  <2> QED BY <2>1, <2>6, InHand DEF OwnWork
<1>9. CASE FenceQueue
  <2>1. ~At("idle") /\ turn.at \in Serving /\ queue' = BeginDelivery(queue, Mine)
    BY <1>9 DEF FenceQueue, At, Serving, Save
  <2> QED BY <2>1, InHand, BeginDeliveryIs DEF OwnWork
<1>10. CASE AckLedger
  <2>1. /\ ~At("idle") /\ turn.at \in Serving
        /\ queue' \in {queue, AfterGenerationError(queue), FailKnown(queue, Mine)}
    BY <1>10 DEF AckLedger, Onward, At, Serving, Save
  <2> QED BY <2>1, <1>1, InHand, AfterGenerationErrorIs, FailKnownIs DEF OwnWork
<1>12. CASE Interrupted \/ Complete \/ NoOutput
  <2>1. CASE queue' = queue
    BY <2>1, <1>1
  <2>2. CASE queue' # queue
    <3>1. /\ ~At("idle") /\ turn.at \in Serving
          /\ queue' \in {FailKnown(queue, Mine), FailUncertain(queue, Mine), Commit(queue, Mine),
                         Requeue(queue, Mine, 0)}
      BY <1>12, <2>2 DEF Interrupted, Complete, NoOutput, At, Serving, Save
    <3>2. 0 \in 0..MaxRetries
      BY DEF QueueConstantsOK
    <3> QED BY <3>1, <3>2, InHand, FailKnownIs, FailUncertainIs, CommitIs, RequeueIs DEF OwnWork
  <2> QED BY <2>1, <2>2
<1>13. CASE \/ NothingToDo \/ (\E b \in BOOLEAN : ToolRuns(b)) \/ ToolCalls
            \/ NextPart \/ AlreadyFenced \/ FenceLedger \/ Returns \/ Finish
  BY <1>13, <1>1 DEF NothingToDo, ToolRuns, ToolCalls, NextPart, AlreadyFenced, FenceLedger,
       Returns, NotSent, CallEnds, Finish, Save
<1> QED BY <1>2, <1>3, <1>4, <1>5, <1>6, <1>7, <1>8, <1>9, <1>10, <1>12, <1>13
        DEF Handler, Learns, Returns

(* A failed or uncertain item is never delivered again, by any sequence of *)
(* events, deliveries and restarts.                                        *)
THEOREM GivenUp == Spec => GivenUpForGood
<1>1. ASSUME IInv, [Next]_vars PROVE Standing
  <2>1. CASE Arrival \/ (\E i \in Items : Tick(i) \/ Event(i)) \/ BeginWorkMode
    BY <1>1, <2>1, OthersStand, QueueConstantsOK, DeliveryConstantsOK
  <2>2. CASE Handler /\ ~BeginWorkMode
    BY <1>1, <2>2, HandlerWorks, OwnStanding, QueueConstantsOK, DeliveryConstantsOK DEF OwnWork, Standing
  <2>3. CASE OtherTurnBegins \/ OtherTurnEnds \/ RivalSpeaks \/ RivalEnds \/ LeaseLapses
    BY <2>3 DEF OtherTurnBegins, OtherTurnEnds, RivalSpeaks, RivalEnds, LeaseLapses, memory, Standing
  <2>4. CASE Crash
    <3>1. \A i \in Items : queue'[i] = RestoredEntry(disk[i])
      BY <2>4 DEF Crash, Restarted, Restore
    <3> QED BY <1>1, <3>1 DEF Standing, IInv, FileOK, EntryOK
  <2>5. CASE UNCHANGED vars
    BY <2>5 DEF vars, Standing
  <2> QED BY <1>1, <2>1, <2>2, <2>3, <2>4, <2>5 DEF Next
<1>2. ASSUME IInv, [Next]_vars
      PROVE  [\A i \in Items : queue[i].status \in {"failed", "uncertain"}
                               => queue'[i].status = queue[i].status]_vars
  BY <1>1, <1>2 DEF Standing
<1>3. Spec => [][\A i \in Items : queue[i].status \in {"failed", "uncertain"}
                                   => queue'[i].status = queue[i].status]_vars
  BY <1>2, Invariance, PTL DEF Spec
<1> QED BY <1>3 DEF GivenUpForGood

-----------------------------------------------------------------------------
(* What has escaped is not generated again.                                *)

(* An entry whose reply may yet be generated, or generated again.          *)
Replayable(e) ==
  /\ e.delivery.reply = NoReply
  /\ e.status = "pending" \/ (e.status = "triggered" /\ e.delivery.safe)

(* A taken entry without a reply is being generated or has a partial reply *)
(* in the air.                                                             *)
Taken(e) ==
  e.status = "triggered" /\ e.delivery.reply = NoReply
    => e.delivery.state \in {"generating", "sending"}

(* An entry of the file that a restart would generate from.                *)
Renewable(e) == RestoredEntry(e).status = "pending" /\ e.delivery.reply = NoReply

Unseen(i) ==
  /\ i \notin known => shown[i] = <<>>
  /\ Replayable(queue[i]) => shown[i] = <<>>
  /\ Renewable(disk[i]) => shown[i] = <<>>
  /\ Taken(queue[i])
NothingEscaped == \A i \in Items : Unseen(i)

LEMMA RenewableIs ==
  ASSUME NEW e \in Entries, Filed(e), Taken(e), Renewable(e), e.status \in Gone => e = NoEntry
  PROVE  Replayable(e)
<1>1. e.delivery \in Deliveries /\ e.status \in {"pending"} \cup InFlight \cup Gone
  BY EntryFields
<1>2. CASE e.delivery.state = "none"
  <2>1. RestoredEntry(e).status = IF e.status = "triggered" THEN "uncertain" ELSE e.status
    BY <1>2 DEF RestoredEntry, Entries
  <2> QED BY <2>1 DEF Renewable, Replayable
<1>3. CASE e.delivery.state # "none" /\ Unproven(e.delivery)
  <2>1. RestoredEntry(e).status = "uncertain"
    BY <1>3 DEF RestoredEntry, Entries
  <2> QED BY <2>1 DEF Renewable
<1>4. CASE e.delivery.state # "none" /\ ~Unproven(e.delivery)
  <2>1. RestoredEntry(e).status = IF e.delivery.state \in {"uncertain", "failed"} THEN e.delivery.state ELSE "pending"
    BY <1>4 DEF RestoredEntry, Entries
  <2>2. e # NoEntry /\ e.status \notin Gone
    BY <1>4 DEF NoEntry, NoDelivery
  <2>3. e.delivery.state \notin {"uncertain", "failed", "none", "sending"} /\ (e.delivery.state = "generating" => e.delivery.safe)
    BY <1>4, <2>1 DEF Renewable, Unproven
  <2> QED BY <1>1, <2>2, <2>3 DEF InFlight, Replayable, Renewable, Taken, Filed
<1> QED BY <1>2, <1>3, <1>4

(* A step on i neither makes it replayable again nor takes it without its  *)
(* reply when it has one.                                                  *)
Sound(i) ==
  \/ queue'[i] = queue[i]
  \/ /\ Replayable(queue'[i]) => Replayable(queue[i]) \/ i \notin known
     /\ Taken(queue'[i])
     /\ queue'[i].status = "triggered" /\ queue'[i].delivery.reply = NoReply
        => queue[i].delivery.reply = NoReply
AllSound == \A i \in Items : Sound(i)

LEMMA OwnSound ==
  ASSUME Only(queue, queue', Mine), Sound(Mine)
  PROVE  AllSound
<1>1. \A i \in Items : queue'[i] = queue[i] \/ i = Mine
  BY DEF Only
<1> QED BY <1>1 DEF AllSound, Sound

LEMMA OthersSound ==
  ASSUME QueueConstantsOK, DeliveryConstantsOK, IInv,
         Arrival \/ (\E i \in Items : Tick(i) \/ Event(i)) \/ BeginWorkMode
  PROVE  AllSound
<1>1. queue \in Queues
  BY TypeParts DEF IInv, QueueTyped
<1>2. ASSUME NEW i \in Items, NEW b \in BOOLEAN, Enqueue(i, b) PROVE AllSound
  <2>1. CASE i \notin known /\ Save(Enqueued(queue, i))
    <3>1. Only(queue, queue', i) /\ queue'[i].status = "pending"
      BY <1>1, <2>1, EnqueuedIs DEF Save
    <3> QED BY <2>1, <3>1 DEF Only, AllSound, Sound, Taken
  <2>2. CASE i \in Waiting /\ queue[i].asked < MaxMessages /\ Save(Merged(queue, i))
    <3>1. Only(queue, queue', i) /\ queue'[i].status = queue[i].status /\ queue'[i].delivery = queue[i].delivery
      BY <1>1, <2>2, MergedIs DEF Save
    <3> QED BY <2>2, <3>1 DEF Only, AllSound, Sound, Replayable, Taken, Waiting, Mergeable
  <2> QED BY <1>2, <2>1, <2>2 DEF Enqueue
<1>3. ASSUME NEW i \in Items, NEW b \in BOOLEAN, MergeIncoming(i, b) PROVE AllSound
  <2>1. Only(queue, queue', i) /\ queue'[i].status = queue[i].status /\ queue'[i].delivery = queue[i].delivery
    BY <1>1, <1>3, MergedIs DEF MergeIncoming
  <2> QED BY <1>3, <2>1 DEF MergeIncoming, Only, AllSound, Sound, Replayable, Taken, Waiting, Mergeable
<1>4. CASE SaveGroup
  BY <1>4 DEF SaveGroup, Save, AllSound, Sound
<1>5. ASSUME NEW i \in Items, Settled(i) PROVE AllSound
  <2> DEFINE q == TakePrepared(queue, i)
  <2>1. q = WithStatus(queue, i, "triggered")
    BY DEF TakePrepared, WithStatus
  <2>2. Only(queue, q, i) /\ q[i].status = "triggered" /\ q \in Queues
    BY <1>1, <2>1, StatusIs DEF Only, InFlight
  <2> HIDE DEF q
  <2>3. queue' = queue \/ queue' = Commit(q, i) \/ queue' = FailUncertain(q, i)
    BY <1>5 DEF Settled, Save, q
  <2>4. queue' = queue \/ (Only(q, queue', i) /\ queue'[i].status \in {"sent", "uncertain"})
    BY <2>2, <2>3, CommitIs, FailUncertainIs
  <2> QED BY <2>2, <2>4 DEF Only, AllSound, Sound, Replayable, Taken
<1>6. ASSUME NEW i \in Items, Tick(i) \/ TurnedAway(i) \/ Deferred(i) \/ Claim(i) PROVE AllSound
  BY <1>6 DEF Tick, TurnedAway, Deferred, Claim, AllSound, Sound
<1>7. CASE BeginWorkMode
  <2>1. ASSUME NEW i \in Items PROVE queue'[i] = queue[i] \/ queue'[i].status = "cleared"
    <3>1. queue[i] \in Entries
      BY <1>1 DEF Queues
    <3>2. [queue[i] EXCEPT !.status = "cleared"].status = "cleared"
      BY <3>1 DEF Entries
    <3> QED BY <1>7, <3>2 DEF BeginWorkMode, ClearGroup
  <2> QED BY <2>1 DEF AllSound, Sound, Replayable, Taken
<1> QED BY <1>2, <1>3, <1>4, <1>5, <1>6, <1>7 DEF Arrival, Event

LEMMA HandlerSound ==
  ASSUME QueueConstantsOK, DeliveryConstantsOK, IInv, NothingEscaped, Handler, ~BeginWorkMode
  PROVE  AllSound
<1>1. CASE queue' = queue
  BY <1>1 DEF AllSound, Sound
<1>2. CASE TakeReply
  <2>1. /\ ~At("idle") /\ HasPayload(queue, Mine) /\ queue' = WithStatus(queue, Mine, "triggered")
    BY <1>2 DEF TakeReply, At, Save, TakePrepared, WithStatus
  <2>2. Only(queue, queue', Mine) /\ queue'[Mine].delivery = queue[Mine].delivery
    BY <2>1, InHand, StatusIs DEF InFlight
  <2> QED BY <2>1, <2>2, OwnSound DEF HasPayload, Sound, Replayable, Taken
<1>3. CASE Generate
  <2>1. /\ ~At("idle") /\ queue[Mine].status = "pending" /\ ~HasPayload(queue, Mine)
        /\ queue' = Started(queue, Mine)
    BY <1>3 DEF Generate, At, Waiting, Mergeable, Save
  <2>2. Only(queue, queue', Mine) /\ queue'[Mine].delivery.state = "generating"
    BY <2>1, InHand, StartedIs
  <2> QED BY <2>1, <2>2, OwnSound DEF HasPayload, Sound, Replayable, Taken
<1>4. CASE Stale
  <2>1. ~At("idle") /\ queue' = WithStatus(queue, Mine, "cancelled")
    BY <1>4 DEF Stale, At, Save, Expired, WithStatus
  <2>2. Only(queue, queue', Mine) /\ queue'[Mine].status = "cancelled"
    BY <2>1, InHand, StatusIs DEF Gone
  <2> QED BY <2>2, OwnSound DEF Sound, Replayable, Taken
<1>5. CASE \E p \in {"tool", "start"} : FenceEffect(p)
  <2>1. /\ ~At("idle") /\ queue' = MarkUnsafe(queue, Mine) /\ turn.at \in Serving
        /\ queue[Mine].delivery.state \in {"generating", "sending"} /\ ~HasPayload(queue, Mine)
    BY <1>5 DEF FenceEffect, At, Save, Serving, IInv, Shape
  <2>2. /\ Only(queue, queue', Mine) /\ ~queue'[Mine].delivery.safe /\ queue'[Mine].status = "triggered"
        /\ queue'[Mine].delivery.state \in {"generating", "sending"}
    BY <2>1, InHand, MarkUnsafeIs
  <2> QED BY <2>1, <2>2, OwnSound DEF HasPayload, Sound, Replayable, Taken
<1>6. CASE \E b \in BOOLEAN : Unconfirmed(b)
  <2>1. ~At("idle") /\ turn.at \in Serving /\ queue' = FailUncertain(queue, Mine)
    BY <1>6 DEF Unconfirmed, At, Serving, Save
  <2>2. Only(queue, queue', Mine) /\ queue'[Mine].status = "uncertain"
    BY <2>1, InHand, FailUncertainIs
  <2> QED BY <2>2, OwnSound DEF Sound, Replayable, Taken
<1>7. CASE ~At("idle") /\ turn.at \in Serving /\ queue' = AfterGenerationError(queue)
  <2>1. /\ Only(queue, queue', Mine) /\ queue'[Mine].status \in {"pending", "failed", "uncertain"}
        /\ queue[Mine].status = "triggered"
        /\ queue'[Mine].status = "pending" =>
             queue[Mine].delivery.safe /\ (HasPayload(queue, Mine) => HasPayload(queue', Mine))
    BY <1>7, InHand, AfterGenerationErrorIs
  <2> QED BY <2>1, OwnSound DEF HasPayload, Sound, Replayable, Taken
<1>8. CASE GenerationFails
  BY <1>7, <1>8 DEF GenerationFails, At, Serving, Save
<1>9. ASSUME NEW n \in 0..MaxParts, NEW b \in BOOLEAN, NEW d \in BOOLEAN, Reply(n, b, d)
      PROVE  AllSound
  <2> DEFINE a == [parts |-> n, cursor |-> 0, rich |-> b, done |-> d]
  <2>1. ~At("idle") /\ queue' = Staged(queue, Mine, a)
    BY <1>9 DEF Reply, At, Save
  <2>2. a \in Replies
    BY DEF Replies, QueueConstantsOK
  <2> HIDE DEF a
  <2>3. Only(queue, queue', Mine) /\ HasPayload(queue', Mine)
    BY <2>1, <2>2, InHand, StagedIs
  <2> QED BY <2>3, OwnSound DEF HasPayload, Sound, Replayable, Taken
<1>10. CASE Learns
  <2> DEFINE q == AcknowledgePart(queue, Mine)
  <2>1. /\ ~At("idle") /\ turn.at \in Serving
        /\ turn.io = "part" => HasPayload(queue, Mine)
        /\ turn.io # "part" => ~HasPayload(queue, Mine) /\ ~queue[Mine].delivery.safe
    BY <1>10, LearnsIs
  <2>2. /\ Only(queue, q, Mine) /\ q \in Queues
        /\ q[Mine].delivery.reply = queue[Mine].delivery.reply
        /\ q[Mine].delivery.safe = queue[Mine].delivery.safe
        /\ q[Mine].delivery.state = IF HasPayload(queue, Mine) THEN "ready" ELSE "generating"
    BY <2>1, InHand, AcknowledgePartIs DEF Only
  <2>3. /\ turn.io = "part" => HasPayload(q, Mine)
        /\ PartsLeft => q[Mine].delivery.reply.cursor < q[Mine].delivery.reply.parts
        /\ turn.io # "part" => ~HasPayload(queue, Mine) /\ ~q[Mine].delivery.safe
    BY <2>1, <2>2 DEF HasPayload, PartsLeft, Answer
  <2>4. queue' = q \/ (turn.io = "part" /\ ((queue' = Further(q) /\ PartsLeft) \/ queue' = Plain(q)))
    BY <1>10, LearnsFiles
  <2>5. queue[Mine].status = "triggered" /\ q[Mine].status = "triggered" /\ Mine \in Items
    BY <2>1, InHand, AcknowledgePartIs
  <2> HIDE DEF q
  <2>6. CASE queue' = q
    <3>1. /\ turn.io = "part" => queue'[Mine].delivery.reply # NoReply
          /\ turn.io # "part" => /\ ~queue'[Mine].delivery.safe /\ queue'[Mine].delivery.state = "generating"
                           /\ queue[Mine].delivery.reply = NoReply
      BY <2>2, <2>3, <2>6 DEF HasPayload
    <3>2. Sound(Mine)
      BY <3>1, <2>5, <2>6 DEF Sound, Replayable, Taken
    <3> QED BY <2>2, <2>6, <3>2, OwnSound
  <2>7. CASE turn.io = "part" /\ ((queue' = Further(q) /\ PartsLeft) \/ queue' = Plain(q))
    <3>1. Only(q, queue', Mine) /\ HasPayload(queue', Mine)
      BY <2>2, <2>3, <2>5, <2>7, FurtherIs, PlainIs
    <3>2. Only(queue, queue', Mine)
      BY <2>2, <3>1 DEF Only
    <3> QED BY <3>1, <3>2, OwnSound DEF HasPayload, Sound, Replayable, Taken
  <2> QED BY <2>4, <2>6, <2>7
<1>11. CASE FenceQueue
  <2>1. ~At("idle") /\ turn.at \in Serving /\ queue' = BeginDelivery(queue, Mine)
    BY <1>11 DEF FenceQueue, At, Serving, Save
  <2>2. /\ Only(queue, queue', Mine) /\ queue'[Mine].delivery.state = "sending"
        /\ queue'[Mine].status = "triggered" /\ queue[Mine].status = "triggered"
        /\ queue'[Mine].delivery.safe = queue[Mine].delivery.safe
        /\ queue'[Mine].delivery.reply = queue[Mine].delivery.reply
    BY <2>1, InHand, BeginDeliveryIs
  <2> QED BY <2>2, OwnSound DEF Sound, Replayable, Taken
<1>12. CASE ~At("idle") /\ turn.at \in Serving /\ HasPayload(queue, Mine) /\ queue' = FailKnown(queue, Mine)
  <2>1. /\ Only(queue, queue', Mine) /\ queue'[Mine].status \in {"pending", "failed"}
        /\ queue'[Mine].status = "pending" => HasPayload(queue', Mine)
    BY <1>12, InHand, FailKnownIs
  <2> QED BY <2>1, OwnSound DEF HasPayload, Sound, Replayable, Taken
<1>13. CASE AckLedger
  <2>1. /\ ~At("idle") /\ turn.at \in Serving
        /\ \/ queue' \in {queue, AfterGenerationError(queue)}
           \/ queue' = FailKnown(queue, Mine) /\ HasPayload(queue, Mine)
    BY <1>13 DEF AckLedger, Onward, At, Serving, Save, IInv, Shape, Sending
  <2> QED BY <2>1, <1>1, <1>7, <1>12
<1>15. CASE Interrupted
  <2>1. CASE queue' = FailUncertain(queue, Mine) /\ At("send")
    <3>1. ~At("idle") /\ turn.at \in Serving
      BY <2>1 DEF At, Serving
    <3>2. Only(queue, queue', Mine) /\ queue'[Mine].status = "uncertain"
      BY <2>1, <3>1, InHand, FailUncertainIs
    <3> QED BY <3>2, OwnSound DEF Sound, Replayable, Taken
  <2>2. \/ queue' = queue
        \/ queue' = FailUncertain(queue, Mine) /\ At("send")
        \/ ~At("idle") /\ turn.at \in Serving /\ HasPayload(queue, Mine) /\ queue' = FailKnown(queue, Mine)
    BY <1>15 DEF Interrupted, At, Serving, Save, IInv, Shape
  <2> QED BY <2>1, <2>2, <1>1, <1>12
<1>16. CASE Complete \/ NoOutput
  <2>1. /\ ~At("idle") /\ turn.at \in Serving /\ HasPayload(queue, Mine)
        /\ queue' = Commit(queue, Mine) \/ queue' = Requeue(queue, Mine, 0)
    BY <1>16 DEF Complete, NoOutput, At, Serving, Save, IInv, Shape
  <2>2. 0 \in 0..MaxRetries
    BY DEF QueueConstantsOK
  <2>3. /\ Only(queue, queue', Mine) /\ queue'[Mine].status \in {"sent", "pending", "failed"}
        /\ queue'[Mine].status = "pending" => HasPayload(queue', Mine)
    BY <2>1, <2>2, InHand, CommitIs, RequeueIs DEF HasPayload
  <2> QED BY <2>3, OwnSound DEF HasPayload, Sound, Replayable, Taken
<1>17. CASE \/ NothingToDo \/ (\E b \in BOOLEAN : ToolRuns(b)) \/ ToolCalls
            \/ NextPart \/ AlreadyFenced \/ FenceLedger \/ Returns \/ Finish
  BY <1>17, <1>1 DEF NothingToDo, ToolRuns, ToolCalls, NextPart, AlreadyFenced, FenceLedger,
       Returns, NotSent, CallEnds, Finish, Save
<1> QED BY <1>2, <1>3, <1>4, <1>5, <1>6, <1>8, <1>9, <1>10, <1>11, <1>13, <1>15,
       <1>16, <1>17 DEF Handler, Learns, Returns

(* What is in the air, or running as a tool, is neither replayable nor     *)
(* renewable.                                                              *)
LEMMA AirIsFenced ==
  ASSUME QueueConstantsOK, IInv, NothingEscaped, At("air") \/ At("tool")
  PROVE  Mine \in Items /\ Mine \in known /\ ~Replayable(queue[Mine]) /\ ~Renewable(disk[Mine])
<1>1. ~At("idle") /\ turn.at \in Serving
  BY DEF At, Serving
<1>2. Mine \in Items /\ Mine \in known /\ queue[Mine].status = "triggered" /\ queue[Mine] \in Entries
  BY <1>1, InHand DEF Queues
<1>3. ~Replayable(queue[Mine])
  BY <1>2 DEF IInv, Shape, At, Sending, HasPayload, Replayable
<1>4. disk[Mine] = queue[Mine] /\ Filed(queue[Mine]) /\ Taken(queue[Mine])
  BY <1>1, <1>2 DEF IInv, Shape, FileOK, EntryOK, NothingEscaped, Unseen
<1>5. queue[Mine].status \notin Gone
  BY <1>2 DEF Gone
<1> QED BY <1>2, <1>3, <1>4, <1>5, RenewableIs

LEMMA EscapeSaved ==
  ASSUME QueueConstantsOK, IInv, IInv', NothingEscaped, AllSound, known \subseteq known',
         disk' = disk \/ disk' = Snapshot(queue'),
         \A i \in Items : \/ shown'[i] = shown[i]
                          \/ i = Mine /\ (At("air") \/ At("tool"))
  PROVE  NothingEscaped'
<1> SUFFICES ASSUME NEW i \in Items PROVE Unseen(i)'
  BY DEF NothingEscaped
<1>1. Unseen(i) /\ Sound(i)
  BY DEF NothingEscaped, AllSound
<1>2. queue' \in Queues /\ disk' \in Queues /\ EntryOK(i)'
  BY DEF IInv, TypeOK, Queues, FileOK
<1>3. Taken(queue'[i])
  BY <1>1 DEF Unseen, Sound
<1>4. Replayable(queue'[i]) => Replayable(queue[i]) \/ i \notin known
  BY <1>1 DEF Sound
<1>5. disk'[i] = disk[i] \/ (Renewable(disk'[i]) => Replayable(queue'[i]))
  <2>1. CASE disk' = Snapshot(queue') /\ queue'[i].status \in Gone
    <3>1. disk'[i] = NoEntry
      BY <2>1, <1>2, SnapshotIs
    <3> QED BY <3>1 DEF Renewable, RestoredEntry, NoEntry, NoDelivery
  <2>2. CASE disk' = Snapshot(queue') /\ queue'[i].status \notin Gone
    <3>1. disk'[i] = queue'[i]
      BY <2>2, <1>2, SnapshotIs
    <3>2. Filed(queue'[i]) /\ queue'[i] \in Entries
      BY <1>2 DEF EntryOK, Queues
    <3> QED BY <2>2, <3>1, <3>2, <1>3, RenewableIs
  <2> QED BY <2>1, <2>2
<1>6. CASE shown'[i] = shown[i]
  BY <1>1, <1>3, <1>4, <1>5, <1>6 DEF Unseen
<1>7. CASE i = Mine /\ (At("air") \/ At("tool"))
  BY <1>3, <1>4, <1>5, <1>7, AirIsFenced DEF Unseen
<1> QED BY <1>6, <1>7

LEMMA RestoredReply ==
  ASSUME NEW e \in Entries
  PROVE  RestoredEntry(e).delivery.reply = e.delivery.reply
<1>1. e.delivery \in Deliveries
  BY EntryFields
<1>2. CASE e.delivery.state # "none" /\ Unproven(e.delivery)
  <2>1. RestoredEntry(e) = [e EXCEPT !.status = "uncertain", !.delivery = [e.delivery EXCEPT !.state = "uncertain"]]
    BY <1>2 DEF RestoredEntry, Entries
  <2>2. [e.delivery EXCEPT !.state = "uncertain"].reply = e.delivery.reply
    BY <1>1, Restated
  <2> QED BY <2>1, <2>2 DEF Entries
<1>3. CASE ~(e.delivery.state # "none" /\ Unproven(e.delivery))
  <2>1. RestoredEntry(e).delivery = e.delivery
    BY <1>3 DEF RestoredEntry, Entries
  <2> QED BY <2>1
<1> QED BY <1>2, <1>3

(* What a tool or a send leaves in the chat, it leaves for its own item.   *)
LEMMA ShownBy ==
  ASSUME QueueConstantsOK, IInv, [Next]_vars
  PROVE  \A i \in Items : \/ shown'[i] = shown[i]
                          \/ i = Mine /\ (At("air") \/ At("tool"))
<1>1. shown \in [Items -> Seq(0..MaxParts)]
  BY TypeParts DEF IInv, RestTyped
<1>2. \/ shown' = shown
      \/ (At("air") \/ At("tool")) /\ \E x : shown' = [shown EXCEPT ![Mine] = x]
  <2>1. CASE Arrival \/ (\E i \in Items : Tick(i) \/ Event(i)) \/ UNCHANGED vars
    BY <2>1 DEF Arrival, Enqueue, MergeIncoming, SaveGroup, Tick, Event, TurnedAway, Deferred,
         Settled, Claim, vars
  <2>2. CASE OtherTurnBegins \/ OtherTurnEnds \/ RivalSpeaks \/ RivalEnds \/ LeaseLapses
    BY <2>2 DEF OtherTurnBegins, OtherTurnEnds, RivalSpeaks, RivalEnds, LeaseLapses
  <2>3. CASE Crash
    BY <2>3 DEF Crash, Show
  <2>4. CASE Handler
    <3>1. CASE (\E b \in BOOLEAN : ToolRuns(b) \/ Unconfirmed(b) \/ CallEnds(b)) \/ Accepted
      BY <3>1 DEF ToolRuns, Unconfirmed, CallEnds, Accepted, Show
    <3>2. CASE ~((\E b \in BOOLEAN : ToolRuns(b) \/ Unconfirmed(b) \/ CallEnds(b)) \/ Accepted)
      BY <2>4, <3>2 DEF Handler, TakeReply, Generate, Stale, NothingToDo, FenceEffect, BeginWorkMode,
           ToolCalls, AlreadyFenced, Reply, GenerationFails, NextPart, FenceLedger, NotSent, FenceQueue, Rejected, AckLedger,
           RichFallback, Interrupted, Complete, NoOutput, Finish
    <3> QED BY <3>1, <3>2
  <2> QED BY <2>1, <2>2, <2>3, <2>4 DEF Next
<1>3. ASSUME NEW x, shown' = [shown EXCEPT ![Mine] = x], NEW i \in Items, i # Mine
      PROVE  shown'[i] = shown[i]
  BY <1>1, <1>3
<1> QED BY <1>2, <1>3

LEMMA SoundStep ==
  ASSUME QueueConstantsOK, DeliveryConstantsOK, IInv, NothingEscaped, [Next]_vars, ~Crash
  PROVE  AllSound
<1>1. CASE Arrival \/ (\E i \in Items : Tick(i) \/ Event(i)) \/ BeginWorkMode
  BY <1>1, OthersSound
<1>2. CASE Handler /\ ~BeginWorkMode
  BY <1>2, HandlerSound
<1>3. CASE OtherTurnBegins \/ OtherTurnEnds \/ RivalSpeaks \/ RivalEnds \/ LeaseLapses \/ UNCHANGED vars
  BY <1>3 DEF OtherTurnBegins, OtherTurnEnds, RivalSpeaks, RivalEnds, LeaseLapses, memory, vars,
       AllSound, Sound
<1> QED BY <1>1, <1>2, <1>3 DEF Next

LEMMA FileStep ==
  ASSUME [Next]_vars, ~Crash
  PROVE  known \subseteq known' /\ (disk' = disk \/ disk' = Snapshot(queue'))
<1>1. CASE Arrival \/ (\E i \in Items : Tick(i) \/ Event(i)) \/ UNCHANGED vars
  BY <1>1 DEF Arrival, Enqueue, MergeIncoming, SaveGroup, Tick, Event, TurnedAway, Deferred,
       Settled, Claim, vars, count, Save
<1>2. CASE OtherTurnBegins \/ OtherTurnEnds \/ RivalSpeaks \/ RivalEnds \/ LeaseLapses
  BY <1>2 DEF OtherTurnBegins, OtherTurnEnds, RivalSpeaks, RivalEnds, LeaseLapses, count
<1>3. CASE Handler
  BY <1>3 DEF Handler, TakeReply, Generate, Stale, NothingToDo, FenceEffect, BeginWorkMode,
       ToolRuns, ToolCalls, Unconfirmed, CallEnds, Accepted, Acked, Onward, Save, count,
       Reply, GenerationFails, NextPart, AlreadyFenced, FenceLedger, NotSent, FenceQueue, Rejected, AckLedger,
       RichFallback, Interrupted, Complete, NoOutput, Finish
<1> QED BY <1>1, <1>2, <1>3 DEF Next

LEMMA CrashEscapes ==
  ASSUME QueueConstantsOK, IInv, IInv', NothingEscaped, Crash
  PROVE  NothingEscaped'
<1> SUFFICES ASSUME NEW i \in Items PROVE Unseen(i)'
  BY DEF NothingEscaped
<1>1. queue'[i] = RestoredEntry(disk[i]) /\ disk' = disk /\ known' = known /\ turn' = Resting
  BY DEF Crash, Restarted, Restore
<1>2. disk[i] \in Entries /\ EntryOK(i) /\ Unseen(i)
  BY DEF IInv, TypeOK, FileOK, NothingEscaped
<1>3. queue'[i].status # "triggered" /\ queue'[i].delivery.reply = disk[i].delivery.reply
  BY <1>1, <1>2, RestoredEntryIs, RestoredReply DEF EntryOK
<1>4. Replayable(queue'[i]) => Renewable(disk[i])
  BY <1>1, <1>3 DEF Replayable, Renewable
<1>5. Taken(queue'[i])
  BY <1>3 DEF Taken
<1>6. shown'[i] = shown[i] \/ (i \in known /\ ~Renewable(disk[i]))
  BY ShownBy, AirIsFenced DEF Next
<1> QED BY <1>1, <1>2, <1>4, <1>5, <1>6 DEF Unseen

LEMMA EscapeStep ==
  ASSUME QueueConstantsOK, DeliveryConstantsOK, IInv, IInv', NothingEscaped, [Next]_vars
  PROVE  NothingEscaped'
<1>1. CASE Crash
  BY <1>1, CrashEscapes
<1>2. CASE ~Crash
  BY <1>2, SoundStep, FileStep, ShownBy, EscapeSaved
<1> QED BY <1>1, <1>2

(* A turn of which a tool's effect, a partial reply or a part has escaped  *)
(* is never generated again: the replay barrier, requeue_in_flight and     *)
(* restore() together.                                                     *)
THEOREM NeverReplayed == Spec => NoReplay
<1>1. Init => NothingEscaped
  <2> SUFFICES ASSUME Init, NEW i \in Items PROVE Unseen(i)
    BY DEF NothingEscaped
  <2>1. shown[i] = <<>> /\ queue[i] = NoEntry
    BY DEF Init
  <2> QED BY <2>1 DEF Unseen, Taken, NoEntry
<1>2. IInv /\ IInv' /\ NothingEscaped /\ [Next]_vars => NothingEscaped'
  BY EscapeStep, QueueConstantsOK, DeliveryConstantsOK
<1>3. Spec => []NothingEscaped
  BY <1>1, <1>2, Invariance, PTL DEF Spec
<1>4. ASSUME IInv, NothingEscaped, [Next]_vars, NEW i \in Items,
             queue'[i].status = "triggered", ~HasPayload(queue', i), queue[i].status = "pending"
      PROVE  shown[i] = <<>>
  <2>1. ~Crash
    <3>1. Crash => queue'[i] = RestoredEntry(disk[i]) /\ disk[i] \in Entries /\ EntryOK(i)
      BY <1>4 DEF Crash, Restarted, Restore, IInv, TypeOK, FileOK
    <3> QED BY <1>4, <3>1, RestoredEntryIs, QueueConstantsOK DEF EntryOK
  <2>2. Sound(i)
    BY <1>4, <2>1, SoundStep, QueueConstantsOK, DeliveryConstantsOK DEF AllSound
  <2>3. Replayable(queue[i])
    BY <1>4, <2>2 DEF Sound, HasPayload, Replayable
  <2> QED BY <1>4, <2>3 DEF NothingEscaped, Unseen
<1>5. IInv /\ NothingEscaped /\ [Next]_vars =>
        [\A i \in Items :
           /\ queue'[i].status = "triggered" /\ ~HasPayload(queue', i)
           /\ queue[i].status = "pending"
           => shown[i] = <<>>]_vars
  BY <1>4
<1> QED BY <1>3, <1>5, Invariance, PTL DEF Spec, NoReplay
-----------------------------------------------------------------------------
(* An announced item is on the bus or in the handler's hands.              *)

OnBus(i) == \E n \in 1..Len(bus) : bus[n] = i

(* Only items the queue has seen are marked, and a mark has its event.     *)
Heard == told \subseteq known /\ \A i \in told \cap Pending : Mine = i \/ OnBus(i)

(* The handler touches no entry but its own. *)
(* A message that joins the bus keeps what is there. *)
LEMMA Appended ==
  ASSUME bus \in Seq(Items), NEW i \in Items, bus' = Append(bus, i)
  PROVE  OnBus(i)' /\ \A j : OnBus(j) => OnBus(j)'
<1>1. Len(bus) \in Nat /\ Len(bus') = Len(bus) + 1 /\ bus'[Len(bus) + 1] = i
      /\ \A n \in 1..Len(bus) : bus'[n] = bus[n]
  BY AppendProperties
<1>2. OnBus(i)'
  BY <1>1 DEF OnBus
<1>3. ASSUME NEW j, OnBus(j) PROVE OnBus(j)'
  <2>1. PICK n \in 1..Len(bus) : bus[n] = j
    BY <1>3 DEF OnBus
  <2>2. n \in 1..Len(bus') /\ bus'[n] = j
    BY <1>1, <2>1
  <2> QED BY <2>2 DEF OnBus
<1> QED BY <1>2, <1>3

LEMMA TakenOff ==
  ASSUME bus \in Seq(Items), NEW i \in Items, Take(i)
  PROVE  \A j : OnBus(j) => j = i \/ OnBus(j)'
<1>1. bus # <<>> /\ Head(bus) = i /\ bus' = Tail(bus)
  BY DEF Take
<1>2. /\ Len(bus) \in Nat /\ Len(bus) # 0 /\ bus[1] = i /\ Len(bus') = Len(bus) - 1
      /\ \A n \in 1..Len(bus') : bus'[n] = bus[n + 1]
  BY <1>1, HeadTailProperties, EmptySeq
<1>3. ASSUME NEW j, OnBus(j), j # i PROVE OnBus(j)'
  <2>1. PICK n \in 1..Len(bus) : bus[n] = j
    BY <1>3 DEF OnBus
  <2>2. n - 1 \in 1..Len(bus') /\ bus'[n - 1] = j
    BY <1>2, <1>3, <2>1
  <2> QED BY <2>2 DEF OnBus
<1> QED BY <1>3

(* No step but a restart makes an item wait that is neither waiting, nor   *)
(* new, nor in the handler's hands.                                        *)
NoneReturns == \A i \in Items : i \in Pending' => i \in Pending \/ i = Mine \/ i \notin known

LEMMA OthersReturn ==
  ASSUME QueueConstantsOK, DeliveryConstantsOK, IInv,
         Arrival \/ (\E i \in Items : Tick(i) \/ Event(i)) \/ BeginWorkMode
  PROVE  NoneReturns
<1>1. queue \in Queues
  BY TypeParts DEF IInv, QueueTyped
<1>2. ASSUME NEW i \in Items, Only(queue, queue', i), i \in Pending \/ i \notin known \/ i \notin Pending'
      PROVE  NoneReturns
  BY <1>2 DEF Only, NoneReturns, Pending
<1>3. ASSUME NEW i \in Items, NEW b \in BOOLEAN, Enqueue(i, b) PROVE NoneReturns
  <2>1. CASE i \notin known /\ Save(Enqueued(queue, i))
    BY <2>1, <1>1, <1>2, EnqueuedIs DEF Save
  <2>2. CASE i \in Waiting /\ queue[i].asked < MaxMessages /\ Save(Merged(queue, i))
    BY <2>2, <1>1, <1>2, MergedIs DEF Save, Waiting, Mergeable, Pending
  <2> QED BY <1>3, <2>1, <2>2 DEF Enqueue
<1>4. ASSUME NEW i \in Items, NEW b \in BOOLEAN, MergeIncoming(i, b) PROVE NoneReturns
  BY <1>4, <1>1, <1>2, MergedIs DEF MergeIncoming, Waiting, Mergeable, Pending
<1>5. ASSUME NEW i \in Items, Settled(i) PROVE NoneReturns
  <2> DEFINE q == TakePrepared(queue, i)
  <2>1. q = WithStatus(queue, i, "triggered")
    BY DEF TakePrepared, WithStatus
  <2>2. Only(queue, q, i) /\ q[i].status = "triggered" /\ q \in Queues
    BY <1>1, <2>1, StatusIs DEF Only, InFlight
  <2> HIDE DEF q
  <2>3. queue' = queue \/ (i \in Pending /\ (queue' = Commit(q, i) \/ queue' = FailUncertain(q, i)))
    BY <1>5 DEF Settled, Save, q
  <2>4. queue' = queue \/ (i \in Pending /\ Only(q, queue', i))
    BY <2>2, <2>3, CommitIs, FailUncertainIs
  <2>5. queue' = queue \/ (i \in Pending /\ Only(queue, queue', i))
    BY <2>2, <2>4 DEF Only
  <2> QED BY <2>5, <1>2 DEF NoneReturns, Pending
<1>6. CASE SaveGroup \/ \E i \in Items : Tick(i) \/ TurnedAway(i) \/ Deferred(i) \/ Claim(i)
  BY <1>6 DEF SaveGroup, Save, Tick, TurnedAway, Deferred, Claim, NoneReturns, Pending
<1>7. CASE BeginWorkMode
  <2>1. ASSUME NEW i \in Items PROVE queue'[i] = queue[i] \/ queue'[i].status = "cleared"
    <3>1. queue[i] \in Entries
      BY <1>1 DEF Queues
    <3>2. [queue[i] EXCEPT !.status = "cleared"].status = "cleared"
      BY <3>1 DEF Entries
    <3> QED BY <1>7, <3>2 DEF BeginWorkMode, ClearGroup
  <2> QED BY <2>1 DEF NoneReturns, Pending
<1> QED BY <1>3, <1>4, <1>5, <1>6, <1>7 DEF Arrival, Event

LEMMA ReturnStep ==
  ASSUME QueueConstantsOK, DeliveryConstantsOK, IInv, [Next]_vars, ~Crash
  PROVE  NoneReturns
<1>1. CASE Arrival \/ (\E i \in Items : Tick(i) \/ Event(i)) \/ BeginWorkMode
  BY <1>1, OthersReturn
<1>2. CASE Handler /\ ~BeginWorkMode
  BY <1>2, HandlerWorks DEF OwnWork, Only, NoneReturns, Pending
<1>3. CASE OtherTurnBegins \/ OtherTurnEnds \/ RivalSpeaks \/ RivalEnds \/ LeaseLapses \/ UNCHANGED vars
  BY <1>3 DEF OtherTurnBegins, OtherTurnEnds, RivalSpeaks, RivalEnds, LeaseLapses, memory, vars,
       NoneReturns, Pending
<1> QED BY <1>1, <1>2, <1>3 DEF Next

(* Marks and events move together: a new mark has its event on the bus, an *)
(* event that leaves the bus takes its mark along or becomes the turn, and *)
(* the turn ends only with its mark gone.                                  *)
Told ==
  /\ \A i \in told' : i \in told \/ (OnBus(i)' /\ i \in known')
  /\ \A i \in told' : OnBus(i) => OnBus(i)' \/ turn'.item = i
  /\ \A i \in told' : Mine = i => turn'.item = i

LEMMA ToldBy ==
  ASSUME DeliveryConstantsOK, RestTyped, NEW i \in Items, i \in known', turn' = turn,
         Announce(i) \/ UNCHANGED <<told, bus>>
  PROVE  Told
<1>1. CASE BusAccepts /\ Announce(i)
  BY <1>1, Appended DEF Announce, RestTyped, Told, Mine
<1>2. CASE UNCHANGED <<told, bus>>
  BY <1>2 DEF Told, OnBus, Mine
<1> QED BY <1>1, <1>2 DEF Announce

LEMMA ToldStep ==
  ASSUME QueueConstantsOK, DeliveryConstantsOK, IInv, [Next]_vars, ~Crash
  PROVE  Told
<1>1. RestTyped /\ turn \in Turns
  BY TypeParts DEF IInv
<1>2. ASSUME NEW i \in Items, NEW b \in BOOLEAN, Enqueue(i, b) PROVE Told
  BY <1>1, <1>2, ToldBy DEF Enqueue
<1>3. ASSUME NEW i \in Items, NEW b \in BOOLEAN, MergeIncoming(i, b) PROVE Told
  <2>1. i \in known' /\ turn' = turn
    BY <1>3 DEF MergeIncoming, Waiting, Mergeable, IInv, FileOK, EntryOK, count
  <2>2. CASE told' = told \ {i} /\ UNCHANGED bus
    BY <2>1, <2>2 DEF Told, OnBus, Mine
  <2> QED BY <1>1, <1>3, <2>1, <2>2, ToldBy DEF MergeIncoming
<1>4. ASSUME NEW i \in Items, Tick(i) PROVE Told
  <2>1. i \in known' /\ turn' = turn /\ bus' = Append(bus, i) /\ told' \subseteq told \cup {i}
    BY <1>4 DEF Tick, Pending, IInv, FileOK, EntryOK, count
  <2> QED BY <1>1, <2>1, Appended DEF RestTyped, Told, Mine
<1>5. ASSUME NEW i \in Items, TurnedAway(i) \/ Deferred(i) \/ Settled(i) PROVE Told
  <2>1. Take(i) /\ told' = told \ {i} /\ turn' = turn
    BY <1>5 DEF TurnedAway, Deferred, Settled
  <2> QED BY <1>1, <2>1, TakenOff DEF RestTyped, Told, Mine
<1>6. ASSUME NEW i \in Items, Claim(i) PROVE Told
  <2>1. Take(i) /\ told' = told /\ turn'.item = i /\ Mine = NoItem
    BY <1>6 DEF Claim, Resting, IInv, Placed, At
  <2>2. NoItem \notin told
    BY <1>1 DEF RestTyped, DeliveryConstantsOK
  <2> QED BY <1>1, <2>1, <2>2, TakenOff DEF RestTyped, Told
<1>7. CASE Finish
  BY <1>7 DEF Finish, Told, OnBus, Mine
<1>8. CASE Handler /\ ~Finish
  <2>1. bus' = bus /\ told' \subseteq told
    BY <1>8 DEF Handler, TakeReply, Generate, Stale, NothingToDo, FenceEffect, BeginWorkMode,
         ToolRuns, ToolCalls, Unconfirmed, CallEnds, Reply, GenerationFails, NextPart,
         AlreadyFenced, FenceLedger, NotSent, FenceQueue,
         Accepted, Rejected, AckLedger, RichFallback, Interrupted, Complete, NoOutput
  <2>2. turn'.item = Mine
    BY <1>1, <1>8 DEF Handler, TakeReply, Generate, Stale, NothingToDo, FenceEffect, BeginWorkMode,
         ToolRuns, ToolCalls, Unconfirmed, CallEnds, Reply, GenerationFails, NextPart,
         AlreadyFenced, FenceLedger, NotSent, FenceQueue,
         Accepted, Rejected, AckLedger, RichFallback, Interrupted, Complete, NoOutput, Acked, Onward,
         Resume, Move, Report, Turns, Mine
  <2> QED BY <2>1, <2>2 DEF Told, OnBus
<1>9. CASE \/ SaveGroup \/ OtherTurnBegins \/ OtherTurnEnds \/ RivalSpeaks \/ RivalEnds
           \/ LeaseLapses \/ UNCHANGED vars
  BY <1>9 DEF SaveGroup, OtherTurnBegins, OtherTurnEnds, RivalSpeaks, RivalEnds, LeaseLapses,
       memory, vars, Told, OnBus, Mine
<1> QED BY <1>2, <1>3, <1>4, <1>5, <1>6, <1>7, <1>8, <1>9 DEF Next, Arrival, Event

(* Every announcement mark on a waiting item has its event on the bus or   *)
(* in the handler's hands: _delayed_event_emitted never silences an item.  *)
THEOREM MarksAreHeard == Spec => []MarkedIsAwaited
<1>1. Init => Heard
  BY DEF Init, Heard
<1>2. ASSUME IInv, Heard, [Next]_vars PROVE Heard'
  <2>1. CASE Crash
    BY <2>1 DEF Crash, Restarted, Heard
  <2>2. CASE ~Crash
    <3>1. NoneReturns /\ Told /\ known \subseteq known'
      BY <1>2, <2>2, ReturnStep, ToldStep, FileStep, QueueConstantsOK, DeliveryConstantsOK
    <3>2. told' \subseteq known'
      BY <1>2, <3>1 DEF Heard, Told
    <3>3. ASSUME NEW i \in told' \cap Pending' PROVE turn'.item = i \/ OnBus(i)'
      <4>1. i \in Items
        BY <3>3 DEF Pending
      <4>2. CASE i \notin told
        BY <3>1, <3>3, <4>2 DEF Told
      <4>3. CASE i \in told
        <5>1. i \in Pending \/ i = Mine
          BY <1>2, <3>1, <3>3, <4>1, <4>3 DEF Heard, NoneReturns
        <5>2. Mine = i \/ OnBus(i)
          BY <1>2, <4>3, <5>1 DEF Heard
        <5> QED BY <3>1, <3>3, <5>2 DEF Told
      <4> QED BY <4>2, <4>3
    <3> QED BY <3>2, <3>3 DEF Heard, Mine
  <2> QED BY <2>1, <2>2
<1>3. Spec => []Heard
  BY <1>1, <1>2, Invariance, PTL DEF Spec
<1>4. Heard => MarkedIsAwaited
  BY DEF Heard, MarkedIsAwaited, OnBus
<1> QED BY <1>3, <1>4, PTL

-----------------------------------------------------------------------------
(* What of a reply is in the chat is what its cursor says.                 *)

Awake(e) == e.status \in {"pending", "triggered"}

(* The cursor counts the parts that were shown; a reply, made or in the    *)
(* making, is made from all the messages of the item.                      *)
Counted(i, e) ==
  IF e.delivery.reply = NoReply THEN PartsShown(i) = {}
  ELSE /\ PartsShown(i) = 1..e.delivery.reply.cursor
       /\ e.delivery.reply.cursor <= e.delivery.reply.parts
MadeOfAll(e) == e.status = "triggered" \/ e.delivery.reply # NoReply => e.delivery.of = e.asked

(* A handler that went away leaves the ledger barring what it may have     *)
(* sent: the item is not claimed again, so its count no longer matters.    *)
Barred(i) == fate[i] \in Barring /\ Mine # i

TallyOf(i, e) == MadeOfAll(e) /\ (Counted(i, e) \/ Barred(i))

Tallied == \A i \in Items :
  /\ Awake(queue[i]) => TallyOf(i, queue[i])
  /\ RestoredEntry(disk[i]).status = "pending" => TallyOf(i, disk[i])

(* Nothing has been shown since of an item that stays as it was.           *)
SameReply(e, f) ==
  \/ e.delivery.reply = NoReply /\ f.delivery.reply = NoReply
  \/ /\ e.delivery.reply # NoReply /\ f.delivery.reply # NoReply
     /\ f.delivery.reply.cursor = e.delivery.reply.cursor
     /\ f.delivery.reply.parts = e.delivery.reply.parts

(* How an entry that can still be answered came about: it was enqueued     *)
(* just now, its reply was, or it carries on.  Only complete() files an     *)
(* item as sent.                                                           *)
Carries(i) ==
  /\ Awake(queue'[i]) =>
       \/ i \notin known /\ queue'[i].delivery.reply = NoReply /\ MadeOfAll(queue'[i])
       \/ /\ Awake(queue[i])
          /\ MadeOfAll(queue[i]) => MadeOfAll(queue'[i])
          /\ \/ SameReply(queue[i], queue'[i])
             \/ /\ queue[i].delivery.reply = NoReply
                /\ queue'[i].delivery.reply \in Replies /\ queue'[i].delivery.reply.cursor = 0
  /\ queue'[i].status = "sent" => queue[i].status = "sent" \/ (Complete /\ i = Mine)
AllCarry == \A i \in Items : Carries(i)

LEMMA Carried ==
  ASSUME NEW i \in Items, Only(queue, queue', i), Carries(i)
  PROVE  AllCarry
<1>1. \A j \in Items : j # i => queue'[j] = queue[j]
  BY DEF Only
<1>2. ASSUME NEW j \in Items, j # i PROVE Carries(j)
  BY <1>1, <1>2 DEF Carries, SameReply
<1> QED BY <1>2 DEF AllCarry

(* Entries that differ in their place and their delivery's state only. *)
LEMMA Passed ==
  ASSUME NEW i \in Items, Only(queue, queue', i), Awake(queue[i]), Awake(queue'[i]),
         queue'[i].delivery.reply = queue[i].delivery.reply,
         queue'[i].delivery.of = queue[i].delivery.of, queue'[i].asked = queue[i].asked,
         queue'[i].status = "triggered" => queue[i].status = "triggered" \/ HasPayload(queue, i)
  PROVE  AllCarry
<1>1. Carries(i)
  BY DEF Carries, SameReply, MadeOfAll, HasPayload, Awake
<1> QED BY <1>1, Carried

LEMMA OthersCarry ==
  ASSUME QueueConstantsOK, DeliveryConstantsOK, IInv,
         Arrival \/ (\E i \in Items : Tick(i) \/ Event(i)) \/ BeginWorkMode
  PROVE  AllCarry
<1>1. queue \in Queues
  BY TypeParts DEF IInv, QueueTyped
<1>2. CASE queue' = queue
  BY <1>2 DEF AllCarry, Carries, SameReply
<1>3. ASSUME NEW i \in Items, i \in Waiting, queue[i].asked < MaxMessages, queue' = Merged(queue, i)
      PROVE  AllCarry
  <2>1. /\ Only(queue, queue', i) /\ queue'[i].status = queue[i].status
        /\ queue'[i].delivery = queue[i].delivery
    BY <1>1, <1>3, MergedIs
  <2>2. queue[i].status = "pending" /\ queue[i].delivery.reply = NoReply
    BY <1>3 DEF Waiting, Mergeable, HasPayload
  <2>3. Carries(i)
    BY <2>1, <2>2 DEF Carries, SameReply, MadeOfAll, Awake
  <2> QED BY <2>1, <2>3, Carried
<1>4. ASSUME NEW i \in Items, i \notin known, queue' = Enqueued(queue, i) PROVE AllCarry
  <2>1. Only(queue, queue', i) /\ queue'[i].status = "pending"
    BY <1>1, <1>4, EnqueuedIs
  <2>2. queue'[i].delivery.reply = NoReply
    BY <1>1, <1>4 DEF Enqueued, NoEntry, NoDelivery, Queues
  <2>3. Carries(i)
    BY <1>4, <2>1, <2>2 DEF Carries, MadeOfAll, Awake
  <2> QED BY <2>1, <2>3, Carried
<1>5. ASSUME NEW i \in Items, Settled(i) PROVE AllCarry
  <2> DEFINE q == TakePrepared(queue, i)
  <2>1. q = WithStatus(queue, i, "triggered")
    BY DEF TakePrepared, WithStatus
  <2>2. Only(queue, q, i) /\ q[i].status = "triggered" /\ q \in Queues
    BY <1>1, <2>1, StatusIs DEF Only, InFlight
  <2> HIDE DEF q
  <2>3. queue' = queue \/ queue' = FailUncertain(q, i)
    <3>1. i \in Pending => fate[i] # "sent"
      BY DEF Pending, IInv, ConfirmedIsGone, Gone
    <3> QED BY <1>5, <3>1 DEF Settled, Save, q
  <2>4. queue' = queue \/ (Only(q, queue', i) /\ queue'[i].status = "uncertain")
    BY <2>2, <2>3, FailUncertainIs
  <2>5. queue' = queue \/ (Only(queue, queue', i) /\ queue'[i].status = "uncertain")
    BY <2>2, <2>4 DEF Only
  <2> QED BY <2>5, <1>2, Carried DEF Carries, Awake
<1>6. CASE BeginWorkMode
  <2>1. ASSUME NEW i \in Items PROVE queue'[i] = queue[i] \/ queue'[i].status = "cleared"
    <3>1. queue[i] \in Entries
      BY <1>1 DEF Queues
    <3>2. [queue[i] EXCEPT !.status = "cleared"].status = "cleared"
      BY <3>1 DEF Entries
    <3> QED BY <1>6, <3>2 DEF BeginWorkMode, ClearGroup
  <2> QED BY <2>1 DEF AllCarry, Carries, SameReply, Awake
<1>7. CASE Arrival
  BY <1>7, <1>2, <1>3, <1>4 DEF Arrival, Enqueue, MergeIncoming, SaveGroup, Save
<1>8. CASE \E i \in Items : Tick(i) \/ TurnedAway(i) \/ Deferred(i) \/ Claim(i)
  BY <1>8, <1>2 DEF Tick, TurnedAway, Deferred, Claim
<1> QED BY <1>5, <1>6, <1>7, <1>8 DEF Event

(* The handler's steps; the platform's acceptance of a part is apart.      *)
LEMMA HandlerCarries ==
  ASSUME QueueConstantsOK, DeliveryConstantsOK, IInv, Handler, ~BeginWorkMode,
         ~(Accepted /\ turn.io = "part")
  PROVE  AllCarry
<1>1. CASE queue' = queue
  BY <1>1 DEF AllCarry, Carries, SameReply
<1>2. CASE TakeReply
  <2>1. /\ ~At("idle") /\ queue[Mine].status = "pending" /\ HasPayload(queue, Mine)
        /\ queue' = WithStatus(queue, Mine, "triggered")
    BY <1>2 DEF TakeReply, At, Save, TakePrepared, WithStatus, Pending
  <2>2. /\ Only(queue, queue', Mine) /\ queue'[Mine].delivery = queue[Mine].delivery
        /\ queue'[Mine].asked = queue[Mine].asked /\ queue'[Mine].status = "triggered"
    BY <2>1, InHand, StatusIs DEF InFlight
  <2> QED BY <2>1, <2>2, InHand, Passed DEF Awake
<1>3. CASE Generate
  <2>1. /\ ~At("idle") /\ queue[Mine].status = "pending" /\ ~HasPayload(queue, Mine)
        /\ queue' = Started(queue, Mine)
    BY <1>3 DEF Generate, At, Waiting, Mergeable, Save
  <2>2. /\ Only(queue, queue', Mine) /\ ~HasPayload(queue', Mine) /\ queue'[Mine].status = "triggered"
        /\ queue'[Mine].delivery.of = queue'[Mine].asked
    BY <2>1, InHand, StartedIs
  <2>3. Carries(Mine)
    BY <2>1, <2>2 DEF Carries, SameReply, MadeOfAll, Awake, HasPayload
  <2> QED BY <2>1, <2>2, <2>3, InHand, Carried
<1>4. CASE Stale
  <2>1. ~At("idle") /\ queue' = WithStatus(queue, Mine, "cancelled")
    BY <1>4 DEF Stale, At, Save, Expired, WithStatus
  <2>2. Only(queue, queue', Mine) /\ queue'[Mine].status = "cancelled"
    BY <2>1, InHand, StatusIs DEF Gone
  <2> QED BY <2>1, <2>2, InHand, Carried DEF Carries, Awake
<1>5. CASE (\E p \in {"tool", "start"} : FenceEffect(p)) \/ FenceQueue
  <2>1. /\ ~At("idle") /\ turn.at \in Serving
        /\ queue' \in {MarkUnsafe(queue, Mine), BeginDelivery(queue, Mine)}
    BY <1>5 DEF FenceEffect, FenceQueue, At, Save, Serving
  <2>2. /\ Only(queue, queue', Mine) /\ queue'[Mine].delivery.reply = queue[Mine].delivery.reply
        /\ queue'[Mine].delivery.of = queue[Mine].delivery.of /\ queue'[Mine].asked = queue[Mine].asked
        /\ queue'[Mine].status = queue[Mine].status
    BY <2>1, InHand, MarkUnsafeIs, BeginDeliveryIs
  <2> QED BY <2>1, <2>2, InHand, Passed DEF Awake
<1>6. CASE \E b \in BOOLEAN : Unconfirmed(b)
  <2>1. ~At("idle") /\ turn.at \in Serving /\ queue' = FailUncertain(queue, Mine)
    BY <1>6 DEF Unconfirmed, At, Serving, Save
  <2>2. Only(queue, queue', Mine) /\ queue'[Mine].status = "uncertain"
    BY <2>1, InHand, FailUncertainIs
  <2> QED BY <2>1, <2>2, InHand, Carried DEF Carries, Awake
<1>7. CASE /\ ~At("idle") /\ turn.at \in Serving /\ ~HasPayload(queue, Mine)
           /\ queue' = AfterGenerationError(queue)
  <2>1. /\ Only(queue, queue', Mine) /\ queue'[Mine].status \in {"pending", "failed", "uncertain"}
        /\ queue'[Mine].status = "pending" => ~HasPayload(queue', Mine)
        /\ queue[Mine].status = "triggered"
    BY <1>7, InHand, AfterGenerationErrorIs
  <2>2. Carries(Mine)
    BY <1>7, <2>1 DEF Carries, SameReply, MadeOfAll, Awake, HasPayload
  <2> QED BY <1>7, <2>1, <2>2, InHand, Carried
<1>8. CASE GenerationFails
  BY <1>7, <1>8 DEF GenerationFails, At, Serving, Save, IInv, Shape
<1>9. ASSUME NEW n \in 0..MaxParts, NEW b \in BOOLEAN, NEW d \in BOOLEAN, Reply(n, b, d)
      PROVE  AllCarry
  <2> DEFINE a == [parts |-> n, cursor |-> 0, rich |-> b, done |-> d]
  <2>1. ~At("idle") /\ turn.at \in Serving /\ queue' = Staged(queue, Mine, a) /\ ~HasPayload(queue, Mine)
    BY <1>9 DEF Reply, At, Serving, Save, IInv, Shape
  <2>2. a \in Replies /\ a.cursor = 0
    BY DEF Replies, QueueConstantsOK
  <2> HIDE DEF a
  <2>3. /\ Only(queue, queue', Mine) /\ queue'[Mine].delivery.reply = a
        /\ queue'[Mine].status = queue[Mine].status
        /\ queue'[Mine].delivery.of = queue[Mine].delivery.of /\ queue'[Mine].asked = queue[Mine].asked
    BY <2>1, <2>2, InHand, StagedIs
  <2>4. queue[Mine].status = "triggered" /\ Mine \in Items /\ Mine \in known
    BY <2>1, InHand
  <2>5. Carries(Mine)
    BY <2>1, <2>2, <2>3, <2>4 DEF Carries, MadeOfAll, Awake, HasPayload
  <2> QED BY <2>3, <2>4, <2>5, Carried
<1>10. CASE Learns
  <2> DEFINE q == AcknowledgePart(queue, Mine)
  <2>1. /\ ~At("idle") /\ turn.at \in Serving
        /\ turn.io = "part" => HasPayload(queue, Mine)
    BY <1>10, LearnsIs
  <2>2. /\ Only(queue, q, Mine) /\ q \in Queues /\ q[Mine].status = queue[Mine].status
        /\ q[Mine].delivery.reply = queue[Mine].delivery.reply
        /\ q[Mine].delivery.of = queue[Mine].delivery.of /\ q[Mine].asked = queue[Mine].asked
    BY <2>1, InHand, AcknowledgePartIs DEF Only
  <2>3. queue[Mine].status = "triggered" /\ Mine \in Items /\ Mine \in known
    BY <2>1, InHand
  <2>4. queue' = q \/ (turn.io = "part" /\ queue' = Plain(q))
    BY <1>10, LearnsFiles
  <2>5. turn.io = "part" => HasPayload(q, Mine)
    BY <2>1, <2>2 DEF HasPayload
  <2> HIDE DEF q
  <2>6. CASE queue' = q
    BY <2>2, <2>3, <2>6, Passed DEF Awake
  <2>7. CASE turn.io = "part" /\ queue' = Plain(q)
    <3>1. /\ Only(q, queue', Mine) /\ HasPayload(queue', Mine) /\ HasPayload(q, Mine)
          /\ queue'[Mine].delivery.reply.cursor = q[Mine].delivery.reply.cursor
          /\ queue'[Mine].delivery.reply.parts = q[Mine].delivery.reply.parts
          /\ queue'[Mine].delivery.of = q[Mine].delivery.of /\ queue'[Mine].asked = q[Mine].asked
          /\ queue'[Mine].status = q[Mine].status
      BY <2>2, <2>3, <2>5, <2>7, PlainIs
    <3>2. Only(queue, queue', Mine)
      BY <2>2, <3>1 DEF Only
    <3>3. Carries(Mine)
      BY <2>2, <2>3, <3>1 DEF Carries, SameReply, MadeOfAll, Awake, HasPayload
    <3> QED BY <2>3, <3>2, <3>3, Carried
  <2> QED BY <2>4, <2>6, <2>7
<1>11. CASE /\ ~At("idle") /\ turn.at \in Serving /\ HasPayload(queue, Mine)
            /\ queue' = FailKnown(queue, Mine) \/ queue' = Requeue(queue, Mine, 0)
  <2>1. 0 \in 0..MaxRetries
    BY DEF QueueConstantsOK
  <2>2. /\ Only(queue, queue', Mine) /\ queue'[Mine].status \in {"pending", "failed"}
        /\ queue'[Mine].status = "pending" =>
             /\ queue'[Mine].delivery.reply = queue[Mine].delivery.reply
             /\ queue'[Mine].delivery.of = queue[Mine].delivery.of
             /\ queue'[Mine].asked = queue[Mine].asked
        /\ queue[Mine].status = "triggered" /\ Mine \in Items
    BY <1>11, <2>1, InHand, FailKnownIs, RequeueIs
  <2>3. CASE queue'[Mine].status = "failed"
    BY <2>2, <2>3, Carried DEF Carries, Awake
  <2>4. CASE queue'[Mine].status = "pending"
    BY <2>2, <2>4, Passed DEF Awake
  <2> QED BY <2>2, <2>3, <2>4
<1>12. CASE AckLedger
  <2>1. \/ queue' = queue
        \/ /\ ~At("idle") /\ turn.at \in Serving
           /\ \/ ~HasPayload(queue, Mine) /\ queue' = AfterGenerationError(queue)
              \/ HasPayload(queue, Mine) /\ queue' = FailKnown(queue, Mine)
    BY <1>12 DEF AckLedger, Onward, At, Serving, Save, IInv, Shape, Sending
  <2> QED BY <2>1, <1>1, <1>7, <1>11
<1>14. CASE Complete
  <2>1. ~At("idle") /\ queue' = Commit(queue, Mine)
    BY <1>14 DEF Complete, At, Save
  <2>2. Only(queue, queue', Mine) /\ queue'[Mine].status = "sent"
    BY <2>1, InHand, CommitIs
  <2> QED BY <1>14, <2>1, <2>2, InHand, Carried DEF Carries, Awake
<1>15. CASE Interrupted \/ NoOutput
  <2>1. CASE queue' = FailUncertain(queue, Mine) /\ At("send")
    <3>1. ~At("idle") /\ turn.at \in Serving
      BY <2>1 DEF At, Serving
    <3>2. Only(queue, queue', Mine) /\ queue'[Mine].status = "uncertain" /\ Mine \in Items
      BY <2>1, <3>1, InHand, FailUncertainIs
    <3> QED BY <3>2, Carried DEF Carries, Awake
  <2>2. \/ queue' = queue
        \/ queue' = FailUncertain(queue, Mine) /\ At("send")
        \/ /\ ~At("idle") /\ turn.at \in Serving /\ HasPayload(queue, Mine)
           /\ queue' = FailKnown(queue, Mine) \/ queue' = Requeue(queue, Mine, 0)
    BY <1>15 DEF Interrupted, NoOutput, At, Serving, Save, IInv, Shape
  <2> QED BY <2>1, <2>2, <1>1, <1>11
<1>16. CASE \/ NothingToDo \/ (\E b \in BOOLEAN : ToolRuns(b)) \/ ToolCalls
            \/ NextPart \/ AlreadyFenced \/ FenceLedger \/ Returns \/ Finish
  BY <1>16, <1>1 DEF NothingToDo, ToolRuns, ToolCalls, NextPart, AlreadyFenced, FenceLedger,
       Returns, NotSent, CallEnds, Finish, Save
<1> QED BY <1>2, <1>3, <1>4, <1>5, <1>6, <1>8, <1>9, <1>10, <1>12, <1>14, <1>15, <1>16
        DEF Handler, Learns, Returns

LEMMA CarryStep ==
  ASSUME QueueConstantsOK, DeliveryConstantsOK, IInv, [Next]_vars, ~Crash, ~(Accepted /\ turn.io = "part")
  PROVE  AllCarry
<1>1. CASE Arrival \/ (\E i \in Items : Tick(i) \/ Event(i)) \/ BeginWorkMode
  BY <1>1, OthersCarry
<1>2. CASE Handler /\ ~BeginWorkMode
  BY <1>2, HandlerCarries
<1>3. CASE OtherTurnBegins \/ OtherTurnEnds \/ RivalSpeaks \/ RivalEnds \/ LeaseLapses \/ UNCHANGED vars
  BY <1>3 DEF OtherTurnBegins, OtherTurnEnds, RivalSpeaks, RivalEnds, LeaseLapses, memory, vars,
       AllCarry, Carries, SameReply
<1> QED BY <1>1, <1>2, <1>3 DEF Next

(* The platform shows a part and says so: the cursor moves along.          *)
LEMMA PartAccepted ==
  ASSUME QueueConstantsOK, DeliveryConstantsOK, IInv, Accepted, turn.io = "part"
  PROVE  /\ Mine \in Items /\ queue[Mine].status = "triggered" /\ HasPayload(queue, Mine) /\ PartsLeft
         /\ Only(queue, queue', Mine) /\ queue'[Mine].status = "triggered" /\ HasPayload(queue', Mine)
         /\ queue'[Mine].delivery.reply.cursor = Answer.cursor + 1
         /\ queue'[Mine].delivery.reply.parts = Answer.parts
         /\ queue'[Mine].delivery.of = queue[Mine].delivery.of /\ queue'[Mine].asked = queue[Mine].asked
         /\ shown' = [shown EXCEPT ![Mine] = Append(@, Answer.cursor + 1)]
         /\ disk' = Snapshot(queue')
<1> DEFINE q == AcknowledgePart(queue, Mine)
<1>1. ~At("idle") /\ turn.at \in Serving /\ At("air")
  BY DEF Accepted, At, Serving
<1>2. Mine \in Items /\ queue[Mine].status = "triggered" /\ queue \in Queues
  BY <1>1, InHand
<1>3. HasPayload(queue, Mine) /\ PartsLeft
  BY <1>1 DEF IInv, Shape, At, Sending
<1>4. /\ Only(queue, q, Mine) /\ q \in Queues /\ q[Mine].status = "triggered"
      /\ q[Mine].delivery.reply = queue[Mine].delivery.reply
      /\ q[Mine].delivery.of = queue[Mine].delivery.of /\ q[Mine].asked = queue[Mine].asked
  BY <1>2, AcknowledgePartIs DEF Only
<1>5. /\ queue' = Further(q) /\ disk' = Snapshot(queue')
      /\ shown' = [shown EXCEPT ![Mine] = Append(@, Answer.cursor + 1)]
  BY DEF Accepted, Acked, Save, Further, Show, PartNo
<1> HIDE DEF q
<1>6. HasPayload(q, Mine) /\ q[Mine].delivery.reply.cursor < q[Mine].delivery.reply.parts
  BY <1>3, <1>4 DEF HasPayload, PartsLeft, Answer
<1>7. /\ Only(q, queue', Mine) /\ queue'[Mine].status = "triggered" /\ HasPayload(queue', Mine)
      /\ queue'[Mine].delivery.reply.cursor = q[Mine].delivery.reply.cursor + 1
      /\ queue'[Mine].delivery.reply.parts = q[Mine].delivery.reply.parts
      /\ queue'[Mine].delivery.of = q[Mine].delivery.of /\ queue'[Mine].asked = q[Mine].asked
  BY <1>2, <1>4, <1>5, <1>6, FurtherIs
<1>8. Only(queue, queue', Mine)
  BY <1>4, <1>7 DEF Only
<1> QED BY <1>2, <1>3, <1>4, <1>5, <1>7, <1>8 DEF Answer

(* What one more showing does to the parts of an item.                     *)
InOrder(i) ==
  \A n \in 1..Len(shown[i]) :
    shown[i][n] > 0 => PartsAmong(i, n - 1) = 1..(shown[i][n] - 1)

LEMMA ShownOnceMore ==
  ASSUME NEW i \in Items, shown[i] \in Seq(0..MaxParts), NEW x \in 0..MaxParts, MaxParts \in Nat,
         shown'[i] = Append(shown[i], x)
  PROVE  /\ PartsShown(i)' = PartsShown(i) \cup ({x} \ {0})
         /\ InOrder(i) /\ (x = 0 \/ PartsShown(i) = 1..(x - 1)) => InOrder(i)'
<1> DEFINE l == Len(shown[i])
<1>1. /\ l \in Nat /\ Len(shown'[i]) = l + 1 /\ shown'[i][l + 1] = x
      /\ \A n \in 1..l : shown'[i][n] = shown[i][n]
  BY AppendProperties
<1> HIDE DEF l
<1>2. ASSUME NEW n \in 0..l PROVE PartsAmong(i, n)' = PartsAmong(i, n)
  BY <1>1, <1>2 DEF PartsAmong
<1>3. ASSUME NEW y
      PROVE  (\E m \in 1..(l + 1) : shown'[i][m] = y) <=> y = x \/ \E m \in 1..l : shown[i][m] = y
  <2>1. l + 1 \in 1..(l + 1) /\ \A m \in 1..(l + 1) : m = l + 1 \/ m \in 1..l
    BY <1>1
  <2>2. \A m \in 1..l : m \in 1..(l + 1)
    BY <1>1
  <2> QED BY <1>1, <2>1, <2>2
<1>4. PartsShown(i)' = {shown'[i][m] : m \in 1..(l + 1)} \ {0} /\ PartsShown(i) = {shown[i][m] : m \in 1..l} \ {0}
  BY <1>1 DEF PartsShown, PartsAmong, l
<1>5. PartsShown(i)' = PartsShown(i) \cup ({x} \ {0})
  BY <1>3, <1>4
<1>6. ASSUME InOrder(i), x = 0 \/ PartsShown(i) = 1..(x - 1) PROVE InOrder(i)'
  <2> SUFFICES ASSUME NEW n \in 1..(l + 1), shown'[i][n] > 0
               PROVE  PartsAmong(i, n - 1)' = 1..(shown'[i][n] - 1)
    BY <1>1 DEF InOrder
  <2>1. n - 1 \in 0..l /\ PartsAmong(i, n - 1)' = PartsAmong(i, n - 1)
    BY <1>1, <1>2
  <2>2. CASE n = l + 1
    <3>1. shown'[i][n] = x /\ n - 1 = l /\ x # 0
      BY <1>1, <2>2
    <3> QED BY <1>6, <2>1, <3>1 DEF PartsShown, l
  <2>3. CASE n \in 1..l
    BY <1>1, <1>6, <2>1, <2>3 DEF InOrder, l
  <2> QED BY <1>1, <2>2, <2>3
<1> QED BY <1>5, <1>6

(* An entry that a restart queues again was waiting or being served.       *)
LEMMA RestoredPending ==
  ASSUME NEW e \in Entries, Filed(e), e.status \in Gone => e = NoEntry
  PROVE  /\ RestoredEntry(e).status = "pending" => Awake(e)
         /\ RestoredEntry(e).delivery.reply = e.delivery.reply
         /\ RestoredEntry(e).delivery.of = e.delivery.of /\ RestoredEntry(e).asked = e.asked
<1>1. e.delivery \in Deliveries /\ e.status \in {"pending"} \cup InFlight \cup Gone
  BY EntryFields
<1>2. CASE e.delivery.state = "none"
  <2>1. RestoredEntry(e) = [e EXCEPT !.status = IF e.status = "triggered" THEN "uncertain" ELSE e.status]
    BY <1>2 DEF RestoredEntry, Entries
  <2> QED BY <2>1 DEF Awake, Entries
<1>3. CASE e.delivery.state # "none" /\ Unproven(e.delivery)
  <2>1. RestoredEntry(e) = [e EXCEPT !.status = "uncertain", !.delivery = [e.delivery EXCEPT !.state = "uncertain"]]
    BY <1>3 DEF RestoredEntry, Entries
  <2>2. [e.delivery EXCEPT !.state = "uncertain"].reply = e.delivery.reply
    BY <1>1, Restated
  <2>3. [e.delivery EXCEPT !.state = "uncertain"].of = e.delivery.of
    BY <1>1, Restated
  <2> QED BY <2>1, <2>2, <2>3 DEF Entries
<1>4. CASE e.delivery.state # "none" /\ ~Unproven(e.delivery)
  <2>1. RestoredEntry(e) = [e EXCEPT !.status = IF e.delivery.state \in {"uncertain", "failed"} THEN e.delivery.state ELSE "pending"]
    BY <1>4 DEF RestoredEntry, Entries
  <2>2. e # NoEntry /\ e.status \notin Gone
    BY <1>4 DEF NoEntry, NoDelivery
  <2>3. RestoredEntry(e).status = "pending" => e.delivery.state \notin {"uncertain", "failed", "none"}
    BY <1>4, <2>1 DEF Entries
  <2> QED BY <1>1, <2>1, <2>2, <2>3 DEF Awake, InFlight, Filed, Entries
<1> QED BY <1>2, <1>3, <1>4

(* What is barred stays barred: the outcome is the handler's to report, and *)
(* the ledger gives nobody a turn for it.                                  *)
LEMMA BarredStays ==
  ASSUME QueueConstantsOK, DeliveryConstantsOK, IInv, [Next]_vars, NEW i \in Items, Barred(i)
  PROVE  Barred(i)'
<1>1. LedgerTyped /\ turn \in Turns
  BY TypeParts DEF IInv
<1>2. CASE \E j \in Items : Claim(j)
  <2>1. PICK j \in Items : Claim(j)
    BY <1>2
  <2>2. fate[j] = "open" /\ turn'.item = j /\ fate'[i] = fate[i]
    BY <1>1, <2>1, GiveIs DEF Claim, Ledger!Give, Resting
  <2> QED BY <2>2 DEF Barred, Barring, Mine
<1>3. CASE Crash
  BY <1>3 DEF Crash, Restarted, Resting, ledger, Barred, Mine, DeliveryConstantsOK
<1>4. CASE Finish
  <2>1. turn'.item = NoItem /\ ~At("idle") /\ Mine \in Items
    BY <1>4, InHand DEF Finish, Resting, At
  <2>2. turn.out \in {"open", "sent", "uncertain"}
    BY <1>4 DEF Finish, IInv, Closed
  <2>3. fate'[i] = fate[i]
    <3>1. CASE speaker[Chat] = Mine /\ Ledger!Close(Chat, turn.out)
      BY <1>1, <2>2, <3>1, CloseIs DEF Barred
    <3>2. CASE UNCHANGED ledger
      BY <3>2 DEF ledger
    <3> QED BY <1>4, <3>1, <3>2 DEF Finish
  <2> QED BY <2>1, <2>3 DEF Barred, Mine, DeliveryConstantsOK
<1>5. CASE OtherTurnBegins \/ OtherTurnEnds \/ RivalSpeaks \/ RivalEnds \/ LeaseLapses
  <2>1. turn' = turn
    BY <1>5 DEF OtherTurnBegins, OtherTurnEnds, RivalSpeaks, RivalEnds, LeaseLapses, memory
  <2>2. CASE OtherTurnBegins \/ OtherTurnEnds
    BY <2>1, <2>2 DEF OtherTurnBegins, OtherTurnEnds, ledger, Barred, Mine
  <2>3. CASE RivalSpeaks
    BY <1>1, <2>1, <2>3, GiveIs DEF RivalSpeaks, Barred, Mine
  <2>4. CASE RivalEnds
    <3>1. fate'[i] = fate[i]
      BY <1>1, <2>4, CloseIs DEF RivalEnds, DeliveryConstantsOK
    <3> QED BY <2>1, <3>1 DEF Barred, Mine
  <2>5. CASE LeaseLapses
    <3>1. fate'[i] = fate[i] \/ fate'[i] = "uncertain"
      BY <1>1, <2>5, ExpireIs DEF LeaseLapses
    <3> QED BY <2>1, <3>1 DEF Barred, Barring, Mine
  <2> QED BY <1>5, <2>2, <2>3, <2>4, <2>5
<1>6. CASE Arrival \/ (\E j \in Items : Tick(j) \/ TurnedAway(j) \/ Deferred(j) \/ Settled(j)) \/ UNCHANGED vars
  BY <1>6 DEF Arrival, Enqueue, MergeIncoming, SaveGroup, Tick, TurnedAway, Deferred, Settled,
       ledger, vars, Barred, Mine
<1>7. CASE Handler /\ ~Finish
  <2>1. turn'.item = Mine
    BY <1>1, <1>7 DEF Handler, TakeReply, Generate, Stale, NothingToDo, FenceEffect, BeginWorkMode,
         ToolRuns, ToolCalls, Unconfirmed, CallEnds, Reply, GenerationFails, NextPart,
         AlreadyFenced, FenceLedger, NotSent, FenceQueue,
         Accepted, Rejected, AckLedger, RichFallback, Interrupted, Complete, NoOutput, Acked, Onward,
         Resume, Move, Report, Turns, Mine
  <2>2. CASE FenceLedger
    <3>1. Mine \in Items
      BY <2>2, InHand DEF FenceLedger, At
    <3>2. fate'[i] = fate[i]
      BY <1>1, <2>2, <3>1, FlyIs DEF FenceLedger, Barred
    <3> QED BY <2>1, <3>2 DEF Barred, Mine
  <2>3. CASE AckLedger
    <3>1. Mine \in Items
      BY <2>3, InHand DEF AckLedger, At
    <3>2. fate'[i] = fate[i]
      <4>1. CASE Ledger!Land(Mine)
        BY <1>1, <3>1, <4>1, LandIs DEF Barred
      <4>2. CASE UNCHANGED ledger
        BY <4>2 DEF ledger
      <4> QED BY <2>3, <4>1, <4>2 DEF AckLedger
    <3> QED BY <2>1, <3>2 DEF Barred, Mine
  <2>4. CASE ~FenceLedger /\ ~AckLedger
    <3>1. UNCHANGED ledger
      BY <1>7, <2>4 DEF Handler, TakeReply, Generate, Stale, NothingToDo, FenceEffect, BeginWorkMode,
           ToolRuns, ToolCalls, Unconfirmed, CallEnds, Reply, GenerationFails, NextPart,
           AlreadyFenced, NotSent, FenceQueue,
           Accepted, Rejected, RichFallback, Interrupted, Complete, NoOutput, ledger
    <3> QED BY <2>1, <3>1 DEF ledger, Barred, Mine
  <2> QED BY <2>2, <2>3, <2>4
<1> QED BY <1>2, <1>3, <1>4, <1>5, <1>6, <1>7 DEF Next, Event

(* A step that is not an accepted part shows no part of an item that can   *)
(* still be answered, now or after a restart.                              *)
Discreet(i) ==
  \/ PartsShown(i)' = PartsShown(i)
  \/ ~Awake(queue'[i]) /\ RestoredEntry(disk'[i]).status # "pending"
  \/ Barred(i)'

(* What a showing can be: nothing, a tool's effect or a partial reply, or  *)
(* the part in hand.                                                       *)
OverAndDone(i) == (~Awake(queue[i]) /\ RestoredEntry(disk[i]).status # "pending") \/ Barred(i)

LEMMA ShowingIs ==
  ASSUME QueueConstantsOK, DeliveryConstantsOK, IInv, IInv', [Next]_vars, NEW i \in Items
  PROVE  \/ shown'[i] = shown[i]
         \/ i = Mine /\ shown'[i] = Append(shown[i], 0)
         \/ /\ i = Mine /\ At("air") /\ turn.io = "part" /\ shown'[i] = Append(shown[i], Answer.cursor + 1)
            /\ Accepted \/ OverAndDone(i)'
<1>1. shown \in [Items -> Seq(0..MaxParts)] /\ queue \in Queues
  BY TypeParts DEF IInv, RestTyped, QueueTyped
<1>2. ASSUME NEW x, shown' = [shown EXCEPT ![Mine] = Append(@, x)]
      PROVE  shown'[i] = shown[i] \/ (i = Mine /\ shown'[i] = Append(shown[i], x))
  BY <1>1, <1>2
<1>3. CASE shown' = shown
  BY <1>3
<1>4. CASE \/ (\E b \in BOOLEAN : ToolRuns(b))
           \/ At("tool") /\ shown' = [shown EXCEPT ![Mine] = Append(@, 0)]
  BY <1>4, <1>2, <1>3 DEF ToolRuns
<1>5. ASSUME At("air"), Show, turn.io # "part" \/ Accepted \/ (i = Mine => OverAndDone(i)')
      PROVE  \/ shown'[i] = shown[i]
             \/ i = Mine /\ shown'[i] = Append(shown[i], 0)
             \/ /\ i = Mine /\ At("air") /\ turn.io = "part" /\ shown'[i] = Append(shown[i], Answer.cursor + 1)
                /\ Accepted \/ OverAndDone(i)'
  <2>1. CASE turn.io # "part"
    BY <1>2, <1>5, <2>1 DEF Show, PartNo
  <2>2. CASE turn.io = "part"
    BY <1>2, <1>5, <2>2 DEF Show, PartNo
  <2> QED BY <2>1, <2>2
<1>6. CASE Accepted
  BY <1>5, <1>6 DEF Accepted
<1>7. ASSUME NEW b \in BOOLEAN, Unconfirmed(b), shown' # shown
      PROVE  At("air") /\ Show /\ (i = Mine => OverAndDone(i)')
  <2>1. ~At("idle") /\ turn.at \in Serving /\ queue' = FailUncertain(queue, Mine) /\ At("air") /\ Show
    BY <1>7 DEF Unconfirmed, At, Serving, Save
  <2>2. Mine \in Items /\ queue'[Mine].status = "uncertain"
    BY <2>1, InHand, FailUncertainIs
  <2>3. RestoredEntry(disk'[Mine]).status = "uncertain"
    BY <2>2 DEF IInv, FileOK, EntryOK
  <2> QED BY <2>1, <2>2, <2>3 DEF Awake, OverAndDone
<1>8. ASSUME Crash, shown' # shown
      PROVE  \/ At("tool") /\ shown' = [shown EXCEPT ![Mine] = Append(@, 0)]
             \/ At("air") /\ Show /\ (i = Mine => OverAndDone(i)')
  <2>1. At("air") => fate[Mine] \in Barring
    BY FencedOnFile DEF EffectsAreFenced, Barring
  <2>2. turn'.item = NoItem /\ fate' = fate
    BY <1>8 DEF Crash, Restarted, Resting, ledger
  <2>3. At("air") /\ i = Mine => Barred(i)'
    BY <2>1, <2>2 DEF Barred, Mine, DeliveryConstantsOK
  <2> QED BY <1>8, <2>3 DEF Crash, OverAndDone
<1>9. CASE Arrival \/ (\E j \in Items : Tick(j) \/ Event(j)) \/ UNCHANGED vars
  BY <1>9, <1>3 DEF Arrival, Enqueue, MergeIncoming, SaveGroup, Tick, Event, TurnedAway, Deferred,
       Settled, Claim, vars
<1>10. CASE OtherTurnBegins \/ OtherTurnEnds \/ RivalSpeaks \/ RivalEnds \/ LeaseLapses
  BY <1>10, <1>3 DEF OtherTurnBegins, OtherTurnEnds, RivalSpeaks, RivalEnds, LeaseLapses
<1>11. CASE \E b \in BOOLEAN : CallEnds(b)
  <2>1. shown' = shown \/ (At("air") /\ Show /\ turn.io # "part")
    BY <1>11 DEF CallEnds
  <2> QED BY <2>1, <1>3, <1>5
<1>12. CASE Handler /\ ~((\E b \in BOOLEAN : ToolRuns(b) \/ Unconfirmed(b) \/ CallEnds(b)) \/ Accepted)
  BY <1>12, <1>3 DEF Handler, TakeReply, Generate, Stale, NothingToDo, FenceEffect, BeginWorkMode,
       ToolCalls, AlreadyFenced, Reply, GenerationFails, NextPart, FenceLedger, NotSent, FenceQueue,
       Rejected, AckLedger, RichFallback, Interrupted, Complete, NoOutput, Finish
<1> QED BY <1>3, <1>4, <1>5, <1>6, <1>7, <1>8, <1>9, <1>10, <1>11, <1>12 DEF Next

LEMMA NotShown ==
  ASSUME NEW i, shown'[i] = shown[i]
  PROVE  PartsShown(i)' = PartsShown(i) /\ (InOrder(i) => InOrder(i)')
<1>1. ASSUME NEW n PROVE PartsAmong(i, n)' = PartsAmong(i, n)
  BY DEF PartsAmong
<1>2. PartsShown(i)' = {shown'[i][m] : m \in 1..Len(shown'[i])} \ {0}
  BY DEF PartsShown, PartsAmong
<1>3. PartsShown(i)' = PartsShown(i)
  BY <1>2 DEF PartsShown, PartsAmong
<1> QED BY <1>1, <1>3 DEF InOrder

LEMMA PartsTyped ==
  ASSUME QueueConstantsOK, IInv, At("air"), turn.io = "part"
  PROVE  /\ Answer.cursor \in Nat /\ Answer.cursor + 1 \in 0..MaxParts /\ MaxParts \in Nat
         /\ HasPayload(queue, Mine) /\ Awake(queue[Mine])
<1>1. ~At("idle") /\ turn.at \in Serving
  BY DEF At, Serving
<1>2. /\ Mine \in Items /\ queue[Mine].status = "triggered" /\ queue[Mine] \in Entries
      /\ HasPayload(queue, Mine) /\ PartsLeft
  BY <1>1, InHand DEF Queues, IInv, Shape, At, Sending
<1>3. Answer \in Replies
  BY <1>2, EntryFields, DeliveryFields DEF HasPayload, Answer
<1>4. Answer.cursor \in 0..MaxParts /\ Answer.parts \in 0..MaxParts /\ MaxParts \in Nat
  BY <1>3 DEF Replies, QueueConstantsOK
<1> QED BY <1>2, <1>4 DEF PartsLeft, Awake

(* Order: what is shown next is the part after those already shown.        *)
LEMMA OrderStep ==
  ASSUME QueueConstantsOK, DeliveryConstantsOK, IInv, IInv', Tallied, [Next]_vars, PartsOnceInOrder
  PROVE  PartsOnceInOrder'
<1> SUFFICES ASSUME NEW i \in Items PROVE InOrder(i)'
  BY DEF PartsOnceInOrder, InOrder
<1>1. InOrder(i) /\ shown[i] \in Seq(0..MaxParts) /\ MaxParts \in Nat
  BY TypeParts DEF PartsOnceInOrder, InOrder, IInv, RestTyped, QueueConstantsOK
<1>2. CASE shown'[i] = shown[i]
  BY <1>1, <1>2, NotShown
<1>3. CASE shown'[i] = Append(shown[i], 0)
  BY <1>1, <1>3, ShownOnceMore
<1>4. CASE i = Mine /\ At("air") /\ turn.io = "part" /\ shown'[i] = Append(shown[i], Answer.cursor + 1)
  <2>1. /\ Answer.cursor \in Nat /\ Answer.cursor + 1 \in 0..MaxParts
        /\ HasPayload(queue, Mine) /\ Awake(queue[Mine])
    BY <1>4, PartsTyped
  <2>2. PartsShown(i) = 1..Answer.cursor
    BY <1>4, <2>1 DEF Tallied, TallyOf, Barred, Counted, HasPayload, Answer
  <2>3. (Answer.cursor + 1) - 1 = Answer.cursor
    BY <2>1
  <2> QED BY <1>1, <1>4, <2>1, <2>2, <2>3, ShownOnceMore
<1> QED BY <1>2, <1>3, <1>4, ShowingIs

LEMMA DiscreetStep ==
  ASSUME QueueConstantsOK, DeliveryConstantsOK, IInv, IInv', [Next]_vars, ~(Accepted /\ turn.io = "part"),
         NEW i \in Items
  PROVE  Discreet(i)
<1>1. shown[i] \in Seq(0..MaxParts) /\ MaxParts \in Nat /\ 0 \in 0..MaxParts
  BY TypeParts DEF IInv, RestTyped, QueueConstantsOK
<1>2. CASE shown'[i] = shown[i]
  BY <1>2, NotShown DEF Discreet
<1>3. CASE shown'[i] = Append(shown[i], 0)
  <2>1. PartsShown(i)' = PartsShown(i) \cup ({0} \ {0})
    BY <1>1, <1>3, ShownOnceMore
  <2> QED BY <2>1 DEF Discreet
<1> QED BY <1>2, <1>3, ShowingIs DEF Discreet, OverAndDone

(* An entry that carries on keeps its count.                               *)
LEMMA CarriedCount ==
  ASSUME QueueConstantsOK, DeliveryConstantsOK, IInv, Tallied, NothingEscaped, [Next]_vars,
         NEW i \in Items, Carries(i), Awake(queue'[i]), Discreet(i)
  PROVE  TallyOf(i, queue[i])'
<1>1. CASE i \notin known /\ queue'[i].delivery.reply = NoReply /\ MadeOfAll(queue'[i])
  <2>1. shown[i] = <<>>
    BY <1>1 DEF NothingEscaped, Unseen
  <2>2. PartsShown(i) = {}
    BY <2>1 DEF PartsShown, PartsAmong
  <2> QED BY <1>1, <2>2 DEF Counted, MadeOfAll, TallyOf, Discreet
<1>2. CASE /\ Awake(queue[i]) /\ (MadeOfAll(queue[i]) => MadeOfAll(queue'[i]))
           /\ \/ SameReply(queue[i], queue'[i])
              \/ /\ queue[i].delivery.reply = NoReply
                 /\ queue'[i].delivery.reply \in Replies /\ queue'[i].delivery.reply.cursor = 0
  <2>1. /\ (Counted(i, queue[i]) \/ Barred(i)) /\ MadeOfAll(queue'[i])
        /\ PartsShown(i)' = PartsShown(i) \/ Barred(i)'
    BY <1>2 DEF Tallied, TallyOf, Discreet
  <2>2. CASE Barred(i) \/ Barred(i)'
    BY <2>1, <2>2, BarredStays DEF TallyOf, MadeOfAll
  <2>3. CASE Counted(i, queue[i]) /\ PartsShown(i)' = PartsShown(i) /\ SameReply(queue[i], queue'[i])
    BY <2>1, <2>3 DEF Counted, SameReply, MadeOfAll, TallyOf
  <2>4. CASE /\ Counted(i, queue[i]) /\ PartsShown(i)' = PartsShown(i)
             /\ queue[i].delivery.reply = NoReply
             /\ queue'[i].delivery.reply \in Replies /\ queue'[i].delivery.reply.cursor = 0
    <3>1. PartsShown(i)' = {} /\ queue'[i].delivery.reply # NoReply
      BY <2>4 DEF Counted, QueueConstantsOK
    <3>2. 0 <= queue'[i].delivery.reply.parts /\ 1..0 = {}
      BY <2>4 DEF Replies, QueueConstantsOK
    <3>3. /\ PartsShown(i)' = 1..queue'[i].delivery.reply.cursor
          /\ queue'[i].delivery.reply.cursor <= queue'[i].delivery.reply.parts
      BY <2>4, <3>1, <3>2
    <3> QED BY <2>1, <3>1, <3>3 DEF Counted, MadeOfAll, TallyOf
  <2> QED BY <1>2, <2>1, <2>2, <2>3, <2>4
<1> QED BY <1>1, <1>2 DEF Carries

(* Given the count in memory after a step, the file's follows.             *)
LEMMA FileCounted ==
  ASSUME QueueConstantsOK, IInv', NEW i \in Items, disk' = Snapshot(queue'),
         Awake(queue'[i]) => TallyOf(i, queue[i])',
         RestoredEntry(disk'[i]).status = "pending"
  PROVE  TallyOf(i, disk[i])'
<1>1. queue' \in Queues /\ disk' \in Queues /\ EntryOK(i)'
  BY DEF IInv, TypeOK, Queues, FileOK
<1>2. disk'[i] \in Entries /\ Filed(disk'[i]) /\ (disk'[i].status \in Gone => disk'[i] = NoEntry)
  BY <1>1 DEF EntryOK, Queues
<1>3. Awake(disk'[i])
  BY <1>2, RestoredPending
<1>4. disk'[i] = queue'[i]
  BY <1>1, <1>3, SnapshotIs DEF Awake, NoEntry
<1> QED BY <1>3, <1>4

(* The file's count outlives a step that does not write it.                *)
LEMMA FileKeeps ==
  ASSUME QueueConstantsOK, DeliveryConstantsOK, IInv, Tallied, [Next]_vars, NEW i \in Items,
         disk' = disk, Discreet(i), RestoredEntry(disk'[i]).status = "pending"
  PROVE  TallyOf(i, disk[i])'
<1>1. MadeOfAll(disk[i]) /\ (Counted(i, disk[i]) \/ Barred(i))
  BY DEF Tallied, TallyOf
<1>2. PartsShown(i)' = PartsShown(i) \/ Barred(i)'
  BY DEF Discreet
<1>3. CASE Barred(i) \/ Barred(i)'
  BY <1>1, <1>3, BarredStays DEF TallyOf, MadeOfAll
<1>4. CASE Counted(i, disk[i]) /\ PartsShown(i)' = PartsShown(i)
  BY <1>1, <1>4 DEF TallyOf, MadeOfAll, Counted
<1> QED BY <1>1, <1>2, <1>3, <1>4

LEMMA TallyStep ==
  ASSUME QueueConstantsOK, DeliveryConstantsOK, IInv, IInv', NothingEscaped, Tallied, [Next]_vars
  PROVE  Tallied'
<1> SUFFICES ASSUME NEW i \in Items
             PROVE  /\ Awake(queue'[i]) => TallyOf(i, queue[i])'
                    /\ RestoredEntry(disk'[i]).status = "pending" => TallyOf(i, disk[i])'
  BY DEF Tallied
<1>1. CASE Crash
  <2>1. queue'[i] = RestoredEntry(disk[i]) /\ disk' = disk
    BY <1>1 DEF Crash, Restarted, Restore
  <2>2. disk[i] \in Entries /\ Filed(disk[i]) /\ (disk[i].status \in Gone => disk[i] = NoEntry)
    BY DEF IInv, TypeOK, FileOK, EntryOK
  <2>3. Awake(queue'[i]) => RestoredEntry(disk[i]).status = "pending"
    BY <2>1, <2>2, RestoredEntryIs DEF Awake
  <2>4. ~(Accepted /\ turn.io = "part")
    <3>1. Crash => turn'.at = "idle"
      BY DEF Crash, Restarted, Resting
    <3>2. Accepted => turn'.at = "acked"
      BY TypeParts DEF Accepted, Acked, IInv, Turns
    <3> QED BY <1>1, <3>1, <3>2
  <2>5. Discreet(i)
    BY <2>4, DiscreetStep
  <2>6. RestoredEntry(disk'[i]).status = "pending" => TallyOf(i, disk[i])'
    BY <2>1, <2>5, FileKeeps
  <2>7. ASSUME Awake(queue'[i]) PROVE TallyOf(i, queue[i])'
    <3>1. TallyOf(i, disk[i])' /\ disk'[i] = disk[i]
      BY <2>1, <2>3, <2>6, <2>7
    <3>2. /\ queue'[i].delivery.reply = disk[i].delivery.reply
          /\ queue'[i].delivery.of = disk[i].delivery.of /\ queue'[i].asked = disk[i].asked
          /\ queue'[i].status # "triggered"
      BY <2>1, <2>2, RestoredPending, RestoredEntryIs
    <3> QED BY <3>1, <3>2 DEF TallyOf, Counted, MadeOfAll
  <2> QED BY <2>6, <2>7
<1>2. CASE ~Crash /\ ~(Accepted /\ turn.io = "part")
  <2>1. Carries(i) /\ Discreet(i)
    BY <1>2, CarryStep, DiscreetStep DEF AllCarry
  <2>2. Awake(queue'[i]) => TallyOf(i, queue[i])'
    BY <2>1, CarriedCount
  <2>3. disk' = disk \/ disk' = Snapshot(queue')
    BY <1>2, FileStep
  <2>4. CASE disk' = disk
    BY <2>1, <2>2, <2>4, FileKeeps
  <2>5. CASE disk' = Snapshot(queue')
    BY <2>2, <2>5, FileCounted
  <2> QED BY <2>3, <2>4, <2>5
<1>3. CASE Accepted /\ turn.io = "part"
  <2>1. /\ Mine \in Items /\ queue[Mine].status = "triggered" /\ HasPayload(queue, Mine) /\ PartsLeft
        /\ Only(queue, queue', Mine) /\ queue'[Mine].status = "triggered" /\ HasPayload(queue', Mine)
        /\ queue'[Mine].delivery.reply.cursor = Answer.cursor + 1
        /\ queue'[Mine].delivery.reply.parts = Answer.parts
        /\ queue'[Mine].delivery.of = queue[Mine].delivery.of /\ queue'[Mine].asked = queue[Mine].asked
        /\ shown' = [shown EXCEPT ![Mine] = Append(@, Answer.cursor + 1)]
        /\ disk' = Snapshot(queue')
    BY <1>3, PartAccepted
  <2>2. shown \in [Items -> Seq(0..MaxParts)]
    BY TypeParts DEF IInv, RestTyped
  <2>3. ASSUME Awake(queue'[i]) PROVE TallyOf(i, queue[i])'
    <3>1. CASE i # Mine
      <4>1. shown'[i] = shown[i] /\ queue'[i] = queue[i]
        BY <2>1, <2>2, <3>1 DEF Only
      <4>2. MadeOfAll(queue[i]) /\ (Counted(i, queue[i]) \/ Barred(i))
        BY <2>3, <4>1 DEF Tallied, TallyOf
      <4>3. CASE Barred(i)
        BY <4>1, <4>2, <4>3, BarredStays DEF TallyOf, MadeOfAll
      <4>4. CASE Counted(i, queue[i])
        BY <4>1, <4>2, <4>4, NotShown DEF TallyOf, Counted, MadeOfAll
      <4> QED BY <4>2, <4>3, <4>4
    <3>2. CASE i = Mine
      <4>1. /\ Answer.cursor \in Nat /\ Answer.cursor + 1 \in 0..MaxParts /\ MaxParts \in Nat
            /\ Awake(queue[Mine]) /\ At("air")
        BY <1>3, PartsTyped DEF Accepted
      <4>2. PartsShown(Mine) = 1..Answer.cursor /\ MadeOfAll(queue[Mine])
        BY <2>1, <4>1 DEF Tallied, TallyOf, Barred, Counted, HasPayload, Answer
      <4>3. shown'[Mine] = Append(shown[Mine], Answer.cursor + 1) /\ shown[Mine] \in Seq(0..MaxParts)
        BY <2>1, <2>2
      <4>4. PartsShown(i)' = PartsShown(i) \cup ({Answer.cursor + 1} \ {0})
        BY <2>1, <3>2, <4>1, <4>3, ShownOnceMore
      <4>5. PartsShown(i)' = 1..(Answer.cursor + 1)
        BY <3>2, <4>1, <4>2, <4>4
      <4>6. Answer.parts \in Nat
        <5>1. Answer \in Replies
          BY <2>1, EntryFields, DeliveryFields DEF IInv, TypeOK, HasPayload, Answer
        <5> QED BY <5>1 DEF Replies
      <4>7. Answer.cursor + 1 <= Answer.parts
        BY <2>1, <4>1, <4>6 DEF PartsLeft
      <4> QED BY <2>1, <3>2, <4>2, <4>5, <4>7 DEF TallyOf, Counted, MadeOfAll, HasPayload
    <3> QED BY <3>1, <3>2
  <2> QED BY <2>1, <2>3, FileCounted
<1> QED BY <1>1, <1>2, <1>3

LEMMA NothingShownYet ==
  ASSUME QueueConstantsOK, Init
  PROVE  NothingEscaped /\ Tallied /\ PartsOnceInOrder
<1> SUFFICES ASSUME NEW i \in Items
             PROVE  /\ Unseen(i) /\ InOrder(i)
                    /\ Awake(queue[i]) => TallyOf(i, queue[i])
                    /\ RestoredEntry(disk[i]).status = "pending" => TallyOf(i, disk[i])
  BY DEF NothingEscaped, Tallied, PartsOnceInOrder, InOrder
<1>1. shown[i] = <<>> /\ queue[i] = NoEntry /\ disk[i] = NoEntry
  BY DEF Init
<1>2. InOrder(i)
  BY <1>1 DEF InOrder
<1>3. RestoredEntry(NoEntry).status = "none" /\ ~Awake(NoEntry)
  BY DEF RestoredEntry, NoEntry, NoDelivery, Awake
<1> QED BY <1>1, <1>2, <1>3 DEF Unseen, Taken, NoEntry, Awake

LEMMA Tally == Spec => [](NothingEscaped /\ Tallied /\ PartsOnceInOrder)
<1>1. Init => NothingEscaped /\ Tallied /\ PartsOnceInOrder
  BY NothingShownYet, QueueConstantsOK
<1>2. IInv /\ IInv' /\ NothingEscaped /\ Tallied /\ PartsOnceInOrder /\ [Next]_vars
        => NothingEscaped' /\ Tallied' /\ PartsOnceInOrder'
  BY EscapeStep, TallyStep, OrderStep, QueueConstantsOK, DeliveryConstantsOK
<1> QED BY <1>1, <1>2, Invariance, PTL DEF Spec

(* The parts of a reply reach the chat one after the other and never       *)
(* twice: the saved cursor, the two fences of start_delivery and restore() *)
(* together.                                                               *)
THEOREM PartsInOrder == Spec => []PartsOnceInOrder
BY Tally, PTL

(* complete() files as sent only what the chat has read to the last part,  *)
(* and only answers to every message of the item.                          *)
THEOREM SentWhole == Spec => SentIsWhole
<1>1. ASSUME IInv, IInv', Tallied, [Next]_vars, NEW i \in Items,
             queue'[i].status = "sent", queue[i].status # "sent"
      PROVE  /\ queue[i].delivery.of = queue[i].asked
             /\ PartsShown(i) = 1..queue[i].delivery.reply.parts
  <2>1. ~Crash
    <3>1. Crash => queue'[i] = RestoredEntry(disk[i]) /\ disk[i] \in Entries /\ EntryOK(i)
      BY <1>1 DEF Crash, Restarted, Restore, IInv, TypeOK, FileOK
    <3>2. Crash => (disk[i] = NoEntry => queue'[i] = NoEntry) /\ (disk[i] = NoEntry <=> queue'[i].status \in Gone)
      BY <3>1, RestoredEntryIs, QueueConstantsOK DEF EntryOK
    <3> QED BY <1>1, <3>2 DEF Gone, NoEntry
  <2>2. ~(Accepted /\ turn.io = "part")
    <3>1. Accepted /\ turn.io = "part" => (\A j \in Items : j # Mine => queue'[j] = queue[j]) /\ queue'[Mine].status = "triggered"
      BY <1>1, PartAccepted, QueueConstantsOK, DeliveryConstantsOK DEF Only
    <3> QED BY <1>1, <3>1
  <2>3. Complete /\ i = Mine
    BY <1>1, <2>1, <2>2, CarryStep, QueueConstantsOK, DeliveryConstantsOK DEF AllCarry, Carries
  <2>4. queue[i].status = "triggered" /\ HasPayload(queue, i) /\ ~PartsLeft
    <3>1. ~At("idle") /\ turn.at \in Serving /\ At("send") /\ ~PartsLeft
      BY <2>3 DEF Complete, At, Serving
    <3> QED BY <1>1, <2>3, <3>1, InHand DEF IInv, Shape
  <2>5. /\ PartsShown(i) = 1..Answer.cursor /\ Answer.cursor <= Answer.parts
        /\ queue[i].delivery.of = queue[i].asked
    BY <1>1, <2>3, <2>4 DEF Tallied, TallyOf, Barred, Counted, MadeOfAll, Awake, HasPayload, Answer
  <2>6. Answer.cursor \in Nat /\ Answer.parts \in Nat
    <3>1. Answer \in Replies
      BY <1>1, <2>3, <2>4, EntryFields, DeliveryFields DEF IInv, TypeOK, HasPayload, Answer
    <3> QED BY <3>1 DEF Replies
  <2>7. Answer.cursor = Answer.parts
    BY <2>4, <2>5, <2>6 DEF PartsLeft
  <2> QED BY <2>3, <2>5, <2>7 DEF Answer
<1>2. IInv /\ IInv' /\ Tallied /\ [Next]_vars =>
        [\A i \in Items :
           queue'[i].status = "sent" /\ queue[i].status # "sent"
           => /\ queue[i].delivery.of = queue[i].asked
              /\ PartsShown(i) = 1..queue[i].delivery.reply.parts]_vars
  BY <1>1
<1> QED BY <1>2, Tally, Invariance, PTL DEF Spec, SentIsWhole
=============================================================================
