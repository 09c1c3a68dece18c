--------------------------- MODULE GroupDispatcher ---------------------------
(***************************************************************************)
(* Cross-persona turn arbitration, sirius_pulse/core/group_dispatcher.py.  *)
(*                                                                         *)
(* Every persona worker is a process of its own; the workers share one     *)
(* SQLite file.  Each operation of GroupDispatcher is one BEGIN IMMEDIATE  *)
(* transaction and is one action here, the housekeeping it performs first  *)
(* (expiring overdue leases, pruning old rows) included.                   *)
(*                                                                         *)
(* Clocks are abstracted to the comparisons the code makes with them: a    *)
(* lease deadline has passed (lapsed), a collection window has closed      *)
(* (ripe), a cooldown is still running (cooling, settling), a worker was   *)
(* seen within the registry TTL (live).  The actions of Passage let any of *)
(* these become true at any time.                                          *)
(***************************************************************************)
EXTENDS Naturals, FiniteSets

CONSTANTS
  Workers,        \* worker_id of the persona workers
  Groups,         \* group_id
  Inbound,        \* event ids of platform messages, arbitrated by coordinate()
  Stable,         \* "delayed:..." and "reminder:..." ids, claimed by admit()
  GroupOf,        \* the group an event belongs to
  Peer,           \* the inbound messages written by another persona
  Mentions,       \* the workers whose account an inbound message @-mentions
  Names,          \* the workers whose name its text contains
  MaxPeerTurns,   \* max_peer_turns
  MaxLease,       \* bound: how many leases a behaviour may hand out
  NoWorker, NoEvent

Events == Inbound \cup Stable

ASSUME ConstantsOK ==
  /\ Inbound \cap Stable = {}
  /\ GroupOf \in [Events -> Groups]
  /\ Peer \subseteq Inbound
  /\ Mentions \in [Inbound -> SUBSET Workers]
  /\ Names \in [Inbound -> SUBSET Workers]
  /\ MaxPeerTurns \in Nat
  /\ MaxLease \in Nat
  /\ NoWorker \notin Workers
  /\ NoEvent \notin Events

VARIABLES
  row,        \* dispatcher_events: status, worker_id and lease_id of each event
  vote,       \* dispatcher_candidates: the strategy each worker submitted
  turn,       \* dispatcher_groups.active_*: the group's one active lease
  receipt,    \* dispatcher_delivery_receipts, the ledger that is never pruned
  live,       \* dispatcher_workers seen within registry_ttl_seconds
  peerTurns, required, loop,  \* dispatcher_groups: the peer conversation
  lapsed, ripe, cooling, settling, \* what the clock has reached
  nextLease,  \* the next fresh lease id (uuid4)
  held        \* the leases each worker process has in memory

ledger == <<row, vote, turn, receipt>>
talk == <<peerTurns, required, loop>>
clock == <<lapsed, ripe, cooling, settling>>
vars == <<row, vote, turn, receipt, live, peerTurns, required, loop,
          lapsed, ripe, cooling, settling, nextLease, held>>

Status == {"none", "collecting", "granted", "sending", "sent", "silent",
           "observed", "expired", "uncertain"}
Votes == {"immediate", "delayed", "silent"}
Active == {"granted", "sending"}
Leases == 1..MaxLease
NoLease == 0

NoRow == [status |-> "none", worker |-> NoWorker, lease |-> NoLease]
Idle == [lease |-> NoLease, worker |-> NoWorker, event |-> NoEvent]

Init ==
  /\ row = [e \in Events |-> NoRow]
  /\ vote = [e \in Inbound |-> [w \in Workers |-> "none"]]
  /\ turn = [g \in Groups |-> Idle]
  /\ receipt = [s \in Stable |-> "none"]
  /\ live = Workers
  /\ peerTurns = [g \in Groups |-> 0]
  /\ required = {}
  /\ loop = [g \in Groups |-> NoWorker]
  /\ lapsed = {} /\ ripe = {} /\ cooling = {} /\ settling = {}
  /\ nextLease = 1
  /\ held = [w \in Workers |-> {}]

-----------------------------------------------------------------------------
(* Expiry.  A transaction first retires the leases of G whose deadline has *)
(* passed: work that never reached the platform may be retried (expired),  *)
(* work that may have reached it may not (uncertain, with a receipt).      *)

(* The operators named Wrong... are slips the code could have made; each    *)
(* shows which property notices it.  Here: only leases still in somebody's  *)
(* memory expire.                                                          *)
WrongOverdue(G) ==
  {g \in G : g \in lapsed /\ \E w \in Workers : turn[g].lease \in held[w]}

Overdue(G) == {g \in G : turn[g] # Idle /\ g \in lapsed}

Retired(e, D) == \E g \in D : turn[g].event = e

(* The event is put up for arbitration again. *)
WrongReopened(D) ==
  [e \in Events |->
     IF Retired(e, D)
     THEN [row[e] EXCEPT !.status = IF @ = "sending" THEN "uncertain" ELSE "collecting"]
     ELSE row[e]]

RowAfter(D) ==
  [e \in Events |->
     IF Retired(e, D)
     THEN [row[e] EXCEPT !.status = IF @ = "sending" THEN "uncertain" ELSE "expired"]
     ELSE row[e]]

WrongTurnKept(D) == turn

TurnAfter(D) == [g \in Groups |-> IF g \in D THEN Idle ELSE turn[g]]

(* INSERT ... ON CONFLICT DO NOTHING: the first outcome of an id stays.    *)
Receipted(r, s, outcome) == IF r[s] = "none" THEN outcome ELSE r[s]

WrongReceiptLost(D) == receipt

ReceiptAfter(D) ==
  [s \in Stable |-> IF Retired(s, D) /\ row[s].status = "sending"
                    THEN Receipted(receipt, s, "uncertain") ELSE receipt[s]]

-----------------------------------------------------------------------------
(* The registry. *)

Register(w) ==
  /\ live' = live \cup {w}
  /\ UNCHANGED <<ledger, talk, clock, nextLease, held>>

(* A closing worker leaves its leases to expiry. *)
Close(w) ==
  /\ live' = live \ {w}
  /\ held' = [held EXCEPT ![w] = {}]
  /\ UNCHANGED <<ledger, talk, clock, nextLease>>

(* The process dies: its leases stay in the database, and so does its      *)
(* registration until the TTL runs out.                                    *)
Crash(w) ==
  /\ held' = [held EXCEPT ![w] = {}]
  /\ UNCHANGED <<ledger, live, talk, clock, nextLease>>

-----------------------------------------------------------------------------
(* coordinate(): a worker submits its candidate, then polls until somebody *)
(* has finalized the event.                                                *)

Submit(w, e, v) ==
  /\ live' = live \cup {w}
  /\ row' = [row EXCEPT ![e].status = IF @ = "none" THEN "collecting" ELSE @]
  /\ vote' = IF row[e].status \in {"none", "collecting"}
             THEN [vote EXCEPT ![e][w] = v] ELSE vote
  /\ UNCHANGED <<turn, receipt, talk, clock, nextLease, held>>

Voters(e) == {w \in Workers : vote[e][w] # "none"}
Eager(e) == {w \in Voters(e) : vote[e][w] # "silent"}

KnownTargets(e) == Mentions[e] \cap live

Addressed(e) ==
  \/ KnownTargets(e) # {}
  \/ Mentions[e] = {} /\ \E w \in Workers : Names[e] \cap Voters(e) = {w}

(* Peers may be drafted into a conversation although their own preview was *)
(* silent: the mentioned ones, the target of the open loop, or, when a     *)
(* follow-up is owed, anybody.                                             *)
Eligible(e) ==
  LET g == GroupOf[e]
      known == KnownTargets(e) IN
  IF e \notin Peer THEN {w \in Eager(e) : known = {} \/ w \in known}
  ELSE IF known # {} THEN known \cap Voters(e)
  ELSE IF loop[g] # NoWorker THEN Voters(e) \cap {loop[g]}
  ELSE IF g \in required THEN Voters(e)
  ELSE Eager(e)

Rank == [immediate |-> 0, delayed |-> 1, silent |-> 2]

(* The ranking puts the response strategy first; scores decide within it.  *)
Best(e, S) == {w \in S : \A v \in S : Rank[vote[e][w]] <= Rank[vote[e][v]]}

(* Everybody has voted, or the collection window has closed. *)
Collected(w, e) ==
  /\ row[e].status = "collecting"
  /\ vote[e][w] # "none"
  /\ \/ e \in ripe
     \/ Cardinality(Voters(e)) >= Cardinality(live \cup {w})

WrongFree(g, D) == g \in Groups

Free(g, D) == TurnAfter(D)[g] = Idle

WrongBusy(e) == turn[GroupOf[e]].event = e

Busy(e) == ~Free(GroupOf[e], Overdue({GroupOf[e]}))

InteractionExpected(e) ==
  KnownTargets(e) # {} \/ loop[GroupOf[e]] # NoWorker \/ GroupOf[e] \in required

(* _peer_gate: "" opens, otherwise the reason it is closed. *)
PeerGate(e) ==
  LET g == GroupOf[e] IN
  IF MaxPeerTurns = 0 THEN "peer_disabled"
  ELSE IF g \in settling THEN "peer_waiting_for_humans"
  ELSE IF peerTurns[g] >= MaxPeerTurns THEN "peer_budget_exhausted"
  ELSE IF ~InteractionExpected(e) THEN "peer_topic_closed"
  ELSE ""

(* A human message resets the peer conversation of its group, whether or   *)
(* not anybody is going to answer it.                                      *)
HumanSpoke(g, owed) ==
  /\ settling' = settling \cup {g}
  /\ peerTurns' = [peerTurns EXCEPT ![g] = 0]
  /\ required' = IF owed THEN required \cup {g} ELSE required \ {g}
  /\ loop' = [loop EXCEPT ![g] = NoWorker]

ExpireFirst(D) ==
  /\ turn' = TurnAfter(D)
  /\ receipt' = ReceiptAfter(D)
  /\ lapsed' = lapsed \ D

(* The group is taken: chatter is dropped. *)
FinalizeBusy(w, e) ==
  /\ Collected(w, e) /\ Busy(e)
  /\ ~(Eligible(e) # {} /\ (e \in Peer \/ Addressed(e)))
  /\ row' = [row EXCEPT ![e].status = "observed"]
  /\ UNCHANGED <<vote, turn, receipt, live, talk, clock, nextLease, held>>

(* The group is free and nobody gets the turn. *)
Silenced(e) ==
  \/ Eligible(e) = {}
  \/ e \in Peer /\ PeerGate(e) \notin {"", "peer_waiting_for_humans"}
  \/ e \notin Peer /\ ~Addressed(e) /\ GroupOf[e] \in cooling

FinalizeObserved(w, e) ==
  LET g == GroupOf[e]
      D == Overdue({g}) IN
  /\ Collected(w, e) /\ ~Busy(e) /\ Silenced(e)
  /\ row' = [RowAfter(D) EXCEPT ![e].status = "observed"]
  /\ ExpireFirst(D)
  /\ IF e \in Peer THEN UNCHANGED <<talk, settling>> ELSE HumanSpoke(g, FALSE)
  /\ UNCHANGED <<vote, live, ripe, cooling, nextLease, held>>

(* Deferred: the row stays collecting and the adapter calls again later.   *)
FinalizeDeferred(w, e) ==
  LET D == Overdue({GroupOf[e]}) IN
  /\ Collected(w, e) /\ Eligible(e) # {}
  /\ \/ Busy(e) /\ (e \in Peer \/ Addressed(e))
     \/ ~Busy(e) /\ e \in Peer /\ PeerGate(e) = "peer_waiting_for_humans"
  /\ row' = RowAfter(D)
  /\ ExpireFirst(D)
  /\ UNCHANGED <<vote, live, talk, ripe, cooling, settling, nextLease, held>>

Granted(w) == [status |-> "granted", worker |-> w, lease |-> nextLease]
TurnOf(w, e) == [lease |-> nextLease, worker |-> w, event |-> e]

(* The best candidate, which need not be the worker that finalizes, gets a *)
(* fresh lease.                                                            *)
FinalizeGrant(w, e, chosen) ==
  LET g == GroupOf[e]
      D == Overdue({g}) IN
  /\ nextLease \in Leases
  /\ Collected(w, e) /\ ~Busy(e) /\ ~Silenced(e)
  /\ e \in Peer => PeerGate(e) = ""
  /\ chosen \in Best(e, Eligible(e))
  /\ row' = [RowAfter(D) EXCEPT ![e] = Granted(chosen)]
  /\ turn' = [TurnAfter(D) EXCEPT ![g] = TurnOf(chosen, e)]
  /\ receipt' = ReceiptAfter(D)
  /\ lapsed' = lapsed \ D
  /\ nextLease' = nextLease + 1
  /\ held' = IF chosen = w THEN [held EXCEPT ![w] = @ \cup {nextLease}] ELSE held
  /\ IF e \in Peer
     THEN /\ peerTurns' = [peerTurns EXCEPT ![g] = @ + 1]
          /\ required' = required \ {g}
          /\ loop' = [loop EXCEPT ![g] = NoWorker]
          /\ UNCHANGED settling
     ELSE HumanSpoke(g, \E a, b \in Eligible(e) : a # b)
  /\ UNCHANGED <<vote, live, ripe, cooling>>

(* A polling worker, or one the platform delivers the message to again,    *)
(* reads that the event was granted to it.                                 *)
Learn(w, e) ==
  /\ row[e].status = "granted" /\ row[e].worker = w /\ row[e].lease # NoLease
  /\ held' = [held EXCEPT ![w] = @ \cup {row[e].lease}]
  /\ UNCHANGED <<ledger, live, talk, clock, nextLease>>

-----------------------------------------------------------------------------
(* admit(): the synchronous claim of a stable id, sender_type "system".    *)

Retryable == {"none", "silent", "observed", "expired"}

(* The rows a transaction may find past their retention: never one whose   *)
(* lease is still active.                                                  *)
Prunable(D) == {e \in Events : RowAfter(D)[e].status \notin Active \cup {"none"}}

PrunedRow(D, old) == [e \in Events |-> IF e \in old THEN NoRow ELSE RowAfter(D)[e]]
PrunedVote(old) ==
  [e \in Inbound |-> IF e \in old THEN [w \in Workers |-> "none"] ELSE vote[e]]

(* Groups without an event row, silent for a month, are forgotten.         *)
Forsaken(D, old) ==
  {g \in Groups : /\ Free(g, D)
                  /\ \A e \in Events : GroupOf[e] = g => PrunedRow(D, old)[e] = NoRow}

(* What admit() does before it decides: every overdue lease is classified, *)
(* then the rows in old and the groups in gone are deleted.                *)
Housekeeping(w, old, gone) ==
  LET D == Overdue(Groups) IN
  /\ old \subseteq Prunable(D)
  /\ gone \subseteq Forsaken(D, old)
  /\ live' = live \cup {w}
  /\ vote' = PrunedVote(old)
  /\ ripe' = ripe \ old
  /\ receipt' = ReceiptAfter(D)
  /\ peerTurns' = [g \in Groups |-> IF g \in gone THEN 0 ELSE peerTurns[g]]
  /\ required' = required \ gone
  /\ loop' = [g \in Groups |-> IF g \in gone THEN NoWorker ELSE loop[g]]
  /\ cooling' = cooling \ gone
  /\ settling' = settling \ gone

(* The claim is refused: its outcome is known, or somebody is at it. *)
AdmitRefused(w, s, old, gone) ==
  LET D == Overdue(Groups) IN
  /\ Housekeeping(w, old, gone)
  /\ \/ ReceiptAfter(D)[s] # "none"
     \/ PrunedRow(D, old)[s].status \notin Retryable
  /\ row' = PrunedRow(D, old)
  /\ turn' = TurnAfter(D)
  /\ lapsed' = lapsed \ D
  /\ UNCHANGED <<nextLease, held>>

WrongClaimable(s, D, old) == PrunedRow(D, old)[s].status \in Retryable

(* A claim goes ahead unless it has been settled or somebody is at it.     *)
Claimable(s, D, old) ==
  ReceiptAfter(D)[s] = "none" /\ PrunedRow(D, old)[s].status \in Retryable

(* The group is taken: a later claim may retry. *)
AdmitDeferred(w, s, old, gone) ==
  LET D == Overdue(Groups) IN
  /\ Housekeeping(w, old, gone)
  /\ Claimable(s, D, old)
  /\ ~Free(GroupOf[s], D)
  /\ row' = [PrunedRow(D, old) EXCEPT ![s] = [NoRow EXCEPT !.status = "observed"]]
  /\ turn' = TurnAfter(D)
  /\ lapsed' = lapsed \ D
  /\ UNCHANGED <<nextLease, held>>

AdmitGranted(w, s, old, gone) ==
  LET D == Overdue(Groups)
      g == GroupOf[s] IN
  /\ nextLease \in Leases
  /\ Housekeeping(w, old, gone)
  /\ Claimable(s, D, old)
  /\ Free(g, D)
  /\ row' = [PrunedRow(D, old) EXCEPT ![s] = Granted(w)]
  /\ turn' = [TurnAfter(D) EXCEPT ![g] = TurnOf(w, s)]
  /\ lapsed' = lapsed \ D
  /\ nextLease' = nextLease + 1
  /\ held' = [held EXCEPT ![w] = @ \cup {nextLease}]

Admit(w, s) ==
  \E old \in SUBSET Events, gone \in SUBSET Groups :
    \/ AdmitRefused(w, s, old, gone)
    \/ AdmitDeferred(w, s, old, gone)
    \/ AdmitGranted(w, s, old, gone)

-----------------------------------------------------------------------------
(* The life of a lease in the hands of its worker. *)

Owns(w, l, g) == turn[g].lease = l /\ turn[g].worker = w

(* A late call on an overdue lease retires it, and returns False. *)
RetireOwn(w, l, g) ==
  LET D == Overdue({g}) IN
  /\ Owns(w, l, g) /\ g \in lapsed
  /\ row' = RowAfter(D)
  /\ ExpireFirst(D)
  /\ UNCHANGED <<vote, live, talk, ripe, cooling, settling, nextLease, held>>

(* The fence before irreversible platform I/O; the lease is extended. *)
Fence(w, l, g) ==
  /\ Owns(w, l, g) /\ g \notin lapsed
  /\ row' = [row EXCEPT ![turn[g].event].status = "sending"]
  /\ live' = live \cup {w}
  /\ UNCHANGED <<vote, turn, receipt, talk, clock, nextLease, held>>

BeginDelivery(w, l) == \E g \in Groups : RetireOwn(w, l, g) \/ Fence(w, l, g)

(* A part's outcome is known and saved: back to the retryable side. *)
AcknowledgeDelivery(w, l) ==
  \E e \in Events :
    /\ row[e] = [status |-> "sending", worker |-> w, lease |-> l]
    /\ row' = [row EXCEPT ![e].status = "granted"]
    /\ UNCHANGED <<vote, turn, receipt, live, talk, clock, nextLease, held>>

(* The heartbeat.  Extending a deadline that has not passed shows only in  *)
(* the registry.                                                           *)
Extend(w, l, g) ==
  /\ Owns(w, l, g) /\ g \notin lapsed
  /\ live' = live \cup {w}
  /\ UNCHANGED <<ledger, talk, clock, nextLease, held>>

Renew(w, l) == \E g \in Groups : RetireOwn(w, l, g) \/ Extend(w, l, g)

(* The peer the reply names becomes the target of the open loop, unless a  *)
(* human had addressed the reply's source message to somebody.             *)
SourceTargeted(e) ==
  /\ e \in Inbound \ Peer
  /\ Voters(e) # {}
  /\ KnownTargets(e) # {} \/ (Mentions[e] = {} /\ Names[e] \cap Voters(e) # {})

OpensLoop(e, named) ==
  named # NoWorker /\ (GroupOf[e] \in required \/ ~SourceTargeted(e))

(* finish(): the outcome is recorded and the group freed, provided the     *)
(* lease is still the group's active one; its deadline is not looked at.   *)
Finish(w, l, outcome, named) ==
  \E g \in Groups :
    LET e == turn[g].event IN
    /\ Owns(w, l, g)
    /\ row' = [row EXCEPT ![e].status = outcome]
    /\ receipt' = IF e \in Stable /\ outcome \in {"sent", "uncertain"}
                  THEN [receipt EXCEPT ![e] = Receipted(receipt, e, outcome)]
                  ELSE receipt
    /\ turn' = [turn EXCEPT ![g] = Idle]
    /\ lapsed' = lapsed \ {g}
    /\ IF outcome = "sent"
       THEN /\ cooling' = cooling \cup {g}
            /\ loop' = [loop EXCEPT ![g] = IF OpensLoop(e, named) THEN named ELSE NoWorker]
       ELSE UNCHANGED <<cooling, loop>>
    /\ held' = [held EXCEPT ![w] = @ \ {l}]
    /\ UNCHANGED <<vote, live, peerTurns, required, ripe, settling, nextLease>>

(* finish() on a lease that is no longer active returns False. *)
FinishLost(w, l) ==
  /\ l \in held[w]
  /\ \A g \in Groups : ~Owns(w, l, g)
  /\ held' = [held EXCEPT ![w] = @ \ {l}]
  /\ UNCHANGED <<ledger, live, talk, clock, nextLease>>

-----------------------------------------------------------------------------
(* Time. *)

LeaseLapses(g) ==
  /\ turn[g] # Idle /\ g \notin lapsed
  /\ lapsed' = lapsed \cup {g}
  /\ UNCHANGED <<ledger, live, talk, ripe, cooling, settling, nextLease, held>>

WindowCloses(e) ==
  /\ row[e].status = "collecting" /\ e \notin ripe
  /\ ripe' = ripe \cup {e}
  /\ UNCHANGED <<ledger, live, talk, lapsed, cooling, settling, nextLease, held>>

CooldownEnds(g) ==
  /\ g \in cooling \cup settling
  /\ \/ cooling' = cooling \ {g} /\ UNCHANGED settling
     \/ settling' = settling \ {g} /\ UNCHANGED cooling
  /\ UNCHANGED <<ledger, live, talk, lapsed, ripe, nextLease, held>>

(* open_loop_expires_at passes: _open_loop_state reads it as closed. *)
LoopExpires(g) ==
  /\ loop[g] # NoWorker
  /\ loop' = [loop EXCEPT ![g] = NoWorker]
  /\ UNCHANGED <<ledger, live, peerTurns, required, clock, nextLease, held>>

(* registry_ttl_seconds without a sign of life. *)
Forgotten(w) ==
  /\ live' = live \ {w}
  /\ UNCHANGED <<ledger, talk, clock, nextLease, held>>

Passage ==
  \/ \E g \in Groups : LeaseLapses(g) \/ CooldownEnds(g) \/ LoopExpires(g)
  \/ \E e \in Inbound : WindowCloses(e)
  \/ \E w \in Workers : Forgotten(w)

-----------------------------------------------------------------------------
Coordinate ==
  \E w \in Workers, e \in Inbound :
    \/ \E v \in Votes : Submit(w, e, v)
    \/ FinalizeBusy(w, e) \/ FinalizeObserved(w, e) \/ FinalizeDeferred(w, e)
    \/ \E c \in Workers : FinalizeGrant(w, e, c)
    \/ Learn(w, e)

Lease ==
  \E w \in Workers : \E l \in held[w] :
    \/ BeginDelivery(w, l) \/ AcknowledgeDelivery(w, l) \/ Renew(w, l)
    \/ \E o \in {"sent", "silent", "uncertain"} :
         \E named \in (live \ {w}) \cup {NoWorker} : Finish(w, l, o, named)
    \/ FinishLost(w, l)

Next ==
  \/ \E w \in Workers : Register(w) \/ Close(w) \/ Crash(w)
  \/ Coordinate
  \/ \E w \in Workers, s \in Stable : Admit(w, s)
  \/ Lease
  \/ Passage

Spec == Init /\ [][Next]_vars

(* Clocks run, and the delayed-queue ticker of some worker keeps claiming. *)
FairSpec ==
  /\ Spec
  /\ \A g \in Groups : WF_vars(LeaseLapses(g))
  /\ WF_vars(\E w \in Workers, s \in Stable : Admit(w, s))

-----------------------------------------------------------------------------
(* The type invariant: the tables keep their columns, and a lease id is    *)
(* never on a row before it was handed out.                                *)
RowType == [status : Status, worker : Workers \cup {NoWorker}, lease : Leases \cup {NoLease}]
TurnType == [lease : Leases \cup {NoLease}, worker : Workers \cup {NoWorker},
             event : Events \cup {NoEvent}]

TypeOK ==
  /\ row \in [Events -> RowType]
  /\ vote \in [Inbound -> [Workers -> Votes \cup {"none"}]]
  /\ turn \in [Groups -> TurnType]
  /\ receipt \in [Stable -> {"none", "sent", "uncertain"}]
  /\ live \subseteq Workers
  /\ peerTurns \in [Groups -> Nat]
  /\ required \subseteq Groups
  /\ loop \in [Groups -> Workers \cup {NoWorker}]
  /\ lapsed \subseteq Groups /\ ripe \subseteq Inbound
  /\ cooling \subseteq Groups /\ settling \subseteq Groups
  /\ nextLease \in 1..(MaxLease + 1)
  /\ held \in [Workers -> SUBSET Leases]
  /\ \A e \in Events : row[e].lease < nextLease

(* Two events of a group are never both granted or being delivered: the    *)
(* promise of the module's docstring, one active turn per group.           *)
OneTurnPerGroup ==
  \A e, f \in Events :
    /\ row[e].status \in Active /\ row[f].status \in Active
    /\ GroupOf[e] = GroupOf[f]
    => e = f

(* A worker that finds its lease on the group row finds its own event      *)
(* behind it, still active; an active event has its group's turn; and a    *)
(* lease is on one row only.  begin_delivery, renew and finish rely on it  *)
(* when they address the event through the lease they hold.                *)
Agrees(r, t) ==
  /\ \A g \in Groups : t[g] # Idle =>
       LET e == t[g].event IN
       /\ e \in Events /\ GroupOf[e] = g
       /\ r[e].status \in Active
       /\ r[e].lease = t[g].lease /\ r[e].worker = t[g].worker
  /\ \A e \in Events : r[e].status \in Active => t[GroupOf[e]].event = e
  /\ \A e, f \in Events : r[e].lease = r[f].lease /\ r[e].lease # NoLease => e = f
LeaseAgreesWithRow == Agrees(row, turn)

(* However claims, expiries, restarts and pruning interleave, an id whose  *)
(* delivery was confirmed or may have happened is never granted again and  *)
(* its outcome never changes.                                              *)
SettledForGood ==
  [][\A s \in Stable : receipt[s] # "none" =>
       /\ receipt'[s] = receipt[s]
       /\ row'[s].status = "granted" => row[s].status \in Active]_vars

(* A delivery that has passed the fence comes back to a retryable status   *)
(* only through the worker that made it and knows its outcome; when        *)
(* anything else ends it, the ledger remembers that it is uncertain.       *)
InFlightNeverForgotten ==
  [][\A s \in Stable :
       row[s].status = "sending" /\ row'[s].status # "sending"
       => \/ receipt'[s] # "none"
          \/ row[s].lease \in held[row[s].worker]]_vars

(* The lease an inbound message was given is the only one it ever gets: it *)
(* may be delivered, expire, be voted for again after a restart and be     *)
(* finalized late by another worker, and no second persona is granted it   *)
(* as long as its row is there.                                            *)
OneAnswerPerMessage ==
  [][\A e \in Inbound :
       row[e].lease # NoLease => row'[e].lease = row[e].lease \/ row'[e] = NoRow]_vars

(* A turn nobody holds any more (its worker died) is taken away from it:   *)
(* one crashed persona never silences a group.                             *)
Orphaned(g) ==
  /\ turn[g] # Idle
  /\ \A w \in Workers : turn[g].lease \notin held[w]
OrphanFreed ==
  \A g \in Groups : Orphaned(g) ~> (~Orphaned(g) \/ nextLease > MaxLease)

(* The dispatcher implements the abstract ledger.                          *)
Fate ==
  [s \in Stable |-> IF receipt[s] # "none" THEN receipt[s]
                    ELSE IF row[s].status = "sending" THEN "flying" ELSE "open"]
Ledger == INSTANCE TurnLedger WITH
  speaker <- [g \in Groups |-> turn[g].event], fate <- Fate
ImplementsLedger == Ledger!Spec

(* A message that names a live persona, which has not itself declined it,  *)
(* is not dropped: "addressed" in _finalize_candidate.                     *)
AddressedNeverDropped ==
  [][\A e \in Inbound \ Peer :
       /\ row[e].status = "collecting" /\ row'[e].status = "observed"
       /\ KnownTargets(e) # {}
       => \E w \in KnownTargets(e) : vote[e][w] = "silent"]_vars
=============================================================================
