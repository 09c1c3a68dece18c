---------------------------- MODULE InboundTurn ----------------------------
(***************************************************************************)
(* A group message on its way through the NapCat adapter                   *)
(* (platforms/onebot_v11/napcat/adapter.py): the chat's lock, the          *)
(* transcript, the dispatcher's verdict, the turn, the retry of a message  *)
(* that was deferred, and the lease of a turn that left its answer on the  *)
(* delayed queue; and what a rebind of the engine makes of all of them.    *)
(*                                                                         *)
(* Every action is what a task does between two awaits.  One adapter and   *)
(* one group; the other personas are the rival.                            *)
(***************************************************************************)
EXTENDS Naturals

CONSTANTS
  Msgs,        (* messages of the group                                    *)
  PeerMsgs,    (* those another persona has sent: is_peer_ai               *)
  MaxRetries,  (* bound: how often the retry loop gets to ask again        *)
  MaxTurns,    (* bound: leases granted to this persona                    *)
  MaxRebinds   (* bound: engines bound after the first                     *)

ASSUME InboundConstantsOK ==
  PeerMsgs \subseteq Msgs /\ MaxRetries \in Nat /\ MaxTurns \in Nat /\ MaxRebinds \in Nat

VARIABLES
  at,       (* where the task of each message is                           *)
  reads,    (* history: rows of the transcript that hold the message       *)
  turns,    (* history: grants acted upon for the message                  *)
  tries,    (* times it was deferred; past the first it is a retry's       *)
  verdict,  (* dispatcher_events.status, as far as this persona is told    *)
  lease,    (* dispatcher_events.lease_id                                  *)
  floor,    (* dispatcher_groups: who has the group, and by which lease    *)
  granted,  (* leases this persona has been given so far                   *)
  kept,     (* _dispatch_leases[group]                                     *)
  waiting,  (* items on the delayed queue                                  *)
  flying,   (* the lease of the delivery under way: _dispatch_delivery_active *)
  link      (* the adapter's engine: _engine, _detaching_engine, retiring  *)

inboundVars == <<at, reads, turns, tries, verdict, lease, floor, granted, kept, waiting,
                 flying, link>>
floorVars == <<verdict, lease, floor, granted>>
ownVars == <<kept, waiting, flying, link>>

None == 0
Inside == {"parsing", "overhearing", "voting", "looking on", "turn", "sending"}
Gone == {"over", "lost"}
Places == {"away", "task", "queueing", "asleep"} \cup Inside \cup Gone

Open == [who |-> "none", lease |-> None]
Ours(l) == [who |-> "us", lease |-> l]

InboundInit ==
  /\ at = [m \in Msgs |-> "away"] /\ reads = [m \in Msgs |-> 0] /\ turns = [m \in Msgs |-> 0]
  /\ tries = [m \in Msgs |-> 0]
  /\ verdict = [m \in Msgs |-> "none"] /\ lease = [m \in Msgs |-> None]
  /\ floor = Open /\ granted = 0 /\ kept = None /\ waiting = 0 /\ flying = None
  /\ link = [phase |-> "on", count |-> 0]

Bound == link.phase \in {"on", "retiring"}
Go(m, place) == at' = [at EXCEPT ![m] = place]

(* finish() and expiry: leases that are not the group's are ignored.       *)
GiveBack(ls) ==
  /\ floor' = IF floor.who = "us" /\ floor.lease \in ls THEN Open ELSE floor
  /\ verdict' = [m \in Msgs |-> IF verdict[m] = "ours" /\ lease[m] \in ls THEN "closed"
                                ELSE verdict[m]]
  /\ UNCHANGED <<lease, granted>>

-----------------------------------------------------------------------------
(* In from the platform. *)

Deliver(m) ==
  /\ at[m] = "away" /\ Go(m, IF Bound THEN "task" ELSE "lost")
  /\ UNCHANGED <<reads, turns, tries, floorVars, ownVars>>

Begin(m) ==
  /\ at[m] = "task" /\ Go(m, IF link.phase = "on" THEN "queueing" ELSE "lost")
  /\ UNCHANGED <<reads, turns, tries, floorVars, ownVars>>

ChatFree == \A m \in Msgs : at[m] \notin Inside

TakeChat(m) ==
  /\ at[m] = "queueing" /\ ChatFree /\ Go(m, "parsing")
  /\ UNCHANGED <<reads, turns, tries, floorVars, ownVars>>

(* Nothing to answer: parse_event finds no message. *)
Unreadable(m) ==
  /\ at[m] = "parsing" /\ Go(m, "lost")
  /\ UNCHANGED <<reads, turns, tries, floorVars, ownVars>>

Heard(m) == reads[m] > 0
Read(m) == reads' = [reads EXCEPT ![m] = @ + 1]

(* A peer's message enters the transcript before it may be answered.       *)
Overhear(m) ==
  /\ at[m] = "parsing" /\ m \in PeerMsgs /\ Bound /\ ~Heard(m)
  /\ Read(m) /\ Go(m, "overhearing")
  /\ UNCHANGED <<turns, tries, floorVars, ownVars>>

(* Without an engine it bids too: the legacy candidate. *)
Bid(m) ==
  /\ \/ at[m] = "overhearing"
     \/ at[m] = "parsing" /\ ~(m \in PeerMsgs /\ Bound /\ ~Heard(m))
  /\ Go(m, "voting")
  /\ verdict' = [verdict EXCEPT ![m] = IF @ = "none" THEN "collecting" ELSE @]
  /\ UNCHANGED <<reads, turns, tries, lease, floor, granted, ownVars>>

-----------------------------------------------------------------------------
(* The dispatcher.  Any persona that polls may finalize the event, whether *)
(* or not the task that bid for it is still there.                         *)

Grant(m) ==
  /\ verdict[m] = "collecting" /\ floor = Open /\ granted < MaxTurns
  /\ granted' = granted + 1 /\ floor' = Ours(granted')
  /\ lease' = [lease EXCEPT ![m] = granted'] /\ verdict' = [verdict EXCEPT ![m] = "ours"]
  /\ UNCHANGED <<at, reads, turns, tries, ownVars>>

Refuse(m) ==
  /\ verdict[m] = "collecting" /\ verdict' = [verdict EXCEPT ![m] = "closed"]
  /\ floor' \in {floor} \cup (IF floor = Open THEN {[who |-> "rival", lease |-> None]} ELSE {})
  /\ UNCHANGED <<at, reads, turns, tries, lease, granted, ownVars>>

(* The rival takes the floor for something else, or gives it back.         *)
Rival ==
  /\ floor \in {Open, [who |-> "rival", lease |-> None]}
  /\ floor' \in {Open, [who |-> "rival", lease |-> None]} \ {floor}
  /\ UNCHANGED <<at, reads, turns, tries, verdict, lease, granted, ownVars>>

(* An inbound turn has no heartbeat, and a heartbeat may be late. *)
FloorLapses ==
  /\ floor.who = "us" /\ GiveBack({floor.lease})
  /\ UNCHANGED <<at, reads, turns, tries, ownVars>>

-----------------------------------------------------------------------------
(* The verdict is read. *)

(* Another turn has the floor, or the peers wait for the humans: again in  *)
(* half a second, if there is an engine to do it for.                      *)
ReadDeferral(m) ==
  /\ at[m] = "voting" /\ verdict[m] = "collecting" /\ (floor # Open \/ m \in PeerMsgs)
  /\ Go(m, IF Bound \/ tries[m] > 0 THEN "asleep" ELSE "lost")
  /\ tries' = [tries EXCEPT ![m] = IF @ <= MaxRetries THEN @ + 1 ELSE @]
  /\ UNCHANGED <<reads, turns, floorVars, ownVars>>

(* Somebody else's, or nobody's: the message is only listened to. *)
ReadRefusal(m) ==
  /\ at[m] = "voting" /\ verdict[m] = "closed"
  /\ IF Heard(m) THEN Go(m, "over") /\ UNCHANGED reads
     ELSE IF Bound THEN Go(m, "looking on") /\ Read(m)
     ELSE Go(m, "lost") /\ UNCHANGED reads
  /\ UNCHANGED <<turns, tries, floorVars, ownVars>>

LookOn(m) ==
  /\ at[m] = "looking on" /\ Go(m, "over")
  /\ UNCHANGED <<reads, turns, tries, floorVars, ownVars>>

(* The lease is noted for the delivery, and process_message begins; with   *)
(* the engine gone it raises at once and the lease goes back.              *)
ReadGrant(m) ==
  /\ at[m] = "voting" /\ verdict[m] = "ours"
  /\ turns' = [turns EXCEPT ![m] = @ + 1]
  /\ IF Bound
     THEN /\ Go(m, "turn") /\ kept' = lease[m]
          /\ IF Heard(m) THEN UNCHANGED reads ELSE Read(m)
          /\ UNCHANGED floorVars
     ELSE Go(m, "lost") /\ kept' = None /\ GiveBack({lease[m]}) /\ UNCHANGED reads
  /\ UNCHANGED <<tries, waiting, flying, link>>

(* A command is answered at once. *)
Answer(m) ==
  /\ at[m] = "turn" /\ Go(m, "sending")
  /\ UNCHANGED <<reads, turns, tries, floorVars, ownVars>>

(* The reply waits on the queue, and the lease waits for it. *)
QueueAnswer(m) ==
  /\ at[m] = "turn" /\ Go(m, "over") /\ waiting' = waiting + 1
  /\ UNCHANGED <<reads, turns, tries, floorVars, kept, flying, link>>

Unkept(ls) == IF kept \in ls THEN None ELSE kept

(* Silent, stashed, merged, failed, or answered: the lease is finished.    *)
EndOfTurn(m) ==
  /\ at[m] \in {"turn", "sending"} /\ Go(m, "over")
  /\ GiveBack({lease[m]}) /\ kept' = Unkept({lease[m]})
  /\ UNCHANGED <<reads, turns, tries, waiting, flying, link>>

-----------------------------------------------------------------------------
(* _retry_dispatch_event. *)

AskAgain(m) ==
  /\ at[m] = "asleep" /\ tries[m] <= MaxRetries
  /\ Go(m, IF link.phase = "on" THEN "queueing" ELSE "lost")
  /\ UNCHANGED <<reads, turns, tries, floorVars, ownVars>>

WrongGiveUp(m) == FALSE
GiveUp(m) ==
  /\ at[m] = "asleep" /\ Go(m, "lost")
  /\ UNCHANGED <<reads, turns, tries, floorVars, ownVars>>

-----------------------------------------------------------------------------
(* The delayed queue's delivery, which DelayedDelivery has in full. *)

(* The kept lease is given back, whoever's it is, and with the turn lock   *)
(* free the item claims the floor by its own name.                         *)
Launch ==
  /\ waiting > 0 /\ flying = None /\ link.phase = "on" /\ kept' = None
  /\ LET free == floor = Open \/ (floor.who = "us" /\ floor.lease = kept) IN
     \/ /\ free /\ granted < MaxTurns /\ granted' = granted + 1
        /\ floor' = Ours(granted') /\ flying' = granted'
        /\ verdict' = [m \in Msgs |-> IF verdict[m] = "ours" /\ lease[m] = kept THEN "closed"
                                      ELSE verdict[m]]
        /\ UNCHANGED lease
     \/ kept # None /\ GiveBack({kept}) /\ UNCHANGED flying
  /\ UNCHANGED <<at, reads, turns, tries, waiting, link>>

Land ==
  /\ flying # None /\ GiveBack({flying}) /\ flying' = None
  /\ waiting' \in {waiting, waiting - 1}
  /\ UNCHANGED <<at, reads, turns, tries, kept, link>>

-----------------------------------------------------------------------------
(* rebind_engine and stop_handling. *)

InPhase(phase) == link' = [link EXCEPT !.phase = phase]

RetireBound ==
  /\ link.phase = "on" /\ InPhase("retiring")
  /\ UNCHANGED <<at, reads, turns, tries, floorVars, kept, waiting, flying>>

Unbind ==
  /\ Bound /\ InPhase("draining")
  /\ UNCHANGED <<at, reads, turns, tries, floorVars, kept, waiting, flying>>

(* A cancelled task is thrown out of its await: a turn finishes its lease  *)
(* on the way, whoever still waits for a verdict has none to finish.       *)
Busy(m) == at[m] \notin {"away"} \cup Gone
CutOff(S) == at' = [m \in Msgs |-> IF m \in S THEN "lost" ELSE at[m]]
LeasesOf(S) == {lease[m] : m \in {i \in S : at[i] \in {"turn", "sending"}}}

CancelHandlers ==
  LET handlers == {m \in Msgs : Busy(m) /\ tries[m] = 0}
      ls == LeasesOf(handlers) \cup {flying} IN
  /\ link.phase = "draining" /\ InPhase("drained")
  /\ CutOff(handlers) /\ GiveBack(ls) /\ kept' = Unkept(ls) /\ flying' = None
  /\ UNCHANGED <<reads, turns, tries, waiting>>

WrongKeptToo(ls) == ls
KeptToo(ls) == ls \cup {kept}

(* Retries last; then the leases that were to wait for their delivery.     *)
CancelRetries ==
  LET retries == {m \in Msgs : Busy(m)} IN
  /\ link.phase = "drained" /\ InPhase("bare")
  /\ CutOff(retries) /\ GiveBack(KeptToo(LeasesOf(retries))) /\ kept' = None
  /\ UNCHANGED <<reads, turns, tries, waiting, flying>>

Rebind ==
  /\ link.phase = "bare" /\ link.count < MaxRebinds
  /\ link' = [phase |-> "on", count |-> link.count + 1]
  /\ UNCHANGED <<at, reads, turns, tries, floorVars, kept, waiting, flying>>

-----------------------------------------------------------------------------
Handle(m) ==
  \/ Begin(m) \/ TakeChat(m) \/ Unreadable(m) \/ Overhear(m) \/ Bid(m)
  \/ Grant(m) \/ Refuse(m) \/ ReadDeferral(m) \/ ReadRefusal(m) \/ LookOn(m) \/ ReadGrant(m)
  \/ Answer(m) \/ QueueAnswer(m) \/ EndOfTurn(m) \/ AskAgain(m) \/ GiveUp(m)

InboundNext ==
  \/ \E m \in Msgs : Deliver(m) \/ Handle(m)
  \/ Rival \/ FloorLapses \/ Launch \/ Land
  \/ RetireBound \/ Unbind \/ CancelHandlers \/ CancelRetries \/ Rebind

InboundSpec == InboundInit /\ [][InboundNext]_inboundVars

(* The event loop runs every task on: captions, polls and sends have       *)
(* timeouts, the turn its bound on rounds, the retry its deadline.  A      *)
(* detach that has begun is finished.                                      *)
InboundFair ==
  /\ \A m \in Msgs : WF_inboundVars(Handle(m))
  /\ WF_inboundVars(CancelHandlers) /\ WF_inboundVars(CancelRetries)

-----------------------------------------------------------------------------
InboundTyped ==
  /\ at \in [Msgs -> Places] /\ reads \in [Msgs -> 0 .. 2] /\ turns \in [Msgs -> 0 .. 2]
  /\ tries \in [Msgs -> 0 .. MaxRetries + 1]
  /\ verdict \in [Msgs -> {"none", "collecting", "ours", "closed"}]
  /\ lease \in [Msgs -> 0 .. MaxTurns] /\ granted \in 0 .. MaxTurns
  /\ floor \in [who : {"none", "us", "rival"}, lease : 0 .. MaxTurns]
  /\ kept \in 0 .. MaxTurns /\ flying \in 0 .. MaxTurns /\ waiting \in Nat
  /\ link \in [phase : {"on", "retiring", "draining", "drained", "bare"}, count : 0 .. MaxRebinds]

(* The group is not kept from the other personas for nothing: while a      *)
(* lease of ours is active, a turn or a delivery runs under it, or an      *)
(* answer waits for its delivery, or the grant has not been learnt of.     *)
FloorIsUsed ==
  floor.who = "us" =>
    \/ floor.lease = flying
    \/ floor.lease = kept /\ waiting > 0
    \/ \E m \in Msgs : /\ lease[m] = floor.lease
                       /\ at[m] \in {"turn", "sending"} \/ (turns[m] = 0 /\ at[m] # "over")

(* Deferred, asked for again, granted late or refused: a message is in the *)
(* transcript once and has one turn; and no message is handled to the end  *)
(* without having been read.                                               *)
ReadExactlyOnce ==
  \A m \in Msgs : reads[m] <= 1 /\ turns[m] <= 1 /\ (at[m] = "over" => reads[m] = 1)

(* When the engine is replaced, nothing that was begun with the old one is *)
(* left: no task, no delivery, no lease that a task has learnt of.         *)
OldTurnsAreOver ==
  link.phase = "bare" =>
    /\ \A m \in Msgs : ~Busy(m)
    /\ kept = None /\ flying = None
    /\ floor.who = "us" => \E m \in Msgs : lease[m] = floor.lease /\ turns[m] = 0

(* What an inbound message and the floor of its group may rely on. *)
InboundSafety == InboundTyped /\ FloorIsUsed /\ ReadExactlyOnce /\ OldTurnsAreOver

=============================================================================
