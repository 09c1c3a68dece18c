------------------------------ MODULE TurnLedger ------------------------------
(***************************************************************************)
(* What the group dispatcher promises its callers, without workers, votes, *)
(* leases or clocks: a group has at most one turn at a time, and an event  *)
(* with a stable id is delivered at most once, where a delivery that may   *)
(* have happened counts as one.                                            *)
(***************************************************************************)
CONSTANTS Groups, Inbound, Stable, GroupOf, NoEvent

Events == Inbound \cup Stable

VARIABLES
  speaker,  \* the event whose turn it is in each group
  fate      \* what is known of the delivery of each stable id

ledger == <<speaker, fate>>

Init ==
  /\ speaker = [g \in Groups |-> NoEvent]
  /\ fate = [s \in Stable |-> "open"]

(* Turns that ran out: one that was on its way to the platform may have    *)
(* arrived.                                                                *)
TimedOut(D) ==
  [s \in Stable |-> IF fate[s] = "flying" /\ \E g \in D : speaker[g] = s
                    THEN "uncertain" ELSE fate[s]]
Freed(D) == [g \in Groups |-> IF g \in D THEN NoEvent ELSE speaker[g]]

Expire(D) ==
  /\ speaker' = Freed(D)
  /\ fate' = TimedOut(D)

(* A turn is given in a free group; a stable id must still be open. *)
Give(D, e) ==
  /\ Freed(D)[GroupOf[e]] = NoEvent
  /\ e \in Stable => fate[e] = "open"
  /\ speaker' = [Freed(D) EXCEPT ![GroupOf[e]] = e]
  /\ fate' = TimedOut(D)

(* The speaker starts an irreversible delivery, or learns how one ended. *)
Fly(s) ==
  /\ speaker[GroupOf[s]] = s /\ fate[s] = "open"
  /\ fate' = [fate EXCEPT ![s] = "flying"]
  /\ UNCHANGED speaker

Land(s) ==
  /\ speaker[GroupOf[s]] = s /\ fate[s] = "flying"
  /\ fate' = [fate EXCEPT ![s] = "open"]
  /\ UNCHANGED speaker

(* The speaker gives the turn back and says what became of its event. *)
Close(g, outcome) ==
  /\ speaker[g] # NoEvent
  /\ speaker' = [speaker EXCEPT ![g] = NoEvent]
  /\ fate' = [s \in Stable |-> IF s = speaker[g] THEN outcome ELSE fate[s]]

Next ==
  \/ \E D \in SUBSET Groups : Expire(D) \/ \E e \in Events : Give(D, e)
  \/ \E s \in Stable : Fly(s) \/ Land(s)
  \/ \E g \in Groups, o \in {"open", "sent", "uncertain"} : Close(g, o)

Spec == Init /\ [][Next]_ledger
=============================================================================
