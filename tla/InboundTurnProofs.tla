-------------------------- MODULE InboundTurnProofs --------------------------
(***************************************************************************)
(* What TLAPS proves of InboundTurn, for any messages, retries, leases and *)
(* rebinds.  The argument follows the lease from the grant: it is the      *)
(* group's as long as the event is granted (MessageTells), it is kept      *)
(* while a turn works under it, and kept with an answer on the queue when  *)
(* no turn does (KeptTells); two messages never share one (Apart).         *)
(***************************************************************************)
EXTENDS InboundTurn, TLAPS

Floor == [who : {"none", "us", "rival"}, lease : 0 .. MaxTurns]
Link == [phase : {"on", "retiring", "draining", "drained", "bare"}, count : 0 .. MaxRebinds]
Working == {"turn", "sending"}
NotYet == {"away", "task", "queueing", "asleep", "parsing", "overhearing", "voting", "looking on"}
Works(m) == at[m] \in Working

(* What each message's place tells of its rows. *)
Tells(m) ==
  /\ reads[m] \in {0, 1} /\ turns[m] \in {0, 1}
  /\ at[m] \in NotYet => turns[m] = 0
  /\ at[m] \in Working \cup {"looking on", "over"} => reads[m] = 1
  /\ at[m] \in Working => turns[m] = 1
  /\ at[m] = "looking on" => verdict[m] = "closed"
  /\ at[m] = "over" => verdict[m] \in {"ours", "closed"}
  /\ verdict[m] \in {"none", "collecting"} => lease[m] = None /\ turns[m] = 0
  /\ verdict[m] = "ours" <=> floor.who = "us" /\ lease[m] = floor.lease
MessageTells == \A m \in Msgs : Tells(m)

(* One message at a time is inside, and a lease is one message's or a      *)
(* delivery's.                                                             *)
Apart ==
  /\ \A m, n \in Msgs :
       /\ at[m] \in Inside /\ at[n] \in Inside => m = n
       /\ lease[m] = lease[n] /\ lease[m] # None => m = n
  /\ \A m \in Msgs : lease[m] <= granted /\ (lease[m] # None => lease[m] # flying)
  /\ kept <= granted /\ flying <= granted
  /\ IF floor.who = "us" THEN floor.lease \in 1 .. granted ELSE floor.lease = None

(* The lease that is kept: of the turn that works, or of an answer that    *)
(* waits; the item in flight is still on the queue.                        *)
KeptTells ==
  /\ \A m \in Msgs : Works(m) /\ floor.who = "us" /\ floor.lease = lease[m] => kept = lease[m]
  /\ kept # None =>
       \/ \E m \in Msgs : Works(m) /\ lease[m] = kept
       \/ waiting >= IF flying = None THEN 1 ELSE 2
  /\ flying # None => waiting >= 1

PhaseTells == link.phase \in {"drained", "bare"} => flying = None

InboundInv ==
  /\ InboundTyped /\ MessageTells /\ Apart /\ KeptTells /\ PhaseTells
  /\ FloorIsUsed /\ OldTurnsAreOver

-----------------------------------------------------------------------------
LEMMA InboundInitSafe == InboundInit => InboundInv
BY InboundConstantsOK
DEF InboundInit, InboundInv, InboundTyped, MessageTells, Tells, Apart, KeptTells, PhaseTells, FloorIsUsed,
    OldTurnsAreOver, Places, Inside, Gone, Working, NotYet, Works, Open, None, Busy

LEMMA Small == 0 # 1 /\ 0 \in 0 .. 2 /\ 1 \in 0 .. 2 /\ 0 + 1 = 1 /\ 1 > 0
OBVIOUS

LEMMA FirstReading ==
  ASSUME NEW m \in Msgs, reads \in [Msgs -> 0 .. 2], reads[m] \in {0, 1}, ~Heard(m), Read(m)
  PROVE  reads[m] = 0 /\ reads' = [reads EXCEPT ![m] = 1]
<1>1. reads[m] = 0
  BY Small, Zenon DEF Heard
<1> QED
  BY <1>1, Small, Zenon DEF Read

LEMMA OnceMore ==
  ASSUME NEW m \in Msgs, tries \in [Msgs -> 0 .. MaxRetries + 1],
         tries' = [tries EXCEPT ![m] = IF @ <= MaxRetries THEN @ + 1 ELSE @]
  PROVE  tries' \in [Msgs -> 0 .. MaxRetries + 1]
<1>1. tries[m] \in 0 .. MaxRetries + 1 /\ MaxRetries \in Nat
  BY InboundConstantsOK
<1>2. (IF tries[m] <= MaxRetries THEN tries[m] + 1 ELSE tries[m]) \in 0 .. MaxRetries + 1
  BY <1>1
<1> QED
  BY <1>2, Zenon

(* A step that only moves a message, notes it in the transcript or bids    *)
(* for it leaves every lease where it is.                                  *)
LEMMA Moved ==
  ASSUME InboundInv, NEW m \in Msgs, NEW place \in Places,
         Go(m, place), at[m] \notin Gone, Works(m) <=> place \in Working,
         place \in Inside => at[m] \in Inside \/ ChatFree,
         place \in {"over", "looking on"} => verdict[m] = "closed" /\ reads'[m] = 1,
         link.phase = "bare" => place \in Gone,
         reads' = reads \/ (~Heard(m) /\ Read(m)),
         verdict' = verdict \/ (verdict[m] = "none" /\ verdict' = [verdict EXCEPT ![m] = "collecting"]),
         tries' \in [Msgs -> 0 .. MaxRetries + 1],
         UNCHANGED <<turns, lease, floor, granted, ownVars>>
  PROVE  InboundInv'
<1> USE DEF Go
<1>0. /\ at \in [Msgs -> Places] /\ reads \in [Msgs -> 0 .. 2] /\ turns \in [Msgs -> 0 .. 2]
      /\ verdict \in [Msgs -> {"none", "collecting", "ours", "closed"}]
  BY DEF InboundInv, InboundTyped
<1>a. /\ reads' \in [Msgs -> 0 .. 2] /\ \A n \in Msgs : n # m => reads'[n] = reads[n]
      /\ reads'[m] \in {0, 1} /\ (reads[m] = 1 => reads'[m] = 1)
  <2>0. reads[m] \in {0, 1}
    BY <1>0 DEF InboundInv, MessageTells, Tells
  <2>1. CASE reads' = reads
    BY <1>0, <2>0, <2>1
  <2>2. CASE ~Heard(m) /\ Read(m)
    <3>1. reads' = [reads EXCEPT ![m] = 1] /\ reads[m] = 0
      BY <1>0, <2>0, <2>2, FirstReading
    <3> QED
      BY <1>0, <3>1, Small, Zenon
  <2> QED
    BY <2>1, <2>2
<1>b. /\ verdict' \in [Msgs -> {"none", "collecting", "ours", "closed"}]
      /\ \A n \in Msgs : \/ verdict'[n] = verdict[n]
                         \/ verdict[n] = "none" /\ verdict'[n] = "collecting"
  BY <1>0
<1>1. InboundTyped'
  BY <1>0, <1>a, <1>b DEF InboundInv, InboundTyped, ownVars
<1>2. MessageTells'
  <2> SUFFICES ASSUME NEW n \in Msgs PROVE Tells(n)'
    BY DEF MessageTells
  <2>1. CASE n = m
    BY <1>0, <1>a, <1>b, <2>1 DEF InboundInv, MessageTells, Tells, Works, Working, NotYet, Inside, Gone, Places
  <2>2. CASE n # m
    BY <1>0, <1>a, <1>b, <2>2 DEF InboundInv, MessageTells, Tells
  <2> QED
    BY <2>1, <2>2
<1>3. Apart'
  BY <1>0 DEF InboundInv, Apart, ChatFree, Inside, ownVars
<1>4. /\ at'[m] = place
      /\ \A n \in Msgs : n # m => at'[n] = at[n]
      /\ \A n \in Msgs : Works(n)' <=> Works(n)
  BY <1>0 DEF Works
<1>5. KeptTells'
  BY <1>4 DEF InboundInv, KeptTells, ownVars
<1>6. PhaseTells'
  BY DEF InboundInv, PhaseTells, ownVars
<1>7. FloorIsUsed'
  <2>1. ASSUME floor.who = "us", NEW n \in Msgs, lease[n] = floor.lease, at[n] # "over"
        PROVE  at'[n] # "over"
    BY <1>4, <2>1 DEF InboundInv, MessageTells, Tells
  <2> QED
    BY <1>4, <2>1 DEF InboundInv, FloorIsUsed, ownVars, Works, Working
<1>8. OldTurnsAreOver'
  BY <1>4 DEF InboundInv, OldTurnsAreOver, Busy, ownVars, Gone
<1> QED
  BY <1>1, <1>2, <1>3, <1>5, <1>6, <1>7, <1>8 DEF InboundInv

LEMMA MovesSafe ==
  ASSUME InboundInv, NEW m \in Msgs,
         \/ Deliver(m) \/ Begin(m) \/ TakeChat(m) \/ Unreadable(m) \/ Overhear(m) \/ Bid(m)
         \/ ReadDeferral(m) \/ ReadRefusal(m) \/ LookOn(m) \/ Answer(m) \/ AskAgain(m) \/ GiveUp(m)
  PROVE  InboundInv'
<1> USE DEF floorVars, ownVars, Inside, Gone, Places, Working, Works, Bound
<1>0. /\ at \in [Msgs -> Places] /\ reads \in [Msgs -> 0 .. 2] /\ tries \in [Msgs -> 0 .. MaxRetries + 1]
      /\ link.phase \in {"on", "retiring", "draining", "drained", "bare"} /\ MaxRetries \in Nat
      /\ Tells(m) /\ (link.phase = "bare" => ~Busy(m))
  BY InboundConstantsOK DEF InboundInv, InboundTyped, MessageTells, OldTurnsAreOver
<1>r. reads[m] \in {0, 1} /\ tries[m] \in 0 .. MaxRetries + 1
  BY <1>0, Zenon DEF Tells
<1>1. CASE Deliver(m)
  BY <1>0, <1>1, Moved DEF Deliver
<1>2. CASE Begin(m)
  BY <1>0, <1>2, Moved DEF Begin, Busy
<1>3. CASE TakeChat(m)
  BY <1>0, <1>3, Moved DEF TakeChat, Busy
<1>4. CASE Unreadable(m)
  BY <1>0, <1>4, Moved DEF Unreadable
<1>5. CASE Overhear(m)
  <2>1. ~Heard(m) /\ Read(m)
    BY <1>5 DEF Overhear
  <2> QED
    BY <1>0, <1>5, <2>1, Moved DEF Overhear, Busy
<1>6. CASE Bid(m)
  <2>1. verdict' = verdict \/ (verdict[m] = "none" /\ verdict' = [verdict EXCEPT ![m] = "collecting"])
    BY <1>6 DEF Bid, InboundInv, InboundTyped
  <2> QED
    BY <1>0, <1>6, <2>1, Moved DEF Bid, Busy
<1>7. CASE ReadDeferral(m)
  <2>1. tries' \in [Msgs -> 0 .. MaxRetries + 1]
    BY <1>0, <1>7, OnceMore DEF ReadDeferral
  <2>2. PICK place \in {"asleep", "lost"} : Go(m, place)
    BY <1>7 DEF ReadDeferral
  <2> QED
    BY <1>0, <1>7, <2>1, <2>2, Moved DEF ReadDeferral, Busy
<1>8. CASE ReadRefusal(m)
  <2>1. CASE Heard(m)
    <3>1. reads[m] = 1
      BY <1>r, <2>1 DEF Heard
    <3> QED
      BY <1>0, <1>8, <2>1, <3>1, Moved DEF ReadRefusal, Busy
  <2>2. CASE ~Heard(m) /\ Bound
    <3>1. Read(m) /\ reads'[m] = 1
      BY <1>0, <1>r, <1>8, <2>2, FirstReading DEF ReadRefusal
    <3> QED
      BY <1>0, <1>8, <2>2, <3>1, Moved DEF ReadRefusal, Busy
  <2>3. CASE ~Heard(m) /\ ~Bound
    BY <1>0, <1>8, <2>3, Moved DEF ReadRefusal, Busy
  <2> QED
    BY <2>1, <2>2, <2>3
<1>9. CASE LookOn(m)
  BY <1>0, <1>9, Moved DEF LookOn, Busy, Tells
<1>10. CASE Answer(m)
  BY <1>0, <1>10, Moved DEF Answer, Busy
<1>11. CASE AskAgain(m)
  BY <1>0, <1>11, Moved DEF AskAgain, Busy
<1>12. CASE GiveUp(m)
  BY <1>0, <1>12, Moved DEF GiveUp
<1> QED
  BY <1>1, <1>2, <1>3, <1>4, <1>5, <1>6, <1>7, <1>8, <1>9, <1>10, <1>11, <1>12

-----------------------------------------------------------------------------
(* The dispatcher. *)

LEMMA GrantSafe == ASSUME InboundInv, NEW m \in Msgs, Grant(m) PROVE InboundInv'
<1>0. /\ at \in [Msgs -> Places] /\ lease \in [Msgs -> 0 .. MaxTurns] /\ granted \in 0 .. MaxTurns
      /\ verdict \in [Msgs -> {"none", "collecting", "ours", "closed"}]
      /\ verdict[m] = "collecting" /\ floor = Open /\ granted < MaxTurns /\ MaxTurns \in Nat
      /\ turns[m] = 0 /\ lease[m] = None
      /\ kept \in 0 .. MaxTurns /\ flying \in 0 .. MaxTurns /\ kept <= granted /\ flying <= granted
  BY InboundConstantsOK DEF InboundInv, InboundTyped, MessageTells, Tells, Apart, Grant
<1>1. /\ granted' = granted + 1 /\ granted' \in 1 .. MaxTurns
      /\ floor' = [who |-> "us", lease |-> granted'] /\ lease' = [lease EXCEPT ![m] = granted']
      /\ verdict' = [verdict EXCEPT ![m] = "ours"]
      /\ UNCHANGED <<at, reads, turns, tries, kept, waiting, flying, link>>
  BY <1>0 DEF Grant, Ours, ownVars
<1>a. /\ lease'[m] = granted' /\ verdict'[m] = "ours"
      /\ \A n \in Msgs : n # m => lease'[n] = lease[n] /\ verdict'[n] = verdict[n]
  BY <1>0, <1>1
<1>b. \A n \in Msgs : lease[n] # granted' /\ lease[n] <= granted /\ lease[n] \in Nat
  BY <1>0, <1>1 DEF InboundInv, Apart
<1>c. \A n \in Msgs : verdict[n] # "ours"
  BY <1>0 DEF InboundInv, MessageTells, Tells, Open
<1>2. /\ lease'[m] = granted' /\ verdict'[m] = "ours"
      /\ \A n \in Msgs : n # m => lease'[n] = lease[n] /\ verdict'[n] = verdict[n]
      /\ \A n \in Msgs : lease[n] # granted' /\ lease[n] <= granted /\ lease[n] \in Nat
      /\ \A n \in Msgs : verdict[n] # "ours"
  BY <1>a, <1>b, <1>c
<1>3. InboundTyped'
  BY <1>0, <1>1 DEF InboundInv, InboundTyped
<1>4. MessageTells'
  <2> SUFFICES ASSUME NEW n \in Msgs PROVE Tells(n)'
    BY DEF MessageTells
  <2>1. CASE n = m
    BY <1>0, <1>1, <1>2, <2>1 DEF InboundInv, MessageTells, Tells
  <2>2. CASE n # m
    BY <1>0, <1>1, <1>2, <2>2 DEF InboundInv, MessageTells, Tells
  <2> QED
    BY <2>1, <2>2
<1>5. Apart'
  BY <1>0, <1>1, <1>2 DEF InboundInv, Apart, None
<1>6. KeptTells' /\ PhaseTells'
  <2>1. \A n \in Msgs : Works(n)' <=> Works(n)
    BY <1>1 DEF Works
  <2>a. Tells(m)
    BY DEF InboundInv, MessageTells
  <2>2. ~Works(m)
    BY <1>0, <2>a, Small, Zenon DEF Tells, Works
  <2> QED
    BY <1>0, <1>1, <1>2, <2>1, <2>2 DEF InboundInv, KeptTells, PhaseTells
<1>7. FloorIsUsed'
  <2>1. at[m] # "over"
    BY <1>0 DEF InboundInv, MessageTells, Tells
  <2> QED
    BY <1>0, <1>1, <1>2, <2>1 DEF FloorIsUsed
<1>8. OldTurnsAreOver'
  BY <1>0, <1>1, <1>2 DEF InboundInv, OldTurnsAreOver, Busy
<1> QED
  BY <1>3, <1>4, <1>5, <1>6, <1>7, <1>8 DEF InboundInv

LEMMA RefuseSafe == ASSUME InboundInv, NEW m \in Msgs, Refuse(m) PROVE InboundInv'
<1>0. /\ at \in [Msgs -> Places] /\ verdict \in [Msgs -> {"none", "collecting", "ours", "closed"}]
      /\ verdict[m] = "collecting" /\ verdict' = [verdict EXCEPT ![m] = "closed"]
      /\ floor' = floor \/ (floor = Open /\ floor' = [who |-> "rival", lease |-> None])
      /\ UNCHANGED <<at, reads, turns, tries, lease, granted, kept, waiting, flying, link>>
  BY DEF InboundInv, InboundTyped, Refuse, ownVars
<1>1. /\ verdict'[m] = "closed" /\ \A n \in Msgs : n # m => verdict'[n] = verdict[n]
      /\ floor'.who = "us" <=> floor.who = "us"
      /\ floor.who = "us" => floor' = floor
      /\ floor'.lease = floor.lease
  BY <1>0 DEF Open
<1>2. InboundTyped'
  <2>1. None \in 0 .. MaxTurns
    BY InboundConstantsOK DEF None
  <2> QED
    BY <1>0, <2>1 DEF InboundInv, InboundTyped
<1>3. MessageTells'
  <2> SUFFICES ASSUME NEW n \in Msgs PROVE Tells(n)'
    BY DEF MessageTells
  <2>1. Tells(n)
    BY DEF InboundInv, MessageTells
  <2>2. CASE n = m
    BY <1>0, <1>1, <2>1, <2>2 DEF Tells
  <2>3. CASE n # m
    BY <1>0, <1>1, <2>1, <2>3 DEF Tells
  <2> QED
    BY <2>2, <2>3
<1>4. Apart'
  BY <1>0, <1>1 DEF InboundInv, Apart
<1>5. KeptTells' /\ PhaseTells'
  BY <1>0, <1>1 DEF InboundInv, KeptTells, PhaseTells, Works
<1>6. FloorIsUsed' /\ OldTurnsAreOver'
  BY <1>0, <1>1 DEF InboundInv, FloorIsUsed, OldTurnsAreOver, Busy
<1> QED
  BY <1>2, <1>3, <1>4, <1>5, <1>6 DEF InboundInv

LEMMA RivalSafe == InboundInv /\ Rival => InboundInv'
<1> SUFFICES ASSUME InboundInv, Rival PROVE InboundInv'
  OBVIOUS
<1>0. /\ floor.who # "us" /\ floor.lease = None /\ floor'.who # "us" /\ floor'.lease = None
      /\ floor'.who \in {"none", "us", "rival"} /\ floor' = [who |-> floor'.who, lease |-> floor'.lease]
      /\ UNCHANGED <<at, reads, turns, tries, verdict, lease, granted, kept, waiting, flying, link>>
  BY DEF Rival, Open, ownVars
<1>1. InboundTyped'
  <2>1. None \in 0 .. MaxTurns
    BY InboundConstantsOK DEF None
  <2> QED
    BY <1>0, <2>1 DEF InboundInv, InboundTyped
<1>2. MessageTells'
  BY <1>0 DEF InboundInv, MessageTells, Tells
<1>3. Apart' /\ KeptTells' /\ PhaseTells' /\ FloorIsUsed' /\ OldTurnsAreOver'
  BY <1>0 DEF InboundInv, Apart, KeptTells, PhaseTells, Works, FloorIsUsed, OldTurnsAreOver, Busy
<1> QED
  BY <1>1, <1>2, <1>3 DEF InboundInv

(* Leases that are given back take the verdicts of their events with them. *)
LEMMA Returned ==
  ASSUME InboundInv, NEW ls, GiveBack(ls)
  PROVE  /\ lease' = lease /\ granted' = granted
         /\ verdict' \in [Msgs -> {"none", "collecting", "ours", "closed"}]
         /\ floor' = floor \/ floor' = Open
         /\ floor'.who = "us" => floor' = floor /\ floor.lease \notin ls
         /\ \A m \in Msgs : /\ verdict'[m] = "ours" <=> floor'.who = "us" /\ lease[m] = floor'.lease
                            /\ verdict'[m] = verdict[m] \/ (verdict[m] = "ours" /\ verdict'[m] = "closed")
<1>0. /\ verdict \in [Msgs -> {"none", "collecting", "ours", "closed"}]
      /\ \A m \in Msgs : verdict[m] = "ours" <=> floor.who = "us" /\ lease[m] = floor.lease
  BY DEF InboundInv, InboundTyped, MessageTells, Tells
<1>1. /\ lease' = lease /\ granted' = granted
      /\ floor' = IF floor.who = "us" /\ floor.lease \in ls THEN Open ELSE floor
      /\ verdict' = [m \in Msgs |-> IF verdict[m] = "ours" /\ lease[m] \in ls THEN "closed" ELSE verdict[m]]
  BY DEF GiveBack
<1> QED
  BY <1>0, <1>1 DEF Open

LEMMA Returns ==
  ASSUME InboundInv, NEW ls, GiveBack(ls), UNCHANGED <<reads, turns, tries>>,
         at' \in [Msgs -> Places],
         \A m \in Msgs : at'[m] = at[m] \/ at'[m] = "lost" \/ (Works(m) /\ at'[m] = "over"),
         kept' \in {kept, None}, flying' \in {flying, None}, waiting' \in Nat, link' \in Link
  PROVE  InboundTyped' /\ MessageTells' /\ Apart'
<1>0. None \in 0 .. MaxTurns
  BY InboundConstantsOK DEF None
<1>1. InboundTyped'
  BY <1>0, Returned DEF InboundInv, InboundTyped, Open, Link
<1>2. MessageTells'
  <2> SUFFICES ASSUME NEW m \in Msgs PROVE Tells(m)'
    BY DEF MessageTells
  <2>1. Tells(m) /\ at[m] \in Places
    BY DEF InboundInv, InboundTyped, MessageTells
  <2>2. /\ verdict'[m] = "ours" <=> floor'.who = "us" /\ lease'[m] = floor'.lease
        /\ verdict'[m] = verdict[m] \/ (verdict[m] = "ours" /\ verdict'[m] = "closed")
        /\ lease' = lease /\ verdict[m] \in {"none", "collecting", "ours", "closed"}
    BY Returned DEF InboundInv, InboundTyped
  <2>3. CASE at'[m] = at[m]
    BY <2>1, <2>2, <2>3 DEF Tells
  <2>4. CASE at'[m] = "lost"
    BY <2>1, <2>2, <2>4 DEF Tells, Working, NotYet
  <2>5. CASE Works(m) /\ at'[m] = "over"
    <3>1. turns[m] = 1 /\ reads[m] = 1 /\ verdict[m] \in {"ours", "closed"}
      BY <2>1, <2>2, <2>5, Small DEF Tells, Works
    <3> QED
      BY <2>1, <2>2, <2>5, <3>1 DEF Tells, Working, NotYet
  <2> QED
    BY <2>3, <2>4, <2>5
<1>3. Apart'
  <2>1. \A m \in Msgs : at'[m] \in Inside => at'[m] = at[m]
    BY DEF Inside
  <2>2. lease' = lease /\ granted' = granted /\ (floor' = floor \/ floor' = Open)
    BY Returned
  <2>3. \A m \in Msgs : lease[m] # None => lease[m] # flying'
    BY DEF InboundInv, Apart
  <2>4. kept' <= granted /\ flying' <= granted
    BY DEF InboundInv, InboundTyped, Apart, None
  <2> QED
    BY <2>1, <2>2, <2>3, <2>4 DEF InboundInv, Apart, Open, None
<1> QED
  BY <1>1, <1>2, <1>3

LEMMA FloorLapsesSafe == InboundInv /\ FloorLapses => InboundInv'
<1> SUFFICES ASSUME InboundInv, FloorLapses PROVE InboundInv'
  OBVIOUS
<1>0. /\ floor.who = "us" /\ GiveBack({floor.lease})
      /\ UNCHANGED <<at, reads, turns, tries, kept, waiting, flying, link>>
  BY DEF FloorLapses, ownVars
<1>1. floor'.who # "us" /\ lease' = lease
  BY <1>0, Returned
<1>2. InboundTyped' /\ MessageTells' /\ Apart'
  BY <1>0, Returns DEF InboundInv, InboundTyped, Link
<1>3. KeptTells' /\ PhaseTells' /\ FloorIsUsed' /\ OldTurnsAreOver'
  BY <1>0, <1>1 DEF InboundInv, KeptTells, PhaseTells, Works, FloorIsUsed, OldTurnsAreOver, Busy
<1> QED
  BY <1>2, <1>3 DEF InboundInv

-----------------------------------------------------------------------------
(* The turn. *)

LEMMA EndOfTurnSafe == ASSUME InboundInv, NEW m \in Msgs, EndOfTurn(m) PROVE InboundInv'
<1>0. /\ Works(m) /\ at \in [Msgs -> Places] /\ at' = [at EXCEPT ![m] = "over"]
      /\ GiveBack({lease[m]}) /\ kept' = IF kept = lease[m] THEN None ELSE kept
      /\ UNCHANGED <<reads, turns, tries, waiting, flying, link>>
  BY DEF InboundInv, InboundTyped, EndOfTurn, Go, Works, Working, Unkept
<1>1. /\ at'[m] = "over" /\ \A n \in Msgs : n # m => at'[n] = at[n]
      /\ at' \in [Msgs -> Places] /\ \A n \in Msgs : Works(n)' <=> Works(n) /\ n # m
  BY <1>0 DEF Places, Gone, Works, Working
<1>2. InboundTyped' /\ MessageTells' /\ Apart'
  BY <1>0, <1>1, Returns DEF InboundInv, InboundTyped, Link
<1>3. /\ lease' = lease
      /\ floor'.who = "us" => floor' = floor /\ floor.lease # lease[m]
  BY <1>0, Returned
<1>4. KeptTells'
  <2>1. \A n \in Msgs : Works(n) => n = m
    BY <1>0 DEF InboundInv, Apart, Works, Working, Inside
  <2> QED
    BY <1>0, <1>1, <1>3, <2>1 DEF InboundInv, KeptTells
<1>5. PhaseTells'
  BY <1>0 DEF InboundInv, PhaseTells
<1>6. FloorIsUsed'
  <2> SUFFICES ASSUME floor'.who = "us"
               PROVE  \/ floor'.lease = flying'
                      \/ floor'.lease = kept' /\ waiting' > 0
                      \/ \E n \in Msgs : /\ lease'[n] = floor'.lease
                                         /\ at'[n] \in {"turn", "sending"} \/ (turns'[n] = 0 /\ at'[n] # "over")
    BY DEF FloorIsUsed
  <2>1. floor' = floor /\ floor.who = "us" /\ floor.lease # lease[m]
    BY <1>3
  <2>2. CASE floor.lease = flying
    BY <1>0, <2>1, <2>2
  <2>3. CASE floor.lease = kept /\ waiting > 0
    BY <1>0, <2>1, <2>3
  <2>4. CASE \E n \in Msgs : /\ lease[n] = floor.lease
                             /\ at[n] \in {"turn", "sending"} \/ (turns[n] = 0 /\ at[n] # "over")
    BY <1>0, <1>1, <1>3, <2>1, <2>4
  <2> QED
    BY <2>1, <2>2, <2>3, <2>4 DEF InboundInv, FloorIsUsed
<1>7. OldTurnsAreOver'
  <2>1. Busy(m)
    BY <1>0 DEF Works, Working, Busy, Gone
  <2> QED
    BY <1>0, <2>1 DEF InboundInv, OldTurnsAreOver
<1> QED
  BY <1>2, <1>4, <1>5, <1>6, <1>7 DEF InboundInv

LEMMA ReadGrantSafe == ASSUME InboundInv, NEW m \in Msgs, ReadGrant(m) PROVE InboundInv'
<1>0. /\ at[m] = "voting" /\ verdict[m] = "ours" /\ at \in [Msgs -> Places]
      /\ turns \in [Msgs -> 0 .. 2] /\ turns[m] = 0 /\ turns' = [turns EXCEPT ![m] = 1]
      /\ Tells(m) /\ floor = [who |-> "us", lease |-> lease[m]] /\ lease[m] \in 1 .. granted
      /\ UNCHANGED <<tries, waiting, flying, link>>
  <2>1. Tells(m) /\ floor \in Floor
    BY DEF InboundInv, InboundTyped, MessageTells, Floor
  <2>2. at[m] = "voting" /\ verdict[m] = "ours" /\ turns[m] = 0
    BY <2>1 DEF ReadGrant, Tells, NotYet
  <2>3. turns' = [turns EXCEPT ![m] = 1]
    BY <2>2, Small, Zenon DEF ReadGrant
  <2>4. floor.who = "us" /\ floor.lease = lease[m] /\ lease[m] \in 1 .. granted
    BY <2>1, <2>2 DEF Tells, InboundInv, Apart
  <2> QED
    BY <2>1, <2>2, <2>3, <2>4 DEF InboundInv, InboundTyped, Floor, ReadGrant
<1>1. /\ turns' \in [Msgs -> 0 .. 2] /\ turns'[m] = 1
      /\ \A n \in Msgs : n # m => turns'[n] = turns[n]
  BY <1>0, Small, Zenon
<1>2. \A n \in Msgs : ~Works(n)
  BY <1>0 DEF InboundInv, Apart, Works, Working, Inside
<1>3. link.phase # "bare"
  <2>1. Busy(m)
    BY <1>0 DEF Busy, Gone
  <2> QED
    BY <2>1 DEF InboundInv, OldTurnsAreOver
<1>4. CASE Bound
  <2>0. /\ at' = [at EXCEPT ![m] = "turn"] /\ kept' = lease[m]
        /\ UNCHANGED <<verdict, lease, floor, granted>>
        /\ reads' = reads \/ (~Heard(m) /\ Read(m))
        /\ Heard(m) => reads' = reads
        /\ ~Heard(m) => Read(m)
    BY <1>4 DEF ReadGrant, Go, floorVars
  <2>1. /\ reads' \in [Msgs -> 0 .. 2] /\ reads'[m] = 1
        /\ \A n \in Msgs : n # m => reads'[n] = reads[n]
    <3>1. reads \in [Msgs -> 0 .. 2] /\ reads[m] \in {0, 1}
      BY <1>0 DEF InboundInv, InboundTyped, Tells
    <3>2. CASE Heard(m)
      <4>1. reads[m] = 1
        BY <3>1, <3>2 DEF Heard
      <4> QED
        BY <2>0, <3>1, <3>2, <4>1
    <3>3. CASE ~Heard(m)
      <4>1. reads' = [reads EXCEPT ![m] = 1]
        BY <2>0, <3>1, <3>3, FirstReading
      <4> QED
        BY <3>1, <4>1, Small, Zenon
    <3> QED
      BY <3>2, <3>3
  <2>2. /\ at' \in [Msgs -> Places] /\ at'[m] = "turn" /\ \A n \in Msgs : n # m => at'[n] = at[n]
        /\ \A n \in Msgs : Works(n)' <=> n = m
    BY <1>0, <1>2, <2>0 DEF Places, Inside, Works, Working
  <2>3. InboundTyped'
    BY <1>0, <1>1, <2>0, <2>1, <2>2 DEF InboundInv, InboundTyped
  <2>4. MessageTells'
    <3> SUFFICES ASSUME NEW n \in Msgs PROVE Tells(n)'
      BY DEF MessageTells
    <3>1. CASE n = m
      BY <1>0, <1>1, <2>0, <2>1, <2>2, <3>1 DEF Tells, Working, NotYet
    <3>2. CASE n # m
      <4>1. Tells(n)
        BY DEF InboundInv, MessageTells
      <4> QED
        BY <1>1, <2>0, <2>1, <2>2, <3>2, <4>1 DEF Tells
    <3> QED
      BY <3>1, <3>2
  <2>5. Apart'
    <3>1. \A n \in Msgs : at'[n] \in Inside => at[n] \in Inside
      BY <1>0, <2>2 DEF Inside
    <3> QED
      BY <1>0, <2>0, <3>1 DEF InboundInv, Apart
  <2>6. KeptTells'
    BY <1>0, <2>0, <2>2 DEF InboundInv, KeptTells
  <2>7. PhaseTells' /\ OldTurnsAreOver'
    BY <1>0, <1>3 DEF InboundInv, PhaseTells, OldTurnsAreOver
  <2>8. FloorIsUsed'
    BY <1>0, <2>0, <2>2 DEF FloorIsUsed
  <2> QED
    BY <2>3, <2>4, <2>5, <2>6, <2>7, <2>8 DEF InboundInv
<1>5. CASE ~Bound
  <2>0. /\ at' = [at EXCEPT ![m] = "lost"] /\ kept' = None /\ GiveBack({lease[m]}) /\ reads' = reads
    BY <1>5 DEF ReadGrant, Go
  <2>1. /\ at' \in [Msgs -> Places] /\ at'[m] = "lost" /\ \A n \in Msgs : n # m => at'[n] = at[n]
    BY <1>0, <2>0 DEF Places, Gone
  <2>2. /\ lease' = lease /\ granted' = granted /\ floor' = Open
        /\ verdict' \in [Msgs -> {"none", "collecting", "ours", "closed"}]
        /\ verdict'[m] = "closed"
        /\ \A n \in Msgs : n # m => verdict'[n] = verdict[n] /\ verdict[n] # "ours"
    <3>1. \A n \in Msgs : n # m => lease[n] # lease[m]
      BY <1>0 DEF InboundInv, Apart, None
    <3>2. \A n \in Msgs : n # m => verdict[n] # "ours"
      BY <1>0, <3>1 DEF InboundInv, MessageTells, Tells
    <3> QED
      BY <1>0, <2>0, <3>1, <3>2, Returned DEF GiveBack
  <2>3. InboundTyped'
    <3>1. None \in 0 .. MaxTurns
      BY InboundConstantsOK DEF None
    <3> QED
      BY <1>0, <1>1, <2>0, <2>1, <2>2, <3>1 DEF InboundInv, InboundTyped, Open
  <2>4. MessageTells'
    <3> SUFFICES ASSUME NEW n \in Msgs PROVE Tells(n)'
      BY DEF MessageTells
    <3>1. CASE n = m
      BY <1>0, <1>1, <2>0, <2>1, <2>2, <3>1 DEF Tells, Working, NotYet, Open
    <3>2. CASE n # m
      <4>1. Tells(n)
        BY DEF InboundInv, MessageTells
      <4> QED
        BY <1>1, <2>0, <2>1, <2>2, <3>2, <4>1 DEF Tells, Open
    <3> QED
      BY <3>1, <3>2
  <2>5. Apart'
    <3>1. \A n \in Msgs : at'[n] \in Inside => at[n] \in Inside
      BY <1>0, <2>1 DEF Inside
    <3> QED
      BY <1>0, <2>0, <2>2, <3>1 DEF InboundInv, InboundTyped, Apart, None, Open
  <2>6. KeptTells' /\ FloorIsUsed'
    BY <1>0, <2>0, <2>2 DEF InboundInv, KeptTells, FloorIsUsed, Open
  <2>7. PhaseTells' /\ OldTurnsAreOver'
    BY <1>0, <1>3 DEF InboundInv, PhaseTells, OldTurnsAreOver
  <2> QED
    BY <2>3, <2>4, <2>5, <2>6, <2>7 DEF InboundInv
<1> QED
  BY <1>4, <1>5

LEMMA QueueAnswerSafe == ASSUME InboundInv, NEW m \in Msgs, QueueAnswer(m) PROVE InboundInv'
<1>0. /\ at[m] = "turn" /\ Works(m) /\ at \in [Msgs -> Places] /\ at' = [at EXCEPT ![m] = "over"]
      /\ waiting \in Nat /\ waiting' = waiting + 1
      /\ UNCHANGED <<reads, turns, tries, verdict, lease, floor, granted, kept, flying, link>>
  BY DEF InboundInv, InboundTyped, QueueAnswer, Go, Works, Working, floorVars
<1>1. /\ at'[m] = "over" /\ \A n \in Msgs : n # m => at'[n] = at[n]
      /\ at' \in [Msgs -> Places] /\ \A n \in Msgs : Works(n)' <=> Works(n) /\ n # m
      /\ \A n \in Msgs : Works(n) => n = m
  BY <1>0 DEF Places, Gone, Works, Working, InboundInv, Apart, Inside
<1>2. InboundTyped'
  BY <1>0, <1>1 DEF InboundInv, InboundTyped
<1>3. MessageTells'
  <2> SUFFICES ASSUME NEW n \in Msgs PROVE Tells(n)'
    BY DEF MessageTells
  <2>1. Tells(n) /\ verdict[n] \in {"none", "collecting", "ours", "closed"}
    BY DEF InboundInv, InboundTyped, MessageTells
  <2>2. CASE n = m
    <3>1. turns[m] = 1 /\ reads[m] = 1 /\ verdict[m] \in {"ours", "closed"}
      BY <1>0, <2>1, <2>2, Small DEF Tells, Works
    <3> QED
      BY <1>0, <1>1, <2>1, <2>2, <3>1 DEF Tells, Working, NotYet
  <2>3. CASE n # m
    BY <1>0, <1>1, <2>1, <2>3 DEF Tells
  <2> QED
    BY <2>2, <2>3
<1>4. Apart'
  BY <1>0, <1>1 DEF InboundInv, Apart, Inside
<1>5. KeptTells'
  BY <1>0, <1>1 DEF InboundInv, KeptTells
<1>6. PhaseTells'
  BY <1>0 DEF InboundInv, PhaseTells
<1>7. OldTurnsAreOver'
  <2>1. Busy(m)
    BY <1>0 DEF Busy, Gone
  <2> QED
    BY <1>0, <2>1 DEF InboundInv, OldTurnsAreOver
<1>8. FloorIsUsed'
  <2>1. floor.who = "us" /\ floor.lease = lease[m] => floor.lease = kept
    BY <1>0 DEF InboundInv, KeptTells
  <2>2. waiting' > 0
    BY <1>0
  <2>3. floor.lease = kept /\ waiting > 0 => floor.lease = kept' /\ waiting' > 0
    BY <1>0, <2>2
  <2> QED
    BY <1>0, <1>1, <2>1, <2>2, <2>3 DEF InboundInv, FloorIsUsed
<1> QED
  BY <1>2, <1>3, <1>4, <1>5, <1>6, <1>7, <1>8 DEF InboundInv

-----------------------------------------------------------------------------
(* The delivery. *)

LEMMA LaunchSafe == InboundInv /\ Launch => InboundInv'
<1> SUFFICES ASSUME InboundInv, Launch PROVE InboundInv'
  OBVIOUS
<1>0. /\ waiting \in Nat /\ waiting > 0 /\ flying = None /\ link.phase = "on" /\ kept' = None
      /\ kept \in 0 .. MaxTurns /\ granted \in 0 .. MaxTurns /\ MaxTurns \in Nat
      /\ UNCHANGED <<at, reads, turns, tries, waiting, link>>
  BY InboundConstantsOK DEF InboundInv, InboundTyped, Launch
<1>1. PhaseTells' /\ OldTurnsAreOver'
  BY <1>0 DEF PhaseTells, OldTurnsAreOver
<1>2. CASE kept # None /\ GiveBack({kept}) /\ UNCHANGED flying
  <2>1. InboundTyped' /\ MessageTells' /\ Apart'
    BY <1>0, <1>2, Returns DEF InboundInv, InboundTyped, Link
  <2>2. lease' = lease /\ (floor'.who = "us" => floor' = floor /\ floor.lease # kept)
    BY <1>2, Returned
  <2>3. KeptTells' /\ FloorIsUsed'
    BY <1>0, <1>2, <2>2 DEF InboundInv, KeptTells, FloorIsUsed, Works
  <2> QED
    BY <1>1, <2>1, <2>3 DEF InboundInv
<1>3. CASE /\ floor = Open \/ (floor.who = "us" /\ floor.lease = kept)
           /\ granted < MaxTurns /\ granted' = granted + 1 /\ floor' = Ours(granted') /\ flying' = granted'
           /\ verdict' = [m \in Msgs |-> IF verdict[m] = "ours" /\ lease[m] = kept THEN "closed"
                                         ELSE verdict[m]]
           /\ UNCHANGED lease
  <2>0. /\ granted' \in 1 .. MaxTurns /\ granted' # None
        /\ floor' = [who |-> "us", lease |-> granted'] /\ lease' = lease
        /\ \A m \in Msgs : lease[m] \in Nat /\ lease[m] <= granted /\ lease[m] # granted'
    BY <1>0, <1>3 DEF InboundInv, InboundTyped, Apart, Ours, None
  <2>1. /\ verdict' \in [Msgs -> {"none", "collecting", "ours", "closed"}]
        /\ \A m \in Msgs : /\ verdict'[m] # "ours"
                           /\ verdict'[m] = verdict[m] \/ (verdict[m] = "ours" /\ verdict'[m] = "closed")
    <3>1. /\ verdict \in [Msgs -> {"none", "collecting", "ours", "closed"}]
          /\ \A m \in Msgs : verdict[m] = "ours" => floor.who = "us" /\ lease[m] = floor.lease
      BY DEF InboundInv, InboundTyped, MessageTells, Tells
    <3>2. \A m \in Msgs : verdict[m] = "ours" => lease[m] = kept
      BY <1>3, <3>1 DEF Open
    <3> QED
      BY <1>3, <3>1, <3>2
  <2>2. InboundTyped'
    <3>1. None \in 0 .. MaxTurns
      BY InboundConstantsOK DEF None
    <3> QED
      BY <1>0, <1>3, <2>0, <2>1, <3>1 DEF InboundInv, InboundTyped
  <2>3. MessageTells'
    <3> SUFFICES ASSUME NEW m \in Msgs PROVE Tells(m)'
      BY DEF MessageTells
    <3>1. Tells(m)
      BY DEF InboundInv, MessageTells
    <3> QED
      BY <1>0, <2>0, <2>1, <3>1 DEF Tells
  <2>4. Apart'
    <3>1. kept' <= granted' /\ flying' <= granted' /\ granted' \in 1 .. granted'
      BY <1>0, <1>3 DEF None
    <3>2. \A m \in Msgs : lease[m] <= granted'
      BY <1>0, <1>3, <2>0
    <3> QED
      BY <1>0, <1>3, <2>0, <3>1, <3>2 DEF InboundInv, Apart
  <2>5. KeptTells'
    BY <1>0, <1>3, <2>0 DEF InboundInv, KeptTells, Works
  <2>6. FloorIsUsed'
    BY <1>3, <2>0 DEF FloorIsUsed
  <2> QED
    BY <1>1, <2>2, <2>3, <2>4, <2>5, <2>6 DEF InboundInv
<1> QED
  BY <1>2, <1>3 DEF Launch

LEMMA LandSafe == InboundInv /\ Land => InboundInv'
<1> SUFFICES ASSUME InboundInv, Land PROVE InboundInv'
  OBVIOUS
<1>0. /\ flying # None /\ GiveBack({flying}) /\ flying' = None /\ waiting' \in {waiting, waiting - 1}
      /\ UNCHANGED <<at, reads, turns, tries, kept, link>>
  BY DEF Land
<1>1. waiting \in Nat /\ waiting >= 1 /\ waiting' \in Nat /\ waiting' >= waiting - 1
  BY <1>0 DEF InboundInv, InboundTyped, KeptTells
<1>2. InboundTyped' /\ MessageTells' /\ Apart'
  BY <1>0, <1>1, Returns DEF InboundInv, InboundTyped, Link
<1>3. lease' = lease /\ (floor'.who = "us" => floor' = floor /\ floor.lease # flying)
  BY <1>0, Returned
<1>4. KeptTells'
  <2>1. kept # None => (\E m \in Msgs : Works(m) /\ lease[m] = kept) \/ waiting' >= 1
    BY <1>0, <1>1 DEF InboundInv, KeptTells
  <2> QED
    BY <1>0, <1>3, <2>1 DEF InboundInv, KeptTells, Works
<1>5. PhaseTells' /\ OldTurnsAreOver'
  BY <1>0 DEF InboundInv, PhaseTells, OldTurnsAreOver
<1>6. FloorIsUsed'
  <2> SUFFICES ASSUME floor'.who = "us"
               PROVE  \/ floor.lease = kept /\ waiting' > 0
                      \/ \E n \in Msgs : /\ lease[n] = floor.lease
                                         /\ at[n] \in {"turn", "sending"} \/ (turns[n] = 0 /\ at[n] # "over")
    BY <1>0, <1>3 DEF FloorIsUsed
  <2>1. floor.who = "us" /\ floor.lease # flying
    BY <1>3
  <2>2. CASE floor.lease = kept
    <3>1. kept # None
      BY <2>1, <2>2 DEF InboundInv, Apart, None
    <3>2. CASE \E m \in Msgs : Works(m) /\ lease[m] = kept
      BY <2>2, <3>2 DEF Works, Working
    <3>3. CASE waiting >= 2
      BY <1>1, <2>2, <3>3
    <3> QED
      BY <1>0, <3>1, <3>2, <3>3 DEF InboundInv, KeptTells
  <2>3. CASE floor.lease # kept
    BY <2>1, <2>3 DEF InboundInv, FloorIsUsed
  <2> QED
    BY <2>2, <2>3
<1> QED
  BY <1>2, <1>4, <1>5, <1>6 DEF InboundInv

-----------------------------------------------------------------------------
(* The engine is taken away and put back. *)

LEMMA PhaseSafe == InboundInv /\ (RetireBound \/ Unbind \/ Rebind) => InboundInv'
<1> SUFFICES ASSUME InboundInv, RetireBound \/ Unbind \/ Rebind PROVE InboundInv'
  OBVIOUS
<1>0. /\ link' \in Link /\ link'.phase \notin {"drained", "bare"}
      /\ UNCHANGED <<at, reads, turns, tries, verdict, lease, floor, granted, kept, waiting, flying>>
  <2>1. link \in Link /\ MaxRebinds \in Nat
    BY InboundConstantsOK DEF InboundInv, InboundTyped, Link
  <2> QED
    BY <2>1 DEF RetireBound, Unbind, Rebind, InPhase, Link, floorVars
<1>1. InboundTyped'
  BY <1>0 DEF InboundInv, InboundTyped, Link
<1>2. MessageTells' /\ Apart' /\ KeptTells' /\ PhaseTells' /\ FloorIsUsed' /\ OldTurnsAreOver'
  BY <1>0 DEF InboundInv, MessageTells, Tells, Apart, KeptTells, Works, PhaseTells, FloorIsUsed, OldTurnsAreOver
<1> QED
  BY <1>1, <1>2 DEF InboundInv

LEMMA CutOffPlaces ==
  ASSUME InboundInv, NEW S \in SUBSET Msgs, CutOff(S)
  PROVE  /\ at' \in [Msgs -> Places]
         /\ \A m \in Msgs : at'[m] = IF m \in S THEN "lost" ELSE at[m]
         /\ \A m \in Msgs : Works(m)' <=> Works(m) /\ m \notin S
BY DEF InboundInv, InboundTyped, CutOff, Places, Gone, Works, Working

LEMMA CancelHandlersSafe == InboundInv /\ CancelHandlers => InboundInv'
<1> SUFFICES ASSUME InboundInv, CancelHandlers PROVE InboundInv'
  OBVIOUS
<1> DEFINE handlers == {m \in Msgs : Busy(m) /\ tries[m] = 0}
           ls == LeasesOf(handlers) \cup {flying}
<1>0. /\ CutOff(handlers) /\ GiveBack(ls) /\ kept' = (IF kept \in ls THEN None ELSE kept) /\ flying' = None
      /\ link' = [link EXCEPT !.phase = "drained"] /\ link \in Link
      /\ UNCHANGED <<reads, turns, tries, waiting>>
  BY DEF InboundInv, InboundTyped, CancelHandlers, Unkept, InPhase, Link
<1>1. \A m \in handlers : Works(m) => lease[m] \in ls
  BY DEF LeasesOf, Works, Working
<1> HIDE DEF ls
<1>2. /\ at' \in [Msgs -> Places]
      /\ \A m \in Msgs : at'[m] = IF m \in handlers THEN "lost" ELSE at[m]
      /\ \A m \in Msgs : Works(m)' <=> Works(m) /\ m \notin handlers
  BY <1>0, CutOffPlaces
<1> HIDE DEF handlers
<1>3. link' \in Link /\ link'.phase = "drained"
  BY <1>0 DEF Link
<1>4. InboundTyped' /\ MessageTells' /\ Apart'
  <2>1. waiting' \in Nat
    BY <1>0 DEF InboundInv, InboundTyped
  <2> QED
    BY <1>0, <1>2, <1>3, <2>1, Returns
<1>5. /\ lease' = lease /\ (floor'.who = "us" => floor' = floor /\ floor.lease \notin ls)
  BY <1>0, Returned
<1>6. flying \in ls
  BY DEF ls
<1>7. KeptTells'
  <2>1. ASSUME NEW m \in Msgs, Works(m)', floor'.who = "us", floor'.lease = lease'[m]
        PROVE  kept' = lease'[m]
    BY <1>0, <1>2, <1>5, <2>1 DEF InboundInv, KeptTells
  <2>2. ASSUME kept' # None
        PROVE  (\E m \in Msgs : Works(m)' /\ lease'[m] = kept') \/ waiting' >= 1
    <3>1. kept' = kept /\ kept \notin ls /\ kept # None
      BY <1>0, <2>2
    <3>2. CASE \E m \in Msgs : Works(m) /\ lease[m] = kept
      BY <1>1, <1>2, <1>5, <3>1, <3>2
    <3>3. CASE waiting >= IF flying = None THEN 1 ELSE 2
      BY <1>0, <3>3 DEF InboundInv, InboundTyped
    <3> QED
      BY <3>1, <3>2, <3>3 DEF InboundInv, KeptTells
  <2> QED
    BY <1>0, <2>1, <2>2 DEF KeptTells
<1>8. PhaseTells' /\ OldTurnsAreOver'
  BY <1>0, <1>3 DEF PhaseTells, OldTurnsAreOver
<1>9. FloorIsUsed'
  <2> SUFFICES ASSUME floor'.who = "us"
               PROVE  \/ floor.lease = kept' /\ waiting' > 0
                      \/ \E n \in Msgs : /\ lease[n] = floor.lease
                                         /\ at'[n] \in {"turn", "sending"} \/ (turns[n] = 0 /\ at'[n] # "over")
    BY <1>0, <1>5 DEF FloorIsUsed
  <2>1. floor.who = "us" /\ floor.lease \notin ls
    BY <1>5
  <2>2. CASE floor.lease = kept /\ waiting > 0
    BY <1>0, <2>1, <2>2
  <2>3. CASE \E n \in Msgs : /\ lease[n] = floor.lease
                             /\ at[n] \in {"turn", "sending"} \/ (turns[n] = 0 /\ at[n] # "over")
    BY <1>1, <1>2, <2>1, <2>3 DEF Works, Working
  <2> QED
    BY <1>6, <2>1, <2>2, <2>3 DEF InboundInv, FloorIsUsed
<1> QED
  BY <1>4, <1>7, <1>8, <1>9 DEF InboundInv

LEMMA CancelRetriesSafe == InboundInv /\ CancelRetries => InboundInv'
<1> SUFFICES ASSUME InboundInv, CancelRetries PROVE InboundInv'
  OBVIOUS
<1> DEFINE retries == {m \in Msgs : Busy(m)}
           ls == KeptToo(LeasesOf(retries))
<1>0. /\ CutOff(retries) /\ GiveBack(ls) /\ kept' = None /\ link.phase = "drained"
      /\ link' = [link EXCEPT !.phase = "bare"] /\ link \in Link
      /\ UNCHANGED <<reads, turns, tries, waiting, flying>>
  BY DEF InboundInv, InboundTyped, CancelRetries, InPhase, Link
<1>1. kept \in ls
  BY DEF KeptToo
<1> HIDE DEF ls
<1>2. /\ at' \in [Msgs -> Places]
      /\ \A m \in Msgs : at'[m] = IF Busy(m) THEN "lost" ELSE at[m]
      /\ \A m \in Msgs : ~Works(m)' /\ ~Busy(m)'
  <2>1. \A m \in Msgs : at'[m] = IF m \in retries THEN "lost" ELSE at[m]
    BY <1>0, CutOffPlaces
  <2> QED
    BY <1>0, <2>1, CutOffPlaces DEF Busy, Gone, Works, Working
<1>3. link' \in Link /\ link'.phase = "bare" /\ flying = None /\ flying' = None
  BY <1>0 DEF Link, InboundInv, PhaseTells
<1>4. InboundTyped' /\ MessageTells' /\ Apart'
  <2>1. waiting' \in Nat
    BY <1>0 DEF InboundInv, InboundTyped
  <2> QED
    BY <1>0, <1>2, <1>3, <2>1, Returns
<1>5. /\ lease' = lease /\ (floor'.who = "us" => floor' = floor /\ floor.lease \notin ls)
  BY <1>0, Returned
<1>6. KeptTells' /\ PhaseTells'
  BY <1>0, <1>2, <1>3 DEF KeptTells, PhaseTells
<1>7. ASSUME floor'.who = "us"
      PROVE  \E n \in Msgs : lease'[n] = floor'.lease /\ turns'[n] = 0 /\ at'[n] # "over"
  <2>1. floor' = floor /\ floor.who = "us" /\ floor.lease \notin ls /\ floor.lease # None
    BY <1>5, <1>7 DEF InboundInv, Apart, None
  <2>2. PICK n \in Msgs : /\ lease[n] = floor.lease
                          /\ at[n] \in {"turn", "sending"} \/ (turns[n] = 0 /\ at[n] # "over")
    BY <1>1, <1>3, <2>1 DEF InboundInv, FloorIsUsed
  <2>3. ~Works(n)
    BY <1>1, <2>1, <2>2 DEF InboundInv, KeptTells
  <2> QED
    BY <1>0, <1>2, <1>5, <2>1, <2>2, <2>3 DEF Works, Working
<1>8. FloorIsUsed' /\ OldTurnsAreOver'
  BY <1>0, <1>2, <1>3, <1>7 DEF FloorIsUsed, OldTurnsAreOver
<1> QED
  BY <1>4, <1>6, <1>8 DEF InboundInv

-----------------------------------------------------------------------------
LEMMA InboundStepSafe == InboundInv /\ [InboundNext]_inboundVars => InboundInv'
<1> SUFFICES ASSUME InboundInv, [InboundNext]_inboundVars PROVE InboundInv'
  OBVIOUS
<1>1. CASE UNCHANGED inboundVars
  <2>1. InboundTyped' /\ KeptTells' /\ PhaseTells'
    BY <1>1 DEF inboundVars, InboundInv, InboundTyped, KeptTells, Works, PhaseTells
  <2>2. MessageTells'
    BY <1>1 DEF inboundVars, InboundInv, MessageTells, Tells
  <2>3. Apart'
    BY <1>1 DEF inboundVars, InboundInv, Apart
  <2>4. FloorIsUsed' /\ OldTurnsAreOver'
    BY <1>1 DEF inboundVars, InboundInv, FloorIsUsed, OldTurnsAreOver, Busy
  <2> QED
    BY <2>1, <2>2, <2>3, <2>4 DEF InboundInv
<1>2. CASE \E m \in Msgs : Deliver(m) \/ Handle(m)
  BY <1>2, MovesSafe, GrantSafe, RefuseSafe, ReadGrantSafe, QueueAnswerSafe, EndOfTurnSafe DEF Handle
<1>3. CASE Rival \/ FloorLapses \/ Launch \/ Land
  BY <1>3, RivalSafe, FloorLapsesSafe, LaunchSafe, LandSafe
<1>4. CASE RetireBound \/ Unbind \/ CancelHandlers \/ CancelRetries \/ Rebind
  BY <1>4, PhaseSafe, CancelHandlersSafe, CancelRetriesSafe
<1> QED
  BY <1>1, <1>2, <1>3, <1>4 DEF InboundNext

THEOREM InboundInvariance == InboundSpec => []InboundInv
BY InboundInitSafe, InboundStepSafe, PTL DEF InboundSpec

(* However a group's messages are deferred, asked about again, granted     *)
(* late or cut off by a rebind: each is read once and has one turn, and a  *)
(* lease is the group's only while something is done or waits under it.    *)
THEOREM InboundKept == InboundSpec => []InboundSafety
<1>1. InboundInv => ReadExactlyOnce
  <2> SUFFICES ASSUME InboundInv, NEW m \in Msgs
               PROVE  reads[m] <= 1 /\ turns[m] <= 1 /\ (at[m] = "over" => reads[m] = 1)
    BY DEF ReadExactlyOnce
  <2>1. Tells(m)
    BY DEF InboundInv, MessageTells
  <2>2. reads[m] \in {0, 1} /\ turns[m] \in {0, 1} /\ (at[m] = "over" => reads[m] = 1)
    BY <2>1 DEF Tells
  <2> QED
    BY <2>2
<1>2. InboundInv => InboundSafety
  BY <1>1 DEF InboundInv, InboundSafety
<1> QED
  BY <1>2, InboundInvariance, PTL

=============================================================================
