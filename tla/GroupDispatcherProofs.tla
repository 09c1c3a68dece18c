------------------------ MODULE GroupDispatcherProofs ------------------------
(***************************************************************************)
(* What TLAPS proves of GroupDispatcher, for any workers, groups, events   *)
(* and bounds.  The inductive invariant is TypeOK together with            *)
(* LeaseAgreesWithRow and NoReceiptInFlight; each transaction first passes *)
(* from (row, turn) to the expired tables (RowAfter(D), TurnAfter(D)) and  *)
(* then changes one event, so the lemmas follow these two halves.          *)
(***************************************************************************)
EXTENDS GroupDispatcher, TLAPS

(* A settled id is not being worked on. *)
NoReceiptInFlight ==
  \A s \in Stable : receipt[s] # "none" => row[s].status \notin Active

IInv == TypeOK /\ LeaseAgreesWithRow /\ NoReceiptInFlight

-----------------------------------------------------------------------------
(* The tables after the overdue leases of D were retired. *)

(* Expiry changes nothing but the status of the retired events. *)
LEMMA RowAfterIs ==
  ASSUME NEW D \in SUBSET Groups, row \in [Events -> RowType]
  PROVE  /\ RowAfter(D) \in [Events -> RowType]
         /\ \A e \in Events :
              /\ RowAfter(D)[e].lease = row[e].lease
              /\ RowAfter(D)[e].worker = row[e].worker
              /\ ~Retired(e, D) => RowAfter(D)[e] = row[e]
              /\ Retired(e, D) => RowAfter(D)[e].status \in {"uncertain", "expired"}
BY DEF RowAfter, RowType, Status

(* Receipts only grow, and expiry writes one for each retired delivery. *)
LEMMA ReceiptAfterIs ==
  ASSUME NEW D \in SUBSET Groups, ConstantsOK, TypeOK
  PROVE  /\ ReceiptAfter(D) \in [Stable -> {"none", "sent", "uncertain"}]
         /\ \A s \in Stable :
              /\ receipt[s] # "none" => ReceiptAfter(D)[s] = receipt[s]
              /\ Retired(s, D) /\ row[s].status = "sending" => ReceiptAfter(D)[s] # "none"
              /\ ~Retired(s, D) => ReceiptAfter(D)[s] = receipt[s]
              /\ row[s].status # "sending" => ReceiptAfter(D)[s] = receipt[s]
BY DEF ReceiptAfter, Receipted, TypeOK, Events

(* Retiring leases keeps the two tables in agreement. *)
LEMMA ExpiryAgrees ==
  ASSUME NEW D \in SUBSET Groups, ConstantsOK, TypeOK, Agrees(row, turn)
  PROVE  /\ Agrees(RowAfter(D), TurnAfter(D))
         /\ TurnAfter(D) \in [Groups -> TurnType]
<1>1. TurnAfter(D) \in [Groups -> TurnType]
  BY DEF TurnAfter, TurnType, TypeOK, Idle
<1>2. \A g \in Groups : TurnAfter(D)[g] = IF g \in D THEN Idle ELSE turn[g]
  BY DEF TurnAfter
<1>3. row \in [Events -> RowType] /\ turn \in [Groups -> TurnType]
  BY DEF TypeOK
<1>4. \A e \in Events : GroupOf[e] \in Groups
  BY DEF ConstantsOK
<1>5. \A e \in Events : e # NoEvent
  BY DEF ConstantsOK
<1>6. \A e \in Events : Retired(e, D) /\ row[e].status \in Active => GroupOf[e] \in D
  <2> SUFFICES ASSUME NEW e \in Events, NEW g \in D, turn[g].event = e PROVE GroupOf[e] = g
    BY DEF Retired
  <2>1. turn[g] # Idle
    BY <1>5 DEF Idle
  <2> QED BY <2>1 DEF Agrees
<1>7. ASSUME NEW g \in Groups, TurnAfter(D)[g] # Idle
      PROVE  /\ TurnAfter(D)[g] = turn[g] /\ turn[g] # Idle /\ ~Retired(turn[g].event, D)
  <2>1. g \notin D /\ TurnAfter(D)[g] = turn[g]
    BY <1>2, <1>7
  <2>2. turn[g].event \in Events /\ GroupOf[turn[g].event] = g /\ row[turn[g].event].status \in Active
    BY <2>1, <1>7 DEF Agrees
  <2> QED BY <2>1, <2>2, <1>6, <1>7
<1>8. ASSUME NEW e \in Events, RowAfter(D)[e].status \in Active
      PROVE  TurnAfter(D)[GroupOf[e]].event = e
  <2>1. ~Retired(e, D) /\ row[e].status \in Active
    BY <1>8, <1>3, RowAfterIs DEF Active
  <2>2. turn[GroupOf[e]].event = e
    BY <2>1 DEF Agrees
  <2>3. GroupOf[e] \notin D
    BY <2>1, <2>2 DEF Retired
  <2> QED BY <2>2, <2>3, <1>2, <1>4
<1>9. \A g \in Groups : TurnAfter(D)[g] # Idle =>
        /\ TurnAfter(D)[g].event \in Events /\ GroupOf[TurnAfter(D)[g].event] = g
        /\ RowAfter(D)[TurnAfter(D)[g].event] = row[TurnAfter(D)[g].event]
  BY <1>7, <1>3, RowAfterIs DEF Agrees
<1>10. \A g \in Groups : TurnAfter(D)[g] # Idle =>
         LET e == TurnAfter(D)[g].event IN
         /\ e \in Events /\ GroupOf[e] = g
         /\ RowAfter(D)[e].status \in Active
         /\ RowAfter(D)[e].lease = TurnAfter(D)[g].lease
         /\ RowAfter(D)[e].worker = TurnAfter(D)[g].worker
  BY <1>9, <1>7 DEF Agrees
<1>11. \A e, f \in Events :
         RowAfter(D)[e].lease = RowAfter(D)[f].lease /\ RowAfter(D)[e].lease # NoLease => e = f
  BY <1>3, RowAfterIs DEF Agrees
<1> QED BY <1>1, <1>8, <1>10, <1>11 DEF Agrees

-----------------------------------------------------------------------------
(* What a transaction then does to one event. *)

LEMMA SetStatus ==
  ASSUME NEW r \in [Events -> RowType], NEW e \in Events, NEW o \in Status
  PROVE  LET s == [r EXCEPT ![e].status = o] IN
         /\ s \in [Events -> RowType]
         /\ s[e].status = o
         /\ \A f \in Events : s[f].lease = r[f].lease /\ s[f].worker = r[f].worker
         /\ \A f \in Events \ {e} : s[f] = r[f]
<1> DEFINE s == [r EXCEPT ![e].status = o]
<1>1. r[e] \in RowType
  OBVIOUS
<1>2. s[e] = [r[e] EXCEPT !.status = o] /\ \A f \in Events \ {e} : s[f] = r[f]
  OBVIOUS
<1>3. s[e] \in RowType /\ s[e].status = o /\ s[e].lease = r[e].lease /\ s[e].worker = r[e].worker
  BY <1>1, <1>2 DEF RowType
<1> QED BY <1>2, <1>3

(* Rows that stay as active as they were, under the lease they had, or     *)
(* lose it when they were not active, agree with the same turns.           *)
SameActivity(r, s) ==
  \A e \in Events :
    /\ s[e].status \in Active <=> r[e].status \in Active
    /\ s[e].lease \in {r[e].lease, NoLease}
    /\ r[e].status \in Active => s[e].lease = r[e].lease /\ s[e].worker = r[e].worker

LEMMA SameActivityAgrees ==
  ASSUME NEW r, NEW s, NEW t, Agrees(r, t), SameActivity(r, s)
  PROVE  Agrees(s, t)
BY DEF Agrees, SameActivity

(* A fresh lease given in a free group. *)
LEMMA GrantAgrees ==
  ASSUME NEW r \in [Events -> RowType], NEW t \in [Groups -> TurnType], Agrees(r, t),
         NEW e \in Events, NEW w \in Workers, ConstantsOK,
         t[GroupOf[e]] = Idle, nextLease \in Leases,
         \A f \in Events : r[f].lease < nextLease
  PROVE  /\ [r EXCEPT ![e] = Granted(w)] \in [Events -> RowType]
         /\ [t EXCEPT ![GroupOf[e]] = TurnOf(w, e)] \in [Groups -> TurnType]
         /\ Agrees([r EXCEPT ![e] = Granted(w)], [t EXCEPT ![GroupOf[e]] = TurnOf(w, e)])
<1> DEFINE R == [r EXCEPT ![e] = Granted(w)]
           T == [t EXCEPT ![GroupOf[e]] = TurnOf(w, e)]
<1>1. GroupOf[e] \in Groups /\ e # NoEvent
  BY DEF ConstantsOK
<1>2. R \in [Events -> RowType] /\ T \in [Groups -> TurnType]
  BY <1>1 DEF Granted, TurnOf, RowType, TurnType, Status
<1>3. R[e] = Granted(w) /\ \A f \in Events \ {e} : R[f] = r[f]
  BY DEF RowType
<1>4. T[GroupOf[e]] = TurnOf(w, e) /\ \A g \in Groups \ {GroupOf[e]} : T[g] = t[g]
  BY <1>1
<1>5. ASSUME NEW g \in Groups, T[g] # Idle
      PROVE  LET f == T[g].event IN
             /\ f \in Events /\ GroupOf[f] = g
             /\ R[f].status \in Active /\ R[f].lease = T[g].lease /\ R[f].worker = T[g].worker
  <2>1. CASE g = GroupOf[e]
    BY <2>1, <1>3, <1>4 DEF Granted, TurnOf, Active
  <2>2. CASE g # GroupOf[e]
    <3>1. T[g] = t[g] /\ t[g].event \in Events /\ GroupOf[t[g].event] = g
      BY <2>2, <1>4, <1>5 DEF Agrees
    <3>2. t[g].event # e
      BY <3>1, <2>2
    <3>3. R[t[g].event] = r[t[g].event]
      BY <3>1, <3>2, <1>3
    <3> QED BY <3>1, <3>3, <1>5 DEF Agrees
  <2> QED BY <2>1, <2>2
<1>6. ASSUME NEW f \in Events, R[f].status \in Active
      PROVE  T[GroupOf[f]].event = f
  <2>1. CASE f = e
    BY <2>1, <1>4 DEF TurnOf
  <2>2. CASE f # e
    <3>1. t[GroupOf[f]].event = f
      BY <2>2, <1>3, <1>6 DEF Agrees
    <3>2. GroupOf[f] # GroupOf[e]
      BY <3>1 DEF Idle, ConstantsOK
    <3> QED BY <3>1, <3>2, <1>4 DEF ConstantsOK
  <2> QED BY <2>1, <2>2
<1>7. ASSUME NEW f \in Events, NEW h \in Events, R[f].lease = R[h].lease, R[f].lease # NoLease
      PROVE  f = h
  <2>1. R[e].lease = nextLease /\ nextLease \in Nat
    BY <1>3 DEF Granted, Leases, ConstantsOK
  <2>2. \A k \in Events \ {e} : R[k].lease = r[k].lease /\ R[k].lease < nextLease
    BY <1>3
  <2>3. (f = e) <=> (h = e)
    BY <2>1, <2>2, <1>7
  <2>4. CASE f # e
    BY <2>2, <2>3, <2>4, <1>7 DEF Agrees
  <2> QED BY <2>3, <2>4
<1> QED BY <1>2, <1>5, <1>6, <1>7 DEF Agrees

(* A turn given back. *)
LEMMA ReleaseAgrees ==
  ASSUME ConstantsOK, TypeOK, Agrees(row, turn), NEW g \in Groups, turn[g] # Idle,
         NEW o \in Status \ Active
  PROVE  /\ [row EXCEPT ![turn[g].event].status = o] \in [Events -> RowType]
         /\ [turn EXCEPT ![g] = Idle] \in [Groups -> TurnType]
         /\ Agrees([row EXCEPT ![turn[g].event].status = o], [turn EXCEPT ![g] = Idle])
<1> DEFINE e == turn[g].event
           R == [row EXCEPT ![e].status = o]
           T == [turn EXCEPT ![g] = Idle]
<1>1. row \in [Events -> RowType] /\ turn \in [Groups -> TurnType]
  BY DEF TypeOK
<1>2. e \in Events /\ GroupOf[e] = g
  BY DEF Agrees
<1>3. T \in [Groups -> TurnType]
  BY <1>1 DEF TurnType, Idle
<1>4. /\ R \in [Events -> RowType]
      /\ R[e].status = o
      /\ \A f \in Events : R[f].lease = row[f].lease /\ R[f].worker = row[f].worker
      /\ \A f \in Events \ {e} : R[f] = row[f]
  BY <1>1, <1>2, SetStatus
<1>5. T[g] = Idle /\ \A h \in Groups \ {g} : T[h] = turn[h]
  BY <1>1
<1>6. ASSUME NEW h \in Groups, T[h] # Idle
      PROVE  LET f == T[h].event IN
             /\ f \in Events /\ GroupOf[f] = h
             /\ R[f].status \in Active /\ R[f].lease = T[h].lease /\ R[f].worker = T[h].worker
  <2>1. h # g /\ T[h] = turn[h]
    BY <1>5, <1>6
  <2>2. turn[h].event \in Events /\ GroupOf[turn[h].event] = h
    BY <2>1, <1>6 DEF Agrees
  <2>3. R[turn[h].event] = row[turn[h].event]
    BY <2>1, <2>2, <1>2, <1>4
  <2> QED BY <2>1, <2>2, <2>3, <1>6 DEF Agrees
<1>7. ASSUME NEW f \in Events, R[f].status \in Active
      PROVE  T[GroupOf[f]].event = f
  <2>1. f # e
    BY <1>4, <1>7
  <2>2. turn[GroupOf[f]].event = f
    BY <2>1, <1>4, <1>7 DEF Agrees
  <2>3. GroupOf[f] # g
    BY <2>1, <2>2
  <2> QED BY <2>2, <2>3, <1>5 DEF ConstantsOK
<1>8. \A f, h \in Events : R[f].lease = R[h].lease /\ R[f].lease # NoLease => f = h
  BY <1>4 DEF Agrees
<1> QED BY <1>3, <1>4, <1>6, <1>7, <1>8 DEF Agrees

-----------------------------------------------------------------------------
(* The four tables of the ledger, as one consistent whole. *)

TablesOK(r, t, c, n) ==
  /\ r \in [Events -> RowType]
  /\ t \in [Groups -> TurnType]
  /\ c \in [Stable -> {"none", "sent", "uncertain"}]
  /\ n \in 1..(MaxLease + 1)
  /\ Agrees(r, t)
  /\ \A e \in Events : r[e].lease < n
  /\ \A s \in Stable : c[s] # "none" => r[s].status \notin Active

(* The rest of the type invariant. *)
RestOK ==
  /\ vote \in [Inbound -> [Workers -> Votes \cup {"none"}]]
  /\ live \subseteq Workers
  /\ peerTurns \in [Groups -> Nat]
  /\ required \subseteq Groups
  /\ loop \in [Groups -> Workers \cup {NoWorker}]
  /\ lapsed \subseteq Groups /\ ripe \subseteq Inbound
  /\ cooling \subseteq Groups /\ settling \subseteq Groups
  /\ held \in [Workers -> SUBSET Leases]

LEMMA IInvSplit == IInv <=> TablesOK(row, turn, receipt, nextLease) /\ RestOK
BY DEF IInv, TypeOK, LeaseAgreesWithRow, NoReceiptInFlight, TablesOK, RestOK

LEMMA IInvSplitPrimed == IInv' <=> TablesOK(row', turn', receipt', nextLease') /\ RestOK'
BY DEF IInv, TypeOK, LeaseAgreesWithRow, NoReceiptInFlight, TablesOK, RestOK,
       Agrees, RowType, TurnType

LEMMA ExpiredTables ==
  ASSUME ConstantsOK, IInv, NEW D \in SUBSET Groups
  PROVE  TablesOK(RowAfter(D), TurnAfter(D), ReceiptAfter(D), nextLease)
<1>1. TypeOK /\ Agrees(row, turn) /\ NoReceiptInFlight /\ row \in [Events -> RowType]
  BY DEF IInv, LeaseAgreesWithRow, TypeOK
<1>2. ASSUME NEW s \in Stable, ReceiptAfter(D)[s] # "none"
      PROVE  RowAfter(D)[s].status \notin Active
  <2>1. s \in Events
    BY DEF Events
  <2>2. CASE Retired(s, D)
    BY <1>1, <2>1, <2>2, RowAfterIs DEF Active
  <2>3. CASE ~Retired(s, D)
    BY <1>1, <1>2, <2>1, <2>3, RowAfterIs, ReceiptAfterIs DEF NoReceiptInFlight
  <2> QED BY <2>2, <2>3
<1>3. \A e \in Events : RowAfter(D)[e].lease < nextLease
  BY <1>1, RowAfterIs DEF TypeOK
<1>4. RowAfter(D) \in [Events -> RowType] /\ nextLease \in 1..(MaxLease + 1)
  BY <1>1, RowAfterIs DEF TypeOK
<1> QED BY <1>1, <1>2, <1>3, <1>4, ExpiryAgrees, ReceiptAfterIs DEF TablesOK

LEMMA QuietTables ==
  ASSUME NEW r, NEW s \in [Events -> RowType], NEW t, NEW c, NEW n,
         TablesOK(r, t, c, n), SameActivity(r, s)
  PROVE  TablesOK(s, t, c, n)
<1>1. \A e \in Events : r[e].lease \in Nat /\ r[e].lease < n /\ n \in Nat /\ 0 < n
  BY DEF TablesOK, RowType, Leases, NoLease
<1>2. \A e \in Events : s[e].lease < n
  BY <1>1 DEF SameActivity, NoLease
<1>3. \A e \in Stable : c[e] # "none" => s[e].status \notin Active
  BY DEF TablesOK, SameActivity, Events
<1> QED BY <1>2, <1>3, SameActivityAgrees DEF TablesOK

(* Pruning drops rows that are not active. *)
LEMMA PrunedTables ==
  ASSUME ConstantsOK, IInv, NEW D \in SUBSET Groups, NEW old, old \subseteq Prunable(D)
  PROVE  TablesOK(PrunedRow(D, old), TurnAfter(D), ReceiptAfter(D), nextLease)
<1>1. TablesOK(RowAfter(D), TurnAfter(D), ReceiptAfter(D), nextLease)
  BY ExpiredTables
<1>2. NoRow \in RowType /\ NoRow.status \notin Active /\ NoRow.lease = NoLease
  BY DEF NoRow, RowType, Status, Active
<1>3. \A e \in old : e \in Events /\ RowAfter(D)[e].status \notin Active
  BY DEF Prunable
<1>4. \A e \in Events : PrunedRow(D, old)[e] = IF e \in old THEN NoRow ELSE RowAfter(D)[e]
  BY DEF PrunedRow
<1>5. PrunedRow(D, old) \in [Events -> RowType]
  BY <1>1, <1>2 DEF PrunedRow, TablesOK
<1>6. SameActivity(RowAfter(D), PrunedRow(D, old))
  BY <1>2, <1>3, <1>4 DEF SameActivity
<1> QED BY <1>1, <1>5, <1>6, QuietTables

LEMMA GrantTables ==
  ASSUME ConstantsOK, NEW r, NEW t, NEW c, TablesOK(r, t, c, nextLease),
         NEW e \in Events, NEW w \in Workers, t[GroupOf[e]] = Idle, nextLease \in Leases,
         e \in Stable => c[e] = "none"
  PROVE  TablesOK([r EXCEPT ![e] = Granted(w)], [t EXCEPT ![GroupOf[e]] = TurnOf(w, e)],
                  c, nextLease + 1)
<1> DEFINE R == [r EXCEPT ![e] = Granted(w)]
<1>1. r \in [Events -> RowType] /\ t \in [Groups -> TurnType] /\ Agrees(r, t)
  BY DEF TablesOK
<1>2. R[e] = Granted(w) /\ \A f \in Events \ {e} : R[f] = r[f]
  BY <1>1
<1>3. nextLease \in Nat /\ nextLease + 1 \in 1..(MaxLease + 1)
  BY DEF Leases, ConstantsOK
<1>4. \A f \in Events : r[f].lease \in Nat /\ r[f].lease < nextLease
  BY <1>1 DEF TablesOK, RowType, Leases, NoLease
<1>5. \A f \in Events : R[f].lease < nextLease + 1
  BY <1>2, <1>3, <1>4 DEF Granted
<1>6. \A s \in Stable : c[s] # "none" => R[s].status \notin Active
  BY <1>2 DEF TablesOK, Events
<1> QED BY <1>1, <1>3, <1>4, <1>5, <1>6, GrantAgrees DEF TablesOK

-----------------------------------------------------------------------------
(* Each operation preserves the invariant. *)

(* A row takes another status on the same side of activity. *)
LEMMA RestatusTables ==
  ASSUME NEW r, NEW t, NEW c, NEW n, TablesOK(r, t, c, n), NEW e \in Events, NEW o \in Status,
         o \in Active <=> r[e].status \in Active
  PROVE  TablesOK([r EXCEPT ![e].status = o], t, c, n)
<1> DEFINE R == [r EXCEPT ![e].status = o]
<1>1. r \in [Events -> RowType]
  BY DEF TablesOK
<1>2. /\ R \in [Events -> RowType] /\ R[e].status = o
      /\ \A f \in Events : R[f].lease = r[f].lease /\ R[f].worker = r[f].worker
      /\ \A f \in Events \ {e} : R[f] = r[f]
  BY <1>1, SetStatus
<1>3. SameActivity(r, R)
  BY <1>2 DEF SameActivity
<1> QED BY <1>2, <1>3, QuietTables

(* The peer conversation of a group, as a human message leaves it. *)
LEMMA HumanSpokeTypes ==
  ASSUME RestOK, NEW g \in Groups, NEW owed, HumanSpoke(g, owed)
  PROVE  /\ peerTurns' \in [Groups -> Nat] /\ required' \subseteq Groups
         /\ loop' \in [Groups -> Workers \cup {NoWorker}] /\ settling' \subseteq Groups
<1>1. peerTurns' \in [Groups -> Nat] /\ loop' \in [Groups -> Workers \cup {NoWorker}]
  BY DEF HumanSpoke, RestOK
<1>2. required' \subseteq Groups /\ settling' \subseteq Groups
  BY DEF HumanSpoke, RestOK
<1> QED BY <1>1, <1>2

LEMMA SubmitStep ==
  ASSUME ConstantsOK, IInv, NEW w \in Workers, NEW e \in Inbound, NEW v \in Votes,
         Submit(w, e, v)
  PROVE  IInv'
<1>1. TablesOK(row, turn, receipt, nextLease) /\ RestOK
  BY IInvSplit
<1>2. e \in Events /\ row[e].status \in Status
  BY <1>1 DEF Events, TablesOK, RowType
<1>3. row' = [row EXCEPT ![e].status = IF row[e].status = "none" THEN "collecting"
                                       ELSE row[e].status]
  BY DEF Submit
<1>4. TablesOK(row', turn, receipt, nextLease)
  <2>1. CASE row[e].status = "none"
    BY <1>1, <1>2, <1>3, <2>1, RestatusTables, "collecting" \in Status DEF Active, Status
  <2>2. CASE row[e].status # "none"
    BY <1>1, <1>2, <1>3, <2>2, RestatusTables
  <2> QED BY <2>1, <2>2
<1>5. RestOK'
  BY <1>1 DEF RestOK, Submit, ledger, talk, clock, Votes
<1> QED BY <1>4, <1>5, IInvSplitPrimed DEF Submit

LEMMA FinalizeBusyStep ==
  ASSUME ConstantsOK, IInv, NEW w \in Workers, NEW e \in Inbound, FinalizeBusy(w, e)
  PROVE  IInv'
<1>1. TablesOK(row, turn, receipt, nextLease) /\ RestOK
  BY IInvSplit
<1>2. e \in Events /\ row[e].status = "collecting"
  BY DEF Events, FinalizeBusy, Collected
<1>a. /\ row' = [row EXCEPT ![e].status = "observed"]
      /\ "observed" \in Status /\ "observed" \notin Active /\ "collecting" \notin Active
  BY DEF FinalizeBusy, Status, Active
<1>b. TablesOK([row EXCEPT ![e].status = "observed"], turn, receipt, nextLease)
  BY <1>1, <1>2, <1>a, RestatusTables
<1>3. TablesOK(row', turn', receipt', nextLease')
  BY <1>a, <1>b DEF FinalizeBusy
<1>4. RestOK'
  BY <1>1 DEF RestOK, FinalizeBusy, talk, clock
<1> QED BY <1>3, <1>4, IInvSplitPrimed

LEMMA FinalizeObservedStep ==
  ASSUME ConstantsOK, IInv, NEW w \in Workers, NEW e \in Inbound, FinalizeObserved(w, e)
  PROVE  IInv'
<1> DEFINE D == Overdue({GroupOf[e]})
<1>0. e \in Events /\ GroupOf[e] \in Groups /\ D \in SUBSET Groups
  BY DEF Events, ConstantsOK, Overdue
<1>1. TablesOK(RowAfter(D), TurnAfter(D), ReceiptAfter(D), nextLease) /\ RestOK
  BY <1>0, ExpiredTables, IInvSplit
<1>2. row[e].status = "collecting" /\ row \in [Events -> RowType]
  BY DEF FinalizeObserved, Collected, IInv, TypeOK
<1>3. RowAfter(D)[e].status \notin Active
  BY <1>0, <1>2, RowAfterIs DEF Active
<1>a. /\ row' = [RowAfter(D) EXCEPT ![e].status = "observed"]
      /\ "observed" \in Status /\ "observed" \notin Active
  BY DEF FinalizeObserved, Status, Active
<1>b. TablesOK([RowAfter(D) EXCEPT ![e].status = "observed"],
               TurnAfter(D), ReceiptAfter(D), nextLease)
  BY <1>0, <1>1, <1>3, <1>a, RestatusTables
<1>4. TablesOK(row', turn', receipt', nextLease')
  BY <1>a, <1>b DEF FinalizeObserved, ExpireFirst
<1>5. /\ peerTurns' \in [Groups -> Nat] /\ required' \subseteq Groups
      /\ loop' \in [Groups -> Workers \cup {NoWorker}] /\ settling' \subseteq Groups
  <2>1. CASE e \in Peer
    BY <1>1, <2>1 DEF FinalizeObserved, talk, RestOK
  <2>2. CASE e \notin Peer
    BY <1>0, <1>1, <2>2, HumanSpokeTypes DEF FinalizeObserved
  <2> QED BY <2>1, <2>2
<1>6. RestOK'
  BY <1>1, <1>5 DEF RestOK, FinalizeObserved, ExpireFirst
<1> QED BY <1>4, <1>6, IInvSplitPrimed

LEMMA FinalizeDeferredStep ==
  ASSUME ConstantsOK, IInv, NEW w \in Workers, NEW e \in Inbound, FinalizeDeferred(w, e)
  PROVE  IInv'
<1> DEFINE D == Overdue({GroupOf[e]})
<1>0. D \in SUBSET Groups
  BY DEF Events, ConstantsOK, Overdue
<1>1. TablesOK(RowAfter(D), TurnAfter(D), ReceiptAfter(D), nextLease) /\ RestOK
  BY <1>0, ExpiredTables, IInvSplit
<1>2. TablesOK(row', turn', receipt', nextLease')
  BY <1>1 DEF FinalizeDeferred, ExpireFirst
<1>3. RestOK'
  BY <1>1 DEF RestOK, FinalizeDeferred, ExpireFirst, talk
<1> QED BY <1>2, <1>3, IInvSplitPrimed

LEMMA FinalizeGrantStep ==
  ASSUME ConstantsOK, IInv, NEW w \in Workers, NEW e \in Inbound, NEW chosen \in Workers,
         FinalizeGrant(w, e, chosen)
  PROVE  IInv'
<1> DEFINE g == GroupOf[e]
           D == Overdue({g})
<1>0. e \in Events /\ g \in Groups /\ D \in SUBSET Groups /\ e \notin Stable
  BY DEF Events, ConstantsOK, Overdue
<1>1. TablesOK(RowAfter(D), TurnAfter(D), ReceiptAfter(D), nextLease) /\ RestOK
  BY <1>0, ExpiredTables, IInvSplit
<1>2. TurnAfter(D)[g] = Idle /\ nextLease \in Leases
  BY DEF FinalizeGrant, Busy, Free
<1>3. TablesOK(row', turn', receipt', nextLease')
  BY <1>0, <1>1, <1>2, GrantTables DEF FinalizeGrant
<1>4. \A x \in Workers : held'[x] \subseteq Leases
  BY <1>1, <1>2 DEF FinalizeGrant, RestOK
<1>5. held' \in [Workers -> SUBSET Leases]
  BY <1>1, <1>2 DEF FinalizeGrant, RestOK
<1>6. /\ peerTurns' \in [Groups -> Nat] /\ required' \subseteq Groups
      /\ loop' \in [Groups -> Workers \cup {NoWorker}] /\ settling' \subseteq Groups
  <2>1. CASE e \in Peer
    <3>0. peerTurns' = [peerTurns EXCEPT ![g] = @ + 1] /\ loop' = [loop EXCEPT ![g] = NoWorker]
      BY <2>1 DEF FinalizeGrant
    <3>1. peerTurns' \in [Groups -> Nat] /\ loop' \in [Groups -> Workers \cup {NoWorker}]
      BY <1>0, <1>1, <3>0 DEF RestOK
    <3>2. required' \subseteq Groups /\ settling' \subseteq Groups
      BY <1>1, <2>1 DEF FinalizeGrant, RestOK
    <3> QED BY <3>1, <3>2
  <2>2. CASE e \notin Peer
    BY <1>0, <1>1, <2>2, HumanSpokeTypes DEF FinalizeGrant
  <2> QED BY <2>1, <2>2
<1>7. RestOK'
  BY <1>1, <1>5, <1>6 DEF RestOK, FinalizeGrant
<1> QED BY <1>3, <1>7, IInvSplitPrimed

LEMMA HousekeepingTypes ==
  ASSUME ConstantsOK, RestOK, NEW w \in Workers, NEW old \in SUBSET Events,
         NEW gone \in SUBSET Groups, Housekeeping(w, old, gone),
         lapsed' \subseteq Groups, held' \in [Workers -> SUBSET Leases]
  PROVE  RestOK'
<1>1. vote' \in [Inbound -> [Workers -> Votes \cup {"none"}]]
  BY DEF Housekeeping, PrunedVote, RestOK
<1>2. peerTurns' \in [Groups -> Nat] /\ loop' \in [Groups -> Workers \cup {NoWorker}]
  BY DEF Housekeeping, RestOK
<1>3. live' \subseteq Workers /\ required' \subseteq Groups /\ ripe' \subseteq Inbound
  BY DEF Housekeeping, RestOK
<1>4. cooling' \subseteq Groups /\ settling' \subseteq Groups
  BY DEF Housekeeping, RestOK
<1> QED BY <1>1, <1>2, <1>3, <1>4 DEF RestOK

LEMMA AdmitRefusedStep ==
  ASSUME ConstantsOK, IInv, NEW w \in Workers, NEW s \in Stable, NEW old \in SUBSET Events,
         NEW gone \in SUBSET Groups, AdmitRefused(w, s, old, gone)
  PROVE  IInv'
<1> DEFINE D == Overdue(Groups)
<1>1. D \in SUBSET Groups /\ old \subseteq Prunable(D) /\ receipt' = ReceiptAfter(D)
  BY DEF Overdue, AdmitRefused, Housekeeping
<1>2. TablesOK(PrunedRow(D, old), TurnAfter(D), ReceiptAfter(D), nextLease) /\ RestOK
  BY <1>1, PrunedTables, IInvSplit
<1>3. row' = PrunedRow(D, old) /\ turn' = TurnAfter(D) /\ nextLease' = nextLease
  BY DEF AdmitRefused
<1>4. lapsed' \subseteq Groups /\ held' \in [Workers -> SUBSET Leases]
  BY <1>2 DEF AdmitRefused, RestOK
<1>5. RestOK'
  BY <1>2, <1>4, HousekeepingTypes DEF AdmitRefused
<1> QED BY <1>1, <1>2, <1>3, <1>5, IInvSplitPrimed

LEMMA AdmitDeferredStep ==
  ASSUME ConstantsOK, IInv, NEW w \in Workers, NEW s \in Stable, NEW old \in SUBSET Events,
         NEW gone \in SUBSET Groups, AdmitDeferred(w, s, old, gone)
  PROVE  IInv'
<1> DEFINE D == Overdue(Groups)
           P == PrunedRow(D, old)
           Busied == [NoRow EXCEPT !.status = "observed"]
           R == [P EXCEPT ![s] = Busied]
<1>1. D \in SUBSET Groups /\ old \subseteq Prunable(D) /\ receipt' = ReceiptAfter(D)
  BY DEF Overdue, AdmitDeferred, Housekeeping
<1>2. TablesOK(P, TurnAfter(D), ReceiptAfter(D), nextLease) /\ RestOK
  BY <1>1, PrunedTables, IInvSplit
<1>3. row' = R /\ turn' = TurnAfter(D) /\ nextLease' = nextLease
  BY DEF AdmitDeferred
<1>4. s \in Events /\ P[s].status \notin Active
  BY DEF Events, AdmitDeferred, Claimable, Retryable, Active
<1>5. Busied \in RowType /\ Busied.lease = NoLease /\ Busied.status \notin Active
  BY DEF NoRow, RowType, Status, Active
<1>6. P \in [Events -> RowType]
  BY <1>2 DEF TablesOK
<1>7. R \in [Events -> RowType] /\ R[s] = Busied /\ \A e \in Events \ {s} : R[e] = P[e]
  BY <1>4, <1>5, <1>6
<1>8. SameActivity(P, R)
  BY <1>4, <1>5, <1>7 DEF SameActivity
<1>9. TablesOK(R, TurnAfter(D), ReceiptAfter(D), nextLease)
  BY <1>2, <1>7, <1>8, QuietTables
<1>10. lapsed' \subseteq Groups /\ held' \in [Workers -> SUBSET Leases]
  BY <1>2 DEF AdmitDeferred, RestOK
<1>11. RestOK'
  BY <1>2, <1>10, HousekeepingTypes DEF AdmitDeferred
<1> QED BY <1>1, <1>3, <1>9, <1>11, IInvSplitPrimed

LEMMA AdmitGrantedStep ==
  ASSUME ConstantsOK, IInv, NEW w \in Workers, NEW s \in Stable, NEW old \in SUBSET Events,
         NEW gone \in SUBSET Groups, AdmitGranted(w, s, old, gone)
  PROVE  IInv'
<1> DEFINE D == Overdue(Groups)
           P == PrunedRow(D, old)
<1>1. D \in SUBSET Groups /\ old \subseteq Prunable(D) /\ receipt' = ReceiptAfter(D)
  BY DEF Overdue, AdmitGranted, Housekeeping
<1>2. TablesOK(P, TurnAfter(D), ReceiptAfter(D), nextLease) /\ RestOK
  BY <1>1, PrunedTables, IInvSplit
<1>3. /\ s \in Events /\ nextLease \in Leases
      /\ TurnAfter(D)[GroupOf[s]] = Idle /\ ReceiptAfter(D)[s] = "none"
  BY DEF Events, AdmitGranted, Free, Claimable
<1>4. TablesOK([P EXCEPT ![s] = Granted(w)], [TurnAfter(D) EXCEPT ![GroupOf[s]] = TurnOf(w, s)],
               ReceiptAfter(D), nextLease + 1)
  BY <1>2, <1>3, GrantTables
<1>5. TablesOK(row', turn', receipt', nextLease')
  BY <1>1, <1>4 DEF AdmitGranted
<1>6. held' = [held EXCEPT ![w] = @ \cup {nextLease}] /\ lapsed' \subseteq Groups
  BY <1>2 DEF AdmitGranted, RestOK
<1>7. held' \in [Workers -> SUBSET Leases]
  BY <1>2, <1>3, <1>6 DEF RestOK
<1>8. RestOK'
  BY <1>2, <1>6, <1>7, HousekeepingTypes DEF AdmitGranted
<1> QED BY <1>5, <1>8, IInvSplitPrimed

(* A lease a worker holds is never the missing one, so owning it means     *)
(* that the group is busy with its event.                                  *)
LEMMA OwnedTurn ==
  ASSUME ConstantsOK, IInv, NEW w \in Workers, NEW l \in Leases, NEW g \in Groups, Owns(w, l, g)
  PROVE  /\ turn[g] # Idle /\ turn[g].event \in Events /\ GroupOf[turn[g].event] = g
         /\ row[turn[g].event].status \in Active
         /\ row[turn[g].event].lease = l /\ row[turn[g].event].worker = w
<1>1. turn[g] # Idle
  BY DEF Owns, Idle, Leases, NoLease, ConstantsOK
<1> QED BY <1>1 DEF IInv, LeaseAgreesWithRow, Agrees, Owns

LEMMA RetireOwnStep ==
  ASSUME ConstantsOK, IInv, NEW w \in Workers, NEW l \in Leases, NEW g \in Groups,
         RetireOwn(w, l, g)
  PROVE  IInv'
<1> DEFINE D == Overdue({g})
<1>1. TablesOK(RowAfter(D), TurnAfter(D), ReceiptAfter(D), nextLease) /\ RestOK
  BY ExpiredTables, IInvSplit, D \in SUBSET Groups DEF Overdue
<1>2. TablesOK(row', turn', receipt', nextLease')
  BY <1>1 DEF RetireOwn, ExpireFirst
<1>3. RestOK'
  BY <1>1 DEF RestOK, RetireOwn, ExpireFirst, talk
<1> QED BY <1>2, <1>3, IInvSplitPrimed

LEMMA FenceStep ==
  ASSUME ConstantsOK, IInv, NEW w \in Workers, NEW l \in Leases, NEW g \in Groups,
         Fence(w, l, g)
  PROVE  IInv'
<1>1. TablesOK(row, turn, receipt, nextLease) /\ RestOK
  BY IInvSplit
<1>2. turn[g].event \in Events /\ row[turn[g].event].status \in Active
  BY OwnedTurn DEF Fence
<1>3. "sending" \in Status /\ "sending" \in Active
  BY DEF Status, Active
<1>4. TablesOK([row EXCEPT ![turn[g].event].status = "sending"], turn, receipt, nextLease)
  BY <1>1, <1>2, <1>3, RestatusTables
<1>5. RestOK'
  BY <1>1 DEF RestOK, Fence, talk, clock
<1> QED BY <1>4, <1>5, IInvSplitPrimed DEF Fence

LEMMA AcknowledgeStep ==
  ASSUME ConstantsOK, IInv, NEW w \in Workers, NEW l \in Leases, AcknowledgeDelivery(w, l)
  PROVE  IInv'
<1>1. TablesOK(row, turn, receipt, nextLease) /\ RestOK
  BY IInvSplit
<1>a. PICK e \in Events : /\ row[e] = [status |-> "sending", worker |-> w, lease |-> l]
                          /\ row' = [row EXCEPT ![e].status = "granted"]
  BY DEF AcknowledgeDelivery
<1>2. row[e].status = "sending"
  BY <1>a
<1>3. "sending" \in Active /\ "granted" \in Status /\ "granted" \in Active
  BY DEF Status, Active
<1>4. TablesOK([row EXCEPT ![e].status = "granted"], turn, receipt, nextLease)
  BY <1>1, <1>2, <1>3, RestatusTables
<1>5. RestOK' /\ UNCHANGED <<turn, receipt, nextLease>>
  BY <1>1 DEF RestOK, AcknowledgeDelivery, talk, clock
<1> QED BY <1>a, <1>4, <1>5, IInvSplitPrimed

LEMMA FinishStep ==
  ASSUME ConstantsOK, IInv, NEW w \in Workers, NEW l \in Leases,
         NEW o \in {"sent", "silent", "uncertain"}, NEW named \in Workers \cup {NoWorker},
         Finish(w, l, o, named)
  PROVE  IInv'
<1>1. TablesOK(row, turn, receipt, nextLease) /\ RestOK /\ TypeOK /\ Agrees(row, turn)
  BY IInvSplit DEF IInv, LeaseAgreesWithRow
<1>2. PICK g \in Groups :
        /\ Owns(w, l, g)
        /\ row' = [row EXCEPT ![turn[g].event].status = o]
        /\ turn' = [turn EXCEPT ![g] = Idle]
        /\ receipt' = IF turn[g].event \in Stable /\ o \in {"sent", "uncertain"}
                      THEN [receipt EXCEPT ![turn[g].event] =
                              Receipted(receipt, turn[g].event, o)]
                      ELSE receipt
        /\ lapsed' = lapsed \ {g}
        /\ IF o = "sent"
           THEN /\ cooling' = cooling \cup {g}
                /\ loop' = [loop EXCEPT ![g] = IF OpensLoop(turn[g].event, named)
                                               THEN named ELSE NoWorker]
           ELSE UNCHANGED <<cooling, loop>>
        /\ held' = [held EXCEPT ![w] = @ \ {l}]
        /\ UNCHANGED <<vote, live, peerTurns, required, ripe, settling, nextLease>>
  BY DEF Finish
<1>3. turn[g] # Idle /\ turn[g].event \in Events /\ o \in Status \ Active
  BY <1>2, OwnedTurn DEF Status, Active
<1>4. /\ row' \in [Events -> RowType] /\ turn' \in [Groups -> TurnType] /\ Agrees(row', turn')
      /\ row \in [Events -> RowType]
  BY <1>1, <1>2, <1>3, ReleaseAgrees DEF TablesOK
<1>5. /\ row'[turn[g].event].status = o
      /\ \A f \in Events : row'[f].lease = row[f].lease
      /\ \A f \in Events \ {turn[g].event} : row'[f] = row[f]
  BY <1>2, <1>3, <1>4, SetStatus
<1>6. \A e \in Events : row'[e].lease < nextLease'
  BY <1>1, <1>2, <1>5 DEF TablesOK
<1>7. receipt' \in [Stable -> {"none", "sent", "uncertain"}]
  BY <1>1, <1>2 DEF TablesOK, Receipted
<1>8. \A s \in Stable : s # turn[g].event => receipt'[s] = receipt[s]
  BY <1>1, <1>2 DEF TablesOK
<1>9. \A s \in Stable : receipt'[s] # "none" => row'[s].status \notin Active
  BY <1>1, <1>3, <1>5, <1>8 DEF TablesOK, Events
<1>10. TablesOK(row', turn', receipt', nextLease')
  BY <1>1, <1>2, <1>4, <1>6, <1>7, <1>9 DEF TablesOK
<1>11. cooling' \subseteq Groups /\ loop' \in [Groups -> Workers \cup {NoWorker}]
  BY <1>1, <1>2 DEF RestOK
<1>12. held' \in [Workers -> SUBSET Leases]
  BY <1>1, <1>2 DEF RestOK
<1>13. RestOK'
  BY <1>1, <1>2, <1>11, <1>12 DEF RestOK
<1> QED BY <1>10, <1>13, IInvSplitPrimed

(* Operations that touch neither the ledger nor the peer conversation. *)
Aside ==
  \/ \E w \in Workers : Register(w) \/ Close(w) \/ Crash(w)
  \/ \E w \in Workers, e \in Inbound : Learn(w, e)
  \/ \E w \in Workers : \E l \in held[w] : FinishLost(w, l)
  \/ \E w \in Workers : \E l \in held[w] : \E g \in Groups : Extend(w, l, g)
  \/ Passage

LEMMA AsideStep ==
  ASSUME ConstantsOK, IInv, Aside
  PROVE  IInv' /\ UNCHANGED ledger
<1>1. TablesOK(row, turn, receipt, nextLease) /\ RestOK
  BY IInvSplit
<1>2. CASE \E w \in Workers : Register(w) \/ Close(w) \/ Crash(w)
  <2>1. RestOK' /\ UNCHANGED <<ledger, nextLease>>
    BY <1>1, <1>2 DEF RestOK, Register, Close, Crash, talk, clock, ledger
  <2> QED BY <1>1, <2>1, IInvSplitPrimed DEF ledger
<1>3. CASE \E w \in Workers, e \in Inbound : Learn(w, e)
  <2>1. PICK w \in Workers, e \in Inbound : Learn(w, e)
    BY <1>3
  <2>2. row[e].lease \in Leases
    BY <1>1, <2>1 DEF Learn, TablesOK, RowType, Events
  <2>3. held' \in [Workers -> SUBSET Leases]
    BY <1>1, <2>1, <2>2 DEF Learn, RestOK
  <2>4. RestOK' /\ UNCHANGED <<ledger, nextLease>>
    BY <1>1, <2>1, <2>3 DEF RestOK, Learn, talk, clock, ledger
  <2> QED BY <1>1, <2>4, IInvSplitPrimed DEF ledger
<1>4. CASE \E w \in Workers : \E l \in held[w] : FinishLost(w, l)
  <2>1. RestOK' /\ UNCHANGED <<ledger, nextLease>>
    BY <1>1, <1>4 DEF RestOK, FinishLost, talk, clock, ledger
  <2> QED BY <1>1, <2>1, IInvSplitPrimed DEF ledger
<1>5. CASE \E w \in Workers : \E l \in held[w] : \E g \in Groups : Extend(w, l, g)
  <2>1. RestOK' /\ UNCHANGED <<ledger, nextLease>>
    BY <1>1, <1>5 DEF RestOK, Extend, talk, clock, ledger
  <2> QED BY <1>1, <2>1, IInvSplitPrimed DEF ledger
<1>6. CASE Passage
  <2>1. UNCHANGED <<ledger, nextLease, held, peerTurns, required>>
    BY <1>6 DEF Passage, LeaseLapses, CooldownEnds, LoopExpires, WindowCloses, Forgotten,
                talk, clock
  <2>2. loop' \in [Groups -> Workers \cup {NoWorker}] /\ live' \subseteq Workers
    BY <1>1, <1>6 DEF RestOK, Passage, LeaseLapses, CooldownEnds, LoopExpires, WindowCloses,
                      Forgotten, talk, clock
  <2>3. /\ lapsed' \subseteq Groups /\ ripe' \subseteq Inbound
        /\ cooling' \subseteq Groups /\ settling' \subseteq Groups
    BY <1>1, <1>6 DEF RestOK, Passage, LeaseLapses, CooldownEnds, LoopExpires, WindowCloses,
                      Forgotten, talk, clock
  <2>4. RestOK'
    BY <1>1, <2>1, <2>2, <2>3 DEF RestOK, ledger
  <2> QED BY <1>1, <2>1, <2>4, IInvSplitPrimed DEF ledger
<1> QED BY <1>2, <1>3, <1>4, <1>5, <1>6 DEF Aside

-----------------------------------------------------------------------------
(* The specification. *)

(* The transactions that may write the ledger, one disjunct per operation. *)
Transaction ==
  \/ \E w \in Workers, e \in Inbound :
       \/ \E v \in Votes : Submit(w, e, v)
       \/ FinalizeBusy(w, e) \/ FinalizeObserved(w, e) \/ FinalizeDeferred(w, e)
       \/ \E c \in Workers : FinalizeGrant(w, e, c)
  \/ \E w \in Workers, s \in Stable, old \in SUBSET Events, gone \in SUBSET Groups :
       \/ AdmitRefused(w, s, old, gone)
       \/ AdmitDeferred(w, s, old, gone)
       \/ AdmitGranted(w, s, old, gone)
  \/ \E w \in Workers : \E l \in held[w] :
       \/ \E g \in Groups : RetireOwn(w, l, g) \/ Fence(w, l, g)
       \/ AcknowledgeDelivery(w, l)
       \/ \E o \in {"sent", "silent", "uncertain"}, named \in Workers \cup {NoWorker} :
            Finish(w, l, o, named)

LEMMA NextIs == ASSUME IInv, Next PROVE Transaction \/ Aside
<1>1. live \subseteq Workers
  BY DEF IInv, TypeOK
<1>2. CASE Coordinate
  BY <1>2 DEF Coordinate, Transaction, Aside
<1>3. CASE \E w \in Workers, s \in Stable : Admit(w, s)
  BY <1>3 DEF Admit, Transaction
<1>4. CASE Lease
  <2>1. PICK w \in Workers : \E l \in held[w] :
          \/ BeginDelivery(w, l) \/ AcknowledgeDelivery(w, l) \/ Renew(w, l)
          \/ \E o \in {"sent", "silent", "uncertain"} :
               \E named \in (live \ {w}) \cup {NoWorker} : Finish(w, l, o, named)
          \/ FinishLost(w, l)
    BY <1>4 DEF Lease
  <2>2. PICK l \in held[w] :
          \/ BeginDelivery(w, l) \/ AcknowledgeDelivery(w, l) \/ Renew(w, l)
          \/ \E o \in {"sent", "silent", "uncertain"} :
               \E named \in (live \ {w}) \cup {NoWorker} : Finish(w, l, o, named)
          \/ FinishLost(w, l)
    BY <2>1
  <2>3. CASE BeginDelivery(w, l)
    BY <2>3 DEF BeginDelivery, Transaction
  <2>4. CASE AcknowledgeDelivery(w, l)
    BY <2>4 DEF Transaction
  <2>5. CASE Renew(w, l)
    BY <2>5 DEF Renew, Transaction, Aside
  <2>6. CASE \E o \in {"sent", "silent", "uncertain"} :
               \E named \in (live \ {w}) \cup {NoWorker} : Finish(w, l, o, named)
    BY <1>1, <2>6 DEF Transaction
  <2>7. CASE FinishLost(w, l)
    BY <2>7 DEF Aside
  <2> QED BY <2>2, <2>3, <2>4, <2>5, <2>6, <2>7
<1> QED BY <1>2, <1>3, <1>4 DEF Next, Aside

LEMMA TransactionStep == ASSUME ConstantsOK, IInv, Transaction PROVE IInv'
<1>1. \A w \in Workers : held[w] \subseteq Leases
  BY DEF IInv, TypeOK
<1>2. CASE \E w \in Workers, e \in Inbound :
             \/ \E v \in Votes : Submit(w, e, v)
             \/ FinalizeBusy(w, e) \/ FinalizeObserved(w, e) \/ FinalizeDeferred(w, e)
             \/ \E c \in Workers : FinalizeGrant(w, e, c)
  BY <1>2, SubmitStep, FinalizeBusyStep, FinalizeObservedStep, FinalizeDeferredStep,
     FinalizeGrantStep
<1>3. CASE \E w \in Workers, s \in Stable, old \in SUBSET Events, gone \in SUBSET Groups :
             \/ AdmitRefused(w, s, old, gone)
             \/ AdmitDeferred(w, s, old, gone)
             \/ AdmitGranted(w, s, old, gone)
  BY <1>3, AdmitRefusedStep, AdmitDeferredStep, AdmitGrantedStep
<1>4. CASE \E w \in Workers : \E l \in held[w] :
             \/ \E g \in Groups : RetireOwn(w, l, g) \/ Fence(w, l, g)
             \/ AcknowledgeDelivery(w, l)
             \/ \E o \in {"sent", "silent", "uncertain"}, named \in Workers \cup {NoWorker} :
                  Finish(w, l, o, named)
  BY <1>1, <1>4, RetireOwnStep, FenceStep, AcknowledgeStep, FinishStep
<1> QED BY <1>2, <1>3, <1>4 DEF Transaction

LEMMA InitStep == ASSUME ConstantsOK, Init PROVE IInv
<1>1. NoRow \in RowType /\ Idle \in TurnType /\ NoRow.status \notin Active /\ NoRow.lease = 0
  BY DEF NoRow, Idle, RowType, TurnType, Status, Active, NoLease
<1>2. TablesOK(row, turn, receipt, nextLease)
  <2>1. /\ row \in [Events -> RowType] /\ turn \in [Groups -> TurnType]
        /\ receipt \in [Stable -> {"none", "sent", "uncertain"}]
        /\ nextLease \in 1..(MaxLease + 1)
    BY <1>1 DEF Init, ConstantsOK
  <2>2. Agrees(row, turn)
    BY <1>1 DEF Init, Agrees, NoLease
  <2>3. \A e \in Events : row[e].lease < nextLease
    BY <1>1 DEF Init
  <2>4. \A s \in Stable : receipt[s] = "none"
    BY DEF Init
  <2> QED BY <2>1, <2>2, <2>3, <2>4 DEF TablesOK
<1>3. RestOK
  BY DEF Init, RestOK
<1> QED BY <1>2, <1>3, IInvSplit

(* The inductive invariant holds of every behaviour. *)
THEOREM Invariance == Spec => []IInv
<1>1. Init => IInv
  BY ConstantsOK, InitStep
<1>2. IInv /\ [Next]_vars => IInv'
  <2> SUFFICES ASSUME IInv, [Next]_vars PROVE IInv'
    OBVIOUS
  <2>1. CASE Next
    BY <2>1, ConstantsOK, NextIs, TransactionStep, AsideStep
  <2>2. CASE UNCHANGED vars
    BY <2>2, IInvSplit, IInvSplitPrimed DEF vars, RestOK
  <2> QED BY <2>1, <2>2
<1> QED BY <1>1, <1>2, PTL DEF Spec

(* The tables and the leases handed out keep their types: TypeOK, for any  *)
(* workers, groups, events and bounds.                                     *)
THEOREM Typing == Spec => []TypeOK
<1>1. IInv => TypeOK
  BY DEF IInv
<1> QED BY <1>1, Invariance, PTL

(* begin_delivery, renew and finish always find, through the lease they    *)
(* hold, the event it was given for.                                       *)
THEOREM Agreement == Spec => []LeaseAgreesWithRow
<1>1. IInv => LeaseAgreesWithRow
  BY DEF IInv
<1> QED BY <1>1, Invariance, PTL

(* Mutual exclusion: a group never has two active turns, whatever the      *)
(* number of persona processes and however they interleave.                *)
THEOREM MutualExclusion == Spec => []OneTurnPerGroup
<1>1. IInv => OneTurnPerGroup
  <2> SUFFICES ASSUME IInv, NEW e \in Events, NEW f \in Events,
                      row[e].status \in Active, row[f].status \in Active, GroupOf[e] = GroupOf[f]
               PROVE  e = f
    BY DEF OneTurnPerGroup
  <2>1. turn[GroupOf[e]].event = e /\ turn[GroupOf[f]].event = f
    BY DEF IInv, LeaseAgreesWithRow, Agrees
  <2> QED BY <2>1
<1> QED BY <1>1, Invariance, PTL

-----------------------------------------------------------------------------
(* What the ledger remembers.  As far as stable ids are concerned a step   *)
(* is an expiry followed by nothing, an expiry followed by a grant, or one *)
(* of the three things a worker does with its lease.                       *)

(* Row r has the activity of the expired row. *)
Quieted(D, s, r) ==
  r.status \in Active \/ RowAfter(D)[s].status \in Active => r.status = RowAfter(D)[s].status

Untouched == turn' = turn /\ receipt' = receipt /\ \A s \in Stable : row'[s] = row[s]

ExpiresOnly(D) ==
  /\ turn' = TurnAfter(D) /\ receipt' = ReceiptAfter(D)
  /\ \A s \in Stable : Quieted(D, s, row'[s])

Grants(D, w, e) ==
  /\ TurnAfter(D)[GroupOf[e]] = Idle
  /\ turn' = [TurnAfter(D) EXCEPT ![GroupOf[e]] = TurnOf(w, e)]
  /\ receipt' = ReceiptAfter(D)
  /\ row'[e].status = "granted"
  /\ \A s \in Stable \ {e} : Quieted(D, s, row'[s])
  /\ e \in Stable => ReceiptAfter(D)[e] = "none" /\ RowAfter(D)[e].status \notin Active

Works(w, l, g, o) ==
  LET e == turn[g].event IN
  /\ turn[g] # Idle /\ e \in Events /\ GroupOf[e] = g
  /\ row[e].lease = l /\ row[e].worker = w /\ row[e].status \in Active
  /\ row' = [row EXCEPT ![e].status = o]

LEMMA PrunedQuieted ==
  ASSUME ConstantsOK, IInv, NEW D \in SUBSET Groups, NEW old, old \subseteq Prunable(D),
         NEW s \in Stable
  PROVE  Quieted(D, s, PrunedRow(D, old)[s])
<1>1. s \in old => RowAfter(D)[s].status \notin Active
  BY DEF Prunable
<1>2. PrunedRow(D, old)[s] = IF s \in old THEN NoRow ELSE RowAfter(D)[s]
  BY DEF PrunedRow, Events
<1> QED BY <1>1, <1>2 DEF Quieted, NoRow, Active

Ends(w, l, g, o) ==
  /\ Works(w, l, g, o)
  /\ turn' = [turn EXCEPT ![g] = Idle]
  /\ receipt' = IF turn[g].event \in Stable /\ o \in {"sent", "uncertain"}
                THEN [receipt EXCEPT ![turn[g].event] = Receipted(receipt, turn[g].event, o)]
                ELSE receipt

(* Which shape each transaction has. *)
Shapes ==
  \/ Untouched
  \/ \E D \in SUBSET Groups : ExpiresOnly(D)
  \/ \E D \in SUBSET Groups, w \in Workers, e \in Events : Grants(D, w, e)
  \/ \E w \in Workers : \E l \in held[w] : \E g \in Groups :
       \/ Works(w, l, g, "sending") /\ UNCHANGED <<turn, receipt>>
       \/ Works(w, l, g, "granted") /\ UNCHANGED <<turn, receipt>>
       \/ \E o \in {"sent", "silent", "uncertain"} : Ends(w, l, g, o)

LEMMA InboundShapes ==
  ASSUME ConstantsOK, IInv, NEW w \in Workers, NEW e \in Inbound,
         \/ \E v \in Votes : Submit(w, e, v)
         \/ FinalizeBusy(w, e) \/ FinalizeObserved(w, e) \/ FinalizeDeferred(w, e)
         \/ \E c \in Workers : FinalizeGrant(w, e, c)
  PROVE  Shapes
<1> DEFINE D == Overdue({GroupOf[e]})
<1>1. e \in Events /\ e \notin Stable /\ D \in SUBSET Groups /\ Stable \subseteq Events
  BY DEF Events, ConstantsOK, Overdue
<1>2. row \in [Events -> RowType] /\ RowAfter(D) \in [Events -> RowType]
  BY <1>1, RowAfterIs DEF IInv, TypeOK
<1>3. CASE \E v \in Votes : Submit(w, e, v)
  <2>1. Untouched
    BY <1>1, <1>2, <1>3 DEF Submit, Untouched
  <2> QED BY <2>1 DEF Shapes
<1>4. CASE FinalizeBusy(w, e)
  <2>1. Untouched
    BY <1>1, <1>2, <1>4 DEF FinalizeBusy, Untouched
  <2> QED BY <2>1 DEF Shapes
<1>5. CASE FinalizeObserved(w, e)
  <2>1. ExpiresOnly(D)
    BY <1>1, <1>2, <1>5 DEF FinalizeObserved, ExpireFirst, ExpiresOnly, Quieted
  <2> QED BY <1>1, <2>1 DEF Shapes
<1>6. CASE FinalizeDeferred(w, e)
  <2>1. ExpiresOnly(D)
    BY <1>1, <1>2, <1>6 DEF FinalizeDeferred, ExpireFirst, ExpiresOnly, Quieted
  <2> QED BY <1>1, <2>1 DEF Shapes
<1>7. CASE \E c \in Workers : FinalizeGrant(w, e, c)
  <2>1. PICK c \in Workers : FinalizeGrant(w, e, c)
    BY <1>7
  <2>2. /\ row' = [RowAfter(D) EXCEPT ![e] = Granted(c)]
        /\ turn' = [TurnAfter(D) EXCEPT ![GroupOf[e]] = TurnOf(c, e)]
        /\ receipt' = ReceiptAfter(D) /\ TurnAfter(D)[GroupOf[e]] = Idle
    BY <2>1 DEF FinalizeGrant, Busy, Free
  <2>3. row'[e].status = "granted" /\ \A s \in Stable : row'[s] = RowAfter(D)[s]
    BY <1>1, <1>2, <2>2 DEF Granted
  <2>4. Grants(D, c, e)
    BY <1>1, <2>2, <2>3 DEF Grants, Quieted
  <2> QED BY <1>1, <2>4 DEF Shapes
<1> QED BY <1>3, <1>4, <1>5, <1>6, <1>7

LEMMA AdmitShapes ==
  ASSUME ConstantsOK, IInv, NEW w \in Workers, NEW s \in Stable, NEW old \in SUBSET Events,
         NEW gone \in SUBSET Groups,
         \/ AdmitRefused(w, s, old, gone)
         \/ AdmitDeferred(w, s, old, gone)
         \/ AdmitGranted(w, s, old, gone)
  PROVE  Shapes
<1> DEFINE D == Overdue(Groups)
           P == PrunedRow(D, old)
<1>1. D \in SUBSET Groups /\ old \subseteq Prunable(D) /\ receipt' = ReceiptAfter(D)
  BY DEF Overdue, AdmitRefused, AdmitDeferred, AdmitGranted, Housekeeping
<1>2. \A x \in Stable : Quieted(D, x, P[x])
  BY <1>1, PrunedQuieted
<1>3. P \in [Events -> RowType] /\ Stable \subseteq Events
  BY <1>1, PrunedTables DEF TablesOK, Events
<1>4. CASE AdmitRefused(w, s, old, gone)
  <2>1. ExpiresOnly(D)
    BY <1>1, <1>2, <1>4 DEF AdmitRefused, ExpiresOnly
  <2> QED BY <1>1, <2>1 DEF Shapes
<1>5. CASE AdmitDeferred(w, s, old, gone)
  <2>1. row' = [P EXCEPT ![s] = [NoRow EXCEPT !.status = "observed"]] /\ turn' = TurnAfter(D)
    BY <1>5 DEF AdmitDeferred
  <2>2. P[s].status \notin Active
    BY <1>5 DEF AdmitDeferred, Claimable, Retryable, Active
  <2>3. row'[s].status = "observed" /\ \A x \in Stable \ {s} : row'[x] = P[x]
    BY <1>3, <2>1 DEF NoRow
  <2>4. Quieted(D, s, row'[s])
    BY <1>2, <2>2, <2>3 DEF Quieted, Active
  <2>5. ExpiresOnly(D)
    BY <1>1, <1>2, <2>1, <2>3, <2>4 DEF ExpiresOnly
  <2> QED BY <1>1, <2>5 DEF Shapes
<1>6. CASE AdmitGranted(w, s, old, gone)
  <2>1. /\ row' = [P EXCEPT ![s] = Granted(w)]
        /\ turn' = [TurnAfter(D) EXCEPT ![GroupOf[s]] = TurnOf(w, s)]
        /\ TurnAfter(D)[GroupOf[s]] = Idle /\ ReceiptAfter(D)[s] = "none"
        /\ P[s].status \notin Active
    BY <1>6 DEF AdmitGranted, Free, Claimable, Retryable, Active
  <2>2. row'[s].status = "granted" /\ \A x \in Stable \ {s} : row'[x] = P[x]
    BY <1>3, <2>1 DEF Granted
  <2>3. RowAfter(D)[s].status \notin Active
    BY <1>2, <2>1 DEF Quieted
  <2>4. Grants(D, w, s)
    BY <1>1, <1>2, <2>1, <2>2, <2>3 DEF Grants
  <2> QED BY <1>1, <1>3, <2>4 DEF Shapes
<1> QED BY <1>4, <1>5, <1>6

LEMMA LeaseShapes ==
  ASSUME ConstantsOK, IInv, NEW w \in Workers, NEW l \in held[w],
         \/ \E g \in Groups : RetireOwn(w, l, g) \/ Fence(w, l, g)
         \/ AcknowledgeDelivery(w, l)
         \/ \E o \in {"sent", "silent", "uncertain"}, named \in Workers \cup {NoWorker} :
              Finish(w, l, o, named)
  PROVE  Shapes
<1>1. l \in Leases
  BY DEF IInv, TypeOK
<1>2. CASE \E g \in Groups : RetireOwn(w, l, g)
  <2>1. PICK g \in Groups : RetireOwn(w, l, g)
    BY <1>2
  <2>2. ExpiresOnly(Overdue({g})) /\ Overdue({g}) \in SUBSET Groups
    BY <2>1 DEF RetireOwn, ExpireFirst, ExpiresOnly, Quieted, Overdue
  <2> QED BY <2>2 DEF Shapes
<1>3. CASE \E g \in Groups : Fence(w, l, g)
  <2>1. PICK g \in Groups : Fence(w, l, g)
    BY <1>3
  <2>2. Works(w, l, g, "sending") /\ UNCHANGED <<turn, receipt>>
    BY <1>1, <2>1, OwnedTurn DEF Fence, Works
  <2> QED BY <2>2 DEF Shapes
<1>4. CASE AcknowledgeDelivery(w, l)
  <2>1. PICK e \in Events : /\ row[e] = [status |-> "sending", worker |-> w, lease |-> l]
                            /\ row' = [row EXCEPT ![e].status = "granted"]
    BY <1>4 DEF AcknowledgeDelivery
  <2>2. row[e].status \in Active /\ row[e].lease = l /\ row[e].worker = w
    BY <2>1 DEF Active
  <2>3. GroupOf[e] \in Groups /\ turn[GroupOf[e]].event = e /\ e # NoEvent
    BY <2>2 DEF IInv, LeaseAgreesWithRow, Agrees, ConstantsOK
  <2>4. turn[GroupOf[e]] # Idle
    BY <2>3 DEF Idle
  <2>5. Works(w, l, GroupOf[e], "granted")
    BY <2>1, <2>2, <2>3, <2>4 DEF Works
  <2>6. UNCHANGED <<turn, receipt>>
    BY <1>4 DEF AcknowledgeDelivery
  <2> QED BY <2>3, <2>5, <2>6 DEF Shapes
<1>5. CASE \E o \in {"sent", "silent", "uncertain"}, named \in Workers \cup {NoWorker} :
             Finish(w, l, o, named)
  <2>1. PICK o \in {"sent", "silent", "uncertain"}, named \in Workers \cup {NoWorker} :
          Finish(w, l, o, named)
    BY <1>5
  <2>2. PICK g \in Groups :
          /\ Owns(w, l, g)
          /\ row' = [row EXCEPT ![turn[g].event].status = o]
          /\ turn' = [turn EXCEPT ![g] = Idle]
          /\ receipt' = IF turn[g].event \in Stable /\ o \in {"sent", "uncertain"}
                        THEN [receipt EXCEPT ![turn[g].event] =
                                Receipted(receipt, turn[g].event, o)]
                        ELSE receipt
    BY <2>1 DEF Finish
  <2>3. Works(w, l, g, o)
    BY <1>1, <2>2, OwnedTurn DEF Works
  <2>4. Ends(w, l, g, o)
    BY <2>2, <2>3 DEF Ends
  <2> QED BY <2>4 DEF Shapes
<1> QED BY <1>2, <1>3, <1>4, <1>5

LEMMA AllShapes == ASSUME ConstantsOK, IInv, [Next]_vars PROVE Shapes
<1>1. CASE Transaction
  BY <1>1, InboundShapes, AdmitShapes, LeaseShapes DEF Transaction
<1>2. CASE Aside
  BY <1>2, AsideStep DEF ledger, Untouched, Shapes
<1>3. CASE UNCHANGED vars
  BY <1>3 DEF vars, Untouched, Shapes
<1> QED BY <1>1, <1>2, <1>3, NextIs

LEMMA ExpiryFacts ==
  ASSUME ConstantsOK, IInv, NEW D \in SUBSET Groups, NEW s \in Stable
  PROVE  /\ receipt[s] # "none" => ReceiptAfter(D)[s] = receipt[s]
         /\ RowAfter(D)[s].status \in Active =>
              RowAfter(D)[s].status = row[s].status /\ ~Retired(s, D)
         /\ row[s].status = "sending" /\ ~Retired(s, D) => RowAfter(D)[s].status = "sending"
         /\ row[s].status = "sending" /\ Retired(s, D) => ReceiptAfter(D)[s] = "uncertain"
         /\ ~(row[s].status = "sending" /\ Retired(s, D)) => ReceiptAfter(D)[s] = receipt[s]
<1>1. s \in Events /\ row \in [Events -> RowType] /\ TypeOK
  BY DEF Events, IInv, TypeOK
<1>2. /\ ~Retired(s, D) => RowAfter(D)[s] = row[s]
      /\ Retired(s, D) => RowAfter(D)[s].status \in {"uncertain", "expired"}
  BY <1>1, RowAfterIs
<1>3. row[s].status = "sending" => receipt[s] = "none"
  BY DEF IInv, NoReceiptInFlight, Active
<1>4. ReceiptAfter(D)[s] = IF Retired(s, D) /\ row[s].status = "sending"
                           THEN Receipted(receipt, s, "uncertain") ELSE receipt[s]
  BY DEF ReceiptAfter
<1> QED BY <1>2, <1>3, <1>4 DEF Receipted, Active

LEMMA WorksFacts ==
  ASSUME ConstantsOK, IInv, NEW w \in Workers, NEW l \in held[w], NEW g \in Groups,
         NEW o \in Status, Works(w, l, g, o)
  PROVE  /\ row'[turn[g].event].status = o
         /\ \A s \in Stable \ {turn[g].event} : row'[s] = row[s]
         /\ turn[g].event \in Stable => receipt[turn[g].event] = "none"
         /\ row[turn[g].event].lease \in held[row[turn[g].event].worker]
<1>1. turn[g].event \in Events /\ row \in [Events -> RowType] /\ Stable \subseteq Events
  BY DEF Works, IInv, TypeOK, Events
<1> QED BY <1>1, SetStatus DEF Works, IInv, NoReceiptInFlight

(* At most once: a stable id whose delivery was confirmed, or may have     *)
(* happened, is never granted again and its outcome never changes, through *)
(* expiry, restarts and pruning.                                           *)
THEOREM AtMostOnce == Spec => SettledForGood
<1> DEFINE Settles(s) == receipt[s] # "none" =>
             /\ receipt'[s] = receipt[s]
             /\ row'[s].status = "granted" => row[s].status \in Active
<1>1. ASSUME IInv, [Next]_vars, NEW s \in Stable PROVE Settles(s)
  <2>1. Shapes
    BY <1>1, ConstantsOK, AllShapes
  <2>2. CASE Untouched
    BY <1>1, <2>2 DEF Untouched, Active
  <2>3. ASSUME NEW D \in SUBSET Groups, ExpiresOnly(D) PROVE Settles(s)
    BY <1>1, <2>3, ConstantsOK, ExpiryFacts DEF ExpiresOnly, Quieted, Active
  <2>4. ASSUME NEW D \in SUBSET Groups, NEW w \in Workers, NEW e \in Events, Grants(D, w, e)
        PROVE  Settles(s)
    <3>1. CASE s = e
      BY <1>1, <2>4, <3>1, ConstantsOK, ExpiryFacts DEF Grants
    <3>2. CASE s # e
      BY <1>1, <2>4, <3>2, ConstantsOK, ExpiryFacts DEF Grants, Quieted, Active
    <3> QED BY <3>1, <3>2
  <2>5. ASSUME NEW w \in Workers, NEW l \in held[w], NEW g \in Groups, NEW o \in Status,
               Works(w, l, g, o),
               receipt' = receipt \/ \E x : receipt' = [receipt EXCEPT ![turn[g].event] = x]
        PROVE  Settles(s)
    <3>1. receipt \in [Stable -> {"none", "sent", "uncertain"}]
      BY <1>1 DEF IInv, TypeOK
    <3>2. CASE s = turn[g].event
      BY <1>1, <2>5, <3>2, ConstantsOK, WorksFacts
    <3>3. CASE s # turn[g].event
      BY <1>1, <2>5, <3>1, <3>3, ConstantsOK, WorksFacts DEF Active
    <3> QED BY <3>2, <3>3
  <2>6. {"sending", "granted", "sent", "silent", "uncertain"} \subseteq Status
    BY DEF Status
  <2> QED BY <2>1, <2>2, <2>3, <2>4, <2>5, <2>6 DEF Shapes, Ends
<1>2. IInv /\ [Next]_vars => [\A s \in Stable : Settles(s)]_vars
  BY <1>1
<1> QED BY <1>2, Invariance, PTL DEF Spec, SettledForGood

(* A delivery past the fence is never silently made retryable: either the  *)
(* worker that holds it says how it ended, or a receipt is kept.           *)
THEOREM NeverForgotten == Spec => InFlightNeverForgotten
<1> DEFINE Remembers(s) == row[s].status = "sending" /\ row'[s].status # "sending" =>
             \/ receipt'[s] # "none"
             \/ row[s].lease \in held[row[s].worker]
<1>1. ASSUME IInv, [Next]_vars, NEW s \in Stable PROVE Remembers(s)
  <2>1. Shapes
    BY <1>1, ConstantsOK, AllShapes
  <2>2. CASE Untouched
    BY <2>2 DEF Untouched
  <2>3. ASSUME NEW D \in SUBSET Groups, ExpiresOnly(D) PROVE Remembers(s)
    BY <1>1, <2>3, ConstantsOK, ExpiryFacts DEF ExpiresOnly, Quieted, Active
  <2>4. ASSUME NEW D \in SUBSET Groups, NEW w \in Workers, NEW e \in Events, Grants(D, w, e)
        PROVE  Remembers(s)
    <3>1. CASE s = e
      BY <1>1, <2>4, <3>1, ConstantsOK, ExpiryFacts DEF Grants, Active
    <3>2. CASE s # e
      BY <1>1, <2>4, <3>2, ConstantsOK, ExpiryFacts DEF Grants, Quieted, Active
    <3> QED BY <3>1, <3>2
  <2>5. ASSUME NEW w \in Workers, NEW l \in held[w], NEW g \in Groups, NEW o \in Status,
               Works(w, l, g, o)
        PROVE  Remembers(s)
    BY <1>1, <2>5, ConstantsOK, WorksFacts
  <2>6. {"sending", "granted", "sent", "silent", "uncertain"} \subseteq Status
    BY DEF Status
  <2> QED BY <2>1, <2>2, <2>3, <2>4, <2>5, <2>6 DEF Shapes, Ends
<1>2. IInv /\ [Next]_vars => [\A s \in Stable : Remembers(s)]_vars
  BY <1>1
<1> QED BY <1>2, Invariance, PTL DEF Spec, InFlightNeverForgotten

-----------------------------------------------------------------------------
(* What an inbound message is given.  A row that may still be granted has   *)
(* no lease, so the grant is the only lease it gets; every other           *)
(* transaction leaves the lease on the row, or prunes the row, and none    *)
(* puts a row that has one up for arbitration again.                       *)

Unleased(r) == r.status \in {"none", "collecting"} => r.lease = NoLease

GivenOnce(f) ==
  Unleased(row[f]) =>
    /\ Unleased(row'[f])
    /\ row[f].lease # NoLease => row'[f].lease = row[f].lease \/ row'[f] = NoRow

(* Expiry retires a row for good. *)
LEMMA ExpiryGives ==
  ASSUME ConstantsOK, IInv, NEW D \in SUBSET Groups, NEW f \in Events
  PROVE  /\ RowAfter(D) \in [Events -> RowType]
         /\ RowAfter(D)[f].lease = row[f].lease
         /\ Unleased(row[f]) => Unleased(RowAfter(D)[f])
BY RowAfterIs DEF IInv, TypeOK, Unleased

LEMMA InboundGives ==
  ASSUME ConstantsOK, IInv, NEW w \in Workers, NEW e \in Inbound, NEW f \in Inbound,
         \/ \E v \in Votes : Submit(w, e, v)
         \/ FinalizeBusy(w, e) \/ FinalizeObserved(w, e) \/ FinalizeDeferred(w, e)
         \/ \E c \in Workers : FinalizeGrant(w, e, c)
  PROVE  GivenOnce(f)
<1> DEFINE D == Overdue({GroupOf[e]})
           R == RowAfter(D)
<1>1. e \in Events /\ f \in Events /\ D \in SUBSET Groups
  BY DEF Events, ConstantsOK, Overdue
<1>2. /\ row \in [Events -> RowType] /\ R \in [Events -> RowType]
      /\ R[f].lease = row[f].lease
      /\ Unleased(row[f]) => Unleased(R[f])
  BY <1>1, ExpiryGives DEF IInv, TypeOK
<1>4. CASE \E v \in Votes : Submit(w, e, v)
  <2>1. row' = [row EXCEPT ![e].status = IF @ = "none" THEN "collecting" ELSE @]
    BY <1>4 DEF Submit
  <2>2. row'[f].lease = row[f].lease
    BY <1>1, <1>2, <2>1 DEF RowType
  <2>3. row'[f].status # row[f].status => row[f].status = "none"
    BY <1>1, <1>2, <2>1 DEF RowType
  <2> QED BY <2>2, <2>3 DEF GivenOnce, Unleased
<1>5. CASE FinalizeBusy(w, e)
  <2>1. row' = [row EXCEPT ![e].status = "observed"]
    BY <1>5 DEF FinalizeBusy
  <2>2. row'[f] = row[f] \/ (row'[f].status = "observed" /\ row'[f].lease = row[f].lease)
    BY <1>1, <1>2, <2>1 DEF RowType
  <2> QED BY <2>2 DEF GivenOnce, Unleased
<1>6. CASE FinalizeObserved(w, e)
  <2>1. row' = [R EXCEPT ![e].status = "observed"]
    BY <1>6 DEF FinalizeObserved
  <2>2. row'[f] = R[f] \/ (row'[f].status = "observed" /\ row'[f].lease = R[f].lease)
    BY <1>1, <1>2, <2>1 DEF RowType
  <2> QED BY <1>2, <2>2 DEF GivenOnce, Unleased
<1>7. CASE FinalizeDeferred(w, e)
  BY <1>2, <1>7 DEF FinalizeDeferred, GivenOnce
<1>8. CASE \E c \in Workers : FinalizeGrant(w, e, c)
  <2>1. PICK c \in Workers : FinalizeGrant(w, e, c)
    BY <1>8
  <2>2. row' = [R EXCEPT ![e] = Granted(c)] /\ row[e].status = "collecting"
    BY <2>1 DEF FinalizeGrant, Collected
  <2>3. f # e => row'[f] = R[f]
    BY <1>1, <1>2, <2>2
  <2>4. f = e => row'[f] = Granted(c)
    BY <1>1, <1>2, <2>2
  <2> QED BY <1>2, <2>2, <2>3, <2>4 DEF GivenOnce, Unleased, Granted
<1> QED BY <1>4, <1>5, <1>6, <1>7, <1>8

(* A claim of a stable id gives an inbound message nothing. *)
LEMMA AdmitGives ==
  ASSUME ConstantsOK, IInv, NEW w \in Workers, NEW s \in Stable, NEW old \in SUBSET Events,
         NEW gone \in SUBSET Groups, NEW f \in Inbound,
         \/ AdmitRefused(w, s, old, gone)
         \/ AdmitDeferred(w, s, old, gone)
         \/ AdmitGranted(w, s, old, gone)
  PROVE  GivenOnce(f)
<1> DEFINE D == Overdue(Groups)
           P == PrunedRow(D, old)
<1>1. D \in SUBSET Groups /\ old \subseteq Prunable(D) /\ f \in Events /\ f # s
  BY DEF Overdue, AdmitRefused, AdmitDeferred, AdmitGranted, Housekeeping, Events, ConstantsOK
<1>2. P \in [Events -> RowType]
  BY <1>1, PrunedTables DEF TablesOK
<1>3. P[f] = IF f \in old THEN NoRow ELSE RowAfter(D)[f]
  BY <1>1 DEF PrunedRow
<1>4. RowAfter(D)[f].lease = row[f].lease /\ (Unleased(row[f]) => Unleased(RowAfter(D)[f]))
  BY <1>1, ExpiryGives
<1>5. row' = P \/ \E x : row' = [P EXCEPT ![s] = x]
  BY DEF AdmitRefused, AdmitDeferred, AdmitGranted
<1>6. row'[f] = P[f]
  BY <1>1, <1>2, <1>5
<1> QED BY <1>3, <1>4, <1>6 DEF GivenOnce, Unleased, NoRow

(* Nor does a worker with its lease. *)
LEMMA LeaseGives ==
  ASSUME ConstantsOK, IInv, NEW w \in Workers, NEW l \in held[w], NEW f \in Inbound,
         \/ \E g \in Groups : RetireOwn(w, l, g) \/ Fence(w, l, g)
         \/ AcknowledgeDelivery(w, l)
         \/ \E o \in {"sent", "silent", "uncertain"}, named \in Workers \cup {NoWorker} :
              Finish(w, l, o, named)
  PROVE  GivenOnce(f)
<1>1. f \in Events /\ row \in [Events -> RowType]
  BY DEF Events, IInv, TypeOK
<1>2. CASE \E g \in Groups : RetireOwn(w, l, g)
  <2>1. PICK g \in Groups : row' = RowAfter(Overdue({g}))
    BY <1>2 DEF RetireOwn
  <2>2. Overdue({g}) \in SUBSET Groups
    BY DEF Overdue
  <2> QED BY <1>1, <2>1, <2>2, ConstantsOK, ExpiryGives DEF GivenOnce
<1>3. CASE \/ \E g \in Groups : Fence(w, l, g)
           \/ AcknowledgeDelivery(w, l)
           \/ \E o \in {"sent", "silent", "uncertain"}, named \in Workers \cup {NoWorker} :
                Finish(w, l, o, named)
  <2> DEFINE To == {"sending", "granted", "sent", "silent", "uncertain"}
  <2>1. PICK o \in To : \E e : row' = [row EXCEPT ![e].status = o]
    BY <1>3 DEF Fence, AcknowledgeDelivery, Finish
  <2>2. row'[f] = row[f] \/ (row'[f].status = o /\ row'[f].lease = row[f].lease)
    BY <1>1, <2>1 DEF RowType
  <2> QED BY <2>2 DEF GivenOnce, Unleased
<1> QED BY <1>2, <1>3

(* One lease per message: however expiries, restarts, late finalizations   *)
(* and prunings interleave, the lease an inbound message was given stays   *)
(* the only one as long as its row is there.                               *)
THEOREM OneLeasePerMessage == Spec => OneAnswerPerMessage
<1> DEFINE AllUnleased == \A f \in Inbound : Unleased(row[f])
           Once == \A f \in Inbound :
                     row[f].lease # NoLease => row'[f].lease = row[f].lease \/ row'[f] = NoRow
<1>1. ASSUME IInv, [Next]_vars, NEW f \in Inbound PROVE GivenOnce(f)
  <2>1. CASE Transaction
    BY <1>1, <2>1, ConstantsOK, InboundGives, AdmitGives, LeaseGives DEF Transaction
  <2>2. CASE Aside
    BY <1>1, <2>2, ConstantsOK, AsideStep DEF ledger, GivenOnce
  <2>3. CASE UNCHANGED vars
    BY <2>3 DEF vars, GivenOnce
  <2> QED BY <1>1, <2>1, <2>2, <2>3, NextIs
<1>2. Init => AllUnleased
  BY DEF Init, Unleased, NoRow, Events
<1>3. AllUnleased /\ IInv /\ [Next]_vars => AllUnleased' /\ Once
  BY <1>1 DEF GivenOnce
<1>4. AllUnleased /\ IInv /\ [Next]_vars => [Once]_vars
  BY <1>3
<1>5. [Once]_vars =>
        [\A e \in Inbound :
           row[e].lease # NoLease => row'[e].lease = row[e].lease \/ row'[e] = NoRow]_vars
  OBVIOUS
<1> HIDE DEF AllUnleased, Once
<1> QED BY <1>2, <1>3, <1>4, <1>5, Invariance, PTL DEF Spec, OneAnswerPerMessage

-----------------------------------------------------------------------------
(* The dispatcher implements the ledger. *)

Speaker == [g \in Groups |-> turn[g].event]

LEMMA FateIs ==
  \A s \in Stable :
    /\ Fate[s] = IF receipt[s] # "none" THEN receipt[s]
                 ELSE IF row[s].status = "sending" THEN "flying" ELSE "open"
    /\ Fate'[s] = IF receipt'[s] # "none" THEN receipt'[s]
                  ELSE IF row'[s].status = "sending" THEN "flying" ELSE "open"
BY DEF Fate

(* How the abstract ledger sees an expiry. *)
LEMMA ExpiryRefines ==
  ASSUME ConstantsOK, IInv, NEW D \in SUBSET Groups
  PROVE  /\ Ledger!Freed(D) = [g \in Groups |-> TurnAfter(D)[g].event]
         /\ \A s \in Stable :
              Ledger!TimedOut(D)[s] =
                IF ReceiptAfter(D)[s] # "none" THEN ReceiptAfter(D)[s]
                ELSE IF RowAfter(D)[s].status = "sending" THEN "flying" ELSE "open"
<1>1. Ledger!Freed(D) = [g \in Groups |-> TurnAfter(D)[g].event]
  BY DEF Ledger!Freed, TurnAfter, Idle
<1>2. ASSUME NEW s \in Stable
      PROVE  Ledger!TimedOut(D)[s] =
                IF ReceiptAfter(D)[s] # "none" THEN ReceiptAfter(D)[s]
                ELSE IF RowAfter(D)[s].status = "sending" THEN "flying" ELSE "open"
  <2>1. Ledger!TimedOut(D)[s] = IF Fate[s] = "flying" /\ Retired(s, D) THEN "uncertain"
                                ELSE Fate[s]
    BY DEF Ledger!TimedOut, Retired
  <2>2. receipt[s] \in {"none", "sent", "uncertain"}
    BY DEF IInv, TypeOK
  <2>3. Fate[s] = "flying" <=> row[s].status = "sending"
    BY <2>2, FateIs DEF IInv, NoReceiptInFlight, Active
  <2>4. CASE row[s].status = "sending" /\ Retired(s, D)
    BY <2>1, <2>3, <2>4, ExpiryFacts
  <2>5. CASE ~(row[s].status = "sending" /\ Retired(s, D))
    <3>1. ReceiptAfter(D)[s] = receipt[s] /\ Ledger!TimedOut(D)[s] = Fate[s]
      BY <2>1, <2>3, <2>5, ExpiryFacts
    <3>2. RowAfter(D)[s].status = "sending" <=> row[s].status = "sending"
      BY <2>5, ExpiryFacts DEF Active
    <3> QED BY <3>1, <3>2, FateIs
  <2> QED BY <2>4, <2>5
<1> QED BY <1>1, <1>2

LEMMA FateEquals ==
  ASSUME NEW f, f = [s \in Stable |-> f[s]], \A s \in Stable : Fate'[s] = f[s]
  PROVE  Fate' = f
BY DEF Fate

LEMMA ExpiresRefines ==
  ASSUME ConstantsOK, IInv, NEW D \in SUBSET Groups, ExpiresOnly(D)
  PROVE  Ledger!Expire(D)
<1>1. Speaker' = Ledger!Freed(D)
  BY ExpiryRefines DEF ExpiresOnly, Speaker
<1>2. \A s \in Stable : Fate'[s] = Ledger!TimedOut(D)[s]
  BY ExpiryRefines, FateIs DEF ExpiresOnly, Quieted, Active
<1>3. Fate' = Ledger!TimedOut(D)
  BY <1>2, FateEquals, Ledger!TimedOut(D) = [s \in Stable |-> Ledger!TimedOut(D)[s]]
     DEF Ledger!TimedOut
<1> QED BY <1>1, <1>3 DEF Ledger!Expire, Speaker

LEMMA GrantsRefines ==
  ASSUME ConstantsOK, IInv, NEW D \in SUBSET Groups, NEW w \in Workers, NEW e \in Events,
         Grants(D, w, e)
  PROVE  Ledger!Give(D, e)
<1> DEFINE g == GroupOf[e]
<1>1. g \in Groups /\ Ledger!Freed(D) = [h \in Groups |-> TurnAfter(D)[h].event]
  BY ExpiryRefines DEF ConstantsOK
<1>2. Ledger!Freed(D)[g] = NoEvent
  BY <1>1 DEF Grants, Idle
<1>3. Speaker' = [Ledger!Freed(D) EXCEPT ![g] = e]
  <2>1. TurnAfter(D) \in [Groups -> TurnType]
    BY ExpiredTables DEF TablesOK
  <2>2. turn' = [TurnAfter(D) EXCEPT ![g] = TurnOf(w, e)]
    BY DEF Grants
  <2>3. \A h \in Groups : turn'[h].event = IF h = g THEN e ELSE TurnAfter(D)[h].event
    BY <1>1, <2>1, <2>2 DEF TurnOf
  <2> QED BY <1>1, <2>3 DEF Speaker
<1>4. \A s \in Stable : Fate'[s] = Ledger!TimedOut(D)[s]
  <2>1. ASSUME NEW s \in Stable, s # e PROVE Fate'[s] = Ledger!TimedOut(D)[s]
    BY <2>1, ExpiryRefines, FateIs DEF Grants, Quieted, Active
  <2>2. e \in Stable => Fate'[e] = Ledger!TimedOut(D)[e]
    BY ExpiryRefines, FateIs DEF Grants, Active
  <2> QED BY <2>1, <2>2
<1>5. Fate' = Ledger!TimedOut(D)
  BY <1>4, FateEquals, Ledger!TimedOut(D) = [s \in Stable |-> Ledger!TimedOut(D)[s]]
     DEF Ledger!TimedOut
<1>6. e \in Stable => Fate[e] = "open"
  <2> SUFFICES ASSUME e \in Stable PROVE Fate[e] = "open"
    OBVIOUS
  <2>1. ReceiptAfter(D)[e] = "none" /\ RowAfter(D)[e].status \notin Active
    BY DEF Grants
  <2>2. ~(row[e].status = "sending" /\ Retired(e, D))
    BY <2>1, ExpiryFacts
  <2>3. receipt[e] = "none" /\ row[e].status # "sending"
    BY <2>1, <2>2, ExpiryFacts DEF Active
  <2> QED BY <2>3, FateIs
<1> QED BY <1>2, <1>3, <1>5, <1>6 DEF Ledger!Give, Speaker

(* Fencing and acknowledging: the abstract event flies, lands, or, when it *)
(* is a platform message, nothing happens.                                 *)
LEMMA WorksRefines ==
  ASSUME ConstantsOK, IInv, NEW w \in Workers, NEW l \in held[w], NEW g \in Groups,
         NEW o \in {"sending", "granted"}, Works(w, l, g, o), UNCHANGED <<turn, receipt>>
  PROVE  Ledger!Next \/ UNCHANGED Ledger!ledger
<1> DEFINE e == turn[g].event
<1>1. e \in Events /\ GroupOf[e] = g /\ row[e].status \in Active /\ o \in Status
  BY DEF Works, Status
<1>2. /\ row'[e].status = o
      /\ \A s \in Stable \ {e} : row'[s] = row[s]
      /\ e \in Stable => receipt[e] = "none" /\ receipt'[e] = "none"
  BY <1>1, WorksFacts
<1>3. Speaker' = Speaker /\ Speaker[g] = e
  BY DEF Speaker
<1>4. \A s \in Stable \ {e} : Fate'[s] = Fate[s]
  BY <1>2, FateIs
<1>5. CASE e \notin Stable \/ row[e].status = o
  <2>1. e \in Stable => Fate'[e] = Fate[e]
    BY <1>2, <1>5, FateIs
  <2>2. \A s \in Stable : Fate'[s] = Fate[s]
    BY <1>4, <2>1
  <2>3. Fate' = Fate
    BY <2>2, FateEquals, Fate = [s \in Stable |-> Fate[s]] DEF Fate
  <2> QED BY <1>3, <2>3 DEF Ledger!ledger, Speaker
<1>6. CASE e \in Stable /\ row[e].status # o
  <2> DEFINE new == IF o = "sending" THEN "flying" ELSE "open"
             f == [Fate EXCEPT ![e] = new]
  <2>1. Fate'[e] = new /\ Fate[e] = IF o = "sending" THEN "open" ELSE "flying"
    BY <1>1, <1>2, <1>6, FateIs DEF Active
  <2>2. f = [s \in Stable |-> IF s = e THEN new ELSE Fate[s]]
    BY DEF Fate
  <2>3. \A s \in Stable : Fate'[s] = f[s]
    BY <1>4, <2>1, <2>2
  <2>4. f = [s \in Stable |-> f[s]]
    BY <2>2
  <2>5. Fate' = f
    BY <2>3, <2>4, FateEquals
  <2>6. CASE o = "sending"
    <3>1. Ledger!Fly(e)
      BY <1>1, <1>3, <2>1, <2>5, <2>6 DEF Ledger!Fly, Speaker
    <3> QED BY <1>6, <3>1 DEF Ledger!Next
  <2>7. CASE o = "granted"
    <3>1. Ledger!Land(e)
      BY <1>1, <1>3, <2>1, <2>5, <2>7 DEF Ledger!Land, Speaker
    <3> QED BY <1>6, <3>1 DEF Ledger!Next
  <2> QED BY <2>6, <2>7
<1> QED BY <1>5, <1>6

LEMMA EndsRefines ==
  ASSUME ConstantsOK, IInv, NEW w \in Workers, NEW l \in held[w], NEW g \in Groups,
         NEW o \in {"sent", "silent", "uncertain"}, Ends(w, l, g, o)
  PROVE  Ledger!Next
<1> DEFINE e == turn[g].event
           outcome == IF o = "silent" THEN "open" ELSE o
           f == [s \in Stable |-> IF s = e THEN outcome ELSE Fate[s]]
<1>1. Works(w, l, g, o) /\ o \in Status /\ e \in Events /\ e # NoEvent
  BY DEF Ends, Works, Status, ConstantsOK
<1>2. /\ row'[e].status = o
      /\ \A s \in Stable \ {e} : row'[s] = row[s]
      /\ e \in Stable => receipt[e] = "none"
  BY <1>1, WorksFacts
<1>3. Speaker' = [Speaker EXCEPT ![g] = NoEvent] /\ Speaker[g] = e
  <2>1. turn \in [Groups -> TurnType] /\ turn' = [turn EXCEPT ![g] = Idle]
    BY DEF IInv, TypeOK, Ends
  <2>2. \A h \in Groups : turn'[h].event = IF h = g THEN NoEvent ELSE turn[h].event
    BY <2>1 DEF Idle
  <2> QED BY <2>2 DEF Speaker
<1>4. receipt \in [Stable -> {"none", "sent", "uncertain"}]
  BY DEF IInv, TypeOK
<1>5. \A s \in Stable \ {e} : receipt'[s] = receipt[s]
  BY <1>4 DEF Ends
<1>6. e \in Stable => receipt'[e] = IF o = "silent" THEN "none" ELSE o
  BY <1>2, <1>4 DEF Ends, Receipted
<1>7. \A s \in Stable : Fate'[s] = f[s]
  <2>1. ASSUME NEW s \in Stable, s # e PROVE Fate'[s] = f[s]
    BY <1>2, <1>5, <2>1, FateIs
  <2>2. e \in Stable => Fate'[e] = outcome
    BY <1>2, <1>6, FateIs
  <2> QED BY <2>1, <2>2
<1>8. Fate' = f
  BY <1>7, FateEquals
<1>9. outcome \in {"open", "sent", "uncertain"}
  OBVIOUS
<1>10. Ledger!Close(g, outcome)
  BY <1>1, <1>3, <1>8 DEF Ledger!Close, Speaker
<1> QED BY <1>9, <1>10 DEF Ledger!Next

(* GroupDispatcher, with its workers, leases, votes, expiry, pruning and   *)
(* receipts, implements the abstract ledger of TurnLedger.                 *)
THEOREM Refinement == Spec => ImplementsLedger
<1>1. Init => Ledger!Init
  BY ConstantsOK DEF Init, Ledger!Init, Idle, NoRow, Fate, Events
<1>2. IInv /\ [Next]_vars => [Ledger!Next]_Ledger!ledger
  <2> SUFFICES ASSUME IInv, [Next]_vars PROVE Ledger!Next \/ UNCHANGED Ledger!ledger
    OBVIOUS
  <2>1. Shapes
    BY ConstantsOK, AllShapes
  <2>2. CASE Untouched
    <3>1. Speaker' = Speaker /\ \A s \in Stable : Fate'[s] = Fate[s]
      BY <2>2, FateIs DEF Untouched, Speaker
    <3>2. Fate' = Fate
      BY <3>1, FateEquals, Fate = [s \in Stable |-> Fate[s]] DEF Fate
    <3> QED BY <3>1, <3>2 DEF Ledger!ledger, Speaker
  <2>3. CASE \E D \in SUBSET Groups : ExpiresOnly(D)
    BY <2>3, ConstantsOK, ExpiresRefines DEF Ledger!Next
  <2>4. CASE \E D \in SUBSET Groups, w \in Workers, e \in Events : Grants(D, w, e)
    BY <2>4, ConstantsOK, GrantsRefines DEF Ledger!Next, Ledger!Events, Events
  <2>5. ASSUME NEW w \in Workers, NEW l \in held[w], NEW g \in Groups, NEW o \in {"sending", "granted"},
               Works(w, l, g, o), UNCHANGED <<turn, receipt>>
        PROVE  Ledger!Next \/ UNCHANGED Ledger!ledger
    BY <2>5, ConstantsOK, WorksRefines
  <2>6. ASSUME NEW w \in Workers, NEW l \in held[w], NEW g \in Groups,
               NEW o \in {"sent", "silent", "uncertain"}, Ends(w, l, g, o)
        PROVE  Ledger!Next
    BY <2>6, ConstantsOK, EndsRefines
  <2> QED BY <2>1, <2>2, <2>3, <2>4, <2>5, <2>6 DEF Shapes
<1> QED BY <1>1, <1>2, Invariance, PTL DEF Spec, ImplementsLedger, Ledger!Spec

=============================================================================
