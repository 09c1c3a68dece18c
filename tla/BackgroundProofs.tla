--------------------------- MODULE BackgroundProofs ---------------------------
(***************************************************************************)
(* What TLAPS proves of the worker's background: of VisualJobs, for any    *)
(* jobs, quotas and outages; of VisualRevisions, for any revisions,        *)
(* derivations and process deaths; of MemoryUnits and VectorFiles, for any *)
(* messages, units, files, deaths and crossed writes.                      *)
(* In VisualJobs three arguments hardly touch each other: how far a        *)
(* request went and what is held for it (the boundary in its row, the      *)
(* money), whether its picture may be shown, and whether a turn about it   *)
(* has acted.  VisualRevisions needs one invariant, of the rows and of     *)
(* what the handler a process is in relies on.  MemoryUnits needs to know  *)
(* what each writer holds between its read and its write: a copy that      *)
(* carries everything the file covers and shows, unless another process    *)
(* wrote in between.  VectorFiles needs every list that may become the     *)
(* JSON file to fit the file it will name, and that file to be known to    *)
(* its saver alone until then.                                             *)
(***************************************************************************)
EXTENDS MCBackground, FiniteSetTheorems, SequenceTheorems, WellFoundedInduction, TLAPS

Binding == [state : Pending \cup Terminal \cup {"none"},
            boundary : {"not_submitted", "permit_acquired", "submit_started", "submitted"},
            isolated : BOOLEAN, back : SUBSET {"grant", "budget"}, deleted : BOOLEAN]
Entry == [status : {"none", "pending", "running", "done", "failed", "cancelled"}, hidden : BOOLEAN,
          callback : {"pending", "running", "completed", "failed", "uncertain", "skipped"},
          unsafe : BOOLEAN, tries : 0 .. MaxTries, deleted : BOOLEAN]
Hands == [at : {"free"}]
         \cup [at : {"reserved", "bound", "queued", "taken", "checked", "permitted"}, job : Pictures]
         \cup [at : {"verdict"}, job : Pictures, status : {"done", "failed", "cancelled"}, hidden : BOOLEAN]
         \cup [at : {"taking back"}, what : {"grant", "picture", "person"}, left : SUBSET Pictures]
Outsides == [on : {"nothing"}] \cup [on : {"picture"}, job : Pictures]
            \cup [on : {"turn"}, job : Pictures, acted : BOOLEAN]

(* A row by itself: where the request may be, and when a part was given back. *)
RowTells(b) ==
  /\ b.state \in {"none", "prepared", "enqueued", "dispatching"} =>
       b.boundary \in {"not_submitted", "permit_acquired"}
  /\ b.state = "submitted" => b.boundary = "submit_started"
  /\ b.state = "outcome_uncertain" => b.boundary \in {"submit_started", "submitted"}
  /\ b.back # {} => b.boundary = "not_submitted" /\ b.state \in Terminal

Holds(at, j) == hand.at = at /\ hand.job = j
Painting(j) == outside.on = "picture" /\ outside.job = j

RequestInv ==
  /\ binding \in [Pictures -> Binding] /\ hand \in Hands /\ outside \in Outsides
  /\ calls \in [Pictures -> {0, 1}]
  /\ \A j \in Pictures :
       /\ RowTells(binding[j])
       /\ calls[j] = 1 => binding[j].boundary \in {"submit_started", "submitted"}
       /\ Holds("reserved", j) => binding[j].state = "none"
       /\ Holds("bound", j) \/ Holds("queued", j) => binding[j].state = "prepared"
       /\ Holds("checked", j) \/ Holds("permitted", j) => binding[j].state = "dispatching"
       /\ Painting(j) => /\ binding[j].boundary = "submit_started"
                         /\ binding[j].state \in {"submitted", "cancelled", "isolated"}

(* What is held for a job and was not given back is charged. *)
Held == {j \in Pictures : binding[j].back = {} /\ (binding[j].state # "none" \/ Holds("reserved", j))}
MoneyInv ==
  /\ charged \in 0 .. Quota /\ usedCount \in 0 .. MaxUses
  /\ Cardinality(Held) <= charged /\ Cardinality(Held \cap AutoPictures) <= usedCount

-----------------------------------------------------------------------------
(* Rows. *)
LEMMA CancelledRow ==
  ASSUME NEW b \in Binding, RowTells(b)
  PROVE  /\ Cancelled(b) \in Binding /\ RowTells(Cancelled(b))
         /\ Cancelled(b).boundary = b.boundary /\ Cancelled(b).back = b.back
         /\ Cancelled(b).state = IF b.state \in Pending THEN "cancelled" ELSE b.state
BY DEF Cancelled, Binding, RowTells, Pending, Terminal

LEMMA FailedRow ==
  ASSUME NEW b \in Binding, RowTells(b)
  PROVE  /\ MarkedFailed(b) \in Binding /\ RowTells(MarkedFailed(b))
         /\ MarkedFailed(b).boundary = b.boundary /\ MarkedFailed(b).back = b.back
         /\ MarkedFailed(b).state \in {"failed", "outcome_uncertain"}
BY DEF MarkedFailed, Binding, RowTells, Pending, Terminal

LEMMA ScrubbedRow ==
  ASSUME NEW b \in Binding, RowTells(b)
  PROVE  /\ Scrubbed(b) \in Binding /\ RowTells(Scrubbed(b))
         /\ Scrubbed(b).boundary = b.boundary /\ Scrubbed(b).back = b.back
         /\ Scrubbed(b).state = IF b.state \in {"submitted", "done"} THEN "isolated" ELSE b.state
BY DEF Scrubbed, Binding, RowTells, Pending, Terminal

(* Writing new as the row of j leaves one of two things: the charges as they were, or what was  *)
(* held for j given back.                                                                        *)
Settled(j, new) ==
  \/ binding' = [binding EXCEPT ![j] = new] /\ UNCHANGED <<charged, usedCount>>
  \/ /\ Refundable(binding[j])
     /\ \E back \in SUBSET {"grant", "budget"} :
          back # {} /\ binding' = [binding EXCEPT ![j] = [new EXCEPT !.back = back]]
     /\ charged' = Less(charged) /\ usedCount' = IF IsAuto(j) THEN Less(usedCount) ELSE usedCount

LEMMA GivenBackAll ==
  ASSUME NEW j \in Pictures
  PROVE  /\ GivenBack(j, {}).flags \in SUBSET {"grant", "budget"} /\ GivenBack(j, {}).flags # {}
         /\ GivenBack(j, {}).charged = Less(charged)
         /\ GivenBack(j, {}).usedCount = IF IsAuto(j) THEN Less(usedCount) ELSE usedCount
BY DEF GivenBack

LEMMA Settlements ==
  ASSUME NEW j \in Pictures, binding[j].back = {}
  PROVE  /\ Cancel(j, TRUE) => Settled(j, Cancelled(binding[j]))
         /\ FailGeneration(j) => Settled(j, MarkedFailed(binding[j]))
         /\ Recover(j) => Settled(j, Recovered(j))
<1>1. Cancel(j, TRUE) => Settled(j, Cancelled(binding[j]))
  BY GivenBackAll DEF Cancel, Settled
<1>2. FailGeneration(j) => Settled(j, MarkedFailed(binding[j]))
  BY GivenBackAll DEF FailGeneration, Settled
<1>3. Recover(j) => Settled(j, Recovered(j))
  BY GivenBackAll DEF Recover, Settled
<1> QED
  BY <1>1, <1>2, <1>3

LEMMA MoneyMoves ==
  ASSUME RequestInv, MoneyInv, NEW K, K = Held
  PROVE  /\ Held' \subseteq K /\ UNCHANGED <<charged, usedCount>> => MoneyInv'
         /\ \A j \in K : /\ Held' \subseteq K \ {j} /\ charged' = Less(charged)
                         /\ usedCount' = (IF IsAuto(j) THEN Less(usedCount) ELSE usedCount)
                         => MoneyInv'
         /\ \A j \in Pictures : /\ Held' \subseteq K \cup {j} /\ Affordable(j) /\ charged' = charged + 1
                                /\ usedCount' = (IF IsAuto(j) THEN usedCount + 1 ELSE usedCount)
                                => MoneyInv'
<1> USE VisualAssumption
<1> DEFINE A == AutoPictures
<1>0. /\ IsFiniteSet(K) /\ IsFiniteSet(K \cap A)
      /\ Cardinality(K) \in Nat /\ Cardinality(K \cap A) \in Nat
      /\ IsFiniteSet(Held') /\ IsFiniteSet(Held' \cap A)
      /\ Cardinality(Held') \in Nat /\ Cardinality(Held' \cap A) \in Nat
  <2>1. K \subseteq Pictures /\ Held' \subseteq Pictures
    BY DEF Held
  <2>2. IsFiniteSet(K) /\ IsFiniteSet(K \cap A) /\ IsFiniteSet(Held') /\ IsFiniteSet(Held' \cap A)
    BY <2>1, FS_Subset
  <2> QED
    BY <2>2, FS_CardinalityType
<1>1. /\ charged \in 0 .. Quota /\ usedCount \in 0 .. MaxUses
      /\ Cardinality(K) <= charged /\ Cardinality(K \cap A) <= usedCount
  BY DEF MoneyInv
<1>2. ASSUME Held' \subseteq K, UNCHANGED <<charged, usedCount>> PROVE MoneyInv'
  <2>1. Cardinality(Held') <= Cardinality(K) /\ Cardinality(Held' \cap A) <= Cardinality(K \cap A)
    BY <1>0, <1>2, FS_Subset
  <2> QED
    BY <1>0, <1>1, <1>2, <2>1 DEF MoneyInv
<1>3. ASSUME NEW j \in K, Held' \subseteq K \ {j}, charged' = Less(charged),
             usedCount' = (IF IsAuto(j) THEN Less(usedCount) ELSE usedCount)
      PROVE  MoneyInv'
  <2>1. /\ IsFiniteSet(K \ {j}) /\ Cardinality(K \ {j}) = Cardinality(K) - 1
        /\ IsFiniteSet((K \cap A) \ {j})
        /\ j \in A => Cardinality((K \cap A) \ {j}) = Cardinality(K \cap A) - 1
    BY <1>0, FS_RemoveElement
  <2>2. Cardinality(Held') <= Cardinality(K) - 1 /\ Cardinality(Held' \cap A) <= Cardinality((K \cap A) \ {j})
    BY <1>0, <1>3, <2>1, FS_Subset
  <2>3. Cardinality((K \cap A) \ {j}) <= Cardinality(K \cap A)
    BY <1>0, FS_Subset
  <2>4. Cardinality((K \cap A) \ {j}) \in Nat
    BY <2>1, FS_CardinalityType
  <2> QED
    BY <1>0, <1>1, <1>3, <2>1, <2>2, <2>3, <2>4 DEF MoneyInv, Less, IsAuto
<1>4. ASSUME NEW j \in Pictures, Held' \subseteq K \cup {j}, Affordable(j), charged' = charged + 1,
             usedCount' = (IF IsAuto(j) THEN usedCount + 1 ELSE usedCount)
      PROVE  MoneyInv'
  <2>1. /\ IsFiniteSet(K \cup {j}) /\ Cardinality(K \cup {j}) <= Cardinality(K) + 1
        /\ IsFiniteSet((K \cap A) \cup {j}) /\ Cardinality((K \cap A) \cup {j}) <= Cardinality(K \cap A) + 1
    <3>1. /\ IsFiniteSet(K \cup {j})
          /\ Cardinality(K \cup {j}) = IF j \in K THEN Cardinality(K) ELSE Cardinality(K) + 1
      BY <1>0, FS_AddElement
    <3>2. /\ IsFiniteSet((K \cap A) \cup {j})
          /\ Cardinality((K \cap A) \cup {j}) =
               IF j \in K \cap A THEN Cardinality(K \cap A) ELSE Cardinality(K \cap A) + 1
      BY <1>0, FS_AddElement
    <3> HIDE DEF A
    <3> QED
      BY <1>0, <3>1, <3>2
  <2>2. Cardinality(Held') <= Cardinality(K) + 1 /\ Cardinality(Held' \cap A) <= Cardinality(K \cap A) + 1
    <3>1. Cardinality(Held') <= Cardinality(K \cup {j}) /\ Cardinality(Held' \cap A) <= Cardinality((K \cap A) \cup {j})
      BY <1>4, <2>1, FS_Subset
    <3>2. Cardinality(K \cup {j}) \in Nat /\ Cardinality((K \cap A) \cup {j}) \in Nat
      BY <2>1, FS_CardinalityType
    <3> QED
      BY <1>0, <2>1, <3>1, <3>2
  <2>3. j \notin A => Cardinality(Held' \cap A) <= Cardinality(K \cap A)
    BY <1>0, <1>4, FS_Subset
  <2> QED
    BY <1>0, <1>1, <1>4, <2>2, <2>3 DEF MoneyInv, Affordable, IsAuto
<1> QED
  BY <1>2, <1>3, <1>4
(* A settlement keeps the rows, and the money with them. *)
LEMMA SettledSafe ==
  ASSUME RequestInv, MoneyInv, NEW j \in Pictures, NEW new \in Binding, Settled(j, new),
         RowTells(new), new.boundary = binding[j].boundary, new.back = binding[j].back,
         binding[j].state # "none", new.state \in Terminal, new.back = {},
         UNCHANGED calls, hand' \in Hands, outside' \in Outsides,
         hand'.at \in {"free", "verdict", "taking back"},
         \A i \in Pictures : Painting(i)' => Painting(i) /\ (i = j => new.state \in {"cancelled", "isolated"}),
         ~\E i \in Pictures : Holds("reserved", i)
  PROVE  RequestInv' /\ MoneyInv'
<1> USE DEF RequestInv
<1>1. PICK r \in Binding :
        /\ binding' = [binding EXCEPT ![j] = r]
        /\ RowTells(r) /\ r.boundary = binding[j].boundary /\ r.state = new.state
        /\ \/ r.back = {} /\ UNCHANGED <<charged, usedCount>>
           \/ /\ r.back # {} /\ charged' = Less(charged)
              /\ usedCount' = IF IsAuto(j) THEN Less(usedCount) ELSE usedCount
  <2>1. CASE binding' = [binding EXCEPT ![j] = new] /\ UNCHANGED <<charged, usedCount>>
    BY <2>1
  <2>2. ASSUME NEW back \in SUBSET {"grant", "budget"}, back # {}, Refundable(binding[j]),
               binding' = [binding EXCEPT ![j] = [new EXCEPT !.back = back]],
               charged' = Less(charged), usedCount' = IF IsAuto(j) THEN Less(usedCount) ELSE usedCount
        PROVE  \E r \in Binding :
                 /\ binding' = [binding EXCEPT ![j] = r]
                 /\ RowTells(r) /\ r.boundary = binding[j].boundary /\ r.state = new.state
                 /\ r.back # {}
    <3> DEFINE r == [new EXCEPT !.back = back]
    <3>1. r \in Binding /\ r.boundary = new.boundary /\ r.state = new.state /\ r.back = back
      BY <2>2 DEF Binding
    <3>2. RowTells(r)
      BY <2>2, <3>1 DEF RowTells, Refundable
    <3> QED
      BY <2>2, <3>1, <3>2
  <2> QED
    BY <2>1, <2>2 DEF Settled
<1>2. binding' \in [Pictures -> Binding] /\ \A i \in Pictures : i # j => binding'[i] = binding[i]
  BY <1>1
<1>3. binding'[j] = r
  BY <1>1
<1>4. RequestInv'
  <2> SUFFICES ASSUME NEW i \in Pictures
               PROVE  /\ RowTells(binding'[i])
                      /\ calls[i] = 1 => binding'[i].boundary \in {"submit_started", "submitted"}
                      /\ Painting(i)' => /\ binding'[i].boundary = "submit_started"
                                         /\ binding'[i].state \in {"submitted", "cancelled", "isolated"}
    BY <1>2 DEF Holds
  <2>1. CASE i = j
    BY <1>1, <1>3, <2>1
  <2>2. CASE i # j
    BY <1>2, <2>2
  <2> QED
    BY <2>1, <2>2
<1>5. MoneyInv'
  <2>1. Held' \subseteq Held
    BY <1>1, <1>2, <1>3 DEF Held, Holds
  <2>2. CASE r.back = {} /\ UNCHANGED <<charged, usedCount>>
    BY <2>1, <2>2, MoneyMoves
  <2>3. CASE /\ r.back # {} /\ charged' = Less(charged)
             /\ usedCount' = IF IsAuto(j) THEN Less(usedCount) ELSE usedCount
    <3>1. j \in Held /\ Held' \subseteq Held \ {j}
      BY <1>3, <2>1, <2>3 DEF Held
    <3> QED
      BY <2>3, <3>1, MoneyMoves
  <2> QED
    BY <1>1, <2>2, <2>3
<1> QED
  BY <1>4, <1>5
(* Steps that touch neither a row nor the money. *)
LEMMA UntouchedSafe ==
  ASSUME RequestInv, MoneyInv, UNCHANGED <<binding, charged, usedCount, calls>>,
         hand' \in Hands, outside' \in Outsides,
         hand' = hand \/ hand'.at \in {"free", "taken", "verdict", "taking back"},
         \A i \in Pictures : Painting(i)' => Painting(i)
  PROVE  RequestInv' /\ MoneyInv'
<1>1. \A i \in Pictures : \A at \in {"reserved", "bound", "queued", "checked", "permitted"} :
        Holds(at, i)' => Holds(at, i)
  BY DEF Holds
<1>2. RequestInv'
  BY <1>1 DEF RequestInv
<1>3. Held' \subseteq Held
  BY <1>1 DEF Held
<1> QED
  BY <1>2, <1>3, MoneyMoves

LEMMA QuietStepsSafe ==
  ASSUME RequestInv, MoneyInv,
         \/ \E j \in Pictures : \/ Take(j) \/ BeginCallback(j) \/ ToolInTurn(j) \/ EndCallback(j)
                                \/ DeferCallback(j) \/ FailCallback(j)
         \/ SaveRecovered \/ WriteVerdict \/ TookBack \/ Stop
         \/ \E what \in {"grant", "picture", "person"} : TakeBack(what)
  PROVE  RequestInv' /\ MoneyInv'
<1>1. UNCHANGED <<binding, charged, usedCount, calls>>
  BY DEF Take, BeginCallback, ToolInTurn, EndCallback, DeferCallback, FailCallback, SaveRecovered,
         WriteVerdict, TookBack, Stop, TakeBack, Rest, Ghosts
<1>2. hand' \in Hands /\ (hand' = hand \/ hand'.at \in {"free", "taken", "verdict", "taking back"})
  <2>1. ASSUME NEW j \in Pictures, Take(j) PROVE hand' = [at |-> "taken", job |-> j]
    BY <2>1 DEF Take
  <2>2. ASSUME NEW what \in {"grant", "picture", "person"}, TakeBack(what)
        PROVE  hand' \in [at : {"taking back"}, what : {"grant", "picture", "person"}, left : SUBSET Pictures]
    BY <2>2, VisualAssumption DEF TakeBack, Affected
  <2>3. hand' = hand \/ hand' = Free \/ (\E j \in Pictures : Take(j))
        \/ (\E what \in {"grant", "picture", "person"} : TakeBack(what))
    BY DEF BeginCallback, ToolInTurn, EndCallback, DeferCallback, FailCallback, SaveRecovered,
           WriteVerdict, TookBack, Stop
  <2> QED
    <3>1. Free \in Hands /\ hand \in Hands /\ \A j \in Pictures : [at |-> "taken", job |-> j] \in Hands
      BY DEF Hands, Free, RequestInv
    <3>2. ASSUME NEW what \in {"grant", "picture", "person"}, TakeBack(what)
          PROVE  hand' \in Hands /\ hand'.at = "taking back"
      BY <2>2, <3>2 DEF Hands
    <3>3. ASSUME NEW j \in Pictures, Take(j)
          PROVE  hand' \in Hands /\ hand'.at = "taken"
      BY <2>1, <3>1, <3>3
    <3>4. Free.at = "free"
      BY DEF Free
    <3> QED
      BY <2>3, <3>1, <3>2, <3>3, <3>4
<1>3. outside' \in Outsides /\ \A i \in Pictures : Painting(i)' => Painting(i)
  <2>1. outside' = outside \/ outside' = Idle
        \/ (\E j \in Pictures : outside' = [on |-> "turn", job |-> j, acted |-> FALSE])
        \/ (outside' = [outside EXCEPT !.acted = TRUE] /\ outside.on = "turn")
    BY DEF Take, BeginCallback, ToolInTurn, InTurn, EndCallback, DeferCallback, FailCallback,
           SaveRecovered, WriteVerdict, TookBack, Stop, TakeBack, Rest, Ghosts
  <2> QED
    <3>1. CASE outside' = outside \/ outside' = Idle
      BY <3>1 DEF Outsides, Idle, Painting, RequestInv
    <3>2. ASSUME NEW j \in Pictures, outside' = [on |-> "turn", job |-> j, acted |-> FALSE]
          PROVE  outside' \in Outsides /\ outside'.on # "picture"
      BY <3>2 DEF Outsides
    <3>3. CASE outside' = [outside EXCEPT !.acted = TRUE] /\ outside.on = "turn"
      <4>1. outside \in [on : {"turn"}, job : Pictures, acted : BOOLEAN]
        BY <3>3 DEF Outsides, RequestInv
      <4> QED
        BY <3>3, <4>1 DEF Outsides, Painting
    <3> QED
      BY <2>1, <3>1, <3>2, <3>3 DEF Painting
<1> QED
  BY <1>1, <1>2, <1>3, UntouchedSafe

(* Handing a job in. *)
LEMMA HandingInSafe ==
  ASSUME RequestInv, MoneyInv, NEW j \in Pictures, Reserve(j) \/ Bind(j) \/ Enqueue(j) \/ MarkEnqueued(j)
  PROVE  RequestInv' /\ MoneyInv'
<1> USE DEF RequestInv
<1>0. /\ UNCHANGED <<calls, outside>>
      /\ \A i \in Pictures : Painting(i)' = Painting(i)
  BY DEF Reserve, Bind, Enqueue, MarkEnqueued, Rest, Ghosts, Painting
<1>1. CASE Reserve(j)
  <2>1. hand' = [at |-> "reserved", job |-> j] /\ UNCHANGED binding /\ binding[j].state = "none"
        /\ hand = Free /\ Affordable(j) /\ charged' = charged + 1
        /\ usedCount' = (IF IsAuto(j) THEN usedCount + 1 ELSE usedCount)
    BY <1>1 DEF Reserve
  <2>2. RequestInv'
    BY <1>0, <2>1 DEF Hands, Holds
  <2>3. Held' \subseteq Held \cup {j}
    BY <2>1 DEF Held, Holds
  <2> QED
    BY <2>1, <2>2, <2>3, MoneyMoves
<1>2. CASE Bind(j)
  <2>1. hand = [at |-> "reserved", job |-> j] /\ Holds("reserved", j) /\ binding[j].state = "none"
    BY <1>2 DEF Bind, Holds
  <2>2. binding[j] \in Binding /\ binding[j].back = {}
    BY <2>1 DEF RowTells, Terminal
  <2>3. CASE /\ binding' = [binding EXCEPT ![j].state = "prepared"]
             /\ hand' = [at |-> "bound", job |-> j] /\ UNCHANGED <<charged, usedCount>>
    <3>1. /\ binding' \in [Pictures -> Binding] /\ binding'[j].state = "prepared"
          /\ binding'[j].boundary = binding[j].boundary /\ binding'[j].back = {}
          /\ \A i \in Pictures : i # j => binding'[i] = binding[i]
      BY <2>2, <2>3 DEF Binding, Pending
    <3>2. RowTells(binding'[j])
      BY <2>1, <3>1 DEF RowTells
    <3>3. RequestInv'
      <4>1. hand'.at = "bound" /\ hand'.job = j /\ hand' \in Hands
        BY <2>3 DEF Hands
      <4>2. \A i \in Pictures : RowTells(binding'[i])
        BY <3>1, <3>2
      <4>3. ASSUME NEW i \in Pictures PROVE calls[i] = 1 => binding'[i].boundary \in {"submit_started", "submitted"}
        BY <3>1
      <4>4. ASSUME NEW i \in Pictures, Painting(i)
            PROVE  binding'[i].boundary = "submit_started" /\ binding'[i].state \in {"submitted", "cancelled", "isolated"}
        <5>1. i # j
          BY <2>1, <4>4
        <5> QED
          BY <3>1, <4>4, <5>1
      <4>5. outside' \in Outsides /\ calls' \in [Pictures -> {0, 1}] /\ calls' = calls
        BY <1>0
      <4> HIDE DEF RequestInv
      <4>6. ASSUME NEW i \in Pictures
            PROVE  /\ ~Holds("reserved", i)' /\ ~Holds("queued", i)' /\ ~Holds("checked", i)' /\ ~Holds("permitted", i)'
                   /\ Holds("bound", i)' => binding'[i].state = "prepared"
        BY <3>1, <4>1 DEF Holds
      <4> QED
        BY <1>0, <3>1, <4>1, <4>2, <4>3, <4>4, <4>5, <4>6 DEF RequestInv
    <3>4. Held' \subseteq Held
      BY <2>1, <2>2, <2>3, <3>1 DEF Held, Holds
    <3> QED
      BY <2>3, <3>3, <3>4, MoneyMoves
  <2>4. CASE /\ charged' = Less(charged) /\ hand' = Free /\ UNCHANGED binding
             /\ usedCount' = IF IsAuto(j) THEN Less(usedCount) ELSE usedCount
    <3>1. RequestInv'
      BY <1>0, <2>4 DEF Hands, Holds, Free
    <3>2. j \in Held /\ Held' \subseteq Held \ {j}
      BY <2>1, <2>2, <2>4 DEF Held, Holds, Free
    <3> QED
      BY <2>4, <3>1, <3>2, MoneyMoves
  <2> QED
    BY <1>2, <2>3, <2>4 DEF Bind
<1>3. CASE Enqueue(j)
  <2>1. hand = [at |-> "bound", job |-> j] /\ Holds("bound", j) /\ binding[j].state = "prepared"
    BY <1>3 DEF Enqueue, Holds
  <2>2. binding[j] \in Binding /\ binding[j].back = {}
    BY <2>1 DEF RowTells, Terminal
  <2>3. CASE hand' = [at |-> "queued", job |-> j] /\ UNCHANGED <<binding, charged, usedCount>>
    <3>1. RequestInv'
      BY <1>0, <2>1, <2>3 DEF Hands, Holds
    <3>2. Held' \subseteq Held
      BY <2>1, <2>3 DEF Held, Holds
    <3> QED
      BY <2>3, <3>1, <3>2, MoneyMoves
  <2>4. CASE Cancel(j, TRUE) /\ hand' = Free
    <3>1. Settled(j, Cancelled(binding[j]))
      BY <2>2, <2>4, Settlements
    <3>2. ~Painting(j) /\ ~\E i \in Pictures : Holds("reserved", i)
      BY <2>1 DEF Holds
    <3>3. /\ Cancelled(binding[j]) \in Binding /\ RowTells(Cancelled(binding[j]))
          /\ Cancelled(binding[j]).boundary = binding[j].boundary
          /\ Cancelled(binding[j]).back = {} /\ Cancelled(binding[j]).state = "cancelled"
      BY <2>1, <2>2, CancelledRow DEF Pending
    <3>4. hand' \in Hands /\ hand'.at = "free" /\ outside' \in Outsides
      BY <1>0, <2>4 DEF Hands, Free
    <3> HIDE DEF RequestInv
    <3> QED
      BY <1>0, <2>1, <2>2, <3>1, <3>2, <3>3, <3>4, SettledSafe DEF Terminal
  <2> QED
    BY <1>3, <2>3, <2>4 DEF Enqueue
<1>4. CASE MarkEnqueued(j)
  <2>1. /\ binding' = [binding EXCEPT ![j].state = "enqueued"] /\ hand' = Free
        /\ binding[j].state = "prepared" /\ UNCHANGED <<charged, usedCount>> /\ hand.at = "queued"
    BY <1>4 DEF MarkEnqueued
  <2>2. binding[j] \in Binding /\ binding[j].back = {}
    BY <2>1 DEF RowTells, Terminal
  <2>3. /\ binding' \in [Pictures -> Binding] /\ binding'[j].state = "enqueued"
        /\ binding'[j].boundary = binding[j].boundary /\ binding'[j].back = {}
        /\ \A i \in Pictures : i # j => binding'[i] = binding[i]
    BY <2>1, <2>2 DEF Binding, Pending
  <2>4. RowTells(binding'[j]) /\ ~Painting(j)
    BY <2>1, <2>3 DEF RowTells
  <2>5. RequestInv'
    <3>1. hand' \in Hands /\ \A i \in Pictures : \A at \in {"reserved", "bound", "queued", "checked", "permitted"} :
                              ~Holds(at, i)'
      BY <2>1 DEF Hands, Holds, Free
    <3>2. \A i \in Pictures \ {j} : binding'[i] = binding[i] /\ RowTells(binding[i])
      BY <2>3
    <3>3. binding' \in [Pictures -> Binding] /\ \A i \in Pictures : RowTells(binding'[i])
      BY <2>3, <2>4, <3>2
    <3>4. ASSUME NEW i \in Pictures PROVE calls[i] = 1 => binding'[i].boundary \in {"submit_started", "submitted"}
      BY <2>3
    <3>5. ASSUME NEW i \in Pictures, Painting(i)
          PROVE  binding'[i].boundary = "submit_started" /\ binding'[i].state \in {"submitted", "cancelled", "isolated"}
      BY <2>4, <3>2, <3>5
    <3> QED
      BY <1>0, <3>1, <3>3, <3>4, <3>5
  <2>6. Held' \subseteq Held
    BY <2>1, <2>2, <2>3 DEF Held, Holds, Free
  <2> QED
    BY <2>1, <2>5, <2>6, MoneyMoves
<1> QED
  BY <1>1, <1>2, <1>3, <1>4

(* The worker's tick, and what comes back. *)
LEMMA RowMoves ==
  ASSUME RequestInv, MoneyInv, NEW j \in Pictures, NEW r \in Binding, RowTells(r),
         binding' = [binding EXCEPT ![j] = r], r.back = binding[j].back, binding[j].state # "none" \/ r.state = "none",
         UNCHANGED <<charged, usedCount>>, hand' \in Hands, outside' \in Outsides,
         calls' \in [Pictures -> {0, 1}],
         \A i \in Pictures \ {j} : calls'[i] = calls[i] /\ (Painting(i)' => Painting(i)),
         calls'[j] = 1 => r.boundary \in {"submit_started", "submitted"},
         Painting(j)' => r.boundary = "submit_started" /\ r.state \in {"submitted", "cancelled", "isolated"},
         hand'.at \in {"free", "verdict", "taking back", "checked", "permitted"},
         hand'.at \in {"checked", "permitted"} => hand'.job = j /\ r.state = "dispatching"
  PROVE  RequestInv' /\ MoneyInv'
<1> USE DEF RequestInv
<1>1. /\ binding' \in [Pictures -> Binding] /\ binding'[j] = r
      /\ \A i \in Pictures : i # j => binding'[i] = binding[i]
  OBVIOUS
<1>2. RequestInv'
  <2>1. ASSUME NEW i \in Pictures
        PROVE  /\ RowTells(binding'[i])
               /\ calls'[i] = 1 => binding'[i].boundary \in {"submit_started", "submitted"}
               /\ Painting(i)' => /\ binding'[i].boundary = "submit_started"
                                  /\ binding'[i].state \in {"submitted", "cancelled", "isolated"}
    <3>1. CASE i = j
      BY <1>1, <3>1
    <3>2. CASE i # j
      BY <1>1, <3>2
    <3> QED
      BY <3>1, <3>2
  <2>2. \A i \in Pictures : /\ ~Holds("reserved", i)' /\ ~Holds("bound", i)' /\ ~Holds("queued", i)'
                            /\ (Holds("checked", i)' \/ Holds("permitted", i)' => binding'[i].state = "dispatching")
    BY <1>1 DEF Holds
  <2> QED
    BY <1>1, <2>1, <2>2
<1>3. Held' \subseteq Held
  BY <1>1 DEF Held, Holds
<1> QED
  BY <1>2, <1>3, MoneyMoves
(* What settling needs of a row that is still pending. *)
LEMMA PendingRow ==
  ASSUME RequestInv, NEW j \in Pictures, binding[j].state \in Pending
  PROVE  /\ binding[j] \in Binding /\ binding[j].back = {} /\ binding[j].state # "none"
         /\ \A new \in {Cancelled(binding[j]), MarkedFailed(binding[j]), Recovered(j)} :
              /\ new \in Binding /\ RowTells(new) /\ new.boundary = binding[j].boundary
              /\ new.back = {} /\ new.state \in Terminal
         /\ Cancelled(binding[j]).state = "cancelled"
<1>1. binding[j] \in Binding /\ RowTells(binding[j])
  BY DEF RequestInv
<1>2. binding[j].back = {} /\ binding[j].state # "none"
  BY <1>1 DEF RowTells, Pending, Terminal
<1> QED
  BY <1>1, <1>2, CancelledRow, FailedRow DEF Recovered, Terminal

LEMMA TickSafe ==
  ASSUME RequestInv, MoneyInv, NEW j \in Pictures,
         \/ Recover(j) \/ Preflight(j) \/ SnapshotLost(j) \/ AcquirePermit(j) \/ StartSubmit(j)
         \/ Complete(j) \/ RequestFails(j) \/ CancelTakenBack(j) \/ PassTakenBack(j)
  PROVE  RequestInv' /\ MoneyInv'
<1>0. /\ binding \in [Pictures -> Binding] /\ binding[j] \in Binding /\ RowTells(binding[j])
      /\ hand \in Hands /\ outside \in Outsides /\ calls \in [Pictures -> {0, 1}]
  BY DEF RequestInv
<1>1. CASE Recover(j)
  <2>1. /\ binding[j].state \in Pending /\ UNCHANGED <<calls, hand, outside>>
        /\ hand = Free /\ outside = Idle
    BY <1>1 DEF Recover, Rest, Ghosts
  <2>2. Settled(j, Recovered(j))
    BY <1>1, <2>1, PendingRow, Settlements
  <2>3. hand.at = "free" /\ \A i \in Pictures : ~Painting(i)' /\ ~Holds("reserved", i)
    BY <2>1 DEF Free, Idle, Painting, Holds
  <2>4. hand' \in Hands /\ outside' \in Outsides /\ hand'.at = "free"
    BY <1>0, <2>1, <2>3
  <2> QED
    BY <2>1, <2>2, <2>3, <2>4, PendingRow, SettledSafe
<1>2. CASE Preflight(j)
  <2>1. hand = [at |-> "taken", job |-> j] /\ UNCHANGED <<calls, outside>>
    BY <1>2 DEF Preflight, Rest, Ghosts
  <2>2. hand.at = "taken" /\ \A i \in Pictures : ~Holds("reserved", i) /\ (Painting(i)' <=> Painting(i))
    BY <2>1 DEF Holds, Painting
  <2>3. Verdict(j, "cancelled", TRUE) \in Hands /\ Verdict(j, "cancelled", TRUE).at = "verdict"
    BY DEF Verdict, Hands
  <2>4. CASE binding[j].state \in Terminal /\ hand' = Verdict(j, "cancelled", TRUE)
             /\ UNCHANGED <<binding, charged, usedCount>>
    BY <1>0, <2>1, <2>2, <2>3, <2>4, UntouchedSafe
  <2>5. CASE binding[j].state \in Pending /\ Cancel(j, TRUE) /\ hand' = Verdict(j, "cancelled", TRUE)
    <3>1. Settled(j, Cancelled(binding[j]))
      BY <2>5, PendingRow, Settlements
    <3> QED
      BY <1>0, <2>1, <2>2, <2>3, <2>5, <3>1, PendingRow, SettledSafe
  <2>6. CASE /\ binding[j].state \in {"prepared", "enqueued", "dispatching"}
             /\ binding' = [binding EXCEPT ![j].state = "dispatching"]
             /\ hand' = [at |-> "checked", job |-> j] /\ UNCHANGED <<charged, usedCount>>
    <3> DEFINE r == [binding[j] EXCEPT !.state = "dispatching"]
    <3>1. /\ r \in Binding /\ r.back = binding[j].back /\ r.boundary = binding[j].boundary
          /\ r.state = "dispatching" /\ binding' = [binding EXCEPT ![j] = r]
      BY <1>0, <2>6 DEF Binding, Pending
    <3>2. RowTells(r) /\ ~Painting(j) /\ calls[j] = 0
      BY <1>0, <2>6, <3>1 DEF RowTells, RequestInv, Terminal
    <3>3. hand' \in Hands /\ hand'.at = "checked" /\ hand'.job = j
      BY <2>6 DEF Hands
    <3> HIDE DEF r
    <3>4. /\ outside' \in Outsides /\ calls' \in [Pictures -> {0, 1}] /\ calls'[j] = 0 /\ ~Painting(j)'
          /\ \A i \in Pictures \ {j} : calls'[i] = calls[i] /\ (Painting(i)' => Painting(i))
      BY <1>0, <2>1, <2>2, <3>2
    <3>5. binding[j].state # "none" /\ UNCHANGED <<charged, usedCount>>
      BY <2>6
    <3>6. calls'[j] = 1 => r.boundary \in {"submit_started", "submitted"}
      BY <3>4
    <3>7. Painting(j)' => r.boundary = "submit_started" /\ r.state \in {"submitted", "cancelled", "isolated"}
      BY <3>4
    <3>8. /\ hand'.at \in {"free", "verdict", "taking back", "checked", "permitted"}
          /\ hand'.at \in {"checked", "permitted"} => hand'.job = j /\ r.state = "dispatching"
      BY <3>1, <3>3
    <3> QED
      BY <3>1, <3>2, <3>3, <3>4, <3>5, <3>6, <3>7, <3>8, RowMoves
  <2> QED
    BY <1>2, <2>4, <2>5, <2>6 DEF Preflight
<1>3. CASE SnapshotLost(j)
  <2>1. /\ hand = [at |-> "checked", job |-> j] /\ UNCHANGED <<calls, outside>> /\ FailGeneration(j)
        /\ hand' = Verdict(j, "failed", FALSE)
    BY <1>3 DEF SnapshotLost, Rest, Ghosts
  <2>2. /\ binding[j].state = "dispatching" /\ hand.at = "checked" /\ ~Painting(j)
        /\ \A i \in Pictures : ~Holds("reserved", i) /\ (Painting(i)' <=> Painting(i))
    BY <2>1 DEF Holds, Painting, RequestInv
  <2>3. hand' \in Hands /\ hand'.at = "verdict"
    BY <2>1 DEF Verdict, Hands
  <2>4. binding[j].state \in Pending
    BY <2>2 DEF Pending
  <2>5. Settled(j, MarkedFailed(binding[j]))
    BY <2>1, <2>4, PendingRow, Settlements
  <2> QED
    BY <1>0, <2>1, <2>2, <2>3, <2>4, <2>5, PendingRow, SettledSafe
<1>4. CASE AcquirePermit(j)
  <2> DEFINE r == [binding[j] EXCEPT !.boundary = "permit_acquired"]
  <2>1. /\ binding[j].state = "dispatching" /\ binding' = [binding EXCEPT ![j] = r]
        /\ hand' = [at |-> "permitted", job |-> j] /\ UNCHANGED <<charged, usedCount, calls, outside>>
    BY <1>4 DEF AcquirePermit, Rest, Ghosts
  <2>2. /\ r \in Binding /\ r.back = binding[j].back /\ r.boundary = "permit_acquired"
        /\ r.state = "dispatching"
    BY <1>0, <2>1 DEF Binding
  <2>3. RowTells(r) /\ ~Painting(j) /\ calls[j] = 0 /\ \A i \in Pictures : Painting(i)' <=> Painting(i)
    BY <1>0, <2>1, <2>2 DEF RowTells, RequestInv, Terminal, Painting
  <2>4. hand' \in Hands /\ hand'.at = "permitted" /\ hand'.job = j
    BY <2>1 DEF Hands
  <2> HIDE DEF r
  <2>5. /\ outside' \in Outsides /\ calls' \in [Pictures -> {0, 1}] /\ calls'[j] = 0 /\ ~Painting(j)'
        /\ \A i \in Pictures \ {j} : calls'[i] = calls[i] /\ (Painting(i)' => Painting(i))
    BY <1>0, <2>1, <2>3
  <2>6. binding[j].state # "none" /\ UNCHANGED <<charged, usedCount>>
    BY <2>1
  <2> QED
    <3>1. calls'[j] = 1 => r.boundary \in {"submit_started", "submitted"}
      BY <2>5
    <3>2. Painting(j)' => r.boundary = "submit_started" /\ r.state \in {"submitted", "cancelled", "isolated"}
      BY <2>5
    <3>3. /\ hand'.at \in {"free", "verdict", "taking back", "checked", "permitted"}
          /\ hand'.at \in {"checked", "permitted"} => hand'.job = j /\ r.state = "dispatching"
      BY <2>2, <2>4
    <3> QED
      BY <2>1, <2>2, <2>3, <2>4, <2>5, <2>6, <3>1, <3>2, <3>3, RowMoves
<1>5. CASE StartSubmit(j)
  <2> DEFINE r == [binding[j] EXCEPT !.boundary = "submit_started", !.state = "submitted"]
  <2>1. /\ binding[j].state = "dispatching" /\ binding' = [binding EXCEPT ![j] = r]
        /\ hand' = Free /\ outside' = [on |-> "picture", job |-> j]
        /\ UNCHANGED <<charged, usedCount>> /\ calls' = [calls EXCEPT ![j] = @ + 1]
    BY <1>0, <1>5 DEF StartSubmit
  <2>2. /\ r \in Binding /\ r.back = binding[j].back /\ r.boundary = "submit_started"
        /\ r.state = "submitted"
    BY <1>0 DEF Binding, Pending
  <2>3. RowTells(r) /\ calls[j] = 0
    BY <1>0, <2>1, <2>2 DEF RowTells, RequestInv, Terminal
  <2>4. hand' \in Hands /\ hand'.at = "free" /\ outside' \in Outsides
    BY <2>1 DEF Hands, Free, Outsides
  <2>5. calls' \in [Pictures -> {0, 1}] /\ \A i \in Pictures \ {j} : calls'[i] = calls[i] /\ ~Painting(i)'
    BY <1>0, <2>1, <2>3 DEF Painting
  <2> HIDE DEF r
  <2> QED
    BY <1>0, <2>1, <2>2, <2>3, <2>4, <2>5, RowMoves
<1>6. CASE Complete(j)
  <2>1. /\ hand = Free /\ outside = [on |-> "picture", job |-> j] /\ outside' = Idle
        /\ UNCHANGED <<charged, usedCount, calls>>
    BY <1>6 DEF Complete
  <2>2. Painting(j) /\ (\A i \in Pictures : ~Painting(i)') /\ outside' \in Outsides
    BY <2>1 DEF Painting, Idle, Outsides
  <2>3. binding[j].boundary = "submit_started" /\ binding[j].state \in {"submitted", "cancelled", "isolated"}
        /\ binding[j].back = {}
    BY <1>0, <2>2 DEF RequestInv, RowTells
  <2>4. CASE binding[j].deleted
    <3>1. UNCHANGED binding /\ hand' = Verdict(j, "cancelled", TRUE)
      BY <1>6, <2>4 DEF Complete
    <3>2. hand' \in Hands /\ hand'.at = "verdict"
      BY <3>1 DEF Verdict, Hands
    <3> QED
      BY <2>1, <2>2, <3>1, <3>2, UntouchedSafe
  <2>5. CASE ~binding[j].deleted
    <3> DEFINE gone == Revoked(j)
               r == [binding[j] EXCEPT !.state = IF gone THEN "isolated" ELSE "done",
                                       !.isolated = gone, !.boundary = "submitted"]
    <3>1. binding' = [binding EXCEPT ![j] = r] /\ hand' = Verdict(j, "done", gone)
      BY <1>0, <1>6, <2>5 DEF Complete
    <3>2. gone \in BOOLEAN
      BY <1>0 DEF Revoked, Binding
    <3>3. /\ r \in Binding /\ r.back = {} /\ r.boundary = "submitted" /\ r.state \in {"isolated", "done"}
      BY <1>0, <2>3, <3>2 DEF Binding, Terminal
    <3>4. RowTells(r)
      BY <3>3 DEF RowTells
    <3>5. hand' \in Hands /\ hand'.at = "verdict"
      BY <3>1, <3>2 DEF Verdict, Hands
    <3> HIDE DEF r, gone
    <3> QED
      BY <1>0, <2>1, <2>2, <2>3, <3>1, <3>3, <3>4, <3>5, RowMoves
  <2> QED
    BY <2>4, <2>5
<1>7. CASE RequestFails(j)
  <2>1. /\ hand = Free /\ outside = [on |-> "picture", job |-> j] /\ outside' = Idle
        /\ FailGeneration(j) /\ hand' = Verdict(j, "failed", FALSE) /\ UNCHANGED calls
    BY <1>7 DEF RequestFails, Ghosts
  <2>2. Painting(j) /\ (\A i \in Pictures : ~Painting(i)') /\ outside' \in Outsides
        /\ hand' \in Hands /\ hand'.at = "verdict" /\ \A i \in Pictures : ~Holds("reserved", i)
    BY <2>1 DEF Painting, Idle, Outsides, Verdict, Hands, Free, Holds
  <2>3. binding[j].boundary = "submit_started" /\ binding[j].state # "none" /\ binding[j].back = {}
    BY <1>0, <2>2 DEF RequestInv, RowTells
  <2>4. Settled(j, MarkedFailed(binding[j]))
    BY <2>1, <2>3, Settlements
  <2>5. /\ MarkedFailed(binding[j]) \in Binding /\ RowTells(MarkedFailed(binding[j]))
        /\ MarkedFailed(binding[j]).boundary = binding[j].boundary
        /\ MarkedFailed(binding[j]).back = {} /\ MarkedFailed(binding[j]).state \in Terminal
    BY <1>0, <2>3, FailedRow DEF Terminal
  <2> QED
    BY <1>0, <2>1, <2>2, <2>3, <2>4, <2>5, SettledSafe
<1>8. CASE CancelTakenBack(j)
  <2>1. /\ hand.at = "taking back" /\ binding[j].state \in Pending /\ Cancel(j, TRUE)
        /\ UNCHANGED <<calls, outside>> /\ hand' \in {hand, [hand EXCEPT !.left = @ \ {j}]}
    BY <1>8 DEF CancelTakenBack, Cancellable, Rest, Ghosts
  <2>2. hand' \in Hands /\ hand'.at = "taking back"
    BY <1>0, <2>1 DEF Hands
  <2>3. \A i \in Pictures : ~Holds("reserved", i) /\ (Painting(i)' <=> Painting(i))
    BY <2>1 DEF Holds, Painting
  <2>4. Settled(j, Cancelled(binding[j]))
    BY <2>1, PendingRow, Settlements
  <2> QED
    BY <1>0, <2>1, <2>2, <2>3, <2>4, PendingRow, SettledSafe
<1>9. CASE PassTakenBack(j)
  <2>1. /\ hand.at = "taking back" /\ hand' = [hand EXCEPT !.left = @ \ {j}]
        /\ UNCHANGED <<calls, outside, charged, usedCount>> /\ ~Cancellable(j)
        /\ binding' = IF hand.what = "person" THEN [binding EXCEPT ![j] = Scrubbed(@)] ELSE binding
        /\ j \in hand.left
    BY <1>9 DEF PassTakenBack, Rest, Ghosts
  <2>2. hand' \in Hands /\ hand'.at = "taking back"
    BY <1>0, <2>1 DEF Hands
  <2>3. \A i \in Pictures : Painting(i)' <=> Painting(i)
    BY <2>1 DEF Painting
  <2>4. CASE hand.what # "person"
    BY <1>0, <2>1, <2>2, <2>3, <2>4, UntouchedSafe
  <2>5. CASE hand.what = "person"
    <3>1. binding' = [binding EXCEPT ![j] = Scrubbed(binding[j])]
      BY <1>0, <2>1, <2>5
    <3>2. calls[j] = 1 => binding[j].boundary \in {"submit_started", "submitted"}
      BY DEF RequestInv
    <3>3. Painting(j) => Scrubbed(binding[j]).boundary = "submit_started"
                         /\ Scrubbed(binding[j]).state \in {"submitted", "cancelled", "isolated"}
      BY <1>0, ScrubbedRow DEF RequestInv
    <3>4. binding[j].state # "none" \/ Scrubbed(binding[j]).state = "none"
      BY <1>0, ScrubbedRow
    <3> QED
      BY <1>0, <2>1, <2>2, <2>3, <3>1, <3>2, <3>3, <3>4, ScrubbedRow, RowMoves
  <2> QED
    BY <2>4, <2>5
<1> QED
  BY <1>1, <1>2, <1>3, <1>4, <1>5, <1>6, <1>7, <1>8, <1>9
-----------------------------------------------------------------------------
(* The picture: what comes clean stays so; only that is called done and not hidden. *)
PictureInv ==
  /\ entry \in [Pictures -> Entry]
  /\ shownPic \subseteq clean
  /\ \A j \in Pictures : /\ HasPicture(entry[j]) => j \in clean
                         /\ Holds("verdict", j) /\ hand.status = "done" /\ ~hand.hidden => j \in clean

(* The turn: once it has acted it is never begun again. *)
Acting(j) == outside.on = "turn" /\ outside.job = j
TurnInv ==
  /\ acted \in [Pictures -> {0, 1}]
  /\ \A j \in Pictures :
       /\ binding[j].state = "none" \/ Holds("bound", j) => entry[j].status = "none"
       /\ entry[j].status \in {"none", "pending", "running"} => acted[j] = 0
       /\ acted[j] = 1 => Told(entry[j]) \/ (entry[j].callback = "running" /\ entry[j].unsafe)
       /\ Acting(j) =>
            /\ entry[j].status \in {"done", "failed", "cancelled"}
            /\ \/ entry[j].deleted
               \/ /\ entry[j].callback = "running" /\ entry[j].tries < MaxTries
                  /\ outside.acted => entry[j].unsafe
            /\ ~outside.acted => acted[j] = 0

(* Whatever the worker took up has a row. *)
TakenInv == \A j \in Pictures : Holds("taken", j) \/ Holds("verdict", j) => binding[j].state # "none"

VisualInv == RequestInv /\ MoneyInv /\ PictureInv /\ TurnInv /\ TakenInv

LEMMA EntryEdits ==
  ASSUME NEW e \in Entry
  PROVE  /\ \A s \in {"pending", "running"} : [e EXCEPT !.status = s] \in Entry
         /\ \A s \in {"done", "failed", "cancelled"}, h \in BOOLEAN :
              [e EXCEPT !.status = s, !.hidden = h] \in Entry
         /\ \A c \in {"completed", "pending", "failed", "uncertain"} : [e EXCEPT !.callback = c] \in Entry
         /\ [e EXCEPT !.callback = "running", !.unsafe = FALSE] \in Entry
         /\ [e EXCEPT !.unsafe = TRUE] \in Entry
         /\ [e EXCEPT !.status = "cancelled", !.hidden = TRUE, !.callback = "skipped", !.deleted = TRUE] \in Entry
BY DEF Entry

(* A row does not disappear, and what became uncertain stays so. *)
RowsKeep ==
  \A i \in Pictures :
    /\ binding[i].state # "none" => binding'[i].state # "none"
    /\ binding[i].state = "outcome_uncertain" =>
         binding'[i].state = "outcome_uncertain" /\ binding'[i].back = binding[i].back

LEMMA OneRowKeeps ==
  ASSUME RequestInv, NEW j \in Pictures, NEW new, binding' = [binding EXCEPT ![j] = new],
         new.state # "none" \/ binding[j].state = "none", binding[j].state # "outcome_uncertain"
  PROVE  RowsKeep
BY DEF RowsKeep, RequestInv

LEMMA SettledKeeps ==
  ASSUME RequestInv, NEW j \in Pictures, NEW new \in Binding, Settled(j, new), new.state # "none",
         binding[j].state # "outcome_uncertain"
  PROVE  RowsKeep
<1>1. CASE binding' = [binding EXCEPT ![j] = new]
  BY <1>1, OneRowKeeps
<1>2. ASSUME NEW back \in SUBSET {"grant", "budget"}, binding' = [binding EXCEPT ![j] = [new EXCEPT !.back = back]]
      PROVE  RowsKeep
  <2>1. [new EXCEPT !.back = back].state # "none"
    BY DEF Binding
  <2> QED
    BY <1>2, <2>1, OneRowKeeps
<1> QED
  BY <1>1, <1>2 DEF Settled

LEMMA RowsAreKept == RequestInv /\ VisualNext => RowsKeep
<1> SUFFICES ASSUME RequestInv, VisualNext PROVE RowsKeep
  OBVIOUS
<1>0. binding \in [Pictures -> Binding] /\ \A j \in Pictures : binding[j] \in Binding /\ RowTells(binding[j])
  BY DEF RequestInv
<1>1. CASE UNCHANGED binding
  BY <1>1 DEF RowsKeep
<1>2. ASSUME NEW j \in Pictures, binding[j].state \in Pending, Settled(j, Cancelled(binding[j]))
                                    \/ Settled(j, MarkedFailed(binding[j])) \/ Settled(j, Recovered(j))
      PROVE  RowsKeep
  <2>1. \A new \in {Cancelled(binding[j]), MarkedFailed(binding[j]), Recovered(j)} :
          new \in Binding /\ new.state # "none"
    BY <1>2, PendingRow DEF Terminal
  <2>2. binding[j].state # "outcome_uncertain"
    BY <1>2 DEF Pending
  <2> QED
    BY <1>2, <2>1, <2>2, SettledKeeps
<1>3. ASSUME NEW j \in Pictures, binding[j].state \in Pending, Cancel(j, TRUE) \/ FailGeneration(j) \/ Recover(j)
      PROVE  RowsKeep
  BY <1>2, <1>3, PendingRow, Settlements
<1>4. ASSUME NEW j \in Pictures, Bind(j) PROVE RowsKeep
  <2>1. binding[j].state = "none"
    BY <1>4 DEF Bind, RequestInv, Holds
  <2>2. CASE binding' = [binding EXCEPT ![j].state = "prepared"]
    BY <1>0, <2>1, <2>2 DEF RowsKeep
  <2> QED
    BY <1>1, <1>4, <2>2 DEF Bind
<1>5. ASSUME NEW j \in Pictures, Enqueue(j) PROVE RowsKeep
  BY <1>1, <1>3, <1>5 DEF Enqueue, RequestInv, Holds, Pending
<1>6. ASSUME NEW j \in Pictures, MarkEnqueued(j) \/ AcquirePermit(j) \/ StartSubmit(j) PROVE RowsKeep
  BY <1>0, <1>6 DEF MarkEnqueued, AcquirePermit, StartSubmit, RowsKeep, Binding
<1>7. ASSUME NEW j \in Pictures, Preflight(j) PROVE RowsKeep
  <2>1. CASE binding[j].state \in {"prepared", "enqueued", "dispatching"}
             /\ binding' = [binding EXCEPT ![j].state = "dispatching"]
    BY <1>0, <2>1 DEF RowsKeep, Binding
  <2> QED
    BY <1>1, <1>3, <1>7, <2>1 DEF Preflight
<1>8. ASSUME NEW j \in Pictures, SnapshotLost(j) PROVE RowsKeep
  BY <1>3, <1>8 DEF SnapshotLost, RequestInv, Holds, Pending
<1>9. ASSUME NEW j \in Pictures, Complete(j) \/ RequestFails(j) PROVE RowsKeep
  <2>1. Painting(j)
    <3>1. outside = [on |-> "picture", job |-> j]
      BY <1>9 DEF Complete, RequestFails
    <3> QED
      BY <3>1 DEF Painting
  <2>2. /\ binding[j].state \in {"submitted", "cancelled", "isolated"}
        /\ binding[j].boundary = "submit_started" /\ binding[j].back = {}
    BY <1>0, <2>1 DEF RequestInv, RowTells
  <2>3. CASE Complete(j)
    <3>1. CASE UNCHANGED binding
      BY <1>1, <3>1
    <3>2. CASE binding' # binding
      <4> DEFINE r == [binding[j] EXCEPT !.state = IF Revoked(j) THEN "isolated" ELSE "done",
                                         !.isolated = Revoked(j), !.boundary = "submitted"]
      <4>1. binding' = [binding EXCEPT ![j] = r]
        BY <1>0, <2>3, <3>2 DEF Complete
      <4>2. r.state # "none"
        BY <1>0 DEF Binding
      <4> HIDE DEF r
      <4> QED
        BY <2>2, <4>1, <4>2, OneRowKeeps
    <3> QED
      BY <3>1, <3>2
  <2>4. CASE RequestFails(j)
    <3>1. Settled(j, MarkedFailed(binding[j]))
      BY <2>2, <2>4, Settlements DEF RequestFails
    <3>2. MarkedFailed(binding[j]) \in Binding /\ MarkedFailed(binding[j]).state # "none"
      BY <1>0, FailedRow
    <3> QED
      BY <2>2, <3>1, <3>2, SettledKeeps
  <2> QED
    BY <1>9, <2>3, <2>4
<1>10. ASSUME NEW j \in Pictures, CancelTakenBack(j) PROVE RowsKeep
  BY <1>3, <1>10 DEF CancelTakenBack, Cancellable
<1>11. ASSUME NEW j \in Pictures, PassTakenBack(j) PROVE RowsKeep
  <2>1. CASE binding' = [binding EXCEPT ![j] = Scrubbed(@)]
    BY <1>0, <2>1, ScrubbedRow DEF RowsKeep
  <2> QED
    BY <1>1, <1>11, <2>1 DEF PassTakenBack
<1>12. ASSUME NEW j \in Pictures, Recover(j) PROVE RowsKeep
  BY <1>3, <1>12 DEF Recover
<1>13. ASSUME \/ \E j \in Pictures : \/ Reserve(j) \/ Take(j) \/ BeginCallback(j) \/ ToolInTurn(j)
                                     \/ EndCallback(j) \/ DeferCallback(j) \/ FailCallback(j)
             \/ SaveRecovered \/ WriteVerdict \/ TookBack \/ Stop
             \/ \E what \in {"grant", "picture", "person"} : TakeBack(what)
       PROVE  RowsKeep
  BY <1>1, <1>13 DEF Reserve, Take, BeginCallback, ToolInTurn, EndCallback, DeferCallback, FailCallback,
         SaveRecovered, WriteVerdict, TookBack, Stop, TakeBack
<1> QED
  BY <1>4, <1>5, <1>6, <1>7, <1>8, <1>9, <1>10, <1>11, <1>12, <1>13 DEF VisualNext

(* Steps that leave the queue file, the callbacks and the turns alone. *)
LEMMA RowStepsKeep ==
  ASSUME VisualInv, RowsKeep,
         \E j \in Pictures : \/ Reserve(j) \/ Bind(j) \/ MarkEnqueued(j) \/ Recover(j) \/ Preflight(j)
                             \/ SnapshotLost(j) \/ AcquirePermit(j) \/ RequestFails(j)
                             \/ CancelTakenBack(j) \/ PassTakenBack(j)
  PROVE  PictureInv' /\ TurnInv'
<1> USE DEF VisualInv
<1>1. UNCHANGED <<entry, clean, acted, shownPic>> /\ (outside' = outside \/ outside' = Idle)
  BY DEF Reserve, Bind, MarkEnqueued, Recover, Preflight, SnapshotLost, AcquirePermit, RequestFails,
         CancelTakenBack, PassTakenBack, Rest, Ghosts
<1>2. /\ \A i \in Pictures : ~(Holds("verdict", i)' /\ hand'.status = "done")
      /\ (~\E j \in Pictures : Bind(j)) => \A i \in Pictures : ~Holds("bound", i)'
  <2>1. CASE \E j \in Pictures : CancelTakenBack(j) \/ PassTakenBack(j)
    <3>1. hand.at = "taking back" /\ (hand' = hand \/ \E j \in Pictures : hand' = [hand EXCEPT !.left = @ \ {j}])
      BY <2>1 DEF CancelTakenBack, PassTakenBack
    <3>2. hand'.at = "taking back"
      BY <3>1 DEF RequestInv, Hands
    <3> QED
      BY <3>2 DEF Holds
  <2>2. CASE \E j \in Pictures : Bind(j)
    BY <2>2 DEF Bind, Holds, Free
  <2>3. CASE \E j \in Pictures : Reserve(j) \/ MarkEnqueued(j) \/ Recover(j) \/ AcquirePermit(j)
    BY <2>3 DEF Reserve, MarkEnqueued, Recover, AcquirePermit, Holds, Free
  <2>4. CASE \E j \in Pictures : Preflight(j) \/ SnapshotLost(j) \/ RequestFails(j)
    <3>1. hand'.at = "checked" \/ (hand'.at = "verdict" /\ hand'.status # "done")
      <4>1. ASSUME NEW j \in Pictures, Preflight(j) PROVE hand' \in {Verdict(j, "cancelled", TRUE), [at |-> "checked", job |-> j]}
        BY <4>1 DEF Preflight
      <4>2. ASSUME NEW j \in Pictures, SnapshotLost(j) \/ RequestFails(j) PROVE hand' = Verdict(j, "failed", FALSE)
        BY <4>2 DEF SnapshotLost, RequestFails
      <4>3. \A j \in Pictures, s \in {"cancelled", "failed"}, h \in BOOLEAN :
              Verdict(j, s, h).at = "verdict" /\ Verdict(j, s, h).status # "done"
        BY DEF Verdict
      <4> QED
        <5>1. ASSUME NEW j \in Pictures, Preflight(j) PROVE hand'.at = "checked" \/ (hand'.at = "verdict" /\ hand'.status # "done")
          BY <4>1, <5>1 DEF Verdict
        <5>2. ASSUME NEW j \in Pictures, SnapshotLost(j) \/ RequestFails(j) PROVE hand'.at = "verdict" /\ hand'.status # "done"
          BY <4>2, <4>3, <5>2
        <5> QED
          BY <2>4, <5>1, <5>2
    <3> QED
      BY <3>1 DEF Holds
  <2> QED
    BY <2>1, <2>2, <2>3, <2>4
<1>3. PictureInv'
  BY <1>1, <1>2 DEF PictureInv
<1>4. \A i \in Pictures : binding'[i].state = "none" \/ Holds("bound", i)' => entry[i].status = "none"
  <2>1. ASSUME NEW j \in Pictures, Bind(j)
        PROVE  \A i \in Pictures : binding'[i].state = "none" \/ Holds("bound", i)' => entry[i].status = "none"
    <3>1. binding[j].state = "none" /\ binding \in [Pictures -> Binding]
      BY <2>1 DEF Bind, RequestInv, Holds
    <3>2. \A i \in Pictures \ {j} : binding'[i] = binding[i] /\ ~Holds("bound", i)'
      BY <2>1, <3>1 DEF Bind, Holds, Free
    <3> QED
      BY <3>1, <3>2 DEF TurnInv
  <2>2. ASSUME ~\E j \in Pictures : Bind(j)
        PROVE  \A i \in Pictures : ~Holds("bound", i)'
    BY <1>2, <2>2
  <2>3. ASSUME NEW i \in Pictures, binding'[i].state = "none" PROVE binding[i].state = "none"
    BY <2>3 DEF RowsKeep
  <2> QED
    BY <2>1, <2>2, <2>3 DEF TurnInv
<1>5. \A i \in Pictures : Acting(i)' => Acting(i) /\ outside' = outside
  BY <1>1 DEF Acting, Idle
<1>6. TurnInv'
  BY <1>1, <1>4, <1>5 DEF TurnInv
<1> QED
  BY <1>3, <1>6
(* Steps that write the entry of one job. *)
LEMMA HandInKeeps ==
  ASSUME VisualInv, RequestInv', RowsKeep, NEW j \in Pictures, Enqueue(j) \/ Take(j)
  PROVE  PictureInv' /\ TurnInv'
<1> USE DEF VisualInv
<1>1. UNCHANGED <<clean, acted, shownPic, outside>> /\ hand'.at # "verdict" /\ hand'.at # "bound"
  <2>1. UNCHANGED <<clean, acted, shownPic, outside>>
    BY DEF Enqueue, Take, Rest, Ghosts
  <2>2. hand' \in {[at |-> "queued", job |-> j], [at |-> "taken", job |-> j], Free}
    BY DEF Enqueue, Take
  <2> QED
    BY <2>1, <2>2 DEF Free
<1>2. \/ binding[j].state # "none" /\ entry[j].status = "none"
      \/ binding[j].state # "none" /\ entry[j].status = "pending"
  <2>1. CASE Enqueue(j)
    <3>1. Holds("bound", j)
      BY <2>1 DEF Enqueue, Holds
    <3> QED
      BY <3>1 DEF RequestInv, TurnInv
  <2>2. CASE Take(j)
    <3>1. entry[j].status = "pending"
      BY <2>2 DEF Take
    <3> QED
      BY <3>1 DEF TurnInv
  <2> QED
    BY <2>1, <2>2
<1>3. CASE UNCHANGED entry
  BY <1>1, <1>3 DEF PictureInv, TurnInv, RowsKeep, Holds, Acting
<1>4. CASE entry' # entry
  <2>1. PICK s \in {"pending", "running"} : entry' = [entry EXCEPT ![j].status = s]
    BY <1>4 DEF Enqueue, Take
  <2>2. entry[j].status \in {"none", "pending"}
    BY <1>2
  <2>3. /\ entry[j] \in Entry /\ entry' = [entry EXCEPT ![j] = [entry[j] EXCEPT !.status = s]]
        /\ entry \in [Pictures -> Entry]
    BY <2>1 DEF PictureInv
  <2>4. /\ entry' \in [Pictures -> Entry] /\ entry'[j].status = s
        /\ \A i \in Pictures : i # j => entry'[i] = entry[i]
    <3>1. [entry[j] EXCEPT !.status = s] \in Entry /\ [entry[j] EXCEPT !.status = s].status = s
      BY <2>3 DEF Entry
    <3> QED
      BY <2>3, <3>1
  <2>5. acted[j] = 0 /\ ~Acting(j)
    BY <2>2 DEF TurnInv
  <2>6. binding[j].state # "none"
    BY <1>2
  <2>7. PictureInv'
    BY <1>1, <2>4 DEF PictureInv, HasPicture, Holds
  <2>8. TurnInv'
    BY <1>1, <2>4, <2>5, <2>6 DEF TurnInv, RowsKeep, Holds, Acting, Told
  <2> QED
    BY <2>7, <2>8
<1> QED
  BY <1>3, <1>4

(* Writing the entry of one job. *)
LEMMA OneEntry ==
  ASSUME VisualInv, RowsKeep, UNCHANGED <<binding, clean, acted, hand>>, NEW j \in Pictures, NEW e \in Entry,
         entry' = [entry EXCEPT ![j] = e], e.status = entry[j].status, e.hidden = entry[j].hidden,
         acted[j] = 1 => Told(e) \/ (e.callback = "running" /\ e.unsafe),
         shownPic' \subseteq clean, outside'.on = "turn" => outside'.job = j
  PROVE  /\ PictureInv' /\ entry'[j] = e
         /\ outside'.on # "turn" => TurnInv'
         /\ /\ e.status \in {"done", "failed", "cancelled"} /\ e.callback = "running" /\ e.tries < MaxTries
            /\ ~outside'.acted /\ acted[j] = 0
            => TurnInv'
<1> USE DEF VisualInv
<1>1. /\ entry' \in [Pictures -> Entry] /\ entry'[j] = e
      /\ \A i \in Pictures : i # j => entry'[i] = entry[i]
  BY DEF PictureInv
<1>2. PictureInv'
  BY <1>1 DEF PictureInv, HasPicture, Holds
<1>3. acted' \in [Pictures -> {0, 1}]
  BY DEF TurnInv
<1>4. ASSUME NEW i \in Pictures, i # j
      PROVE  /\ binding'[i].state = "none" \/ Holds("bound", i)' => entry'[i].status = "none"
             /\ entry'[i].status \in {"none", "pending", "running"} => acted'[i] = 0
             /\ acted'[i] = 1 => Told(entry'[i]) \/ (entry'[i].callback = "running" /\ entry'[i].unsafe)
             /\ ~Acting(i)'
  BY <1>1, <1>4 DEF TurnInv, Holds, Acting
<1>5. /\ binding'[j].state = "none" \/ Holds("bound", j)' => entry'[j].status = "none"
      /\ entry'[j].status \in {"none", "pending", "running"} => acted'[j] = 0
      /\ acted'[j] = 1 => Told(entry'[j]) \/ (entry'[j].callback = "running" /\ entry'[j].unsafe)
  BY <1>1 DEF TurnInv, Holds
<1>6. outside'.on # "turn" => TurnInv'
  BY <1>3, <1>4, <1>5 DEF TurnInv, Acting
<1>7. ASSUME e.status \in {"done", "failed", "cancelled"}, e.callback = "running", e.tries < MaxTries,
             ~outside'.acted, acted[j] = 0
      PROVE  TurnInv'
  BY <1>1, <1>3, <1>4, <1>5, <1>7 DEF TurnInv
<1> QED
  BY <1>1, <1>2, <1>6, <1>7

(* The turns. *)
LEMMA TurnsKeep ==
  ASSUME VisualInv, RowsKeep, NEW j \in Pictures,
         BeginCallback(j) \/ EndCallback(j) \/ DeferCallback(j) \/ FailCallback(j)
  PROVE  PictureInv' /\ TurnInv'
<1> USE VisualAssumption DEF VisualInv
<1> DEFINE e == entry[j]
<1>0. e \in Entry /\ entry \in [Pictures -> Entry] /\ UNCHANGED <<binding, clean, acted, hand>>
      /\ acted[j] \in {0, 1}
  BY DEF PictureInv, TurnInv, BeginCallback, EndCallback, DeferCallback, FailCallback, Ghosts
<1>1. CASE BeginCallback(j)
  <2>1. /\ e.status \in {"done", "failed", "cancelled"} /\ ~Told(e) /\ e.callback # "running"
        /\ outside = Idle
    BY <1>1 DEF BeginCallback
  <2>2. acted[j] = 0 /\ ~Acting(j)
    BY <1>0, <2>1 DEF TurnInv, Acting, Idle
  <2>3. CASE e.tries >= MaxTries
    <3> DEFINE new == [e EXCEPT !.callback = "failed"]
    <3>1. entry' = [entry EXCEPT ![j] = new] /\ outside' = Idle /\ shownPic' \subseteq clean
      BY <1>0, <1>1, <2>1, <2>3 DEF BeginCallback, PictureInv
    <3>2. /\ new \in Entry /\ new.status = e.status /\ new.hidden = e.hidden /\ ~Acting(j)'
          /\ e.status # "none"
      BY <1>0, <2>1, <3>1 DEF Entry, Acting, Idle
    <3>3. outside'.on # "turn"
      BY <3>1 DEF Idle
    <3> HIDE DEF new, VisualInv
    <3>4. /\ new.status = entry[j].status /\ new.hidden = entry[j].hidden
          /\ acted[j] = 1 => Told(new) \/ (new.callback = "running" /\ new.unsafe)
          /\ outside'.on = "turn" => outside'.job = j
      BY <2>2, <3>2, <3>3
    <3> QED
      BY <1>0, <3>1, <3>2, <3>3, <3>4, OneEntry
  <2>4. CASE ~(e.tries >= MaxTries)
    <3> DEFINE new == [e EXCEPT !.callback = "running", !.unsafe = FALSE]
    <3>1. /\ entry' = [entry EXCEPT ![j] = new] /\ outside' = [on |-> "turn", job |-> j, acted |-> FALSE]
          /\ shownPic' \subseteq clean
      <4>1. /\ entry' = [entry EXCEPT ![j] = new] /\ outside' = [on |-> "turn", job |-> j, acted |-> FALSE]
            /\ shownPic' = IF HasPicture(entry[j]) THEN shownPic \cup {j} ELSE shownPic
        BY <1>0, <1>1, <2>4 DEF BeginCallback
      <4> HIDE DEF new
      <4>0. shownPic \subseteq clean /\ (HasPicture(entry[j]) => j \in clean)
        BY DEF PictureInv
      <4>2. shownPic' \subseteq clean
        <5>1. CASE HasPicture(entry[j])
          BY <4>0, <4>1, <5>1
        <5>2. CASE ~HasPicture(entry[j])
          BY <4>0, <4>1, <5>2
        <5> QED
          BY <5>1, <5>2
      <4> QED
        BY <4>1, <4>2
    <3>2. /\ new \in Entry /\ new.status = e.status /\ new.hidden = e.hidden /\ e.status # "none"
          /\ new.callback = "running" /\ new.tries < MaxTries
      <4>1. e.tries < MaxTries
        BY <1>0, <2>4 DEF Entry
      <4> QED
        BY <1>0, <2>1, <4>1 DEF Entry
    <3>3. ~outside'.acted /\ outside'.job = j
      BY <3>1
    <3>4. new.status \in {"done", "failed", "cancelled"}
      BY <2>1, <3>2
    <3> HIDE DEF new, VisualInv
    <3>5. /\ new.status = entry[j].status /\ new.hidden = entry[j].hidden
          /\ acted[j] = 1 => Told(new) \/ (new.callback = "running" /\ new.unsafe)
          /\ outside'.on = "turn" => outside'.job = j
      BY <2>2, <3>2, <3>3
    <3> QED
      BY <1>0, <2>2, <3>1, <3>2, <3>3, <3>4, <3>5, OneEntry
  <2> QED
    BY <2>3, <2>4
<1>2. CASE EndCallback(j) \/ DeferCallback(j) \/ FailCallback(j)
  <2>1. Acting(j) /\ outside' = Idle /\ UNCHANGED shownPic /\ ~Acting(j)'
    BY <1>2 DEF EndCallback, DeferCallback, FailCallback, InTurn, Acting, Idle, Ghosts
  <2>2. /\ e.status \in {"done", "failed", "cancelled"}
        /\ e.deleted \/ (e.tries < MaxTries /\ e.callback = "running")
        /\ ~outside.acted => acted[j] = 0
    BY <2>1 DEF TurnInv
  <2>3. \E new \in Entry : /\ entry' = [entry EXCEPT ![j] = new]
                           /\ new.status = e.status /\ new.hidden = e.hidden
                           /\ acted[j] = 1 => Told(new) \/ (new.callback = "running" /\ new.unsafe)
    <3>1. CASE e.deleted
      <4>1. entry' = [entry EXCEPT ![j] = e] /\ Told(e)
        BY <1>0, <1>2, <3>1 DEF EndCallback, DeferCallback, FailCallback, Written, Told
      <4> QED
        BY <1>0, <4>1
    <3>2. CASE ~e.deleted /\ EndCallback(j)
      <4> DEFINE new == [e EXCEPT !.callback = "completed"]
      <4>1. entry' = [entry EXCEPT ![j] = new]
        BY <1>0, <3>2 DEF EndCallback, Written
      <4>2. new \in Entry /\ new.status = e.status /\ new.hidden = e.hidden /\ new.callback = "completed"
        BY <1>0 DEF Entry
      <4> HIDE DEF new
      <4> QED
        BY <4>1, <4>2 DEF Told
    <3>3. CASE ~e.deleted /\ DeferCallback(j)
      <4> DEFINE new == [e EXCEPT !.callback = "pending"]
      <4>1. entry' = [entry EXCEPT ![j] = new] /\ ~outside.acted
        BY <1>0, <3>3 DEF DeferCallback, Written
      <4>2. new \in Entry /\ new.status = e.status /\ new.hidden = e.hidden
        BY <1>0 DEF Entry
      <4>3. acted[j] # 1
        BY <2>2, <4>1
      <4> HIDE DEF new
      <4> QED
        BY <4>1, <4>2, <4>3
    <3>4. CASE ~e.deleted /\ FailCallback(j)
      <4> DEFINE verdict == AfterFailure(e, outside.acted)
                 new == [e EXCEPT !.callback = verdict, !.tries = @ + 1]
      <4>1. entry' = [entry EXCEPT ![j] = new]
        BY <1>0, <3>4 DEF FailCallback, Written
      <4>2. verdict \in {"uncertain", "failed", "pending"} /\ (outside.acted => verdict = "uncertain")
        BY DEF AfterFailure
      <4>3. e.tries + 1 \in 0 .. MaxTries
        BY <1>0, <2>2, <3>4 DEF Entry
      <4> HIDE DEF verdict
      <4>4. new \in Entry /\ new.status = e.status /\ new.hidden = e.hidden /\ new.callback = verdict
        BY <1>0, <4>2, <4>3 DEF Entry
      <4>5. acted[j] = 1 => outside.acted
        BY <2>2
      <4> HIDE DEF new
      <4> QED
        BY <4>1, <4>2, <4>4, <4>5 DEF Told
    <3> QED
      BY <1>2, <3>1, <3>2, <3>3, <3>4
  <2>4. shownPic' \subseteq clean /\ outside'.on # "turn"
    BY <2>1 DEF PictureInv, Idle
  <2> HIDE DEF VisualInv
  <2>5. PICK new \in Entry : /\ entry' = [entry EXCEPT ![j] = new]
                             /\ new.status = entry[j].status /\ new.hidden = entry[j].hidden
                             /\ acted[j] = 1 => Told(new) \/ (new.callback = "running" /\ new.unsafe)
    BY <2>3
  <2>6. outside'.on = "turn" => outside'.job = j
    BY <2>4
  <2>7. UNCHANGED <<binding, clean, acted, hand>>
    BY <1>0
  <2>8. PictureInv' /\ (outside'.on # "turn" => TurnInv')
    BY <2>4, <2>5, <2>6, <2>7, OneEntry
  <2> QED
    BY <2>4, <2>8
<1> QED
  BY <1>1, <1>2

LEMMA ToolKeeps ==
  ASSUME VisualInv, RowsKeep, NEW j \in Pictures, ToolInTurn(j)
  PROVE  PictureInv' /\ TurnInv'
<1> USE DEF VisualInv
<1>1. /\ Acting(j) /\ ~outside.acted /\ ~entry[j].deleted
      /\ entry' = [entry EXCEPT ![j].unsafe = TRUE] /\ outside' = [outside EXCEPT !.acted = TRUE]
      /\ acted' = [acted EXCEPT ![j] = @ + 1] /\ UNCHANGED <<binding, hand, clean, shownPic>>
  BY DEF ToolInTurn, InTurn, Acting
<1>2. /\ acted[j] = 0 /\ entry[j].status \in {"done", "failed", "cancelled"}
      /\ entry[j].callback = "running" /\ entry[j].tries < MaxTries
  BY <1>1 DEF TurnInv
<1>3. /\ entry' \in [Pictures -> Entry] /\ entry'[j].unsafe /\ entry'[j].status = entry[j].status
      /\ entry'[j].callback = "running" /\ entry'[j].tries = entry[j].tries /\ entry'[j].hidden = entry[j].hidden
      /\ \A i \in Pictures : i # j => entry'[i] = entry[i]
  BY <1>1, <1>2 DEF PictureInv, Entry
<1>4. outside'.on = "turn" /\ outside'.job = j /\ outside'.acted
  <2>1. outside \in [on : {"turn"}, job : Pictures, acted : BOOLEAN]
    BY <1>1 DEF RequestInv, Outsides, Acting
  <2> QED
    BY <1>1, <2>1 DEF Acting
<1>5. PictureInv'
  BY <1>1, <1>3 DEF PictureInv, HasPicture, Holds
<1>6. acted' \in [Pictures -> {0, 1}] /\ acted'[j] = 1 /\ \A i \in Pictures : i # j => acted'[i] = acted[i]
  BY <1>1, <1>2 DEF TurnInv
<1>7. TurnInv'
  <2>1. ASSUME NEW i \in Pictures, i # j
        PROVE  /\ binding'[i].state = "none" \/ Holds("bound", i)' => entry'[i].status = "none"
               /\ entry'[i].status \in {"none", "pending", "running"} => acted'[i] = 0
               /\ acted'[i] = 1 => Told(entry'[i]) \/ (entry'[i].callback = "running" /\ entry'[i].unsafe)
               /\ ~Acting(i)'
    BY <1>1, <1>3, <1>4, <1>6, <2>1 DEF TurnInv, Holds, Acting
  <2>2. binding'[j].state = "none" \/ Holds("bound", j)' => entry'[j].status = "none"
    BY <1>1, <1>3 DEF TurnInv, Holds
  <2> QED
    BY <1>2, <1>3, <1>4, <1>6, <2>1, <2>2 DEF TurnInv
<1> QED
  BY <1>5, <1>7
(* Asking, and the picture that comes. *)
LEMMA PictureKeeps ==
  ASSUME VisualInv, RowsKeep, NEW j \in Pictures, StartSubmit(j) \/ Complete(j)
  PROVE  PictureInv' /\ TurnInv'
<1> USE DEF VisualInv
<1>1. /\ UNCHANGED <<entry, acted, shownPic>> /\ clean \subseteq clean' /\ outside'.on # "turn"
      /\ hand'.at \in {"free", "verdict"}
  BY DEF StartSubmit, Complete, Free, Verdict, Idle
<1>2. ASSUME NEW i \in Pictures, Holds("verdict", i)', hand'.status = "done", ~hand'.hidden
      PROVE  i \in clean'
  <2>1. Complete(j) /\ ~binding[j].deleted
    BY <1>2 DEF StartSubmit, Complete, Holds, Free, Verdict
  <2>2. hand' = Verdict(j, "done", Revoked(j))
    BY <2>1 DEF Complete
  <2>3. i = j /\ ~Revoked(j)
    BY <1>2, <2>2 DEF Verdict, Holds
  <2> QED
    BY <2>1, <2>3 DEF Complete, Revoked
<1>3. PictureInv'
  BY <1>1, <1>2 DEF PictureInv
<1>4. TurnInv'
  <2>1. \A i \in Pictures : ~Holds("bound", i)' /\ ~Acting(i)'
    BY <1>1 DEF Holds, Acting
  <2>2. ASSUME NEW i \in Pictures, binding'[i].state = "none" PROVE entry[i].status = "none"
    BY <2>2 DEF RowsKeep, TurnInv
  <2> QED
    BY <1>1, <2>1, <2>2 DEF TurnInv
<1> QED
  BY <1>3, <1>4

(* A verdict is written; consent is taken back. *)
LEMMA VerdictKeeps ==
  ASSUME VisualInv, RowsKeep, WriteVerdict
  PROVE  PictureInv' /\ TurnInv'
<1> USE DEF VisualInv
<1> DEFINE j == hand.job
           e == entry[j]
           new == [e EXCEPT !.status = hand.status, !.hidden = hand.hidden]
<1>1. /\ hand.at = "verdict" /\ entry' = [entry EXCEPT ![j] = Written(@, [@ EXCEPT !.status = hand.status, !.hidden = hand.hidden])]
      /\ hand' = Free /\ UNCHANGED <<binding, clean, acted, shownPic, outside>>
  BY DEF WriteVerdict, Rest, Ghosts
<1>2. j \in Pictures /\ hand.status \in {"done", "failed", "cancelled"} /\ hand.hidden \in BOOLEAN
  BY <1>1 DEF RequestInv, Hands
<1>3. e \in Entry /\ entry \in [Pictures -> Entry] /\ entry' = [entry EXCEPT ![j] = Written(e, new)]
  BY <1>1, <1>2 DEF PictureInv
<1>4. CASE e.deleted
  <2>1. entry' = entry
    BY <1>3, <1>4 DEF Written
  <2> QED
    <3>1. \A i \in Pictures : ~Holds("bound", i)' /\ ~Holds("verdict", i)'
      BY <1>1 DEF Holds, Free
    <3>2. PictureInv'
      BY <1>1, <2>1, <3>1 DEF PictureInv
    <3> QED
      BY <1>1, <2>1, <3>1, <3>2 DEF TurnInv, Acting
<1>5. CASE ~e.deleted
  <2>1. /\ new \in Entry /\ new.status = hand.status /\ new.hidden = hand.hidden /\ new.callback = e.callback
        /\ new.unsafe = e.unsafe /\ new.tries = e.tries /\ new.deleted = e.deleted
    BY <1>2, <1>3 DEF Entry
  <2>2. /\ entry' \in [Pictures -> Entry] /\ entry'[j] = new /\ \A i \in Pictures : i # j => entry'[i] = entry[i]
    BY <1>2, <1>3, <1>5, <2>1 DEF Written
  <2>3. Holds("verdict", j) /\ \A i \in Pictures : ~Holds("bound", i)' /\ ~Holds("verdict", i)'
    BY <1>1 DEF Holds, Free
  <2>4. binding[j].state # "none" \/ e.status = "none"
    BY <1>2 DEF TurnInv
  <2> HIDE DEF new, j
  <2>5. PictureInv'
    BY <1>1, <1>2, <2>1, <2>2, <2>3 DEF PictureInv, HasPicture
  <2>6. ASSUME NEW i \in Pictures, i # j
        PROVE  /\ binding'[i].state = "none" \/ Holds("bound", i)' => entry'[i].status = "none"
               /\ entry'[i].status \in {"none", "pending", "running"} => acted'[i] = 0
               /\ acted'[i] = 1 => Told(entry'[i]) \/ (entry'[i].callback = "running" /\ entry'[i].unsafe)
               /\ Acting(i)' => /\ entry'[i].status \in {"done", "failed", "cancelled"}
                                /\ \/ entry'[i].deleted
                                   \/ /\ entry'[i].callback = "running" /\ entry'[i].tries < MaxTries
                                      /\ outside'.acted => entry'[i].unsafe
                                /\ ~outside'.acted => acted'[i] = 0
    BY <1>1, <2>2, <2>3, <2>6 DEF TurnInv, Acting
  <2>7. binding[j].state # "none"
    BY <1>2, <2>3 DEF TakenInv
  <2>8. /\ acted[j] = 1 => Told(new) \/ (new.callback = "running" /\ new.unsafe)
        /\ Acting(j) => /\ \/ new.deleted
                           \/ /\ new.callback = "running" /\ new.tries < MaxTries
                              /\ outside.acted => new.unsafe
                        /\ ~outside.acted => acted[j] = 0
    BY <1>2, <2>1 DEF TurnInv, Told
  <2>9. acted \in [Pictures -> {0, 1}]
    BY DEF TurnInv
  <2> QED
    BY <1>1, <1>2, <2>1, <2>2, <2>3, <2>5, <2>6, <2>7, <2>8, <2>9 DEF TurnInv, Acting
<1> QED
  BY <1>4, <1>5

LEMMA TakingBackKeeps ==
  ASSUME VisualInv, RowsKeep, (\E what \in {"grant", "picture", "person"} : TakeBack(what)) \/ TookBack
  PROVE  PictureInv' /\ TurnInv'
<1> USE DEF VisualInv
<1>1. /\ UNCHANGED <<binding, clean, acted, shownPic, outside>>
      /\ \A i \in Pictures : ~Holds("bound", i)' /\ ~Holds("verdict", i)'
  <2>1. UNCHANGED <<binding, clean, acted, shownPic, outside>>
    BY DEF TakeBack, TookBack, Rest, Ghosts
  <2>2. ASSUME NEW what \in {"grant", "picture", "person"}, TakeBack(what) PROVE hand'.at = "taking back"
    BY <2>2 DEF TakeBack
  <2>3. CASE TookBack
    <3>1. hand' = Free
      BY <2>3 DEF TookBack
    <3> QED
      BY <2>1, <3>1 DEF Holds, Free
  <2> QED
    BY <2>1, <2>2, <2>3 DEF Holds
<1>2. CASE UNCHANGED entry
  BY <1>1, <1>2 DEF PictureInv, TurnInv, Acting
<1>3. CASE entry' = [j \in Pictures |->
                       IF entry[j].status = "none" THEN entry[j]
                       ELSE [entry[j] EXCEPT !.status = "cancelled", !.hidden = TRUE,
                                             !.callback = "skipped", !.deleted = TRUE]]
  <2>1. ASSUME NEW i \in Pictures
        PROVE  /\ entry'[i] \in Entry
               /\ \/ entry'[i] = entry[i] /\ entry[i].status = "none"
                  \/ /\ entry'[i].status = "cancelled" /\ entry'[i].deleted /\ entry[i].status # "none"
                     /\ entry'[i].hidden
    <3>1. CASE entry[i].status = "none"
      BY <1>3, <3>1 DEF PictureInv
    <3>2. CASE entry[i].status # "none"
      BY <1>3, <3>2 DEF PictureInv, Entry
    <3> QED
      BY <3>1, <3>2
  <2>2. entry' \in [Pictures -> Entry]
    <3>1. entry' = [i \in Pictures |-> entry'[i]]
      BY <1>3
    <3> QED
      BY <2>1, <3>1
  <2>3. PictureInv'
    BY <1>1, <2>1, <2>2 DEF PictureInv, HasPicture
  <2>4. TurnInv'
    BY <1>1, <2>1 DEF TurnInv, Told, Acting
  <2> QED
    BY <2>3, <2>4
<1> QED
  BY <1>2, <1>3 DEF TakeBack, TookBack

(* The process stops; the next one reads the queue file. *)
LEMMA StopKeeps ==
  ASSUME VisualInv, RowsKeep, Stop
  PROVE  PictureInv' /\ TurnInv'
<1> USE DEF VisualInv
<1>1. /\ UNCHANGED <<binding, clean, acted, shownPic>> /\ hand' = Free /\ outside' = Idle
      /\ \A i \in Pictures : ~Holds("bound", i)' /\ ~Holds("verdict", i)' /\ ~Acting(i)'
  BY DEF Stop, Ghosts, Holds, Free, Idle, Acting
<1>2. CASE UNCHANGED entry
  BY <1>1, <1>2 DEF PictureInv, TurnInv
<1>3. CASE entry' # entry
  <2> DEFINE j == outside.job
             e == entry[j]
             new == [e EXCEPT !.callback = CallbackAgain(e)]
  <2>1. outside.on = "turn" /\ entry' = [entry EXCEPT ![j] = Written(e, new)]
    BY <1>3 DEF Stop
  <2>2. j \in Pictures /\ Acting(j)
    BY <2>1 DEF RequestInv, Outsides, Acting
  <2>3. e \in Entry /\ entry \in [Pictures -> Entry] /\ ~e.deleted
    BY <1>3, <2>1, <2>2 DEF PictureInv, Written
  <2>4. /\ new \in Entry /\ new.status = e.status /\ new.hidden = e.hidden /\ new.unsafe = e.unsafe
        /\ new.deleted = e.deleted /\ (e.unsafe => new.callback = "uncertain")
    BY <2>3 DEF Entry, CallbackAgain
  <2>5. /\ entry' \in [Pictures -> Entry] /\ entry'[j] = new /\ \A i \in Pictures : i # j => entry'[i] = entry[i]
    BY <2>1, <2>2, <2>3, <2>4 DEF Written
  <2>6. acted[j] \in {0, 1} /\ (acted[j] = 1 => e.unsafe)
    BY <2>2, <2>3 DEF TurnInv
  <2> HIDE DEF new, j
  <2>7. PictureInv'
    BY <1>1, <2>4, <2>5 DEF PictureInv, HasPicture
  <2>8. TurnInv'
    BY <1>1, <2>2, <2>4, <2>5, <2>6 DEF TurnInv, Told
  <2> QED
    BY <2>7, <2>8
<1> QED
  BY <1>2, <1>3

LEMMA SavedKeeps ==
  ASSUME VisualInv, RowsKeep, SaveRecovered
  PROVE  PictureInv' /\ TurnInv'
<1> USE VisualAssumption DEF VisualInv
<1>1. /\ UNCHANGED <<binding, clean, acted, shownPic>> /\ hand = Free /\ hand' = Free /\ outside' = Idle
      /\ \A i \in Pictures : ~Holds("bound", i)' /\ ~Holds("verdict", i)' /\ ~Acting(i)'
  BY DEF SaveRecovered, Ghosts, Holds, Free, Idle, Acting
<1>2. entry' = [i \in Pictures |-> RecoveredEntry(i)]
  BY DEF SaveRecovered
<1>3. ASSUME NEW i \in Pictures
      PROVE  /\ entry'[i] \in Entry
             /\ HasPicture(entry'[i]) => HasPicture(entry[i])
             /\ entry[i].status = "none" => entry'[i].status = "none"
             /\ entry'[i].status \in {"none", "pending", "running"} => acted[i] = 0
             /\ acted[i] = 1 => Told(entry'[i]) \/ (entry'[i].callback = "running" /\ entry'[i].unsafe)
  <2> DEFINE e == entry[i]
  <2>0. e \in Entry /\ entry'[i] = RecoveredEntry(i) /\ acted[i] \in {0, 1}
    BY <1>2 DEF PictureInv, TurnInv
  <2>1. CASE e.status = "running"
    <3> DEFINE s == binding[i].state
    <3>1. entry'[i] = [e EXCEPT !.status = IF s = "cancelled" THEN "cancelled" ELSE "failed",
                                !.hidden = @ \/ s \in {"cancelled", "outcome_uncertain"},
                                !.callback = "pending", !.tries = 0]
      BY <2>0, <2>1 DEF RecoveredEntry
    <3>2. entry'[i] \in Entry /\ entry'[i].status \in {"cancelled", "failed"}
      <4> DEFINE status == IF s = "cancelled" THEN "cancelled" ELSE "failed"
                 hidden == e.hidden \/ s \in {"cancelled", "outcome_uncertain"}
      <4>1. entry'[i] = [e EXCEPT !.status = status, !.hidden = hidden, !.callback = "pending", !.tries = 0]
        BY <3>1
      <4>2. status \in {"cancelled", "failed"} /\ hidden \in BOOLEAN /\ 0 \in 0 .. MaxTries
        BY <2>0 DEF Entry
      <4> HIDE DEF status, hidden
      <4> QED
        BY <2>0, <4>1, <4>2 DEF Entry
    <3>3. acted[i] = 0
      BY <2>1 DEF TurnInv
    <3> QED
      BY <2>1, <3>2, <3>3 DEF HasPicture
  <2>2. CASE e.status # "running" /\ e.callback = "running"
    <3>1. entry'[i] = [e EXCEPT !.callback = CallbackAgain(e)]
      BY <2>0, <2>2 DEF RecoveredEntry
    <3>2. /\ entry'[i] \in Entry /\ entry'[i].status = e.status /\ entry'[i].hidden = e.hidden
          /\ entry'[i].deleted = e.deleted /\ (e.unsafe => entry'[i].callback = "uncertain")
      BY <2>0, <3>1 DEF Entry, CallbackAgain
    <3>3. acted[i] = 1 => Told(e) \/ e.unsafe
      BY DEF TurnInv
    <3>4. Told(e) => e.deleted
      BY <2>2 DEF Told
    <3>5. e.status \in {"none", "pending", "running"} => acted[i] = 0
      BY DEF TurnInv
    <3> QED
      BY <3>2, <3>3, <3>4, <3>5 DEF HasPicture, Told
  <2>3. CASE e.status # "running" /\ e.callback # "running"
    <3>1. entry'[i] = e
      BY <2>0, <2>3 DEF RecoveredEntry
    <3> QED
      BY <2>0, <3>1 DEF TurnInv
  <2> QED
    BY <2>1, <2>2, <2>3
<1>4. entry' \in [Pictures -> Entry]
  <2>1. entry' = [i \in Pictures |-> entry'[i]]
    BY <1>2
  <2> QED
    BY <1>3, <2>1
<1>5. PictureInv'
  BY <1>1, <1>3, <1>4 DEF PictureInv
<1>6. TurnInv'
  BY <1>1, <1>3 DEF TurnInv
<1> QED
  BY <1>5, <1>6

-----------------------------------------------------------------------------
LEMMA TakenKeeps ==
  ASSUME VisualInv, RowsKeep, VisualNext
  PROVE  TakenInv'
<1> USE DEF VisualInv
<1>1. SUFFICES ASSUME NEW i \in Pictures, Holds("taken", i)' \/ Holds("verdict", i)'
               PROVE  binding[i].state # "none"
  BY DEF TakenInv, RowsKeep
<1>2. CASE hand' = hand
  BY <1>1, <1>2 DEF TakenInv, Holds
<1>3. CASE hand'.at \in {"free", "reserved", "bound", "queued", "checked", "permitted", "taking back"}
  BY <1>1, <1>3 DEF Holds
<1>4. ASSUME NEW j \in Pictures, Take(j) PROVE binding[i].state # "none"
  <2>1. hand' = [at |-> "taken", job |-> j] /\ entry[j].status = "pending"
    BY <1>4 DEF Take
  <2>2. i = j
    BY <1>1, <2>1 DEF Holds
  <2> QED
    BY <2>1, <2>2 DEF TurnInv
<1>5. ASSUME NEW j \in Pictures, Preflight(j) PROVE binding[i].state # "none"
  <2>1. Holds("taken", j) /\ hand' \in {Verdict(j, "cancelled", TRUE), [at |-> "checked", job |-> j]}
    BY <1>5 DEF Preflight, Holds
  <2>2. i = j
    BY <1>1, <2>1 DEF Holds, Verdict
  <2> QED
    BY <2>1, <2>2 DEF TakenInv
<1>6. ASSUME NEW j \in Pictures, SnapshotLost(j) PROVE binding[i].state # "none"
  <2>1. Holds("checked", j) /\ hand' = Verdict(j, "failed", FALSE)
    BY <1>6 DEF SnapshotLost, Holds
  <2>2. i = j
    BY <1>1, <2>1 DEF Holds, Verdict
  <2> QED
    BY <2>1, <2>2 DEF RequestInv
<1>7. ASSUME NEW j \in Pictures, Complete(j) \/ RequestFails(j) PROVE binding[i].state # "none"
  <2>1. outside = [on |-> "picture", job |-> j] /\ \E st, h : hand' = Verdict(j, st, h)
    BY <1>7 DEF Complete, RequestFails
  <2>2. i = j /\ Painting(j)
    BY <1>1, <2>1 DEF Holds, Verdict, Painting
  <2> QED
    BY <2>2 DEF RequestInv
<1>8. ASSUME NEW j \in Pictures, CancelTakenBack(j) \/ PassTakenBack(j) PROVE hand'.at = "taking back"
  <2>1. hand.at = "taking back" /\ (hand' = hand \/ hand' = [hand EXCEPT !.left = @ \ {j}])
    BY <1>8 DEF CancelTakenBack, PassTakenBack
  <2> QED
    BY <2>1 DEF RequestInv, Hands
<1>9. ASSUME NEW j \in Pictures, Reserve(j) \/ Bind(j) \/ Enqueue(j) \/ MarkEnqueued(j) \/ AcquirePermit(j)
                                 \/ StartSubmit(j)
      PROVE  hand'.at \in {"free", "reserved", "bound", "queued", "permitted"}
  <2>1. hand' = Free \/ \E at \in {"reserved", "bound", "queued", "permitted"} : hand' = [at |-> at, job |-> j]
    BY <1>9 DEF Reserve, Bind, Enqueue, MarkEnqueued, AcquirePermit, StartSubmit
  <2> QED
    BY <2>1 DEF Free
<1>10. ASSUME NEW j \in Pictures, \/ Recover(j) \/ BeginCallback(j) \/ ToolInTurn(j) \/ EndCallback(j)
                                  \/ DeferCallback(j) \/ FailCallback(j)
       PROVE  hand' = hand
  BY <1>10 DEF Recover, BeginCallback, ToolInTurn, EndCallback, DeferCallback, FailCallback
<1>12. ASSUME SaveRecovered \/ WriteVerdict \/ TookBack \/ Stop PROVE hand' = hand \/ hand'.at = "free"
  <2>1. hand' = hand \/ hand' = Free
    BY <1>12 DEF SaveRecovered, WriteVerdict, TookBack, Stop
  <2> QED
    BY <2>1 DEF Free
<1>11. ASSUME NEW what \in {"grant", "picture", "person"}, TakeBack(what) PROVE hand'.at = "taking back"
  BY <1>11 DEF TakeBack
<1> QED
  BY <1>2, <1>3, <1>4, <1>5, <1>6, <1>7, <1>8, <1>9, <1>10, <1>11, <1>12 DEF VisualNext

LEMMA VisualInitSafe == VisualInit => VisualInv
<1> SUFFICES ASSUME VisualInit PROVE VisualInv
  OBVIOUS
<1> USE VisualAssumption DEF VisualInit
<1>1. RequestInv
  BY DEF RequestInv, NoBinding, Binding, RowTells, Hands, Free, Outsides, Idle, Holds, Painting
<1>2. MoneyInv
  <2>1. Held = {}
    BY DEF Held, NoBinding, Holds, Free
  <2> QED
    BY <2>1, FS_EmptySet DEF MoneyInv
<1>3. PictureInv
  BY DEF PictureInv, NoEntry, Entry, HasPicture, Holds, Free
<1>4. TurnInv
  BY DEF TurnInv, NoEntry, Holds, Free, Acting, Idle
<1>5. TakenInv
  BY DEF TakenInv, Holds, Free
<1> QED
  BY <1>1, <1>2, <1>3, <1>4, <1>5 DEF VisualInv

LEMMA VisualStepSafe == VisualInv /\ [VisualNext]_visualVars => VisualInv'
<1> SUFFICES ASSUME VisualInv, [VisualNext]_visualVars PROVE VisualInv'
  OBVIOUS
<1>1. CASE UNCHANGED visualVars
  BY <1>1 DEF visualVars, VisualInv, RequestInv, MoneyInv, PictureInv, TurnInv, TakenInv, Held, Holds,
              Painting, Acting
<1>2. CASE VisualNext
  <2>1. RequestInv' /\ MoneyInv'
    <3>1. RequestInv /\ MoneyInv
      BY DEF VisualInv
    <3> QED
      BY <1>2, <3>1, QuietStepsSafe, HandingInSafe, TickSafe DEF VisualNext
  <2>2. RowsKeep
    BY <1>2, RowsAreKept DEF VisualInv
  <2>3. PictureInv' /\ TurnInv'
    BY <1>2, <2>1, <2>2, RowStepsKeep, HandInKeeps, TurnsKeep, ToolKeeps, PictureKeeps, VerdictKeeps,
       TakingBackKeeps, StopKeeps, SavedKeeps DEF VisualNext
  <2>4. TakenInv'
    BY <1>2, <2>2, TakenKeeps
  <2> QED
    BY <2>1, <2>3, <2>4 DEF VisualInv
<1> QED
  BY <1>1, <1>2

THEOREM VisualInvariance == VisualSpec => []VisualInv
BY VisualInitSafe, VisualStepSafe, PTL DEF VisualSpec

(* A request that went out stays charged and goes out once, what was taken  *)
(* back is not shown, and no turn about a job acts twice: for any number of *)
(* jobs, any quota, and any number of failures and restarts.                *)
THEOREM JobsKept == VisualSpec => []JobSafety
<1>1. VisualInv => VisualTyped
  BY DEF VisualInv, RequestInv, MoneyInv, PictureInv, VisualTyped, Binding, Entry
<1>2. VisualInv => PaidStaysCharged
  <2> SUFFICES ASSUME VisualInv PROVE PaidStaysCharged
    OBVIOUS
  <2>1. Sent \subseteq Held
    BY DEF VisualInv, RequestInv, RowTells, Sent, Held
  <2>2. IsFiniteSet(Held) /\ IsFiniteSet(Held \cap AutoPictures)
    <3>1. Held \subseteq Pictures
      BY DEF Held
    <3> QED
      BY <3>1, VisualAssumption, FS_Subset
  <2>3. /\ Cardinality(Sent) <= Cardinality(Held) /\ Cardinality(Sent \cap AutoPictures) <= Cardinality(Held \cap AutoPictures)
        /\ IsFiniteSet(Sent) /\ IsFiniteSet(Sent \cap AutoPictures)
    BY <2>1, <2>2, FS_Subset
  <2>4. /\ Cardinality(Sent) \in Nat /\ Cardinality(Sent \cap AutoPictures) \in Nat
        /\ Cardinality(Held) \in Nat /\ Cardinality(Held \cap AutoPictures) \in Nat
    BY <2>2, <2>3, FS_CardinalityType
  <2>5. \A j \in Pictures : calls[j] <= 1
    BY DEF VisualInv, RequestInv
  <2> QED
    BY <2>3, <2>4, <2>5, VisualAssumption DEF VisualInv, MoneyInv, PaidStaysCharged
<1>3. VisualInv => WithdrawnStaysHidden
  BY DEF VisualInv, PictureInv, WithdrawnStaysHidden
<1>4. VisualInv => ActsOnce
  BY DEF VisualInv, TurnInv, ActsOnce
<1> QED
  BY <1>1, <1>2, <1>3, <1>4, VisualInvariance, PTL DEF JobSafety

(* Nothing ever decides what became of a request that was lost under way.   *)
THEOREM UncertainForGood == VisualSpec => UncertainStaysSo
<1> DEFINE NothingDecided == \A j \in Pictures : binding[j].state = "outcome_uncertain" =>
                     /\ binding'[j].state = "outcome_uncertain"
                     /\ binding'[j].back = binding[j].back
<1>1. VisualInv /\ [VisualNext]_visualVars => [NothingDecided]_visualVars
  BY RowsAreKept DEF VisualInv, RowsKeep
<1>2. VisualSpec => [][NothingDecided]_visualVars
  BY <1>1, VisualInvariance, PTL DEF VisualSpec
<1> QED
  BY <1>2 DEF UncertainStaysSo

-----------------------------------------------------------------------------
(* Revisions.  Types first, then what is tied to the step a handler is at. *)
Processes == {"worker", "web"}
Statuses == {"none", "draft", "candidate", "active", "superseded", "retired"}

RevisionTypes ==
  /\ apart \in BOOLEAN /\ formal \in 0 .. MaxHead /\ head \in 0 .. MaxHead
  /\ deletedRow \in BOOLEAN /\ lost \in BOOLEAN /\ falls \in Nat
  /\ rev \in [Revisions -> [status : Statuses, parent : 0 .. MaxHead]]
  /\ derived \in [DeriveJobs -> [state : {"none", "under way", "done", "over"},
                                 source : 0 .. MaxHead, redo : BOOLEAN]]

(* What the handler a process is in holds. *)
DeskHolds(s) ==
  /\ desk[s].at \in {"free", "staging", "staged", "activating", "retiring", "clearing", "deriving",
                     "bumped", "inserted", "deleting", "wiping"}
  /\ desk[s].at = "staging" => desk[s].seen \in 0 .. MaxHead
  /\ desk[s].at \in {"staged", "activating"} => /\ desk[s].new \in Revisions
                                                /\ desk[s].seen \in 0 .. MaxHead
  /\ desk[s].at = "retiring" => /\ desk[s] = [at |-> "retiring", revision |-> desk[s].revision]
                                /\ desk[s].revision \in Revisions
  /\ desk[s].at = "deriving" => desk[s].source \in Revisions /\ desk[s].redo \in BOOLEAN
  /\ desk[s].at = "bumped" => desk[s].job \in DeriveJobs /\ desk[s].number \in Revisions
  /\ desk[s].at = "inserted" => desk[s].job \in DeriveJobs
  /\ desk[s].at = "wiping" => /\ desk[s] = [at |-> "wiping", rest |-> desk[s].rest]
                              /\ desk[s].rest \subseteq Revisions

(* What it relies on, and what it has done so far. *)
DeskTells(s) ==
  /\ desk[s].at \in {"staged", "activating"} => Status(desk[s].new) # "none"
  /\ desk[s].at = "bumped" => /\ s = "worker" /\ desk[s].number <= head
                              /\ Status(desk[s].number) = "none"
  /\ desk[s].at \in {"deleting", "wiping"} => deletedRow
  /\ desk[s].at = "wiping" => \A r \in desk[s].rest : Status(r) # "none"
  /\ ~apart => /\ s = "web" => desk[s] = AtDesk
               /\ desk[s].at \in {"staging", "staged", "activating", "bumped"} => ~deletedRow
               /\ desk[s].at = "activating" => Status(desk[s].new) # "retired"

DesksTell == /\ DOMAIN desk = Processes
             /\ \A s \in Processes : DeskHolds(s) /\ DeskTells(s)

Unused == \A r \in Revisions : r > head => Status(r) = "none"

RevisionInv == RevisionTypes /\ DesksTell /\ Unused /\ PointerIsFormal /\ OneFormal /\ GoneForGood
-----------------------------------------------------------------------------
(* The histories of a step. *)
Recorded ==
  /\ revived' = revived \cup {r \in Revisions : /\ ~apart /\ Status(r) = "retired" /\ formal # r
                                                /\ rev'[r].status # "retired"}
  /\ late' = late \cup {r \in Revisions : /\ ~apart /\ deletedRow
                                          /\ \/ Status(r) = "none" /\ rev'[r].status # "none"
                                             \/ formal # r /\ formal' = r}

(* What no step takes back. *)
Onward ==
  /\ \A r \in Revisions : Status(r) # "none" => Status(r)' # "none"
  /\ head' \in Nat /\ head <= head' /\ (deletedRow => deletedRow') /\ apart' = apart

(* Only the worker fills a number that has been bumped. *)
Filling(s) == s # "worker" => \A r \in Revisions : r <= head /\ Status(r) = "none" => Status(r)' = "none"

LEMMA Parts ==
  ASSUME RevisionInv
  PROVE  /\ formal \in 0 .. MaxHead /\ head \in 0 .. MaxHead /\ falls \in Nat
         /\ \A r \in Revisions : r \in Nat
  <1>1. formal \in 0 .. MaxHead /\ head \in 0 .. MaxHead /\ falls \in Nat
    BY DEF RevisionInv, RevisionTypes
  <1> QED
    BY <1>1 DEF Revisions

LEMMA Counts == ASSUME RevisionInv PROVE formal \in Nat /\ head \in Nat /\ falls \in Nat
BY Parts, RevisionAssumption

LEMMA DeskMoves ==
  ASSUME DOMAIN desk = Processes, NEW s \in Processes, NEW x, desk' = [desk EXCEPT ![s] = x]
  PROVE  /\ DOMAIN desk' = Processes /\ desk'[s] = x
         /\ \A t \in Processes : t # s => desk'[t] = desk[t]
OBVIOUS

LEMMA OneDeskMoves ==
  ASSUME RevisionInv, Onward, NEW s \in Processes, s \in Sides, Filling(s),
         NEW x, desk' = [desk EXCEPT ![s] = x], DeskHolds(s)', DeskTells(s)'
  PROVE  DesksTell'
<1>1. /\ DOMAIN desk' = Processes
      /\ \A t \in Processes : t # s => desk'[t] = desk[t]
  BY DeskMoves DEF RevisionInv, DesksTell
<1>2. ASSUME NEW t \in Processes, t # s  PROVE DeskHolds(t)' /\ DeskTells(t)'
  <2>1. desk'[t] = desk[t] /\ DeskHolds(t) /\ DeskTells(t)
    BY <1>1, <1>2 DEF RevisionInv, DesksTell
  <2>2. DeskHolds(t)'
    BY <2>1 DEF DeskHolds
  <2>3. ~apart => t = "web"
    BY <1>2 DEF Sides, Processes
  <2>4. /\ desk[t].at \in {"staged", "activating"} => Status(desk[t].new)' # "none"
        /\ desk[t].at \in {"deleting", "wiping"} => deletedRow'
        /\ desk[t].at = "wiping" => \A r \in desk[t].rest : Status(r)' # "none"
    BY <2>1 DEF Onward, DeskHolds, DeskTells
  <2>5. ASSUME desk[t].at = "bumped"
        PROVE  /\ t = "worker" /\ desk[t].number <= head' /\ Status(desk[t].number)' = "none"
    <3>1. /\ t = "worker" /\ desk[t].number <= head /\ Status(desk[t].number) = "none"
          /\ desk[t].number \in Revisions
      BY <2>1, <2>5 DEF DeskHolds, DeskTells
    <3>2. Status(desk[t].number)' = "none"
      BY <1>2, <2>1, <3>1 DEF Filling, Status
    <3>3. head \in Nat /\ head' \in Nat /\ desk[t].number \in Nat /\ head <= head'
      BY <3>1, Parts, Counts DEF Onward
    <3> QED
      BY <3>1, <3>2, <3>3
  <2>6. ~apart' => /\ t = "web" => desk'[t] = AtDesk
                   /\ desk'[t].at = "free"
    BY <2>1, <2>3 DEF DeskTells, AtDesk, Onward
  <2>7. DeskTells(t)'
    BY <2>1, <2>4, <2>5, <2>6 DEF DeskTells, AtDesk, Status
  <2> QED
    BY <2>2, <2>7
<1> QED
  BY <1>1, <1>2 DEF DesksTell

(* A step that leaves the pointer and the marks alone. *)
LEMMA MarksStay ==
  ASSUME RevisionInv, Recorded, UNCHANGED <<apart, formal, rev, deletedRow, lost>>,
         falls' \in Nat, falls <= falls',
         \A s \in Sides : UnderWay(s) => falls' > 0 \/ UnderWay(s)'
  PROVE  PointerIsFormal' /\ OneFormal' /\ GoneForGood'
<1>1. PointerIsFormal'
  <2> SUFFICES ASSUME formal # 0, Status(formal) = "retired"
               PROVE  falls' > 0 \/ \E s \in Sides' : UnderWay(s)'
    BY DEF RevisionInv, PointerIsFormal, Status
  <2>1. falls > 0 \/ \E s \in Sides : UnderWay(s)
    BY DEF RevisionInv, PointerIsFormal
  <2>2. CASE falls > 0
    BY <2>2, Counts
  <2>3. CASE \E s \in Sides : UnderWay(s)
    BY <2>3 DEF Sides
  <2> QED
    BY <2>1, <2>2, <2>3
<1>2. OneFormal'
  BY DEF RevisionInv, OneFormal, Status
<1>3. GoneForGood'
  BY DEF RevisionInv, GoneForGood, Recorded, Status
<1> QED
  BY <1>1, <1>2, <1>3

LEMMA Stays ==
  ASSUME UNCHANGED <<apart, rev, deletedRow, head>>, RevisionInv
  PROVE  Onward /\ Unused' /\ \A s \in Processes : Filling(s)
<1>1. head \in Nat /\ head <= head'
  BY Counts
<1> QED
  BY <1>1 DEF RevisionInv, Onward, Unused, Filling, Status

-----------------------------------------------------------------------------
(* One lemma per handler's step.  First those that only move a desk. *)

LEMMA OnlyADeskMoves ==
  ASSUME RevisionInv, Recorded, UNCHANGED <<apart, formal, head, rev, deletedRow, falls, lost>>,
         RevisionTypes', NEW s \in Processes, s \in Sides, ~UnderWay(s) \/ UnderWay(s)',
         NEW x, desk' = [desk EXCEPT ![s] = x], DeskHolds(s)', DeskTells(s)'
  PROVE  RevisionInv'
<1>1. Onward /\ Unused' /\ Filling(s)
  BY Stays DEF RevisionInv
<1>2. DesksTell'
  BY <1>1, OneDeskMoves
<1>3. \A t \in Sides : UnderWay(t) => UnderWay(t)'
  <2> TAKE t \in Sides
  <2>1. CASE t = s
    BY <2>1
  <2>2. CASE t # s
    BY <2>2, DeskMoves DEF RevisionInv, DesksTell, UnderWay, Sides, Processes
  <2> QED
    BY <2>1, <2>2
<1>4. falls' \in Nat /\ falls <= falls'
  BY Counts
<1>5. PointerIsFormal' /\ OneFormal' /\ GoneForGood'
  BY <1>3, <1>4, MarksStay
<1> QED
  BY <1>1, <1>2, <1>5 DEF RevisionInv

LEMMA BeginStageSafe ==
  ASSUME RevisionInv, Recorded, UNCHANGED apart, NEW s \in Processes, BeginStage(s)
  PROVE  RevisionInv'
<1> DEFINE x == [at |-> "staging", seen |-> formal]
<1>1. s \in Sides /\ desk[s].at = "free" /\ desk' = [desk EXCEPT ![s] = x] /\ desk'[s] = x
  BY DeskMoves DEF RevisionInv, DesksTell, BeginStage, At
<1>2. UNCHANGED <<formal, head, rev, deletedRow, derived, falls, lost>> /\ ~deletedRow
  BY DEF BeginStage, Rows
<1>3. RevisionTypes'
  BY <1>2 DEF RevisionInv, RevisionTypes
<1>4. DeskHolds(s)' /\ DeskTells(s)' /\ ~UnderWay(s)
  BY <1>1, <1>2, Parts DEF DeskHolds, DeskTells, Sides, UnderWay
<1> QED
  BY <1>1, <1>2, <1>3, <1>4, OnlyADeskMoves

LEMMA ActivateSafe ==
  ASSUME RevisionInv, Recorded, UNCHANGED apart, NEW s \in Processes,
         NEW r \in Revisions, NEW expected \in 0 .. Missing, Activate(s, r, expected)
  PROVE  RevisionInv'
<1> DEFINE x == [at |-> "activating", new |-> r, seen |-> formal]
<1>1. s \in Sides /\ desk[s].at = "free" /\ desk' = [desk EXCEPT ![s] = x] /\ desk'[s] = x
  BY DeskMoves DEF RevisionInv, DesksTell, Activate, At
<1>2. /\ UNCHANGED <<formal, head, rev, deletedRow, derived, falls, lost>> /\ ~deletedRow
      /\ Status(r) \notin {"none", "retired"}
  BY DEF Activate, Rows, MayActivate
<1>3. RevisionTypes'
  BY <1>2 DEF RevisionInv, RevisionTypes
<1>4. DeskHolds(s)' /\ DeskTells(s)' /\ ~UnderWay(s)
  BY <1>1, <1>2, Parts DEF DeskHolds, DeskTells, Sides, UnderWay, Status
<1> QED
  BY <1>1, <1>2, <1>3, <1>4, OnlyADeskMoves

LEMMA ActivateStagedSafe ==
  ASSUME RevisionInv, Recorded, UNCHANGED apart, NEW s \in Processes, ActivateStaged(s)
  PROVE  RevisionInv'
<1> DEFINE d == desk[s]
           x == IF MayActivate(d.new, d.seen)
                  THEN [at |-> "activating", new |-> d.new, seen |-> formal] ELSE AtDesk
<1>1. s \in Sides /\ d.at = "staged" /\ desk' = [desk EXCEPT ![s] = x] /\ desk'[s] = x
  BY DeskMoves DEF RevisionInv, DesksTell, ActivateStaged, At
<1>2. UNCHANGED <<formal, head, rev, deletedRow, derived, falls, lost>>
  BY DEF ActivateStaged, Rows
<1>3. RevisionTypes'
  BY <1>2 DEF RevisionInv, RevisionTypes
<1>4. /\ d.new \in Revisions /\ Status(d.new) # "none" /\ (~apart => ~deletedRow /\ s # "web")
  BY <1>1 DEF RevisionInv, DesksTell, DeskHolds, DeskTells, Sides
<1>5. DeskHolds(s)' /\ DeskTells(s)' /\ ~UnderWay(s)
  <2>1. ~UnderWay(s)
    BY <1>1 DEF UnderWay
  <2>2. CASE x = AtDesk
    BY <1>1, <2>1, <2>2 DEF DeskHolds, DeskTells, AtDesk
  <2>3. CASE x = [at |-> "activating", new |-> d.new, seen |-> formal] /\ MayActivate(d.new, d.seen)
    <3>1. Status(d.new) # "retired"
      BY <2>3 DEF MayActivate
    <3> QED
      BY <1>1, <1>2, <1>4, <2>1, <2>3, <3>1, Parts DEF DeskHolds, DeskTells, Status
  <2> QED
    BY <2>2, <2>3
<1> HIDE DEF x
<1> QED
  BY <1>1, <1>2, <1>3, <1>5, OnlyADeskMoves

LEMMA RetireLooksSafe ==
  ASSUME RevisionInv, Recorded, UNCHANGED apart, NEW s \in Processes, RetireLooks(s)
  PROVE  RevisionInv'
<1> DEFINE x == IF formal = desk[s].revision THEN [at |-> "clearing"] ELSE AtDesk
<1>1. s \in Sides /\ desk[s].at = "retiring" /\ desk' = [desk EXCEPT ![s] = x] /\ desk'[s] = x
  BY DeskMoves DEF RevisionInv, DesksTell, RetireLooks, At
<1>2. UNCHANGED <<formal, head, rev, deletedRow, derived, falls, lost>>
  BY DEF RetireLooks, Rows
<1>3. RevisionTypes'
  BY <1>2 DEF RevisionInv, RevisionTypes
<1>4. DeskHolds(s)' /\ DeskTells(s)'
  BY <1>1, <1>2 DEF DeskHolds, DeskTells, AtDesk, Sides
<1>5. ~UnderWay(s) \/ UnderWay(s)'
  BY <1>1, <1>2 DEF UnderWay
<1> HIDE DEF x
<1> QED
  BY <1>1, <1>2, <1>3, <1>4, <1>5, OnlyADeskMoves

LEMMA BeginDeriveSafe ==
  ASSUME RevisionInv, Recorded, UNCHANGED apart, NEW s \in Processes,
         NEW r \in Revisions, NEW redo \in BOOLEAN, BeginDerive(s, r, redo)
  PROVE  RevisionInv'
<1> DEFINE x == [at |-> "deriving", source |-> r, redo |-> redo]
<1>1. s \in Sides /\ desk[s].at = "free" /\ desk' = [desk EXCEPT ![s] = x] /\ desk'[s] = x
  BY DeskMoves DEF RevisionInv, DesksTell, BeginDerive, At
<1>2. UNCHANGED <<formal, head, rev, deletedRow, derived, falls, lost>>
  BY DEF BeginDerive, Rows
<1>3. RevisionTypes'
  BY <1>2 DEF RevisionInv, RevisionTypes
<1>4. DeskHolds(s)' /\ DeskTells(s)' /\ ~UnderWay(s)
  BY <1>1, <1>2 DEF DeskHolds, DeskTells, Sides, UnderWay
<1> QED
  BY <1>1, <1>2, <1>3, <1>4, OnlyADeskMoves

LEMMA AutoDeriveSafe ==
  ASSUME RevisionInv, Recorded, UNCHANGED apart, AutoDerive
  PROVE  RevisionInv'
<1>1. formal # 0 /\ BeginDerive("worker", formal, FALSE)
  BY DEF AutoDerive
<1>2. formal \in Revisions /\ "worker" \in Processes
  BY <1>1, Parts, Counts, RevisionAssumption DEF Revisions, Processes
<1> QED
  BY <1>1, <1>2, BeginDeriveSafe

LEMMA BindDerivationSafe ==
  ASSUME RevisionInv, Recorded, UNCHANGED apart, NEW s \in Processes, BindDerivation(s)
  PROVE  RevisionInv'
<1>1. /\ s \in Sides /\ desk[s].at = "deriving" /\ desk' = [desk EXCEPT ![s] = AtDesk]
      /\ desk'[s] = AtDesk
  BY DeskMoves DEF RevisionInv, DesksTell, BindDerivation, At, Leave
<1>2. UNCHANGED <<formal, head, rev, deletedRow, falls, lost>>
  BY DEF BindDerivation
<1>3. RevisionTypes'
  <2>1. desk[s].source \in 0 .. MaxHead /\ desk[s].redo \in BOOLEAN
    BY <1>1 DEF RevisionInv, DesksTell, DeskHolds, Revisions
  <2>2. \/ UNCHANGED derived
        \/ \E j \in DeriveJobs : \E state \in {"under way", "over"} :
             derived' = [derived EXCEPT ![j] = [state |-> state, source |-> desk[s].source,
                                                redo |-> desk[s].redo]]
    BY DEF BindDerivation
  <2>3. derived' \in [DeriveJobs -> [state : {"none", "under way", "done", "over"},
                                     source : 0 .. MaxHead, redo : BOOLEAN]]
    <3>1. CASE UNCHANGED derived
      BY <3>1 DEF RevisionInv, RevisionTypes
    <3>2. ASSUME NEW j \in DeriveJobs, NEW state \in {"under way", "over"},
                 derived' = [derived EXCEPT ![j] = [state |-> state, source |-> desk[s].source,
                                                    redo |-> desk[s].redo]]
          PROVE  derived' \in [DeriveJobs -> [state : {"none", "under way", "done", "over"},
                                              source : 0 .. MaxHead, redo : BOOLEAN]]
      <4> DEFINE D == [state : {"none", "under way", "done", "over"}, source : 0 .. MaxHead,
                       redo : BOOLEAN]
                 v == [state |-> state, source |-> desk[s].source, redo |-> desk[s].redo]
      <4>1. v \in D
        BY <2>1
      <4>2. derived \in [DeriveJobs -> D] /\ derived' = [derived EXCEPT ![j] = v]
        BY <3>2 DEF RevisionInv, RevisionTypes
      <4> HIDE DEF D, v
      <4> QED
        BY <4>1, <4>2 DEF D
    <3> QED
      BY <2>2, <3>1, <3>2
  <2> QED
    BY <1>2, <2>3 DEF RevisionInv, RevisionTypes
<1>4. DeskHolds(s)' /\ DeskTells(s)' /\ ~UnderWay(s)
  BY <1>1 DEF DeskHolds, DeskTells, UnderWay, AtDesk
<1> QED
  BY <1>1, <1>2, <1>3, <1>4, OnlyADeskMoves

LEMMA MarkDerivedSafe ==
  ASSUME RevisionInv, Recorded, UNCHANGED apart, MarkDerived
  PROVE  RevisionInv'
<1> DEFINE s == "worker"
<1>1. /\ s \in Sides /\ s \in Processes /\ desk[s].at = "inserted"
      /\ desk' = [desk EXCEPT ![s] = AtDesk] /\ desk'[s] = AtDesk
  BY DeskMoves DEF RevisionInv, DesksTell, MarkDerived, At, Leave, Processes
<1>2. UNCHANGED <<formal, head, rev, deletedRow, falls, lost>>
  BY DEF MarkDerived
<1>3. RevisionTypes'
  <2>1. desk[s].job \in DeriveJobs /\ derived' = [derived EXCEPT ![desk[s].job].state = "done"]
    BY <1>1 DEF RevisionInv, DesksTell, DeskHolds, MarkDerived
  <2> QED
    BY <1>2, <2>1 DEF RevisionInv, RevisionTypes
<1>4. DeskHolds(s)' /\ DeskTells(s)' /\ ~UnderWay(s)
  BY <1>1 DEF DeskHolds, DeskTells, UnderWay, AtDesk
<1> HIDE DEF s
<1> QED
  BY <1>1, <1>2, <1>3, <1>4, OnlyADeskMoves

LEMMA DerivationFailsSafe ==
  ASSUME RevisionInv, Recorded, UNCHANGED apart, NEW j \in DeriveJobs, DerivationFails(j)
  PROVE  RevisionInv'
<1>1. UNCHANGED <<formal, head, rev, deletedRow, desk, falls, lost>>
  BY DEF DerivationFails
<1>2. RevisionTypes'
  BY <1>1 DEF RevisionInv, RevisionTypes, DerivationFails
<1>3. DesksTell' /\ Unused'
  BY <1>1 DEF RevisionInv, DesksTell, DeskHolds, DeskTells, Unused, Status
<1>4. \A s \in Sides : UnderWay(s) => UnderWay(s)'
  BY <1>1 DEF UnderWay
<1>5. falls' \in Nat /\ falls <= falls'
  BY <1>1, Counts
<1>6. PointerIsFormal' /\ OneFormal' /\ GoneForGood'
  BY <1>1, <1>4, <1>5, MarksStay
<1> QED
  BY <1>2, <1>3, <1>6 DEF RevisionInv

-----------------------------------------------------------------------------
(* The steps that change a mark, the pointer or the number of revisions. *)

LEMMA Marked ==
  ASSUME RevisionInv, NEW r \in Revisions, NEW mark \in Statuses,
         rev' = [rev EXCEPT ![r].status = mark]
  PROVE  /\ rev' \in [Revisions -> [status : Statuses, parent : 0 .. MaxHead]]
         /\ Status(r)' = mark
         /\ \A q \in Revisions : q # r => Status(q)' = Status(q)
BY DEF RevisionInv, RevisionTypes, Status

LEMMA StageDraftSafe ==
  ASSUME RevisionInv, Recorded, UNCHANGED apart, NEW s \in Processes, StageDraft(s)
  PROVE  RevisionInv'
<1>1. /\ s \in Sides /\ desk[s].at = "staging" /\ head < MaxHead /\ head' = head + 1
      /\ rev' = [rev EXCEPT ![head + 1].status = "draft"]
      /\ UNCHANGED <<formal, deletedRow, derived, falls, lost>>
  BY DEF StageDraft, At
<1>2. /\ head + 1 \in Revisions /\ head' \in 0 .. MaxHead /\ head' \in Nat /\ head <= head'
      /\ Status(head + 1) = "none"
  BY <1>1, Counts, RevisionAssumption DEF Revisions, RevisionInv, Unused
<1>3. /\ rev' \in [Revisions -> [status : Statuses, parent : 0 .. MaxHead]]
      /\ rev'[head + 1].status = "draft"
      /\ \A q \in Revisions : q # head + 1 => Status(q)' = Status(q)
  BY <1>1, <1>2, Marked DEF Statuses, Status
<1>4. RevisionTypes'
  BY <1>1, <1>2, <1>3 DEF RevisionInv, RevisionTypes
<1>5. Onward
  BY <1>1, <1>2, <1>3 DEF Onward, Status
<1>6. Filling(s) /\ Unused'
  BY <1>1, <1>2, <1>3, Counts, Parts DEF Filling, RevisionInv, Unused
<1>7. DesksTell'
  <2>1. PICK x : /\ desk' = [desk EXCEPT ![s] = x]
                 /\ \/ x = [at |-> "staged", new |-> head + 1, seen |-> desk[s].seen]
                    \/ x = AtDesk
    BY <1>1 DEF StageDraft, Leave
  <2>2. desk'[s] = x
    BY <2>1, DeskMoves DEF RevisionInv, DesksTell
  <2>3. desk[s].seen \in 0 .. MaxHead /\ (~apart => ~deletedRow /\ s # "web")
    BY <1>1 DEF RevisionInv, DesksTell, DeskHolds, DeskTells, Sides
  <2>4. DeskHolds(s)' /\ DeskTells(s)'
    <3>1. CASE x = AtDesk
      BY <2>2, <3>1 DEF DeskHolds, DeskTells, AtDesk
    <3>2. CASE x = [at |-> "staged", new |-> head + 1, seen |-> desk[s].seen]
      BY <1>1, <1>2, <1>3, <2>2, <2>3, <3>2 DEF DeskHolds, DeskTells, Status, Revisions
    <3> QED
      BY <2>1, <3>1, <3>2
  <2> QED
    BY <1>1, <1>5, <1>6, <2>1, <2>4, OneDeskMoves
<1>8. \A t \in Sides : UnderWay(t) => UnderWay(t)'
  <2>1. ~UnderWay(s)
    BY <1>1 DEF UnderWay
  <2>2. \A t \in Processes : t # s => desk'[t] = desk[t]
    BY <1>1 DEF StageDraft, Leave, RevisionInv, DesksTell
  <2> QED
    BY <1>1, <2>1, <2>2 DEF UnderWay, Sides, Processes
<1>9. PointerIsFormal'
  <2> SUFFICES ASSUME formal # 0  PROVE PointerIsFormal'
    BY <1>1 DEF PointerIsFormal
  <2>1. formal \in Revisions /\ Status(formal) # "none"
    BY Parts, Counts, RevisionAssumption DEF RevisionInv, PointerIsFormal, Revisions
  <2>2. rev'[formal].status = rev[formal].status
    BY <1>2, <1>3, <2>1 DEF Status
  <2> QED
    BY <1>1, <1>8, <2>2 DEF RevisionInv, PointerIsFormal, Status, Sides
<1>10. OneFormal'
  BY <1>1, <1>3 DEF RevisionInv, OneFormal, Status
<1>11. GoneForGood'
  BY <1>1, <1>2, <1>3 DEF RevisionInv, GoneForGood, Recorded, Status, DesksTell, DeskTells
<1> QED
  BY <1>4, <1>6, <1>7, <1>9, <1>10, <1>11 DEF RevisionInv

LEMMA WriteActivationSafe ==
  ASSUME RevisionInv, Recorded, UNCHANGED apart, NEW s \in Processes, WriteActivation(s)
  PROVE  RevisionInv'
<1> DEFINE d == desk[s]
<1>1. /\ s \in Sides /\ d.at = "activating" /\ desk' = [desk EXCEPT ![s] = AtDesk]
      /\ UNCHANGED <<head, deletedRow, derived, falls, lost>>
  BY DEF WriteActivation, At, Leave
<1>2. /\ d.new \in Revisions /\ Status(d.new) # "none"
      /\ ~apart => ~deletedRow /\ Status(d.new) # "retired"
  BY <1>1 DEF RevisionInv, DesksTell, DeskHolds, DeskTells
<1>3. /\ desk'[s] = AtDesk /\ \A t \in Processes : t # s => desk'[t] = desk[t]
  BY <1>1, DeskMoves DEF RevisionInv, DesksTell
<1>4. DeskHolds(s)' /\ DeskTells(s)' /\ ~UnderWay(s)
  BY <1>1, <1>3 DEF DeskHolds, DeskTells, AtDesk, UnderWay
<1>5. CASE UNCHANGED <<formal, rev>>
  <2>1. RevisionTypes'
    BY <1>1, <1>5 DEF RevisionInv, RevisionTypes
  <2> QED
    BY <1>1, <1>4, <1>5, <2>1, OnlyADeskMoves
<1>6. CASE formal = d.seen /\ formal' = d.new /\ rev' = Replaced(d.new, d.seen)
  <2>1. /\ rev' \in [Revisions -> [status : Statuses, parent : 0 .. MaxHead]]
        /\ rev'[d.new].status = "active"
        /\ \A q \in Revisions : q # d.new => rev'[q].status = IF q = formal THEN "superseded"
                                                               ELSE Status(q)
    BY <1>2, <1>6 DEF RevisionInv, RevisionTypes, Replaced, Statuses, Status
  <2>2. \A q \in Revisions : Status(q) = "none" => rev'[q].status = "none"
    <3>1. \A q \in Revisions : q = formal => Status(q) # "none"
      BY Parts, RevisionAssumption DEF RevisionInv, PointerIsFormal, Revisions
    <3> QED
      BY <1>2, <2>1, <3>1
  <2>3. Onward /\ Filling(s) /\ Unused'
    <3>1. head' \in Nat /\ head <= head'
      BY <1>1, Counts
    <3> QED
      BY <1>1, <2>1, <2>2, <3>1 DEF Onward, Filling, Status, RevisionInv, Unused
  <2>4. RevisionTypes'
    <3>1. formal' \in 0 .. MaxHead
      BY <1>2, <1>6, RevisionAssumption DEF Revisions
    <3> QED
      BY <1>1, <2>1, <3>1 DEF RevisionInv, RevisionTypes
  <2>5. DesksTell'
    BY <1>1, <1>4, <2>3, OneDeskMoves
  <2>6. PointerIsFormal'
    BY <1>6, <2>1 DEF PointerIsFormal, Status
  <2>7. OneFormal'
    BY <1>1, <1>6, <2>1 DEF RevisionInv, OneFormal, Status
  <2>8. GoneForGood'
    BY <1>1, <1>2, <2>1, <2>2 DEF RevisionInv, GoneForGood, Recorded
  <2> QED
    BY <2>3, <2>4, <2>5, <2>6, <2>7, <2>8 DEF RevisionInv
<1> QED
  BY <1>5, <1>6 DEF WriteActivation, PointerHolds

LEMMA RetireSafe ==
  ASSUME RevisionInv, Recorded, UNCHANGED apart, NEW s \in Processes, NEW r \in Revisions,
         Retire(s, r)
  PROVE  RevisionInv'
<1> DEFINE x == [at |-> "retiring", revision |-> r]
<1>1. /\ s \in Sides /\ desk[s].at = "free" /\ Status(r) # "none" /\ desk' = [desk EXCEPT ![s] = x]
      /\ rev' = [rev EXCEPT ![r].status = "retired"]
      /\ UNCHANGED <<formal, head, deletedRow, derived, falls, lost>>
  BY DEF Retire, At
<1>2. desk'[s] = x /\ \A t \in Processes : t # s => desk'[t] = desk[t]
  BY <1>1, DeskMoves DEF RevisionInv, DesksTell
<1>3. /\ rev' \in [Revisions -> [status : Statuses, parent : 0 .. MaxHead]]
      /\ rev'[r].status = "retired"
      /\ \A q \in Revisions : q # r => rev'[q].status = Status(q)
  BY <1>1, Marked DEF Statuses, Status
<1>4. RevisionTypes'
  BY <1>1, <1>3 DEF RevisionInv, RevisionTypes
<1>5. Onward /\ Filling(s) /\ Unused'
  <2>1. head' \in Nat /\ head <= head'
    BY <1>1, Counts
  <2> QED
    BY <1>1, <1>3, <2>1 DEF Onward, Filling, Status, RevisionInv, Unused
<1>6. DesksTell'
  <2>1. DeskHolds(s)' /\ DeskTells(s)'
    BY <1>1, <1>2 DEF DeskHolds, DeskTells, Sides
  <2> QED
    BY <1>1, <1>5, <2>1, OneDeskMoves
<1>7. PointerIsFormal'
  <2>1. CASE formal = r
    <3>1. UnderWay(s)'
      BY <1>1, <1>2, <2>1 DEF UnderWay
    <3> QED
      BY <1>1, <1>3, <2>1, <3>1 DEF PointerIsFormal, Status, Sides
  <2>2. CASE formal # r
    <3>1. \A t \in Sides : UnderWay(t) => UnderWay(t)'
      BY <1>1, <1>2 DEF UnderWay, Sides, Processes
    <3>2. formal # 0 => formal \in Revisions
      BY Parts, RevisionAssumption DEF Revisions
    <3>3. formal # 0 => rev'[formal].status = Status(formal)
      BY <1>3, <2>2, <3>2
    <3> QED
      BY <1>1, <3>1, <3>3 DEF RevisionInv, PointerIsFormal, Status, Sides
  <2> QED
    BY <2>1, <2>2
<1>8. OneFormal'
  BY <1>1, <1>3 DEF RevisionInv, OneFormal, Status
<1>9. GoneForGood'
  BY <1>1, <1>3 DEF RevisionInv, GoneForGood, Recorded
<1> QED
  BY <1>4, <1>5, <1>6, <1>7, <1>8, <1>9 DEF RevisionInv

LEMMA RetireClearsSafe ==
  ASSUME RevisionInv, Recorded, UNCHANGED apart, NEW s \in Processes, RetireClears(s)
  PROVE  RevisionInv'
<1>1. /\ s \in Sides /\ desk[s].at = "clearing" /\ desk' = [desk EXCEPT ![s] = AtDesk]
      /\ formal' = 0 /\ lost' = (lost \/ (formal # 0 /\ Status(formal) = "active"))
      /\ UNCHANGED <<head, rev, deletedRow, derived, falls>>
  BY DEF RetireClears, At, Leave
<1>2. desk'[s] = AtDesk
  BY <1>1, DeskMoves DEF RevisionInv, DesksTell
<1>3. RevisionTypes'
  <2>1. formal' \in 0 .. MaxHead
    BY <1>1, RevisionAssumption
  <2> QED
    BY <1>1, <2>1 DEF RevisionInv, RevisionTypes
<1>4. Onward /\ Filling(s) /\ Unused'
  BY <1>1, Stays
<1>5. DesksTell'
  <2>1. DeskHolds(s)' /\ DeskTells(s)'
    BY <1>2 DEF DeskHolds, DeskTells, AtDesk
  <2> QED
    BY <1>1, <1>4, <2>1, OneDeskMoves
<1>6. PointerIsFormal'
  BY <1>1 DEF PointerIsFormal
<1>7. OneFormal'
  <2>1. 0 \notin Revisions
    BY RevisionAssumption DEF Revisions
  <2> QED
    BY <1>1, <2>1 DEF RevisionInv, OneFormal, Status
<1>8. GoneForGood'
  <2>1. 0 \notin Revisions
    BY RevisionAssumption DEF Revisions
  <2> QED
    BY <1>1, <2>1 DEF RevisionInv, GoneForGood, Recorded, Status
<1> QED
  BY <1>3, <1>4, <1>5, <1>6, <1>7, <1>8 DEF RevisionInv

LEMMA PictureArrivesSafe ==
  ASSUME RevisionInv, Recorded, UNCHANGED apart, NEW j \in DeriveJobs, PictureArrives(j)
  PROVE  RevisionInv'
<1> DEFINE s == "worker"
<1>1. /\ s \in Sides /\ s \in Processes /\ desk[s].at = "free"
      /\ UNCHANGED <<formal, rev, deletedRow, falls, lost>>
  BY DEF PictureArrives, At, Processes
<1>2. CASE UNCHANGED <<head, desk>> /\ derived' = [derived EXCEPT ![j].state = "over"]
  <2>1. RevisionTypes'
    BY <1>1, <1>2 DEF RevisionInv, RevisionTypes
  <2>2. DesksTell' /\ Unused'
    BY <1>1, <1>2 DEF RevisionInv, DesksTell, DeskHolds, DeskTells, Unused, Status
  <2>3. \A t \in Sides : UnderWay(t) => UnderWay(t)'
    BY <1>1, <1>2 DEF UnderWay
  <2>4. falls' \in Nat /\ falls <= falls'
    BY <1>1, Counts
  <2>5. PointerIsFormal' /\ OneFormal' /\ GoneForGood'
    BY <1>1, <2>3, <2>4, MarksStay
  <2> QED
    BY <2>1, <2>2, <2>5 DEF RevisionInv
<1>3. CASE /\ Kept(j) /\ head < MaxHead /\ head' = head + 1 /\ UNCHANGED derived
           /\ desk' = [desk EXCEPT ![s] = [at |-> "bumped", job |-> j, number |-> head + 1]]
  <2> DEFINE x == [at |-> "bumped", job |-> j, number |-> head + 1]
  <2>1. desk'[s] = x /\ \A t \in Processes : t # s => desk'[t] = desk[t]
    BY <1>1, <1>3, DeskMoves DEF RevisionInv, DesksTell
  <2>2. /\ head + 1 \in Revisions /\ head' \in 0 .. MaxHead /\ head' \in Nat /\ head <= head'
        /\ Status(head + 1) = "none" /\ head + 1 <= head'
    BY <1>3, Counts, RevisionAssumption DEF Revisions, RevisionInv, Unused
  <2>3. RevisionTypes'
    BY <1>1, <1>3, <2>2 DEF RevisionInv, RevisionTypes
  <2>4. Onward /\ Filling(s)
    BY <1>1, <2>2 DEF Onward, Filling, Status
  <2>5. Unused'
    BY <1>1, <1>3, Counts, Parts DEF RevisionInv, Unused, Status
  <2>6. DeskHolds(s)' /\ DeskTells(s)' /\ ~UnderWay(s)
    BY <1>1, <1>3, <2>1, <2>2 DEF DeskHolds, DeskTells, UnderWay, Kept, Status
  <2>7. DesksTell'
    BY <1>1, <1>3, <2>4, <2>6, OneDeskMoves
  <2>8. \A t \in Sides : UnderWay(t) => UnderWay(t)'
    BY <1>1, <2>1, <2>6 DEF UnderWay, Sides, Processes
  <2>9. falls' \in Nat /\ falls <= falls'
    BY <1>1, Counts
  <2>10. PointerIsFormal' /\ OneFormal' /\ GoneForGood'
    BY <1>1, <2>8, <2>9, MarksStay
  <2> QED
    BY <2>3, <2>5, <2>7, <2>10 DEF RevisionInv
<1> QED
  BY <1>2, <1>3 DEF PictureArrives

LEMMA InsertCandidateSafe ==
  ASSUME RevisionInv, Recorded, UNCHANGED apart, InsertCandidate
  PROVE  RevisionInv'
<1> DEFINE s == "worker"
           d == desk[s]
           x == [at |-> "inserted", job |-> d.job]
           row == [status |-> "candidate", parent |-> derived[d.job].source]
<1>1. /\ s \in Sides /\ s \in Processes /\ d.at = "bumped" /\ desk' = [desk EXCEPT ![s] = x]
      /\ rev' = [rev EXCEPT ![d.number] = row]
      /\ UNCHANGED <<formal, head, deletedRow, derived, falls, lost>>
  BY DEF InsertCandidate, At, Processes
<1>2. desk'[s] = x /\ \A t \in Processes : t # s => desk'[t] = desk[t]
  BY <1>1, DeskMoves DEF RevisionInv, DesksTell
<1>3. /\ d.number \in Revisions /\ d.job \in DeriveJobs /\ Status(d.number) = "none"
      /\ d.number <= head /\ (~apart => ~deletedRow)
  BY <1>1 DEF RevisionInv, DesksTell, DeskHolds, DeskTells
<1>4. /\ rev' \in [Revisions -> [status : Statuses, parent : 0 .. MaxHead]]
      /\ rev'[d.number].status = "candidate"
      /\ \A q \in Revisions : q # d.number => rev'[q].status = Status(q)
  <2>1. row \in [status : Statuses, parent : 0 .. MaxHead]
    BY <1>3 DEF RevisionInv, RevisionTypes, Statuses
  <2>2. row.status = "candidate"
    OBVIOUS
  <2> HIDE DEF row, d
  <2> QED
    BY <1>1, <1>3, <2>1, <2>2 DEF RevisionInv, RevisionTypes, Status
<1>5. RevisionTypes'
  BY <1>1, <1>4 DEF RevisionInv, RevisionTypes
<1>6. Onward /\ Filling(s) /\ Unused'
  <2>1. head' \in Nat /\ head <= head'
    BY <1>1, Counts
  <2>2. \A r \in Revisions : r > head => r # d.number
    BY <1>3, Counts, Parts
  <2> QED
    BY <1>1, <1>3, <1>4, <2>1, <2>2 DEF Onward, Filling, Status, RevisionInv, Unused
<1>7. DesksTell'
  <2>1. DeskHolds(s)' /\ DeskTells(s)'
    BY <1>2, <1>3 DEF DeskHolds, DeskTells
  <2> QED
    BY <1>1, <1>6, <2>1, OneDeskMoves
<1>8. PointerIsFormal'
  <2> SUFFICES ASSUME formal # 0  PROVE PointerIsFormal'
    BY <1>1 DEF PointerIsFormal
  <2>1. formal \in Revisions
    BY Parts, RevisionAssumption DEF Revisions
  <2>2. formal # d.number
    BY <1>3 DEF RevisionInv, PointerIsFormal
  <2>3. rev'[formal].status = Status(formal)
    BY <1>4, <2>1, <2>2
  <2>4. \A t \in Sides : UnderWay(t) => UnderWay(t)'
    BY <1>1, <1>2 DEF UnderWay, Sides, Processes
  <2> QED
    BY <1>1, <2>3, <2>4 DEF RevisionInv, PointerIsFormal, Status, Sides
<1>9. OneFormal'
  BY <1>1, <1>4 DEF RevisionInv, OneFormal, Status
<1>10. GoneForGood'
  BY <1>1, <1>3, <1>4 DEF RevisionInv, GoneForGood, Recorded
<1> QED
  BY <1>5, <1>6, <1>7, <1>8, <1>9, <1>10 DEF RevisionInv

LEMMA BeginDeletionSafe ==
  ASSUME RevisionInv, Recorded, UNCHANGED apart, NEW s \in Processes, BeginDeletion(s)
  PROVE  RevisionInv'
<1> DEFINE x == [at |-> "deleting"]
<1>1. /\ s \in Sides /\ desk[s].at = "free" /\ desk' = [desk EXCEPT ![s] = x] /\ deletedRow' = TRUE
      /\ UNCHANGED <<formal, head, rev, derived, falls, lost>>
  BY DEF BeginDeletion, At
<1>2. desk'[s] = x /\ \A t \in Processes : t # s => desk'[t] = desk[t]
  BY <1>1, DeskMoves DEF RevisionInv, DesksTell
<1>3. RevisionTypes'
  BY <1>1 DEF RevisionInv, RevisionTypes
<1>4. Onward /\ Filling(s) /\ Unused'
  <2>1. head' \in Nat /\ head <= head'
    BY <1>1, Counts
  <2> QED
    BY <1>1, <2>1 DEF Onward, Filling, Status, RevisionInv, Unused
<1>5. DesksTell'
  <2>1. DeskHolds(s)' /\ DeskTells(s)'
    BY <1>1, <1>2 DEF DeskHolds, DeskTells, Sides
  <2> QED
    BY <1>1, <1>4, <2>1, OneDeskMoves
<1>6. PointerIsFormal'
  <2>1. \A t \in Sides : UnderWay(t) => UnderWay(t)'
    BY <1>1, <1>2 DEF UnderWay, Sides, Processes
  <2> QED
    BY <1>1, <2>1 DEF RevisionInv, PointerIsFormal, Status, Sides
<1>7. OneFormal'
  BY <1>1 DEF OneFormal
<1>8. GoneForGood'
  BY <1>1 DEF RevisionInv, GoneForGood, Recorded, Status
<1> QED
  BY <1>3, <1>4, <1>5, <1>6, <1>7, <1>8 DEF RevisionInv

LEMMA DeletionClearsSafe ==
  ASSUME RevisionInv, Recorded, UNCHANGED apart, NEW s \in Processes, DeletionClears(s)
  PROVE  RevisionInv'
<1> DEFINE x == [at |-> "wiping", rest |-> Existing]
<1>1. /\ s \in Sides /\ desk[s].at = "deleting" /\ desk' = [desk EXCEPT ![s] = x] /\ formal' = 0
      /\ UNCHANGED <<head, rev, deletedRow, derived, falls, lost>>
  BY DEF DeletionClears, At
<1>2. desk'[s] = x /\ deletedRow
  BY <1>1, DeskMoves DEF RevisionInv, DesksTell, DeskTells
<1>3. RevisionTypes'
  <2>1. formal' \in 0 .. MaxHead
    BY <1>1, RevisionAssumption
  <2> QED
    BY <1>1, <2>1 DEF RevisionInv, RevisionTypes
<1>4. Onward /\ Filling(s) /\ Unused'
  BY <1>1, Stays
<1>5. DesksTell'
  <2>1. DeskHolds(s)'
    BY <1>2 DEF DeskHolds, Existing
  <2>2. DeskTells(s)'
    BY <1>1, <1>2 DEF DeskTells, Existing, Status, Sides
  <2> QED
    BY <1>1, <1>4, <2>1, <2>2, OneDeskMoves
<1>6. PointerIsFormal'
  BY <1>1 DEF PointerIsFormal
<1>7. OneFormal'
  BY <1>1, <1>2 DEF OneFormal
<1>8. GoneForGood'
  <2>1. 0 \notin Revisions
    BY RevisionAssumption DEF Revisions
  <2> QED
    BY <1>1, <2>1 DEF RevisionInv, GoneForGood, Recorded, Status
<1> QED
  BY <1>3, <1>4, <1>5, <1>6, <1>7, <1>8 DEF RevisionInv

LEMMA DeletionRetiresSafe ==
  ASSUME RevisionInv, Recorded, UNCHANGED apart, NEW s \in Processes, DeletionRetires(s)
  PROVE  RevisionInv'
<1>1. /\ s \in Sides /\ desk[s].at = "wiping"
      /\ UNCHANGED <<formal, head, deletedRow, derived, falls, lost>>
  BY DEF DeletionRetires, At
<1>2. /\ desk[s] = [at |-> "wiping", rest |-> desk[s].rest] /\ desk[s].rest \subseteq Revisions
      /\ \A q \in desk[s].rest : Status(q) # "none"
      /\ deletedRow /\ DOMAIN desk = Processes
  BY <1>1 DEF RevisionInv, DesksTell, DeskHolds, DeskTells
<1>3. PICK r \in desk[s].rest : /\ rev' = [rev EXCEPT ![r].status = "retired"]
                               /\ desk' = [desk EXCEPT ![s].rest = @ \ {r}]
  BY DEF DeletionRetires
<1> DEFINE left == desk[s].rest \ {r}
           x == [at |-> "wiping", rest |-> left]
<1>4. desk' = [desk EXCEPT ![s] = x]
  <2>1. [desk[s] EXCEPT !.rest = left] = x
    BY <1>2
  <2>2. desk' = [desk EXCEPT ![s] = [desk[s] EXCEPT !.rest = left]]
    BY <1>3
  <2> QED
    BY <2>1, <2>2
<1>5. desk'[s] = x /\ \A t \in Processes : t # s => desk'[t] = desk[t]
  BY <1>2, <1>4, DeskMoves
<1>6. /\ r \in Revisions /\ Status(r) # "none"
      /\ rev' \in [Revisions -> [status : Statuses, parent : 0 .. MaxHead]]
      /\ rev'[r].status = "retired"
      /\ \A q \in Revisions : q # r => rev'[q].status = Status(q)
  BY <1>2, <1>3, Marked DEF Statuses, Status
<1>7. RevisionTypes'
  BY <1>1, <1>6 DEF RevisionInv, RevisionTypes
<1>8. Onward /\ Filling(s) /\ Unused'
  <2>1. head' \in Nat /\ head <= head'
    BY <1>1, Counts
  <2> QED
    BY <1>1, <1>6, <2>1 DEF Onward, Filling, Status, RevisionInv, Unused
<1>9. DesksTell'
  <2>1. DeskHolds(s)'
    BY <1>2, <1>5 DEF DeskHolds
  <2>2. \A q \in left : rev'[q].status # "none"
    BY <1>2, <1>6
  <2>3. DeskTells(s)'
    BY <1>1, <1>2, <1>5, <2>2 DEF DeskTells, Status, Sides
  <2> QED
    BY <1>1, <1>4, <1>8, <2>1, <2>3, OneDeskMoves
<1>10. PointerIsFormal'
  <2>1. \A t \in Sides : UnderWay(t) => UnderWay(t)'
    BY <1>1, <1>5 DEF UnderWay, Sides, Processes
  <2>2. formal # 0 => formal \in Revisions
    BY Parts, RevisionAssumption DEF Revisions
  <2>3. UnderWay(s)'
    BY <1>5 DEF UnderWay
  <2>4. CASE formal = r
    BY <1>1, <1>6, <2>3, <2>4 DEF PointerIsFormal, Status, Sides
  <2>5. CASE formal # r
    BY <1>1, <1>6, <2>1, <2>2, <2>5 DEF RevisionInv, PointerIsFormal, Status, Sides
  <2> QED
    BY <2>4, <2>5
<1>11. OneFormal'
  BY <1>1, <1>2 DEF OneFormal
<1>12. GoneForGood'
  BY <1>1, <1>6 DEF RevisionInv, GoneForGood, Recorded
<1> QED
  BY <1>7, <1>8, <1>9, <1>10, <1>11, <1>12 DEF RevisionInv

LEMMA ScrubSafe ==
  ASSUME RevisionInv, Recorded, UNCHANGED apart, NEW s \in Processes, Scrub(s)
  PROVE  RevisionInv'
<1>1. /\ s \in Sides /\ desk[s].at = "wiping" /\ desk' = [desk EXCEPT ![s] = AtDesk]
      /\ rev' = [r \in Revisions |-> IF r \in Existing THEN [rev[r] EXCEPT !.status = "retired"]
                                     ELSE rev[r]]
      /\ formal' = (IF formal \in Existing THEN 0 ELSE formal)
      /\ UNCHANGED <<head, deletedRow, derived, falls, lost>>
  BY DEF Scrub, At, Leave
<1>2. deletedRow /\ desk'[s] = AtDesk
  BY <1>1, DeskMoves DEF RevisionInv, DesksTell, DeskTells
<1>3. formal' = 0
  <2>1. formal # 0 => formal \in Revisions
    BY Parts, RevisionAssumption DEF Revisions
  <2> QED
    BY <1>1, <2>1 DEF RevisionInv, PointerIsFormal, Existing
<1>4. /\ rev' \in [Revisions -> [status : Statuses, parent : 0 .. MaxHead]]
      /\ \A q \in Revisions : rev'[q].status = IF Status(q) = "none" THEN "none" ELSE "retired"
  BY <1>1 DEF RevisionInv, RevisionTypes, Existing, Statuses, Status
<1>5. RevisionTypes'
  <2>1. formal' \in 0 .. MaxHead
    BY <1>3, RevisionAssumption
  <2> QED
    BY <1>1, <1>4, <2>1 DEF RevisionInv, RevisionTypes
<1>6. Onward /\ Filling(s) /\ Unused'
  <2>1. head' \in Nat /\ head <= head'
    BY <1>1, Counts
  <2> QED
    BY <1>1, <1>4, <2>1 DEF Onward, Filling, Status, RevisionInv, Unused
<1>7. DesksTell'
  <2>1. DeskHolds(s)' /\ DeskTells(s)'
    BY <1>2 DEF DeskHolds, DeskTells, AtDesk
  <2> QED
    BY <1>1, <1>6, <2>1, OneDeskMoves
<1>8. PointerIsFormal' /\ OneFormal'
  BY <1>1, <1>2, <1>3 DEF PointerIsFormal, OneFormal
<1>9. GoneForGood'
  <2>1. 0 \notin Revisions
    BY RevisionAssumption DEF Revisions
  <2> QED
    BY <1>3, <1>4, <2>1 DEF RevisionInv, GoneForGood, Recorded
<1> QED
  BY <1>5, <1>6, <1>7, <1>8, <1>9 DEF RevisionInv

LEMMA FallsSafe ==
  ASSUME RevisionInv, Recorded, UNCHANGED apart, NEW s \in Processes, Falls(s)
  PROVE  RevisionInv'
<1>1. /\ s \in Sides /\ desk' = [desk EXCEPT ![s] = AtDesk] /\ falls' = falls + 1
      /\ UNCHANGED <<formal, head, rev, deletedRow, lost>>
  BY DEF Falls, Leave
<1>2. desk'[s] = AtDesk
  BY <1>1, DeskMoves DEF RevisionInv, DesksTell
<1>3. falls' \in Nat /\ falls <= falls' /\ falls' > 0
  BY <1>1, Counts
<1>4. RevisionTypes'
  <2>1. derived' \in [DeriveJobs -> [state : {"none", "under way", "done", "over"},
                                     source : 0 .. MaxHead, redo : BOOLEAN]]
    BY DEF Falls, RevisionInv, RevisionTypes
  <2> QED
    BY <1>1, <1>3, <2>1 DEF RevisionInv, RevisionTypes
<1>5. Onward /\ Filling(s) /\ Unused'
  BY <1>1, Stays
<1>6. DesksTell'
  <2>1. DeskHolds(s)' /\ DeskTells(s)'
    BY <1>2 DEF DeskHolds, DeskTells, AtDesk
  <2> QED
    BY <1>1, <1>5, <2>1, OneDeskMoves
<1>7. PointerIsFormal' /\ OneFormal' /\ GoneForGood'
  BY <1>1, <1>3, MarksStay
<1> QED
  BY <1>4, <1>5, <1>6, <1>7 DEF RevisionInv

-----------------------------------------------------------------------------
LEMMA RevisionsStart == RevisionInit => RevisionInv
<1> SUFFICES ASSUME RevisionInit  PROVE RevisionInv
  OBVIOUS
<1>1. RevisionTypes
  <2>1. formal \in 0 .. MaxHead /\ head \in 0 .. MaxHead /\ falls \in Nat /\ 0 \in 0 .. MaxHead
    BY RevisionAssumption DEF RevisionInit
  <2> QED
    BY <2>1 DEF RevisionInit, RevisionTypes, NoRevision, NoDerivation, Statuses
<1>2. DesksTell
  BY DEF RevisionInit, DesksTell, DeskHolds, DeskTells, AtDesk, Processes
<1>3. Unused /\ PointerIsFormal /\ OneFormal /\ GoneForGood
  BY DEF RevisionInit, Unused, PointerIsFormal, OneFormal, GoneForGood, NoRevision, Status
<1> QED
  BY <1>1, <1>2, <1>3 DEF RevisionInv

LEMMA RevisionsStep == RevisionInv /\ [RevisionNext]_revisionVars => RevisionInv'
<1> SUFFICES ASSUME RevisionInv, [RevisionNext]_revisionVars  PROVE RevisionInv'
  OBVIOUS
<1>1. CASE UNCHANGED revisionVars
  <2>1. RevisionTypes' /\ Unused'
    BY <1>1 DEF revisionVars, RevisionInv, RevisionTypes, Unused, Status
  <2>2. DesksTell'
    BY <1>1 DEF revisionVars, RevisionInv, DesksTell, DeskHolds, DeskTells, Status
  <2>3. PointerIsFormal'
    BY <1>1 DEF revisionVars, RevisionInv, PointerIsFormal, Status, UnderWay, Sides
  <2>4. OneFormal' /\ GoneForGood'
    BY <1>1 DEF revisionVars, RevisionInv, OneFormal, GoneForGood, Status
  <2> QED
    BY <2>1, <2>2, <2>3, <2>4 DEF RevisionInv
<1>2. CASE RevisionNext
  <2>1. RevisionStep /\ UNCHANGED apart /\ Recorded
    BY <1>2 DEF RevisionNext, Recorded
  <2>2. ASSUME NEW s \in Processes,
               \/ BeginStage(s) \/ StageDraft(s)
               \/ \E r \in Revisions : \E expected \in 0 .. Missing : Activate(s, r, expected)
               \/ ActivateStaged(s) \/ WriteActivation(s)
        PROVE  RevisionInv'
    BY <2>1, <2>2, BeginStageSafe, StageDraftSafe, ActivateSafe, ActivateStagedSafe,
       WriteActivationSafe
  <2>3. ASSUME NEW s \in Processes,
               \/ \E r \in Revisions : Retire(s, r)
               \/ RetireLooks(s) \/ RetireClears(s)
               \/ \E r \in Revisions : \E redo \in BOOLEAN : BeginDerive(s, r, redo)
               \/ BindDerivation(s)
        PROVE  RevisionInv'
    BY <2>1, <2>3, RetireSafe, RetireLooksSafe, RetireClearsSafe, BeginDeriveSafe,
       BindDerivationSafe
  <2>4. ASSUME NEW s \in Processes,
               \/ BeginDeletion(s) \/ DeletionClears(s) \/ DeletionRetires(s) \/ Scrub(s)
               \/ Falls(s)
        PROVE  RevisionInv'
    BY <2>1, <2>4, BeginDeletionSafe, DeletionClearsSafe, DeletionRetiresSafe, ScrubSafe, FallsSafe
  <2>5. ASSUME NEW j \in DeriveJobs, PictureArrives(j) \/ DerivationFails(j)
        PROVE  RevisionInv'
    BY <2>1, <2>5, PictureArrivesSafe, DerivationFailsSafe
  <2>6. CASE AutoDerive \/ InsertCandidate \/ MarkDerived
    BY <2>1, <2>6, AutoDeriveSafe, InsertCandidateSafe, MarkDerivedSafe
  <2> QED
    BY <2>1, <2>2, <2>3, <2>4, <2>5, <2>6 DEF RevisionStep, Processes
<1> QED
  BY <1>1, <1>2

(* What TLC checks of a few revisions: the pointer and the marks of a profile agree in every
   interleaving of two processes' commits and deaths, and what is gone stays gone. *)
THEOREM RevisionsKept == RevisionSpec => []RevisionSafety
<1>1. RevisionInv => RevisionSafety
  <2> SUFFICES ASSUME RevisionInv  PROVE RevisionTyped
    BY DEF RevisionInv, RevisionSafety
  <2>1. /\ \A r \in Revisions : Status(r) \in Statuses
        /\ \A j \in DeriveJobs : derived[j].state \in {"none", "under way", "done", "over"}
    BY DEF RevisionInv, RevisionTypes, Status
  <2>2. formal \in 0 .. MaxHead /\ head \in 0 .. MaxHead /\ deletedRow \in BOOLEAN
    BY DEF RevisionInv, RevisionTypes
  <2> QED
    BY <2>1, <2>2 DEF RevisionTyped, Statuses
<1> QED
  BY RevisionsStart, RevisionsStep, <1>1, PTL DEF RevisionSpec

-----------------------------------------------------------------------------
(* Memory units.                                                           *)

(* The units us show the unit id, in the user's words if own. *)
Traces(us, id, own) == \E u \in us : (u.id = id /\ (own => u.own)) \/ id \in u.was

(* Whatever the units old cover and show, new does. *)
Carries(new, old) ==
  /\ SourcesOf(new) = SourcesOf(old)
  /\ \A id : \A own \in BOOLEAN : Traces(old, id, own) => Traces(new, id, own)

(* Units made from the first m messages, with the first n ids. *)
Known(us, m, n) == us \subseteq Unit /\ \A u \in us : u.id \in 1 .. n /\ u.src \subseteq 1 .. m

Sorts(d, m, n) == Known(d.kept, m, n) /\ Known(d.left, m, n)

Writing == {"deciding", "applying"}

Grown(m, n, win, snap, us, todos, traces, cur, over) ==
  /\ m \in 0 .. MaxMessages /\ n \in 0 .. MaxUnits
  /\ win \subseteq 1 .. m /\ snap \subseteq 1 .. m /\ Known(us, m, n)
  /\ todos \subseteq 1 .. n /\ traces \subseteq [id : 1 .. n, own : BOOLEAN]
  /\ cur \subseteq Parties /\ over = [units |-> over.units, messages |-> over.messages]

(* The sources of are those seen, but for what was overtaken and what a    *)
(* deletion took away.                                                     *)
Fits(of, seen, missing, over) ==
  /\ SourcesOf(seen) \subseteq of \cup over.messages
  /\ of \subseteq SourcesOf(seen) \cup missing \cup over.messages

CacheTells(c, seen, missing, over, m) ==
  c \in [loaded : BOOLEAN, of : SUBSET (1 .. m)] /\ (c.loaded => Fits(c.of, seen, missing, over))

NoneLost(m, win, seen, missing, over) ==
  \A i \in 1 .. m : i \in win \cup SourcesOf(seen) \cup missing \cup over.messages
AllTraced(traces, seen, over) == \A t \in traces : t.id \in over.units \/ Shows(seen, t)

(* Of a unit that is in hand, the worker's up-to-date copies miss nothing. *)
HandTells(us, seen, cur, over) ==
  cur \cap {"task", "load"} # {} => SourcesOf(seen) \subseteq SourcesOf(us) \cup over.messages

KeeperRecords ==
  {AtRest} \cup [at : {"asking"}, batch : SUBSET Messages]
  \cup [at : {"waiting"}, batch : SUBSET Messages, made : SUBSET Unit]
  \cup [at : {"deciding"}, batch : SUBSET Messages, made : SUBSET Unit, kept : SUBSET Unit,
        left : SUBSET Unit]

(* The keeper's batch is on no unit; its copy, while it is up to date,     *)
(* carries the file and the new units.                                     *)
KeeperTells(k, us, seen, cur, over, m, n) ==
  /\ k \in KeeperRecords
  /\ k.at # "rest" => /\ k.batch \subseteq 1 .. m /\ Cardinality(k.batch) \in MinBatch .. MaxBatch
                      /\ k.batch \cap SourcesOf(seen) \subseteq over.messages
  /\ k.at \in {"waiting", "deciding"} =>
       Known(k.made, m, n) /\ \A u \in k.made : u.src \subseteq k.batch
  /\ k.at = "deciding" =>
       Sorts(k, m, n) /\ ("task" \in cur => Carries(k.kept \cup k.left, us \cup k.made))

ClerkRecords ==
  [at : {"rest", "announced", "applying"}]
  \cup [at : {"scanning"}, seen : SUBSET Unit, kept : SUBSET Unit, left : SUBSET Unit]
  \cup [at : {"deciding"}, kept : SUBSET Unit, left : SUBSET Unit]

ClerkTells(c, j, us, cur, m, n) ==
  /\ c \in ClerkRecords
  /\ c.at = "scanning" =>
       Known(c.seen, m, n) /\ Sorts(c, m, n) /\ Carries(c.kept \cup c.left, c.seen)
  /\ c.at = "deciding" =>
       Sorts(c, m, n) /\ ("task" \in cur => Carries(c.kept \cup c.left, us))
  /\ c.at = "applying" => ("task" \in cur => j.report.seen = us)

JobRecords ==
  [request : {"none", "scan", "apply"},
   status : {"idle", "queued", "scanning", "ready", "applying", "completed", "stale", "failed"},
   report : [seen : SUBSET Unit, final : SUBSET Unit]]

(* A report carries what it has seen. *)
JobTells(j, m, n) ==
  /\ j \in JobRecords
  /\ Known(j.report.seen, m, n) /\ Known(j.report.final, m, n)
  /\ Carries(j.report.final, j.report.seen)

SyncRecords == {AtRest} \cup [at : {"loading"}, units : SUBSET Unit]
               \cup [at : {"adding"}, id : UnitIds, units : SUBSET Unit]

SyncTells(s, us, seen, cur, missing, over, m, n) ==
  /\ s \in SyncRecords
  /\ s.at # "rest" => Known(s.units, m, n)
  /\ s.at = "loading" =>
       Fits(SourcesOf(s.units), seen, missing, over) /\ ("load" \in cur => s.units = us)
  /\ s.at = "adding" => /\ s.id \in 1 .. n /\ Traces(s.units, s.id, FALSE)
                        /\ "task" \in cur => Carries(s.units, us)

WebRecords ==
  [at : {"rest", "queuing"}]
  \cup [at : {"open"}, id : UnitIds, units : SUBSET Unit, gone : SUBSET Unit]
  \cup [at : {"removing"}, units : SUBSET Unit, unit : Unit] \cup [at : {"half"}, unit : Unit]
  \cup [at : {"reopened"}, unit : Unit, units : SUBSET Unit]
  \cup [at : {"noting"}, id : UnitIds, had : SUBSET UnitIds]

(* An edit of an up-to-date copy keeps everything but what it deletes. *)
Edits(w, us) ==
  /\ SourcesOf(w.units) \subseteq SourcesOf(us)
  /\ SourcesOf(us) \subseteq SourcesOf(w.units) \cup SourcesOf(w.gone)
  /\ \A id : \A own \in BOOLEAN :
       Traces(us, id, own) => Traces(w.units, id, own) \/ \E u \in w.gone : id \in {u.id} \cup u.was

WebTells(w, us, cur, m, n) ==
  /\ w \in WebRecords
  /\ w.at = "open" => /\ w.id \in 1 .. n /\ Known(w.units, m, n) /\ ("web" \in cur => Edits(w, us))
                      /\ w.gone = {} => Traces(w.units, w.id, TRUE)
  /\ w.at \in {"removing", "half", "reopened"} =>
       w.unit.id \in 1 .. n /\ w.unit.src \subseteq 1 .. m /\ w.unit.own
  /\ w.at \in {"removing", "reopened"} => Known(w.units, m, n)
  /\ w.at = "removing" => ("web" \in cur => Carries(w.units \cup {w.unit}, us))
  /\ w.at = "reopened" => w.unit \in w.units /\ ("web" \in cur => w.units = us \cup {w.unit})
  /\ w.at = "noting" => w.id \in 1 .. n /\ w.had \subseteq 1 .. n

RebuildTells(r, us, cur, m, n) ==
  /\ r \in [at : {"rest", "told"}] \cup [at : {"embedding"}, units : SUBSET Unit]
  /\ r.at = "embedding" => Known(r.units, m, n) /\ ("rebuild" \in cur => r.units = us)

OneWriter(k, c, s) ==
  /\ k.at = "deciding" => c.at \notin Writing /\ s.at # "adding"
  /\ c.at \in Writing => s.at # "adding"

MemoryInv ==
  /\ Grown(arrived, issued, window, snapshot, unitFile, todo, traced, current, overtaken)
  /\ CacheTells(covered, Shown, dropped, overtaken, arrived)
  /\ NoneLost(arrived, window, Shown, dropped, overtaken)
  /\ AllTraced(traced, Shown, overtaken)
  /\ HandTells(unitFile, Shown, current, overtaken)
  /\ KeeperTells(keeper, unitFile, Shown, current, overtaken, arrived, issued)
  /\ ClerkTells(clerk, job, unitFile, current, arrived, issued)
  /\ JobTells(job, arrived, issued)
  /\ SyncTells(sync, unitFile, Shown, current, dropped, overtaken, arrived, issued)
  /\ WebTells(web, unitFile, current, arrived, issued)
  /\ RebuildTells(rebuild, unitFile, current, arrived, issued)
  /\ OneWriter(keeper, clerk, sync)

LEMMA MemoryInvPrimed ==
  ASSUME Grown(arrived', issued', window', snapshot', unitFile', todo', traced', current', overtaken'),
         CacheTells(covered', Shown', dropped', overtaken', arrived'),
         NoneLost(arrived', window', Shown', dropped', overtaken'),
         AllTraced(traced', Shown', overtaken'),
         HandTells(unitFile', Shown', current', overtaken'),
         KeeperTells(keeper', unitFile', Shown', current', overtaken', arrived', issued'),
         ClerkTells(clerk', job', unitFile', current', arrived', issued'),
         JobTells(job', arrived', issued'),
         SyncTells(sync', unitFile', Shown', current', dropped', overtaken', arrived', issued'),
         WebTells(web', unitFile', current', arrived', issued'),
         RebuildTells(rebuild', unitFile', current', arrived', issued'),
         OneWriter(keeper', clerk', sync')
  PROVE  MemoryInv'
BY DEF MemoryInv

-----------------------------------------------------------------------------
(* What a verdict keeps. *)

LEMMA SourceIs == ASSUME NEW us, NEW i PROVE i \in SourcesOf(us) <=> \E u \in us : i \in u.src
BY DEF SourcesOf

LEMMA SourcesSame ==
  ASSUME NEW new, NEW old,
         \A i : (\E u \in new : i \in u.src) <=> (\E u \in old : i \in u.src)
  PROVE  SourcesOf(new) = SourcesOf(old)
<1>1. ASSUME NEW i PROVE i \in SourcesOf(new) <=> i \in SourcesOf(old)
  BY SourceIs
<1> QED
  BY <1>1, Zenon

LEMMA SourcesBoth ==
  ASSUME NEW us, NEW vs PROVE SourcesOf(us \cup vs) = SourcesOf(us) \cup SourcesOf(vs)
BY SourceIs

LEMMA SourcesKnown ==
  ASSUME NEW us, NEW m, NEW n, Known(us, m, n) PROVE SourcesOf(us) \subseteq 1 .. m
BY SourceIs DEF Known

LEMMA ShowsTraces == ASSUME NEW us, NEW t PROVE Shows(us, t) <=> Traces(us, t.id, t.own)
BY DEF Shows, Traces

LEMMA CarriesItself == ASSUME NEW us PROVE Carries(us, us)
BY DEF Carries

LEMMA CarriesOn ==
  ASSUME NEW a, NEW b, NEW c, Carries(a, b), Carries(b, c) PROVE Carries(a, c)
BY DEF Carries

LEMMA CarriesBeside ==
  ASSUME NEW a, NEW b, NEW us, Carries(a, b) PROVE Carries(a \cup us, b \cup us)
<1>1. SourcesOf(a \cup us) = SourcesOf(b \cup us)
  <2>1. SourcesOf(a) = SourcesOf(b)
    BY DEF Carries
  <2>2. SourcesOf(a \cup us) = SourcesOf(a) \cup SourcesOf(us)
    BY SourcesBoth
  <2>3. SourcesOf(b \cup us) = SourcesOf(b) \cup SourcesOf(us)
    BY SourcesBoth
  <2> QED
    BY <2>1, <2>2, <2>3
<1>2. ASSUME NEW id, NEW own \in BOOLEAN, Traces(b \cup us, id, own) PROVE Traces(a \cup us, id, own)
  <2>1. Traces(b, id, own) \/ Traces(us, id, own)
    BY <1>2 DEF Traces
  <2>2. Traces(a, id, own) \/ Traces(us, id, own)
    BY <2>1 DEF Carries
  <2> QED
    BY <2>2 DEF Traces
<1> QED
  BY <1>1, <1>2 DEF Carries

LEMMA KnownGrows ==
  ASSUME NEW us, NEW m \in Nat, NEW n \in Nat, Known(us, m, n),
         NEW p \in Nat, NEW q \in Nat, m <= p, n <= q
  PROVE  Known(us, p, q)
<1>1. 1 .. m \subseteq 1 .. p /\ 1 .. n \subseteq 1 .. q
  OBVIOUS
<1> QED
  BY <1>1 DEF Known

LEMMA MergedIs ==
  ASSUME NEW t \in Unit, NEW u \in Unit
  PROVE  /\ Merged(t, u) \in Unit /\ Merged(t, u).id = u.id /\ Merged(t, u).own = u.own
         /\ Merged(t, u).src = u.src \cup t.src
         /\ Merged(t, u).was = u.was \cup t.was \cup {t.id}
BY DEF Merged, Unit

LEMMA VerdictCarries ==
  ASSUME NEW m, NEW n, NEW kept, NEW left, Known(kept, m, n), Known(left, m, n),
         NEW u \in left, NEW new \in Verdicts(kept, u)
  PROVE  Known(new, m, n) /\ Carries(new \cup (left \ {u}), kept \cup left)
<1>1. CASE new = kept \cup {u}
  <2>1. new \cup (left \ {u}) = kept \cup left /\ Known(new, m, n)
    BY <1>1 DEF Known
  <2> QED
    BY <2>1, CarriesItself
<1>2. ASSUME NEW t \in kept, new = (kept \ {t}) \cup {Merged(t, u)}
      PROVE  Known(new, m, n) /\ Carries(new \cup (left \ {u}), kept \cup left)
  <2>1. t \in Unit /\ u \in Unit
    BY DEF Known
  <2>2. PICK v : v = Merged(t, u)
    OBVIOUS
  <2>3. /\ v \in Unit /\ v.id = u.id /\ v.own = u.own
        /\ v.src = u.src \cup t.src /\ v.was = u.was \cup t.was \cup {t.id}
    BY <2>1, <2>2, MergedIs
  <2>4. new = (kept \ {t}) \cup {v}
    BY <1>2, <2>2
  <2>5. Known(new, m, n)
    BY <2>3, <2>4 DEF Known
  <2>6. SourcesOf(new \cup (left \ {u})) = SourcesOf(kept \cup left)
    BY <2>3, <2>4, SourcesSame
  <2>7. ASSUME NEW id, NEW own \in BOOLEAN, NEW x \in kept \cup left,
               (x.id = id /\ (own => x.own)) \/ id \in x.was
        PROVE  Traces(new \cup (left \ {u}), id, own)
    <3>1. CASE x = t \/ x = u
      BY <2>3, <2>4, <2>7, <3>1 DEF Traces
    <3>2. CASE x # t /\ x # u
      BY <2>4, <2>7, <3>2 DEF Traces
    <3> QED
      BY <3>1, <3>2
  <2> QED
    BY <2>5, <2>6, <2>7 DEF Carries, Traces
<1> QED
  BY <1>1, <1>2 DEF Verdicts

(* A record with a place for what is kept and one for what is left. *)
HasPlaces(pad) ==
  \A kept, left : LET new == [pad EXCEPT !.kept = kept, !.left = left] IN
                  new.kept = kept /\ new.left = left

Moved(new, pad) == \E kept, left : new = [pad EXCEPT !.kept = kept, !.left = left]

LEMMA JudgedDesk ==
  ASSUME NEW m, NEW n, NEW pad, Sorts(pad, m, n), HasPlaces(pad), NEW new \in Judged(pad)
  PROVE  /\ Sorts(new, m, n) /\ Carries(new.kept \cup new.left, pad.kept \cup pad.left)
         /\ Moved(new, pad)
<1>u. PICK u \in pad.left : \E kept \in Verdicts(pad.kept, u) :
        new = [pad EXCEPT !.kept = kept, !.left = @ \ {u}]
  BY DEF Judged, Oldest
<1>1. PICK kept \in Verdicts(pad.kept, u) : new = [pad EXCEPT !.kept = kept, !.left = @ \ {u}]
  BY <1>u
<1>2. new = [pad EXCEPT !.kept = kept, !.left = pad.left \ {u}]
  BY <1>1
<1>3. new.kept = kept /\ new.left = pad.left \ {u}
  BY <1>2 DEF HasPlaces
<1>4. Known(kept, m, n) /\ Carries(kept \cup (pad.left \ {u}), pad.kept \cup pad.left)
  BY VerdictCarries DEF Sorts
<1>5. Known(pad.left \ {u}, m, n)
  BY DEF Sorts, Known
<1> QED
  BY <1>2, <1>3, <1>4, <1>5 DEF Sorts, Moved

-----------------------------------------------------------------------------
(* What stays true when time goes on, ids are given, and the file gets     *)
(* other units.                                                            *)

(* Time goes on, and what was lost stays lost. *)
Ages ==
  /\ arrived \in Nat /\ arrived' \in Nat /\ issued \in Nat /\ issued' \in Nat
  /\ arrived <= arrived' /\ issued <= issued' /\ dropped \subseteq dropped'
  /\ overtaken.units \subseteq overtaken'.units /\ overtaken.messages \subseteq overtaken'.messages

(* What is seen covers the same messages but for those that were lost. *)
Passes ==
  /\ SourcesOf(Shown) \subseteq SourcesOf(Shown') \cup dropped' \cup overtaken'.messages
  /\ SourcesOf(Shown') \subseteq SourcesOf(Shown) \cup overtaken'.messages

(* A party whose copy is up to date after the step had it before it. *)
Unmoved(who) == who \in current' => who \in current /\ unitFile' = unitFile

LEMMA FitsOn ==
  ASSUME Ages, Passes, NEW of, Fits(of, Shown, dropped, overtaken)
  PROVE  Fits(of, Shown', dropped', overtaken')
BY DEF Ages, Passes, Fits

LEMMA CacheStays ==
  ASSUME MemoryInv, Ages, Passes, UNCHANGED covered
  PROVE  CacheTells(covered', Shown', dropped', overtaken', arrived')
<1>1. 1 .. arrived \subseteq 1 .. arrived'
  BY DEF Ages
<1>2. covered' \in [loaded : BOOLEAN, of : SUBSET (1 .. arrived')]
  BY <1>1 DEF MemoryInv, CacheTells
<1>3. covered'.loaded => Fits(covered'.of, Shown', dropped', overtaken')
  BY FitsOn DEF MemoryInv, CacheTells
<1> QED
  BY <1>2, <1>3 DEF CacheTells

LEMMA NoneLostStays ==
  ASSUME MemoryInv, Ages, Passes, UNCHANGED <<arrived, window>>
  PROVE  NoneLost(arrived', window', Shown', dropped', overtaken')
BY DEF MemoryInv, Ages, Passes, NoneLost

LEMMA HandStays ==
  ASSUME MemoryInv, Ages, Passes, Unmoved("task"), Unmoved("load")
  PROVE  HandTells(unitFile', Shown', current', overtaken')
BY DEF MemoryInv, Ages, Passes, HandTells, Unmoved

LEMMA KeeperStays ==
  ASSUME MemoryInv, Ages, Passes, Unmoved("task"), UNCHANGED keeper
  PROVE  KeeperTells(keeper', unitFile', Shown', current', overtaken', arrived', issued')
<1>0. KeeperTells(keeper, unitFile, Shown, current, overtaken, arrived, issued)
  BY DEF MemoryInv
<1>1. keeper.at = "deciding" => Sorts(keeper, arrived', issued')
  BY <1>0, KnownGrows DEF KeeperTells, Sorts, Ages
<1>2. keeper.at \in {"waiting", "deciding"} => Known(keeper.made, arrived', issued')
  BY <1>0, KnownGrows DEF KeeperTells, Ages
<1>3. 1 .. arrived \subseteq 1 .. arrived'
  BY DEF Ages
<1>4. keeper.at # "rest" => keeper.batch \cap SourcesOf(Shown') \subseteq overtaken'.messages
  BY <1>0 DEF KeeperTells, Ages, Passes
<1>5. keeper.at = "deciding" /\ "task" \in current' =>
        Carries(keeper.kept \cup keeper.left, unitFile' \cup keeper.made)
  BY <1>0 DEF KeeperTells, Unmoved
<1> QED
  BY <1>0, <1>1, <1>2, <1>3, <1>4, <1>5 DEF KeeperTells

LEMMA ClerkStays ==
  ASSUME MemoryInv, Ages, Unmoved("task"), UNCHANGED clerk, job'.report = job.report
  PROVE  ClerkTells(clerk', job', unitFile', current', arrived', issued')
<1>0. ClerkTells(clerk, job, unitFile, current, arrived, issued)
  BY DEF MemoryInv
<1>1. clerk.at \in {"scanning", "deciding"} => Sorts(clerk, arrived', issued')
  BY <1>0, KnownGrows DEF ClerkTells, Sorts, Ages
<1>2. clerk.at = "scanning" => Known(clerk.seen, arrived', issued')
  BY <1>0, KnownGrows DEF ClerkTells, Ages
<1> QED
  BY <1>0, <1>1, <1>2 DEF ClerkTells, Unmoved

LEMMA JobStays ==
  ASSUME MemoryInv, Ages, job' \in JobRecords, job'.report = job.report
  PROVE  JobTells(job', arrived', issued')
<1>1. Known(job.report.seen, arrived', issued') /\ Known(job.report.final, arrived', issued')
  BY KnownGrows DEF MemoryInv, JobTells, Ages
<1> QED
  BY <1>1 DEF MemoryInv, JobTells

LEMMA SyncStays ==
  ASSUME MemoryInv, Ages, Passes, Unmoved("task"), Unmoved("load"), UNCHANGED sync
  PROVE  SyncTells(sync', unitFile', Shown', current', dropped', overtaken', arrived', issued')
<1>0. SyncTells(sync, unitFile, Shown, current, dropped, overtaken, arrived, issued)
  BY DEF MemoryInv
<1>1. sync.at # "rest" => Known(sync.units, arrived', issued')
  BY <1>0, KnownGrows DEF SyncTells, Ages
<1>2. sync.at = "loading" => Fits(SourcesOf(sync.units), Shown', dropped', overtaken')
  BY <1>0, FitsOn DEF SyncTells
<1>3. 1 .. issued \subseteq 1 .. issued'
  BY DEF Ages
<1> QED
  BY <1>0, <1>1, <1>2, <1>3 DEF SyncTells, Unmoved

LEMMA WebStays ==
  ASSUME MemoryInv, Ages, Unmoved("web"), UNCHANGED web
  PROVE  WebTells(web', unitFile', current', arrived', issued')
<1>0. WebTells(web, unitFile, current, arrived, issued)
  BY DEF MemoryInv
<1>1. web.at \in {"open", "removing", "reopened"} => Known(web.units, arrived', issued')
  BY <1>0, KnownGrows DEF WebTells, Ages
<1>2. 1 .. issued \subseteq 1 .. issued' /\ 1 .. arrived \subseteq 1 .. arrived'
  BY DEF Ages
<1> QED
  BY <1>0, <1>1, <1>2 DEF WebTells, Unmoved

LEMMA RebuildStays ==
  ASSUME MemoryInv, Ages, Unmoved("rebuild"), UNCHANGED rebuild
  PROVE  RebuildTells(rebuild', unitFile', current', arrived', issued')
<1>0. RebuildTells(rebuild, unitFile, current, arrived, issued)
  BY DEF MemoryInv
<1>1. rebuild.at = "embedding" => Known(rebuild.units, arrived', issued')
  BY <1>0, KnownGrows DEF RebuildTells, Ages
<1> QED
  BY <1>0, <1>1 DEF RebuildTells, Unmoved

LEMMA NumbersIn ==
  ASSUME MemoryInv PROVE arrived \in Nat /\ issued \in Nat /\ Known(unitFile, arrived, issued)
BY MemoryAssumption DEF MemoryInv, Grown

LEMMA OthersIn ==
  ASSUME MemoryInv
  PROVE  /\ keeper.at \in {"rest", "asking", "waiting", "deciding"}
         /\ clerk.at \in {"rest", "scanning", "announced", "applying", "deciding"}
         /\ sync.at \in {"rest", "loading", "adding"} /\ rebuild.at \in {"rest", "embedding", "told"}
         /\ web.at \in {"rest", "queuing", "open", "removing", "half", "reopened", "noting"}
<1>1. /\ keeper \in KeeperRecords /\ clerk \in ClerkRecords /\ web \in WebRecords /\ sync \in SyncRecords
      /\ rebuild \in [at : {"rest", "told"}] \cup [at : {"embedding"}, units : SUBSET Unit]
  BY DEF MemoryInv, KeeperTells, ClerkTells, WebTells, SyncTells, RebuildTells
<1> QED
  BY <1>1 DEF KeeperRecords, ClerkRecords, WebRecords, SyncRecords, AtRest

(* Parties at rest tell nothing. *)
LEMMA RestTells ==
  ASSUME NEW us, NEW seen, NEW cur, NEW missing, NEW over, NEW j, NEW m, NEW n
  PROVE  /\ KeeperTells(AtRest, us, seen, cur, over, m, n) /\ ClerkTells(AtRest, j, us, cur, m, n)
         /\ SyncTells(AtRest, us, seen, cur, missing, over, m, n) /\ WebTells(AtRest, us, cur, m, n)
         /\ RebuildTells(AtRest, us, cur, m, n)
         /\ \A k, c, s : OneWriter(k, c, s) =>
              OneWriter(AtRest, c, s) /\ OneWriter(k, AtRest, s) /\ OneWriter(k, c, AtRest)
<1>1. AtRest.at = "rest" /\ AtRest \in KeeperRecords /\ AtRest \in ClerkRecords
      /\ AtRest \in SyncRecords /\ AtRest \in WebRecords /\ AtRest \in [at : {"rest", "told"}]
  BY DEF AtRest, KeeperRecords, ClerkRecords, SyncRecords, WebRecords
<1> QED
  BY <1>1 DEF KeeperTells, ClerkTells, SyncTells, WebTells, RebuildTells, OneWriter, Writing

-----------------------------------------------------------------------------
(* Steps that leave the file alone. *)

LEMMA ShownStays == ASSUME UNCHANGED <<unitFile, web>> PROVE UNCHANGED Shown
BY DEF Shown, InHand

LEMMA Still ==
  ASSUME MemoryInv, UNCHANGED <<unitFile, current, overtaken>>, UNCHANGED Shown,
         arrived' \in Nat, issued' \in Nat, arrived <= arrived', issued <= issued',
         dropped \subseteq dropped'
  PROVE  Ages /\ Passes /\ \A who \in Parties : Unmoved(who)
BY NumbersIn DEF Ages, Passes, Unmoved

LEMMA GrownStays ==
  ASSUME MemoryInv, UNCHANGED <<arrived, window, snapshot, todo, traced>>,
         issued' \in 0 .. MaxUnits, issued <= issued', Known(unitFile', arrived', issued'),
         current' \subseteq Parties,
         overtaken' = [units |-> overtaken'.units, messages |-> overtaken'.messages]
  PROVE  Grown(arrived', issued', window', snapshot', unitFile', todo', traced', current', overtaken')
<1>1. 1 .. issued \subseteq 1 .. issued' 
  BY NumbersIn
<1>2. traced \subseteq [id : 1 .. issued', own : BOOLEAN]
  BY <1>1 DEF MemoryInv, Grown
<1> QED
  BY <1>1, <1>2 DEF MemoryInv, Grown

LEMMA MemoryInitSafe == ASSUME MemoryInit PROVE MemoryInv
<1>0. /\ arrived = 0 /\ window = {} /\ snapshot = {} /\ covered = NotLoaded
      /\ keeper = AtRest /\ clerk = AtRest /\ sync = AtRest /\ web = AtRest /\ rebuild = AtRest
      /\ job = NoJob /\ todo = {} /\ issued = 0 /\ traced = {} /\ unitFile = {} /\ current = {}
      /\ overtaken = [units |-> {}, messages |-> {}]
  BY DEF MemoryInit
<1>1. AtRest.at = "rest"
  BY DEF AtRest
<1>2. Known({}, 0, 0)
  BY DEF Known
<1>3. Grown(arrived, issued, window, snapshot, unitFile, todo, traced, current, overtaken)
  BY <1>0, <1>2, MemoryAssumption DEF Grown
<1>4. CacheTells(covered, Shown, dropped, overtaken, arrived)
  BY <1>0 DEF CacheTells, NotLoaded
<1>5. /\ NoneLost(arrived, window, Shown, dropped, overtaken) /\ AllTraced(traced, Shown, overtaken)
      /\ HandTells(unitFile, Shown, current, overtaken)
  BY <1>0 DEF NoneLost, AllTraced, HandTells
<1>6. JobTells(job, arrived, issued)
  <2>1. /\ NoJob \in JobRecords /\ NoJob.report.seen = {} /\ NoJob.report.final = {}
    BY DEF NoJob, NoReport, JobRecords
  <2> QED
    BY <1>0, <1>2, <2>1, CarriesItself DEF JobTells
<1>7. OneWriter(keeper, clerk, sync)
  BY <1>0, <1>1 DEF OneWriter, Writing
<1> QED
  BY <1>0, <1>3, <1>4, <1>5, <1>6, <1>7, RestTells DEF MemoryInv

LEMMA ArriveSafe == ASSUME MemoryInv, Arrive PROVE MemoryInv'
<1>1. /\ arrived < MaxMessages /\ arrived' = arrived + 1 /\ window' = window \cup {arrived + 1}
      /\ UNCHANGED <<snapshot, unitFile, covered, keeper, clerk, sync, job, todo, web, rebuild,
                     issued, traced, dropped, current, overtaken>>
  BY DEF Arrive, taskVars, webVars, historyVars, fileVars
<1>2. /\ arrived \in Nat /\ arrived' \in Nat /\ issued' \in Nat /\ issued \in Nat
      /\ arrived <= arrived' /\ issued <= issued' /\ 1 .. arrived' = 1 .. arrived \cup {arrived + 1}
  BY <1>1, NumbersIn
<1>3. UNCHANGED Shown
  BY <1>1, ShownStays
<1>4. Ages /\ Passes /\ Unmoved("task") /\ Unmoved("load") /\ Unmoved("web") /\ Unmoved("rebuild")
  BY <1>1, <1>2, <1>3, Still DEF Parties
<1>5. Grown(arrived', issued', window', snapshot', unitFile', todo', traced', current', overtaken')
  <2>1. Known(unitFile, arrived', issued')
    BY <1>1, <1>2, KnownGrows, NumbersIn
  <2> QED
    BY <1>1, <1>2, <2>1, MemoryAssumption DEF MemoryInv, Grown
<1>6. NoneLost(arrived', window', Shown', dropped', overtaken')
  BY <1>1, <1>2, <1>3 DEF MemoryInv, NoneLost
<1>7. AllTraced(traced', Shown', overtaken') /\ OneWriter(keeper', clerk', sync')
  BY <1>1, <1>3 DEF MemoryInv
<1>8. job' \in JobRecords /\ job'.report = job.report
  BY <1>1 DEF MemoryInv, JobTells
<1> QED
  BY <1>1, <1>4, <1>5, <1>6, <1>7, <1>8, CacheStays, HandStays, KeeperStays, ClerkStays, JobStays,
     SyncStays, WebStays, RebuildStays, MemoryInvPrimed

(* A batch is as large as it may be. *)
LEMMA FirstFew ==
  ASSUME NEW m \in Nat, NEW ms, ms \subseteq 1 .. m
  PROVE  Cardinality(First(ms)) \in Nat /\ Cardinality(First(ms)) <= MaxBatch
<1> DEFINE F == First(ms)
           Before(i) == {n \in ms : n < i}
           ago == {m - i : i \in F}
<1>1. F \subseteq ms /\ \A i \in F : Cardinality(Before(i)) < MaxBatch
  BY DEF First
<1>2. IsFiniteSet(ms)
  BY FS_Interval, FS_Subset, 1 \in Int, m \in Int
<1>3. IsFiniteSet(F) /\ Cardinality(F) \in Nat
  BY <1>1, <1>2, FS_Subset, FS_CardinalityType
<1>4. CASE F = {}
  BY <1>4, FS_EmptySet, MemoryAssumption
<1>5. CASE F # {}
  <2>a. ASSUME NEW i \in F PROVE m - i \in Nat
    <3>1. i \in 1 .. m
      BY <1>1
    <3> QED
      BY <3>1
  <2>1. ago \subseteq Nat /\ ago # {}
    BY <1>5, <2>a
  <2>2. PICK x \in ago : \A y \in ago : ~ (<<y, x>> \in OpToRel(<, Nat))
    BY <2>1, NatLessThanWellFounded, WFMin
  <2>3. \A y \in ago : ~(y < x)
    BY <2>1, <2>2 DEF OpToRel
  <2>4. PICK i \in F : x = m - i
    OBVIOUS
  <2>5. ASSUME NEW j \in F PROVE j \in ms /\ j \in Nat /\ i \in Nat /\ j <= i
    <3>1. m - j \in ago /\ i \in 1 .. m /\ j \in 1 .. m /\ j \in ms
      BY <1>1, <2>4
    <3>2. ~(m - j < m - i)
      BY <2>3, <2>4, <3>1
    <3> QED
      BY <3>1, <3>2
  <2>6. F \ {i} \subseteq Before(i)
    BY <2>5
  <2>7. IsFiniteSet(Before(i)) /\ Cardinality(Before(i)) \in Nat
    BY <1>2, FS_Subset, FS_CardinalityType
  <2>8. Cardinality(F \ {i}) <= Cardinality(Before(i))
    BY <2>6, <2>7, FS_Subset
  <2>9. Cardinality(F \ {i}) = Cardinality(F) - 1
    BY <1>3, <2>4, FS_RemoveElement
  <2> QED
    BY <1>1, <1>3, <2>4, <2>7, <2>8, <2>9, MemoryAssumption
<1> QED
  BY <1>3, <1>4, <1>5

LEMMA StartSafe ==
  ASSUME MemoryInv, NEW idle \in BOOLEAN, NEW upTo \in Messages, StartCheckpoint(idle, upTo)
  PROVE  MemoryInv'
<1> DEFINE raw == window \ covered.of
           pool == {i \in Candidates(raw, idle) : i <= upTo}
           batch == First(pool)
<1>1. /\ window' = raw /\ covered.loaded /\ keeper.at = "rest"
      /\ keeper' = keeper \/ (Enough(batch) /\ keeper' = [at |-> "asking", batch |-> batch])
      /\ UNCHANGED <<arrived, snapshot, unitFile, covered, clerk, sync, job, todo, web, rebuild,
                     issued, traced, dropped, current, overtaken>>
  BY DEF StartCheckpoint, webVars, historyVars, fileVars
<1>2. arrived \in Nat /\ window \subseteq 1 .. arrived /\ arrived \in 0 .. MaxMessages
  BY NumbersIn DEF MemoryInv, Grown
<1>3. UNCHANGED Shown
  BY <1>1, ShownStays
<1>4. Fits(covered.of, Shown, dropped, overtaken)
  BY <1>1 DEF MemoryInv, CacheTells
<1>5. pool \subseteq raw
  BY DEF Candidates
<1>6. batch \subseteq raw /\ Cardinality(batch) \in Nat /\ Cardinality(batch) <= MaxBatch
  BY <1>2, <1>5, FirstFew DEF First
<1> HIDE DEF pool, batch
<1>7. Grown(arrived', issued', window', snapshot', unitFile', todo', traced', current', overtaken')
  BY <1>1, <1>2 DEF MemoryInv, Grown
<1>8. NoneLost(arrived', window', Shown', dropped', overtaken')
  BY <1>1, <1>3, <1>4 DEF MemoryInv, NoneLost, Fits
<1>9. KeeperTells(keeper', unitFile, Shown, current, overtaken, arrived, issued)
  <2>1. CASE keeper' = keeper
    BY <2>1 DEF MemoryInv
  <2>2. CASE Enough(batch) /\ keeper' = [at |-> "asking", batch |-> batch]
    <3>1. batch \in SUBSET Messages /\ batch \subseteq 1 .. arrived
      BY <1>2, <1>6, MemoryAssumption DEF Messages
    <3>2. Cardinality(batch) \in MinBatch .. MaxBatch
      BY <1>6, <2>2, MemoryAssumption DEF Enough
    <3>3. batch \cap SourcesOf(Shown) \subseteq overtaken.messages
      BY <1>4, <1>6 DEF Fits
    <3>4. keeper' \in KeeperRecords /\ keeper'.at = "asking" /\ keeper'.batch = batch
      BY <2>2, <3>1 DEF KeeperRecords
    <3> QED
      BY <3>1, <3>2, <3>3, <3>4 DEF KeeperTells
  <2> QED
    BY <1>1, <2>1, <2>2
<1>10. OneWriter(keeper', clerk', sync')
  BY <1>1 DEF MemoryInv, OneWriter
<1> QED
  BY <1>1, <1>3, <1>7, <1>8, <1>9, <1>10, MemoryInvPrimed DEF MemoryInv

LEMMA HearsSafe == ASSUME MemoryInv, KeeperHears PROVE MemoryInv'
<1>1. PICK k \in 1 .. 2 : \E made \in [1 .. k -> SUBSET keeper.batch \ {{}}] :
        /\ issued + k <= MaxUnits /\ issued' = issued + k
        /\ keeper' = [at |-> "waiting", batch |-> keeper.batch,
                      made |-> {[id |-> issued + i, src |-> made[i], was |-> {}, own |-> FALSE] :
                                 i \in 1 .. k}]
  BY DEF KeeperHears
<1>2. PICK made \in [1 .. k -> SUBSET keeper.batch \ {{}}] :
        /\ issued + k <= MaxUnits /\ issued' = issued + k
        /\ keeper' = [at |-> "waiting", batch |-> keeper.batch,
                      made |-> {[id |-> issued + i, src |-> made[i], was |-> {}, own |-> FALSE] :
                                 i \in 1 .. k}]
  BY <1>1
<1>3. /\ keeper.at = "asking"
      /\ UNCHANGED <<arrived, window, snapshot, unitFile, covered, clerk, sync, job, todo, web,
                     rebuild, traced, dropped, current, overtaken>>
  BY DEF KeeperHears, rawVars, webVars, fileVars
<1>4. /\ arrived \in Nat /\ issued \in Nat /\ issued' \in 0 .. MaxUnits /\ issued' \in Nat
      /\ issued <= issued' /\ arrived <= arrived' /\ arrived' \in Nat
  BY <1>2, <1>3, NumbersIn, MemoryAssumption
<1>s. UNCHANGED Shown
  BY <1>3, ShownStays
<1>t. Ages /\ Passes /\ Unmoved("task") /\ Unmoved("load") /\ Unmoved("web") /\ Unmoved("rebuild")
  BY <1>3, <1>4, <1>s, Still DEF Parties
<1> DEFINE units == {[id |-> issued + i, src |-> made[i], was |-> {}, own |-> FALSE] : i \in 1 .. k}
<1>5. /\ keeper \in KeeperRecords /\ keeper.batch \subseteq 1 .. arrived
      /\ Cardinality(keeper.batch) \in MinBatch .. MaxBatch
      /\ keeper.batch \cap SourcesOf(Shown) \subseteq overtaken.messages
  BY <1>3 DEF MemoryInv, KeeperTells
<1>6. keeper.batch \in SUBSET Messages
  BY <1>3, <1>5 DEF KeeperRecords, AtRest
<1>7. ASSUME NEW i \in 1 .. k
      PROVE  /\ [id |-> issued + i, src |-> made[i], was |-> {}, own |-> FALSE] \in Unit
             /\ issued + i \in 1 .. issued' /\ made[i] \subseteq keeper.batch
  <2>1. issued + i \in 1 .. issued' /\ issued + i \in UnitIds
    BY <1>2, <1>4, MemoryAssumption DEF UnitIds
  <2>2. made[i] \in SUBSET keeper.batch
    BY <1>2
  <2> QED
    BY <1>6, <2>1, <2>2 DEF Unit
<1>8. Known(units, arrived', issued') /\ \A u \in units : u.src \subseteq keeper.batch
  BY <1>3, <1>5, <1>7 DEF Known
<1> HIDE DEF units
<1>9. keeper' = [at |-> "waiting", batch |-> keeper.batch, made |-> units]
  BY <1>2 DEF units
<1>10. units \in SUBSET Unit
  BY <1>8 DEF Known
<1>11. /\ keeper' \in KeeperRecords /\ keeper'.at = "waiting" /\ keeper'.batch = keeper.batch
       /\ keeper'.made = units
  BY <1>6, <1>9, <1>10 DEF KeeperRecords
<1>12. KeeperTells(keeper', unitFile', Shown', current', overtaken', arrived', issued')
  BY <1>3, <1>5, <1>8, <1>11, <1>s DEF KeeperTells
<1>13. Grown(arrived', issued', window', snapshot', unitFile', todo', traced', current', overtaken')
  <2>1. Known(unitFile', arrived', issued')
    BY <1>3, <1>4, KnownGrows, NumbersIn
  <2>2. current' \subseteq Parties
        /\ overtaken' = [units |-> overtaken'.units, messages |-> overtaken'.messages]
    BY <1>3 DEF MemoryInv, Grown
  <2> QED
    BY <1>3, <1>4, <2>1, <2>2, GrownStays
<1>14. AllTraced(traced', Shown', overtaken')
  BY <1>3, <1>s DEF MemoryInv
<1>15. OneWriter(keeper', clerk', sync')
  BY <1>3, <1>11 DEF MemoryInv, OneWriter
<1>16. job' \in JobRecords /\ job'.report = job.report
  BY <1>3 DEF MemoryInv, JobTells
<1> QED
  BY <1>3, <1>t, <1>12, <1>13, <1>14, <1>15, <1>16, CacheStays, NoneLostStays, HandStays,
     ClerkStays, JobStays, SyncStays, WebStays, RebuildStays, MemoryInvPrimed

LEMMA HearsNothingSafe == ASSUME MemoryInv, KeeperHearsNothing PROVE MemoryInv'
<1>1. /\ keeper' = AtRest
      /\ UNCHANGED <<arrived, window, snapshot, unitFile, covered, clerk, sync, job, todo, web,
                     rebuild, issued, traced, dropped, current, overtaken>>
  BY DEF KeeperHearsNothing, webVars, historyVars, fileVars
<1>2. UNCHANGED Shown
  BY <1>1, ShownStays
<1>3. OneWriter(keeper', clerk', sync')
  BY <1>1, RestTells DEF MemoryInv
<1> QED
  BY <1>1, <1>2, <1>3, RestTells, MemoryInvPrimed DEF MemoryInv

LEMMA BackoffSafe == ASSUME MemoryInv, BackoffEnds PROVE MemoryInv'
<1>1. UNCHANGED <<arrived, window, snapshot, unitFile, covered, keeper, clerk, sync, job, todo, web,
                  rebuild, issued, traced, dropped, current, overtaken>>
  BY DEF BackoffEnds, taskVars, webVars, historyVars, fileVars
<1>2. UNCHANGED Shown
  BY <1>1, ShownStays
<1> QED
  BY <1>1, <1>2, MemoryInvPrimed DEF MemoryInv

LEMMA KeeperDecidesSafe == ASSUME MemoryInv, KeeperDecides PROVE MemoryInv'
<1>1. /\ keeper.at = "deciding" /\ keeper' \in Judged(keeper)
      /\ UNCHANGED <<arrived, window, snapshot, unitFile, covered, clerk, sync, job, todo, web,
                     rebuild, issued, traced, dropped, current, overtaken>>
  BY DEF KeeperDecides, rawVars, webVars, historyVars, fileVars
<1>0. KeeperTells(keeper, unitFile, Shown, current, overtaken, arrived, issued)
  BY DEF MemoryInv
<1>2. /\ keeper \in KeeperRecords /\ Sorts(keeper, arrived, issued)
      /\ "task" \in current => Carries(keeper.kept \cup keeper.left, unitFile \cup keeper.made)
  BY <1>0, <1>1 DEF KeeperTells
<1>3. keeper \in [at : {"deciding"}, batch : SUBSET Messages, made : SUBSET Unit,
                  kept : SUBSET Unit, left : SUBSET Unit]
  BY <1>1, <1>2 DEF KeeperRecords, AtRest
<1>p. HasPlaces(keeper)
  BY <1>3 DEF HasPlaces
<1>4. /\ Sorts(keeper', arrived, issued) /\ Moved(keeper', keeper)
      /\ Carries(keeper'.kept \cup keeper'.left, keeper.kept \cup keeper.left)
  BY <1>1, <1>2, <1>p, JudgedDesk
<1>5. PICK kept, left : keeper' = [keeper EXCEPT !.kept = kept, !.left = left]
  BY <1>4 DEF Moved
<1>6. keeper'.kept = kept /\ keeper'.left = left
  BY <1>3, <1>5
<1>7. kept \in SUBSET Unit /\ left \in SUBSET Unit
  BY <1>4, <1>6 DEF Sorts, Known
<1>8. /\ keeper' \in KeeperRecords /\ keeper'.at = "deciding"
      /\ keeper'.batch = keeper.batch /\ keeper'.made = keeper.made
  BY <1>3, <1>5, <1>7 DEF KeeperRecords
<1>c. "task" \in current => Carries(keeper'.kept \cup keeper'.left, unitFile \cup keeper.made)
  BY <1>2, <1>4, CarriesOn
<1>9. KeeperTells(keeper', unitFile, Shown, current, overtaken, arrived, issued)
  BY <1>0, <1>1, <1>4, <1>8, <1>c DEF KeeperTells
<1>10. OneWriter(keeper', clerk', sync')
  BY <1>1, <1>8 DEF MemoryInv, OneWriter
<1>11. UNCHANGED Shown
  BY <1>1, ShownStays
<1> QED
  BY <1>1, <1>9, <1>10, <1>11, MemoryInvPrimed DEF MemoryInv

-----------------------------------------------------------------------------
(* The dedupe worker. *)

LEMMA ScansSafe == ASSUME MemoryInv, ClerkScans PROVE MemoryInv'
<1>1. /\ clerk.at = "rest" /\ job.request = "scan"
      /\ job' = [request |-> "none", status |-> "scanning", report |-> NoReport]
      /\ clerk' = [at |-> "scanning", seen |-> unitFile, kept |-> {}, left |-> unitFile]
      /\ UNCHANGED <<arrived, window, snapshot, unitFile, covered, keeper, sync, todo, web,
                     rebuild, issued, traced, dropped, current, overtaken>>
  BY DEF ClerkScans, rawVars, historyVars, fileVars
<1>2. Known(unitFile, arrived, issued) /\ unitFile \in SUBSET Unit
  BY DEF MemoryInv, Grown, Known
<1>3. /\ clerk' \in ClerkRecords /\ clerk'.at = "scanning" /\ clerk'.seen = unitFile
      /\ clerk'.kept = {} /\ clerk'.left = unitFile
  BY <1>1, <1>2 DEF ClerkRecords
<1>4. {} \cup unitFile = unitFile /\ Known({}, arrived, issued)
  BY DEF Known
<1>5. Sorts(clerk', arrived, issued) /\ Carries(clerk'.kept \cup clerk'.left, unitFile)
  BY <1>2, <1>3, <1>4, CarriesItself DEF Sorts
<1>6. ClerkTells(clerk', job', unitFile', current', arrived', issued')
  BY <1>1, <1>2, <1>3, <1>5 DEF ClerkTells
<1>7. NoReport.seen = {} /\ NoReport.final = {}
  BY DEF NoReport
<1>8. job' \in JobRecords /\ job'.report.seen = {} /\ job'.report.final = {}
  BY <1>1, <1>7 DEF JobRecords, NoReport
<1>9. JobTells(job', arrived', issued')
  BY <1>1, <1>4, <1>8, CarriesItself DEF JobTells
<1>10. OneWriter(keeper', clerk', sync')
  BY <1>1 DEF MemoryInv, OneWriter, Writing
<1>11. UNCHANGED Shown
  BY <1>1, ShownStays
<1> QED
  BY <1>1, <1>6, <1>9, <1>10, <1>11, MemoryInvPrimed DEF MemoryInv

(* Of a job record, what a new status or a new request leaves. *)
LEMMA JobSame ==
  ASSUME NEW j \in JobRecords
  PROVE  /\ \A s \in {"idle", "queued", "scanning", "ready", "applying", "completed", "stale",
                      "failed"} :
              [j EXCEPT !.status = s] \in JobRecords /\ [j EXCEPT !.status = s].report = j.report
         /\ \A r \in {"none", "scan", "apply"} :
              [j EXCEPT !.request = r] \in JobRecords /\ [j EXCEPT !.request = r].report = j.report
BY DEF JobRecords

LEMMA ClerkDecidesSafe == ASSUME MemoryInv, ClerkDecides PROVE MemoryInv'
<1>1. /\ clerk.at \in {"scanning", "deciding"} /\ clerk' \in Judged(clerk)
      /\ job' = IF clerk.at = "scanning" THEN [job EXCEPT !.status = "scanning"] ELSE job
      /\ UNCHANGED <<arrived, window, snapshot, unitFile, covered, keeper, sync, todo, web,
                     rebuild, issued, traced, dropped, current, overtaken>>
  BY DEF ClerkDecides, rawVars, historyVars, fileVars
<1>2. clerk \in ClerkRecords /\ job \in JobRecords
      /\ ClerkTells(clerk, job, unitFile, current, arrived, issued)
  BY DEF MemoryInv, ClerkTells, JobTells
<1>s. UNCHANGED Shown
  BY <1>1, ShownStays
<1>j. job' \in JobRecords /\ job'.report = job.report
  BY <1>1, <1>2, JobSame
<1>k. JobTells(job', arrived', issued')
  BY <1>1, <1>j DEF MemoryInv, JobTells
<1>3. CASE clerk.at = "scanning"
  <2>1. /\ clerk \in [at : {"scanning"}, seen : SUBSET Unit, kept : SUBSET Unit, left : SUBSET Unit]
        /\ Known(clerk.seen, arrived, issued) /\ Sorts(clerk, arrived, issued)
        /\ Carries(clerk.kept \cup clerk.left, clerk.seen)
    BY <1>2, <1>3 DEF ClerkRecords, ClerkTells
  <2>p. HasPlaces(clerk)
    BY <2>1 DEF HasPlaces
  <2>2. /\ Sorts(clerk', arrived, issued) /\ Moved(clerk', clerk)
        /\ Carries(clerk'.kept \cup clerk'.left, clerk.kept \cup clerk.left)
    BY <1>1, <2>1, <2>p, JudgedDesk
  <2>3. PICK kept, left : clerk' = [clerk EXCEPT !.kept = kept, !.left = left]
    BY <2>2 DEF Moved
  <2>4. clerk'.kept = kept /\ clerk'.left = left
    BY <2>1, <2>3
  <2>5. kept \in SUBSET Unit /\ left \in SUBSET Unit
    BY <2>2, <2>4 DEF Sorts, Known
  <2>6. clerk' \in ClerkRecords /\ clerk'.at = "scanning" /\ clerk'.seen = clerk.seen
    BY <2>1, <2>3, <2>5 DEF ClerkRecords
  <2>c. Carries(clerk'.kept \cup clerk'.left, clerk.seen)
    BY <2>1, <2>2, CarriesOn
  <2>7. ClerkTells(clerk', job', unitFile', current', arrived', issued')
    BY <1>1, <2>1, <2>2, <2>6, <2>c DEF ClerkTells
  <2>8. OneWriter(keeper', clerk', sync')
    BY <1>1, <2>6 DEF MemoryInv, OneWriter, Writing
  <2> QED
    BY <1>1, <1>s, <1>k, <2>7, <2>8, MemoryInvPrimed DEF MemoryInv
<1>4. CASE clerk.at = "deciding"
  <2>1. /\ clerk \in [at : {"deciding"}, kept : SUBSET Unit, left : SUBSET Unit]
        /\ Sorts(clerk, arrived, issued)
        /\ "task" \in current => Carries(clerk.kept \cup clerk.left, unitFile)
    BY <1>2, <1>4 DEF ClerkRecords, ClerkTells
  <2>p. HasPlaces(clerk)
    BY <2>1 DEF HasPlaces
  <2>2. /\ Sorts(clerk', arrived, issued) /\ Moved(clerk', clerk)
        /\ Carries(clerk'.kept \cup clerk'.left, clerk.kept \cup clerk.left)
    BY <1>1, <2>1, <2>p, JudgedDesk
  <2>3. PICK kept, left : clerk' = [clerk EXCEPT !.kept = kept, !.left = left]
    BY <2>2 DEF Moved
  <2>4. clerk'.kept = kept /\ clerk'.left = left
    BY <2>1, <2>3
  <2>5. kept \in SUBSET Unit /\ left \in SUBSET Unit
    BY <2>2, <2>4 DEF Sorts, Known
  <2>6. clerk' \in ClerkRecords /\ clerk'.at = "deciding"
    BY <2>1, <2>3, <2>5 DEF ClerkRecords
  <2>c. "task" \in current => Carries(clerk'.kept \cup clerk'.left, unitFile)
    BY <2>1, <2>2, CarriesOn
  <2>7. ClerkTells(clerk', job', unitFile', current', arrived', issued')
    BY <1>1, <2>1, <2>2, <2>6, <2>c DEF ClerkTells
  <2>8. OneWriter(keeper', clerk', sync')
    BY <1>1, <1>4, <2>6 DEF MemoryInv, OneWriter
  <2> QED
    BY <1>1, <1>s, <1>k, <2>7, <2>8, MemoryInvPrimed DEF MemoryInv
<1> QED
  BY <1>1, <1>3, <1>4

LEMMA ReportsSafe == ASSUME MemoryInv, ClerkReports PROVE MemoryInv'
<1>1. /\ clerk.at = "scanning" /\ clerk' = AtRest
      /\ UNCHANGED <<arrived, window, snapshot, unitFile, covered, keeper, sync, todo, web,
                     rebuild, issued, traced, dropped, current, overtaken>>
  BY DEF ClerkReports, rawVars, historyVars, fileVars
<1>2. /\ clerk \in [at : {"scanning"}, seen : SUBSET Unit, kept : SUBSET Unit, left : SUBSET Unit]
      /\ Known(clerk.seen, arrived, issued) /\ Sorts(clerk, arrived, issued)
      /\ Carries(clerk.kept \cup clerk.left, clerk.seen) /\ job \in JobRecords
  BY <1>1 DEF ClerkRecords, MemoryInv, ClerkTells, JobTells
<1>3. JobTells(job', arrived', issued')
  <2>1. CASE job' = [job EXCEPT !.status = "failed"]
    <3>1. job' \in JobRecords /\ job'.report = job.report
      BY <1>2, <2>1, JobSame
    <3> QED
      BY <1>1, <3>1 DEF MemoryInv, JobTells
  <2>2. CASE /\ clerk.left = {}
             /\ job' = [job EXCEPT !.status = "ready",
                                   !.report = [seen |-> clerk.seen, final |-> clerk.kept]]
    <3>1. clerk.kept \cup clerk.left = clerk.kept
      BY <2>2
    <3>2. Known(clerk.kept, arrived, issued) /\ Carries(clerk.kept, clerk.seen)
      BY <1>2, <3>1 DEF Sorts
    <3>3. /\ job' \in JobRecords /\ job'.report.seen = clerk.seen /\ job'.report.final = clerk.kept
      BY <1>2, <2>2 DEF JobRecords
    <3> QED
      BY <1>1, <1>2, <3>2, <3>3 DEF JobTells
  <2> QED
    BY <2>1, <2>2 DEF ClerkReports
<1>4. ClerkTells(clerk', job', unitFile', current', arrived', issued')
      /\ OneWriter(keeper', clerk', sync')
  BY <1>1, RestTells DEF MemoryInv
<1>5. UNCHANGED Shown
  BY <1>1, ShownStays
<1> QED
  BY <1>1, <1>3, <1>4, <1>5, MemoryInvPrimed DEF MemoryInv

LEMMA AnnouncesSafe == ASSUME MemoryInv, ClerkAnnounces PROVE MemoryInv'
<1>1. /\ clerk.at = "rest" /\ job' = [job EXCEPT !.request = "none", !.status = "applying"]
      /\ clerk' = [at |-> "announced"]
      /\ UNCHANGED <<arrived, window, snapshot, unitFile, covered, keeper, sync, todo, web,
                     rebuild, issued, traced, dropped, current, overtaken>>
  BY DEF ClerkAnnounces, rawVars, historyVars, fileVars
<1>2. job' \in JobRecords /\ job'.report = job.report
  BY <1>1 DEF MemoryInv, JobTells, JobRecords
<1>3. JobTells(job', arrived', issued')
  BY <1>1, <1>2 DEF MemoryInv, JobTells
<1>4. clerk' \in ClerkRecords /\ clerk'.at = "announced"
  BY <1>1 DEF ClerkRecords
<1>5. ClerkTells(clerk', job', unitFile', current', arrived', issued')
      /\ OneWriter(keeper', clerk', sync')
  BY <1>1, <1>4 DEF ClerkTells, MemoryInv, OneWriter, Writing
<1>6. UNCHANGED Shown
  BY <1>1, ShownStays
<1> QED
  BY <1>1, <1>3, <1>5, <1>6, MemoryInvPrimed DEF MemoryInv

LEMMA AskSafe == ASSUME MemoryInv, AskForScan \/ AskForApply \/ WebQueues PROVE MemoryInv'
<1>1. UNCHANGED <<arrived, window, snapshot, unitFile, covered, keeper, clerk, sync, todo, rebuild,
                  issued, traced, dropped, current, overtaken>>
  BY DEF AskForScan, AskForApply, WebQueues, rawVars, taskVars, fileVars, historyVars
<1>2. web' \in [at : {"rest", "queuing"}] /\ web.at \in {"rest", "queuing"}
  BY DEF AskForScan, AskForApply, WebQueues, AtRest
<1>3. UNCHANGED Shown
  BY <1>1, <1>2 DEF Shown, InHand
<1>4. \/ \E r \in {"none", "scan", "apply"} : job' = [job EXCEPT !.request = r]
      \/ job' = [job EXCEPT !.status = "queued"]
  BY DEF AskForScan, AskForApply, WebQueues
<1>5. job' \in JobRecords /\ job'.report = job.report
  BY <1>4, JobSame DEF MemoryInv, JobTells
<1>6. JobTells(job', arrived', issued')
      /\ ClerkTells(clerk', job', unitFile', current', arrived', issued')
  BY <1>1, <1>5 DEF MemoryInv, JobTells, ClerkTells
<1>7. WebTells(web', unitFile', current', arrived', issued')
  BY <1>2 DEF WebTells, WebRecords
<1> QED
  BY <1>1, <1>3, <1>6, <1>7, MemoryInvPrimed DEF MemoryInv

LEMMA ReloadSafe == ASSUME MemoryInv, Reload PROVE MemoryInv'
<1>1. /\ rebuild' = AtRest /\ covered' = NotLoaded
      /\ UNCHANGED <<arrived, window, snapshot, unitFile, keeper, clerk, sync, job, todo, web,
                     issued, traced, dropped, current, overtaken>>
  BY DEF Reload, rawVars, taskVars, historyVars, fileVars
<1>2. CacheTells(covered', Shown', dropped', overtaken', arrived')
  BY <1>1 DEF CacheTells, NotLoaded
<1>3. UNCHANGED Shown
  BY <1>1, ShownStays
<1> QED
  BY <1>1, <1>2, <1>3, RestTells, MemoryInvPrimed DEF MemoryInv

LEMMA NotesSafe == ASSUME MemoryInv, WebNotes PROVE MemoryInv'
<1>1. /\ web.at = "noting" /\ web' = AtRest
      /\ todo' \in {todo \cup {web.id}, web.had \cup {web.id}}
      /\ UNCHANGED <<arrived, window, snapshot, unitFile, covered, keeper, clerk, sync, job, rebuild,
                     issued, traced, dropped, current, overtaken>>
  BY DEF WebNotes, rawVars, taskVars, historyVars, fileVars
<1>2. web.id \in 1 .. issued /\ web.had \subseteq 1 .. issued
  BY <1>1 DEF MemoryInv, WebTells
<1>3. Grown(arrived', issued', window', snapshot', unitFile', todo', traced', current', overtaken')
  BY <1>1, <1>2 DEF MemoryInv, Grown
<1>4. UNCHANGED Shown
  BY <1>1 DEF Shown, InHand, AtRest
<1> QED
  BY <1>1, <1>3, <1>4, RestTells, MemoryInvPrimed DEF MemoryInv

LEMMA RestartSafe == ASSUME MemoryInv, Restart PROVE MemoryInv'
<1>1. /\ \/ snapshot' = window /\ window' = window /\ dropped' = dropped
         \/ /\ window' = snapshot /\ snapshot' = snapshot
            /\ dropped' = dropped \cup ((window \ snapshot) \ SourcesOf(unitFile))
      /\ covered' = NotLoaded /\ keeper' = AtRest /\ clerk' = AtRest /\ sync' = AtRest
      /\ UNCHANGED <<arrived, unitFile, job, todo, web, rebuild, issued, traced, current, overtaken>>
  BY DEF Restart, webVars, fileVars
<1>2. Grown(arrived', issued', window', snapshot', unitFile', todo', traced', current', overtaken')
  BY <1>1 DEF MemoryInv, Grown
<1>3. UNCHANGED Shown
  BY <1>1, ShownStays
<1>4. SourcesOf(unitFile) \subseteq SourcesOf(Shown)
  BY SourceIs DEF Shown
<1>5. NoneLost(arrived', window', Shown', dropped', overtaken')
  BY <1>1, <1>3, <1>4 DEF MemoryInv, NoneLost
<1>6. CacheTells(covered', Shown', dropped', overtaken', arrived')
  BY <1>1 DEF CacheTells, NotLoaded
<1>7. OneWriter(keeper', clerk', sync')
  BY <1>1, RestTells DEF MemoryInv
<1> QED
  BY <1>1, <1>2, <1>3, <1>5, <1>6, <1>7, RestTells, MemoryInvPrimed DEF MemoryInv

-----------------------------------------------------------------------------
(* Readers of the unit file.                                               *)

(* Who reads is up to date; of a unit that is in hand his copy tells       *)
(* nothing, and that is remembered.                                        *)
LEMMA ReadTells ==
  ASSUME MemoryInv, NEW who \in Parties, Reads(who), UNCHANGED Shown,
         UNCHANGED <<arrived, dropped, traced>>, issued' \in Nat, issued <= issued'
  PROVE  /\ unitFile' = unitFile /\ Ages /\ Passes
         /\ \A p \in Parties : p # who => Unmoved(p)
         /\ HandTells(unitFile', Shown', current', overtaken')
         /\ AllTraced(traced', Shown', overtaken')
         /\ current' \subseteq Parties
         /\ overtaken' = [units |-> overtaken'.units, messages |-> overtaken'.messages]
<1>1. /\ unitFile' = unitFile /\ current' = current \cup {who}
      /\ overtaken' = [overtaken EXCEPT !.messages = overtaken.messages \cup SourcesOf(InHand)]
  BY DEF Reads
<1>2. overtaken = [units |-> overtaken.units, messages |-> overtaken.messages] /\ current \subseteq Parties
  BY DEF MemoryInv, Grown
<1>3. /\ overtaken'.units = overtaken.units
      /\ overtaken'.messages = overtaken.messages \cup SourcesOf(InHand)
      /\ overtaken' = [units |-> overtaken'.units, messages |-> overtaken'.messages]
  <2> DEFINE a == overtaken.units
             b == overtaken.messages
  <2>1. overtaken = [units |-> a, messages |-> b]
    BY <1>2
  <2> HIDE DEF a, b
  <2>2. overtaken.units = a /\ overtaken.messages = b
    BY <2>1
  <2>3. overtaken' = [units |-> a, messages |-> b \cup SourcesOf(InHand)]
    BY <1>1, <2>1, <2>2
  <2> QED
    BY <2>2, <2>3
<1>4. Ages
  BY <1>3, NumbersIn DEF Ages
<1>5. Passes
  BY DEF Passes
<1>6. \A p \in Parties : p # who => Unmoved(p)
  BY <1>1 DEF Unmoved
<1>7. SourcesOf(Shown) = SourcesOf(unitFile) \cup SourcesOf(InHand)
  BY SourcesBoth DEF Shown
<1>8. HandTells(unitFile', Shown', current', overtaken')
  BY <1>1, <1>3, <1>7 DEF HandTells
<1>9. AllTraced(traced', Shown', overtaken')
  BY <1>3 DEF MemoryInv, AllTraced
<1> QED
  BY <1>1, <1>2, <1>3, <1>4, <1>5, <1>6, <1>8, <1>9

LEMMA GroupLoadsSafe == ASSUME MemoryInv, sync.at = "rest", GroupLoads PROVE MemoryInv'
<1>1. /\ sync' = [at |-> "loading", units |-> unitFile] /\ Reads("load")
      /\ UNCHANGED <<arrived, window, snapshot, covered, keeper, clerk, job, todo, web, rebuild,
                     issued, traced, dropped, upsets>>
  BY DEF GroupLoads, rawVars, webVars, historyVars
<1>2. "load" \in Parties /\ unitFile' = unitFile
  BY <1>1 DEF Parties, Reads
<1>3. UNCHANGED Shown
  BY <1>1, <1>2, ShownStays
<1>4. /\ Ages /\ Passes /\ Unmoved("task") /\ Unmoved("web") /\ Unmoved("rebuild")
      /\ HandTells(unitFile', Shown', current', overtaken') /\ AllTraced(traced', Shown', overtaken')
      /\ current' \subseteq Parties
      /\ overtaken' = [units |-> overtaken'.units, messages |-> overtaken'.messages]
  <2>1. issued' \in Nat /\ issued <= issued'
    BY <1>1, NumbersIn
  <2> QED
    BY <1>1, <1>2, <1>3, <2>1, ReadTells DEF Parties
<1>5. Known(unitFile', arrived', issued') /\ issued' \in 0 .. MaxUnits /\ issued <= issued'
  BY <1>1, <1>2, NumbersIn DEF MemoryInv, Grown
<1>6. Grown(arrived', issued', window', snapshot', unitFile', todo', traced', current', overtaken')
  BY <1>1, <1>4, <1>5, GrownStays
<1>7. SyncTells(sync', unitFile', Shown', current', dropped', overtaken', arrived', issued')
  <2>1. sync' \in SyncRecords /\ sync'.at = "loading" /\ sync'.units = unitFile
    BY <1>1, <1>2, <1>5 DEF SyncRecords, Known
  <2>2. "load" \in current'
    BY <1>1 DEF Reads
  <2>3. SourcesOf(Shown') \subseteq SourcesOf(unitFile) \cup overtaken'.messages
    BY <1>2, <1>4, <2>2 DEF HandTells
  <2>4. SourcesOf(unitFile) \subseteq SourcesOf(Shown')
    BY <1>3, SourceIs DEF Shown
  <2>5. Fits(SourcesOf(unitFile), Shown', dropped', overtaken')
    BY <2>3, <2>4 DEF Fits
  <2> QED
    BY <1>2, <1>5, <2>1, <2>5 DEF SyncTells
<1>8. OneWriter(keeper', clerk', sync')
  BY <1>1 DEF MemoryInv, OneWriter
<1>9. job' \in JobRecords /\ job'.report = job.report
  BY <1>1 DEF MemoryInv, JobTells
<1> QED
  BY <1>1, <1>4, <1>6, <1>7, <1>8, <1>9, CacheStays, NoneLostStays, KeeperStays, ClerkStays,
     JobStays, WebStays, RebuildStays, MemoryInvPrimed

LEMMA AddUnitsSafe == ASSUME MemoryInv, sync.at = "rest", AddUnits PROVE MemoryInv'
<1> DEFINE v == [id |-> issued + 1, src |-> {}, was |-> {}, own |-> FALSE]
<1>1. /\ LockFree /\ issued < MaxUnits /\ issued' = issued + 1 /\ Reads("task")
      /\ sync' = [at |-> "adding", id |-> issued + 1, units |-> unitFile \cup {v}]
      /\ UNCHANGED <<arrived, window, snapshot, covered, keeper, clerk, job, todo, web, rebuild,
                     traced, dropped, upsets>>
  BY DEF AddUnits, rawVars, webVars
<1>2. "task" \in Parties /\ unitFile' = unitFile
  BY <1>1 DEF Parties, Reads
<1>3. UNCHANGED Shown
  BY <1>1, <1>2, ShownStays
<1>n. /\ issued' \in Nat /\ issued <= issued' /\ issued' \in 0 .. MaxUnits /\ issued' \in UnitIds
      /\ issued' \in 1 .. issued' /\ arrived \in Nat /\ issued \in Nat
  BY <1>1, NumbersIn, MemoryAssumption DEF UnitIds
<1>4. /\ Ages /\ Passes /\ Unmoved("load") /\ Unmoved("web") /\ Unmoved("rebuild")
      /\ HandTells(unitFile', Shown', current', overtaken') /\ AllTraced(traced', Shown', overtaken')
      /\ current' \subseteq Parties
      /\ overtaken' = [units |-> overtaken'.units, messages |-> overtaken'.messages]
  BY <1>1, <1>2, <1>3, <1>n, ReadTells DEF Parties
<1>5. Known(unitFile', arrived', issued')
  BY <1>1, <1>2, <1>n, NumbersIn, KnownGrows
<1>6. Grown(arrived', issued', window', snapshot', unitFile', todo', traced', current', overtaken')
  BY <1>1, <1>n, <1>4, <1>5, GrownStays
<1>v. v \in Unit /\ v.id = issued' /\ v.src = {} /\ v.was = {} /\ v.own = FALSE
  BY <1>1, <1>n DEF Unit
<1>s. sync' = [at |-> "adding", id |-> issued', units |-> unitFile \cup {v}]
  BY <1>1
<1> HIDE DEF v
<1>7. SyncTells(sync', unitFile', Shown', current', dropped', overtaken', arrived', issued')
  <2>1. Known(unitFile \cup {v}, arrived', issued')
    BY <1>2, <1>5, <1>n, <1>v DEF Known
  <2>2. /\ sync' \in SyncRecords /\ sync'.at = "adding" /\ sync'.id = issued'
        /\ sync'.units = unitFile \cup {v}
    BY <1>s, <1>n, <2>1 DEF SyncRecords, Known
  <2>3. Traces(unitFile \cup {v}, issued', FALSE)
    BY <1>v DEF Traces
  <2>4. Carries(unitFile \cup {v}, unitFile)
    <3>1. SourcesOf(unitFile \cup {v}) = SourcesOf(unitFile)
      BY <1>v, SourcesSame
    <3>2. \A id : \A own \in BOOLEAN : Traces(unitFile, id, own) => Traces(unitFile \cup {v}, id, own)
      BY DEF Traces
    <3> QED
      BY <3>1, <3>2 DEF Carries
  <2> QED
    BY <1>2, <1>n, <2>1, <2>2, <2>3, <2>4 DEF SyncTells
<1>k. KeeperTells(keeper', unitFile', Shown', current', overtaken', arrived', issued')
  <2>0. KeeperTells(keeper, unitFile, Shown, current, overtaken, arrived, issued)
    BY DEF MemoryInv
  <2>1. keeper.at # "deciding"
    BY <1>1 DEF LockFree
  <2>2. keeper.at = "waiting" => Known(keeper.made, arrived', issued')
    BY <1>1, <1>n, <2>0, KnownGrows DEF KeeperTells
  <2> QED
    BY <1>1, <1>2, <1>3, <1>4, <2>0, <2>1, <2>2 DEF KeeperTells, Ages
<1>c. ClerkTells(clerk', job', unitFile', current', arrived', issued')
  <2>0. ClerkTells(clerk, job, unitFile, current, arrived, issued)
    BY DEF MemoryInv
  <2>1. clerk.at \notin Writing
    BY <1>1 DEF LockFree, Writing
  <2>2. clerk.at = "scanning" => Known(clerk.seen, arrived', issued') /\ Sorts(clerk, arrived', issued')
    BY <1>1, <1>n, <2>0, KnownGrows DEF ClerkTells, Sorts
  <2> QED
    BY <1>1, <2>0, <2>1, <2>2 DEF ClerkTells, Writing
<1>8. OneWriter(keeper', clerk', sync')
  BY <1>1 DEF OneWriter, LockFree, Writing
<1>9. job' \in JobRecords /\ job'.report = job.report
  BY <1>1 DEF MemoryInv, JobTells
<1> QED
  BY <1>1, <1>4, <1>6, <1>7, <1>k, <1>c, <1>8, <1>9, CacheStays, NoneLostStays,
     JobStays, WebStays, RebuildStays, MemoryInvPrimed

LEMMA KeeperLoadsSafe == ASSUME MemoryInv, sync.at = "rest", KeeperLoads PROVE MemoryInv'
<1>1. /\ keeper.at = "waiting" /\ LockFree /\ Reads("task")
      /\ keeper' = [at |-> "deciding", batch |-> keeper.batch, made |-> keeper.made,
                    kept |-> unitFile, left |-> keeper.made]
      /\ UNCHANGED <<arrived, window, snapshot, covered, clerk, sync, job, todo, web, rebuild,
                     issued, traced, dropped, upsets>>
  BY DEF KeeperLoads, rawVars, webVars, historyVars
<1>2. "task" \in Parties /\ unitFile' = unitFile
  BY <1>1 DEF Parties, Reads
<1>3. UNCHANGED Shown
  BY <1>1, <1>2, ShownStays
<1>4. /\ Ages /\ Passes /\ Unmoved("load") /\ Unmoved("web") /\ Unmoved("rebuild")
      /\ HandTells(unitFile', Shown', current', overtaken') /\ AllTraced(traced', Shown', overtaken')
      /\ current' \subseteq Parties
      /\ overtaken' = [units |-> overtaken'.units, messages |-> overtaken'.messages]
  <2>1. issued' \in Nat /\ issued <= issued'
    BY <1>1, NumbersIn
  <2> QED
    BY <1>1, <1>2, <1>3, <2>1, ReadTells DEF Parties
<1>5. Known(unitFile', arrived', issued') /\ issued' \in 0 .. MaxUnits /\ issued <= issued'
  BY <1>1, <1>2, NumbersIn DEF MemoryInv, Grown
<1>6. Grown(arrived', issued', window', snapshot', unitFile', todo', traced', current', overtaken')
  BY <1>1, <1>4, <1>5, GrownStays
<1>7. KeeperTells(keeper', unitFile', Shown', current', overtaken', arrived', issued')
  <2>0. KeeperTells(keeper, unitFile, Shown, current, overtaken, arrived, issued)
    BY DEF MemoryInv
  <2>1. /\ keeper \in KeeperRecords /\ Known(keeper.made, arrived, issued)
        /\ \A u \in keeper.made : u.src \subseteq keeper.batch
        /\ keeper.batch \subseteq 1 .. arrived /\ Cardinality(keeper.batch) \in MinBatch .. MaxBatch
        /\ keeper.batch \cap SourcesOf(Shown) \subseteq overtaken.messages
    BY <1>1, <2>0 DEF KeeperTells
  <2>2. keeper.batch \in SUBSET Messages /\ keeper.made \in SUBSET Unit /\ unitFile \in SUBSET Unit
    BY <1>1, <1>2, <1>5, <2>1 DEF KeeperRecords, AtRest, Known
  <2>3. /\ keeper' \in KeeperRecords /\ keeper'.at = "deciding" /\ keeper'.batch = keeper.batch
        /\ keeper'.made = keeper.made /\ keeper'.kept = unitFile /\ keeper'.left = keeper.made
    BY <1>1, <2>2 DEF KeeperRecords
  <2>4. Sorts(keeper', arrived, issued)
        /\ Carries(keeper'.kept \cup keeper'.left, unitFile \cup keeper.made)
    BY <2>1, <2>3, CarriesItself, NumbersIn DEF Sorts
  <2> QED
    BY <1>1, <1>2, <1>3, <1>4, <2>1, <2>3, <2>4 DEF KeeperTells, Ages
<1>c. ClerkTells(clerk', job', unitFile', current', arrived', issued')
  <2>1. clerk.at \notin Writing
    BY <1>1 DEF LockFree, Writing
  <2> QED
    BY <1>1, <2>1 DEF MemoryInv, ClerkTells, Writing
<1>s. SyncTells(sync', unitFile', Shown', current', dropped', overtaken', arrived', issued')
  BY <1>1 DEF MemoryInv, SyncTells
<1>8. OneWriter(keeper', clerk', sync')
  BY <1>1 DEF MemoryInv, OneWriter, LockFree, Writing
<1>9. job' \in JobRecords /\ job'.report = job.report
  BY <1>1 DEF MemoryInv, JobTells
<1> QED
  BY <1>1, <1>4, <1>6, <1>7, <1>c, <1>s, <1>8, <1>9, CacheStays, NoneLostStays,
     JobStays, WebStays, RebuildStays, MemoryInvPrimed

(* The clerk takes the lock with a copy of the file, or with the report    *)
(* that matches it.                                                        *)
LEMMA ClerkTakesSafe ==
  ASSUME MemoryInv, sync.at = "rest", LockFree, clerk.at \in {"rest", "announced"}, Reads("task"),
         UNCHANGED <<arrived, window, snapshot, covered, keeper, sync, web, rebuild, issued, traced,
                     dropped>>,
         todo' \in {todo, {}}, JobTells(job', arrived', issued'),
         ClerkTells(clerk', job', unitFile, {"task"}, arrived, issued)
  PROVE  MemoryInv'
<1>2. "task" \in Parties /\ unitFile' = unitFile
  BY DEF Parties, Reads
<1>3. UNCHANGED Shown
  BY <1>2, ShownStays
<1>4. /\ Ages /\ Passes /\ Unmoved("load") /\ Unmoved("web") /\ Unmoved("rebuild")
      /\ HandTells(unitFile', Shown', current', overtaken') /\ AllTraced(traced', Shown', overtaken')
      /\ current' \subseteq Parties
      /\ overtaken' = [units |-> overtaken'.units, messages |-> overtaken'.messages]
  <2>1. issued' \in Nat /\ issued <= issued'
    BY NumbersIn
  <2> QED
    BY <1>2, <1>3, <2>1, ReadTells DEF Parties
<1>6. Grown(arrived', issued', window', snapshot', unitFile', todo', traced', current', overtaken')
  BY <1>2, <1>4 DEF MemoryInv, Grown
<1>k. KeeperTells(keeper', unitFile', Shown', current', overtaken', arrived', issued')
  <2>1. keeper.at # "deciding"
    BY DEF LockFree
  <2> QED
    BY <1>2, <1>3, <1>4, <2>1 DEF MemoryInv, KeeperTells, Ages
<1>c. ClerkTells(clerk', job', unitFile', current', arrived', issued')
  BY <1>2 DEF ClerkTells
<1>s. SyncTells(sync', unitFile', Shown', current', dropped', overtaken', arrived', issued')
  BY DEF MemoryInv, SyncTells
<1>8. OneWriter(keeper', clerk', sync')
  BY DEF OneWriter, LockFree
<1> QED
  BY <1>4, <1>6, <1>k, <1>c, <1>s, <1>8, CacheStays, NoneLostStays, WebStays, RebuildStays,
     MemoryInvPrimed

LEMMA ChecksSafe == ASSUME MemoryInv, sync.at = "rest", ClerkChecksReport PROVE MemoryInv'
<1>1. /\ clerk.at = "announced" /\ LockFree /\ Reads("task")
      /\ UNCHANGED <<arrived, window, snapshot, covered, keeper, sync, todo, web, rebuild, issued,
                     traced, dropped>>
  BY DEF ClerkChecksReport, rawVars, historyVars
<1>2. CASE job.report.seen = unitFile /\ clerk' = [at |-> "applying"] /\ job' = job
  <2>1. clerk' \in ClerkRecords /\ clerk'.at = "applying"
    BY <1>2 DEF ClerkRecords
  <2>2. ClerkTells(clerk', job', unitFile, {"task"}, arrived, issued)
    BY <1>2, <2>1 DEF ClerkTells
  <2>3. JobTells(job', arrived', issued')
    BY <1>1, <1>2 DEF MemoryInv
  <2> QED
    BY <1>1, <2>2, <2>3, ClerkTakesSafe
<1>3. CASE clerk' = AtRest /\ job' = [job EXCEPT !.status = "stale", !.report = NoReport]
  <2>1. ClerkTells(clerk', job', unitFile, {"task"}, arrived, issued)
    BY <1>3, RestTells
  <2>2. /\ job' \in JobRecords /\ job'.report.seen = {} /\ job'.report.final = {}
    BY <1>3 DEF MemoryInv, JobTells, JobRecords, NoReport
  <2>3. JobTells(job', arrived', issued')
    BY <2>2, CarriesItself DEF JobTells, Known
  <2> QED
    BY <1>1, <2>1, <2>3, ClerkTakesSafe
<1> QED
  BY <1>2, <1>3 DEF ClerkChecksReport, Fresh

LEMMA ClerkLoadsSafe == ASSUME MemoryInv, sync.at = "rest", ClerkLoads PROVE MemoryInv'
<1> DEFINE kept == {u \in unitFile : u.id \notin todo}
           left == {u \in unitFile : u.id \in todo}
<1>1. /\ clerk.at = "rest" /\ LockFree /\ Reads("task") /\ todo' = {}
      /\ clerk' = [at |-> "deciding", kept |-> kept, left |-> left]
      /\ UNCHANGED <<arrived, window, snapshot, covered, keeper, sync, job, web, rebuild, issued,
                     traced, dropped>>
  BY DEF ClerkLoads, rawVars, historyVars
<1>2. Known(unitFile, arrived, issued)
  BY NumbersIn
<1>3. Known(kept, arrived, issued) /\ Known(left, arrived, issued) /\ kept \cup left = unitFile
  BY <1>2 DEF Known
<1> HIDE DEF kept, left
<1>4. kept \in SUBSET Unit /\ left \in SUBSET Unit
  BY <1>3 DEF Known
<1>5. clerk' \in ClerkRecords /\ clerk'.at = "deciding" /\ clerk'.kept = kept /\ clerk'.left = left
  BY <1>1, <1>4 DEF ClerkRecords
<1>6. Sorts(clerk', arrived, issued) /\ Carries(clerk'.kept \cup clerk'.left, unitFile)
  BY <1>3, <1>5, CarriesItself DEF Sorts
<1>7. ClerkTells(clerk', job', unitFile, {"task"}, arrived, issued)
  BY <1>5, <1>6 DEF ClerkTells
<1>8. JobTells(job', arrived', issued')
  BY <1>1 DEF MemoryInv
<1> QED
  BY <1>1, <1>7, <1>8, ClerkTakesSafe

(* A reader of the web process: a handler that opens the file, or the      *)
(* rebuild.                                                                *)
LEMMA WebTakesSafe ==
  ASSUME MemoryInv, NEW who \in {"web", "rebuild"}, Reads(who),
         web.at \in {"rest", "queuing"} \/ web' = web,
         web'.at \in {"open", "removing"} \/ web' = web,
         UNCHANGED <<arrived, window, snapshot, covered, keeper, clerk, sync, job, todo, traced,
                     dropped>>,
         issued' \in 0 .. MaxUnits, issued <= issued',
         who = "web" => rebuild' = rebuild /\ WebTells(web', unitFile, current', arrived', issued'),
         who = "rebuild" => web' = web /\ RebuildTells(rebuild', unitFile, current', arrived', issued')
  PROVE  MemoryInv'
<1>2. who \in Parties /\ unitFile' = unitFile
  BY DEF Parties, Reads
<1>3. UNCHANGED Shown
  BY <1>2 DEF Shown, InHand
<1>n. issued' \in Nat /\ arrived \in Nat /\ issued \in Nat
  BY NumbersIn, MemoryAssumption
<1>4. /\ Ages /\ Passes /\ \A p \in Parties : p # who => Unmoved(p)
      /\ HandTells(unitFile', Shown', current', overtaken') /\ AllTraced(traced', Shown', overtaken')
      /\ current' \subseteq Parties
      /\ overtaken' = [units |-> overtaken'.units, messages |-> overtaken'.messages]
  BY <1>2, <1>3, <1>n, ReadTells
<1>m. Unmoved("task") /\ Unmoved("load")
  BY <1>4 DEF Parties
<1>5. Known(unitFile', arrived', issued')
  BY <1>2, <1>n, NumbersIn, KnownGrows
<1>6. Grown(arrived', issued', window', snapshot', unitFile', todo', traced', current', overtaken')
  BY <1>4, <1>5, GrownStays
<1>7. WebTells(web', unitFile', current', arrived', issued')
  <2>1. CASE who = "web"
    BY <1>2, <2>1
  <2>2. CASE who = "rebuild"
    <3>1. Unmoved("web")
      BY <1>4, <2>2 DEF Parties
    <3> QED
      BY <1>4, <2>2, <3>1, WebStays
  <2> QED
    BY <2>1, <2>2
<1>8. RebuildTells(rebuild', unitFile', current', arrived', issued')
  <2>1. CASE who = "rebuild"
    BY <1>2, <2>1
  <2>2. CASE who = "web"
    <3>1. Unmoved("rebuild")
      BY <1>4, <2>2 DEF Parties
    <3> QED
      BY <1>4, <2>2, <3>1, RebuildStays
  <2> QED
    BY <2>1, <2>2
<1>9. job' \in JobRecords /\ job'.report = job.report
  BY DEF MemoryInv, JobTells
<1>10. OneWriter(keeper', clerk', sync')
  BY DEF MemoryInv
<1> QED
  BY <1>4, <1>m, <1>6, <1>7, <1>8, <1>9, <1>10, CacheStays, NoneLostStays, KeeperStays, ClerkStays,
     JobStays, SyncStays, MemoryInvPrimed

LEMMA WebReadsSafe == ASSUME MemoryInv, WebReads PROVE MemoryInv'
<1>1. /\ web.at = "rest" /\ Reads("web")
      /\ UNCHANGED <<arrived, window, snapshot, covered, keeper, clerk, sync, job, todo, rebuild,
                     traced, dropped>>
  BY DEF WebReads, rawVars, taskVars
<1>2. Known(unitFile, arrived, issued) /\ arrived \in Nat /\ issued \in Nat /\ issued \in 0 .. MaxUnits
  BY NumbersIn DEF MemoryInv, Grown
<1>4. CASE /\ issued < MaxUnits /\ issued' = issued + 1
           /\ web' = [at |-> "open", id |-> issued + 1, gone |-> {},
                      units |-> unitFile \cup {[id |-> issued + 1, src |-> {}, was |-> {},
                                                own |-> TRUE]}]
  <2>1. PICK v : v = [id |-> issued + 1, src |-> {}, was |-> {}, own |-> TRUE]
    OBVIOUS
  <2>2. issued' \in Nat /\ issued <= issued' /\ issued' \in 0 .. MaxUnits /\ issued' \in UnitIds
        /\ issued' \in 1 .. issued'
    BY <1>2, <1>4, MemoryAssumption DEF UnitIds
  <2>3. v \in Unit /\ v.id = issued' /\ v.src = {} /\ v.was = {} /\ v.own = TRUE
    BY <1>4, <2>1, <2>2 DEF Unit
  <2>4. web' = [at |-> "open", id |-> issued', gone |-> {}, units |-> unitFile \cup {v}]
    BY <1>4, <2>1
  <2>5. Known(unitFile, arrived', issued')
    BY <1>1, <1>2, <2>2, KnownGrows
  <2>6. Known(unitFile \cup {v}, arrived', issued')
    BY <2>2, <2>3, <2>5 DEF Known
  <2>7. SourcesOf(unitFile \cup {v}) = SourcesOf(unitFile)
    BY <2>3, SourcesSame
  <2>8. /\ web' \in WebRecords /\ web'.at = "open" /\ web'.id = issued'
        /\ web'.units = unitFile \cup {v} /\ web'.gone = {}
    BY <2>2, <2>4, <2>6 DEF WebRecords, Known
  <2>9. Traces(unitFile \cup {v}, issued', TRUE)
    BY <2>3 DEF Traces
  <2>10. Edits(web', unitFile)
    <3>1. \A id : \A own \in BOOLEAN : Traces(unitFile, id, own) => Traces(unitFile \cup {v}, id, own)
      BY DEF Traces
    <3> QED
      BY <2>7, <2>8, <3>1 DEF Edits
  <2>11. WebTells(web', unitFile, current', arrived', issued')
    BY <2>2, <2>6, <2>8, <2>9, <2>10 DEF WebTells
  <2> QED
    BY <1>1, <2>2, <2>8, <2>11, WebTakesSafe
<1>6. ASSUME NEW u \in unitFile, issued' = issued,
             web' = [at |-> "open", id |-> u.id, units |-> unitFile \ {u}, gone |-> {u}]
      PROVE  MemoryInv'
  <2> DEFINE new == unitFile \ {u}
  <2>2. u \in Unit /\ u.id \in 1 .. issued /\ u.id \in UnitIds
    BY <1>2 DEF Known, Unit
  <2>3. Known(new, arrived, issued)
    BY <1>2 DEF Known
  <2>4. SourcesOf(new) \subseteq SourcesOf(unitFile)
        /\ SourcesOf(unitFile) \subseteq SourcesOf(new) \cup SourcesOf({u})
    BY SourceIs
  <2>5. \A id : \A own \in BOOLEAN :
          Traces(unitFile, id, own) => Traces(new, id, own) \/ \E x \in {u} : id \in {x.id} \cup x.was
    BY DEF Traces
  <2>1. web' = [at |-> "open", id |-> u.id, units |-> new, gone |-> {u}]
    BY <1>6
  <2> HIDE DEF new
  <2>6. /\ web' \in WebRecords /\ web'.at = "open" /\ web'.id = u.id /\ web'.units = new
        /\ web'.gone = {u}
    BY <2>1, <2>2, <2>3 DEF WebRecords, Known
  <2>7. Edits(web', unitFile)
    BY <2>4, <2>5, <2>6 DEF Edits
  <2>8. WebTells(web', unitFile, current', arrived', issued')
    BY <1>1, <1>6, <2>2, <2>3, <2>6, <2>7 DEF WebTells
  <2>9. issued' \in 0 .. MaxUnits /\ issued <= issued'
    BY <1>2, <1>6
  <2> QED
    BY <1>1, <2>6, <2>8, <2>9, WebTakesSafe
<1> QED
  BY <1>4, <1>6 DEF WebReads

LEMMA PutReadsSafe == ASSUME MemoryInv, PutReads PROVE MemoryInv'
<1>1. /\ web.at = "rest" /\ Reads("web")
      /\ UNCHANGED <<arrived, window, snapshot, covered, keeper, clerk, sync, job, todo, rebuild,
                     issued, traced, dropped>>
  BY DEF PutReads, rawVars, taskVars
<1>2. Known(unitFile, arrived, issued) /\ arrived \in Nat /\ issued \in Nat /\ issued \in 0 .. MaxUnits
      /\ issued <= issued
  BY NumbersIn DEF MemoryInv, Grown
<1>3. PICK u \in unitFile : web' = [at |-> "removing", units |-> unitFile \ {u},
                                    unit |-> [u EXCEPT !.own = TRUE]]
  BY DEF PutReads
<1>4. PICK v : v = [u EXCEPT !.own = TRUE]
  OBVIOUS
<1>5. u \in Unit /\ u.id \in 1 .. issued /\ u.src \subseteq 1 .. arrived
  BY <1>2 DEF Known
<1>6. v \in Unit /\ v.id = u.id /\ v.src = u.src /\ v.was = u.was /\ v.own = TRUE
  BY <1>4, <1>5 DEF Unit
<1> DEFINE new == unitFile \ {u}
<1>7. Known(new, arrived, issued)
  BY <1>2 DEF Known
<1>8. Carries(new \cup {v}, unitFile)
  <2>1. SourcesOf(new \cup {v}) = SourcesOf(unitFile)
    BY <1>6, SourcesSame
  <2>2. \A id : \A own \in BOOLEAN : Traces(unitFile, id, own) => Traces(new \cup {v}, id, own)
    BY <1>6 DEF Traces
  <2> QED
    BY <2>1, <2>2 DEF Carries
<1>9. web' = [at |-> "removing", units |-> new, unit |-> v]
  BY <1>3, <1>4
<1> HIDE DEF new
<1>10. web' \in WebRecords /\ web'.at = "removing" /\ web'.units = new /\ web'.unit = v
  BY <1>6, <1>7, <1>9 DEF WebRecords, Known
<1>11. WebTells(web', unitFile, current', arrived', issued')
  BY <1>1, <1>5, <1>6, <1>7, <1>8, <1>10 DEF WebTells
<1> QED
  BY <1>1, <1>2, <1>10, <1>11, WebTakesSafe

LEMMA RebuildReadsSafe == ASSUME MemoryInv, RebuildReads PROVE MemoryInv'
<1>1. /\ Reads("rebuild") /\ rebuild' = [at |-> "embedding", units |-> unitFile]
      /\ UNCHANGED <<arrived, window, snapshot, covered, keeper, clerk, sync, job, todo, web,
                     issued, traced, dropped>>
  BY DEF RebuildReads, rawVars, taskVars
<1>2. Known(unitFile, arrived, issued) /\ issued \in 0 .. MaxUnits /\ issued <= issued
  BY NumbersIn DEF MemoryInv, Grown
<1>3. /\ rebuild' \in [at : {"embedding"}, units : SUBSET Unit] /\ rebuild'.at = "embedding"
      /\ rebuild'.units = unitFile
  BY <1>1, <1>2 DEF Known
<1>4. RebuildTells(rebuild', unitFile, current', arrived', issued')
  BY <1>1, <1>2, <1>3 DEF RebuildTells
<1> QED
  BY <1>1, <1>2, <1>4, WebTakesSafe

-----------------------------------------------------------------------------
(* Writers of the unit file.                                               *)

(* A write from an outdated copy remembers what it undoes; one from an     *)
(* up-to-date copy has nothing to remember.                                *)
LEMMA WriteTells ==
  ASSUME MemoryInv, NEW who \in Parties, NEW new, Writes(who, new)
  PROVE  /\ unitFile' = new /\ current' \subseteq Parties
         /\ overtaken' = [units |-> overtaken'.units, messages |-> overtaken'.messages]
         /\ overtaken.units \subseteq overtaken'.units
         /\ overtaken.messages \subseteq overtaken'.messages
         /\ \A p \in Parties : p # who => Unmoved(p)
         /\ who \in current => overtaken' = overtaken
         /\ who \notin current =>
              /\ SourcesOf(InHand) \subseteq overtaken'.messages
              /\ SourcesOf(Shown) \subseteq SourcesOf(Shown') \cup overtaken'.messages
              /\ SourcesOf(Shown') \subseteq SourcesOf(Shown) \cup overtaken'.messages
              /\ AllTraced(traced', Shown', overtaken')
<1>1. /\ unitFile' = new /\ current' = (IF new = unitFile THEN current ELSE {who})
      /\ who \in current => overtaken' = overtaken
      /\ who \notin current => overtaken' = Undone(Shown')
  BY DEF Writes
<1>2. overtaken = [units |-> overtaken.units, messages |-> overtaken.messages] /\ current \subseteq Parties
  BY DEF MemoryInv, Grown
<1>3. current' \subseteq Parties /\ \A p \in Parties : p # who => Unmoved(p)
  BY <1>1, <1>2 DEF Unmoved
<1>4. CASE who \in current
  BY <1>1, <1>2, <1>3, <1>4
<1>5. CASE who \notin current
  <2> DEFINE us == overtaken.units \cup {t.id : t \in {x \in traced' : ~Shows(Shown', x)}}
             ms == overtaken.messages \cup SourcesOf(InHand)
                   \cup Unlike(SourcesOf(Shown), SourcesOf(Shown'))
  <2>1. overtaken' = [units |-> us, messages |-> ms]
    BY <1>1, <1>5 DEF Undone
  <2>2. \A t \in traced' : t.id \in us \/ Shows(Shown', t)
    OBVIOUS
  <2>3. /\ overtaken.messages \subseteq ms /\ SourcesOf(InHand) \subseteq ms
        /\ overtaken.units \subseteq us
        /\ SourcesOf(Shown) \subseteq SourcesOf(Shown') \cup ms
        /\ SourcesOf(Shown') \subseteq SourcesOf(Shown) \cup ms
    BY DEF Unlike
  <2> HIDE DEF us, ms
  <2>4. overtaken'.units = us /\ overtaken'.messages = ms
    BY <2>1
  <2>5. AllTraced(traced', Shown', overtaken')
    BY <2>2, <2>4 DEF AllTraced
  <2> QED
    BY <1>1, <1>3, <1>5, <2>1, <2>3, <2>4, <2>5
<1> QED
  BY <1>4, <1>5

LEMMA ShownSources == SourcesOf(Shown) = SourcesOf(unitFile) \cup SourcesOf(InHand)
BY SourcesBoth DEF Shown

LEMMA HandSame == ASSUME UNCHANGED web PROVE UNCHANGED InHand
BY DEF InHand

LEMMA ShownSourcesPrimed ==
  SourcesOf(Shown') = SourcesOf(unitFile') \cup SourcesOf(InHand')
BY SourcesBoth DEF Shown

(* A task that holds the lock writes what it made of its copy, and the     *)
(* cache is of that.                                                       *)
LEMMA TaskWritesSafe ==
  ASSUME MemoryInv, NEW new, NEW made, Writes("task", new), Known(new, arrived, issued),
         covered' = Cache(new), sync' = AtRest,
         "task" \in current => Carries(new, unitFile \cup made),
         traced' \subseteq [id : 1 .. issued, own : BOOLEAN],
         \A t \in traced' : t \in traced \/ Traces(unitFile \cup made, t.id, t.own),
         window' \subseteq window, window \subseteq window' \cup SourcesOf(new),
         \/ keeper' = AtRest
         \/ /\ keeper' = keeper /\ keeper.at # "deciding"
            /\ "task" \in current => SourcesOf(new) \subseteq SourcesOf(unitFile),
         clerk' = AtRest \/ (clerk' = clerk /\ clerk.at \notin Writing),
         JobTells(job', arrived, issued),
         UNCHANGED <<arrived, snapshot, todo, web, rebuild, issued, dropped>>
  PROVE  MemoryInv'
<1>1. /\ unitFile' = new /\ current' \subseteq Parties
      /\ overtaken' = [units |-> overtaken'.units, messages |-> overtaken'.messages]
      /\ overtaken.units \subseteq overtaken'.units
      /\ overtaken.messages \subseteq overtaken'.messages
      /\ Unmoved("web") /\ Unmoved("rebuild")
      /\ "task" \in current => overtaken' = overtaken
      /\ "task" \notin current =>
           /\ SourcesOf(InHand) \subseteq overtaken'.messages
           /\ SourcesOf(Shown) \subseteq SourcesOf(Shown') \cup overtaken'.messages
           /\ SourcesOf(Shown') \subseteq SourcesOf(Shown) \cup overtaken'.messages
           /\ AllTraced(traced', Shown', overtaken')
  BY WriteTells DEF Parties
<1>2. InHand' = InHand /\ Shown' = new \cup InHand
  BY <1>1, HandSame DEF Shown
<1>3. Ages
  BY <1>1, NumbersIn DEF Ages
<1>4. SourcesOf(Shown') = SourcesOf(new) \cup SourcesOf(InHand)
  BY <1>1, <1>2, ShownSourcesPrimed
<1>5. "task" \in current => SourcesOf(unitFile) \subseteq SourcesOf(new)
  BY SourcesBoth DEF Carries
<1>6. SourcesOf(InHand) \subseteq SourcesOf(new) \cup overtaken'.messages
  <2>1. CASE "task" \in current
    BY <1>1, <1>5, <2>1, ShownSources DEF MemoryInv, HandTells
  <2>2. CASE "task" \notin current
    BY <1>1, <2>2
  <2> QED
    BY <2>1, <2>2
<1>7. SourcesOf(Shown) \subseteq SourcesOf(Shown') \cup overtaken'.messages
  BY <1>1, <1>4, <1>5, ShownSources
<1>8. Grown(arrived', issued', window', snapshot', unitFile', todo', traced', current', overtaken')
  BY <1>1 DEF MemoryInv, Grown
<1>9. CacheTells(covered', Shown', dropped', overtaken', arrived')
  <2>1. covered'.loaded /\ covered'.of = SourcesOf(new) /\ SourcesOf(new) \subseteq 1 .. arrived
    BY SourcesKnown DEF Cache
  <2>2. covered' \in [loaded : BOOLEAN, of : SUBSET (1 .. arrived')]
    BY <2>1 DEF Cache
  <2>3. Fits(SourcesOf(new), Shown', dropped', overtaken')
    BY <1>4, <1>6 DEF Fits
  <2> QED
    BY <2>1, <2>2, <2>3 DEF CacheTells
<1>10. NoneLost(arrived', window', Shown', dropped', overtaken')
  BY <1>1, <1>4, <1>7 DEF MemoryInv, NoneLost
<1>11. AllTraced(traced', Shown', overtaken')
  <2>1. ASSUME "task" \in current, NEW t \in traced' PROVE t.id \in overtaken'.units \/ Shows(Shown', t)
    <3>1. t.own \in BOOLEAN
      OBVIOUS
    <3>2. t.id \in overtaken.units \/ Traces(unitFile \cup made, t.id, t.own)
             \/ Traces(InHand, t.id, t.own)
      <4>1. CASE t \in traced
        <5>1. t.id \in overtaken.units \/ Traces(Shown, t.id, t.own)
          BY <4>1, ShowsTraces DEF MemoryInv, AllTraced
        <5> QED
          BY <5>1 DEF Traces, Shown
      <4> QED
        BY <4>1
    <3>3. t.id \in overtaken.units \/ Traces(new, t.id, t.own) \/ Traces(InHand, t.id, t.own)
      BY <2>1, <3>1, <3>2 DEF Carries
    <3>4. t.id \in overtaken.units \/ Traces(Shown', t.id, t.own)
      BY <1>2, <3>3 DEF Traces
    <3> QED
      BY <1>1, <3>4, ShowsTraces
  <2> QED
    BY <1>1, <2>1 DEF AllTraced
<1>12. HandTells(unitFile', Shown', current', overtaken')
  BY <1>1, <1>4, <1>6 DEF HandTells
<1>13. KeeperTells(keeper', unitFile', Shown', current', overtaken', arrived', issued')
  <2>1. CASE keeper' = AtRest
    BY <2>1, RestTells
  <2>2. CASE /\ keeper' = keeper /\ keeper.at # "deciding"
             /\ "task" \in current => SourcesOf(new) \subseteq SourcesOf(unitFile)
    <3>1. SourcesOf(Shown') \subseteq SourcesOf(Shown) \cup overtaken'.messages
      BY <1>1, <1>4, <2>2, ShownSources
    <3> QED
      BY <1>1, <2>2, <3>1 DEF MemoryInv, KeeperTells
  <2> QED
    BY <2>1, <2>2
<1>14. ClerkTells(clerk', job', unitFile', current', arrived', issued')
  <2>1. CASE clerk' = AtRest
    BY <2>1, RestTells
  <2>2. CASE clerk' = clerk /\ clerk.at \notin Writing
    BY <2>2 DEF MemoryInv, ClerkTells, Writing
  <2> QED
    BY <2>1, <2>2
<1>15. OneWriter(keeper', clerk', sync')
  BY DEF OneWriter, AtRest, Writing
<1> QED
  BY <1>1, <1>3, <1>8, <1>9, <1>10, <1>11, <1>12, <1>13, <1>14, <1>15, WebStays, RebuildStays,
     RestTells, MemoryInvPrimed

LEMMA AddedSafe == ASSUME MemoryInv, AddedUnits PROVE MemoryInv'
<1>1. /\ sync.at = "adding" /\ covered' = Cache(sync.units) /\ sync' = AtRest
      /\ traced' = traced \cup {[id |-> sync.id, own |-> FALSE]} /\ Writes("task", sync.units)
      /\ UNCHANGED <<arrived, window, snapshot, keeper, clerk, job, todo, web, rebuild, issued,
                     dropped>>
  BY DEF AddedUnits, rawVars, webVars
<1>2. /\ Known(sync.units, arrived, issued) /\ sync.id \in 1 .. issued
      /\ Traces(sync.units, sync.id, FALSE)
      /\ "task" \in current => Carries(sync.units, unitFile)
  BY <1>1 DEF MemoryInv, SyncTells
<1>3. "task" \in current => Carries(sync.units, unitFile \cup sync.units)
  <2>1. ASSUME Carries(sync.units, unitFile) PROVE Carries(sync.units, unitFile \cup sync.units)
    <3>1. Carries(sync.units \cup sync.units, unitFile \cup sync.units)
      BY <2>1, CarriesBeside
    <3>2. sync.units \cup sync.units = sync.units
      OBVIOUS
    <3> QED
      BY <3>1, <3>2
  <2> QED
    BY <1>2, <2>1
<1>4. traced \subseteq [id : 1 .. issued, own : BOOLEAN]
  BY DEF MemoryInv, Grown
<1>5. traced' \subseteq [id : 1 .. issued, own : BOOLEAN]
  <2>1. [id |-> sync.id, own |-> FALSE] \in [id : 1 .. issued, own : BOOLEAN]
    BY <1>2
  <2> QED
    BY <1>1, <1>4, <2>1
<1>6. \A t \in traced' : t \in traced \/ Traces(unitFile \cup sync.units, t.id, t.own)
  <2>1. ASSUME NEW t, t = [id |-> sync.id, own |-> FALSE]
        PROVE Traces(unitFile \cup sync.units, t.id, t.own)
    <3>1. t.id = sync.id /\ t.own = FALSE
      BY <2>1
    <3> QED
      BY <1>2, <3>1 DEF Traces
  <2> QED
    BY <1>1, <2>1
<1>7. keeper.at # "deciding" /\ clerk.at \notin Writing
  BY <1>1 DEF MemoryInv, OneWriter
<1>8. "task" \in current => SourcesOf(sync.units) \subseteq SourcesOf(unitFile)
  BY <1>2 DEF Carries
<1>9. JobTells(job', arrived, issued)
  BY <1>1 DEF MemoryInv
<1> QED
  BY <1>1, <1>2, <1>3, <1>5, <1>6, <1>7, <1>8, <1>9, TaskWritesSafe

LEMMA KeeperSavesSafe == ASSUME MemoryInv, sync.at = "rest", KeeperSaves PROVE MemoryInv'
<1> DEFINE kept == keeper.kept
           made == keeper.made
           news == {[id |-> i, own |-> FALSE] : i \in IdsOf(made)}
<1>1. /\ keeper.at = "deciding" /\ keeper.left = {} /\ covered' = Cache(kept)
      /\ window' = window \ Released(keeper.batch, kept, made)
      /\ traced' = traced \cup news /\ Writes("task", kept)
      /\ keeper' = AtRest
      /\ UNCHANGED <<arrived, snapshot, clerk, sync, job, todo, web, rebuild, issued, dropped>>
  BY DEF KeeperSaves, webVars
<1>2. /\ Known(made, arrived, issued) /\ Sorts(keeper, arrived, issued)
      /\ "task" \in current => Carries(keeper.kept \cup keeper.left, unitFile \cup made)
  BY <1>1 DEF MemoryInv, KeeperTells
<1>3. kept \cup keeper.left = kept
  BY <1>1
<1>4. Known(kept, arrived, issued) /\ ("task" \in current => Carries(kept, unitFile \cup made))
  BY <1>2, <1>3 DEF Sorts
<1>5. clerk.at \notin Writing
  BY <1>1 DEF MemoryInv, OneWriter
<1>7. Released(keeper.batch, kept, made) \subseteq SourcesOf(kept)
  BY SourceIs DEF Released
<1> HIDE DEF kept, made
<1>8. news \subseteq [id : 1 .. issued, own : BOOLEAN]
  <2>1. ASSUME NEW i \in IdsOf(made)
        PROVE  [id |-> i, own |-> FALSE] \in [id : 1 .. issued, own : BOOLEAN]
    <3>1. i \in 1 .. issued
      BY <1>2 DEF IdsOf, Known
    <3> QED
      BY <3>1
  <2> QED
    BY <2>1
<1>9. \A t \in traced' : t \in traced \/ Traces(unitFile \cup made, t.id, t.own)
  <2>2. ASSUME NEW t \in news PROVE Traces(unitFile \cup made, t.id, t.own)
    <3>1. PICK u \in made : t = [id |-> u.id, own |-> FALSE]
      BY DEF IdsOf
    <3>2. t.id = u.id /\ t.own = FALSE
      BY <3>1
    <3> QED
      BY <3>2 DEF Traces
  <2> QED
    BY <1>1, <2>2
<1>10. traced' \subseteq [id : 1 .. issued, own : BOOLEAN]
  BY <1>1, <1>8 DEF MemoryInv, Grown
<1>11. window' \subseteq window /\ window \subseteq window' \cup SourcesOf(kept)
  BY <1>1, <1>7
<1>12. JobTells(job', arrived, issued) /\ sync' = AtRest
  BY <1>1 DEF MemoryInv, SyncTells, SyncRecords, AtRest
<1> QED
  BY <1>1, <1>4, <1>5, <1>9, <1>10, <1>11, <1>12, TaskWritesSafe

(* The clerk comes to rest after writing units that carry those of his     *)
(* copy.                                                                   *)
LEMMA ClerkWritesSafe ==
  ASSUME MemoryInv, sync.at = "rest", clerk.at \in Writing, clerk' = AtRest, NEW new,
         Writes("task", new), covered' = Cache(new), Known(new, arrived, issued),
         "task" \in current => Carries(new, unitFile), JobTells(job', arrived, issued),
         UNCHANGED <<arrived, window, snapshot, keeper, sync, todo, web, rebuild, issued, traced,
                     dropped>>
  PROVE  MemoryInv'
<1>1. keeper.at # "deciding" /\ sync' = AtRest
  BY DEF MemoryInv, OneWriter, SyncTells, SyncRecords, AtRest
<1>2. "task" \in current => SourcesOf(new) \subseteq SourcesOf(unitFile)
  BY DEF Carries
<1>3. unitFile \cup {} = unitFile
  OBVIOUS
<1>4. traced' \subseteq [id : 1 .. issued, own : BOOLEAN]
  BY DEF MemoryInv, Grown
<1>5. "task" \in current => Carries(new, unitFile \cup {})
  BY <1>3
<1> QED
  BY <1>1, <1>2, <1>4, <1>5, TaskWritesSafe

LEMMA ClerkAppliesSafe == ASSUME MemoryInv, sync.at = "rest", ClerkApplies PROVE MemoryInv'
<1>1. /\ clerk.at = "applying" /\ clerk' = AtRest
      /\ UNCHANGED <<arrived, window, snapshot, keeper, sync, todo, web, rebuild, issued, traced,
                     dropped>>
  BY DEF ClerkApplies, rawVars, historyVars
<1>2. clerk.at \in Writing
  BY <1>1 DEF Writing
<1>3. /\ "task" \in current => job.report.seen = unitFile
      /\ JobTells(job, arrived, issued)
  BY <1>1 DEF MemoryInv, ClerkTells
<1>4. PICK ending \in {"completed", "failed"} :
        LET units == IF ending = "completed" THEN job.report.final ELSE job.report.seen IN
        /\ job' = [job EXCEPT !.status = ending, !.report = NoReport]
        /\ covered' = Cache(units)
        /\ Writes("task", units)
  BY DEF ClerkApplies
<1>5. PICK new \in {job.report.final, job.report.seen} : covered' = Cache(new) /\ Writes("task", new)
  BY <1>4
<1>6. Known(new, arrived, issued) /\ ("task" \in current => Carries(new, unitFile))
  BY <1>3, CarriesItself DEF JobTells
<1>7. JobTells(job', arrived, issued)
  <2>1. job' \in JobRecords /\ job'.report.seen = {} /\ job'.report.final = {}
    BY <1>3, <1>4 DEF JobTells, JobRecords, NoReport
  <2> QED
    BY <2>1, CarriesItself DEF JobTells, Known
<1> QED
  BY <1>1, <1>2, <1>5, <1>6, <1>7, ClerkWritesSafe

LEMMA ClerkSavesSafe == ASSUME MemoryInv, sync.at = "rest", ClerkSaves PROVE MemoryInv'
<1>1. /\ clerk.at = "deciding" /\ clerk.left = {} /\ clerk' = AtRest
      /\ covered' = Cache(clerk.kept) /\ Writes("task", clerk.kept)
      /\ UNCHANGED <<arrived, window, snapshot, keeper, sync, job, todo, web, rebuild, issued, traced,
                     dropped>>
  BY DEF ClerkSaves, rawVars, webVars, historyVars
<1>2. clerk.at \in Writing
  BY <1>1 DEF Writing
<1>3. /\ clerk.kept \cup clerk.left = clerk.kept /\ Sorts(clerk, arrived, issued)
      /\ "task" \in current => Carries(clerk.kept \cup clerk.left, unitFile)
  BY <1>1 DEF MemoryInv, ClerkTells
<1>4. Known(clerk.kept, arrived, issued) /\ ("task" \in current => Carries(clerk.kept, unitFile))
  BY <1>3 DEF Sorts
<1>5. JobTells(job', arrived, issued)
  BY <1>1 DEF MemoryInv
<1> QED
  BY <1>1, <1>2, <1>4, <1>5, ClerkWritesSafe

LEMMA GroupLoadedSafe == ASSUME MemoryInv, GroupLoaded PROVE MemoryInv'
<1>1. /\ sync.at = "loading" /\ covered' = Cache(sync.units) /\ sync' = AtRest
      /\ UNCHANGED <<arrived, window, snapshot, keeper, clerk, job, todo, web, rebuild, issued, traced,
                     dropped>>
  BY DEF GroupLoaded, rawVars, webVars, historyVars
<1>2. /\ Known(sync.units, arrived, issued)
      /\ "load" \in current => sync.units = unitFile
      /\ Fits(SourcesOf(sync.units), Shown, dropped, overtaken)
  BY <1>1 DEF MemoryInv, SyncTells
<1>i. InHand' = InHand
  BY <1>1, HandSame
<1>3. /\ Ages /\ Passes /\ Unmoved("task") /\ Unmoved("web") /\ Unmoved("rebuild")
      /\ HandTells(unitFile', Shown', current', overtaken') /\ AllTraced(traced', Shown', overtaken')
      /\ Grown(arrived', issued', window', snapshot', unitFile', todo', traced', current', overtaken')
  <2>1. CASE UNCHANGED fileVars
    <3>1. UNCHANGED <<unitFile, current, overtaken>> /\ UNCHANGED Shown
      BY <1>1, <2>1, ShownStays DEF fileVars
    <3>2. Ages /\ Passes /\ Unmoved("task") /\ Unmoved("web") /\ Unmoved("rebuild")
      BY <1>1, <3>1, NumbersIn, Still DEF Parties
    <3> QED
      BY <1>1, <3>1, <3>2 DEF MemoryInv
  <2>2. CASE Writes("load", sync.units)
    <3>1. /\ unitFile' = sync.units /\ current' \subseteq Parties
          /\ overtaken' = [units |-> overtaken'.units, messages |-> overtaken'.messages]
          /\ overtaken.units \subseteq overtaken'.units
          /\ overtaken.messages \subseteq overtaken'.messages
          /\ Unmoved("task") /\ Unmoved("web") /\ Unmoved("rebuild")
          /\ "load" \in current => overtaken' = overtaken
          /\ "load" \notin current =>
               /\ SourcesOf(InHand) \subseteq overtaken'.messages
               /\ SourcesOf(Shown) \subseteq SourcesOf(Shown') \cup overtaken'.messages
               /\ SourcesOf(Shown') \subseteq SourcesOf(Shown) \cup overtaken'.messages
               /\ AllTraced(traced', Shown', overtaken')
      BY <2>2, WriteTells DEF Parties
    <3>2. Ages
      BY <1>1, <3>1, NumbersIn DEF Ages
    <3>3. Grown(arrived', issued', window', snapshot', unitFile', todo', traced', current', overtaken')
      <4>1. Known(unitFile', arrived', issued')
        BY <1>1, <1>2, <3>1
      <4>2. issued' \in 0 .. MaxUnits /\ issued <= issued'
        BY <1>1, NumbersIn DEF MemoryInv, Grown
      <4> QED
        BY <1>1, <3>1, <4>1, <4>2, GrownStays
    <3>4. CASE "load" \in current
      <4>0. unitFile' = unitFile /\ web' = web
        BY <1>1, <1>2, <3>1, <3>4
      <4>1. unitFile' = unitFile /\ UNCHANGED Shown
        BY <4>0, ShownStays
      <4>2. Passes /\ Unmoved("load")
        BY <3>4, <4>1 DEF Passes, Unmoved
      <4>3. AllTraced(traced', Shown', overtaken')
        BY <1>1, <3>1, <3>4, <4>1 DEF MemoryInv
      <4> QED
        BY <3>1, <3>2, <3>3, <4>2, <4>3, HandStays
    <3>5. CASE "load" \notin current
      <4>1. Passes
        BY <3>1, <3>5 DEF Passes
      <4>2. HandTells(unitFile', Shown', current', overtaken')
        BY <1>i, <3>1, <3>5, ShownSourcesPrimed DEF HandTells
      <4> QED
        BY <3>1, <3>2, <3>3, <3>5, <4>1, <4>2
    <3> QED
      BY <3>4, <3>5
  <2> QED
    BY <2>1, <2>2 DEF GroupLoaded
<1>4. CacheTells(covered', Shown', dropped', overtaken', arrived')
  <2>0. SourcesOf(sync.units) \subseteq 1 .. arrived
    BY <1>2, SourcesKnown
  <2>1. covered'.loaded /\ covered'.of = SourcesOf(sync.units) /\ SourcesOf(sync.units) \subseteq 1 .. arrived
    BY <1>1, <2>0 DEF Cache
  <2>2. covered' \in [loaded : BOOLEAN, of : SUBSET (1 .. arrived')]
    BY <1>1, <2>1 DEF Cache
  <2>3. Fits(SourcesOf(sync.units), Shown', dropped', overtaken')
    BY <1>2, <1>3, FitsOn
  <2> QED
    BY <2>1, <2>2, <2>3 DEF CacheTells
<1>5. OneWriter(keeper', clerk', sync')
  BY <1>1, RestTells DEF MemoryInv
<1>6. job' \in JobRecords /\ job'.report = job.report
  BY <1>1 DEF MemoryInv, JobTells
<1> QED
  BY <1>1, <1>3, <1>4, <1>5, <1>6, NoneLostStays, KeeperStays, ClerkStays, JobStays, WebStays,
     RebuildStays, RestTells, MemoryInvPrimed

-----------------------------------------------------------------------------
(* The web process. *)

(* A handler of the web interface, or the rebuild, writes: the worker's    *)
(* copies are out of date, or the file is as it was.                       *)
LEMMA WebWritesOn ==
  ASSUME MemoryInv, NEW who \in {"web", "rebuild"}, NEW new, Writes(who, new),
         Known(new, arrived, issued), dropped \subseteq dropped',
         who \in current => Passes /\ AllTraced(traced', Shown', overtaken'),
         traced' \subseteq [id : 1 .. issued, own : BOOLEAN],
         UNCHANGED <<arrived, window, snapshot, covered, keeper, clerk, sync, job, todo, issued>>,
         who = "web" => rebuild' = rebuild /\ WebTells(web', unitFile', current', arrived', issued'),
         who = "rebuild" => web' = web /\ rebuild' = [at |-> "told"]
  PROVE  MemoryInv'
<1>1. /\ unitFile' = new /\ current' \subseteq Parties
      /\ overtaken' = [units |-> overtaken'.units, messages |-> overtaken'.messages]
      /\ overtaken.units \subseteq overtaken'.units
      /\ overtaken.messages \subseteq overtaken'.messages
      /\ \A p \in Parties : p # who => Unmoved(p)
      /\ who \notin current =>
           /\ SourcesOf(Shown) \subseteq SourcesOf(Shown') \cup overtaken'.messages
           /\ SourcesOf(Shown') \subseteq SourcesOf(Shown) \cup overtaken'.messages
           /\ AllTraced(traced', Shown', overtaken')
  BY WriteTells DEF Parties
<1>2. Ages
  BY <1>1, NumbersIn DEF Ages
<1>3. Passes /\ AllTraced(traced', Shown', overtaken')
  BY <1>1 DEF Passes
<1>4. Unmoved("task") /\ Unmoved("load")
  BY <1>1 DEF Parties
<1>5. Grown(arrived', issued', window', snapshot', unitFile', todo', traced', current', overtaken')
  BY <1>1 DEF MemoryInv, Grown
<1>6. WebTells(web', unitFile', current', arrived', issued')
  <2>1. CASE who = "rebuild"
    <3>1. Unmoved("web")
      BY <1>1, <2>1 DEF Parties
    <3> QED
      BY <1>2, <2>1, <3>1, WebStays
  <2> QED
    BY <2>1
<1>7. RebuildTells(rebuild', unitFile', current', arrived', issued')
  <2>1. CASE who = "web"
    <3>1. Unmoved("rebuild")
      BY <1>1, <2>1 DEF Parties
    <3> QED
      BY <1>2, <2>1, <3>1, RebuildStays
  <2>2. CASE who = "rebuild"
    BY <2>2 DEF RebuildTells
  <2> QED
    BY <2>1, <2>2
<1>8. job' \in JobRecords /\ job'.report = job.report /\ OneWriter(keeper', clerk', sync')
  BY DEF MemoryInv, JobTells
<1> QED
  BY <1>2, <1>3, <1>4, <1>5, <1>6, <1>7, <1>8, CacheStays, NoneLostStays, HandStays, KeeperStays,
     ClerkStays, JobStays, SyncStays, MemoryInvPrimed

LEMMA TracedCarried ==
  ASSUME MemoryInv, Carries(Shown', Shown), overtaken' = overtaken
  PROVE  AllTraced(traced, Shown', overtaken')
<1>1. ASSUME NEW t \in traced PROVE t.id \in overtaken'.units \/ Shows(Shown', t)
  <2>1. t.own \in BOOLEAN
    BY DEF MemoryInv, Grown
  <2>2. t.id \in overtaken.units \/ Traces(Shown, t.id, t.own)
    BY ShowsTraces DEF MemoryInv, AllTraced
  <2>3. t.id \in overtaken.units \/ Traces(Shown', t.id, t.own)
    BY <2>1, <2>2 DEF Carries
  <2> QED
    BY <2>3, ShowsTraces
<1> QED
  BY <1>1 DEF AllTraced

LEMMA RebuildWritesSafe == ASSUME MemoryInv, RebuildWrites PROVE MemoryInv'
<1>1. /\ rebuild.at = "embedding" /\ rebuild' = [at |-> "told"]
      /\ UNCHANGED <<arrived, window, snapshot, covered, keeper, clerk, sync, job, todo, web,
                     issued, traced, dropped>>
  BY DEF RebuildWrites, rawVars, taskVars, historyVars
<1>2. /\ Known(rebuild.units, arrived, issued)
      /\ "rebuild" \in current => rebuild.units = unitFile
  BY <1>1 DEF MemoryInv, RebuildTells
<1>3. CASE UNCHANGED fileVars
  <2>1. UNCHANGED <<unitFile, current, overtaken>> /\ UNCHANGED Shown
    BY <1>1, <1>3, ShownStays DEF fileVars
  <2>2. RebuildTells(rebuild', unitFile', current', arrived', issued')
    BY <1>1 DEF RebuildTells
  <2> QED
    BY <1>1, <2>1, <2>2, MemoryInvPrimed DEF MemoryInv
<1>4. CASE Writes("rebuild", rebuild.units)
  <2>1. unitFile' = rebuild.units /\ ("rebuild" \in current => overtaken' = overtaken)
    BY <1>4 DEF Writes
  <2>2. ASSUME "rebuild" \in current PROVE Passes /\ AllTraced(traced', Shown', overtaken')
    <3>0. unitFile' = unitFile /\ web' = web
      BY <1>1, <1>2, <2>1, <2>2
    <3>1. UNCHANGED Shown
      BY <3>0, ShownStays
    <3> QED
      BY <1>1, <2>1, <2>2, <3>1 DEF Passes, MemoryInv
  <2>3. traced' \subseteq [id : 1 .. issued, own : BOOLEAN]
    BY <1>1 DEF MemoryInv, Grown
  <2> QED
    BY <1>1, <1>2, <1>4, <2>2, <2>3, WebWritesOn
<1> QED
  BY <1>3, <1>4 DEF RebuildWrites

LEMMA PutRemovesSafe == ASSUME MemoryInv, PutRemoves PROVE MemoryInv'
<1>1. /\ web.at = "removing" /\ web' = [at |-> "half", unit |-> web.unit]
      /\ Writes("web", web.units)
      /\ UNCHANGED <<arrived, window, snapshot, covered, keeper, clerk, sync, job, todo, rebuild,
                     issued, traced, dropped>>
  BY DEF PutRemoves, rawVars, taskVars, historyVars
<1>2. /\ web \in WebRecords /\ Known(web.units, arrived, issued)
      /\ web.unit.id \in 1 .. issued /\ web.unit.src \subseteq 1 .. arrived /\ web.unit.own
      /\ "web" \in current => Carries(web.units \cup {web.unit}, unitFile)
  BY <1>1 DEF MemoryInv, WebTells
<1>3. web.unit \in Unit
  BY <1>1, <1>2 DEF WebRecords
<1>4. web' \in WebRecords /\ web'.at = "half" /\ web'.unit = web.unit
  BY <1>1, <1>3 DEF WebRecords
<1>5. WebTells(web', unitFile', current', arrived', issued')
  BY <1>1, <1>2, <1>4 DEF WebTells
<1>6. unitFile' = web.units /\ ("web" \in current => overtaken' = overtaken)
  BY <1>1 DEF Writes
<1>7. Shown = unitFile /\ Shown' = web.units \cup {web.unit}
  BY <1>1, <1>4, <1>6 DEF Shown, InHand
<1>8. ASSUME "web" \in current PROVE Passes /\ AllTraced(traced', Shown', overtaken')
  <2>1. Carries(Shown', Shown)
    BY <1>2, <1>7, <1>8
  <2>2. AllTraced(traced', Shown', overtaken')
    BY <1>1, <1>6, <1>8, <2>1, TracedCarried
  <2> QED
    BY <2>1, <2>2 DEF Passes, Carries
<1>9. traced' \subseteq [id : 1 .. issued, own : BOOLEAN]
  BY <1>1 DEF MemoryInv, Grown
<1> QED
  BY <1>1, <1>2, <1>5, <1>8, <1>9, WebWritesOn

LEMMA PutAddsSafe == ASSUME MemoryInv, PutAdds PROVE MemoryInv'
<1>1. /\ web.at = "reopened" /\ web' = [at |-> "noting", id |-> web.unit.id, had |-> todo]
      /\ traced' = traced \cup {[id |-> web.unit.id, own |-> TRUE]}
      /\ Writes("web", web.units)
      /\ UNCHANGED <<arrived, window, snapshot, covered, keeper, clerk, sync, job, todo, rebuild,
                     issued, dropped>>
  BY DEF PutAdds, rawVars, taskVars
<1>2. /\ web \in WebRecords /\ Known(web.units, arrived, issued)
      /\ web.unit.id \in 1 .. issued /\ web.unit.src \subseteq 1 .. arrived /\ web.unit.own
      /\ web.unit \in web.units
      /\ "web" \in current => web.units = unitFile \cup {web.unit}
  BY <1>1 DEF MemoryInv, WebTells
<1>3. todo \subseteq 1 .. issued /\ traced \subseteq [id : 1 .. issued, own : BOOLEAN] /\ issued \in 0 .. MaxUnits
  BY DEF MemoryInv, Grown
<1>4. web' \in WebRecords /\ web'.at = "noting" /\ web'.id = web.unit.id /\ web'.had = todo
  <2>1. 1 .. issued \subseteq UnitIds
    BY <1>3, MemoryAssumption DEF UnitIds
  <2> QED
    BY <1>1, <1>2, <1>3, <2>1 DEF WebRecords
<1>5. WebTells(web', unitFile', current', arrived', issued')
  BY <1>1, <1>2, <1>3, <1>4 DEF WebTells
<1>6. unitFile' = web.units /\ ("web" \in current => overtaken' = overtaken)
  BY <1>1 DEF Writes
<1>7. Shown = unitFile \cup {web.unit} /\ Shown' = web.units
  BY <1>1, <1>4, <1>6 DEF Shown, InHand
<1>8. ASSUME "web" \in current PROVE Passes /\ AllTraced(traced', Shown', overtaken')
  <2>1. Shown' = Shown
    BY <1>2, <1>7, <1>8
  <2>2. AllTraced(traced, Shown', overtaken')
    BY <1>6, <1>8, <2>1 DEF MemoryInv
  <2>3. ASSUME NEW t, t = [id |-> web.unit.id, own |-> TRUE] PROVE Shows(Shown', t)
    <3>1. t.id = web.unit.id /\ t.own = TRUE
      BY <2>3
    <3> QED
      BY <1>2, <1>7, <3>1 DEF Shows
  <2>4. AllTraced(traced', Shown', overtaken')
    BY <1>1, <2>2, <2>3 DEF AllTraced
  <2> QED
    BY <2>1, <2>4 DEF Passes
<1>9. traced' \subseteq [id : 1 .. issued, own : BOOLEAN]
  <2>1. [id |-> web.unit.id, own |-> TRUE] \in [id : 1 .. issued, own : BOOLEAN]
    BY <1>2
  <2> QED
    BY <1>1, <1>3, <2>1
<1> QED
  BY <1>1, <1>2, <1>5, <1>8, <1>9, WebWritesOn

LEMMA WebWritesSafe == ASSUME MemoryInv, WebWrites PROVE MemoryInv'
<1> DEFINE new == web.units
           gone == web.gone
<1>1. /\ web.at = "open" /\ web' = [at |-> "noting", id |-> web.id, had |-> todo]
      /\ traced' = IF gone = {} THEN traced \cup {[id |-> web.id, own |-> TRUE]}
                    ELSE {t \in traced : \A u \in gone : t.id \notin {u.id} \cup u.was}
      /\ dropped' = dropped \cup SourcesOf(gone) /\ Writes("web", new)
      /\ UNCHANGED <<arrived, window, snapshot, covered, keeper, clerk, sync, job, todo, rebuild,
                     issued>>
  BY DEF WebWrites, rawVars, taskVars
<1>2. /\ web.id \in 1 .. issued /\ Known(new, arrived, issued) /\ ("web" \in current => Edits(web, unitFile))
      /\ gone = {} => Traces(new, web.id, TRUE)
  BY <1>1 DEF MemoryInv, WebTells
<1>e. "web" \in current =>
        /\ SourcesOf(new) \subseteq SourcesOf(unitFile)
        /\ SourcesOf(unitFile) \subseteq SourcesOf(new) \cup SourcesOf(gone)
        /\ \A id : \A own \in BOOLEAN :
             Traces(unitFile, id, own) => Traces(new, id, own) \/ \E u \in gone : id \in {u.id} \cup u.was
  BY <1>2 DEF Edits
<1> HIDE DEF new, gone
<1>3. todo \subseteq 1 .. issued /\ traced \subseteq [id : 1 .. issued, own : BOOLEAN] /\ issued \in 0 .. MaxUnits
  BY DEF MemoryInv, Grown
<1>4. web' \in WebRecords /\ web'.at = "noting" /\ web'.id = web.id /\ web'.had = todo
  <2>1. 1 .. issued \subseteq UnitIds
    BY <1>3, MemoryAssumption DEF UnitIds
  <2> QED
    BY <1>1, <1>2, <1>3, <2>1 DEF WebRecords
<1>5. WebTells(web', unitFile', current', arrived', issued')
  BY <1>1, <1>2, <1>3, <1>4 DEF WebTells
<1>6. unitFile' = new /\ ("web" \in current => overtaken' = overtaken)
  BY <1>1 DEF Writes
<1>7. Shown = unitFile /\ Shown' = new
  BY <1>1, <1>4, <1>6 DEF Shown, InHand
<1>9. traced' \subseteq [id : 1 .. issued, own : BOOLEAN]
  <2>1. [id |-> web.id, own |-> TRUE] \in [id : 1 .. issued, own : BOOLEAN]
    BY <1>2
  <2> QED
    BY <1>1, <1>3, <2>1
<1>8. ASSUME "web" \in current PROVE Passes /\ AllTraced(traced', Shown', overtaken')
  <2>0. Passes
    BY <1>1, <1>7, <1>8, <1>e DEF Passes
  <2>1. ASSUME NEW t \in traced
        PROVE  t.own \in BOOLEAN /\ (t.id \in overtaken.units \/ Traces(unitFile, t.id, t.own))
    BY <1>3, <1>7, ShowsTraces DEF MemoryInv, AllTraced
  <2>2. CASE gone = {}
    <3>1. traced' = traced \cup {[id |-> web.id, own |-> TRUE]}
      BY <1>1, <2>2
    <3>2. ASSUME NEW t \in traced PROVE t.id \in overtaken.units \/ Traces(new, t.id, t.own)
      BY <1>8, <1>e, <2>1, <2>2
    <3>3. Traces(new, web.id, TRUE)
      BY <1>2, <2>2
    <3>4. PICK t : t = [id |-> web.id, own |-> TRUE]
      OBVIOUS
    <3>5. t.id = web.id /\ t.own = TRUE
      BY <3>4
    <3>6. \A x \in traced' : x.id \in overtaken.units \/ Traces(new, x.id, x.own)
      BY <3>1, <3>2, <3>3, <3>4, <3>5
    <3> QED
      BY <1>6, <1>7, <1>8, <2>0, <3>6, ShowsTraces DEF AllTraced
  <2>3. CASE gone # {}
    <3>1. traced' = {t \in traced : \A u \in gone : t.id \notin {u.id} \cup u.was}
      BY <1>1, <2>3
    <3>2. ASSUME NEW t \in traced' PROVE t.id \in overtaken.units \/ Traces(new, t.id, t.own)
      BY <1>8, <1>e, <2>1, <3>1
    <3> QED
      BY <1>6, <1>7, <1>8, <2>0, <3>2, ShowsTraces DEF AllTraced
  <2> QED
    BY <2>2, <2>3
<1>10. dropped \subseteq dropped'
  BY <1>1
<1> QED
  BY <1>1, <1>2, <1>5, <1>8, <1>9, <1>10, WebWritesOn

LEMMA PutReadsAgainSafe == ASSUME MemoryInv, PutReadsAgain PROVE MemoryInv'
<1> DEFINE new == {u \in unitFile : u.id # web.unit.id} \cup {web.unit}
<1>1. /\ web.at = "half" /\ web' = [at |-> "reopened", unit |-> web.unit, units |-> new]
      /\ current' = IF web.unit.id \in IdsOf(unitFile) THEN current \ {"web"}
                      ELSE current \cup {"web"}
      /\ UNCHANGED <<arrived, window, snapshot, unitFile, covered, keeper, clerk, sync, job, todo,
                     rebuild, issued, traced, dropped, overtaken>>
  BY DEF PutReadsAgain, rawVars, taskVars, historyVars
<1>2. /\ web \in WebRecords /\ Known(unitFile, arrived, issued)
      /\ web.unit.id \in 1 .. issued /\ web.unit.src \subseteq 1 .. arrived /\ web.unit.own
  BY <1>1, NumbersIn DEF MemoryInv, WebTells
<1>3. web.unit \in Unit
  BY <1>1, <1>2 DEF WebRecords
<1>4. Known(new, arrived, issued) /\ web.unit \in new
  BY <1>2, <1>3 DEF Known
<1>5. "web" \in current' => new = unitFile \cup {web.unit}
  BY <1>1 DEF IdsOf
<1> HIDE DEF new
<1>6. web' \in WebRecords /\ web'.at = "reopened" /\ web'.unit = web.unit /\ web'.units = new
  BY <1>1, <1>3, <1>4 DEF WebRecords, Known
<1>7. WebTells(web', unitFile', current', arrived', issued')
  BY <1>1, <1>2, <1>4, <1>5, <1>6 DEF WebTells
<1>8. UNCHANGED Shown
  BY <1>1, <1>6 DEF Shown, InHand
<1>9. current' \subseteq Parties /\ current' \subseteq current \cup {"web"}
  BY <1>1 DEF MemoryInv, Grown, Parties
<1>10. /\ Ages /\ Passes /\ Unmoved("task") /\ Unmoved("load") /\ Unmoved("rebuild")
  BY <1>1, <1>8, <1>9, NumbersIn DEF Ages, Passes, Unmoved
<1>11. Grown(arrived', issued', window', snapshot', unitFile', todo', traced', current', overtaken')
  BY <1>1, <1>9 DEF MemoryInv, Grown
<1>12. AllTraced(traced', Shown', overtaken') /\ OneWriter(keeper', clerk', sync')
  BY <1>1, <1>8 DEF MemoryInv
<1>13. job' \in JobRecords /\ job'.report = job.report
  BY <1>1 DEF MemoryInv, JobTells
<1> QED
  BY <1>1, <1>7, <1>10, <1>11, <1>12, <1>13, CacheStays, NoneLostStays, HandStays, KeeperStays,
     ClerkStays, JobStays, SyncStays, RebuildStays, MemoryInvPrimed

LEMMA WebDiesSafe == ASSUME MemoryInv, WebDies PROVE MemoryInv'
<1>1. /\ web' = AtRest /\ rebuild' = (IF rebuild.at = "embedding" THEN AtRest ELSE rebuild)
      /\ overtaken' = IF InHand = {} THEN overtaken ELSE Undone(unitFile)
      /\ UNCHANGED <<arrived, window, snapshot, unitFile, covered, keeper, clerk, sync, job, todo,
                     issued, traced, dropped, current>>
  BY DEF WebDies, rawVars, taskVars, historyVars
<1>2. InHand' = {} /\ Shown' = unitFile
  BY <1>1 DEF Shown, InHand, AtRest
<1>3. overtaken = [units |-> overtaken.units, messages |-> overtaken.messages]
  BY DEF MemoryInv, Grown
<1>4. /\ overtaken' = [units |-> overtaken'.units, messages |-> overtaken'.messages]
      /\ Ages /\ Passes /\ AllTraced(traced', Shown', overtaken')
  <2>1. CASE InHand = {}
    <3>1. Shown' = Shown /\ overtaken' = overtaken
      BY <1>1, <1>2, <2>1 DEF Shown
    <3> QED
      BY <1>1, <1>3, <3>1, NumbersIn DEF MemoryInv, Ages, Passes
  <2>2. CASE InHand # {}
    <3> DEFINE us == overtaken.units \cup {t.id : t \in {x \in traced' : ~Shows(unitFile, x)}}
               ms == overtaken.messages \cup SourcesOf(InHand)
                     \cup Unlike(SourcesOf(Shown), SourcesOf(unitFile))
    <3>1. overtaken' = [units |-> us, messages |-> ms]
      BY <1>1, <2>2 DEF Undone
    <3>2. \A t \in traced' : t.id \in us \/ Shows(unitFile, t)
      OBVIOUS
    <3>3. /\ overtaken.messages \subseteq ms /\ overtaken.units \subseteq us
          /\ SourcesOf(Shown) \subseteq SourcesOf(unitFile) \cup ms
          /\ SourcesOf(unitFile) \subseteq SourcesOf(Shown) \cup ms
      BY DEF Unlike
    <3> HIDE DEF us, ms
    <3>4. overtaken'.units = us /\ overtaken'.messages = ms
      BY <3>1
    <3> QED
      BY <1>1, <1>2, <3>1, <3>2, <3>3, <3>4, NumbersIn DEF AllTraced, Ages, Passes
  <2> QED
    BY <2>1, <2>2
<1>5. Unmoved("task") /\ Unmoved("load") /\ Unmoved("web") /\ Unmoved("rebuild")
  BY <1>1 DEF Unmoved
<1>6. Grown(arrived', issued', window', snapshot', unitFile', todo', traced', current', overtaken')
  BY <1>1, <1>4 DEF MemoryInv, Grown
<1>7. RebuildTells(rebuild', unitFile', current', arrived', issued')
  <2>1. CASE rebuild' = rebuild
    BY <1>4, <1>5, <2>1, RebuildStays
  <2>2. CASE rebuild' = AtRest
    BY <2>2, RestTells
  <2> QED
    BY <1>1, <2>1, <2>2
<1>8. job' \in JobRecords /\ job'.report = job.report /\ OneWriter(keeper', clerk', sync')
  BY <1>1 DEF MemoryInv, JobTells
<1> QED
  BY <1>1, <1>4, <1>5, <1>6, <1>7, <1>8, CacheStays, NoneLostStays, HandStays, KeeperStays,
     ClerkStays, JobStays, SyncStays, RestTells, MemoryInvPrimed

-----------------------------------------------------------------------------
LEMMA WorkerSafe == ASSUME MemoryInv, sync.at = "rest", WorkerNext PROVE MemoryInv'
BY ArriveSafe, GroupLoadsSafe, ReloadSafe, AddUnitsSafe, StartSafe, HearsSafe, HearsNothingSafe,
   BackoffSafe, KeeperLoadsSafe, KeeperDecidesSafe, KeeperSavesSafe, ScansSafe, ClerkDecidesSafe,
   ReportsSafe, AnnouncesSafe, ChecksSafe, ClerkAppliesSafe, ClerkLoadsSafe, ClerkSavesSafe
   DEF WorkerNext

LEMMA WebSafe == ASSUME MemoryInv, WebNext PROVE MemoryInv'
BY AskSafe, WebReadsSafe, WebWritesSafe, PutReadsSafe, PutRemovesSafe, PutReadsAgainSafe,
   PutAddsSafe, NotesSafe, RebuildReadsSafe, RebuildWritesSafe, WebDiesSafe DEF WebNext

LEMMA MemoryStep == ASSUME MemoryInv, [MemoryNext]_memoryVars PROVE MemoryInv'
<1>1. CASE MemoryNext
  BY <1>1, WorkerSafe, WebSafe, GroupLoadedSafe, AddedSafe, RestartSafe DEF MemoryNext
<1>2. CASE UNCHANGED memoryVars
  <2>1. UNCHANGED <<arrived, window, snapshot, unitFile, covered, keeper, clerk, sync, job, todo,
                    web, rebuild, issued, traced, dropped, current, overtaken>>
    BY <1>2 DEF memoryVars, rawVars, taskVars, webVars, historyVars, fileVars
  <2>2. UNCHANGED Shown
    BY <2>1, ShownStays
  <2> QED
    BY <2>1, <2>2, MemoryInvPrimed DEF MemoryInv
<1> QED
  BY <1>1, <1>2

LEMMA MemoryHolds == ASSUME MemoryInv PROVE MemorySafety
<1>1. MemoryTyped
  <2>1. window \subseteq 1 .. arrived /\ snapshot \subseteq 1 .. arrived /\ unitFile \subseteq Unit
        /\ todo \subseteq 1 .. issued /\ current \subseteq Parties
    BY DEF MemoryInv, Grown, Known
  <2>2. covered.of \subseteq 1 .. arrived
    BY DEF MemoryInv, CacheTells
  <2>3. keeper.at # "rest" => Cardinality(keeper.batch) \in MinBatch .. MaxBatch
    BY DEF MemoryInv, KeeperTells
  <2>4. job \in JobRecords
    BY DEF MemoryInv, JobTells
  <2>5. job.status \in {"idle", "queued", "scanning", "ready", "applying", "completed", "stale",
                        "failed"}
    BY <2>4 DEF JobRecords
  <2> QED
    BY <2>1, <2>2, <2>3, <2>5, OthersIn DEF MemoryTyped
<1>2. TracedSources
  BY DEF MemoryInv, NoneLost, TracedSources
<1>3. TracedUnits
  BY DEF MemoryInv, AllTraced, TracedUnits
<1>4. SummarisedOnce
  <2>1. SourcesOf(unitFile) \subseteq SourcesOf(Shown)
    BY ShownSources
  <2> QED
    BY <2>1 DEF MemoryInv, KeeperTells, SummarisedOnce
<1> QED
  BY <1>1, <1>2, <1>3, <1>4 DEF MemorySafety

-----------------------------------------------------------------------------
(* Vector files.                                                           *)

Vectors == Text \cup {NoVector}
Items == [text : Text, offset : Nat, print : Vectors]

(* A list of items: no unit twice, a place exactly where there is a print. *)
Listed(list) ==
  /\ list \in Seq(Items)
  /\ \A i \in DOMAIN list : list[i].offset > 0 <=> list[i].print # NoVector
  /\ \A i, k \in DOMAIN list : UnitOf(list[i]) = UnitOf(list[k]) => i = k

(* Every place is one in the file, and holds the vector of the text whose  *)
(* print is beside it.                                                     *)
Aimed(list, file, files) ==
  \A i \in DOMAIN list : list[i].offset > 0 =>
    /\ file # NoFile /\ file \in DOMAIN files /\ list[i].offset <= Len(files[file])
    /\ files[file][list[i].offset] = list[i].print

(* A list and the file beside it. *)
Paired(list, file, files) ==
  Aimed(list, file, files) /\ (file # NoFile => file \in DOMAIN files)

(* A text that had a vector in old has one in new. *)
Outlives(new, old) ==
  \A i \in DOMAIN old, k \in DOMAIN new :
    old[i].text = new[k].text /\ old[i].print = old[i].text => new[k].print = new[k].text

IsList(list) == list \in Seq({list[i] : i \in DOMAIN list})

(* The units in memory: none twice, and as long as no edit crossed a write *)
(* each with its own vector or without.                                    *)
Remembered(units, over) ==
  /\ IsList(units)
  /\ \A i \in DOMAIN units : units[i].text \in Text
  /\ \A i, k \in DOMAIN units : units[i].text[1] = units[k].text[1] => i = k
  /\ ~over => \A i \in DOMAIN units : units[i].vector \in {NoVector, units[i].text}

Filed(files, n, d) ==
  /\ n \in 0 .. MaxFiles /\ d \in 0 .. MaxDeaths
  /\ DOMAIN files \subseteq 1 .. n /\ \A f \in DOMAIN files : files[f] # <<>>

Pages == [items : Seq(Items), file : Nat]
Saves == [at : {"written", "replaced"}, seen : Pages, new : Nat, items : Seq(Items)]

(* What is about to be named is complete, and keeps what was in the file   *)
(* read; what is about to go is not named.                                 *)
SaverTells(x, file, files, n, over) ==
  /\ x.at \in {"none", "loaded", "written", "replaced"}
  /\ x.at = "loaded" => Remembered(x.units, over)
  /\ x.at \in {"written", "replaced"} => x \in Saves /\ x.seen.file \in 0 .. n
  /\ x.at = "written" =>
       /\ Listed(x.items) /\ x.new \in 0 .. n
       /\ ~over => Paired(x.items, x.new, files) /\ Outlives(x.items, x.seen.items)
  /\ x.at = "replaced" /\ ~over /\ x.seen.file # NoFile => file # x.seen.file

(* A file not yet named is known to its saver alone.                       *)
OwnFile(s, at, file, d) ==
  at[s].at = "written" /\ at[s].new # NoFile =>
    /\ file # at[s].new
    /\ \A o \in Savers : /\ at[o].at \in {"written", "replaced"} => at[o].seen.file # at[s].new
                         /\ at[o].at = "written" /\ o # s => at[o].new # at[s].new
    /\ d.at = "named" => d.name # at[s].new

Drafts == [at : {"open", "named", "half"}, seen : Pages, items : Seq(Items), more : Seq(Items),
           name : Nat, torn : BOOLEAN]

(* An edit fits the file it was made beside, for as long as that exists.   *)
DraftTells(d, files, n, over) ==
  /\ d = NoDraft \/ d \in Drafts
  /\ d.at \in {"open", "named", "half"} =>
       /\ Listed(d.items) /\ Listed(d.more) /\ d.name \in 0 .. n /\ d.seen.file \in 0 .. n
       /\ (d.more = <<>> /\ d.at # "half") \/ Len(d.more) = 1
       /\ ~over /\ (d.seen.file # NoFile => d.seen.file \in DOMAIN files) =>
            /\ Aimed(d.more, d.seen.file, files)
            /\ ~d.torn => Aimed(d.items, d.seen.file, files)
       /\ ~d.torn => Outlives(d.items, d.seen.items)

VectorInv ==
  /\ json \in Pages /\ Listed(json.items) /\ json.file \in 0 .. named
  /\ ~crossed => Paired(json.items, json.file, bins)
  /\ crossed \in BOOLEAN /\ Filed(bins, named, deaths)
  /\ DOMAIN save = Savers
  /\ \A s \in Savers : SaverTells(save[s], json.file, bins, named, crossed)
  /\ \A s \in Savers : OwnFile(s, save, json.file, draft)
  /\ DraftTells(draft, bins, named, crossed)

(* A write keeps what it should.                                           *)
Keeps == ~crossed' /\ ~Overtakes => Outlives(json'.items, json.items)

-----------------------------------------------------------------------------
(* Texts, lists and what is packed from them. *)

LEMMA TextIs ==
  ASSUME NEW t \in Text
  PROVE  t # NoVector /\ t[1] \in Facts /\ t[2] \in 1 .. MaxVersion /\ t = <<t[1], t[2]>>
BY DEF Text, NoVector

LEMMA ListIs ==
  ASSUME NEW S, NEW list \in Seq(S) PROVE IsList(list)
<1>1. Len(list) \in Nat /\ DOMAIN list = 1 .. Len(list)
  OBVIOUS
<1>2. list = [i \in 1 .. Len(list) |-> list[i]]
  BY <1>1
<1>3. list \in [1 .. Len(list) -> {list[i] : i \in DOMAIN list}]
  BY <1>1, <1>2
<1> QED
  BY <1>1, <1>3 DEF IsList

LEMMA MadeList ==
  ASSUME NEW n \in Nat, NEW list, DOMAIN list = 1 .. n, list = [i \in 1 .. n |-> list[i]]
  PROVE  IsList(list) /\ Len(list) = n
<1>1. list \in [1 .. n -> {list[i] : i \in DOMAIN list}]
  OBVIOUS
<1>2. list \in Seq({list[i] : i \in DOMAIN list})
  BY <1>1
<1>3. Len(list) = n
  BY <1>2
<1> QED
  BY <1>2, <1>3 DEF IsList

LEMMA ListHas ==
  ASSUME NEW list, IsList(list) PROVE Len(list) \in Nat /\ DOMAIN list = 1 .. Len(list)
BY DEF IsList

LEMMA WithoutIs ==
  ASSUME NEW S, NEW list \in Seq(S), NEW i \in DOMAIN list
  PROVE  /\ Without(list, i) \in Seq(S)
         /\ DOMAIN Without(list, i) = 1 .. Len(list) - 1
         /\ \A n \in DOMAIN Without(list, i) : \E k \in DOMAIN list \ {i} :
              Without(list, i)[n] = list[k] /\ k = (IF n < i THEN n ELSE n + 1)
<1>1. Len(list) \in Nat /\ DOMAIN list = 1 .. Len(list) /\ i \in 1 .. Len(list)
      /\ \A k \in DOMAIN list : list[k] \in S
  OBVIOUS
<1>2. Len(list) - 1 \in Nat
  BY <1>1
<1>3. DOMAIN Without(list, i) = 1 .. Len(list) - 1
  BY DEF Without
<1>4. ASSUME NEW n \in 1 .. Len(list) - 1
      PROVE  \E k \in DOMAIN list \ {i} :
              Without(list, i)[n] = list[k] /\ k = (IF n < i THEN n ELSE n + 1)
  BY <1>1, <1>4 DEF Without
<1>5. Without(list, i) \in [1 .. Len(list) - 1 -> S]
  BY <1>1, <1>2 DEF Without
<1>6. Without(list, i) \in Seq(S)
  BY <1>2, <1>5
<1> QED
  BY <1>3, <1>4, <1>6

Packs(packed) == IsList(packed)

LEMMA OffsetIs ==
  ASSUME NEW packed, NEW i \in Nat
  PROVE  /\ IsFiniteSet({k \in 1 .. i : packed[k] # NoVector})
         /\ Offset(packed, i) \in Nat /\ Offset(packed, i) <= i
<1>1. IsFiniteSet(1 .. i) /\ Cardinality(1 .. i) = i
  BY FS_Interval, 1 \in Int, i \in Int
<1>2. {k \in 1 .. i : packed[k] # NoVector} \in SUBSET (1 .. i)
  OBVIOUS
<1> QED
  BY <1>1, <1>2, FS_Subset, FS_CardinalityType DEF Offset

LEMMA OffsetGrows ==
  ASSUME NEW packed, NEW i \in Nat, NEW k \in Nat, i <= k
  PROVE  Offset(packed, i) <= Offset(packed, k)
<1>1. {m \in 1 .. i : packed[m] # NoVector} \in SUBSET {m \in 1 .. k : packed[m] # NoVector}
  OBVIOUS
<1> QED
  BY <1>1, OffsetIs, FS_Subset DEF Offset

LEMMA OffsetRises ==
  ASSUME NEW packed, NEW i \in Nat, NEW k \in Nat, i < k, packed[k] # NoVector
  PROVE  Offset(packed, i) < Offset(packed, k)
<1> DEFINE A == {m \in 1 .. i : packed[m] # NoVector}
           B == {m \in 1 .. k : packed[m] # NoVector}
<1>1. A \in SUBSET B /\ k \in B /\ k \notin A
  OBVIOUS
<1>2. IsFiniteSet(A) /\ IsFiniteSet(B)
  BY OffsetIs
<1> HIDE DEF A, B
<1>3. Cardinality(A) <= Cardinality(B) /\ Cardinality(A) # Cardinality(B)
  BY <1>1, <1>2, FS_Subset
<1>4. Cardinality(A) \in Nat /\ Cardinality(B) \in Nat
  BY <1>2, FS_CardinalityType
<1>5. Cardinality(A) < Cardinality(B)
  BY <1>3, <1>4
<1> QED
  BY <1>5 DEF Offset, A, B

(* The vector of unit i is at its offset, and nowhere is none. *)
LEMMA BlobHolds ==
  ASSUME NEW packed, Packs(packed), NEW i \in DOMAIN packed, packed[i] # NoVector
  PROVE  /\ Offset(packed, i) \in 1 .. Len(Blob(packed))
         /\ Blob(packed)[Offset(packed, i)] = packed[i]
         /\ Blob(packed) # <<>>
<1>0. Len(packed) \in Nat /\ DOMAIN packed = 1 .. Len(packed)
  BY ListHas DEF Packs
<1>1. Len(packed) \in Nat /\ DOMAIN packed = 1 .. Len(packed) /\ i \in 1 .. Len(packed) /\ i \in Nat
  BY <1>0
<1>2. Offset(packed, 0) \in Nat /\ Offset(packed, i) \in Nat /\ Offset(packed, Len(packed)) \in Nat
  BY <1>1, OffsetIs
<1>3. Offset(packed, 0) < Offset(packed, i) /\ Offset(packed, i) <= Offset(packed, Len(packed))
  BY <1>1, OffsetRises, OffsetGrows
<1>4. Offset(packed, i) \in 1 .. Offset(packed, Len(packed))
  BY <1>2, <1>3
<1>5. ASSUME NEW k \in DOMAIN packed, packed[k] # NoVector, Offset(packed, k) = Offset(packed, i)
      PROVE  k = i
  <2>0. k \in Nat
    BY <1>1
  <2>1. Offset(packed, k) \in Nat
    BY <2>0, OffsetIs
  <2>2. ~(k < i) /\ ~(i < k)
    BY <1>1, <1>2, <1>5, <2>0, <2>1, OffsetRises
  <2> QED
    BY <1>1, <2>0, <2>2
<1> DEFINE at == CHOOSE k \in DOMAIN packed : packed[k] # NoVector /\ Offset(packed, k) = Offset(packed, i)
<1>6. at = i
  BY <1>5
<1>7. Blob(packed)[Offset(packed, i)] = packed[i]
  BY <1>4, <1>6 DEF Blob
<1>8. DOMAIN Blob(packed) = 1 .. Offset(packed, Len(packed))
  BY DEF Blob
<1>9. IsList(Blob(packed)) /\ Len(Blob(packed)) = Offset(packed, Len(packed))
  <2> DEFINE m == Offset(packed, Len(packed))
  <2>1. DOMAIN Blob(packed) = 1 .. m /\ Blob(packed) = [n \in 1 .. m |-> Blob(packed)[n]]
    BY DEF Blob
  <2> HIDE DEF m
  <2>2. m \in Nat
    BY <1>2 DEF m
  <2>3. IsList(Blob(packed)) /\ Len(Blob(packed)) = m
    BY <2>1, <2>2, MadeList
  <2> QED
    BY <2>3 DEF m
<1>10. 1 \in DOMAIN Blob(packed)
  BY <1>4, <1>8, <1>2
<1>11. Blob(packed) # <<>>
  BY <1>10
<1> QED
  BY <1>4, <1>7, <1>9, <1>11

LEMMA ReadsRight ==
  ASSUME NEW list, NEW file, NEW files, Listed(list), Aimed(list, file, files), NEW i \in DOMAIN list
  PROVE  /\ list[i].print = list[i].text =>
              /\ list[i].offset > 0 /\ file # NoFile /\ file \in DOMAIN files
              /\ list[i].offset <= Len(files[file]) /\ files[file][list[i].offset] = list[i].text
         /\ list[i].text \in Text /\ list[i].text # NoVector
<1>1. list[i] \in Items
  BY DEF Listed
<1>2. list[i].text \in Text /\ list[i].text # NoVector
  BY <1>1, TextIs DEF Items
<1> QED
  BY <1>2 DEF Listed, Aimed

(* What a reader gets of an item of a list that fits its file. *)
LEMMA VectorIs ==
  ASSUME NEW list, NEW file, Listed(list), Aimed(list, file, bins), NEW i \in DOMAIN list
  PROVE  VectorOf(file, list[i]) = IF list[i].print = list[i].text THEN list[i].text ELSE NoVector
BY ReadsRight DEF VectorOf, Printed, Bytes, Exists

LEMMA VectorIsPrimed ==
  ASSUME Listed(json'.items), Aimed(json'.items, json'.file, bins'), NEW i \in DOMAIN json'.items
  PROVE  VectorOf(json.file, json.items[i])' =
           IF json'.items[i].print = json'.items[i].text THEN json'.items[i].text ELSE NoVector
BY ReadsRight DEF VectorOf, Printed, Bytes, Exists

LEMMA OutlivesItself == ASSUME NEW list, Listed(list) PROVE Outlives(list, list)
BY DEF Outlives, Listed, UnitOf

-----------------------------------------------------------------------------
(* What stays true of a saver and of an edit while others move. *)

LEMMA SaverStays ==
  ASSUME NEW x, NEW file, NEW files, NEW n \in Nat, NEW over \in BOOLEAN,
         NEW file2, NEW files2, NEW m \in Nat, NEW over2 \in BOOLEAN,
         SaverTells(x, file, files, n, over), over => over2, n <= m,
         x.at = "replaced" /\ ~over2 /\ x.seen.file # NoFile => file2 # x.seen.file,
         x.at = "written" /\ x.new \in DOMAIN files =>
            x.new \in DOMAIN files2 /\ files2[x.new] = files[x.new]
  PROVE  SaverTells(x, file2, files2, m, over2)
<1>1. 0 .. n \subseteq 0 .. m
  OBVIOUS
<1>2. x.at = "loaded" => Remembered(x.units, over2)
  BY DEF SaverTells, Remembered
<1>3. x.at \in {"written", "replaced"} => x \in Saves /\ x.seen.file \in 0 .. m
  BY <1>1 DEF SaverTells
<1>4. ASSUME x.at = "written"
      PROVE  /\ Listed(x.items) /\ x.new \in 0 .. m
             /\ ~over2 => Paired(x.items, x.new, files2) /\ Outlives(x.items, x.seen.items)
  <2>1. Listed(x.items) /\ x.new \in 0 .. m
        /\ (~over2 => Paired(x.items, x.new, files) /\ Outlives(x.items, x.seen.items))
    BY <1>1, <1>4 DEF SaverTells
  <2>2. ~over2 => Paired(x.items, x.new, files2)
    BY <1>4, <2>1 DEF Paired, Aimed
  <2> QED
    BY <2>1, <2>2
<1> QED
  BY <1>2, <1>3, <1>4 DEF SaverTells

LEMMA DraftStays ==
  ASSUME NEW d, NEW files, NEW n \in Nat, NEW over \in BOOLEAN,
         NEW files2, NEW m \in Nat, NEW over2 \in BOOLEAN,
         DraftTells(d, files, n, over), over => over2, n <= m,
         \A f \in 1 .. n : f \in DOMAIN files2 => f \in DOMAIN files /\ files2[f] = files[f]
  PROVE  DraftTells(d, files2, m, over2)
<1>1. 0 .. n \subseteq 0 .. m
  OBVIOUS
<1>2. SUFFICES ASSUME d.at \in {"open", "named", "half"}
               PROVE  /\ Listed(d.items) /\ Listed(d.more) /\ d.name \in 0 .. m
                      /\ d.seen.file \in 0 .. m
                      /\ (d.more = <<>> /\ d.at # "half") \/ Len(d.more) = 1
                      /\ ~over2 /\ (d.seen.file # NoFile => d.seen.file \in DOMAIN files2) =>
                           /\ Aimed(d.more, d.seen.file, files2)
                           /\ ~d.torn => Aimed(d.items, d.seen.file, files2)
                      /\ ~d.torn => Outlives(d.items, d.seen.items)
  BY DEF DraftTells
<1>3. /\ Listed(d.items) /\ Listed(d.more) /\ d.name \in 0 .. n /\ d.seen.file \in 0 .. n
      /\ (d.more = <<>> /\ d.at # "half") \/ Len(d.more) = 1
      /\ (~d.torn => Outlives(d.items, d.seen.items))
  BY <1>2 DEF DraftTells
<1>4. ASSUME ~over2, d.seen.file # NoFile => d.seen.file \in DOMAIN files2
      PROVE  /\ Aimed(d.more, d.seen.file, files2)
             /\ ~d.torn => Aimed(d.items, d.seen.file, files2)
  <2>1. d.seen.file # NoFile => /\ d.seen.file \in DOMAIN files
                                /\ files2[d.seen.file] = files[d.seen.file]
    BY <1>3, <1>4 DEF NoFile
  <2>2. /\ Aimed(d.more, d.seen.file, files)
        /\ ~d.torn => Aimed(d.items, d.seen.file, files)
    BY <1>2, <1>4, <2>1 DEF DraftTells
  <2> QED
    BY <1>4, <2>1, <2>2 DEF Aimed
<1> QED
  BY <1>1, <1>3, <1>4

(* The bounds of the numbers, once. *)
LEMMA Bounds ==
  ASSUME VectorInv
  PROVE  /\ named \in Nat /\ deaths \in Nat /\ json.file \in Nat
         /\ MaxFiles \in Nat /\ DOMAIN bins \subseteq 1 .. named
BY VectorAssumption DEF VectorInv, Filed

LEMMA ListedIs ==
  ASSUME VectorInv
  PROVE  /\ Len(json.items) \in Nat /\ DOMAIN json.items = 1 .. Len(json.items)
         /\ json.items \in Seq(Items) /\ Listed(json.items) /\ Outlives(json.items, json.items)
BY OutlivesItself DEF VectorInv, Listed

(* Only what one saver has in memory changes.                              *)
LEMMA HoldsSafe ==
  ASSUME VectorInv, NEW s \in Savers, NEW x, save' = [save EXCEPT ![s] = x],
         UNCHANGED <<json, bins, draft, crossed, named, deaths>>,
         \/ x.at = "none"
         \/ x.at = "loaded" /\ Remembered(x.units, crossed)
  PROVE  VectorInv' /\ Keeps
<1>1. /\ DOMAIN save' = Savers /\ save'[s] = x
      /\ \A o \in Savers : o # s => save'[o] = save[o]
  BY DEF VectorInv
<1>2. x.at \notin {"written", "replaced"}
  OBVIOUS
<1>3. SaverTells(x, json.file, bins, named, crossed)
  BY <1>2 DEF SaverTells
<1>4. \A o \in Savers : SaverTells(save'[o], json'.file, bins', named', crossed')
  BY <1>1, <1>3 DEF VectorInv
<1>5. \A o \in Savers : OwnFile(o, save', json'.file, draft')
  BY <1>1, <1>2 DEF VectorInv, OwnFile
<1> QED
  BY <1>1, <1>4, <1>5, ListedIs DEF VectorInv, Keeps

(* What a reader gets of an item: the vector of its text, unless an edit   *)
(* crossed a write.                                                        *)
LEMMA ReadIs ==
  ASSUME VectorInv, ~crossed, NEW i \in DOMAIN json.items
  PROVE  VectorOf(json.file, json.items[i]) \in {NoVector, json.items[i].text}
<1>1. Listed(json.items) /\ Aimed(json.items, json.file, bins)
  BY DEF VectorInv, Paired
<1> QED
  BY <1>1, VectorIs

(* The units of the JSON file, read with some vectors or others.           *)
LEMMA LoadedIs ==
  ASSUME VectorInv, NEW units, NEW pick,
         units = [i \in DOMAIN json.items |-> Embedded(json.items[i].text, pick[i])],
         ~crossed => \A i \in DOMAIN json.items : pick[i] \in {NoVector, json.items[i].text}
  PROVE  Remembered(units, crossed)
<1>1. DOMAIN units = 1 .. Len(json.items) /\ Len(json.items) \in Nat /\ Listed(json.items)
      /\ DOMAIN units = DOMAIN json.items /\ units = [i \in 1 .. Len(json.items) |-> units[i]]
  BY ListedIs
<1>2. IsList(units)
  <2> HIDE DEF VectorInv
  <2> QED
    BY <1>1, MadeList
<1>3. ASSUME NEW i \in DOMAIN units
      PROVE  /\ units[i].text = json.items[i].text /\ units[i].vector = pick[i]
             /\ units[i].text \in Text
  <2>1. units[i] = [text |-> json.items[i].text, vector |-> pick[i]]
    BY <1>1, <1>3 DEF Embedded
  <2>2. json.items[i] \in Items
    BY <1>1, <1>3 DEF Listed
  <2>3. json.items[i].text \in Text
    BY <2>2 DEF Items
  <2> QED
    BY <2>1, <2>3
<1>4. ASSUME NEW i \in DOMAIN units, NEW k \in DOMAIN units, units[i].text[1] = units[k].text[1]
      PROVE  i = k
  <2>1. json.items[i].text[1] = json.items[k].text[1] /\ i \in DOMAIN json.items
        /\ k \in DOMAIN json.items
    BY <1>1, <1>3, <1>4
  <2> QED
    BY <1>1, <2>1 DEF Listed, UnitOf
<1> QED
  BY <1>1, <1>2, <1>3, <1>4 DEF Remembered

LEMMA LoadSafe == ASSUME VectorInv, LoadUnits PROVE VectorInv' /\ Keeps
<1>1. UNCHANGED <<json, bins, draft, crossed, named, deaths>> /\ "worker" \in Savers
  BY DEF LoadUnits, NotYetSaved, Savers
<1>2. PICK some \in SUBSET Facts :
        HasLoaded("worker", [i \in DOMAIN json.items |->
               Embedded(json.items[i].text, IF UnitOf(json.items[i]) \in some
                                          THEN VectorOf(json.file, json.items[i]) ELSE NoVector)])
  BY DEF LoadUnits
<1>p. PICK pick : pick = [i \in DOMAIN json.items |->
                     IF UnitOf(json.items[i]) \in some
                       THEN VectorOf(json.file, json.items[i]) ELSE NoVector]
  OBVIOUS
<1>3. PICK units : units = [i \in DOMAIN json.items |-> Embedded(json.items[i].text, pick[i])]
  OBVIOUS
<1>4. ~crossed => \A i \in DOMAIN json.items : pick[i] \in {NoVector, json.items[i].text}
  BY <1>p, ReadIs
<1>5. save' = [save EXCEPT !["worker"] = [at |-> "loaded", units |-> units]]
  BY <1>2, <1>3, <1>p DEF HasLoaded
<1>6. Remembered(units, crossed)
  BY <1>3, <1>4, LoadedIs
<1> QED
  BY <1>1, <1>5, <1>6, HoldsSafe

LEMMA RebuildLoadsSafe == ASSUME VectorInv, RebuildLoads PROVE VectorInv' /\ Keeps
<1>1. UNCHANGED <<json, bins, draft, crossed, named, deaths>> /\ "rebuild" \in Savers
  BY DEF RebuildLoads, NotYetSaved, Savers
<1>2. PICK some \in SUBSET Facts :
        HasLoaded("rebuild", [i \in DOMAIN json.items |->
               Embedded(json.items[i].text, IF UnitOf(json.items[i]) \in some THEN json.items[i].text
                                          ELSE VectorOf(json.file, json.items[i]))])
  BY DEF RebuildLoads
<1>p. PICK pick : pick = [i \in DOMAIN json.items |->
                     IF UnitOf(json.items[i]) \in some THEN json.items[i].text
                       ELSE VectorOf(json.file, json.items[i])]
  OBVIOUS
<1>3. PICK units : units = [i \in DOMAIN json.items |-> Embedded(json.items[i].text, pick[i])]
  OBVIOUS
<1>4. ~crossed => \A i \in DOMAIN json.items : pick[i] \in {NoVector, json.items[i].text}
  BY <1>p, ReadIs
<1>5. save' = [save EXCEPT !["rebuild"] = [at |-> "loaded", units |-> units]]
  BY <1>2, <1>3, <1>p DEF HasLoaded
<1>6. Remembered(units, crossed)
  BY <1>3, <1>4, LoadedIs
<1> QED
  BY <1>1, <1>5, <1>6, HoldsSafe

(* What the worker changes or embeds in memory.                            *)
LEMMA AppendedUnit ==
  ASSUME NEW units, NEW over, Remembered(units, over), NEW u, u.text \in Text, u.vector = NoVector,
         \A i \in DOMAIN units : units[i].text[1] # u.text[1]
  PROVE  Remembered(Append(units, u), over)
<1>1. Len(units) \in Nat /\ DOMAIN units = 1 .. Len(units)
  BY ListHas DEF Remembered
<1>2. PICK longer : longer = Append(units, u)
  OBVIOUS
<1>3. /\ longer = [i \in 1 .. Len(units) + 1 |-> longer[i]] /\ DOMAIN longer = 1 .. Len(units) + 1
      /\ longer[Len(units) + 1] = u /\ \A i \in DOMAIN units : longer[i] = units[i]
  <2>1. units \in Seq({units[i] : i \in DOMAIN units} \cup {u})
    <3>1. units \in Seq({units[i] : i \in DOMAIN units})
      BY DEF Remembered, IsList
    <3> QED
      BY <3>1
  <2>2. longer \in Seq({units[i] : i \in DOMAIN units} \cup {u})
    BY <1>2, <2>1
  <2>3. DOMAIN longer = 1 .. Len(units) + 1
        /\ longer[Len(units) + 1] = u /\ \A i \in DOMAIN units : longer[i] = units[i]
    BY <1>1, <1>2, <2>1
  <2> QED
    BY <2>2, <2>3
<1>4. Len(units) + 1 \in Nat
  BY <1>1
<1>5. IsList(longer)
  BY <1>3, <1>4, MadeList
<1>6. \A i \in DOMAIN longer : i \in DOMAIN units \/ i = Len(units) + 1
  BY <1>1, <1>3
<1> QED
  BY <1>2, <1>3, <1>5, <1>6 DEF Remembered

LEMMA ReplacedUnit ==
  ASSUME NEW units, NEW over, Remembered(units, over), NEW i \in DOMAIN units, NEW u,
         u.text \in Text, u.text[1] = units[i].text[1], u.vector \in {NoVector, u.text}
  PROVE  Remembered([units EXCEPT ![i] = u], over)
<1>1. Len(units) \in Nat /\ DOMAIN units = 1 .. Len(units)
  BY ListHas DEF Remembered
<1>2. PICK other : other = [units EXCEPT ![i] = u]
  OBVIOUS
<1>3. /\ other = [k \in 1 .. Len(units) |-> other[k]] /\ DOMAIN other = DOMAIN units
      /\ other[i] = u /\ \A k \in DOMAIN units : k # i => other[k] = units[k]
  BY <1>1, <1>2
<1>4. IsList(other)
  BY <1>1, <1>3, MadeList
<1>5. \A k \in DOMAIN units : other[k].text[1] = units[k].text[1]
  BY <1>3
<1> QED
  BY <1>2, <1>3, <1>4, <1>5 DEF Remembered

LEMMA RemovedUnit ==
  ASSUME NEW units, NEW over, Remembered(units, over), NEW i \in DOMAIN units
  PROVE  Remembered(Without(units, i), over)
<1>0. PICK fewer : fewer = Without(units, i)
  OBVIOUS
<1> DEFINE S == {units[k] : k \in DOMAIN units}
<1>1. units \in Seq(S) /\ Len(units) \in Nat /\ DOMAIN units = 1 .. Len(units)
  BY ListHas DEF Remembered, IsList
<1>2. /\ fewer \in Seq(S)
      /\ \A n \in DOMAIN fewer : \E k \in DOMAIN units :
          fewer[n] = units[k] /\ k = (IF n < i THEN n ELSE n + 1)
  <2> HIDE DEF S
  <2> QED
    BY <1>0, <1>1, WithoutIs
<1>3. IsList(fewer)
  <2> HIDE DEF S
  <2> QED
    BY <1>2, ListIs
<1>4. \A n \in DOMAIN fewer : n \in Nat
  BY <1>3, ListHas
<1>5. ASSUME NEW n \in DOMAIN fewer, NEW m \in DOMAIN fewer, fewer[n].text[1] = fewer[m].text[1]
      PROVE  n = m
  <2>1. PICK k \in DOMAIN units : fewer[n] = units[k] /\ k = (IF n < i THEN n ELSE n + 1)
    BY <1>2
  <2>2. PICK j \in DOMAIN units : fewer[m] = units[j] /\ j = (IF m < i THEN m ELSE m + 1)
    BY <1>2
  <2>3. k = j
    BY <1>5, <2>1, <2>2 DEF Remembered
  <2> QED
    BY <1>1, <1>4, <2>1, <2>2, <2>3
<1>6. \A n \in DOMAIN fewer : fewer[n].text \in Text
      /\ (~over => fewer[n].vector \in {NoVector, fewer[n].text})
  BY <1>2 DEF Remembered
<1> QED
  BY <1>0, <1>3, <1>5, <1>6 DEF Remembered

LEMMA ChangeSafe == ASSUME VectorInv, ChangeUnits PROVE VectorInv' /\ Keeps
<1>1. UNCHANGED <<json, bins, draft, crossed, named, deaths>> /\ "worker" \in Savers
  BY DEF ChangeUnits, NotYetSaved, Savers
<1>2. PICK old : old = save["worker"].units
  OBVIOUS
<1>3. Remembered(old, crossed)
  BY <1>1, <1>2 DEF VectorInv, SaverTells, ChangeUnits
<1>4. PICK units \in Changed(old) : save' = [save EXCEPT !["worker"] = [at |-> "loaded", units |-> units]]
  BY <1>2 DEF ChangeUnits, HasLoaded
<1>5. ASSUME NEW f \in Facts, \A i \in DOMAIN old : old[i].text[1] # f,
             units = Append(old, Embedded(<<f, 1>>, NoVector))
      PROVE  Remembered(units, crossed)
  <2>1. PICK u : u = Embedded(<<f, 1>>, NoVector)
    OBVIOUS
  <2>2. <<f, 1>> \in Text /\ <<f, 1>>[1] = f
    BY VectorAssumption DEF Text
  <2>3. u.text \in Text /\ u.text[1] = f /\ u.vector = NoVector
    BY <2>1, <2>2 DEF Embedded
  <2>4. units = Append(old, u)
    BY <1>5, <2>1
  <2> QED
    BY <1>3, <1>5, <2>3, <2>4, AppendedUnit
<1>6. ASSUME NEW i \in DOMAIN old, old[i].text[2] < MaxVersion,
             units = [old EXCEPT ![i] = Embedded(<<@.text[1], @.text[2] + 1>>, NoVector)]
      PROVE  Remembered(units, crossed)
  <2>1. old[i].text \in Text
    BY <1>3 DEF Remembered
  <2>2. PICK t : t = <<old[i].text[1], old[i].text[2] + 1>>
    OBVIOUS
  <2>3. t \in Text /\ t[1] = old[i].text[1]
    <3>1. old[i].text[2] + 1 \in 1 .. MaxVersion
      BY <1>6, <2>1, TextIs, VectorAssumption
    <3> QED
      BY <2>1, <2>2, <3>1, TextIs DEF Text
  <2>4. PICK u : u = Embedded(t, NoVector)
    OBVIOUS
  <2>5. u.text \in Text /\ u.text[1] = old[i].text[1] /\ u.vector = NoVector
    BY <2>3, <2>4 DEF Embedded
  <2>6. units = [old EXCEPT ![i] = u]
    BY <1>6, <2>2, <2>4
  <2> QED
    BY <1>3, <2>5, <2>6, ReplacedUnit
<1>7. ASSUME NEW i \in DOMAIN old, units = Without(old, i) PROVE Remembered(units, crossed)
  BY <1>3, <1>7, RemovedUnit
<1>8. Remembered(units, crossed)
  BY <1>4, <1>5, <1>6, <1>7 DEF Changed
<1> QED
  BY <1>1, <1>4, <1>8, HoldsSafe

LEMMA EmbedSafe == ASSUME VectorInv, Embed PROVE VectorInv' /\ Keeps
<1>1. UNCHANGED <<json, bins, draft, crossed, named, deaths>> /\ "worker" \in Savers
  BY DEF Embed, NotYetSaved, Savers
<1>2. PICK old : old = save["worker"].units
  OBVIOUS
<1>3. Remembered(old, crossed)
  BY <1>1, <1>2 DEF VectorInv, SaverTells, Embed
<1>4. PICK i \in DOMAIN old :
        save' = [save EXCEPT !["worker"] =
                   [at |-> "loaded", units |-> [old EXCEPT ![i] = Embedded(@.text, @.text)]]]
  BY <1>2 DEF Embed, HasLoaded
<1>5. PICK u : u = Embedded(old[i].text, old[i].text)
  OBVIOUS
<1>6. u.text = old[i].text /\ u.vector = old[i].text
  BY <1>5 DEF Embedded
<1>7. PICK units : units = [old EXCEPT ![i] = u]
  OBVIOUS
<1>8. save' = [save EXCEPT !["worker"] = [at |-> "loaded", units |-> units]]
  BY <1>4, <1>5, <1>7
<1>9. old[i].text \in Text
  BY <1>3 DEF Remembered
<1>10. Remembered(units, crossed)
  BY <1>3, <1>6, <1>7, <1>9, ReplacedUnit
<1> QED
  BY <1>1, <1>8, <1>10, HoldsSafe

-----------------------------------------------------------------------------
(* A save. *)

(* What is carried over is the vector of the very text.                    *)
LEMMA CarriedIs ==
  ASSUME VectorInv, ~crossed, NEW t \in Text
  PROVE  /\ Carried(t) \in {NoVector, t}
         /\ \A i \in DOMAIN json.items :
              json.items[i].text = t /\ json.items[i].print = t => Carried(t) = t
<1>1. Listed(json.items) /\ Aimed(json.items, json.file, bins)
  BY DEF VectorInv, Paired
<1>2. t # NoVector /\ t[1] \in Facts
  BY TextIs
<1> DEFINE is == {i \in DOMAIN json.items : UnitOf(json.items[i]) = t[1]}
<1>3. CASE is = {}
  <2>1. Previous(t[1]) = Bare(<<t[1], 1>>)
    BY <1>3 DEF Previous
  <2>2. Previous(t[1]).print = NoVector
    BY <2>1 DEF Bare, Item
  <2>3. Carried(t) = NoVector
    BY <1>2, <2>2 DEF Carried, Printed
  <2> QED
    BY <1>3, <2>3 DEF UnitOf
<1>4. ASSUME NEW i \in is
      PROVE  Carried(t) \in {NoVector, t} /\ (json.items[i].print = t => Carried(t) = t)
  <2>1. \A k \in is : k = i
    BY <1>1 DEF Listed
  <2>2. Previous(t[1]) = json.items[i]
    BY <2>1 DEF Previous
  <2>3. json.items[i].print = t =>
           /\ json.items[i].offset > 0 /\ json.file # NoFile /\ json.file \in DOMAIN bins
           /\ json.items[i].offset <= Len(bins[json.file])
           /\ bins[json.file][json.items[i].offset] = t
    BY <1>1, <1>2 DEF Listed, Aimed
  <2> QED
    BY <2>2, <2>3 DEF Carried, Printed, Bytes, Exists
<1>5. ASSUME is # {} PROVE Carried(t) \in {NoVector, t}
  BY <1>4, <1>5
<1>6. ASSUME NEW i \in DOMAIN json.items, json.items[i].text = t, json.items[i].print = t
      PROVE  Carried(t) = t
  BY <1>4, <1>6 DEF UnitOf
<1> QED
  BY <1>3, <1>5, <1>6

LEMMA PackedIs ==
  ASSUME VectorInv, NEW units, Remembered(units, crossed)
  PROVE  /\ Packs(Packed(units)) /\ DOMAIN Packed(units) = DOMAIN units
         /\ ~crossed => \A k \in DOMAIN units :
              /\ Packed(units)[k] \in {NoVector, units[k].text}
              /\ \A i \in DOMAIN json.items :
                   json.items[i].text = units[k].text /\ json.items[i].print = units[k].text
                     => Packed(units)[k] = units[k].text
<1>1. Len(units) \in Nat /\ DOMAIN units = 1 .. Len(units)
  BY ListHas DEF Remembered
<1>2. DOMAIN Packed(units) = DOMAIN units
      /\ Packed(units) = [i \in 1 .. Len(units) |-> Packed(units)[i]]
  BY <1>1 DEF Packed
<1>3. ASSUME ~crossed, NEW k \in DOMAIN units
      PROVE  /\ Packed(units)[k] \in {NoVector, units[k].text}
             /\ \A i \in DOMAIN json.items :
                  json.items[i].text = units[k].text /\ json.items[i].print = units[k].text
                    => Packed(units)[k] = units[k].text
  <2>1. units[k].text \in Text /\ units[k].vector \in {NoVector, units[k].text}
    BY <1>3 DEF Remembered
  <2>2. Packed(units)[k] = IF units[k].vector # NoVector THEN units[k].vector
                             ELSE Carried(units[k].text)
    BY DEF Packed
  <2>3. Carried(units[k].text) \in {NoVector, units[k].text}
        /\ \A i \in DOMAIN json.items :
             json.items[i].text = units[k].text /\ json.items[i].print = units[k].text
               => Carried(units[k].text) = units[k].text
    BY <1>3, <2>1, CarriedIs
  <2> QED
    BY <2>1, <2>2, <2>3
<1>4. Packs(Packed(units))
  BY <1>1, <1>2, MadeList DEF Packs
<1> QED
  BY <1>2, <1>3, <1>4

(* What a save writes: the list, and the file it will name.                *)
ListOf(units) ==
  [i \in DOMAIN units |->
     IF Packed(units)[i] = NoVector THEN Bare(units[i].text)
       ELSE Item(units[i].text, Offset(Packed(units), i), units[i].text)]
FileOf(units) == IF Blob(Packed(units)) = <<>> THEN NoFile ELSE named + 1

LEMMA ListOfIs ==
  ASSUME VectorInv, NEW units, Remembered(units, crossed)
  PROVE  /\ Listed(ListOf(units))
         /\ ~crossed => Outlives(ListOf(units), json.items)
         /\ \A i \in DOMAIN ListOf(units) : ListOf(units)[i].offset > 0 /\ ~crossed =>
                 /\ Blob(Packed(units)) # <<>>
                 /\ ListOf(units)[i].offset <= Len(Blob(Packed(units)))
                 /\ Blob(Packed(units))[ListOf(units)[i].offset] = ListOf(units)[i].print
<1>1. PICK packed : packed = Packed(units)
  OBVIOUS
<1>2. Len(units) \in Nat /\ DOMAIN units = 1 .. Len(units)
  BY ListHas DEF Remembered
<1>3. /\ Packs(packed) /\ DOMAIN packed = DOMAIN units
      /\ ~crossed => \A k \in DOMAIN units :
           /\ packed[k] \in {NoVector, units[k].text}
           /\ \A i \in DOMAIN json.items :
                json.items[i].text = units[k].text /\ json.items[i].print = units[k].text
                  => packed[k] = units[k].text
  BY <1>1, PackedIs
<1> DEFINE made(i) == IF packed[i] = NoVector THEN Bare(units[i].text)
                         ELSE Item(units[i].text, Offset(packed, i), units[i].text)
           list == [i \in DOMAIN units |-> made(i)]
<1>4. ASSUME NEW i \in DOMAIN units
      PROVE  /\ made(i) \in Items /\ made(i).text = units[i].text
             /\ made(i).offset > 0 <=> made(i).print # NoVector
             /\ made(i).print = (IF packed[i] = NoVector THEN NoVector ELSE units[i].text)
             /\ made(i).offset > 0 /\ ~crossed =>
                  /\ Blob(packed) # <<>> /\ made(i).offset <= Len(Blob(packed))
                  /\ Blob(packed)[made(i).offset] = made(i).print
  <2>2. units[i].text \in Text /\ units[i].text # NoVector
    BY TextIs DEF Remembered
  <2>3. CASE packed[i] = NoVector
    <3>1. made(i) = [text |-> units[i].text, offset |-> 0, print |-> NoVector]
      BY <2>3 DEF Bare, Item
    <3> QED
      BY <2>2, <2>3, <3>1 DEF Items, Vectors
  <2>4. CASE packed[i] # NoVector
    <3>1. ~crossed => packed[i] = units[i].text
      BY <1>3, <2>4
    <3>2. made(i) = [text |-> units[i].text, offset |-> Offset(packed, i), print |-> units[i].text]
      BY <2>4 DEF Item
    <3>3. /\ Offset(packed, i) \in 1 .. Len(Blob(packed)) /\ Blob(packed) # <<>>
          /\ Blob(packed)[Offset(packed, i)] = packed[i]
      BY <1>3, <2>4, BlobHolds
    <3>i. i \in Nat
      BY <1>2
    <3>4. Offset(packed, i) \in Nat
      BY <3>i, OffsetIs
    <3> HIDE DEF made
    <3>5. Offset(packed, i) > 0 /\ Offset(packed, i) <= Len(Blob(packed))
      BY <3>3, <3>4
    <3> QED
      BY <2>2, <2>4, <3>1, <3>2, <3>3, <3>4, <3>5 DEF Items, Vectors
  <2> QED
    BY <2>3, <2>4
<1>5. list = ListOf(units)
  BY <1>1 DEF ListOf
<1>6. /\ DOMAIN list = DOMAIN units /\ \A i \in DOMAIN units : list[i] = made(i)
      /\ list \in [1 .. Len(units) -> Items]
  BY <1>2, <1>4
<1>7. list \in Seq(Items)
  BY <1>2, <1>6
<1> HIDE DEF made, list
<1>8. Listed(list)
  <2>1. ASSUME NEW i \in DOMAIN list, NEW k \in DOMAIN list, UnitOf(list[i]) = UnitOf(list[k])
        PROVE  i = k
    <3>1. units[i].text[1] = units[k].text[1]
      BY <1>4, <1>6, <2>1 DEF UnitOf
    <3> QED
      BY <1>6, <3>1 DEF Remembered
  <2>2. \A i \in DOMAIN list : list[i].offset > 0 <=> list[i].print # NoVector
    BY <1>4, <1>6
  <2> QED
    BY <1>7, <2>1, <2>2 DEF Listed
<1>9. ASSUME ~crossed PROVE Outlives(list, json.items)
  <2>1. ASSUME NEW i \in DOMAIN json.items, NEW k \in DOMAIN list,
               json.items[i].text = list[k].text, json.items[i].print = json.items[i].text
        PROVE  list[k].print = list[k].text
    <3>1. list[k].text = units[k].text /\ packed[k] = units[k].text /\ units[k].text \in Text
      BY <1>3, <1>4, <1>6, <1>9, <2>1 DEF Remembered
    <3>2. packed[k] # NoVector
      BY <3>1, TextIs
    <3> QED
      BY <1>4, <1>6, <3>1, <3>2
  <2> QED
    BY <2>1 DEF Outlives
<1>10. \A i \in DOMAIN list : list[i].offset > 0 /\ ~crossed =>
                 /\ Blob(packed) # <<>> /\ list[i].offset <= Len(Blob(packed))
                 /\ Blob(packed)[list[i].offset] = list[i].print
  BY <1>4, <1>6
<1> QED
  BY <1>1, <1>5, <1>8, <1>9, <1>10

LEMMA SaveVectorsSafe ==
  ASSUME VectorInv, NEW s \in Savers, SaveVectors(s) PROVE VectorInv' /\ Keeps
<1>1. PICK units, blob, list, file :
        units = save[s].units /\ blob = Blob(Packed(units)) /\ list = ListOf(units)
        /\ file = FileOf(units)
  OBVIOUS
<1>2. PICK x : x = [at |-> "written", seen |-> json, new |-> file, items |-> list]
  OBVIOUS
<1>3. /\ save[s].at = "loaded" /\ named < MaxFiles /\ named' = named + 1
      /\ save' = [save EXCEPT ![s] = x]
      /\ bins' = IF blob = <<>> THEN bins
                   ELSE [n \in DOMAIN bins \union {named + 1} |-> IF n = named + 1 THEN blob ELSE bins[n]]
      /\ UNCHANGED <<json, draft, crossed, changes, deaths>>
  BY <1>1, <1>2 DEF SaveVectors, ListOf, FileOf
<1>4. Remembered(units, crossed)
  BY <1>1, <1>3 DEF VectorInv, SaverTells
<1>5. /\ Listed(list) /\ list \in Seq(Items)
      /\ ~crossed => Outlives(list, json.items)
      /\ \A i \in DOMAIN list : list[i].offset > 0 /\ ~crossed =>
                 /\ blob # <<>> /\ list[i].offset <= Len(blob) /\ blob[list[i].offset] = list[i].print
  BY <1>1, <1>4, ListOfIs DEF Listed
<1>6. /\ named \in Nat /\ named' \in Nat /\ named <= named' /\ named' \in 0 .. MaxFiles
      /\ named + 1 \in 1 .. named' /\ named + 1 # NoFile /\ named + 1 \notin DOMAIN bins
      /\ 0 .. named \subseteq 0 .. named' /\ named + 1 \notin 0 .. named
      /\ DOMAIN bins \subseteq 1 .. named /\ 1 .. named \subseteq 1 .. named'
  BY <1>3, Bounds DEF NoFile
<1>7. /\ DOMAIN bins \subseteq DOMAIN bins' /\ \A n \in DOMAIN bins : bins'[n] = bins[n]
      /\ DOMAIN bins' \subseteq DOMAIN bins \union {named + 1}
      /\ blob # <<>> => named + 1 \in DOMAIN bins' /\ bins'[named + 1] = blob
  BY <1>3, <1>6
<1>8. Filed(bins', named', deaths')
  <2>1. \A n \in DOMAIN bins' : bins'[n] # <<>>
    <3>1. CASE blob = <<>>
      BY <1>3, <3>1 DEF VectorInv, Filed
    <3>2. CASE blob # <<>>
      BY <1>7, <3>2 DEF VectorInv, Filed
    <3> QED
      BY <3>1, <3>2
  <2> QED
    BY <1>3, <1>6, <1>7, <2>1 DEF VectorInv, Filed
<1>9. ~crossed' => Paired(json'.items, json'.file, bins')
  BY <1>3, <1>7 DEF VectorInv, Paired, Aimed
<1>10. file \in 0 .. named' /\ file \in Nat /\ (file # NoFile => file = named + 1 /\ blob # <<>>)
       /\ (blob # <<>> => file = named + 1)
  BY <1>1, <1>6 DEF FileOf, NoFile
<1>11. x \in Saves /\ x.at = "written" /\ x.seen = json /\ x.new = file /\ x.items = list
  <2>1. json \in Pages
    BY DEF VectorInv
  <2> QED
    BY <1>2, <1>5, <1>10, <2>1 DEF Saves
<1>12. ~crossed => Paired(list, file, bins')
  BY <1>5, <1>6, <1>7, <1>10 DEF Paired, Aimed
<1>13. SaverTells(x, json'.file, bins', named', crossed')
  BY <1>3, <1>5, <1>6, <1>10, <1>11, <1>12 DEF SaverTells, VectorInv
<1>14. DOMAIN save' = Savers /\ save'[s] = x /\ \A o \in Savers : o # s => save'[o] = save[o]
  BY <1>3 DEF VectorInv
<1>15. ASSUME NEW o \in Savers, o # s
       PROVE SaverTells(save'[o], json'.file, bins', named', crossed')
  <2>1. SaverTells(save[o], json.file, bins, named, crossed) /\ crossed \in BOOLEAN
    BY DEF VectorInv
  <2>2. save[o].at = "replaced" /\ ~crossed /\ save[o].seen.file # NoFile
          => json.file # save[o].seen.file
    BY <2>1 DEF SaverTells
  <2>3. SaverTells(save[o], json.file, bins', named', crossed)
    BY <1>6, <1>7, <2>1, <2>2, SaverStays
  <2> QED
    BY <1>3, <1>14, <1>15, <2>3
<1>16. ASSUME NEW o \in Savers PROVE OwnFile(o, save', json'.file, draft')
  <2>1. json.file \in 0 .. named
        /\ \A p \in Savers : /\ save[p].at \in {"written", "replaced"} => save[p].seen.file \in 0 .. named
                             /\ save[p].at = "written" => save[p].new \in 0 .. named
    BY DEF VectorInv, SaverTells
  <2>2. draft.at = "named" => draft.name \in 0 .. named
    BY DEF VectorInv, DraftTells
  <2>3. CASE o = s
    BY <1>3, <1>6, <1>10, <1>11, <1>14, <2>1, <2>2, <2>3 DEF OwnFile
  <2>4. CASE o # s
    <3>1. OwnFile(o, save, json.file, draft)
      BY DEF VectorInv
    <3>2. ASSUME save[o].at = "written", save[o].new # NoFile
          PROVE  json.file # save[o].new /\ file # save[o].new
      BY <1>6, <1>10, <2>1, <3>1, <3>2 DEF OwnFile
    <3> QED
      BY <1>3, <1>11, <1>14, <2>4, <3>1, <3>2 DEF OwnFile
  <2> QED
    BY <2>3, <2>4
<1>17. DraftTells(draft', bins', named', crossed')
  <2>1. DraftTells(draft, bins, named, crossed) /\ crossed \in BOOLEAN
    BY DEF VectorInv
  <2>2. \A f \in 1 .. named : f \in DOMAIN bins' => f \in DOMAIN bins /\ bins'[f] = bins[f]
    BY <1>6, <1>7
  <2>3. DraftTells(draft, bins', named', crossed)
    BY <1>6, <2>1, <2>2, DraftStays
  <2> QED
    BY <1>3, <2>3
<1>18. Outlives(json'.items, json.items)
  BY <1>3, ListedIs
<1>19. json' \in Pages /\ Listed(json'.items) /\ json'.file \in 0 .. named' /\ crossed' \in BOOLEAN
  BY <1>3, <1>6 DEF VectorInv
<1>20. \A o \in Savers : SaverTells(save'[o], json'.file, bins', named', crossed')
  BY <1>13, <1>14, <1>15
<1> QED
  BY <1>8, <1>9, <1>14, <1>16, <1>17, <1>18, <1>19, <1>20 DEF VectorInv, Keeps

LEMMA SaveItemsSafe ==
  ASSUME VectorInv, NEW s \in Savers, SaveItems(s) PROVE VectorInv' /\ Keeps
<1>1. PICK x : x = save[s]
  OBVIOUS
<1>2. PICK y : y = [x EXCEPT !.at = "replaced"]
  OBVIOUS
<1>3. /\ x.at = "written" /\ json' = [items |-> x.items, file |-> x.new]
      /\ save' = [save EXCEPT ![s] = y]
      /\ UNCHANGED <<bins, draft, crossed, named, changes, deaths>>
  BY <1>1, <1>2 DEF SaveItems
<1>4. /\ x \in Saves /\ Listed(x.items) /\ x.items \in Seq(Items) /\ x.new \in 0 .. named /\ x.new \in Nat
      /\ ~crossed => Paired(x.items, x.new, bins) /\ Outlives(x.items, x.seen.items)
      /\ x.seen.file \in 0 .. named
  BY <1>1, <1>3 DEF VectorInv, SaverTells, Saves, Listed
<1>5. y \in Saves /\ y.at = "replaced" /\ y.new = x.new /\ y.seen = x.seen
  BY <1>2, <1>4 DEF Saves
<1>6. json'.items = x.items /\ json'.file = x.new /\ json' \in Pages
  BY <1>3, <1>4 DEF Pages
<1>7. DOMAIN save' = Savers /\ save'[s] = y /\ \A o \in Savers : o # s => save'[o] = save[o]
  BY <1>3 DEF VectorInv
<1>8. x.new # NoFile =>
        /\ \A o \in Savers : /\ save[o].at \in {"written", "replaced"} => save[o].seen.file # x.new
                             /\ save[o].at = "written" /\ o # s => save[o].new # x.new
        /\ x.seen.file # x.new
  BY <1>1, <1>3 DEF VectorInv, OwnFile
<1>9. SaverTells(y, json'.file, bins', named', crossed')
  BY <1>3, <1>4, <1>5, <1>6, <1>8 DEF SaverTells
<1>10. ASSUME NEW o \in Savers, o # s
       PROVE SaverTells(save'[o], json'.file, bins', named', crossed')
  <2>1. SaverTells(save[o], json.file, bins, named, crossed) /\ crossed \in BOOLEAN /\ named \in Nat
    BY Bounds DEF VectorInv
  <2>2. SaverTells(save[o], x.new, bins, named, crossed)
    BY <1>8, <2>1 DEF SaverTells
  <2> QED
    BY <1>3, <1>6, <1>7, <1>10, <2>2
<1>11. ASSUME NEW o \in Savers PROVE OwnFile(o, save', json'.file, draft')
  <2>1. CASE o = s
    BY <1>5, <1>7, <2>1 DEF OwnFile
  <2>2. CASE o # s
    <3>1. OwnFile(o, save, json.file, draft)
      BY DEF VectorInv
    <3>2. ASSUME save[o].at = "written", save[o].new # NoFile PROVE x.new # save[o].new
      BY <1>8, <2>2, <3>2 
    <3>3. x.seen.file # save[o].new \/ save[o].at # "written" \/ save[o].new = NoFile
      BY <1>1, <1>3, <3>1 DEF OwnFile
    <3> QED
      BY <1>1, <1>3, <1>5, <1>6, <1>7, <2>2, <3>1, <3>2, <3>3 DEF OwnFile
  <2> QED
    BY <2>1, <2>2
<1>12. ~crossed' /\ ~Overtakes => Outlives(json'.items, json.items)
  <2>1. SUFFICES ASSUME ~crossed, ~Overtakes PROVE Outlives(json'.items, json.items)
    BY <1>3
  <2>2. save[s].seen = json
    BY <1>1, <1>3, <1>5, <1>7, <2>1 DEF Overtakes
  <2> QED
    BY <1>1, <1>4, <1>6, <2>1, <2>2
<1>13. \A o \in Savers : SaverTells(save'[o], json'.file, bins', named', crossed')
  BY <1>7, <1>9, <1>10
<1>14. ~crossed' => Paired(json'.items, json'.file, bins')
  BY <1>3, <1>4, <1>6
<1>15. /\ Listed(json'.items) /\ json'.file \in 0 .. named' /\ crossed' \in BOOLEAN
       /\ Filed(bins', named', deaths') /\ DraftTells(draft', bins', named', crossed')
  BY <1>3, <1>4, <1>6 DEF VectorInv
<1> QED
  BY <1>6, <1>7, <1>11, <1>12, <1>13, <1>14, <1>15 DEF VectorInv, Keeps

LEMMA DiscardsSafe ==
  ASSUME VectorInv, NEW s \in Savers, SaveDiscards(s) PROVE VectorInv' /\ Keeps
<1>1. /\ save[s].at = "replaced" /\ bins' = [n \in DOMAIN bins \ {save[s].seen.file} |-> bins[n]]
      /\ save' = [save EXCEPT ![s] = NoSave]
      /\ UNCHANGED <<json, draft, crossed, named, changes, deaths>>
  BY DEF SaveDiscards
<1>2. PICK gone : gone = save[s].seen.file
  OBVIOUS
<1>3. /\ bins' = [n \in DOMAIN bins \ {gone} |-> bins[n]]
      /\ DOMAIN bins' = DOMAIN bins \ {gone} /\ \A n \in DOMAIN bins' : bins'[n] = bins[n]
  BY <1>1, <1>2
<1>4. /\ DOMAIN save' = Savers /\ save'[s] = NoSave /\ NoSave.at = "none"
      /\ \A o \in Savers : o # s => save'[o] = save[o]
  BY <1>1 DEF VectorInv, NoSave
<1>5. ~crossed' => Paired(json'.items, json'.file, bins')
  <2>1. SUFFICES ASSUME ~crossed PROVE Paired(json.items, json.file, bins')
    BY <1>1
  <2>2. json.file # NoFile => json.file \in DOMAIN bins /\ json.file # gone
    <3>1. json.file # NoFile => json.file \in DOMAIN bins
      BY <2>1 DEF VectorInv, Paired
    <3>2. gone # NoFile => json.file # gone
      BY <1>1, <1>2, <2>1 DEF VectorInv, SaverTells
    <3> QED
      BY <3>1, <3>2
  <2> QED
    BY <1>3, <2>1, <2>2 DEF VectorInv, Paired, Aimed
<1>6. Filed(bins', named', deaths')
  BY <1>1, <1>3 DEF VectorInv, Filed
<1>7. SaverTells(NoSave, json'.file, bins', named', crossed')
  BY <1>4 DEF SaverTells
<1>8. ASSUME NEW o \in Savers, o # s
      PROVE SaverTells(save'[o], json'.file, bins', named', crossed')
  <2>1. /\ SaverTells(save[o], json.file, bins, named, crossed) /\ crossed \in BOOLEAN
        /\ named \in Nat /\ DOMAIN bins \subseteq 1 .. named
    BY Bounds DEF VectorInv
  <2>2. save[o].at = "replaced" /\ ~crossed /\ save[o].seen.file # NoFile
          => json.file # save[o].seen.file
    BY <2>1 DEF SaverTells
  <2>3. save[o].at = "written" /\ save[o].new \in DOMAIN bins =>
           save[o].new \in DOMAIN bins' /\ bins'[save[o].new] = bins[save[o].new]
    <3>1. SUFFICES ASSUME save[o].at = "written", save[o].new \in DOMAIN bins
                   PROVE  save[o].new # gone
      BY <1>3
    <3>2. save[o].new # NoFile
      BY <2>1, <3>1 DEF NoFile
    <3> QED
      BY <1>1, <1>2, <3>1, <3>2 DEF VectorInv, OwnFile
  <2>4. SaverTells(save[o], json.file, bins', named, crossed)
    BY <2>1, <2>2, <2>3, SaverStays
  <2> QED
    BY <1>1, <1>4, <1>8, <2>4
<1>9. ASSUME NEW o \in Savers PROVE OwnFile(o, save', json'.file, draft')
  BY <1>1, <1>4 DEF VectorInv, OwnFile
<1>10. DraftTells(draft', bins', named', crossed')
  <2>1. DraftTells(draft, bins, named, crossed) /\ crossed \in BOOLEAN /\ named \in Nat
    BY Bounds DEF VectorInv
  <2>2. \A f \in 1 .. named : f \in DOMAIN bins' => f \in DOMAIN bins /\ bins'[f] = bins[f]
    BY <1>3
  <2>3. DraftTells(draft, bins', named, crossed)
    BY <2>1, <2>2, DraftStays
  <2> QED
    BY <1>1, <2>3
<1>11. \A o \in Savers : SaverTells(save'[o], json'.file, bins', named', crossed')
  BY <1>4, <1>7, <1>8
<1>12. json' \in Pages /\ Listed(json'.items) /\ json'.file \in 0 .. named' /\ crossed' \in BOOLEAN
       /\ Outlives(json'.items, json.items)
  BY <1>1, ListedIs DEF VectorInv
<1> QED
  BY <1>4, <1>5, <1>6, <1>9, <1>10, <1>11, <1>12 DEF VectorInv, Keeps

LEMMA DiesSafe ==
  ASSUME VectorInv, NEW s \in Savers, Dies(s) PROVE VectorInv' /\ Keeps
<1>1. /\ deaths < MaxDeaths /\ deaths' = deaths + 1 /\ save' = [save EXCEPT ![s] = NoSave]
      /\ draft' \in {NoDraft, draft}
      /\ UNCHANGED <<json, bins, crossed, named, changes>>
  BY DEF Dies
<1>2. /\ DOMAIN save' = Savers /\ save'[s] = NoSave /\ NoSave.at = "none" /\ NoDraft.at = "none"
      /\ \A o \in Savers : o # s => save'[o] = save[o]
  BY <1>1 DEF VectorInv, NoSave, NoDraft
<1>3. Filed(bins', named', deaths')
  <2>1. deaths' \in 0 .. MaxDeaths
    BY <1>1, VectorAssumption DEF VectorInv, Filed
  <2> QED
    BY <1>1, <2>1 DEF VectorInv, Filed
<1>4. SaverTells(NoSave, json.file, bins, named, crossed)
  BY <1>2 DEF SaverTells
<1>5. \A o \in Savers : SaverTells(save'[o], json'.file, bins', named', crossed')
  BY <1>1, <1>2, <1>4 DEF VectorInv
<1>6. ASSUME NEW o \in Savers PROVE OwnFile(o, save', json'.file, draft')
  BY <1>1, <1>2 DEF VectorInv, OwnFile
<1>7. DraftTells(draft', bins', named', crossed')
  <2>1. DraftTells(NoDraft, bins, named, crossed)
    BY <1>2 DEF DraftTells
  <2> QED
    BY <1>1, <2>1 DEF VectorInv
<1>8. /\ json' \in Pages /\ Listed(json'.items) /\ json'.file \in 0 .. named' /\ crossed' \in BOOLEAN
      /\ (~crossed' => Paired(json'.items, json'.file, bins'))
      /\ Outlives(json'.items, json.items)
  BY <1>1, ListedIs DEF VectorInv
<1> QED
  BY <1>2, <1>3, <1>5, <1>6, <1>7, <1>8 DEF VectorInv, Keeps

-----------------------------------------------------------------------------
(* The web interface. *)

LEMMA VectorInitSafe == ASSUME VectorInit PROVE VectorInv
<1>1. PICK n \in 0 .. Cardinality(Facts) : \E order \in [1 .. n -> Facts] :
        /\ \A i, k \in 1 .. n : order[i] = order[k] => i = k
        /\ json = SavedAs(order) /\ named = json.file
        /\ bins = [f \in 1 .. named |-> [i \in 1 .. n |-> <<order[i], 1>>]]
  BY DEF VectorInit
<1>2. PICK order \in [1 .. n -> Facts] :
        /\ \A i, k \in 1 .. n : order[i] = order[k] => i = k
        /\ json = SavedAs(order) /\ named = json.file
        /\ bins = [f \in 1 .. named |-> [i \in 1 .. n |-> <<order[i], 1>>]]
  BY <1>1
<1>3. n \in Nat
  BY VectorAssumption, FS_CardinalityType
<1>4. DOMAIN order = 1 .. n
  BY <1>2
<1>5. /\ json.file = (IF order = <<>> THEN NoFile ELSE 1)
      /\ json.items = [i \in 1 .. n |-> Item(<<order[i], 1>>, i, <<order[i], 1>>)]
      /\ DOMAIN json.items = 1 .. n
  BY <1>2, <1>4 DEF SavedAs
<1>6. json.file \in {0, 1} /\ json.file \in Nat /\ named = json.file
  BY <1>2, <1>5 DEF NoFile
<1>7. n # 0 => named = 1
  <2>1. n # 0 => DOMAIN order # {}
    BY <1>3, <1>4
  <2>2. n # 0 => order # <<>>
    BY <2>1
  <2> QED
    BY <1>5, <1>6, <2>2
<1>8. n = 0 => named = 0
  <2>1. n = 0 => order = <<>>
    BY <1>2
  <2> QED
    BY <1>5, <1>6, <2>1 DEF NoFile
<1>9. ASSUME NEW i \in 1 .. n
      PROVE  /\ json.items[i] \in Items /\ json.items[i].text = <<order[i], 1>>
             /\ json.items[i].offset = i /\ json.items[i].print = <<order[i], 1>>
             /\ json.items[i].print # NoVector /\ UnitOf(json.items[i]) = order[i]
  <2>1. <<order[i], 1>> \in Text
    BY <1>2, VectorAssumption DEF Text
  <2>2. i \in Nat
    BY <1>3
  <2>3. json.items[i] = [text |-> <<order[i], 1>>, offset |-> i, print |-> <<order[i], 1>>]
    BY <1>5 DEF Item
  <2> QED
    BY <2>1, <2>2, <2>3, TextIs DEF Items, Vectors, UnitOf
<1>10. json.items \in Seq(Items)
  <2>1. json.items \in [1 .. n -> Items]
    <3>1. json.items = [i \in 1 .. n |-> json.items[i]]
      BY <1>5
    <3> QED
      BY <1>9, <3>1
  <2> QED
    BY <1>3, <2>1
<1>11. Listed(json.items)
  <2>1. \A i \in DOMAIN json.items : json.items[i].offset > 0 <=> json.items[i].print # NoVector
    BY <1>3, <1>5, <1>9
  <2>2. \A i, k \in DOMAIN json.items : UnitOf(json.items[i]) = UnitOf(json.items[k]) => i = k
    BY <1>2, <1>5, <1>9
  <2> QED
    BY <1>10, <2>1, <2>2 DEF Listed
<1>12. json \in Pages
  BY <1>2, <1>6, <1>10 DEF SavedAs, Pages
<1>13. DOMAIN bins = 1 .. named /\ \A f \in DOMAIN bins : bins[f] = [i \in 1 .. n |-> <<order[i], 1>>]
  BY <1>2
<1>14. \A f \in DOMAIN bins : Len(bins[f]) = n /\ bins[f] # <<>>
  <2> SUFFICES ASSUME NEW f \in DOMAIN bins PROVE Len(bins[f]) = n /\ bins[f] # <<>>
    OBVIOUS
  <2>1. DOMAIN bins[f] = 1 .. n /\ bins[f] = [i \in 1 .. n |-> bins[f][i]]
    BY <1>13
  <2>2. Len(bins[f]) = n
    BY <1>3, <2>1, MadeList
  <2>3. named # 0
    BY <1>6, <1>13
  <2>4. n # 0
    BY <1>8, <2>3
  <2>5. 1 \in 1 .. n
    BY <1>3, <2>4
  <2>6. DOMAIN bins[f] # {}
    BY <2>1, <2>5
  <2> QED
    BY <2>2, <2>6
<1>15. Paired(json.items, json.file, bins)
  <2>1. ASSUME NEW i \in DOMAIN json.items
        PROVE  /\ json.file # NoFile /\ json.file \in DOMAIN bins
               /\ json.items[i].offset <= Len(bins[json.file])
               /\ bins[json.file][json.items[i].offset] = json.items[i].print
    <3>1. n # 0 /\ i \in 1 .. n
      BY <1>3, <1>5
    <3>2. json.file = 1 /\ 1 \in DOMAIN bins
      BY <1>6, <1>7, <1>13, <3>1
    <3>3. Len(bins[1]) = n /\ bins[1][i] = <<order[i], 1>>
      BY <1>13, <1>14, <3>1, <3>2
    <3> QED
      BY <1>3, <1>9, <3>1, <3>2, <3>3 DEF NoFile
  <2>2. json.file # NoFile => json.file \in DOMAIN bins
    BY <1>6, <1>13 DEF NoFile
  <2> QED
    BY <2>1, <2>2 DEF Paired, Aimed
<1>16. /\ crossed = FALSE /\ deaths = 0 /\ draft = NoDraft /\ draft.at = "none"
       /\ DOMAIN save = Savers /\ \A s \in Savers : save[s].at = "none"
  BY DEF VectorInit, NoSave, NoDraft
<1>17. Filed(bins, named, deaths)
  <2>1. named \in 0 .. MaxFiles /\ deaths \in 0 .. MaxDeaths
    BY <1>6, <1>16, VectorAssumption
  <2> QED
    BY <1>13, <1>14, <2>1 DEF Filed
<1>18. \A s \in Savers : /\ SaverTells(save[s], json.file, bins, named, crossed)
                         /\ OwnFile(s, save, json.file, draft)
  BY <1>16 DEF SaverTells, OwnFile
<1>19. DraftTells(draft, bins, named, crossed)
  BY <1>16 DEF DraftTells
<1>20. json.file \in 0 .. named
  BY <1>6
<1>21. crossed \in BOOLEAN
  BY <1>16
<1> QED
  BY <1>11, <1>12, <1>15, <1>16, <1>17, <1>18, <1>19, <1>20, <1>21 DEF VectorInv

(* A list without one of its items. *)
LEMMA ShorterIs ==
  ASSUME NEW list, Listed(list), NEW i \in DOMAIN list
  PROVE  /\ Listed(Without(list, i))
         /\ \A file, files : Aimed(list, file, files) => Aimed(Without(list, i), file, files)
         /\ Outlives(Without(list, i), list)
         /\ \A n \in DOMAIN Without(list, i) : UnitOf(Without(list, i)[n]) # UnitOf(list[i])
<1>1. PICK short : short = Without(list, i)
  OBVIOUS
<1>2. /\ list \in Seq(Items) /\ short \in Seq(Items)
      /\ \A n \in DOMAIN short : \E k \in DOMAIN list \ {i} :
              short[n] = list[k] /\ k = (IF n < i THEN n ELSE n + 1)
  BY <1>1, WithoutIs DEF Listed
<1>3. \A n \in DOMAIN short : n \in Nat
  BY <1>2
<1>4. i \in Nat /\ \A k \in DOMAIN list : k \in Nat
  BY <1>2
<1>5. ASSUME NEW n \in DOMAIN short, NEW m \in DOMAIN short, UnitOf(short[n]) = UnitOf(short[m])
      PROVE  n = m
  <2>1. PICK k \in DOMAIN list : short[n] = list[k] /\ k = (IF n < i THEN n ELSE n + 1)
    BY <1>2
  <2>2. PICK j \in DOMAIN list : short[m] = list[j] /\ j = (IF m < i THEN m ELSE m + 1)
    BY <1>2
  <2>3. k = j
    BY <1>5, <2>1, <2>2 DEF Listed
  <2> QED
    BY <1>3, <1>4, <2>1, <2>2, <2>3
<1>6. Listed(short)
  BY <1>2, <1>5 DEF Listed
<1>7. \A file, files : Aimed(list, file, files) => Aimed(short, file, files)
  BY <1>2 DEF Aimed
<1>8. Outlives(short, list)
  BY <1>2, OutlivesItself DEF Outlives
<1>9. \A n \in DOMAIN short : UnitOf(short[n]) # UnitOf(list[i])
  BY <1>2 DEF Listed
<1> QED
  BY <1>1, <1>6, <1>7, <1>8, <1>9

(* A list with an item of a unit it lacks. *)
LEMMA LongerIs ==
  ASSUME NEW list, Listed(list), NEW x \in Items, x.offset > 0 <=> x.print # NoVector,
         \A i \in DOMAIN list : UnitOf(list[i]) # UnitOf(x)
  PROVE  /\ Listed(Append(list, x))
         /\ Outlives(Append(list, x), list)
         /\ \A file, files : Aimed(list, file, files) /\ Aimed(<<x>>, file, files)
               => Aimed(Append(list, x), file, files)
<1>1. PICK long : long = Append(list, x)
  OBVIOUS
<1>2. /\ long \in Seq(Items) /\ DOMAIN long = DOMAIN list \cup {Len(list) + 1}
      /\ long[Len(list) + 1] = x /\ \A n \in DOMAIN list : long[n] = list[n]
  BY <1>1 DEF Listed
<1>3. \A n \in DOMAIN long : (n \in DOMAIN list /\ long[n] = list[n]) \/ (n = Len(list) + 1 /\ long[n] = x)
  BY <1>2
<1>4. \A n, m \in DOMAIN long : UnitOf(long[n]) = UnitOf(long[m]) => n = m
  BY <1>3 DEF Listed
<1>5. \A n \in DOMAIN long : long[n].offset > 0 <=> long[n].print # NoVector
  BY <1>3 DEF Listed
<1>6. Listed(long)
  BY <1>2, <1>4, <1>5 DEF Listed
<1>7. Outlives(long, list)
  <2>1. \A i \in DOMAIN list : list[i].text # x.text
    BY DEF UnitOf
  <2> QED
    BY <1>3, <2>1, OutlivesItself DEF Outlives
<1>8. \A file, files : Aimed(list, file, files) /\ Aimed(<<x>>, file, files) => Aimed(long, file, files)
  <2> SUFFICES ASSUME NEW file, NEW files, Aimed(list, file, files), Aimed(<<x>>, file, files)
               PROVE  Aimed(long, file, files)
    OBVIOUS
  <2>1. x.offset > 0 => /\ file # NoFile /\ file \in DOMAIN files /\ x.offset <= Len(files[file])
                        /\ files[file][x.offset] = x.print
    BY DEF Aimed
  <2> QED
    BY <1>3, <2>1 DEF Aimed
<1> QED
  BY <1>1, <1>6, <1>7, <1>8

(* Only the edit in progress changes. *)
LEMMA DraftSafe ==
  ASSUME VectorInv, UNCHANGED <<json, bins, save, crossed, named, deaths>>,
         DraftTells(draft', bins, named, crossed),
         draft'.at = "named" => draft'.name = json.file
  PROVE  VectorInv' /\ Keeps
<1>1. \A s \in Savers : OwnFile(s, save', json'.file, draft')
  BY DEF VectorInv, OwnFile
<1>2. \A s \in Savers : SaverTells(save'[s], json'.file, bins', named', crossed')
  BY DEF VectorInv
<1> QED
  BY <1>1, <1>2, ListedIs DEF VectorInv, Keeps

(* An edit just made, beside the JSON file as it is.                       *)
LEMMA DraftedIs ==
  ASSUME VectorInv, NEW items, Listed(items), NEW more, Listed(more), NEW d, NEW t \in BOOLEAN,
         d = [at |-> "open", seen |-> json, items |-> items, more |-> more, name |-> NoFile,
              torn |-> t],
         more = <<>> \/ Len(more) = 1,
         ~crossed => Aimed(more, json.file, bins),
         ~crossed /\ ~t => Aimed(items, json.file, bins),
         ~t => Outlives(items, json.items)
  PROVE  DraftTells(d, bins, named, crossed) /\ d.at = "open"
<1>1. items \in Seq(Items) /\ more \in Seq(Items)
  BY DEF Listed
<1>2. json \in Pages /\ json.file \in 0 .. named /\ NoFile \in 0 .. named /\ NoFile \in Nat
  BY Bounds DEF VectorInv, NoFile
<1>3. d \in Drafts
  BY <1>1, <1>2 DEF Drafts
<1>4. d.at = "open" /\ d.seen = json /\ d.items = items /\ d.more = more
      /\ d.name = NoFile /\ d.torn = t
  OBVIOUS
<1> QED
  BY <1>2, <1>3, <1>4 DEF DraftTells

LEMMA OpensSafe == ASSUME VectorInv, WebOpens PROVE VectorInv' /\ Keeps
<1>1. UNCHANGED <<json, bins, save, crossed, named, deaths>>
  BY DEF WebOpens
<1>2. Listed(json.items) /\ json.items \in Seq(Items)
      /\ (~crossed => Aimed(json.items, json.file, bins))
  BY ListedIs DEF VectorInv, Paired
<1>3. Listed(<<>>) /\ \A file, files : Aimed(<<>>, file, files)
  <2>1. <<>> \in Seq(Items) /\ DOMAIN <<>> = {}
    OBVIOUS
  <2> QED
    BY <2>1 DEF Listed, Aimed
<1>4. ASSUME NEW f \in Facts, \A i \in DOMAIN json.items : UnitOf(json.items[i]) # f,
             draft' = Draft(Append(json.items, Bare(<<f, 1>>)), <<>>)
      PROVE  DraftTells(draft', bins, named, crossed) /\ draft'.at = "open"
  <2>1. PICK x : x = Bare(<<f, 1>>)
    OBVIOUS
  <2>2. <<f, 1>> \in Text /\ <<f, 1>>[1] = f
    BY VectorAssumption DEF Text
  <2>3. /\ x \in Items /\ x.text = <<f, 1>> /\ x.offset = 0 /\ x.print = NoVector /\ UnitOf(x) = f
    BY <2>1, <2>2 DEF Bare, Item, Items, Vectors, UnitOf
  <2>4. \A file, files : Aimed(<<x>>, file, files)
    BY <2>3 DEF Aimed
  <2>5. PICK items : items = Append(json.items, x)
    OBVIOUS
  <2>6. Listed(items) /\ Outlives(items, json.items) /\ (~crossed => Aimed(items, json.file, bins))
    BY <1>2, <1>4, <2>3, <2>4, <2>5, LongerIs
  <2>7. draft' = [at |-> "open", seen |-> json, items |-> items, more |-> <<>>,
                   name |-> NoFile, torn |-> FALSE]
    BY <1>4, <2>1, <2>5 DEF Draft
  <2> QED
    BY <1>3, <2>6, <2>7, DraftedIs
<1>5. ASSUME NEW i \in DOMAIN json.items, draft' = Draft(Without(json.items, i), <<>>)
      PROVE  DraftTells(draft', bins, named, crossed) /\ draft'.at = "open"
  <2>1. PICK items : items = Without(json.items, i)
    OBVIOUS
  <2>2. Listed(items) /\ Outlives(items, json.items) /\ (~crossed => Aimed(items, json.file, bins))
    BY <1>2, <2>1, ShorterIs
  <2>3. draft' = [at |-> "open", seen |-> json, items |-> items, more |-> <<>>,
                   name |-> NoFile, torn |-> FALSE]
    BY <1>5, <2>1 DEF Draft
  <2> QED
    BY <1>3, <2>2, <2>3, DraftedIs
<1>6. ASSUME NEW i \in DOMAIN json.items,
             NEW v \in {json.items[i].text[2], json.items[i].text[2] + 1}, v <= MaxVersion,
             draft' = Draft(Without(json.items, i), <<[json.items[i] EXCEPT !.text = <<@[1], v>>]>>)
      PROVE  DraftTells(draft', bins, named, crossed) /\ draft'.at = "open"
  <2>1. PICK items : items = Without(json.items, i)
    OBVIOUS
  <2>2. Listed(items) /\ Outlives(items, json.items) /\ (~crossed => Aimed(items, json.file, bins))
    BY <1>2, <2>1, ShorterIs
  <2>3. PICK t : t = <<json.items[i].text[1], v>>
    OBVIOUS
  <2>4. PICK x : x = [json.items[i] EXCEPT !.text = t]
    OBVIOUS
  <2>5. json.items[i] \in Items
    BY <1>2
  <2>6. json.items[i].text \in Text
    BY <2>5 DEF Items
  <2>7. t \in Text
    <3>1. v \in 1 .. MaxVersion
      BY <1>6, <2>6, TextIs, VectorAssumption
    <3> QED
      BY <2>3, <2>6, <3>1, TextIs DEF Text
  <2>8. x \in Items /\ x.offset = json.items[i].offset /\ x.print = json.items[i].print
    BY <2>4, <2>5, <2>7 DEF Items
  <2>9. PICK more : more = <<x>>
    OBVIOUS
  <2>10. more \in Seq(Items) /\ DOMAIN more = {1} /\ more[1] = x
    BY <2>8, <2>9
  <2>11. Listed(more) /\ (~crossed => Aimed(more, json.file, bins))
    BY <1>2, <2>8, <2>10 DEF Listed, Aimed
  <2>12. draft' = [at |-> "open", seen |-> json, items |-> items, more |-> more,
                   name |-> NoFile, torn |-> FALSE]
    BY <1>6, <2>1, <2>3, <2>4, <2>9 DEF Draft
  <2>13. Len(more) = 1
    BY <2>9
  <2> QED
    BY <2>2, <2>11, <2>12, <2>13, DraftedIs
<1>7. DraftTells(draft', bins, named, crossed) /\ draft'.at = "open"
  BY <1>4, <1>5, <1>6 DEF WebOpens
<1> QED
  BY <1>1, <1>7, DraftSafe

LEMMA NamesSafe == ASSUME VectorInv, WebNames PROVE VectorInv' /\ Keeps
<1>1. /\ draft.at = "open" /\ draft' = [draft EXCEPT !.at = "named", !.name = json.file]
      /\ UNCHANGED <<json, bins, save, crossed, named, deaths>>
  BY DEF WebNames
<1>2. draft \in Drafts
  BY <1>1 DEF VectorInv, DraftTells, NoDraft
<1>3. json.file \in Nat /\ json.file \in 0 .. named
  BY Bounds DEF VectorInv
<1>4. /\ draft' \in Drafts /\ draft'.at = "named" /\ draft'.name = json.file
      /\ draft'.seen = draft.seen /\ draft'.items = draft.items /\ draft'.more = draft.more
      /\ draft'.torn = draft.torn
  BY <1>1, <1>2, <1>3 DEF Drafts
<1>5. DraftTells(draft', bins, named, crossed)
  BY <1>1, <1>3, <1>4 DEF VectorInv, DraftTells
<1> QED
  BY <1>1, <1>4, <1>5, DraftSafe

LEMMA WebSavesSafe == ASSUME VectorInv, WebSaves PROVE VectorInv' /\ Keeps
<1>1. PICK d : d = draft
  OBVIOUS
<1>2. /\ d.at = "named" /\ json' = [items |-> d.items, file |-> d.name]
      /\ crossed' = (crossed \/ ~(d.seen = json /\ d.name = json.file /\ ~d.torn))
      /\ draft' = (IF d.more = <<>> THEN NoDraft ELSE [d EXCEPT !.at = "half"])
      /\ UNCHANGED <<bins, save, named, changes, deaths>>
  BY <1>1 DEF WebSaves, InTime
<1>3. DraftTells(d, bins, named, crossed) /\ d \in Drafts
  BY <1>1, <1>2 DEF VectorInv, DraftTells, NoDraft
<1>4. /\ d.items \in Seq(Items) /\ d.more \in Seq(Items) /\ Listed(d.items) /\ Listed(d.more)
      /\ d.name \in 0 .. named /\ d.name \in Nat /\ d.seen.file \in 0 .. named /\ d.torn \in BOOLEAN
  BY <1>2, <1>3 DEF DraftTells, Drafts
<1>5. json'.items = d.items /\ json'.file = d.name /\ json' \in Pages
  BY <1>2, <1>4 DEF Pages
<1>6. /\ crossed \in BOOLEAN /\ crossed' \in BOOLEAN /\ (crossed => crossed') /\ named \in Nat
      /\ ~crossed' => ~crossed /\ d.seen = json /\ d.name = json.file /\ ~d.torn
  BY <1>2, Bounds DEF VectorInv
<1>7. ~crossed' => Paired(json'.items, json'.file, bins') /\ Outlives(json'.items, json.items)
  <2>1. SUFFICES ASSUME ~crossed'
                 PROVE  Paired(d.items, json.file, bins) /\ Outlives(d.items, json.items)
    BY <1>2, <1>5, <1>6
  <2>2. json.file # NoFile => json.file \in DOMAIN bins
    BY <1>6, <2>1 DEF VectorInv, Paired
  <2> QED
    BY <1>2, <1>3, <1>6, <2>1, <2>2 DEF DraftTells, Paired
<1>8. ASSUME NEW s \in Savers PROVE SaverTells(save'[s], json'.file, bins', named', crossed')
  <2>1. SaverTells(save[s], json.file, bins, named, crossed)
    BY DEF VectorInv
  <2>2. save[s].at = "replaced" /\ ~crossed' /\ save[s].seen.file # NoFile
          => d.name # save[s].seen.file
    BY <1>6, <2>1 DEF SaverTells
  <2>3. SaverTells(save[s], d.name, bins, named, crossed')
    BY <1>6, <2>1, <2>2, SaverStays
  <2> QED
    BY <1>2, <1>5, <2>3
<1>9. draft' = NoDraft \/ draft' = [d EXCEPT !.at = "half"]
  BY <1>2
<1>10. draft'.at # "named"
  BY <1>3, <1>9 DEF NoDraft, Drafts
<1>11. ASSUME NEW s \in Savers PROVE OwnFile(s, save', json'.file, draft')
  <2>1. OwnFile(s, save, json.file, d)
    BY <1>1 DEF VectorInv
  <2> QED
    BY <1>2, <1>5, <1>10, <2>1 DEF OwnFile
<1>12. DraftTells(draft', bins', named', crossed')
  <2>1. CASE d.more = <<>>
    BY <1>2, <2>1 DEF DraftTells, NoDraft
  <2>2. CASE d.more # <<>>
    <3>1. PICK h : h = [d EXCEPT !.at = "half"]
      OBVIOUS
    <3>2. /\ h \in Drafts /\ h.at = "half" /\ h.seen = d.seen /\ h.items = d.items
          /\ h.more = d.more /\ h.name = d.name /\ h.torn = d.torn
      BY <1>3, <3>1 DEF Drafts
    <3>3. Len(d.more) = 1
      BY <1>1, <1>2, <1>3, <2>2 DEF DraftTells
    <3>4. DraftTells(h, bins, named, crossed)
      BY <1>2, <1>3, <3>2, <3>3 DEF DraftTells
    <3>5. DraftTells(h, bins, named, crossed')
      BY <1>6, <3>4, DraftStays
    <3> QED
      BY <1>2, <2>2, <3>1, <3>5
  <2> QED
    BY <2>1, <2>2
<1>13. DOMAIN save' = Savers /\ Filed(bins', named', deaths') /\ Listed(json'.items)
       /\ json'.file \in 0 .. named'
  BY <1>2, <1>4, <1>5 DEF VectorInv
<1> QED
  BY <1>5, <1>6, <1>7, <1>8, <1>11, <1>12, <1>13 DEF VectorInv, Keeps

LEMMA ReopensSafe == ASSUME VectorInv, WebReopens PROVE VectorInv' /\ Keeps
<1>1. PICK d : d = draft
  OBVIOUS
<1>2. PICK x : x = d.more[1]
  OBVIOUS
<1>3. PICK base : base = Others(json.items, UnitOf(x))
  OBVIOUS
<1>4. PICK items : items = Append(base, x)
  OBVIOUS
<1>5. PICK t : t = (\/ d.seen.file # json.file
                    \/ \E i \in DOMAIN json.items : UnitOf(json.items[i]) = UnitOf(x))
  OBVIOUS
<1>6. /\ d.at = "half" /\ draft' = [at |-> "open", seen |-> json, items |-> items, more |-> <<>>,
                              name |-> NoFile, torn |-> t]
      /\ UNCHANGED <<json, bins, save, crossed, named, deaths>>
  BY <1>1, <1>2, <1>3, <1>4, <1>5 DEF WebReopens, Draft
<1>7. DraftTells(d, bins, named, crossed) /\ d \in Drafts
  BY <1>1, <1>6 DEF VectorInv, DraftTells, NoDraft
<1>8. Listed(d.more) /\ Len(d.more) = 1
  BY <1>6, <1>7 DEF DraftTells
<1>9. DOMAIN d.more = {1} /\ d.more = <<x>> /\ x \in Items
      /\ (x.offset > 0 <=> x.print # NoVector)
  BY <1>2, <1>8 DEF Listed
<1>10. Listed(json.items)
  BY ListedIs
<1>11. Listed(base) /\ \A i \in DOMAIN base : UnitOf(base[i]) # UnitOf(x)
  <2>1. CASE \A i \in DOMAIN json.items : UnitOf(json.items[i]) # UnitOf(x)
    BY <1>3, <1>10, <2>1 DEF Others
  <2>2. CASE ~\A i \in DOMAIN json.items : UnitOf(json.items[i]) # UnitOf(x)
    <3>1. PICK i \in DOMAIN json.items : UnitOf(json.items[i]) = UnitOf(x) /\ base = Without(json.items, i)
      BY <1>3, <2>2 DEF Others
    <3> QED
      BY <1>10, <3>1, ShorterIs
  <2> QED
    BY <2>1, <2>2
<1>12. Listed(items) /\ Outlives(items, base)
       /\ (Aimed(base, json.file, bins) /\ Aimed(<<x>>, json.file, bins) => Aimed(items, json.file, bins))
  BY <1>4, <1>9, <1>11, LongerIs
<1>13. ASSUME ~t
       PROVE  /\ Outlives(items, json.items)
              /\ ~crossed => Aimed(items, json.file, bins)
  <2>1. base = json.items /\ d.seen.file = json.file
    BY <1>3, <1>5, <1>13 DEF Others
  <2>2. ~crossed => Aimed(json.items, json.file, bins) /\ (json.file # NoFile => json.file \in DOMAIN bins)
    BY DEF VectorInv, Paired
  <2>3. ~crossed => Aimed(<<x>>, json.file, bins)
    BY <1>6, <1>7, <1>9, <2>1, <2>2 DEF DraftTells
  <2> QED
    BY <1>12, <2>1, <2>2, <2>3
<1>14. Listed(<<>>) /\ Aimed(<<>>, json.file, bins)
  <2>1. <<>> \in Seq(Items) /\ DOMAIN <<>> = {}
    OBVIOUS
  <2> QED
    BY <2>1 DEF Listed, Aimed
<1>15. t \in BOOLEAN
  BY <1>5
<1>16. DraftTells(draft', bins, named, crossed) /\ draft'.at = "open"
  BY <1>6, <1>12, <1>13, <1>14, <1>15, DraftedIs
<1> QED
  BY <1>6, <1>16, DraftSafe

-----------------------------------------------------------------------------
LEMMA VectorStep == ASSUME VectorInv, [VectorNext]_vectorVars PROVE VectorInv' /\ Keeps
<1>1. CASE VectorNext
  BY <1>1, LoadSafe, ChangeSafe, EmbedSafe, RebuildLoadsSafe, SaveVectorsSafe, SaveItemsSafe,
     DiscardsSafe, DiesSafe, OpensSafe, NamesSafe, WebSavesSafe, ReopensSafe DEF VectorNext
<1>2. CASE UNCHANGED vectorVars
  <2>1. UNCHANGED <<json, bins, save, draft, crossed, named, deaths>>
    BY <1>2 DEF vectorVars
  <2>2. \A s \in Savers : /\ SaverTells(save'[s], json'.file, bins', named', crossed')
                          /\ OwnFile(s, save', json'.file, draft')
    BY <2>1 DEF VectorInv
  <2> QED
    BY <2>1, <2>2, ListedIs DEF VectorInv, Keeps
<1> QED
  BY <1>1, <1>2

LEMMA VectorHolds == ASSUME VectorInv PROVE VectorSafety
<1>1. Listed(json.items) /\ json.file \in 0 .. named
  BY DEF VectorInv
<1>2. VectorTyped
  <2>1. \A i \in DOMAIN json.items : json.items[i] \in Items
    BY <1>1 DEF Listed
  <2>2. \A i \in DOMAIN json.items : json.items[i].text \in Text
    BY <2>1 DEF Items
  <2> QED
    BY <1>1, <2>2 DEF VectorInv, Filed, Listed, VectorTyped
<1>3. ~crossed => NeverMispaired
  BY ReadIs DEF NeverMispaired
<1>4. ~crossed => NamedFileIsThere
  BY DEF VectorInv, Paired, NamedFileIsThere, Exists
<1> QED
  BY <1>2, <1>3, <1>4 DEF VectorSafety

(* The action of VectorsOutliveSaves, step by step. *)
LEMMA VectorsStay ==
  ASSUME VectorInv, VectorInv', Keeps
  PROVE  ~crossed' /\ ~Overtakes =>
           \A i \in DOMAIN json.items, j \in DOMAIN json'.items :
             /\ json.items[i].text = json'.items[j].text
             /\ VectorOf(json.file, json.items[i]) # NoVector
             => VectorOf(json.file, json.items[j])' # NoVector
<1>1. SUFFICES ASSUME ~crossed', ~Overtakes,
                      NEW i \in DOMAIN json.items, NEW j \in DOMAIN json'.items,
                      json.items[i].text = json'.items[j].text,
                      VectorOf(json.file, json.items[i]) # NoVector
               PROVE  VectorOf(json.file, json.items[j])' # NoVector
  OBVIOUS
<1>2. Listed(json'.items) /\ Aimed(json'.items, json'.file, bins')
  BY <1>1 DEF VectorInv, Paired
<1>3. json.items[i].print = json.items[i].text
  BY <1>1 DEF VectorOf, Printed
<1>4. Outlives(json'.items, json.items)
  BY <1>1 DEF Keeps
<1>5. json'.items[j].print = json'.items[j].text
  BY <1>1, <1>3, <1>4 DEF Outlives
<1>6. json'.items[j].text # NoVector
  BY <1>2, ReadsRight
<1> QED
  BY <1>2, <1>5, <1>6, VectorIsPrimed

-----------------------------------------------------------------------------
(* The background: a step is one of the four parts', and leaves the others *)
(* alone.                                                                  *)

LEMMA PartsStep ==
  ASSUME [BackgroundNext]_backgroundVars
  PROVE  [MemoryNext]_memoryVars /\ [VectorNext]_vectorVars
BY DEF BackgroundNext, backgroundVars

(* No source is summarised twice but after a write one process put over    *)
(* another's, nor lost, and no summary is read with the vector of another  *)
(* text but after an edit of the web interface crossed a write - for any   *)
(* messages, units, files and deaths, with both processes at work.         *)
THEOREM UnitsKept == BackgroundSpec => []UnitSafety
<1>1. BackgroundInit => MemoryInv /\ VectorInv
  BY MemoryInitSafe, VectorInitSafe DEF BackgroundInit
<1>2. MemoryInv /\ VectorInv /\ [BackgroundNext]_backgroundVars => MemoryInv' /\ VectorInv'
  BY PartsStep, MemoryStep, VectorStep
<1>3. MemoryInv /\ VectorInv => UnitSafety
  BY MemoryHolds, VectorHolds DEF UnitSafety
<1> QED
  BY <1>1, <1>2, <1>3, PTL DEF BackgroundSpec

(* A vector outlives every write of the JSON file that keeps its text, of  *)
(* the worker, the rebuild or a handler, but for the save of a file that   *)
(* has changed since and an edit that crossed a write.                     *)
THEOREM VectorsKept == BackgroundSpec => VectorsOutliveSaves
<1>1. BackgroundInit => VectorInv
  BY VectorInitSafe DEF BackgroundInit
<1>2. VectorInv /\ [BackgroundNext]_backgroundVars => VectorInv'
  BY PartsStep, VectorStep
<1>3. VectorInv /\ VectorInv' /\ [BackgroundNext]_backgroundVars =>
        [~crossed' /\ ~Overtakes =>
           \A i \in DOMAIN json.items, j \in DOMAIN json'.items :
             /\ json.items[i].text = json'.items[j].text
             /\ VectorOf(json.file, json.items[i]) # NoVector
             => VectorOf(json.file, json.items[j])' # NoVector]_vectorVars
  BY PartsStep, VectorStep, VectorsStay
<1> QED
  BY <1>1, <1>2, <1>3, PTL DEF BackgroundSpec, VectorsOutliveSaves
=============================================================================
