----------------------------- MODULE StoresProofs -----------------------------
(***************************************************************************)
(* What TLAPS proves of the four stores that MCStores checks together, for *)
(* any values of their constants.                                          *)
(*                                                                         *)
(* WorkflowState: two turns run a step's tool only after a lease lapsed,   *)
(* and an outcome stands, since no record forgets the token of a busy turn *)
(* and the file is never ahead of memory.                                  *)
(* Notebook: upkeep undoes no note and drops no request, since the         *)
(* revision tells the text and one run holds the lock; the file keeps its  *)
(* budget, since what the check saw fit is what the lock lets be written.  *)
(* PersonClaims: what stands was consented to and what is retired stays    *)
(* so, since a row of the trail is alone with its key.                     *)
(* Autonomy: words are said once.  The ledger is the only memory that is   *)
(* never stale: a message is sent again only while its row says nothing    *)
(* left, and a share is recorded only on the word of that row.  Copies of  *)
(* intentions.json may be old, but what an old copy calls shared was said  *)
(* when the copy was made.                                                 *)
(***************************************************************************)
EXTENDS WorkflowState, Notebook, PersonClaims, Autonomy,
        SequenceTheorems, FiniteSetTheorems, TLAPS

-----------------------------------------------------------------------------
(* The workflow state tool. *)

Grant == [run : 1..MaxRuns, step : Steps]
TurnShape == [at : {"away", "reading", "permitted", "running", "ran", "broke"},
              run : 0..MaxRuns, rev : Nat, step : Steps \cup {NoStep}, token : 0..MaxTokens]

FlowShapes ==
  /\ flow \in Flows /\ flowFile \in Flows
  /\ turn \in [Turns -> TurnShape]
  /\ grants \in Seq(Grant) /\ Len(grants) <= MaxTokens
  /\ lapsed \subseteq Issued /\ effects \subseteq Issued

(* A step names the claim of its run that touched it, and only the current  *)
(* one is open.                                                             *)
TokensTell(record) ==
  \A s \in Steps :
    IF record.steps[s].status = "none" THEN record.steps[s].token = 0
    ELSE /\ record.steps[s].token \in Issued
         /\ grants[record.steps[s].token] = [run |-> record.run, step |-> s]

OneOpen(record) ==
  /\ \A s \in Steps : record.steps[s].status \in {"claimed", "failed"} => record.current = s
  /\ record.status = "completed" => record.current = NoStep
  /\ record.status = "failed" => record.current \in Steps /\ record.steps[record.current].status = "failed"

RecordsTell == \A record \in {flow, flowFile} : TokensTell(record) /\ OneOpen(record)

(* The file is what memory was, and what succeeded there has not changed.   *)
FileBehind ==
  /\ flowFile.run <= flow.run
  /\ flowFile.run = flow.run =>
       /\ flowFile.rev <= flow.rev
       /\ \A s \in Steps :
            flowFile.steps[s].status = "succeeded" => flow.steps[s] = flowFile.steps[s]

(* A record has not forgotten a claim: it is of a later run, or it names    *)
(* this claim or a later one.                                               *)
Remembers(record, token) ==
  /\ grants[token].run <= record.run
  /\ grants[token].run = record.run => token <= record.steps[grants[token].step].token

Busy(t) == turn[t].at \in {"permitted", "running", "ran", "broke"}

Newest(token) == \A k \in Issued : grants[k] = grants[token] => k <= token

(* A turn that was granted a step.                                          *)
BusyTells(t) ==
  LET me == turn[t]
  IN  /\ me.token \in Issued /\ grants[me.token].step = me.step
      /\ grants[me.token].run <= me.run
      /\ Remembers(flow, me.token) /\ Remembers(flowFile, me.token)
      /\ flow.steps[me.step].token = me.token => Newest(me.token)
      /\ me.at \in {"permitted", "running"} /\ me.token \notin lapsed =>
           flow.steps[me.step] = [status |-> "claimed", token |-> me.token]

TurnsTell ==
  /\ \A t \in Turns : turn[t].run <= flow.run
  /\ \A t \in Turns : Busy(t) => BusyTells(t)
  /\ \A t, u \in Turns : Busy(t) /\ Busy(u) /\ turn[t].token = turn[u].token => t = u

EffectsTell == \A k \in effects : Remembers(flow, k) /\ Remembers(flowFile, k)

FlowInv == FlowShapes /\ RecordsTell /\ FileBehind /\ TurnsTell /\ EffectsTell

-----------------------------------------------------------------------------
LEMMA FreshRecord ==
  ASSUME NEW run \in 0..MaxRuns
  PROVE  /\ NewRecord(run) \in Flows /\ NewRecord(run).run = run
         /\ \A s \in Steps : NewRecord(run).steps[s] = Untouched
         /\ NewRecord(run).status = "active" /\ NewRecord(run).rev = 0
BY FlowConstantsOK DEF NewRecord, Flows, StepState, Untouched

LEMMA FlowInitSafe == FlowInit => FlowInv
<1> SUFFICES ASSUME FlowInit PROVE FlowInv
  OBVIOUS
<1>1. /\ flow = NewRecord(0) /\ flowFile = NewRecord(0) /\ grants = <<>> /\ lapsed = {} /\ effects = {}
      /\ turn = [t \in Turns |-> AwayTurn]
  BY DEF FlowInit
<1>2. /\ NewRecord(0) \in Flows /\ NewRecord(0).run = 0 /\ NewRecord(0).status = "active"
      /\ \A s \in Steps : NewRecord(0).steps[s] = Untouched
  BY FlowConstantsOK, FreshRecord
<1>3. AwayTurn \in TurnShape /\ AwayTurn.at = "away" /\ AwayTurn.run = 0
  BY FlowConstantsOK DEF AwayTurn, TurnShape
<1>4. FlowShapes
  BY <1>1, <1>2, <1>3, FlowConstantsOK DEF FlowShapes
<1>5. RecordsTell
  BY <1>1, <1>2 DEF RecordsTell, TokensTell, OneOpen, Untouched
<1>6. FileBehind /\ EffectsTell
  BY <1>1, <1>2 DEF FileBehind, EffectsTell, Untouched, Flows
<1>7. TurnsTell
  BY <1>1, <1>2, <1>3 DEF TurnsTell, Busy
<1> QED
  BY <1>4, <1>5, <1>6, <1>7 DEF FlowInv

-----------------------------------------------------------------------------
(* What an answer of the tool may do to a step of the record: nothing, a    *)
(* new claim when nobody holds the old one, or the outcome of the turn that *)
(* holds it.                                                                *)
Reclaimed(s, record) ==
  /\ Grantable(s) /\ record.steps[s] = [status |-> "claimed", token |-> Len(grants) + 1]
  /\ grants' = Append(grants, [run |-> flow.run, step |-> s])

Reported(t, s, record) ==
  /\ turn[t].step = s /\ Holds(t) /\ turn[t].at \in {"ran", "broke"}
  /\ record.steps[s] = [status |-> IF turn[t].at = "ran" THEN "succeeded" ELSE "failed",
                        token |-> turn[t].token]

Advances(t, record) ==
  /\ record \in Flows /\ OneOpen(record) /\ flow.run <= record.run
  /\ record.run = flow.run =>
       /\ flow.rev <= record.rev
       /\ \A s \in Steps : \/ record.steps[s] = flow.steps[s]
                           \/ Reclaimed(s, record)
                           \/ Reported(t, s, record)
  /\ record.run # flow.run =>
       \A s \in Steps : flow.steps[s].status # "claimed" /\ record.steps[s] = Untouched

Grants(record) ==
  \/ grants' = grants
  \/ /\ Len(grants) < MaxTokens /\ flow.run > 0 /\ record.run = flow.run
     /\ \E s \in Steps : Reclaimed(s, record)

(* What the answer tells its turn.                                          *)
Tells(t, record, answer) ==
  /\ answer \in TurnShape /\ answer.run <= record.run
  /\ \/ answer.at \in {"reading", "away"}
     \/ /\ Busy(t) /\ answer.at = turn[t].at /\ turn[t].at \in {"ran", "broke"}
        /\ answer.step = turn[t].step /\ answer.token = turn[t].token /\ turn[t].run <= answer.run
     \/ /\ answer.at = "permitted" /\ answer.token = Len(grants) + 1
        /\ answer.step \in Steps /\ Reclaimed(answer.step, record)
        /\ answer.run = record.run /\ record.run = flow.run

LEMMA GrantsGrow ==
  ASSUME FlowInv, NEW record, Grants(record)
  PROVE  /\ grants' \in Seq(Grant) /\ Len(grants') <= MaxTokens
         /\ Issued \subseteq Issued' /\ \A k \in Issued : grants'[k] = grants[k]
         /\ \A k \in Issued' \ Issued :
              /\ k = Len(grants) + 1 /\ record.run = flow.run
              /\ \E s \in Steps : Reclaimed(s, record) /\ grants'[k] = [run |-> flow.run, step |-> s]
<1>1. grants \in Seq(Grant) /\ Len(grants) <= MaxTokens /\ MaxTokens \in Nat /\ flow \in Flows
  BY FlowConstantsOK DEF FlowInv, FlowShapes
<1>2. CASE grants' = grants
  BY <1>1, <1>2 DEF Issued
<1>3. CASE /\ Len(grants) < MaxTokens /\ flow.run > 0 /\ record.run = flow.run
           /\ \E s \in Steps : Reclaimed(s, record)
  <2>1. PICK s \in Steps : Reclaimed(s, record)
    BY <1>3
  <2> DEFINE g == [run |-> flow.run, step |-> s]
  <2>2. g \in Grant /\ grants' = Append(grants, g)
    BY <1>1, <1>3, <2>1 DEF Grant, Reclaimed, Flows
  <2> HIDE DEF g
  <2>3. grants' \in Seq(Grant) /\ Len(grants') = Len(grants) + 1
    BY <1>1, <2>2
  <2>4. DOMAIN grants = 1..Len(grants) /\ DOMAIN grants' = 1..(Len(grants) + 1)
    BY <1>1, <2>3
  <2>5. \A k \in 1..Len(grants) : grants'[k] = grants[k]
    BY <1>1, <2>2
  <2>6. grants'[Len(grants) + 1] = g
    BY <1>1, <2>2
  <2>7. \A k \in Issued' \ Issued : k = Len(grants) + 1
    BY <1>1, <2>4 DEF Issued
  <2> QED
    BY <1>1, <1>3, <2>1, <2>3, <2>4, <2>5, <2>6, <2>7 DEF Issued, g
<1> QED
  BY <1>2, <1>3 DEF Grants

(* Steps are only moved on: a success stays, a later claim takes over, and  *)
(* nobody loses a lease that runs.                                          *)
LEMMA StepsMoveOn ==
  ASSUME FlowInv, NEW t \in Turns, NEW record, Advances(t, record), Grants(record), NEW s \in Steps
  PROVE  /\ record.run = flow.run =>
              /\ flow.steps[s].status = "succeeded" => record.steps[s] = flow.steps[s]
              /\ flow.steps[s].token <= record.steps[s].token
              /\ record.steps[s].token = flow.steps[s].token \/ Reclaimed(s, record)
              /\ Leased(s) => record.steps[s] = flow.steps[s] \/ Reported(t, s, record)
         /\ record.run # flow.run => record.steps[s] = Untouched /\ flow.steps[s].status # "claimed"
<1>1. /\ flow \in Flows /\ record \in Flows /\ grants \in Seq(Grant) /\ Len(grants) \in Nat
      /\ MaxTokens \in Nat
  BY FlowConstantsOK DEF FlowInv, FlowShapes, Advances
<1>2. /\ flow.steps[s] \in StepState /\ record.steps[s] \in StepState
  BY <1>1 DEF Flows
<1>3. flow.steps[s].token \in 0..Len(grants)
  <2>1. TokensTell(flow)
    BY DEF FlowInv, RecordsTell
  <2>2. Issued = 1..Len(grants)
    BY <1>1 DEF Issued
  <2>3. flow.steps[s].token = 0 \/ flow.steps[s].token \in Issued
    BY <2>1 DEF TokensTell
  <2> QED
    BY <1>1, <2>2, <2>3
<1>4. CASE record.run = flow.run
  <2>1. CASE record.steps[s] = flow.steps[s]
    BY <1>2, <1>4, <2>1 DEF StepState
  <2>2. CASE Reclaimed(s, record)
    BY <1>1, <1>3, <1>4, <2>2 DEF Reclaimed, Grantable
  <2>3. CASE Reported(t, s, record)
    <3>1. /\ flow.steps[s].status = "claimed" /\ flow.steps[s].token = turn[t].token
          /\ record.steps[s].token = turn[t].token
      BY <2>3 DEF Reported, Holds
    <3> QED
      BY <1>2, <1>4, <2>3, <3>1 DEF StepState
  <2> QED
    BY <1>4, <2>1, <2>2, <2>3 DEF Advances
<1>5. CASE record.run # flow.run
  BY <1>5 DEF Advances
<1> QED
  BY <1>4, <1>5

LEMMA TokensOnward ==
  ASSUME FlowInv, NEW t \in Turns, NEW record, Advances(t, record), Grants(record)
  PROVE  TokensTell(record)'
<1> SUFFICES ASSUME NEW s \in Steps
             PROVE  IF record.steps[s].status = "none" THEN record.steps[s].token = 0
                    ELSE /\ record.steps[s].token \in Issued'
                         /\ grants'[record.steps[s].token] = [run |-> record.run, step |-> s]
  BY DEF TokensTell
<1>1. /\ Issued \subseteq Issued' /\ \A k \in Issued : grants'[k] = grants[k]
      /\ grants \in Seq(Grant) /\ flow \in Flows
  BY GrantsGrow DEF FlowInv, FlowShapes
<1>2. TokensTell(flow)
  BY DEF FlowInv, RecordsTell
<1>3. CASE record.run # flow.run
  BY <1>3, StepsMoveOn DEF Untouched
<1>4. CASE record.run = flow.run /\ record.steps[s] = flow.steps[s]
  BY <1>1, <1>2, <1>4 DEF TokensTell
<1>5. CASE record.run = flow.run /\ Reclaimed(s, record)
  <2> DEFINE g == [run |-> flow.run, step |-> s]
  <2>1. grants' = Append(grants, g) /\ record.steps[s] = [status |-> "claimed", token |-> Len(grants) + 1]
    BY <1>5 DEF Reclaimed
  <2> HIDE DEF g
  <2>2. Len(grants) + 1 \in Issued' /\ grants'[Len(grants) + 1] = g
    BY <1>1, <2>1 DEF Issued
  <2> QED
    BY <1>5, <2>1, <2>2 DEF g
<1>6. CASE record.run = flow.run /\ Reported(t, s, record)
  <2>1. /\ flow.steps[s].status = "claimed" /\ flow.steps[s].token = turn[t].token
        /\ record.steps[s].token = turn[t].token /\ record.steps[s].status # "none"
    BY <1>6 DEF Reported, Holds
  <2> QED
    BY <1>1, <1>2, <1>6, <2>1 DEF TokensTell
<1> QED
  BY <1>3, <1>4, <1>5, <1>6 DEF Advances

(* What memory or the file remembers they go on remembering.                *)
LEMMA RemembersOnward ==
  ASSUME FlowInv, NEW t \in Turns, NEW record, NEW answer, FlowAnswer(t, record, answer),
         Advances(t, record), Grants(record),
         NEW k \in Issued, Remembers(flow, k), Remembers(flowFile, k)
  PROVE  Remembers(flow, k)' /\ Remembers(flowFile, k)'
<1>1. grants[k] \in Grant /\ k \in Nat /\ flow \in Flows /\ record \in Flows
  BY DEF FlowInv, FlowShapes, Issued, Advances
<1>2. grants'[k] = grants[k]
  BY GrantsGrow
<1>3. /\ grants[k].run <= record.run
      /\ grants[k].run = record.run => k <= record.steps[grants[k].step].token
  <2>1. grants[k].step \in Steps /\ grants[k].run \in Nat /\ flow.run \in Nat /\ record.run \in Nat
    BY <1>1, FlowConstantsOK DEF Grant, Flows
  <2>2. /\ flow.run <= record.run
        /\ record.run = flow.run => flow.steps[grants[k].step].token <= record.steps[grants[k].step].token
    BY <2>1, StepsMoveOn DEF Advances
  <2>3. flow.steps[grants[k].step].token \in Nat /\ record.steps[grants[k].step].token \in Nat
    BY <1>1, <2>1 DEF Flows, StepState
  <2>4. grants[k].run <= flow.run /\ (grants[k].run = flow.run => k <= flow.steps[grants[k].step].token)
    BY DEF Remembers
  <2> QED
    BY <1>1, <2>1, <2>2, <2>3, <2>4
<1>4. flow' = record /\ flowFile' \in {flowFile, record}
  BY DEF FlowAnswer
<1> QED
  BY <1>2, <1>3, <1>4 DEF Remembers

LEMMA LastOfAppend ==
  ASSUME NEW S, NEW q \in Seq(S), NEW x PROVE Append(q, x)[Len(q) + 1] = x
<1>1. Len(q) + 1 \in 1..Len(q) + 1 /\ ~(Len(q) + 1 <= Len(q))
  OBVIOUS
<1> QED
  BY <1>1

LEMMA AnsweredRecords ==
  ASSUME FlowInv, NEW t \in Turns, NEW record, NEW answer, FlowAnswer(t, record, answer),
         Advances(t, record), Grants(record), UNCHANGED <<lapsed, effects>>
  PROVE  RecordsTell' /\ FileBehind' /\ EffectsTell' /\ DoneStaysDone
<1>1. flow' = record /\ flowFile' \in {flowFile, record}
  BY DEF FlowAnswer
<1>2. /\ Issued \subseteq Issued' /\ \A k \in Issued : grants'[k] = grants[k]
  BY GrantsGrow
<1>3. /\ flow \in Flows /\ flowFile \in Flows /\ record \in Flows /\ effects \subseteq Issued
      /\ flow.run \in Nat /\ flowFile.run \in Nat /\ record.run \in Nat
      /\ flow.rev \in Nat /\ flowFile.rev \in Nat /\ record.rev \in Nat
  BY FlowConstantsOK DEF FlowInv, FlowShapes, Flows, Advances
<1>4. RecordsTell'
  <2>1. TokensTell(record)' /\ OneOpen(record)
    BY TokensOnward DEF Advances
  <2>2. TokensTell(flowFile) /\ OneOpen(flowFile)
    BY DEF FlowInv, RecordsTell
  <2>3. flowFile' = flowFile => TokensTell(flowFile)' /\ OneOpen(flowFile)'
    BY <1>2, <2>2 DEF TokensTell, OneOpen
  <2>4. flowFile' = record => TokensTell(flowFile)' /\ OneOpen(flowFile)'
    BY <2>1 DEF TokensTell, OneOpen
  <2>5. TokensTell(flow)' /\ OneOpen(flow)'
    BY <1>1, <2>1 DEF TokensTell, OneOpen
  <2> QED
    BY <1>1, <2>3, <2>4, <2>5 DEF RecordsTell
<1>5. FileBehind'
  <2>1. CASE flowFile' = record
    BY <1>1, <1>3, <2>1 DEF FileBehind
  <2>2. CASE flowFile' = flowFile
    <3>1. flowFile.run <= flow.run /\ flow.run <= record.run
      BY DEF FlowInv, FileBehind, Advances
    <3>2. flowFile.run = record.run =>
            /\ flowFile.run = flow.run /\ record.run = flow.run
            /\ flowFile.rev <= flow.rev /\ flow.rev <= record.rev
      BY <1>3, <3>1 DEF FlowInv, FileBehind, Advances
    <3>3. ASSUME NEW s \in Steps, flowFile.run = record.run, flowFile.steps[s].status = "succeeded"
          PROVE  record.steps[s] = flowFile.steps[s]
      <4>1. flow.steps[s] = flowFile.steps[s]
        BY <3>2, <3>3 DEF FlowInv, FileBehind
      <4> QED
        BY <3>2, <3>3, <4>1, StepsMoveOn
    <3> QED
      BY <1>1, <1>3, <2>2, <3>1, <3>2, <3>3 DEF FileBehind
  <2> QED
    BY <1>1, <2>1, <2>2
<1>6. EffectsTell'
  BY <1>3, RemembersOnward DEF EffectsTell, FlowInv
<1>7. DoneStaysDone
  <2> SUFFICES ASSUME NEW s \in Steps, flowFile.steps[s].status = "succeeded", flowFile'.run = flowFile.run
               PROVE  /\ flowFile'.steps[s] = flowFile.steps[s]
                      /\ grants' # grants => grants' # Append(grants, [run |-> flowFile.run, step |-> s])
    BY DEF DoneStaysDone
  <2>1. flowFile.run = flow.run => flow.steps[s] = flowFile.steps[s]
    BY DEF FlowInv, FileBehind
  <2>2. flowFile.run <= flow.run /\ flow.run <= record.run
    BY DEF FlowInv, FileBehind, Advances
  <2>3. flowFile'.steps[s] = flowFile.steps[s]
    <3>1. CASE flowFile' = record
      BY <1>3, <2>1, <2>2, <3>1, StepsMoveOn
    <3> QED
      BY <1>1, <3>1
  <2>4. grants' # grants => grants' # Append(grants, [run |-> flowFile.run, step |-> s])
    <3> SUFFICES ASSUME grants' # grants, grants' = Append(grants, [run |-> flowFile.run, step |-> s])
                 PROVE  FALSE
      OBVIOUS
    <3>1. PICK d \in Steps : Reclaimed(d, record)
      BY DEF Grants
    <3> DEFINE g == [run |-> flowFile.run, step |-> s]
               h == [run |-> flow.run, step |-> d]
    <3>2. grants' = Append(grants, g) /\ grants' = Append(grants, h)
      BY <3>1 DEF Reclaimed
    <3>3. grants \in Seq(Grant)
      BY DEF FlowInv, FlowShapes
    <3> HIDE DEF g, h
    <3>4. g = h
      <4>1. grants'[Len(grants) + 1] = g /\ grants'[Len(grants) + 1] = h
        BY <3>2, <3>3, LastOfAppend
      <4> QED
        BY <4>1
    <3>5. flowFile.run = flow.run /\ s = d
      BY <3>4 DEF g, h
    <3> QED
      BY <2>1, <3>1, <3>5 DEF Reclaimed, Grantable
  <2> QED
    BY <2>3, <2>4
<1> QED
  BY <1>4, <1>5, <1>6, <1>7

(* What a busy turn's token tells stays true, whoever is answered.          *)
LEMMA TokenOnward ==
  ASSUME FlowInv, NEW t \in Turns, NEW record, NEW answer, FlowAnswer(t, record, answer),
         Advances(t, record), Grants(record), NEW u \in Turns, Busy(u), NEW k, k = turn[u].token
  PROVE  /\ k \in Issued /\ k \in Issued' /\ grants'[k].step = turn[u].step
         /\ grants'[k].run <= turn[u].run
         /\ Remembers(flow, k)' /\ Remembers(flowFile, k)'
         /\ record.steps[turn[u].step].token = k => Newest(k)'
         /\ turn[u].at \in {"permitted", "running"} /\ k \notin lapsed =>
              record.steps[turn[u].step] = [status |-> "claimed", token |-> k]
<1> DEFINE s == turn[u].step
<1>1. BusyTells(u)
  BY DEF FlowInv, TurnsTell
<1>2. k \in Issued /\ grants[k].step = s /\ grants[k].run <= turn[u].run
  BY <1>1 DEF BusyTells
<1>3. /\ k \in Issued' /\ grants'[k] = grants[k] /\ k # Len(grants) + 1 /\ k # 0
      /\ grants \in Seq(Grant) /\ s \in Steps
  <2>1. grants \in Seq(Grant)
    BY DEF FlowInv, FlowShapes
  <2>2. k \in 1..Len(grants) /\ Len(grants) \in Nat
    BY <1>2, <2>1 DEF Issued
  <2>3. grants[k] \in Grant
    BY <2>1, <2>2
  <2> QED
    BY <1>2, <2>1, <2>2, <2>3, GrantsGrow DEF Grant
<1>4. Remembers(flow, k)' /\ Remembers(flowFile, k)'
  <2>1. Remembers(flow, k) /\ Remembers(flowFile, k)
    BY <1>1 DEF BusyTells, Remembers
  <2> QED
    BY <1>2, <2>1, RemembersOnward
<1>5. ASSUME record.steps[s].token = k
      PROVE  Newest(k)'
  <2>1. record.run = flow.run /\ flow.steps[s].token = k
    <3> HIDE DEF s
    <3>1. /\ record.run = flow.run => record.steps[s].token = flow.steps[s].token \/ Reclaimed(s, record)
          /\ record.run # flow.run => record.steps[s] = Untouched
      BY <1>3, StepsMoveOn
    <3>2. ~Reclaimed(s, record) /\ record.steps[s] # Untouched
      BY <1>3, <1>5 DEF Reclaimed, Untouched
    <3> QED
      BY <1>5, <3>1, <3>2
  <2>2. Newest(k)
    BY <1>1, <2>1 DEF BusyTells, Newest
  <2> SUFFICES ASSUME NEW j \in Issued', grants'[j] = grants'[k] PROVE j <= k
    BY DEF Newest
  <2>3. CASE j \in Issued
    <3>1. grants'[j] = grants[j]
      BY <2>3, GrantsGrow
    <3> QED
      BY <1>3, <2>2, <2>3, <3>1 DEF Newest
  <2>4. CASE j \notin Issued
    <3>1. \A i \in Issued' \ Issued :
            /\ i = Len(grants) + 1
            /\ \E d \in Steps : Reclaimed(d, record) /\ grants'[i] = [run |-> flow.run, step |-> d]
      BY GrantsGrow
    <3>2. PICK d \in Steps : Reclaimed(d, record) /\ grants'[j] = [run |-> flow.run, step |-> d]
      BY <2>4, <3>1
    <3>3. d = s
      BY <1>2, <1>3, <3>2
    <3> QED
      BY <1>3, <1>5, <3>2, <3>3 DEF Reclaimed
  <2> QED
    BY <2>3, <2>4
<1>6. ASSUME turn[u].at \in {"permitted", "running"}, k \notin lapsed
      PROVE  record.steps[s] = [status |-> "claimed", token |-> k]
  <2>1. flow.steps[s] = [status |-> "claimed", token |-> k]
    BY <1>1, <1>6 DEF BusyTells
  <2>2. Leased(s)
    BY <1>6, <2>1 DEF Leased
  <2>3. record.run = flow.run
    BY <1>3, <2>1, StepsMoveOn
  <2>4. ~Reported(t, s, record)
    <3> SUFFICES ASSUME Reported(t, s, record) PROVE FALSE
      OBVIOUS
    <3>1. turn[t].at \in {"ran", "broke"} /\ turn[t].token = k
      BY <2>1 DEF Reported, Holds
    <3>2. t = u
      BY <3>1 DEF Busy, FlowInv, TurnsTell
    <3> QED
      BY <1>6, <3>1, <3>2
  <2> QED
    BY <1>3, <2>1, <2>2, <2>3, <2>4, StepsMoveOn
<1> QED
  BY <1>2, <1>3, <1>4, <1>5, <1>6

(* A turn that is not answered, or is answered with what it had.            *)
LEMMA KeptTurnTells ==
  ASSUME FlowInv, NEW t \in Turns, NEW record, NEW answer, FlowAnswer(t, record, answer),
         Advances(t, record), Grants(record), UNCHANGED lapsed, NEW u \in Turns, Busy(u),
         turn'[u].at = turn[u].at, turn'[u].step = turn[u].step, turn'[u].token = turn[u].token,
         turn[u].run \in Nat, turn'[u].run \in Nat, turn[u].run <= turn'[u].run
  PROVE  BusyTells(u)'
<1>1. PICK k : k = turn[u].token
  OBVIOUS
<1>2. /\ k \in Issued /\ k \in Issued' /\ grants'[k].step = turn[u].step
      /\ grants'[k].run <= turn[u].run
      /\ Remembers(flow, k)' /\ Remembers(flowFile, k)'
      /\ record.steps[turn[u].step].token = k => Newest(k)'
      /\ turn[u].at \in {"permitted", "running"} /\ k \notin lapsed =>
           record.steps[turn[u].step] = [status |-> "claimed", token |-> k]
  BY <1>1, TokenOnward
<1>3. flow' = record
  BY DEF FlowAnswer
<1>4. grants'[k].run <= turn'[u].run
  <2>1. grants[k] \in Grant /\ grants'[k] = grants[k]
    BY <1>2, GrantsGrow DEF FlowInv, FlowShapes, Issued
  <2>2. grants'[k].run \in Nat
    BY <2>1, FlowConstantsOK DEF Grant
  <2> QED
    BY <1>2, <2>2
<1> QED
  BY <1>1, <1>2, <1>3, <1>4 DEF BusyTells, Remembers, Newest

LEMMA PermittedTells ==
  ASSUME FlowInv, NEW t \in Turns, NEW record, NEW answer, FlowAnswer(t, record, answer),
         Advances(t, record), Grants(record), turn' = [turn EXCEPT ![t] = answer], flowFile' = record,
         answer \in TurnShape, answer.at = "permitted", answer.token = Len(grants) + 1,
         answer.step \in Steps, Reclaimed(answer.step, record),
         answer.run = record.run, record.run = flow.run
  PROVE  BusyTells(t)'
<1> DEFINE k == Len(grants) + 1
           s == answer.step
           g == [run |-> flow.run, step |-> s]
<1>1. turn'[t] = answer /\ flow' = record /\ grants \in Seq(Grant) /\ Len(grants) \in Nat
  BY DEF FlowInv, FlowShapes, FlowAnswer
<1>2. grants' = Append(grants, g) /\ record.steps[s] = [status |-> "claimed", token |-> k]
  BY DEF Reclaimed
<1>3. flow.run \in Nat
  BY FlowConstantsOK DEF FlowInv, FlowShapes, Flows
<1>4. \A j \in Issued' : j <= k
  BY <1>1, GrantsGrow DEF Issued
<1> HIDE DEF g
<1>5. k \in Issued' /\ grants'[k] = g
  BY <1>1, <1>2, LastOfAppend DEF Issued
<1> HIDE DEF k, s
<1>6. grants'[k].run = record.run /\ grants'[k].step = s /\ record.run <= record.run /\ k <= k
  BY <1>1, <1>3, <1>5 DEF g, k
<1>7. answer.token = k /\ answer.step = s
  BY DEF k, s
<1> QED
  BY <1>1, <1>2, <1>4, <1>5, <1>6, <1>7 DEF BusyTells, Remembers, Newest

LEMMA AnsweredTurns ==
  ASSUME FlowInv, NEW t \in Turns, NEW record, NEW answer, FlowAnswer(t, record, answer),
         Advances(t, record), Grants(record), Tells(t, record, answer), UNCHANGED <<lapsed, effects>>
  PROVE  FlowShapes' /\ TurnsTell'
<1>1. /\ flow' = record
      /\ \/ turn' = turn
         \/ turn' = [turn EXCEPT ![t] = answer] /\ flowFile' = record
      /\ flowFile' \in {flowFile, record}
  BY DEF FlowAnswer
<1>2. turn \in [Turns -> TurnShape] /\ flow \in Flows /\ record \in Flows /\ flowFile \in Flows
      /\ answer \in TurnShape
  BY DEF FlowInv, FlowShapes, Advances, Tells
<1>3. turn' \in [Turns -> TurnShape] /\ \A u \in Turns : turn'[u] = turn[u] \/ (u = t /\ turn'[u] = answer)
  BY <1>1, <1>2
<1>4. FlowShapes'
  BY <1>1, <1>2, <1>3, GrantsGrow DEF FlowShapes, FlowInv
<1>5. \A u \in Turns : turn[u].run \in Nat /\ turn'[u].run \in Nat
  BY <1>2, <1>3, FlowConstantsOK DEF TurnShape
<1>6. ASSUME NEW u \in Turns PROVE turn'[u].run <= flow'.run
  <2>1. turn[u].run <= flow.run /\ flow.run <= record.run /\ answer.run <= record.run
    BY DEF FlowInv, TurnsTell, Advances, Tells
  <2>2. flow.run \in Nat /\ record.run \in Nat
    BY <1>2, FlowConstantsOK DEF Flows
  <2> QED
    BY <1>1, <1>3, <1>5, <2>1, <2>2
<1>7. ASSUME NEW u \in Turns, Busy(u)'
      PROVE  /\ BusyTells(u)'
             /\ \/ Busy(u) /\ turn'[u].token = turn[u].token
                \/ u = t /\ turn'[u].token = Len(grants) + 1
  <2>1. CASE turn'[u] = turn[u]
    <3>1. Busy(u)
      BY <1>7, <2>1 DEF Busy
    <3>2. turn[u].run <= turn'[u].run
      BY <1>5, <2>1
    <3> QED
      BY <1>5, <2>1, <3>1, <3>2, KeptTurnTells
  <2>2. CASE u = t /\ turn'[u] = answer /\ turn'[u] # turn[u]
    <3>1. turn' = [turn EXCEPT ![t] = answer] /\ flowFile' = record
      BY <1>1, <2>2
    <3>2. answer.at \in {"permitted", "running", "ran", "broke"}
      BY <1>7, <2>2 DEF Busy
    <3>3. CASE answer.at = "permitted"
      <4>1. /\ answer.token = Len(grants) + 1 /\ answer.step \in Steps
            /\ Reclaimed(answer.step, record) /\ answer.run = record.run /\ record.run = flow.run
        BY <3>3 DEF Tells
      <4>2. BusyTells(t)'
        BY <1>2, <3>1, <3>3, <4>1, PermittedTells
      <4> QED
        BY <2>2, <4>1, <4>2
    <3>4. CASE answer.at # "permitted"
      <4>1. /\ Busy(t) /\ answer.at = turn[t].at /\ answer.step = turn[t].step
            /\ answer.token = turn[t].token /\ turn[t].run <= answer.run
        BY <3>2, <3>4 DEF Tells
      <4>2. BusyTells(u)'
        BY <1>5, <2>2, <4>1, KeptTurnTells
      <4> QED
        BY <2>2, <4>1, <4>2
    <3> QED
      BY <3>3, <3>4
  <2> QED
    BY <1>3, <2>1, <2>2
<1>8. ASSUME NEW u \in Turns, NEW v \in Turns, Busy(u)', Busy(v)', turn'[u].token = turn'[v].token
      PROVE  u = v
  <2>1. \A w \in Turns : Busy(w) => turn[w].token \in Issued
    BY DEF FlowInv, TurnsTell, BusyTells
  <2>2. Len(grants) + 1 \notin Issued
    BY DEF FlowInv, FlowShapes, Issued
  <2>3. \A w1, w2 \in Turns : Busy(w1) /\ Busy(w2) /\ turn[w1].token = turn[w2].token => w1 = w2
    BY DEF FlowInv, TurnsTell
  <2> QED
    BY <1>7, <1>8, <2>1, <2>2, <2>3
<1> QED
  BY <1>4, <1>6, <1>7, <1>8 DEF TurnsTell

LEMMA AnsweredOutcome ==
  ASSUME FlowInv, NEW t \in Turns, NEW record, NEW answer, FlowAnswer(t, record, answer),
         Advances(t, record), Grants(record)
  PROVE  OutcomeByHolder
<1>1. flow' = record
  BY DEF FlowAnswer
<1> SUFFICES ASSUME NEW s \in Steps, record.run = flow.run,
                    record.steps[s].status \in {"succeeded", "failed"}, record.steps[s] # flow.steps[s]
             PROVE  /\ turn[t].at = (IF record.steps[s].status = "failed" THEN "broke" ELSE "ran")
                    /\ turn[t].step = s /\ turn[t].run = flow.run
                    /\ \A token \in Issued :
                         grants[token] = [run |-> flow.run, step |-> s] => token <= turn[t].token
  BY <1>1 DEF OutcomeByHolder
<1>2. Reported(t, s, record)
  <2>1. record.steps[s] = flow.steps[s] \/ Reclaimed(s, record) \/ Reported(t, s, record)
    BY DEF Advances
  <2>2. Reclaimed(s, record) => record.steps[s].status = "claimed"
    BY DEF Reclaimed
  <2> QED
    BY <2>1, <2>2
<1>3. /\ turn[t].step = s /\ turn[t].at \in {"ran", "broke"}
      /\ flow.steps[s].status = "claimed" /\ flow.steps[s].token = turn[t].token
      /\ record.steps[s].status = (IF turn[t].at = "ran" THEN "succeeded" ELSE "failed")
  BY <1>2 DEF Reported, Holds
<1>4. turn[t].at = (IF record.steps[s].status = "failed" THEN "broke" ELSE "ran")
  BY <1>3
<1>5. BusyTells(t) /\ turn[t].run <= flow.run
  BY <1>3 DEF FlowInv, TurnsTell, Busy
<1>6. grants[turn[t].token] = [run |-> flow.run, step |-> s]
  <2>1. TokensTell(flow)
    BY DEF FlowInv, RecordsTell
  <2> QED
    BY <1>3, <2>1 DEF TokensTell
<1>7. turn[t].run = flow.run
  <2>1. turn[t].run \in Nat /\ flow.run \in Nat
    BY FlowConstantsOK DEF FlowInv, FlowShapes, TurnShape, Flows
  <2>2. flow.run <= turn[t].run
    BY <1>5, <1>6 DEF BusyTells
  <2> QED
    BY <1>5, <2>1, <2>2
<1>8. \A token \in Issued : grants[token] = [run |-> flow.run, step |-> s] => token <= turn[t].token
  <2>1. Newest(turn[t].token)
    BY <1>3, <1>5 DEF BusyTells
  <2> QED
    BY <1>6, <2>1 DEF Newest
<1> QED
  BY <1>3, <1>4, <1>7, <1>8

(* Whatever the tool answers, the invariant holds and outcomes stand.       *)
LEMMA FlowAnswered ==
  ASSUME FlowInv, NEW t \in Turns, NEW record, NEW answer, FlowAnswer(t, record, answer),
         Advances(t, record), Grants(record), Tells(t, record, answer), UNCHANGED <<lapsed, effects>>
  PROVE  FlowInv' /\ OutcomeByHolder /\ DoneStaysDone
BY AnsweredRecords, AnsweredTurns, AnsweredOutcome DEF FlowInv

-----------------------------------------------------------------------------
(* The answers of each action. *)
FlowStep == FlowInv' /\ OutcomeByHolder /\ DoneStaysDone

LEMMA AnswerShapes ==
  ASSUME FlowInv, NEW t \in Turns, NEW record \in Flows
  PROVE  /\ Reading(t, record) \in TurnShape
         /\ Reading(t, record).at = "reading" /\ Reading(t, record).run = record.run
         /\ Knowing(t, record) \in TurnShape
         /\ Knowing(t, record).at = turn[t].at /\ Knowing(t, record).run = record.run
         /\ Knowing(t, record).step = turn[t].step /\ Knowing(t, record).token = turn[t].token
<1>1. turn[t] \in TurnShape
  BY DEF FlowInv, FlowShapes
<1>2. record.run \in 0..MaxRuns /\ record.rev \in Nat
  BY DEF Flows
<1>3. /\ Knowing(t, record) \in TurnShape
      /\ Knowing(t, record).at = turn[t].at /\ Knowing(t, record).run = record.run
      /\ Knowing(t, record).step = turn[t].step /\ Knowing(t, record).token = turn[t].token
  BY <1>1, <1>2 DEF Knowing, TurnShape
<1> QED
  BY <1>3 DEF Reading, TurnShape

LEMMA SameAdvances ==
  ASSUME FlowInv, NEW t \in Turns
  PROVE  Advances(t, flow) /\ flow \in Flows
<1>1. flow \in Flows /\ flow.run \in Nat /\ flow.rev \in Nat
  BY FlowConstantsOK DEF FlowInv, FlowShapes, Flows
<1>2. OneOpen(flow)
  BY DEF FlowInv, RecordsTell
<1> QED
  BY <1>1, <1>2 DEF Advances

LEMMA FreshAdvances ==
  ASSUME FlowInv, NEW t \in Turns, NEW run \in 0..MaxRuns, flow.run < run,
         \A s \in Steps : flow.steps[s].status # "claimed"
  PROVE  Advances(t, NewRecord(run)) /\ NewRecord(run) \in Flows /\ NewRecord(run).run = run
<1>1. flow.run \in Nat /\ run \in Nat
  BY FlowConstantsOK DEF FlowInv, FlowShapes, Flows
<1>2. /\ NewRecord(run) \in Flows /\ NewRecord(run).run = run /\ NewRecord(run).status = "active"
      /\ \A s \in Steps : NewRecord(run).steps[s] = Untouched
  BY FreshRecord
<1>3. OneOpen(NewRecord(run))
  BY <1>2 DEF OneOpen, Untouched
<1>4. flow.run <= run /\ run # flow.run
  BY <1>1
<1> QED
  BY <1>2, <1>3, <1>4 DEF Advances

(* What a turn is told when the record stays as it is. *)
LEMMA ReadingOK ==
  ASSUME FlowInv, NEW t \in Turns, NEW record, Advances(t, record), grants' = grants,
         FlowAnswer(t, record, Reading(t, record)), UNCHANGED <<lapsed, effects>>
  PROVE  FlowStep
<1>1. record \in Flows /\ record.run \in Nat
  BY FlowConstantsOK DEF Advances, Flows
<1>2. Tells(t, record, Reading(t, record))
  BY <1>1, AnswerShapes DEF Tells
<1>3. Grants(record)
  BY DEF Grants
<1> QED
  BY <1>2, <1>3, FlowAnswered DEF FlowStep

LEMMA BeginSafe ==
  ASSUME FlowInv, NEW t \in Turns, Begin(t) PROVE FlowStep
<1> DEFINE record == IF flow.run = 0 THEN NewRecord(1) ELSE flow
<1>1. FlowAnswer(t, record, Reading(t, record)) /\ grants' = grants /\ UNCHANGED <<lapsed, effects>>
  BY DEF Begin
<1>2. ASSUME flow.run = 0 PROVE Advances(t, NewRecord(1))
  <2>1. 1 \in 0..MaxRuns /\ 0 < 1
    BY <1>2, FlowConstantsOK
  <2>2. ASSUME NEW s \in Steps, flow.steps[s].status = "claimed" PROVE FALSE
    <3>1. flow.steps[s].token \in Issued /\ grants[flow.steps[s].token].run = 0
      <4>1. TokensTell(flow)
        BY DEF FlowInv, RecordsTell
      <4>2. /\ flow.steps[s].token \in Issued
            /\ grants[flow.steps[s].token] = [run |-> flow.run, step |-> s]
        BY <2>2, <4>1 DEF TokensTell
      <4> QED
        BY <1>2, <4>2
    <3>2. grants[flow.steps[s].token] \in Grant
      BY <3>1 DEF FlowInv, FlowShapes, Issued
    <3> QED
      BY <3>1, <3>2 DEF Grant
  <2> QED
    BY <1>2, <2>1, <2>2, FreshAdvances
<1> QED
  BY <1>1, <1>2, SameAdvances, ReadingOK

(* A record with one step moved on. *)
Moved(record, status, current, s, state) ==
  [record EXCEPT !.rev = @ + 1, !.status = status, !.current = current, !.steps[s] = state]

Statuses == {"active", "completed", "failed"}
Places == Steps \cup {NoStep}

LEMMA RecordMoved ==
  ASSUME NEW old \in Flows, NEW status \in Statuses,
         NEW current \in Places, NEW s \in Steps, NEW state \in StepState
  PROVE  /\ Moved(old, status, current, s, state) \in Flows
         /\ Moved(old, status, current, s, state).run = old.run
         /\ Moved(old, status, current, s, state).rev = old.rev + 1
         /\ Moved(old, status, current, s, state).status = status
         /\ Moved(old, status, current, s, state).current = current
         /\ Moved(old, status, current, s, state).steps[s] = state
         /\ \A d \in Steps : d # s => Moved(old, status, current, s, state).steps[d] = old.steps[d]
<1>1. old.rev + 1 \in Nat /\ [old.steps EXCEPT ![s] = state] \in [Steps -> StepState]
  BY DEF Flows
<1>2. Moved(old, status, current, s, state) \in Flows
  BY <1>1 DEF Flows, Moved, Statuses, Places
<1> QED
  BY <1>2 DEF Flows, Moved, Statuses, Places

StatusMoved(record, status, current, s, to) ==
  [record EXCEPT !.rev = @ + 1, !.status = status, !.current = current, !.steps[s].status = to]

LEMMA StatusMovedIs ==
  ASSUME NEW old \in Flows, NEW status, NEW current, NEW s \in Steps, NEW to
  PROVE  StatusMoved(old, status, current, s, to) =
         Moved(old, status, current, s, [status |-> to, token |-> old.steps[s].token])
<1>1. [old.steps[s] EXCEPT !.status = to] = [status |-> to, token |-> old.steps[s].token]
  BY DEF Flows, StepState
<1>2. StatusMoved(old, status, current, s, to) =
      Moved(old, status, current, s, [old.steps[s] EXCEPT !.status = to])
  BY DEF Flows, Moved, StatusMoved
<1> QED
  BY <1>1, <1>2

LEMMA ResumeSafe ==
  ASSUME FlowInv, NEW t \in Turns, Resume(t) PROVE FlowStep
<1> DEFINE answer == IF turn[t].at = "away" THEN Reading(t, flow) ELSE Knowing(t, flow)
<1>1. /\ FlowAnswer(t, flow, answer) /\ grants' = grants /\ UNCHANGED <<lapsed, effects>>
      /\ turn[t].at \in {"away", "reading", "ran", "broke"}
  BY DEF Resume
<1>2. flow \in Flows /\ flow.run \in Nat /\ Advances(t, flow) /\ Grants(flow)
  BY <1>1, SameAdvances, FlowConstantsOK DEF Flows, Grants
<1>3. turn[t].run <= flow.run
  BY DEF FlowInv, TurnsTell
<1>4. Tells(t, flow, answer)
  <2>1. CASE turn[t].at = "away"
    BY <1>2, <2>1, AnswerShapes DEF Tells
  <2>2. CASE turn[t].at # "away"
    BY <1>1, <1>2, <1>3, <2>2, AnswerShapes DEF Tells, Busy
  <2> QED
    BY <2>1, <2>2
<1> QED
  BY <1>1, <1>2, <1>4, FlowAnswered DEF FlowStep

LEMMA RestartSafe ==
  ASSUME FlowInv, NEW t \in Turns, Restart(t) PROVE FlowStep
<1>1. /\ flow.status \in {"completed", "failed"} /\ flow.run < MaxRuns
      /\ FlowAnswer(t, NewRecord(flow.run + 1), Reading(t, NewRecord(flow.run + 1)))
      /\ grants' = grants /\ UNCHANGED <<lapsed, effects>>
  BY DEF Restart
<1>2. flow.run + 1 \in 0..MaxRuns /\ flow.run < flow.run + 1
  BY <1>1, FlowConstantsOK DEF FlowInv, FlowShapes, Flows
<1>3. OneOpen(flow)
  BY DEF FlowInv, RecordsTell
<1>4. \A s \in Steps : flow.steps[s].status # "claimed"
  BY <1>1, <1>3, FlowConstantsOK DEF OneOpen
<1> QED
  BY <1>1, <1>2, <1>4, FreshAdvances, ReadingOK

LEMMA ClaimInVainSafe ==
  ASSUME FlowInv, NEW t \in Turns, NEW s \in Steps, ClaimInVain(t, s) PROVE FlowStep
BY SameAdvances, ReadingOK DEF ClaimInVain

LEMMA ReplayedSafe ==
  ASSUME FlowInv, NEW t \in Turns, Replayed(t) PROVE FlowStep
BY SameAdvances, ReadingOK DEF Replayed

LEMMA ClaimFlowSafe ==
  ASSUME FlowInv, NEW t \in Turns, NEW s \in Steps, Claim(t, s) PROVE FlowStep
<1> DEFINE k == Len(grants) + 1
           record == Granted(s, k)
           answer == [Knowing(t, record) EXCEPT !.at = "permitted", !.step = s, !.token = k]
<1>1. /\ FlowAnswer(t, record, answer) /\ UNCHANGED <<lapsed, effects>>
      /\ grants' = Append(grants, [run |-> flow.run, step |-> s]) /\ Len(grants) < MaxTokens
      /\ flow.run > 0 /\ flow.current \in {NoStep, s} /\ Grantable(s)
  BY DEF Claim, MayClaim, KnowsNewest, StepAllowed
<1>2. flow \in Flows /\ grants \in Seq(Grant) /\ OneOpen(flow) /\ flow.run \in Nat /\ flow.rev \in Nat
  BY FlowConstantsOK DEF FlowInv, FlowShapes, RecordsTell, Flows
<1>3. k \in 0..MaxTokens
  BY <1>1, <1>2, FlowConstantsOK
<1> HIDE DEF k
<1>4. /\ record \in Flows /\ record.run = flow.run /\ record.rev = flow.rev + 1
      /\ record.status = "active" /\ record.current = s
      /\ record.steps[s] = [status |-> "claimed", token |-> k]
      /\ \A d \in Steps : d # s => record.steps[d] = flow.steps[d]
  <2>1. record = Moved(flow, "active", s, s, [status |-> "claimed", token |-> k])
    BY DEF Granted, Moved
  <2>2. [status |-> "claimed", token |-> k] \in StepState
    BY <1>3 DEF StepState
  <2> HIDE DEF record
  <2> QED
    BY <1>2, <2>1, <2>2, RecordMoved DEF Statuses, Places
<1> HIDE DEF record
<1>6. Reclaimed(s, record)
  BY <1>1, <1>4 DEF Reclaimed, k
<1>7. OneOpen(record)
  BY <1>1, <1>2, <1>4, FlowConstantsOK DEF OneOpen
<1>8. Advances(t, record) /\ Grants(record)
  BY <1>1, <1>2, <1>4, <1>6, <1>7 DEF Advances, Grants
<1>9. /\ answer \in TurnShape /\ answer.at = "permitted" /\ answer.step = s /\ answer.token = k
      /\ answer.run = record.run
  <2> DEFINE known == Knowing(t, record)
  <2>1. known \in TurnShape /\ known.run = record.run
    BY <1>4, AnswerShapes
  <2> HIDE DEF known
  <2>2. answer = [known EXCEPT !.at = "permitted", !.step = s, !.token = k]
    BY DEF known
  <2> HIDE DEF answer
  <2> QED
    BY <1>3, <2>1, <2>2 DEF TurnShape
<1>10. Tells(t, record, answer)
  BY <1>2, <1>4, <1>6, <1>9 DEF Tells, k
<1> QED
  BY <1>1, <1>8, <1>10, FlowAnswered DEF FlowStep

(* The outcome of a step, reported by the turn that holds it. *)
LEMMA ReportSafe ==
  ASSUME FlowInv, NEW t \in Turns, NEW s, s = turn[t].step, Holds(t), turn[t].at \in {"ran", "broke"},
         NEW status \in {"active", "completed", "failed"}, NEW current \in Steps \cup {NoStep},
         NEW to, to = (IF turn[t].at = "ran" THEN "succeeded" ELSE "failed"),
         status = "failed" => current = s /\ to = "failed",
         to = "failed" => current = s,
         status = "completed" => current = NoStep,
         NEW record, record = StatusMoved(flow, status, current, s, to),
         FlowAnswer(t, record, Reading(t, record)), UNCHANGED <<grants, lapsed, effects>>
  PROVE  FlowStep
<1>1. flow \in Flows /\ OneOpen(flow) /\ flow.run \in Nat /\ flow.rev \in Nat
  BY FlowConstantsOK DEF FlowInv, FlowShapes, RecordsTell, Flows
<1>2. s \in Steps /\ flow.steps[s].status = "claimed" /\ flow.steps[s].token = turn[t].token
  <2>1. turn[t].token \in Issued /\ grants[turn[t].token].step = s
    BY DEF FlowInv, TurnsTell, Busy, BusyTells
  <2>2. grants[turn[t].token] \in Grant
    BY <2>1 DEF FlowInv, FlowShapes, Issued
  <2> QED
    BY <2>1, <2>2 DEF Grant, Holds
<1>3. PICK state : state = [status |-> to, token |-> flow.steps[s].token]
  OBVIOUS
<1>4. state = [status |-> to, token |-> turn[t].token]
  BY <1>2, <1>3
<1>4a. state \in StepState /\ s \in Steps /\ flow \in Flows /\ status \in Statuses /\ current \in Places
  BY <1>1, <1>2, <1>3 DEF Flows, StepState, Statuses, Places
<1>5. record = Moved(flow, status, current, s, state)
  BY <1>1, <1>2, <1>3, StatusMovedIs
<1>6. /\ record \in Flows /\ record.run = flow.run /\ record.rev = flow.rev + 1
      /\ record.status = status /\ record.current = current /\ record.steps[s] = state
      /\ \A d \in Steps : d # s => record.steps[d] = flow.steps[d]
  BY <1>5, <1>4a, RecordMoved
<1>7. Reported(t, s, record)
  BY <1>4, <1>6 DEF Reported
<1>8. OneOpen(record)
  BY <1>1, <1>2, <1>4, <1>6 DEF OneOpen
<1>9. Advances(t, record)
  BY <1>1, <1>6, <1>7, <1>8 DEF Advances
<1> QED
  BY <1>9, ReadingOK

LEMMA CheckpointSafe ==
  ASSUME FlowInv, NEW t \in Turns, NEW next \in Steps \cup {NoStep}, Checkpoint(t, next)
  PROVE  FlowStep
<1>1. PICK s : s = turn[t].step
  OBVIOUS
<1>2. PICK status : status = IF next = NoStep THEN "completed" ELSE "active"
  OBVIOUS
<1>3. PICK record : record = Checkpointed(s, next)
  OBVIOUS
<1>4. /\ FlowAnswer(t, record, Reading(t, record)) /\ UNCHANGED <<grants, lapsed, effects>>
      /\ turn[t].at = "ran" /\ Holds(t)
  BY <1>1, <1>3 DEF Checkpoint
<1>5. record = StatusMoved(flow, status, next, s, "succeeded")
  BY <1>2, <1>3 DEF Checkpointed, StatusMoved
<1> QED
  BY <1>1, <1>2, <1>4, <1>5, ReportSafe

LEMMA FailSafe ==
  ASSUME FlowInv, NEW t \in Turns, Fail(t) PROVE FlowStep
<1>1. PICK s : s = turn[t].step
  OBVIOUS
<1>2. PICK record : record = FailedAt(s)
  OBVIOUS
<1>3. /\ FlowAnswer(t, record, Reading(t, record)) /\ UNCHANGED <<grants, lapsed, effects>>
      /\ turn[t].at = "broke" /\ Holds(t)
  BY <1>1, <1>2 DEF Fail
<1>4. record = StatusMoved(flow, "failed", s, s, "failed")
  BY <1>2 DEF FailedAt, StatusMoved
<1>5. s \in Steps
  <2>1. turn[t].token \in Issued /\ grants[turn[t].token].step = s
    BY <1>1, <1>3 DEF FlowInv, TurnsTell, Busy, BusyTells
  <2>2. grants[turn[t].token] \in Grant
    BY <2>1 DEF FlowInv, FlowShapes, Issued
  <2> QED
    BY <2>1, <2>2 DEF Grant
<1> QED
  BY <1>1, <1>3, <1>4, <1>5, ReportSafe

-----------------------------------------------------------------------------
(* The steps in which the tool answers nobody. *)
LEMMA Silent ==
  ASSUME flow' = flow, flowFile' = flowFile, grants' = grants
  PROVE  OutcomeByHolder /\ DoneStaysDone
BY DEF OutcomeByHolder, DoneStaysDone

LEMMA TurnsGoOn ==
  ASSUME FlowInv, flow' = flow, flowFile' = flowFile, grants' = grants,
         turn' \in [Turns -> TurnShape], lapsed \subseteq lapsed', lapsed' \subseteq Issued,
         \A u \in Turns : turn'[u] = turn[u] \/ turn'[u] = AwayTurn
            \/ /\ Busy(u) /\ turn'[u].run = turn[u].run /\ turn'[u].step = turn[u].step
               /\ turn'[u].token = turn[u].token
               /\ turn'[u].at \in {"permitted", "running"} => turn[u].at \in {"permitted", "running"},
         \A k \in effects' : k \in effects \/ \E u \in Turns : Busy(u) /\ k = turn[u].token
  PROVE  FlowStep
<1>1. Issued' = Issued /\ flow.run \in Nat
  BY FlowConstantsOK DEF Issued, FlowInv, FlowShapes, Flows
<1>2. \A u \in Turns : Busy(u) => BusyTells(u)
  BY DEF FlowInv, TurnsTell
<1>3. \A k \in effects' : k \in Issued /\ Remembers(flow, k) /\ Remembers(flowFile, k)
  <2>1. \A k \in effects : k \in Issued /\ Remembers(flow, k) /\ Remembers(flowFile, k)
    BY DEF FlowInv, FlowShapes, EffectsTell
  <2>2. ASSUME NEW u \in Turns, Busy(u), NEW k, k = turn[u].token
        PROVE  k \in Issued /\ Remembers(flow, k) /\ Remembers(flowFile, k)
    BY <1>2, <2>2 DEF BusyTells, Remembers
  <2> QED
    BY <2>1, <2>2
<1>4. FlowShapes'
  BY <1>1, <1>3 DEF FlowInv, FlowShapes
<1>5. RecordsTell' /\ FileBehind'
  BY <1>1 DEF FlowInv, RecordsTell, TokensTell, OneOpen, FileBehind
<1>6. EffectsTell'
  BY <1>3 DEF EffectsTell, Remembers
<1>7. AwayTurn.at = "away" /\ AwayTurn.run = 0
  BY DEF AwayTurn
<1>8. ASSUME NEW u \in Turns PROVE turn'[u].run <= flow'.run
  BY <1>1, <1>7 DEF FlowInv, TurnsTell
<1>9. ASSUME NEW u \in Turns, Busy(u)'
      PROVE  /\ Busy(u) /\ turn'[u].run = turn[u].run /\ turn'[u].step = turn[u].step
             /\ turn'[u].token = turn[u].token
             /\ turn'[u].at \in {"permitted", "running"} => turn[u].at \in {"permitted", "running"}
  BY <1>7, <1>9 DEF Busy
<1>10. ASSUME NEW u \in Turns, Busy(u)' PROVE BusyTells(u)'
  <2>1. BusyTells(u) /\ turn'[u].run = turn[u].run /\ turn'[u].step = turn[u].step
        /\ turn'[u].token = turn[u].token
        /\ (turn'[u].at \in {"permitted", "running"} => turn[u].at \in {"permitted", "running"})
    BY <1>2, <1>9, <1>10
  <2> QED
    BY <1>1, <2>1 DEF BusyTells, Remembers, Newest
<1>11. TurnsTell'
  <2>1. \A u, v \in Turns : Busy(u) /\ Busy(v) /\ turn[u].token = turn[v].token => u = v
    BY DEF FlowInv, TurnsTell
  <2>2. ASSUME NEW u \in Turns, NEW v \in Turns, Busy(u)', Busy(v)', turn'[u].token = turn'[v].token
        PROVE  u = v
    BY <1>9, <2>1, <2>2
  <2> QED
    BY <1>8, <1>10, <2>2 DEF TurnsTell
<1> QED
  BY <1>4, <1>5, <1>6, <1>11, Silent DEF FlowInv, FlowStep

LEMMA AtMoved ==
  ASSUME FlowInv, NEW t \in Turns, NEW at \in {"away", "reading", "permitted", "running", "ran", "broke"},
         turn' = [turn EXCEPT ![t].at = at]
  PROVE  /\ turn' \in [Turns -> TurnShape]
         /\ turn'[t].run = turn[t].run /\ turn'[t].step = turn[t].step /\ turn'[t].token = turn[t].token
         /\ turn'[t].at = at
         /\ \A u \in Turns : u # t => turn'[u] = turn[u]
BY DEF FlowInv, FlowShapes, TurnShape

LEMMA CallToolSafe ==
  ASSUME FlowInv, NEW t \in Turns, CallTool(t) PROVE FlowStep
<1>1. /\ turn[t].at = "permitted" /\ turn' = [turn EXCEPT ![t].at = "running"]
      /\ effects' = effects \cup {turn[t].token} /\ UNCHANGED <<flow, flowFile, grants, lapsed>>
  BY DEF CallTool
<1>2. /\ turn' \in [Turns -> TurnShape]
      /\ turn'[t].run = turn[t].run /\ turn'[t].step = turn[t].step /\ turn'[t].token = turn[t].token
      /\ \A u \in Turns : u # t => turn'[u] = turn[u]
  BY <1>1, AtMoved
<1>3. Busy(t) /\ lapsed \subseteq Issued
  BY <1>1 DEF Busy, FlowInv, FlowShapes
<1> QED
  BY <1>1, <1>2, <1>3, TurnsGoOn

LEMMA ToolReturnsSafe ==
  ASSUME FlowInv, NEW t \in Turns, ToolReturns(t) PROVE FlowStep
<1>1. PICK outcome \in {"ran", "broke"} : turn' = [turn EXCEPT ![t].at = outcome]
  BY DEF ToolReturns
<1>2. turn[t].at = "running" /\ UNCHANGED <<flow, flowFile, grants, lapsed, effects>>
  BY DEF ToolReturns
<1>3. /\ turn' \in [Turns -> TurnShape]
      /\ turn'[t].run = turn[t].run /\ turn'[t].step = turn[t].step /\ turn'[t].token = turn[t].token
      /\ \A u \in Turns : u # t => turn'[u] = turn[u]
  BY <1>1, AtMoved
<1>4. Busy(t) /\ lapsed \subseteq Issued
  BY <1>2 DEF Busy, FlowInv, FlowShapes
<1> QED
  BY <1>2, <1>3, <1>4, TurnsGoOn

LEMMA LeaseLapsesSafe ==
  ASSUME FlowInv, NEW s \in Steps, LeaseLapses(s) PROVE FlowStep
<1>1. /\ lapsed' = lapsed \cup {flow.steps[s].token} /\ flow.steps[s].status = "claimed"
      /\ UNCHANGED <<flow, flowFile, turn, grants, effects>>
  BY DEF LeaseLapses, Leased
<1>2. flow.steps[s].token \in Issued
  <2>1. TokensTell(flow)
    BY DEF FlowInv, RecordsTell
  <2> QED
    BY <1>1, <2>1 DEF TokensTell
<1>3. turn \in [Turns -> TurnShape] /\ lapsed \subseteq Issued
  BY DEF FlowInv, FlowShapes
<1> QED
  BY <1>1, <1>2, <1>3, TurnsGoOn

LEMMA AwayShape == AwayTurn \in TurnShape /\ AwayTurn.at = "away" /\ AwayTurn.run = 0
BY FlowConstantsOK DEF AwayTurn, TurnShape

LEMMA TurnEndsSafe ==
  ASSUME FlowInv, NEW t \in Turns, TurnEnds(t) PROVE FlowStep
<1>1. turn' = [turn EXCEPT ![t] = AwayTurn] /\ UNCHANGED <<flow, flowFile, grants, lapsed, effects>>
  BY DEF TurnEnds
<1>2. turn \in [Turns -> TurnShape] /\ lapsed \subseteq Issued
  BY DEF FlowInv, FlowShapes
<1>3. turn' \in [Turns -> TurnShape] /\ \A u \in Turns : turn'[u] = turn[u] \/ turn'[u] = AwayTurn
  BY <1>1, <1>2, AwayShape
<1> QED
  BY <1>1, <1>2, <1>3, TurnsGoOn

LEMMA FlowUnchanged ==
  ASSUME FlowInv, UNCHANGED flowVars PROVE FlowStep
<1>1. UNCHANGED <<flow, flowFile, turn, grants, lapsed, effects>>
  BY DEF flowVars
<1>2. turn \in [Turns -> TurnShape] /\ lapsed \subseteq Issued
  BY DEF FlowInv, FlowShapes
<1> QED
  BY <1>1, <1>2, TurnsGoOn

LEMMA FlowCrashSafe ==
  ASSUME FlowInv, FlowCrash PROVE FlowStep
<1>1. /\ flow' = flowFile /\ flowFile' = flowFile /\ turn' = [t \in Turns |-> AwayTurn]
      /\ grants' = grants /\ lapsed' = lapsed /\ effects' = effects
  BY DEF FlowCrash
<1>2. Issued' = Issued
  BY <1>1 DEF Issued
<1>3. /\ flow.rev \in Nat /\ flowFile.rev \in Nat /\ flowFile.run \in Nat /\ flowFile \in Flows
  BY FlowConstantsOK DEF FlowInv, FlowShapes, Flows
<1>4. FlowShapes'
  BY <1>1, <1>2, AwayShape DEF FlowInv, FlowShapes
<1>5. RecordsTell'
  <2>1. TokensTell(flowFile) /\ OneOpen(flowFile)
    BY DEF FlowInv, RecordsTell
  <2> QED
    BY <1>1, <1>2, <2>1 DEF RecordsTell, TokensTell, OneOpen
<1>6. FileBehind'
  BY <1>1, <1>3 DEF FileBehind
<1>7. EffectsTell'
  BY <1>1 DEF FlowInv, EffectsTell, Remembers
<1>8. TurnsTell'
  BY <1>1, <1>3, AwayShape DEF TurnsTell, Busy
<1>9. OutcomeByHolder
  BY <1>1, <1>3 DEF OutcomeByHolder, FlowInv, FileBehind
<1>10. DoneStaysDone
  BY <1>1 DEF DoneStaysDone
<1> QED
  BY <1>4, <1>5, <1>6, <1>7, <1>8, <1>9, <1>10 DEF FlowInv, FlowStep

LEMMA FlowStepSafe ==
  ASSUME FlowInv, [FlowNext]_flowVars PROVE FlowStep
<1>1. CASE UNCHANGED flowVars
  BY <1>1, FlowUnchanged
<1>2. ASSUME NEW t \in Turns,
             \/ Begin(t) \/ Resume(t) \/ Restart(t)
             \/ \E s \in Steps : Claim(t, s) \/ ClaimInVain(t, s)
             \/ CallTool(t) \/ ToolReturns(t)
             \/ \E next \in Steps \cup {NoStep} : Checkpoint(t, next)
             \/ Fail(t) \/ Replayed(t) \/ TurnEnds(t)
      PROVE  FlowStep
  BY <1>2, BeginSafe, ResumeSafe, RestartSafe, ClaimFlowSafe, ClaimInVainSafe, CallToolSafe,
     ToolReturnsSafe, CheckpointSafe, FailSafe, ReplayedSafe, TurnEndsSafe
<1>3. CASE FlowNext
  BY <1>2, <1>3, LeaseLapsesSafe, FlowCrashSafe DEF FlowNext
<1> QED
  BY <1>1, <1>3

LEMMA FlowInvSafe == ASSUME FlowInv PROVE StepSafety
<1>1. \A u \in Turns : Busy(u) => BusyTells(u)
  BY DEF FlowInv, TurnsTell
<1>2. FlowTyped
  <2>1. Issued \subseteq 1..MaxTokens /\ 0 \notin Issued
    BY FlowConstantsOK DEF FlowInv, FlowShapes, Issued
  <2>2. ASSUME NEW record \in {flow, flowFile}
        PROVE  /\ record \in Flows
               /\ \A s \in Steps : record.steps[s].status # "none" <=> record.steps[s].token \in Issued
    <3>1. TokensTell(record) /\ record \in Flows
      BY DEF FlowInv, FlowShapes, RecordsTell
    <3> QED
      BY <2>1, <3>1 DEF TokensTell
  <2> QED
    BY <2>2 DEF FlowInv, FlowShapes, FlowTyped, TurnShape
<1>3. OneOpenStep
  <2>1. OneOpen(flow)
    BY DEF FlowInv, RecordsTell
  <2> QED
    BY <2>1 DEF OneOpen, OneOpenStep
<1>4. RunnersApart
  <2> SUFFICES ASSUME NEW t \in Turns, NEW u \in Turns, t # u, turn[t].at = "running", turn[u].at = "running",
                      grants[turn[t].token] = grants[turn[u].token],
                      turn[t].token \notin lapsed, turn[u].token \notin lapsed
               PROVE  FALSE
    BY DEF RunnersApart
  <2>1. Busy(t) /\ Busy(u)
    BY DEF Busy
  <2>2. /\ turn[t].step = turn[u].step
        /\ flow.steps[turn[t].step] = [status |-> "claimed", token |-> turn[t].token]
        /\ flow.steps[turn[u].step] = [status |-> "claimed", token |-> turn[u].token]
    BY <1>1, <2>1 DEF BusyTells
  <2>3. turn[t].token = turn[u].token
    BY <2>2
  <2> QED
    BY <2>1, <2>3 DEF FlowInv, TurnsTell
<1>5. EffectIsOnFile
  <2> SUFFICES ASSUME NEW k \in effects, flowFile.run = grants[k].run
               PROVE  flowFile.steps[grants[k].step].token >= k
    BY DEF EffectIsOnFile
  <2>1. Remembers(flowFile, k) /\ k \in Issued
    BY DEF FlowInv, FlowShapes, EffectsTell
  <2>2. grants[k] \in Grant /\ k \in Nat /\ flowFile \in Flows
    BY <2>1 DEF FlowInv, FlowShapes, Issued
  <2>3. flowFile.steps[grants[k].step].token \in Nat
    BY <2>2 DEF Grant, Flows, StepState
  <2> QED
    BY <2>1, <2>2, <2>3 DEF Remembers
<1> QED
  BY <1>2, <1>3, <1>4, <1>5 DEF StepSafety

(* A step's side effect happens once for one lease, and the record in the   *)
(* file never hides that it may have happened, whatever turns, leases,      *)
(* failing saves and restarts do (workflow_state.py, data_store.py).        *)
THEOREM StepsRunOnce == FlowSpec => []StepSafety
<1>1. FlowInit => FlowInv
  BY FlowInitSafe
<1>2. FlowInv /\ [FlowNext]_flowVars => FlowInv'
  BY FlowStepSafe DEF FlowStep
<1>3. FlowInv => StepSafety
  BY FlowInvSafe
<1> QED
  BY <1>1, <1>2, <1>3, PTL DEF FlowSpec

(* An outcome is recorded once, by the turn that holds the newest claim of  *)
(* the step, and a success in the file is final for its run.                *)
THEOREM StepsStayDone == FlowSpec => OutcomesStand
<1>1. FlowInit => FlowInv
  BY FlowInitSafe
<1>2. FlowInv /\ [FlowNext]_flowVars => FlowInv'
  BY FlowStepSafe DEF FlowStep
<1>3. FlowInv /\ [FlowNext]_flowVars => [OutcomeByHolder /\ DoneStaysDone]_flowVars
  BY FlowStepSafe DEF FlowStep
<1> QED
  BY <1>1, <1>2, <1>3, PTL DEF FlowSpec, OutcomesStand

-----------------------------------------------------------------------------
(* The persona notebook. *)

Requests == [id : Nat, op : Operations, before : 0..MaxSize, conflicted : BOOLEAN]
RunShape(ids) ==
  [at : {"rest", "read", "asking", "planned", "committing", "replacing"},
   rev : Nat, text : Texts, selected : ids, plan : Texts, aborted : BOOLEAN]

(* Which request a run selects is Oldest's choice and does not matter here. *)
NoteShapes ==
  /\ note \in [rev : Nat, text : Texts, pending : SUBSET Requests, receipts : SUBSET Nat]
  /\ \E ids : upkeep \in [Upkeeps -> RunShape(ids)]
  /\ requestId \in Nat

(* An id is given once, and leaves what waits when its receipt is written.  *)
IdsApart(pending, receipts, last) ==
  /\ \A p \in pending : p.id \in 1..last /\ p.id \notin receipts
  /\ \A p, q \in pending : p.id = q.id => p = q
  /\ receipts \subseteq 1..last

(* A revision tells the text, and a run that holds the lock has read the    *)
(* newest one and can carry out what it has selected.                       *)
RunTells(r) ==
  /\ upkeep[r].rev <= note.rev
  /\ upkeep[r].at # "rest" /\ upkeep[r].rev = note.rev => upkeep[r].text = note.text
  /\ upkeep[r].at = "replacing" =>
       /\ upkeep[r].rev = note.rev /\ StillWaiting(r)
       /\ \A p \in Selected(r) : Sound(Tidied(r), p.op)

OneLock ==
  \A r, u \in Upkeeps : upkeep[r].at = "replacing" /\ upkeep[u].at = "replacing" => r = u

NoteInv ==
  /\ NoteShapes /\ IdsApart(note.pending, note.receipts, requestId)
  /\ (\A r \in Upkeeps : RunTells(r)) /\ OneLock

NoteStep == NoteInv' /\ WaitsUntilServed /\ TidiesWhatItRead

-----------------------------------------------------------------------------
LEMMA NoNotes == [i \in Ids |-> 0] \in Texts
BY NotebookConstantsOK DEF Texts

LEMMA RestedShape ==
  ASSUME NEW ids, 0 \in ids
  PROVE  Rested \in RunShape(ids) /\ Rested.at = "rest" /\ Rested.rev = 0
BY NoNotes DEF Rested, RunShape

LEMMA NoteInitSafe == NotebookInit => NoteInv
<1> SUFFICES ASSUME NotebookInit PROVE NoteInv
  OBVIOUS
<1>1. /\ note = [rev |-> 0, text |-> [i \in Ids |-> 0], pending |-> {}, receipts |-> {}]
      /\ upkeep = [r \in Upkeeps |-> Rested] /\ requestId = 0
  BY DEF NotebookInit
<1>2. Rested \in RunShape({0}) /\ Rested.at = "rest" /\ Rested.rev = 0
  BY RestedShape
<1>3. note \in [rev : Nat, text : Texts, pending : SUBSET Requests, receipts : SUBSET Nat]
  BY <1>1, NoNotes
<1>4. upkeep \in [Upkeeps -> RunShape({0})]
  BY <1>1, <1>2
<1>5. NoteShapes
  BY <1>1, <1>3, <1>4 DEF NoteShapes
<1>6. IdsApart(note.pending, note.receipts, requestId)
  BY <1>1 DEF IdsApart
<1>7. \A r \in Upkeeps : RunTells(r)
  BY <1>1, <1>2 DEF RunTells
<1>8. OneLock
  BY <1>1, <1>2 DEF OneLock
<1> QED
  BY <1>5, <1>6, <1>7, <1>8 DEF NoteInv

-----------------------------------------------------------------------------
(* Writing the file. *)
Mark(p, text) == [p EXCEPT !.conflicted = @ \/ text[p.op.entry] # note.text[p.op.entry]]

LEMMA MarkKeeps ==
  ASSUME NEW p \in Requests, NEW text
  PROVE  Mark(p, text) \in Requests /\ Mark(p, text).id = p.id /\ Mark(p, text).op = p.op
<1>1. PICK b : b = (p.conflicted \/ text[p.op.entry] # note.text[p.op.entry])
  OBVIOUS
<1>2. b \in BOOLEAN
  BY <1>1
<1>3. Mark(p, text) = [p EXCEPT !.conflicted = b]
  BY <1>1 DEF Mark
<1> QED
  BY <1>2, <1>3 DEF Requests

(* What waits goes on waiting under its id, marked or not. *)
LEMMA PersistKeeps ==
  ASSUME NoteShapes, NEW text \in Texts, NEW pending \in SUBSET Requests, NEW receipts \in SUBSET Nat,
         Persist(text, pending, receipts), NEW last,
         IdsApart(pending, receipts, last), IdsApart(note.pending, note.receipts, last)
  PROVE  /\ note' \in [rev : Nat, text : Texts, pending : SUBSET Requests, receipts : SUBSET Nat]
         /\ IdsApart(note'.pending, note'.receipts, last)
         /\ note' = note \/ note'.rev = note.rev + 1
         /\ \A p \in pending : \E q \in note'.pending : q.id = p.id /\ q.op = p.op
<1>1. note \in [rev : Nat, text : Texts, pending : SUBSET Requests, receipts : SUBSET Nat]
  BY DEF NoteShapes
<1>2. CASE text = note.text /\ pending = note.pending
  <2>1. note' = note
    BY <1>2 DEF Persist
  <2> QED
    BY <1>1, <1>2, <2>1
<1>3. CASE ~(text = note.text /\ pending = note.pending)
  <2>1. PICK marked : marked = Marked(pending, text)
    OBVIOUS
  <2>2. marked = {Mark(p, text) : p \in pending}
    BY <2>1 DEF Marked, Mark
  <2>3. \A p \in pending : Mark(p, text) \in Requests /\ Mark(p, text).id = p.id /\ Mark(p, text).op = p.op
    BY MarkKeeps
  <2>4. note' = [rev |-> note.rev + 1, text |-> text, pending |-> marked, receipts |-> receipts]
    BY <1>3, <2>1 DEF Persist
  <2>5. marked \in SUBSET Requests
    BY <2>2, <2>3
  <2>6. IdsApart(marked, receipts, last)
    BY <2>2, <2>3 DEF IdsApart
  <2>7. \A p \in pending : \E q \in marked : q.id = p.id /\ q.op = p.op
    BY <2>2, <2>3
  <2>8. note.rev + 1 \in Nat
    BY <1>1
  <2>9. note' \in [rev : Nat, text : Texts, pending : SUBSET Requests, receipts : SUBSET Nat]
    BY <2>4, <2>5, <2>8
  <2> QED
    BY <2>4, <2>6, <2>7, <2>9
<1> QED
  BY <1>2, <1>3

(* A run stays sound when somebody else writes, or nobody. *)
LEMMA RunGoesOn ==
  ASSUME NoteInv, NEW r \in Upkeeps, upkeep'[r] = upkeep[r],
         note' = note \/ (note'.rev = note.rev + 1 /\ upkeep[r].at # "replacing")
  PROVE  RunTells(r)'
<1>1. PICK ids : upkeep \in [Upkeeps -> RunShape(ids)]
  BY DEF NoteInv, NoteShapes
<1>2. upkeep[r].rev \in Nat /\ note.rev \in Nat /\ RunTells(r)
  BY <1>1 DEF NoteInv, NoteShapes, RunShape
<1>3. CASE note' = note
  <2>1. Selected(r)' = Selected(r) /\ Tidied(r)' = Tidied(r)
    BY <1>3 DEF Selected, Tidied
  <2>2. StillWaiting(r) => StillWaiting(r)'
    BY <1>3, <2>1 DEF StillWaiting
  <2> QED
    BY <1>2, <1>3, <2>1, <2>2 DEF RunTells
<1>4. CASE note'.rev = note.rev + 1 /\ upkeep[r].at # "replacing"
  BY <1>2, <1>4 DEF RunTells
<1> QED
  BY <1>3, <1>4

(* A write beside the runs. *)
LEMMA WriteSafe ==
  ASSUME NoteInv, Unlocked, upkeep' = upkeep, requestId' \in Nat, requestId <= requestId',
         NEW text \in Texts, NEW pending \in SUBSET Requests,
         note.pending \subseteq pending, Persist(text, pending, note.receipts),
         IdsApart(pending, note.receipts, requestId')
  PROVE  NoteStep
<1>1. /\ note \in [rev : Nat, text : Texts, pending : SUBSET Requests, receipts : SUBSET Nat]
      /\ requestId \in Nat
  BY DEF NoteInv, NoteShapes
<1>2. IdsApart(note.pending, note.receipts, requestId')
  BY <1>1 DEF NoteInv, IdsApart
<1>3. /\ note' \in [rev : Nat, text : Texts, pending : SUBSET Requests, receipts : SUBSET Nat]
      /\ IdsApart(note'.pending, note'.receipts, requestId')
      /\ note' = note \/ note'.rev = note.rev + 1
      /\ \A p \in pending : \E q \in note'.pending : q.id = p.id /\ q.op = p.op
  BY <1>1, <1>2, PersistKeeps DEF NoteInv
<1>4. NoteShapes'
  BY <1>3 DEF NoteInv, NoteShapes
<1>5. \A r \in Upkeeps : RunTells(r)'
  BY <1>3, RunGoesOn DEF Unlocked
<1>6. OneLock'
  BY DEF NoteInv, OneLock
<1>7. WaitsUntilServed /\ TidiesWhatItRead
  BY <1>3 DEF WaitsUntilServed, TidiesWhatItRead, Unlocked
<1> QED
  BY <1>3, <1>4, <1>5, <1>6, <1>7 DEF NoteInv, NoteStep

LEMMA AppliedText ==
  ASSUME NEW text \in Texts, NEW op \in Operations
  PROVE  /\ Applied(text, op) \in Texts
         /\ Sound(text, op) => Applied(text, op)[op.entry] = op.text
<1>1. op.entry \in Ids /\ op.text \in 0..MaxSize
  BY NotebookConstantsOK DEF Operations
<1> QED
  BY <1>1 DEF Applied, Texts

LEMMA ApplyNowSafe ==
  ASSUME NoteInv, NEW op \in Operations, ApplyNow(op) PROVE NoteStep
<1>1. /\ note.text \in Texts /\ note.pending \in SUBSET Requests /\ requestId \in Nat
  BY DEF NoteInv, NoteShapes
<1>2. /\ Unlocked /\ Persist(Applied(note.text, op), note.pending, note.receipts)
      /\ upkeep' = upkeep /\ requestId' = requestId
  BY DEF ApplyNow
<1>3. IdsApart(note.pending, note.receipts, requestId) /\ requestId <= requestId
  BY <1>1 DEF NoteInv
<1> QED
  BY <1>1, <1>2, <1>3, AppliedText, WriteSafe

LEMMA EnqueueSafe ==
  ASSUME NoteInv, NEW op \in Operations, Enqueue(op) PROVE NoteStep
<1> DEFINE new == [id |-> requestId + 1, op |-> op, before |-> note.text[op.entry], conflicted |-> FALSE]
           pending == note.pending \cup {new}
<1>1. /\ note.text \in Texts /\ note.pending \in SUBSET Requests /\ requestId \in Nat
  BY DEF NoteInv, NoteShapes
<1>2. /\ Unlocked /\ Persist(note.text, pending, note.receipts)
      /\ upkeep' = upkeep /\ requestId' = requestId + 1
  BY DEF Enqueue
<1>3. op.entry \in Ids
  BY DEF Operations
<1>4. new \in Requests /\ new.id = requestId + 1
  BY <1>1, <1>3 DEF Requests, Texts
<1> HIDE DEF new
<1>5. IdsApart(note.pending, note.receipts, requestId)
  BY DEF NoteInv
<1>6. IdsApart(pending, note.receipts, requestId + 1)
  <2>1. \A p \in note.pending : p.id \in 1..requestId + 1 /\ p.id # requestId + 1 /\ p.id \notin note.receipts
    BY <1>1, <1>5 DEF IdsApart
  <2>2. requestId + 1 \in 1..requestId + 1 /\ requestId + 1 \notin note.receipts
    BY <1>1, <1>5 DEF IdsApart
  <2>3. note.receipts \subseteq 1..requestId + 1
    BY <1>1, <1>5 DEF IdsApart
  <2> QED
    BY <1>4, <1>5, <2>1, <2>2, <2>3 DEF IdsApart
<1>7. pending \in SUBSET Requests /\ note.pending \subseteq pending
  BY <1>1, <1>4
<1> HIDE DEF pending
<1>8. requestId + 1 \in Nat /\ requestId <= requestId + 1
  BY <1>1
<1> QED
  BY <1>1, <1>2, <1>6, <1>7, <1>8, WriteSafe

-----------------------------------------------------------------------------
(* The steps of a run that leave the file alone. *)
LEMMA FileKept ==
  ASSUME NoteInv, note' = note PROVE WaitsUntilServed /\ TidiesWhatItRead
BY DEF WaitsUntilServed, TidiesWhatItRead

LEMMA RunSteps ==
  ASSUME NoteInv, note' = note, requestId' = requestId, NEW r \in Upkeeps,
         NEW ids, upkeep \in [Upkeeps -> RunShape(ids)], NEW new \in RunShape(ids),
         upkeep' = [upkeep EXCEPT ![r] = new],
         RunTells(r)', new.at = "replacing" => Unlocked
  PROVE  NoteStep
<1>1. upkeep' \in [Upkeeps -> RunShape(ids)] /\ upkeep'[r] = new
      /\ \A u \in Upkeeps : u # r => upkeep'[u] = upkeep[u]
  OBVIOUS
<1>2. NoteShapes'
  BY <1>1 DEF NoteInv, NoteShapes
<1>3. \A u \in Upkeeps : RunTells(u)'
  BY <1>1, RunGoesOn
<1>4. OneLock'
  BY <1>1 DEF NoteInv, OneLock, Unlocked
<1> QED
  BY <1>2, <1>3, <1>4, FileKept DEF NoteInv, NoteStep

(* A run that gives up. *)
LEMMA RestSafe ==
  ASSUME NoteInv, note' = note, requestId' = requestId, NEW r \in Upkeeps,
         upkeep' = [upkeep EXCEPT ![r] = Rested]
  PROVE  NoteStep
<1>1. PICK ids : upkeep \in [Upkeeps -> RunShape(ids)]
  BY DEF NoteInv, NoteShapes
<1>2. PICK all : all = ids \cup {0}
  OBVIOUS
<1>3. upkeep \in [Upkeeps -> RunShape(all)] /\ 0 \in all
  BY <1>1, <1>2 DEF RunShape
<1>4. Rested \in RunShape(all) /\ Rested.at = "rest" /\ Rested.rev = 0
  BY <1>3, RestedShape
<1>5. RunTells(r)'
  BY <1>3, <1>4 DEF RunTells, NoteInv, NoteShapes
<1> QED
  BY <1>3, <1>4, <1>5, RunSteps

(* Run r goes to the stage at, with a plan and an abort, keeping what it has read. *)
Stages == {"read", "asking", "planned", "committing", "replacing"}

GoesOn(r, at, plan, aborted) ==
    [upkeep EXCEPT ![r] = [upkeep[r] EXCEPT !.at = at, !.plan = plan, !.aborted = aborted]]

LEMMA GoOnSafe ==
  ASSUME NoteInv, note' = note, requestId' = requestId, NEW r \in Upkeeps, upkeep[r].at # "rest",
         NEW at \in Stages,
         NEW plan \in Texts, NEW aborted \in BOOLEAN,
         upkeep' = GoesOn(r, at, plan, aborted),
         at = "replacing" => plan = upkeep[r].plan /\ ((Unlocked /\ Committable(r)) \/ upkeep[r].at = "replacing")
  PROVE  NoteStep
<1>1. PICK ids : upkeep \in [Upkeeps -> RunShape(ids)]
  BY DEF NoteInv, NoteShapes
<1>2. PICK new : new = [upkeep[r] EXCEPT !.at = at, !.plan = plan, !.aborted = aborted]
  OBVIOUS
<1>3. /\ new \in RunShape(ids) /\ new.at = at /\ new.plan = plan
      /\ new.rev = upkeep[r].rev /\ new.text = upkeep[r].text /\ new.selected = upkeep[r].selected
  BY <1>1, <1>2 DEF RunShape, Stages
<1>4. upkeep' = [upkeep EXCEPT ![r] = new] /\ upkeep'[r] = new
  BY <1>1, <1>2 DEF GoesOn
<1>5. RunTells(r)
  BY DEF NoteInv
<1>6. Selected(r)' = Selected(r) /\ (StillWaiting(r) => StillWaiting(r)')
  BY <1>3, <1>4 DEF Selected, StillWaiting
<1>7. plan = upkeep[r].plan => Tidied(r)' = Tidied(r)
  BY <1>3, <1>4 DEF Tidied
<1>8. ASSUME at = "replacing"
      PROVE  upkeep[r].rev = note.rev /\ StillWaiting(r) /\ \A p \in Selected(r) : Sound(Tidied(r), p.op)
  BY <1>5, <1>8 DEF RunTells, Committable, ReadNewest
<1>9. RunTells(r)'
  BY <1>3, <1>4, <1>5, <1>6, <1>7, <1>8 DEF RunTells
<1>10. CASE at = "replacing" /\ upkeep[r].at = "replacing"
  <2>1. \A u \in Upkeeps : u # r => upkeep'[u] = upkeep[u]
    BY <1>1, <1>4
  <2>2. upkeep' \in [Upkeeps -> RunShape(ids)]
    BY <1>1, <1>3, <1>4
  <2>3. NoteShapes'
    BY <2>2 DEF NoteInv, NoteShapes
  <2>4. \A u \in Upkeeps : RunTells(u)'
    BY <1>9, <2>1, RunGoesOn
  <2>5. OneLock'
    BY <1>3, <1>4, <1>10, <2>1 DEF NoteInv, OneLock
  <2> QED
    BY <2>3, <2>4, <2>5, FileKept DEF NoteInv, NoteStep
<1>11. CASE ~(at = "replacing" /\ upkeep[r].at = "replacing")
  BY <1>1, <1>3, <1>4, <1>9, <1>11, RunSteps DEF Stages
<1> QED
  BY <1>10, <1>11

MovesTo(r, at) == [upkeep EXCEPT ![r].at = at]

LEMMA AtGoesOn ==
  ASSUME NoteInv, note' = note, requestId' = requestId, NEW r \in Upkeeps, upkeep[r].at # "rest",
         NEW at \in Stages,
         upkeep' = MovesTo(r, at),
         at = "replacing" => Unlocked /\ Committable(r)
  PROVE  NoteStep
<1>1. PICK ids : upkeep \in [Upkeeps -> RunShape(ids)]
  BY DEF NoteInv, NoteShapes
<1>2. PICK plan : plan = upkeep[r].plan
  OBVIOUS
<1>3. PICK aborted : aborted = upkeep[r].aborted
  OBVIOUS
<1>4. plan \in Texts /\ aborted \in BOOLEAN /\ upkeep[r] \in RunShape(ids)
  BY <1>1, <1>2, <1>3 DEF RunShape
<1>5. [upkeep[r] EXCEPT !.at = at] = [upkeep[r] EXCEPT !.at = at, !.plan = plan, !.aborted = aborted]
  BY <1>2, <1>3, <1>4 DEF RunShape
<1>6. upkeep' = GoesOn(r, at, plan, aborted)
  BY <1>1, <1>5 DEF GoesOn, MovesTo
<1> QED
  BY <1>2, <1>4, <1>6, GoOnSafe

LEMMA ReadNotesSafe ==
  ASSUME NoteInv, NEW r \in Upkeeps, ReadNotes(r) PROVE NoteStep
<1>1. PICK ids : upkeep \in [Upkeeps -> RunShape(ids)]
  BY DEF NoteInv, NoteShapes
<1>2. PICK chosen : chosen = IF note.pending = {} THEN 0 ELSE Oldest.id
  OBVIOUS
<1>3. PICK all : all = ids \cup {0, chosen}
  OBVIOUS
<1>4. upkeep \in [Upkeeps -> RunShape(all)] /\ 0 \in all /\ chosen \in all
  BY <1>1, <1>3 DEF RunShape
<1>5. Rested \in RunShape(all)
  BY <1>4, RestedShape
<1>6. PICK new : new = [Rested EXCEPT !.at = "read", !.rev = note.rev, !.text = note.text, !.selected = chosen]
  OBVIOUS
<1>7. note.rev \in Nat /\ note.text \in Texts
  BY DEF NoteInv, NoteShapes
<1>8. new \in RunShape(all) /\ new.at = "read" /\ new.rev = note.rev /\ new.text = note.text
  BY <1>4, <1>5, <1>6, <1>7 DEF RunShape
<1>9. upkeep' = [upkeep EXCEPT ![r] = new] /\ note' = note /\ requestId' = requestId
  BY <1>2, <1>6 DEF ReadNotes
<1>10. upkeep'[r] = new
  BY <1>4, <1>9
<1>11. RunTells(r)'
  BY <1>7, <1>8, <1>9, <1>10 DEF RunTells
<1> QED
  BY <1>4, <1>8, <1>9, <1>11, RunSteps

LEMMA AskModelSafe ==
  ASSUME NoteInv, NEW r \in Upkeeps, AskModel(r) PROVE NoteStep
<1>1. upkeep' = MovesTo(r, "asking") /\ note' = note /\ requestId' = requestId
  BY DEF AskModel, MovesTo
<1>2. "asking" \in Stages /\ "asking" # "replacing" /\ upkeep[r].at # "rest"
  BY DEF Stages, AskModel
<1> QED
  BY <1>1, <1>2, AtGoesOn

LEMMA CommitPlanSafe ==
  ASSUME NoteInv, NEW r \in Upkeeps, CommitPlan(r) PROVE NoteStep
<1>1. upkeep' = MovesTo(r, "committing") /\ note' = note /\ requestId' = requestId
  BY DEF CommitPlan, MovesTo
<1>2. "committing" \in Stages /\ "committing" # "replacing" /\ upkeep[r].at # "rest"
  BY DEF Stages, CommitPlan
<1> QED
  BY <1>1, <1>2, AtGoesOn

LEMMA ModelAnswersSafe ==
  ASSUME NoteInv, NEW r \in Upkeeps, NEW plan \in Texts, ModelAnswers(r, plan) PROVE NoteStep
<1>1. PICK ids : upkeep \in [Upkeeps -> RunShape(ids)]
  BY DEF NoteInv, NoteShapes
<1>2. PICK aborted : aborted = upkeep[r].aborted
  OBVIOUS
<1>3. aborted \in BOOLEAN /\ upkeep[r] \in RunShape(ids)
  BY <1>1, <1>2 DEF RunShape
<1>4. [upkeep[r] EXCEPT !.at = "planned", !.plan = plan] =
      [upkeep[r] EXCEPT !.at = "planned", !.plan = plan, !.aborted = aborted]
  BY <1>2, <1>3 DEF RunShape
<1>5. /\ upkeep' = [upkeep EXCEPT ![r].at = "planned", ![r].plan = plan]
      /\ upkeep[r].at = "asking" /\ note' = note /\ requestId' = requestId
  BY DEF ModelAnswers
<1>6. upkeep' = [upkeep EXCEPT ![r] = [upkeep[r] EXCEPT !.at = "planned", !.plan = plan]]
  BY <1>1, <1>5 DEF RunShape
<1>7. upkeep' = GoesOn(r, "planned", plan, aborted)
  BY <1>4, <1>6 DEF GoesOn
<1>8. "planned" \in Stages /\ "planned" # "replacing" /\ upkeep[r].at # "rest"
  BY <1>5 DEF Stages
<1> QED
  BY <1>3, <1>5, <1>7, <1>8, GoOnSafe

LEMMA InterruptSafe ==
  ASSUME NoteInv, NEW r \in Upkeeps, InterruptRun(r) PROVE NoteStep
<1>1. PICK ids : upkeep \in [Upkeeps -> RunShape(ids)]
  BY DEF NoteInv, NoteShapes
<1>2. PICK at : at = upkeep[r].at
  OBVIOUS
<1>3. PICK plan : plan = upkeep[r].plan
  OBVIOUS
<1>4. plan \in Texts /\ upkeep[r] \in RunShape(ids)
  BY <1>1, <1>3 DEF RunShape
<1>5. [upkeep[r] EXCEPT !.aborted = TRUE] = [upkeep[r] EXCEPT !.at = at, !.plan = plan, !.aborted = TRUE]
  BY <1>2, <1>3, <1>4 DEF RunShape
<1>6. /\ upkeep' = [upkeep EXCEPT ![r].aborted = TRUE] /\ at \in {"committing", "replacing"}
      /\ note' = note /\ requestId' = requestId
  BY <1>2 DEF InterruptRun
<1>7. upkeep' = GoesOn(r, at, plan, TRUE)
  BY <1>1, <1>5, <1>6 DEF GoesOn
<1>8. /\ at \in Stages /\ TRUE \in BOOLEAN /\ upkeep[r].at # "rest"
      /\ at = "replacing" => plan = upkeep[r].plan /\ upkeep[r].at = "replacing"
  BY <1>2, <1>3, <1>6 DEF Stages
<1> QED
  BY <1>4, <1>6, <1>7, <1>8, GoOnSafe

LEMMA LockSafe ==
  ASSUME NoteInv, NEW r \in Upkeeps, LockAndCheck(r) PROVE NoteStep
<1>1. Unlocked /\ upkeep[r].at = "committing" /\ note' = note /\ requestId' = requestId
  BY DEF LockAndCheck
<1>2. CASE ~upkeep[r].aborted /\ Committable(r) /\ note.rev < MaxNoteRev
  <2>1. upkeep' = MovesTo(r, "replacing") /\ "replacing" \in Stages
    BY <1>2 DEF LockAndCheck, MovesTo, Stages
  <2> QED
    BY <1>1, <1>2, <2>1, AtGoesOn
<1>3. CASE ~(~upkeep[r].aborted /\ Committable(r) /\ note.rev < MaxNoteRev)
  <2>1. upkeep' = [upkeep EXCEPT ![r] = Rested]
    BY <1>3 DEF LockAndCheck
  <2> QED
    BY <1>1, <2>1, RestSafe
<1> QED
  BY <1>2, <1>3

LEMMA CrashNoteSafe ==
  ASSUME NoteInv, NotebookCrash PROVE NoteStep
<1>1. upkeep' = [r \in Upkeeps |-> Rested] /\ note' = note /\ requestId' = requestId
  BY DEF NotebookCrash
<1>2. Rested \in RunShape({0}) /\ Rested.at = "rest" /\ Rested.rev = 0
  BY RestedShape
<1>3. upkeep' \in [Upkeeps -> RunShape({0})] /\ note.rev \in Nat
  BY <1>1, <1>2 DEF NoteInv, NoteShapes
<1>4. NoteShapes'
  BY <1>1, <1>3 DEF NoteInv, NoteShapes
<1>5. (\A r \in Upkeeps : RunTells(r)') /\ OneLock'
  BY <1>1, <1>2, <1>3 DEF RunTells, OneLock
<1> QED
  BY <1>1, <1>4, <1>5, FileKept DEF NoteInv, NoteStep

LEMMA NoteUnchanged ==
  ASSUME NoteInv, note' = note, upkeep' = upkeep, requestId' = requestId PROVE NoteStep
<1>1. \A r \in Upkeeps : RunTells(r)'
  BY RunGoesOn
<1> QED
  BY <1>1, FileKept DEF NoteInv, NoteShapes, OneLock, NoteStep

-----------------------------------------------------------------------------
(* What a run writes. *)
LEMMA ReplaceSafe ==
  ASSUME NoteInv, NEW r \in Upkeeps, Replace(r) PROVE NoteStep
<1> DEFINE chosen == Selected(r)
           pending == note.pending \ chosen
           receipts == note.receipts \cup {p.id : p \in chosen}
<1>1. /\ upkeep[r].at = "replacing" /\ upkeep' = [upkeep EXCEPT ![r] = Rested]
      /\ Persist(Outcome(r), pending, receipts) /\ requestId' = requestId
  BY DEF Replace, Served
<1>2. PICK ids : upkeep \in [Upkeeps -> RunShape(ids)]
  BY DEF NoteInv, NoteShapes
<1>3. /\ note \in [rev : Nat, text : Texts, pending : SUBSET Requests, receipts : SUBSET Nat]
      /\ requestId \in Nat /\ IdsApart(note.pending, note.receipts, requestId)
  BY DEF NoteInv, NoteShapes
<1>4. /\ upkeep[r].rev = note.rev /\ upkeep[r].text = note.text /\ StillWaiting(r)
      /\ \A p \in chosen : Sound(Tidied(r), p.op)
  BY <1>1 DEF NoteInv, RunTells
<1>5. Tidied(r) \in Texts
  BY <1>2, <1>3 DEF Tidied, Texts, RunShape
<1>6. chosen \subseteq note.pending /\ \A p, q \in chosen : p = q
  BY <1>3 DEF Selected, IdsApart
<1>7. ASSUME NEW p \in chosen
      PROVE  /\ Outcome(r) = Applied(Tidied(r), p.op) /\ p.op \in Operations
             /\ Outcome(r)[p.op.entry] = p.op.text /\ ~p.conflicted
  <2>1. (CHOOSE q \in chosen : TRUE) = p
    BY <1>6
  <2>2. Outcome(r) = Applied(Tidied(r), p.op)
    BY <2>1 DEF Outcome
  <2>3. p \in Requests /\ p.op \in Operations
    BY <1>3, <1>6 DEF Requests
  <2>4. upkeep[r].selected # 0
    BY <1>3, <1>6 DEF Selected, IdsApart
  <2>5. ~p.conflicted
    BY <1>4, <1>6, <2>4 DEF StillWaiting
  <2> QED
    BY <1>4, <1>5, <2>2, <2>3, <2>5, AppliedText
<1>8. Outcome(r) \in Texts
  <2>1. CASE chosen = {}
    BY <1>5, <2>1 DEF Outcome
  <2>2. CASE chosen # {}
    BY <1>5, <1>7, <2>2, AppliedText
  <2> QED
    BY <2>1, <2>2
<1>9. pending \in SUBSET Requests /\ receipts \in SUBSET Nat
  BY <1>3, <1>6 DEF Requests
<1>10. IdsApart(pending, receipts, requestId)
  BY <1>3, <1>6 DEF IdsApart, Selected
<1>11. \A p \in note.pending : p \in pending \/ p \in chosen
  OBVIOUS
<1>12. \A p \in chosen : p.id \in receipts /\ p.id \notin note.receipts /\ p \notin pending
  BY <1>3, <1>6 DEF IdsApart
<1> HIDE DEF chosen, pending, receipts
<1>13. /\ note' \in [rev : Nat, text : Texts, pending : SUBSET Requests, receipts : SUBSET Nat]
       /\ IdsApart(note'.pending, note'.receipts, requestId)
       /\ note' = note \/ note'.rev = note.rev + 1
       /\ \A p \in pending : \E q \in note'.pending : q.id = p.id /\ q.op = p.op
  BY <1>1, <1>3, <1>8, <1>9, <1>10, PersistKeeps DEF NoteInv
<1>14. WaitsUntilServed
  <2> SUFFICES ASSUME NEW p \in note.pending, p \in chosen
               PROVE  /\ p.id \in note'.receipts \ note.receipts /\ ~p.conflicted
                      /\ note'.text[p.op.entry] = p.op.text
    BY <1>11, <1>13 DEF WaitsUntilServed
  <2>1. pending # note.pending
    BY <1>12
  <2>2. note'.receipts = receipts /\ note'.text = Outcome(r)
    BY <1>1, <2>1 DEF Persist
  <2> QED
    BY <1>7, <1>12, <2>2
<1>15. TidiesWhatItRead
  <2>1. \A u \in Upkeeps : upkeep[u].at = "replacing" => u = r
    BY <1>1 DEF NoteInv, OneLock
  <2> QED
    BY <1>4, <2>1 DEF TidiesWhatItRead
<1>16. PICK all : all = ids \cup {0}
  OBVIOUS
<1>17. /\ upkeep \in [Upkeeps -> RunShape(all)]
       /\ Rested \in RunShape(all) /\ Rested.at = "rest" /\ Rested.rev = 0
  <2>1. upkeep \in [Upkeeps -> RunShape(all)] /\ 0 \in all
    BY <1>2, <1>16 DEF RunShape
  <2> QED
    BY <2>1, RestedShape
<1>18. /\ upkeep' \in [Upkeeps -> RunShape(all)] /\ upkeep'[r] = Rested
       /\ \A u \in Upkeeps : u # r => upkeep'[u] = upkeep[u] /\ upkeep[u].at # "replacing"
  BY <1>1, <1>17 DEF NoteInv, OneLock
<1>19. NoteShapes'
  BY <1>1, <1>13, <1>18 DEF NoteInv, NoteShapes
<1>20. \A u \in Upkeeps : RunTells(u)'
  <2>1. RunTells(r)'
    BY <1>13, <1>17, <1>18 DEF RunTells
  <2> QED
    BY <1>13, <1>18, <2>1, RunGoesOn
<1>21. OneLock'
  BY <1>17, <1>18 DEF OneLock
<1> QED
  BY <1>1, <1>13, <1>14, <1>15, <1>19, <1>20, <1>21 DEF NoteInv, NoteStep

LEMMA NoteStepSafe ==
  ASSUME NoteInv, [NotebookNext]_noteVars PROVE NoteStep
<1>1. CASE UNCHANGED noteVars
  BY <1>1, NoteUnchanged DEF noteVars
<1>2. ASSUME NEW r \in Upkeeps,
             \/ ReadNotes(r) \/ AskModel(r) \/ \E plan \in Texts : ModelAnswers(r, plan)
             \/ Desist(r) \/ GiveUpAsking(r) \/ CallEnds(r)
             \/ CommitPlan(r) \/ InterruptRun(r) \/ LockAndCheck(r) \/ Replace(r)
      PROVE  NoteStep
  <2>1. CASE Desist(r) \/ GiveUpAsking(r)
    BY <2>1, RestSafe DEF Desist, GiveUpAsking
  <2>2. CASE CallEnds(r)
    BY <2>2, NoteUnchanged DEF CallEnds
  <2> QED
    BY <1>2, <2>1, <2>2, ReadNotesSafe, AskModelSafe, ModelAnswersSafe, CommitPlanSafe,
       InterruptSafe, LockSafe, ReplaceSafe
<1>3. CASE NotebookNext
  BY <1>2, <1>3, ApplyNowSafe, EnqueueSafe, CrashNoteSafe DEF NotebookNext
<1> QED
  BY <1>1, <1>3

(* However writers, marks, time-outs and maintenance runs interleave, no    *)
(* request is dropped that was not carried out, and no plan undoes what was *)
(* written after the run had read (notebook_maintenance.py).                *)
THEOREM NotesKept == NotebookSpec => UpkeepServes
<1>1. NotebookInit => NoteInv
  BY NoteInitSafe
<1>2. NoteInv /\ [NotebookNext]_noteVars => NoteInv'
  BY NoteStepSafe DEF NoteStep
<1>3. NoteInv /\ [NotebookNext]_noteVars => [WaitsUntilServed /\ TidiesWhatItRead]_noteVars
  BY NoteStepSafe DEF NoteStep
<1> QED
  BY <1>1, <1>2, <1>3, PTL DEF NotebookSpec, UpkeepServes

-----------------------------------------------------------------------------
(* What the file promises: it fits, what waits can be carried out, and is  *)
(* asked once.                                                             *)

Promises(pending, text) ==
  /\ IsFiniteSet(pending) /\ Cardinality(pending) <= MaxPending
  /\ \A p \in pending : ~p.conflicted => p.before = text[p.op.entry]
  /\ \A p, q \in pending : ~p.conflicted /\ ~q.conflicted /\ p.op = q.op => p = q

(* A run between the check and the replacement has seen its outcome fit.   *)
Ready(r) == Fits(Outcome(r)) /\ note.rev < MaxNoteRev

NoteKeeps ==
  /\ Fits(note.text) /\ note.rev <= MaxNoteRev /\ Promises(note.pending, note.text)
  /\ \A r \in Upkeeps : upkeep[r].at = "replacing" => Ready(r)

LEMMA NothingWeighsNothing == Fits([i \in Ids |-> 0])
<1>1. {token \in Ids \X (1..MaxSize) : token[2] <= [i \in Ids |-> 0][token[1]]} = {}
  BY NotebookConstantsOK
<1> QED
  BY <1>1, FS_EmptySet, NotebookConstantsOK DEF Fits, Weight

LEMMA NoteKeepsInit == NotebookInit => NoteKeeps
<1> SUFFICES ASSUME NotebookInit PROVE NoteKeeps
  OBVIOUS
<1>1. /\ note = [rev |-> 0, text |-> [i \in Ids |-> 0], pending |-> {}, receipts |-> {}]
      /\ upkeep = [r \in Upkeeps |-> Rested]
  BY DEF NotebookInit
<1>2. Promises({}, note.text)
  BY FS_EmptySet, NotebookConstantsOK DEF Promises
<1>3. \A r \in Upkeeps : upkeep[r].at = "rest"
  BY <1>1 DEF Rested
<1> QED
  BY <1>1, <1>2, <1>3, NothingWeighsNothing, NotebookConstantsOK DEF NoteKeeps

(* Marking makes no two requests one and no stale request current. *)
LEMMA MarkedKeeps ==
  ASSUME NEW text, NEW pending \in SUBSET Requests, Promises(pending, note.text)
  PROVE  Promises(Marked(pending, text), text)
<1> DEFINE marked == {Mark(p, text) : p \in pending}
           mark == [p \in pending |-> Mark(p, text)]
<1>1. Marked(pending, text) = marked
  BY DEF Marked, Mark
<1>2. mark \in Surjection(pending, marked)
  BY DEF Surjection
<1>3. IsFiniteSet(marked) /\ Cardinality(marked) <= Cardinality(pending)
  BY <1>2, FS_Surjection DEF Promises
<1>4. Cardinality(marked) \in Nat /\ Cardinality(pending) \in Nat
  BY <1>3, FS_CardinalityType DEF Promises
<1>5. ASSUME NEW p \in pending, ~Mark(p, text).conflicted
      PROVE  ~p.conflicted /\ text[p.op.entry] = note.text[p.op.entry] /\ Mark(p, text) = p
  <2>1. p \in Requests /\ p.conflicted \in BOOLEAN
    BY DEF Requests
  <2>2. PICK b : b = (p.conflicted \/ text[p.op.entry] # note.text[p.op.entry])
    OBVIOUS
  <2>3. b \in BOOLEAN /\ Mark(p, text) = [p EXCEPT !.conflicted = b]
    BY <2>2 DEF Mark
  <2>4. Mark(p, text).conflicted = b
    BY <2>1, <2>3 DEF Requests
  <2>5. ~b
    BY <1>5, <2>4
  <2>6. ~p.conflicted /\ text[p.op.entry] = note.text[p.op.entry]
    BY <2>2, <2>5
  <2>7. p.conflicted = FALSE /\ b = FALSE
    BY <2>1, <2>3, <2>5, <2>6
  <2>8. [p EXCEPT !.conflicted = FALSE] = p
    BY <2>1, <2>7 DEF Requests
  <2> QED
    BY <2>3, <2>6, <2>7, <2>8
<1> HIDE DEF mark
<1>6. \A p \in marked : ~p.conflicted => p \in pending /\ text[p.op.entry] = note.text[p.op.entry]
  BY <1>5
<1> HIDE DEF marked
<1>7. Cardinality(marked) <= MaxPending
  BY <1>3, <1>4, NotebookConstantsOK DEF Promises
<1> QED
  BY <1>1, <1>3, <1>6, <1>7 DEF Promises

(* A write that fits leaves a file that keeps its promises. *)
LEMMA PersistPromises ==
  ASSUME NoteInv, NoteKeeps, NEW text, NEW pending \in SUBSET Requests, NEW receipts,
         Persist(text, pending, receipts), Fits(text), note.rev < MaxNoteRev,
         Promises(pending, note.text)
  PROVE  Fits(note'.text) /\ note'.rev <= MaxNoteRev /\ Promises(note'.pending, note'.text)
<1>1. CASE text = note.text /\ pending = note.pending
  BY <1>1 DEF Persist, NoteKeeps
<1>2. CASE ~(text = note.text /\ pending = note.pending)
  <2>1. note' = [rev |-> note.rev + 1, text |-> text,
                 pending |-> Marked(pending, text), receipts |-> receipts]
    BY <1>2 DEF Persist
  <2>2. note.rev \in Nat
    BY DEF NoteInv, NoteShapes
  <2> QED
    BY <2>1, <2>2, MarkedKeeps, NotebookConstantsOK
<1> QED
  BY <1>1, <1>2

(* A write beside the runs, with nobody at the file. *)
LEMMA WriteKeeps ==
  ASSUME NoteInv, NoteKeeps, upkeep' = upkeep, Unlocked, NEW text, NEW pending \in SUBSET Requests,
         Persist(text, pending, note.receipts), Fits(text), note.rev < MaxNoteRev,
         Promises(pending, note.text)
  PROVE  NoteKeeps'
<1>1. Fits(note'.text) /\ note'.rev <= MaxNoteRev /\ Promises(note'.pending, note'.text)
  BY PersistPromises
<1> QED
  BY <1>1 DEF NoteKeeps, Unlocked, Fits, Weight, Promises

LEMMA ApplyKeeps ==
  ASSUME NoteInv, NoteKeeps, NEW op \in Operations, ApplyNow(op) PROVE NoteKeeps'
<1>1. note.pending \in SUBSET Requests
  BY DEF NoteInv, NoteShapes
<1>2. Promises(note.pending, note.text)
  BY DEF NoteKeeps
<1> QED
  BY <1>1, <1>2, WriteKeeps DEF ApplyNow

LEMMA EnqueueKeeps ==
  ASSUME NoteInv, NoteKeeps, NEW op \in Operations, Enqueue(op) PROVE NoteKeeps'
<1> DEFINE new == [id |-> requestId + 1, op |-> op, before |-> note.text[op.entry], conflicted |-> FALSE]
           pending == note.pending \cup {new}
<1>1. note.text \in Texts /\ note.pending \in SUBSET Requests /\ requestId \in Nat
  BY DEF NoteInv, NoteShapes
<1>2. /\ Unlocked /\ Persist(note.text, pending, note.receipts) /\ upkeep' = upkeep
      /\ note.rev < MaxNoteRev /\ ~Asked(op) /\ Cardinality(note.pending) < MaxPending
  BY DEF Enqueue
<1>3. op.entry \in Ids
  BY DEF Operations
<1>4. new \in Requests /\ new.op = op /\ ~new.conflicted /\ new.before = note.text[op.entry]
  BY <1>1, <1>3 DEF Requests, Texts
<1> HIDE DEF new
<1>5. Promises(note.pending, note.text) /\ Fits(note.text)
  BY DEF NoteKeeps
<1>6. \A p \in note.pending : ~p.conflicted => p.op # op
  BY <1>2, <1>5 DEF Promises, Asked
<1>7. IsFiniteSet(pending) /\ Cardinality(pending) <= MaxPending
  <2>1. IsFiniteSet(note.pending) /\ Cardinality(note.pending) \in Nat
    BY <1>5, FS_CardinalityType DEF Promises
  <2>2. IsFiniteSet(pending) /\ Cardinality(pending) \in {Cardinality(note.pending), Cardinality(note.pending) + 1}
    BY <2>1, FS_AddElement
  <2> QED
    BY <1>2, <2>1, <2>2, NotebookConstantsOK
<1>8. Promises(pending, note.text)
  BY <1>4, <1>5, <1>6, <1>7 DEF Promises
<1>9. pending \in SUBSET Requests
  BY <1>1, <1>4
<1> QED
  BY <1>2, <1>5, <1>8, <1>9, WriteKeeps

(* Without a write: a run comes to the replacement only through the check. *)
LEMMA StillKeeps ==
  ASSUME NoteKeeps, note' = note,
         \A r \in Upkeeps : upkeep'[r].at = "replacing" =>
           /\ upkeep[r].at = "replacing" \/ (Committable(r) /\ note.rev < MaxNoteRev)
           /\ upkeep'[r].plan = upkeep[r].plan /\ upkeep'[r].text = upkeep[r].text
           /\ upkeep'[r].selected = upkeep[r].selected
  PROVE  NoteKeeps'
<1>1. Fits(note'.text) /\ note'.rev <= MaxNoteRev /\ Promises(note'.pending, note'.text)
  BY DEF NoteKeeps
<1>2. ASSUME NEW r \in Upkeeps, upkeep'[r].at = "replacing" PROVE Ready(r)'
  <2>1. Ready(r)
    BY <1>2 DEF NoteKeeps, Ready, Committable
  <2>2. Selected(r)' = Selected(r) /\ Tidied(r)' = Tidied(r)
    BY <1>2 DEF Selected, Tidied
  <2>3. Outcome(r)' = Outcome(r)
    BY <2>2 DEF Outcome, Applied, Sound
  <2> QED
    BY <2>1, <2>3 DEF Ready, Fits, Weight
<1> QED
  BY <1>1, <1>2 DEF NoteKeeps, Fits, Weight, Promises

LEMMA RunKeeps ==
  ASSUME NoteInv, NoteKeeps, NEW r \in Upkeeps,
         \/ ReadNotes(r) \/ AskModel(r) \/ \E plan \in Texts : ModelAnswers(r, plan)
         \/ Desist(r) \/ GiveUpAsking(r) \/ CallEnds(r)
         \/ CommitPlan(r) \/ InterruptRun(r) \/ LockAndCheck(r)
  PROVE  NoteKeeps'
<1>1. PICK ids : upkeep \in [Upkeeps -> RunShape(ids)]
  BY DEF NoteInv, NoteShapes
<1>2. ASSUME NEW u \in Upkeeps, upkeep'[u].at = "replacing"
      PROVE  /\ upkeep[u].at = "replacing" \/ (Committable(u) /\ note.rev < MaxNoteRev)
             /\ upkeep'[u].plan = upkeep[u].plan /\ upkeep'[u].text = upkeep[u].text
             /\ upkeep'[u].selected = upkeep[u].selected
  <2>1. CASE u # r
    <3>1. upkeep'[u] = upkeep[u]
      BY <1>1, <2>1 DEF ReadNotes, AskModel, ModelAnswers, Desist, GiveUpAsking, CallEnds, CommitPlan,
                        InterruptRun, LockAndCheck
    <3> QED
      BY <1>2, <3>1
  <2>2. CASE u = r
    <3>1. Rested.at = "rest" /\ upkeep[r] \in RunShape(ids)
      BY <1>1 DEF Rested
    <3>2. CASE \/ ReadNotes(r) \/ AskModel(r) \/ \E plan \in Texts : ModelAnswers(r, plan)
               \/ Desist(r) \/ GiveUpAsking(r) \/ CommitPlan(r)
      <4>1. \E run : upkeep' = [upkeep EXCEPT ![r] = run] /\ run.at # "replacing"
        <5>1. CASE ReadNotes(r)
          <6>1. PICK chosen : chosen = IF note.pending = {} THEN 0 ELSE Oldest.id
            OBVIOUS
          <6>2. upkeep' = [upkeep EXCEPT ![r] =
                   [Rested EXCEPT !.at = "read", !.rev = note.rev, !.text = note.text, !.selected = chosen]]
            BY <5>1, <6>1 DEF ReadNotes
          <6>3. [Rested EXCEPT !.at = "read", !.rev = note.rev, !.text = note.text, !.selected = chosen].at = "read"
            BY DEF Rested
          <6> QED
            BY <6>2, <6>3
        <5>2. CASE AskModel(r)
          <6>1. upkeep' = [upkeep EXCEPT ![r] = [upkeep[r] EXCEPT !.at = "asking"]]
            BY <5>2 DEF AskModel
          <6>2. [upkeep[r] EXCEPT !.at = "asking"].at = "asking"
            BY <3>1 DEF RunShape
          <6> QED
            BY <6>1, <6>2
        <5>3. CASE \E plan \in Texts : ModelAnswers(r, plan)
          <6>1. PICK plan : upkeep' = [upkeep EXCEPT ![r].at = "planned", ![r].plan = plan]
            BY <5>3 DEF ModelAnswers
          <6>2. upkeep' = [upkeep EXCEPT ![r] = [upkeep[r] EXCEPT !.at = "planned", !.plan = plan]]
            BY <1>1, <6>1 DEF RunShape
          <6>3. [upkeep[r] EXCEPT !.at = "planned", !.plan = plan].at = "planned"
            BY <3>1 DEF RunShape
          <6> QED
            BY <6>2, <6>3
        <5>4. CASE Desist(r) \/ GiveUpAsking(r)
          BY <3>1, <5>4 DEF Desist, GiveUpAsking
        <5>5. CASE CommitPlan(r)
          <6>1. upkeep' = [upkeep EXCEPT ![r] = [upkeep[r] EXCEPT !.at = "committing"]]
            BY <5>5 DEF CommitPlan
          <6>2. [upkeep[r] EXCEPT !.at = "committing"].at = "committing"
            BY <3>1 DEF RunShape
          <6> QED
            BY <6>1, <6>2
        <5> QED
          BY <3>2, <5>1, <5>2, <5>3, <5>4, <5>5
      <4>2. upkeep'[r].at # "replacing"
        BY <1>1, <4>1
      <4> QED
        BY <1>2, <2>2, <4>2
    <3>3. CASE CallEnds(r)
      BY <1>2, <2>2, <3>3 DEF CallEnds
    <3>4. CASE InterruptRun(r)
      BY <1>1, <1>2, <2>2, <3>1, <3>4 DEF InterruptRun, RunShape
    <3>5. CASE LockAndCheck(r)
      BY <1>1, <1>2, <2>2, <3>1, <3>5 DEF LockAndCheck, RunShape
    <3> QED
      BY <3>2, <3>3, <3>4, <3>5
  <2> QED
    BY <2>1, <2>2
<1>3. note' = note
  BY DEF ReadNotes, AskModel, ModelAnswers, Desist, GiveUpAsking, CallEnds, CommitPlan,
         InterruptRun, LockAndCheck
<1> QED
  BY <1>2, <1>3, StillKeeps

(* The replacement writes what the check saw fit. *)
LEMMA ReplaceKeeps ==
  ASSUME NoteInv, NoteKeeps, NEW r \in Upkeeps, Replace(r) PROVE NoteKeeps'
<1> DEFINE pending == note.pending \ Selected(r)
<1>1. PICK ids : upkeep \in [Upkeeps -> RunShape(ids)]
  BY DEF NoteInv, NoteShapes
<1>2. /\ upkeep[r].at = "replacing" /\ upkeep' = [upkeep EXCEPT ![r] = Rested]
      /\ \E receipts : Persist(Outcome(r), pending, receipts)
  BY DEF Replace, Served
<1>3. Fits(Outcome(r)) /\ note.rev < MaxNoteRev /\ Promises(note.pending, note.text)
  BY <1>2 DEF NoteKeeps, Ready
<1>4. pending \in SUBSET note.pending /\ pending \in SUBSET Requests
  BY DEF NoteInv, NoteShapes
<1>5. IsFiniteSet(note.pending) /\ Cardinality(note.pending) \in Nat
  BY <1>3, FS_CardinalityType DEF Promises
<1> HIDE DEF pending
<1>6. IsFiniteSet(pending) /\ Cardinality(pending) <= Cardinality(note.pending)
  BY <1>4, <1>5, FS_Subset
<1>7. Cardinality(pending) \in Nat
  BY <1>6, FS_CardinalityType
<1>8. Promises(pending, note.text)
  BY <1>3, <1>4, <1>5, <1>6, <1>7, NotebookConstantsOK DEF Promises
<1>9. Fits(note'.text) /\ note'.rev <= MaxNoteRev /\ Promises(note'.pending, note'.text)
  BY <1>2, <1>3, <1>4, <1>8, PersistPromises
<1>10. \A u \in Upkeeps : upkeep'[u].at # "replacing"
  BY <1>1, <1>2 DEF NoteInv, OneLock, Rested
<1> QED
  BY <1>9, <1>10 DEF NoteKeeps, Fits, Weight, Promises

LEMMA NoteKeepsStep ==
  ASSUME NoteInv, NoteKeeps, [NotebookNext]_noteVars PROVE NoteKeeps'
<1>1. CASE UNCHANGED noteVars
  BY <1>1, StillKeeps DEF noteVars
<1>2. CASE NotebookCrash
  <2>1. note' = note /\ \A r \in Upkeeps : upkeep'[r].at # "replacing"
    BY <1>2 DEF NotebookCrash, Rested
  <2> QED
    BY <2>1, StillKeeps
<1> QED
  BY <1>1, <1>2, ApplyKeeps, EnqueueKeeps, RunKeeps, ReplaceKeeps DEF NotebookNext

LEMMA NotebookIsSafe == ASSUME NoteInv, NoteKeeps PROVE NotebookSafety
<1>1. /\ note \in [rev : Nat, text : Texts, pending : SUBSET Requests, receipts : SUBSET Nat]
      /\ IdsApart(note.pending, note.receipts, requestId)
  BY DEF NoteInv, NoteShapes
<1>2. /\ note.text \in Texts /\ Weight(note.text) <= Budget /\ note.rev \in 0..MaxNoteRev
      /\ Cardinality(note.pending) <= MaxPending
  BY <1>1, NotebookConstantsOK DEF NoteKeeps, Fits, Promises
<1>3. \A p \in note.pending :
        /\ p.id \in 1..requestId /\ p.op \in Operations
        /\ p.before \in 0..MaxSize /\ p.conflicted \in BOOLEAN
  BY <1>1 DEF Requests, IdsApart
<1>4. NotebookTyped
  BY <1>1, <1>2, <1>3 DEF NotebookTyped, IdsApart
<1>5. UnmarkedIsCurrent /\ NoTwins
  BY DEF NoteKeeps, Promises, UnmarkedIsCurrent, NoTwins, Unspoilt
<1> QED
  BY <1>4, <1>5 DEF NotebookSafety

(* The notebook never outgrows its budget, a request that waits unmarked   *)
(* still finds its entry as it was when it was made, and none waits twice, *)
(* whoever writes between a run's check and its replacement.               *)
THEOREM NotesFit == NotebookSpec => []NotebookSafety
<1>1. NotebookInit => NoteInv /\ NoteKeeps
  BY NoteInitSafe, NoteKeepsInit
<1>2. NoteInv /\ NoteKeeps /\ [NotebookNext]_noteVars => NoteInv' /\ NoteKeeps'
  BY NoteStepSafe, NoteKeepsStep DEF NoteStep
<1>3. NoteInv /\ NoteKeeps => NotebookSafety
  BY NotebookIsSafe
<1> QED
  BY <1>1, <1>2, <1>3, PTL DEF NotebookSpec

-----------------------------------------------------------------------------
(* The claims of the people service. *)

Whats == (Fields \X Sources) \cup (Claims \X {"applied", "pending"})
Keys == [by : Evidence, person : Persons, action : ChangeActions, what : Whats]
ChangeRows == [key : Keys, claim : Claims, status : {"pending", "applied"},
               confirmedBy : SUBSET Evidence]

(* The rows of the tables. *)
Tables ==
  /\ lastClaim \in 0..MaxClaims
  /\ claim \in [Claims -> ClaimRows \cup {NoClaim}]
  /\ \A c \in Claims : IF c <= lastClaim THEN claim[c] \in ClaimRows ELSE claim[c] = NoClaim
  /\ revision \in [Persons -> Nat \ {0}]
  /\ change \subseteq ChangeRows /\ IsFiniteSet(change)

(* A change is about a claim of its person, waits unconfirmed, and is the   *)
(* only one with its key.                                                   *)
TrailTells ==
  /\ \A ch \in change :
       /\ ch.claim <= lastClaim /\ claim[ch.claim].person = ch.key.person
       /\ ch.status = "pending" => ch.confirmedBy = {}
  /\ \A x, y \in change : x.key = y.key => x = y

ClaimsInv == Tables /\ TrailTells /\ StandsByConsent /\ CorrectionReplaces /\ RevisionTellsAll

-----------------------------------------------------------------------------
(* Rows of a person in the trail, and those that were confirmed. *)
Of(trail, p) == {ch \in trail : ch.key.person = p}
ConfirmedOf(trail, p) == {ch \in trail : ch.key.person = p /\ ch.confirmedBy # {}}

LEMMA WritesOf ==
  ASSUME NEW p \in Persons
  PROVE  Writes(p) = Cardinality(Of(change, p)) + Cardinality(ConfirmedOf(change, p))
<1>1. {ch \in Of(change, p) : ch.confirmedBy # {}} = ConfirmedOf(change, p)
  BY DEF Of, ConfirmedOf
<1> QED
  BY <1>1 DEF Writes, Of

IsConfirmed(row) == row.confirmedBy # {}
With(trail, row) == trail \cup {row}

(* One row more counts once, confirmed or not. *)
LEMMA OneMore ==
  ASSUME NEW trail, NEW row, NEW p, IsFiniteSet(trail), row \notin trail
  PROVE  /\ Cardinality(Of(trail, p)) \in Nat /\ Cardinality(ConfirmedOf(trail, p)) \in Nat
         /\ row.key.person = p =>
              Cardinality(Of(With(trail, row), p)) = Cardinality(Of(trail, p)) + 1
         /\ row.key.person # p =>
              Cardinality(Of(With(trail, row), p)) = Cardinality(Of(trail, p))
         /\ row.key.person = p /\ IsConfirmed(row) =>
              Cardinality(ConfirmedOf(With(trail, row), p)) = Cardinality(ConfirmedOf(trail, p)) + 1
         /\ row.key.person # p \/ ~IsConfirmed(row) =>
              Cardinality(ConfirmedOf(With(trail, row), p)) = Cardinality(ConfirmedOf(trail, p))
<1>1. IsFiniteSet(Of(trail, p)) /\ IsFiniteSet(ConfirmedOf(trail, p))
  BY FS_Subset DEF Of, ConfirmedOf
<1>2. /\ Of(With(trail, row), p) = IF row.key.person = p THEN Of(trail, p) \cup {row} ELSE Of(trail, p)
      /\ ConfirmedOf(With(trail, row), p) =
           IF row.key.person = p /\ row.confirmedBy # {} THEN ConfirmedOf(trail, p) \cup {row}
           ELSE ConfirmedOf(trail, p)
  BY DEF Of, ConfirmedOf, With
<1>3. row \notin Of(trail, p) /\ row \notin ConfirmedOf(trail, p)
  BY DEF Of, ConfirmedOf
<1>4. Cardinality(Of(trail, p)) \in Nat /\ Cardinality(ConfirmedOf(trail, p)) \in Nat
  BY <1>1, FS_CardinalityType
<1>5. /\ Cardinality(Of(trail, p) \cup {row}) = Cardinality(Of(trail, p)) + 1
      /\ Cardinality(ConfirmedOf(trail, p) \cup {row}) = Cardinality(ConfirmedOf(trail, p)) + 1
  BY <1>1, <1>3, FS_AddElement
<1> QED
  BY <1>2, <1>4, <1>5 DEF IsConfirmed

LEMMA ClaimsInitSafe == ClaimsInit => ClaimsInv
<1> SUFFICES ASSUME ClaimsInit PROVE ClaimsInv
  OBVIOUS
<1>1. Tables
  BY ClaimConstantsOK, FS_EmptySet DEF ClaimsInit, Tables, Claims
<1>2. TrailTells /\ StandsByConsent
  BY ClaimConstantsOK DEF ClaimsInit, TrailTells, StandsByConsent
<1>3. CorrectionReplaces
  BY ClaimConstantsOK DEF ClaimsInit, CorrectionReplaces
<1>4. RevisionTellsAll
  <2> SUFFICES ASSUME NEW p \in Persons PROVE revision[p] = 1 + Writes(p)
    BY DEF RevisionTellsAll
  <2>1. Of(change, p) = {} /\ ConfirmedOf(change, p) = {}
    BY DEF ClaimsInit, Of, ConfirmedOf
  <2> QED
    BY <2>1, WritesOf, FS_EmptySet DEF ClaimsInit
<1> QED
  BY <1>1, <1>2, <1>3, <1>4 DEF ClaimsInv

(* What a call may do to the claims: rows step back, one that waited is     *)
(* consented to, and new rows come behind the old ones.                     *)
Consented(c) ==
  \E ch \in change :
    /\ ch.claim = c /\ ch.key.action = "propose_claim"
    /\ \E e \in ch.confirmedBy :
         e \in Admin \/ <<claim[c].person, AuthorOf[e]>> \in Controllers
         \/ AuthorOf[e] = claim[c].person
SteppedBack(row) == [row EXCEPT !.status = "superseded"]
Rows == [Claims -> ClaimRows \cup {NoClaim}]

(* Rows that step back, and no other change. *)
Settles(rows) ==
  /\ rows \in Rows
  /\ \A c \in Claims : \/ rows[c] = claim[c]
                       \/ c <= lastClaim /\ rows[c] = SteppedBack(claim[c])

MayStand(row) ==
  /\ row \in ClaimRows
  /\ row.status = "active" => ~NeedsConsent(row.source)
  /\ row.replaces # 0 =>
       /\ row.replaces <= lastClaim /\ claim'[row.replaces].status = "superseded"
       /\ claim[row.replaces].person = row.person

Grows ==
  /\ lastClaim' \in 0..MaxClaims /\ lastClaim <= lastClaim' /\ claim' \in Rows
  /\ \A c \in 1..lastClaim :
       \/ claim'[c] \in {claim[c], SteppedBack(claim[c])}
       \/ claim[c].status = "pending" /\ claim'[c] = [claim[c] EXCEPT !.status = "active"] /\ Consented(c)'
  /\ \A c \in Claims : lastClaim < c /\ c <= lastClaim' => MayStand(claim'[c])
  /\ \A c \in Claims : lastClaim' < c => claim'[c] = NoClaim

ConsentKept == \A ch \in change : ch.confirmedBy # {} => ch \in change'

LEMMA RowSettled ==
  ASSUME NEW row \in ClaimRows, NEW new, new \in {row, SteppedBack(row)}
  PROVE  /\ new \in ClaimRows /\ new.person = row.person /\ new.source = row.source
         /\ new.replaces = row.replaces
         /\ row.status = "superseded" => new = row
         /\ new.status = "active" => row.status = "active"
BY DEF ClaimRows, SteppedBack

LEMMA RowStands ==
  ASSUME NEW row \in ClaimRows, NEW new, new = [row EXCEPT !.status = "active"]
  PROVE  /\ new \in ClaimRows /\ new.person = row.person /\ new.source = row.source
         /\ new.replaces = row.replaces
BY DEF ClaimRows

LEMMA GrowsSafe ==
  ASSUME ClaimsInv, Grows, ConsentKept
  PROVE  /\ \A c \in Claims : IF c <= lastClaim' THEN claim'[c] \in ClaimRows ELSE claim'[c] = NoClaim
         /\ \A c \in 1..lastClaim : claim'[c].person = claim[c].person
         /\ \A c \in 1..lastClaim : claim[c].status = "superseded" => claim'[c] = claim[c]
         /\ StandsByConsent' /\ CorrectionReplaces'
<1>0. Tables /\ lastClaim \in 0..MaxClaims /\ MaxClaims \in Nat
  BY ClaimConstantsOK DEF ClaimsInv, Tables
<1>1. ASSUME NEW c \in 1..lastClaim
      PROVE  /\ claim[c] \in ClaimRows /\ claim'[c] \in ClaimRows
             /\ claim'[c].person = claim[c].person /\ claim'[c].source = claim[c].source
             /\ claim'[c].replaces = claim[c].replaces
             /\ claim[c].status = "superseded" => claim'[c] = claim[c]
             /\ claim'[c].status = "active" => claim[c].status = "active" \/ Consented(c)'
  <2>1. claim[c] \in ClaimRows
    BY <1>0 DEF Tables, Claims
  <2>2. CASE claim'[c] \in {claim[c], SteppedBack(claim[c])}
    BY <2>1, <2>2, RowSettled
  <2>3. CASE claim[c].status = "pending" /\ claim'[c] = [claim[c] EXCEPT !.status = "active"] /\ Consented(c)'
    <3>1. /\ claim'[c] \in ClaimRows /\ claim'[c].person = claim[c].person
          /\ claim'[c].source = claim[c].source /\ claim'[c].replaces = claim[c].replaces
      BY <2>1, <2>3, RowStands
    <3> QED
      BY <2>1, <2>3, <3>1
  <2> QED
    BY <2>2, <2>3 DEF Grows
<1>2. \A c \in Claims : IF c <= lastClaim' THEN claim'[c] \in ClaimRows ELSE claim'[c] = NoClaim
  BY <1>0, <1>1 DEF Claims, Grows, MayStand
<1>3. StandsByConsent'
  <2> SUFFICES ASSUME NEW c \in 1..lastClaim', claim'[c].source \in {"third_party", "inferred"},
                      claim'[c].status = "active"
               PROVE  Consented(c)'
    BY DEF StandsByConsent, Consented
  <2>1. c \in 1..lastClaim
    BY <1>0 DEF Grows, MayStand, NeedsConsent, Claims
  <2>2. CASE claim[c].status = "active"
    <3>1. Consented(c)
      BY <1>1, <2>1, <2>2 DEF ClaimsInv, StandsByConsent, Consented
    <3>2. PICK ch \in change :
            /\ ch.claim = c /\ ch.key.action = "propose_claim"
            /\ \E e \in ch.confirmedBy :
                 e \in Admin \/ <<claim[c].person, AuthorOf[e]>> \in Controllers
                 \/ AuthorOf[e] = claim[c].person
      BY <3>1 DEF Consented
    <3> QED
      BY <3>2, <1>1, <2>1 DEF ConsentKept, Consented
  <2> QED
    BY <1>1, <2>1, <2>2
<1>4. CorrectionReplaces'
  <2> SUFFICES ASSUME NEW c \in 1..lastClaim', claim'[c].replaces # 0
               PROVE  LET old == claim'[c].replaces
                      IN  old < c /\ claim'[old].status = "superseded"
                          /\ claim'[old].person = claim'[c].person
    BY DEF CorrectionReplaces
  <2>1. CASE c \in 1..lastClaim
    <3> DEFINE old == claim[c].replaces
    <3>1. old \in 0..MaxClaims /\ old # 0 /\ claim'[c].replaces = old
      BY <1>1, <2>1 DEF ClaimRows
    <3>2. old < c /\ claim[old].status = "superseded" /\ claim[old].person = claim[c].person
      BY <2>1, <3>1 DEF ClaimsInv, CorrectionReplaces
    <3>3. old \in 1..lastClaim
      BY <3>1, <3>2, <2>1, <1>0
    <3> QED
      BY <1>1, <2>1, <3>1, <3>2, <3>3
  <2>2. CASE c \notin 1..lastClaim
    <3> DEFINE old == claim'[c].replaces
    <3>1. c \in Claims /\ lastClaim < c /\ c <= lastClaim'
      BY <2>2, <1>0 DEF Grows, Claims
    <3>2. MayStand(claim'[c])
      BY <3>1 DEF Grows
    <3>3. old \in 1..lastClaim
      BY <3>2, <1>0 DEF MayStand, ClaimRows
    <3> QED
      BY <1>1, <3>1, <3>2, <3>3, <1>0 DEF MayStand
  <2> QED
    BY <2>1, <2>2
<1> QED
  BY <1>1, <1>2, <1>3, <1>4

(* Every call writes one row of the trail and one revision. *)
TrailKept ==
  /\ change' \subseteq ChangeRows /\ IsFiniteSet(change')
  /\ revision' \in [Persons -> Nat \ {0}]
  /\ TrailTells' /\ RevisionTellsAll'

PersonsStay ==
  lastClaim' \in Nat /\ lastClaim <= lastClaim' /\ \A c \in 1..lastClaim : claim'[c].person = claim[c].person

LEMMA WritesOfNext ==
  ASSUME NEW p \in Persons
  PROVE  Writes(p)' = Cardinality(Of(change', p)) + Cardinality(ConfirmedOf(change', p))
<1>1. {ch \in Of(change', p) : ch.confirmedBy # {}} = ConfirmedOf(change', p)
  BY DEF Of, ConfirmedOf
<1> QED
  BY <1>1 DEF Writes, Of

LEMMA Recorded ==
  ASSUME ClaimsInv, NEW p \in Persons, NEW k \in Keys, k.person = p, ~AlreadyAsked(k),
         NEW c \in Claims, c <= lastClaim', claim'[c].person = p,
         NEW status \in {"pending", "applied"}, RecordChange(k, c, status),
         NEW expected, BumpRevision(p, expected), PersonsStay
  PROVE  TrailKept /\ ConsentKept
<1>0. lastClaim' \in Nat
  BY DEF PersonsStay
<1> DEFINE row == [key |-> k, claim |-> c, status |-> status, confirmedBy |-> {}]
<1>1. /\ change' = change \cup {row} /\ row \in ChangeRows /\ row \notin change
      /\ change \subseteq ChangeRows /\ IsFiniteSet(change)
      /\ lastClaim \in 0..MaxClaims /\ MaxClaims \in Nat
  BY ClaimConstantsOK DEF RecordChange, ChangeRows, AlreadyAsked, ClaimsInv, Tables
<1>2. change' \subseteq ChangeRows /\ IsFiniteSet(change') /\ ConsentKept
  BY <1>1, FS_AddElement DEF ConsentKept
<1>3. TrailTells'
  <2>1. ASSUME NEW ch \in change'
        PROVE  /\ ch.claim <= lastClaim' /\ claim'[ch.claim].person = ch.key.person
               /\ ch.status = "pending" => ch.confirmedBy = {}
    <3>1. CASE ch = row
      BY <3>1
    <3>2. CASE ch \in change
      <4>1. /\ ch.claim \in 1..lastClaim /\ claim[ch.claim].person = ch.key.person
            /\ ch.status = "pending" => ch.confirmedBy = {}
        BY <1>1, <3>2 DEF ClaimsInv, TrailTells, ChangeRows, Claims
      <4>2. claim'[ch.claim].person = claim[ch.claim].person /\ lastClaim <= lastClaim'
        BY <4>1 DEF PersonsStay
      <4>3. ch.claim <= lastClaim'
        BY <1>1, <1>0, <4>1, <4>2
      <4> QED
        BY <4>1, <4>2, <4>3
    <3> QED
      BY <1>1, <3>1, <3>2
  <2>2. ASSUME NEW x \in change', NEW y \in change', x.key = y.key PROVE x = y
    <3>1. row.key = k /\ \A z \in change : z.key # k
      BY DEF AlreadyAsked
    <3>2. \A z1, z2 \in change : z1.key = z2.key => z1 = z2
      BY DEF ClaimsInv, TrailTells
    <3> QED
      BY <1>1, <2>2, <3>1, <3>2
  <2> QED
    BY <2>1, <2>2 DEF TrailTells
<1>4. revision' = [revision EXCEPT ![p] = @ + 1] /\ revision \in [Persons -> Nat \ {0}]
  BY DEF BumpRevision, ClaimsInv, Tables
<1>5. RevisionTellsAll'
  <2> SUFFICES ASSUME NEW q \in Persons PROVE revision'[q] = 1 + Writes(q)'
    BY DEF RevisionTellsAll
  <2>1. revision[q] = 1 + (Cardinality(Of(change, q)) + Cardinality(ConfirmedOf(change, q)))
    BY WritesOf DEF ClaimsInv, RevisionTellsAll
  <2>2. Writes(q)' = Cardinality(Of(change', q)) + Cardinality(ConfirmedOf(change', q))
    BY WritesOfNext
  <2>3. ~IsConfirmed(row) /\ row.key.person = p
    BY DEF IsConfirmed
  <2> HIDE DEF row
  <2>4. /\ p = q => Cardinality(Of(change', q)) = Cardinality(Of(change, q)) + 1
        /\ p # q => Cardinality(Of(change', q)) = Cardinality(Of(change, q))
        /\ Cardinality(ConfirmedOf(change', q)) = Cardinality(ConfirmedOf(change, q))
        /\ Cardinality(Of(change, q)) \in Nat /\ Cardinality(ConfirmedOf(change, q)) \in Nat
    <3>1. change' = With(change, row)
      BY <1>1 DEF With
    <3>2. IsFiniteSet(change) /\ row \notin change
      BY <1>1
    <3>3. /\ p = q => Cardinality(Of(With(change, row), q)) = Cardinality(Of(change, q)) + 1
          /\ p # q => Cardinality(Of(With(change, row), q)) = Cardinality(Of(change, q))
          /\ Cardinality(ConfirmedOf(With(change, row), q)) = Cardinality(ConfirmedOf(change, q))
          /\ Cardinality(Of(change, q)) \in Nat /\ Cardinality(ConfirmedOf(change, q)) \in Nat
      BY <2>3, <3>2, OneMore
    <3> QED
      BY <3>1, <3>3
  <2> QED
    BY <1>4, <2>1, <2>2, <2>4
<1>6. revision' \in [Persons -> Nat \ {0}]
  BY <1>4
<1> QED
  BY <1>2, <1>3, <1>5, <1>6 DEF TrailKept

(* A row that takes the place of its unconfirmed self counts once more. *)
LEMMA Exchanged ==
  ASSUME NEW rest, NEW old, NEW row, NEW q, IsFiniteSet(rest), old \notin rest, row \notin rest
  PROVE  row.key = old.key /\ ~IsConfirmed(old) /\ IsConfirmed(row) =>
         /\ Cardinality(Of(With(rest, row), q)) = Cardinality(Of(With(rest, old), q))
         /\ old.key.person = q =>
              Cardinality(ConfirmedOf(With(rest, row), q)) = Cardinality(ConfirmedOf(With(rest, old), q)) + 1
         /\ old.key.person # q =>
              Cardinality(ConfirmedOf(With(rest, row), q)) = Cardinality(ConfirmedOf(With(rest, old), q))
         /\ Cardinality(Of(With(rest, old), q)) \in Nat
         /\ Cardinality(ConfirmedOf(With(rest, old), q)) \in Nat
<1>1. /\ Cardinality(Of(rest, q)) \in Nat /\ Cardinality(ConfirmedOf(rest, q)) \in Nat
      /\ old.key.person = q => Cardinality(Of(With(rest, old), q)) = Cardinality(Of(rest, q)) + 1
      /\ old.key.person # q => Cardinality(Of(With(rest, old), q)) = Cardinality(Of(rest, q))
      /\ ~IsConfirmed(old) => Cardinality(ConfirmedOf(With(rest, old), q)) = Cardinality(ConfirmedOf(rest, q))
  BY OneMore
<1>2. /\ row.key.person = q => Cardinality(Of(With(rest, row), q)) = Cardinality(Of(rest, q)) + 1
      /\ row.key.person # q => Cardinality(Of(With(rest, row), q)) = Cardinality(Of(rest, q))
      /\ row.key.person = q /\ IsConfirmed(row) =>
           Cardinality(ConfirmedOf(With(rest, row), q)) = Cardinality(ConfirmedOf(rest, q)) + 1
      /\ row.key.person # q => Cardinality(ConfirmedOf(With(rest, row), q)) = Cardinality(ConfirmedOf(rest, q))
  BY OneMore
<1> QED
  BY <1>1, <1>2

LEMMA Bumped ==
  ASSUME NEW p, NEW expected, BumpRevision(p, expected), revision \in [Persons -> Nat \ {0}]
  PROVE  /\ revision' \in [Persons -> Nat \ {0}]
         /\ p \in Persons => revision'[p] = revision[p] + 1
         /\ \A q \in Persons : p # q => revision'[q] = revision[q]
<1>1. revision' = [revision EXCEPT ![p] = @ + 1]
  BY DEF BumpRevision
<1>2. \A q \in Persons : revision[q] \in Nat \ {0} /\ (revision[q] + 1) \in Nat \ {0}
  OBVIOUS
<1>3. revision' \in [Persons -> Nat \ {0}]
  BY <1>1, <1>2
<1>4. /\ p \in Persons => revision'[p] = revision[p] + 1
      /\ \A q \in Persons : p # q => revision'[q] = revision[q]
  BY <1>1
<1> QED
  BY <1>3, <1>4

LEMMA Approved ==
  ASSUME ClaimsInv, NEW ch \in change, ch.status = "pending", NEW e \in Evidence,
         change' = (change \ {ch}) \cup {[ch EXCEPT !.status = "applied", !.confirmedBy = {e}]},
         NEW expected, BumpRevision(ch.key.person, expected), PersonsStay
  PROVE  TrailKept /\ ConsentKept
<1>0. lastClaim' \in Nat
  BY DEF PersonsStay
<1> DEFINE row == [ch EXCEPT !.status = "applied", !.confirmedBy = {e}]
           rest == change \ {ch}
<1>1. /\ ch \in ChangeRows /\ change \subseteq ChangeRows /\ IsFiniteSet(change)
      /\ lastClaim \in 0..MaxClaims /\ MaxClaims \in Nat
  BY ClaimConstantsOK DEF ClaimsInv, Tables
<1>2. /\ row \in ChangeRows /\ row.key = ch.key /\ row.claim = ch.claim /\ row.status = "applied"
      /\ row.confirmedBy = {e} /\ ch.confirmedBy = {} /\ ch.key.person \in Persons
  BY <1>1 DEF ChangeRows, Keys, ClaimsInv, TrailTells
<1>3. change' = rest \cup {row} /\ change = rest \cup {ch} /\ ch \notin rest
  OBVIOUS
<1> HIDE DEF row, rest
<1>4. row \notin rest
  BY <1>2, <1>3 DEF ClaimsInv, TrailTells
<1>5. IsFiniteSet(rest)
  BY <1>1, FS_Subset DEF rest
<1>6. change' \subseteq ChangeRows /\ IsFiniteSet(change') /\ ConsentKept
  BY <1>1, <1>2, <1>3, <1>4, <1>5, FS_AddElement DEF ConsentKept
<1>7. TrailTells'
  <2>1. ASSUME NEW old \in change
        PROVE  old.claim <= lastClaim' /\ claim'[old.claim].person = old.key.person
    <3>1. old.claim \in 1..lastClaim /\ claim[old.claim].person = old.key.person
      BY <1>1 DEF ClaimsInv, TrailTells, ChangeRows, Claims
    <3>2. claim'[old.claim].person = claim[old.claim].person /\ lastClaim <= lastClaim'
      BY <3>1 DEF PersonsStay
    <3> QED
      BY <1>0, <1>1, <3>1, <3>2
  <2> QED
    BY <1>2, <1>3, <2>1 DEF ClaimsInv, TrailTells
<1>8. /\ revision' \in [Persons -> Nat \ {0}] /\ revision \in [Persons -> Nat \ {0}]
      /\ revision'[ch.key.person] = revision[ch.key.person] + 1
      /\ \A q \in Persons : ch.key.person # q => revision'[q] = revision[q]
  <2>1. revision \in [Persons -> Nat \ {0}]
    BY DEF ClaimsInv, Tables
  <2> QED
    BY <1>2, <2>1, Bumped
<1>9. RevisionTellsAll'
  <2> SUFFICES ASSUME NEW q \in Persons PROVE revision'[q] = 1 + Writes(q)'
    BY DEF RevisionTellsAll
  <2>1. revision[q] = 1 + (Cardinality(Of(change, q)) + Cardinality(ConfirmedOf(change, q)))
    BY WritesOf DEF ClaimsInv, RevisionTellsAll
  <2>2. Writes(q)' = Cardinality(Of(change', q)) + Cardinality(ConfirmedOf(change', q))
    BY WritesOfNext
  <2>3. /\ Cardinality(Of(change', q)) = Cardinality(Of(change, q))
        /\ ch.key.person = q => Cardinality(ConfirmedOf(change', q)) = Cardinality(ConfirmedOf(change, q)) + 1
        /\ ch.key.person # q => Cardinality(ConfirmedOf(change', q)) = Cardinality(ConfirmedOf(change, q))
        /\ Cardinality(Of(change, q)) \in Nat /\ Cardinality(ConfirmedOf(change, q)) \in Nat
    <3>1. ~IsConfirmed(ch) /\ IsConfirmed(row) /\ row.key = ch.key
      BY <1>2 DEF IsConfirmed
    <3>2. change' = With(rest, row) /\ change = With(rest, ch) /\ ch \notin rest
      BY <1>3 DEF With
    <3>3. /\ Cardinality(Of(With(rest, row), q)) = Cardinality(Of(With(rest, ch), q))
          /\ ch.key.person = q =>
               Cardinality(ConfirmedOf(With(rest, row), q)) = Cardinality(ConfirmedOf(With(rest, ch), q)) + 1
          /\ ch.key.person # q =>
               Cardinality(ConfirmedOf(With(rest, row), q)) = Cardinality(ConfirmedOf(With(rest, ch), q))
          /\ Cardinality(Of(With(rest, ch), q)) \in Nat
          /\ Cardinality(ConfirmedOf(With(rest, ch), q)) \in Nat
      BY <1>4, <1>5, <3>1, <3>2, Exchanged
    <3> QED
      BY <3>2, <3>3
  <2> QED
    BY <1>8, <2>1, <2>2, <2>3
<1>10. revision' \in [Persons -> Nat \ {0}]
  BY <1>8
<1> QED
  BY <1>6, <1>7, <1>9, <1>10 DEF TrailKept

(* A call that grows the claims and keeps the trail is safe. *)
RetiredStay == \A c \in 1..lastClaim : claim[c].status = "superseded" => claim'[c] = claim[c]

LEMMA CallSafe ==
  ASSUME ClaimsInv, Grows, ConsentKept, TrailKept
  PROVE  ClaimsInv' /\ RetiredStay
<1>1. /\ \A c \in Claims : IF c <= lastClaim' THEN claim'[c] \in ClaimRows ELSE claim'[c] = NoClaim
      /\ RetiredStay /\ StandsByConsent' /\ CorrectionReplaces'
  BY GrowsSafe DEF RetiredStay
<1>2. Tables'
  BY <1>1 DEF Tables, Grows, TrailKept, Rows
<1> QED
  BY <1>1, <1>2 DEF ClaimsInv, TrailKept

(* Rows that only step back grow. *)
LEMMA SettledGrows ==
  ASSUME ClaimsInv, Settles(claim'), lastClaim' = lastClaim
  PROVE  Grows /\ PersonsStay
<1>1. Tables /\ lastClaim \in 0..MaxClaims /\ MaxClaims \in Nat
  BY ClaimConstantsOK DEF ClaimsInv, Tables
<1>2. \A c \in 1..lastClaim :
        /\ claim[c] \in ClaimRows /\ claim'[c] \in {claim[c], SteppedBack(claim[c])}
        /\ claim'[c].person = claim[c].person
  <2> SUFFICES ASSUME NEW c \in 1..lastClaim
               PROVE  /\ claim[c] \in ClaimRows /\ claim'[c] \in {claim[c], SteppedBack(claim[c])}
                      /\ claim'[c].person = claim[c].person
    OBVIOUS
  <2>1. c \in Claims /\ claim[c] \in ClaimRows
    BY <1>1 DEF Tables, Claims
  <2>2. claim'[c] \in {claim[c], SteppedBack(claim[c])}
    BY <2>1 DEF Settles
  <2> QED
    BY <2>1, <2>2, RowSettled
<1>3. \A c \in Claims : lastClaim < c => claim'[c] = NoClaim
  <2> SUFFICES ASSUME NEW c \in Claims, lastClaim < c PROVE claim'[c] = NoClaim
    OBVIOUS
  <2>1. ~(c <= lastClaim)
    BY <1>1 DEF Claims
  <2> QED
    BY <1>1, <2>1 DEF Settles, Tables
<1>4. \A c \in Claims : ~(lastClaim < c /\ c <= lastClaim)
  BY <1>1 DEF Claims
<1>5. Grows
  BY <1>1, <1>2, <1>3, <1>4 DEF Grows, Settles
<1> QED
  BY <1>1, <1>2, <1>5 DEF PersonsStay

(* A new row that may stand comes behind rows that only stepped back. *)
LEMMA InsertGrows ==
  ASSUME ClaimsInv, NEW rows, Settles(rows), lastClaim < MaxClaims, NEW row, MayStand(row),
         claim' = InsertClaim(rows, row), lastClaim' = lastClaim + 1
  PROVE  /\ Grows /\ PersonsStay /\ lastClaim' \in Claims /\ claim'[lastClaim'] = row
         /\ \A c \in 1..lastClaim : claim'[c] = rows[c]
<1>1. Tables /\ lastClaim \in 0..MaxClaims /\ MaxClaims \in Nat
  BY ClaimConstantsOK DEF ClaimsInv, Tables
<1>2. lastClaim' \in Claims /\ lastClaim' \in 0..MaxClaims /\ lastClaim <= lastClaim'
  BY <1>1 DEF Claims
<1>3. rows \in Rows /\ row \in ClaimRows
  BY DEF Settles, MayStand
<1>4. claim' = [rows EXCEPT ![lastClaim'] = row]
  BY DEF InsertClaim
<1>5. claim' \in Rows /\ claim'[lastClaim'] = row /\ \A c \in Claims : c # lastClaim' => claim'[c] = rows[c]
  BY <1>2, <1>3, <1>4 DEF Rows
<1>6. \A c \in 1..lastClaim : c \in Claims /\ claim'[c] = rows[c]
  BY <1>1, <1>5 DEF Claims
<1>7. \A c \in 1..lastClaim :
        claim'[c] \in {claim[c], SteppedBack(claim[c])} /\ claim'[c].person = claim[c].person
  <2> SUFFICES ASSUME NEW c \in 1..lastClaim
               PROVE  claim'[c] \in {claim[c], SteppedBack(claim[c])} /\ claim'[c].person = claim[c].person
    OBVIOUS
  <2>1. c \in Claims /\ claim[c] \in ClaimRows
    BY <1>1 DEF Tables, Claims
  <2>2. claim'[c] \in {claim[c], SteppedBack(claim[c])}
    BY <2>1, <1>6 DEF Settles
  <2> QED
    BY <2>1, <2>2, RowSettled
<1>8. \A c \in Claims : lastClaim' < c => claim'[c] = NoClaim
  <2> SUFFICES ASSUME NEW c \in Claims, lastClaim' < c PROVE claim'[c] = NoClaim
    OBVIOUS
  <2>1. ~(c <= lastClaim) /\ c # lastClaim'
    BY <1>1 DEF Claims
  <2> QED
    BY <1>1, <1>5, <2>1 DEF Settles, Tables
<1>9. \A c \in Claims : lastClaim < c /\ c <= lastClaim' => MayStand(claim'[c])
  <2> SUFFICES ASSUME NEW c \in Claims, lastClaim < c, c <= lastClaim' PROVE MayStand(claim'[c])
    OBVIOUS
  <2>1. c = lastClaim'
    BY <1>1 DEF Claims
  <2> QED
    BY <1>5, <2>1
<1>10. Grows
  BY <1>2, <1>5, <1>7, <1>8, <1>9 DEF Grows
<1> QED
  BY <1>1, <1>2, <1>5, <1>6, <1>7, <1>10 DEF PersonsStay

LEMMA SupersedingSettles ==
  ASSUME ClaimsInv, NEW p, NEW f
  PROVE  Settles(Superseding(p, f)) /\ Settles(claim)
<1>1. Tables /\ lastClaim \in 0..MaxClaims /\ MaxClaims \in Nat
  BY ClaimConstantsOK DEF ClaimsInv, Tables
<1>2. ASSUME NEW c \in Claims
      PROVE  /\ Superseding(p, f)[c] \in ClaimRows \cup {NoClaim}
             /\ \/ Superseding(p, f)[c] = claim[c]
                \/ c <= lastClaim /\ Superseding(p, f)[c] = SteppedBack(claim[c])
  <2>1. CASE claim[c].status = "active"
    <3>1. c <= lastClaim /\ claim[c] \in ClaimRows
      BY <1>1, <2>1 DEF Tables, NoClaim
    <3>2. SteppedBack(claim[c]) \in ClaimRows
      BY <3>1, RowSettled
    <3> QED
      BY <3>1, <3>2 DEF Superseding, SteppedBack
  <2>2. CASE claim[c].status # "active"
    <3>1. Superseding(p, f)[c] = claim[c]
      BY <2>2 DEF Superseding
    <3> QED
      BY <1>1, <3>1 DEF Tables
  <2> QED
    BY <2>1, <2>2
<1>3. Superseding(p, f) \in Rows
  BY <1>2 DEF Superseding, Rows
<1> QED
  BY <1>1, <1>2, <1>3 DEF Settles, Rows, Tables

LEMMA SupersedeSettles ==
  ASSUME ClaimsInv, NEW c \in 1..lastClaim
  PROVE  Settles(Supersede(c)) /\ Supersede(c)[c].status = "superseded"
<1>1. Tables /\ lastClaim \in 0..MaxClaims /\ MaxClaims \in Nat
  BY ClaimConstantsOK DEF ClaimsInv, Tables
<1>2. c \in Claims /\ claim[c] \in ClaimRows /\ claim \in Rows
  BY <1>1 DEF Tables, Claims, Rows
<1>3. Supersede(c) = [claim EXCEPT ![c] = SteppedBack(claim[c])]
  BY <1>2 DEF Supersede, SteppedBack, Rows
<1>4. SteppedBack(claim[c]) \in ClaimRows /\ SteppedBack(claim[c]).status = "superseded"
  BY <1>2 DEF SteppedBack, ClaimRows
<1> QED
  BY <1>1, <1>2, <1>3, <1>4 DEF Settles, Rows

LEMMA CorrectedGrows ==
  ASSUME ClaimsInv, NEW c \in 1..lastClaim, lastClaim < MaxClaims,
         claim' = Corrected(Supersede(c), c), lastClaim' = lastClaim + 1
  PROVE  Grows /\ PersonsStay
<1> DEFINE row == ClaimRow(claim[c].person, claim[c].field, "self_reported", "active", c)
<1>1. Tables /\ lastClaim \in 0..MaxClaims /\ MaxClaims \in Nat
  BY ClaimConstantsOK DEF ClaimsInv, Tables
<1>2. c \in Claims /\ claim[c] \in ClaimRows /\ c # lastClaim + 1
  BY <1>1 DEF Tables, Claims
<1>3. Settles(Supersede(c)) /\ Supersede(c)[c].status = "superseded"
  BY SupersedeSettles
<1>4. claim' = InsertClaim(Supersede(c), row)
  BY DEF Corrected
<1>5. claim'[c] = Supersede(c)[c]
  BY <1>2, <1>3, <1>4 DEF InsertClaim, Settles, Rows
<1>6. /\ row \in ClaimRows /\ row.replaces = c /\ row.person = claim[c].person
      /\ row.source = "self_reported"
  BY <1>1, <1>2 DEF ClaimRow, ClaimRows, Sources, Claims
<1> HIDE DEF row
<1>7. MayStand(row)
  BY <1>1, <1>3, <1>5, <1>6 DEF MayStand, NeedsConsent
<1> QED
  BY <1>3, <1>4, <1>7, InsertGrows

LEMMA ProposeSafe ==
  ASSUME ClaimsInv, NEW e \in Evidence, NEW p \in Persons, NEW f \in Fields, NEW stated \in Sources,
         NEW expected, ProposeClaim(e, p, f, stated, expected)
  PROVE  ClaimsInv' /\ RetiredStay
<1> DEFINE source == SourceOf(e, p, stated)
           status == IF NeedsConsent(source) THEN "pending" ELSE "active"
           asked == IF NeedsConsent(source) THEN "pending" ELSE "applied"
           rows == IF source = "self_reported" THEN Superseding(p, f) ELSE claim
           row == ClaimRow(p, f, source, status, 0)
           k == ChangeKey(e, p, "propose_claim", <<f, source>>)
<1>1. Tables /\ lastClaim \in 0..MaxClaims /\ MaxClaims \in Nat
  BY ClaimConstantsOK DEF ClaimsInv, Tables
<1>2. /\ ~AlreadyAsked(k) /\ lastClaim < MaxClaims
      /\ claim' = InsertClaim(rows, row) /\ lastClaim' = lastClaim + 1
      /\ BumpRevision(p, expected) /\ RecordChange(k, lastClaim + 1, asked)
  BY DEF ProposeClaim
<1>3. source \in Sources
  BY DEF SourceOf, Sources
<1>4. Settles(rows)
  BY SupersedingSettles
<1>5. k \in Keys /\ k.person = p
  BY <1>3 DEF Keys, ChangeKey, Whats, ChangeActions
<1>6. asked \in {"pending", "applied"}
  OBVIOUS
<1> HIDE DEF source
<1>7. row \in ClaimRows /\ row.replaces = 0 /\ row.person = p
  BY <1>1, <1>3 DEF ClaimRow, ClaimRows
<1>8. row.status = "active" => ~NeedsConsent(row.source)
  BY DEF ClaimRow, NeedsConsent
<1> HIDE DEF status, asked, rows, row, k
<1>9. MayStand(row)
  BY <1>7, <1>8 DEF MayStand
<1>10. Grows /\ PersonsStay /\ lastClaim' \in Claims /\ claim'[lastClaim'] = row
  BY <1>2, <1>4, <1>9, InsertGrows
<1>11. RecordChange(k, lastClaim', asked)
  BY <1>2
<1>12. TrailKept /\ ConsentKept
  <2>1. lastClaim' <= lastClaim' /\ claim'[lastClaim'].person = p
    BY <1>1, <1>2, <1>7, <1>10
  <2> QED
    BY <1>2, <1>5, <1>6, <1>10, <1>11, <2>1, Recorded
<1> QED
  BY <1>10, <1>12, CallSafe

LEMMA ChangeSafe ==
  ASSUME ClaimsInv, NEW e \in Evidence, NEW c \in 1..lastClaim,
         NEW action \in ChangeActions, NEW expected, ChangeClaim(e, c, action, expected)
  PROVE  ClaimsInv' /\ RetiredStay
<1> DEFINE p == claim[c].person
           status == IF DirectChange(e, c) THEN "applied" ELSE "pending"
           k == ChangeKey(e, p, action, <<c, status>>)
<1>1. Tables /\ lastClaim \in 0..MaxClaims /\ MaxClaims \in Nat
  BY ClaimConstantsOK DEF ClaimsInv, Tables
<1>2. c \in Claims /\ claim[c] \in ClaimRows /\ p \in Persons
  BY <1>1 DEF Tables, Claims, ClaimRows
<1>3. ~AlreadyAsked(k) /\ BumpRevision(p, expected) /\ RecordChange(k, c, status)
  BY DEF ChangeClaim
<1>4. status \in {"pending", "applied"} /\ k \in Keys /\ k.person = p
  BY <1>2 DEF Keys, ChangeKey, Whats
<1> HIDE DEF status, k
<1>5. Grows /\ PersonsStay
  <2>1. CASE ~DirectChange(e, c)
    BY <2>1, SupersedingSettles, SettledGrows DEF ChangeClaim
  <2>2. CASE DirectChange(e, c) /\ action = "correct_claim"
    <3>1. /\ lastClaim < MaxClaims /\ claim' = Corrected(Supersede(c), c)
          /\ lastClaim' = lastClaim + 1
      BY <2>2 DEF ChangeClaim
    <3> QED
      BY <3>1, CorrectedGrows
  <2>3. CASE DirectChange(e, c) /\ action # "correct_claim"
    <3>1. claim' = Supersede(c) /\ lastClaim' = lastClaim
      BY <2>3 DEF ChangeClaim
    <3> QED
      BY <3>1, SupersedeSettles, SettledGrows
  <2> QED
    BY <2>1, <2>2, <2>3
<1>6. c <= lastClaim' /\ claim'[c].person = p
  BY <1>1, <1>5 DEF PersonsStay
<1>7. TrailKept /\ ConsentKept
  BY <1>2, <1>3, <1>4, <1>5, <1>6, Recorded
<1> QED
  BY <1>5, <1>7, CallSafe

(* A claim that waited is activated; what the person said before steps back. *)
LEMMA ActivatedGrows ==
  ASSUME ClaimsInv, NEW c \in 1..lastClaim, NEW rows, Settles(rows),
         claim' = Activated(rows, c), lastClaim' = lastClaim, Consented(c)'
  PROVE  Grows
<1>1. Tables /\ lastClaim \in 0..MaxClaims /\ MaxClaims \in Nat
  BY ClaimConstantsOK DEF ClaimsInv, Tables
<1>2. c \in Claims /\ claim[c] \in ClaimRows /\ rows \in Rows
  BY <1>1 DEF Tables, Claims, Settles
<1>3. \A d \in Claims : d # c => claim'[d] = rows[d]
  BY <1>2 DEF Activated, Rows
<1>4. rows[c] \in {claim[c], SteppedBack(claim[c])} /\ rows[c] \in ClaimRows
  BY <1>2, RowSettled DEF Settles
<1>5. claim'[c] = [rows[c] EXCEPT !.status = IF @ = "pending" THEN "active" ELSE @]
  BY <1>2 DEF Activated, Rows
<1>6. \/ claim'[c] \in {claim[c], SteppedBack(claim[c])}
      \/ claim[c].status = "pending" /\ claim'[c] = [claim[c] EXCEPT !.status = "active"]
  <2>1. CASE rows[c].status = "pending"
    <3>1. rows[c] = claim[c]
      BY <1>2, <1>4, <2>1 DEF SteppedBack, ClaimRows
    <3>2. claim'[c] = [claim[c] EXCEPT !.status = "active"]
      BY <1>5, <2>1, <3>1
    <3> QED
      BY <2>1, <3>1, <3>2
  <2>2. CASE rows[c].status # "pending"
    <3>1. claim'[c] = rows[c]
      BY <1>4, <1>5, <2>2 DEF ClaimRows
    <3> QED
      BY <1>4, <3>1
  <2> QED
    BY <2>1, <2>2
<1>7. claim'[c] \in ClaimRows
  BY <1>2, <1>6, RowSettled, RowStands
<1>8. claim' \in Rows
  <2>1. claim' \in [Claims -> {claim'[d] : d \in Claims}]
    BY <1>2 DEF Activated, Rows
  <2>2. \A d \in Claims : claim'[d] \in ClaimRows \cup {NoClaim}
    BY <1>2, <1>3, <1>7 DEF Rows
  <2> QED
    BY <2>1, <2>2 DEF Rows
<1>9. \A d \in 1..lastClaim :
        \/ claim'[d] \in {claim[d], SteppedBack(claim[d])}
        \/ claim[d].status = "pending" /\ claim'[d] = [claim[d] EXCEPT !.status = "active"] /\ Consented(d)'
  <2> SUFFICES ASSUME NEW d \in 1..lastClaim, d # c
               PROVE  claim'[d] \in {claim[d], SteppedBack(claim[d])}
    BY <1>6
  <2>1. d \in Claims
    BY <1>1 DEF Claims
  <2> QED
    BY <1>3, <2>1 DEF Settles
<1>10. \A d \in Claims : lastClaim < d => claim'[d] = NoClaim
  <2> SUFFICES ASSUME NEW d \in Claims, lastClaim < d PROVE claim'[d] = NoClaim
    OBVIOUS
  <2>1. ~(d <= lastClaim) /\ d # c
    BY <1>1 DEF Claims
  <2> QED
    BY <1>1, <1>3, <2>1 DEF Settles, Tables
<1>11. \A d \in Claims : ~(lastClaim < d /\ d <= lastClaim)
  BY <1>1 DEF Claims
<1> QED
  BY <1>1, <1>8, <1>9, <1>10, <1>11 DEF Grows

LEMMA ConfirmSafe ==
  ASSUME ClaimsInv, NEW e \in Evidence, NEW ch \in change, NEW expected,
         ConfirmChange(e, ch, expected)
  PROVE  ClaimsInv' /\ RetiredStay
<1> DEFINE c == ch.claim
           p == ch.key.person
           row == [ch EXCEPT !.status = "applied", !.confirmedBy = {e}]
<1>1. Tables /\ lastClaim \in 0..MaxClaims /\ MaxClaims \in Nat
  BY ClaimConstantsOK DEF ClaimsInv, Tables
<1>2. ch \in ChangeRows /\ c \in 1..lastClaim /\ claim[c].person = p
  BY <1>1 DEF ClaimsInv, Tables, TrailTells, ChangeRows, Claims
<1>3. /\ ch.status = "pending" /\ RequireWrite(e, p) /\ change' = (change \ {ch}) \cup {row}
      /\ BumpRevision(p, expected) /\ claim' = Confirmed(e, ch)
      /\ ch.key.action = "correct_claim" => lastClaim < MaxClaims
      /\ lastClaim' = IF ch.key.action = "correct_claim" THEN lastClaim + 1 ELSE lastClaim
  BY DEF ConfirmChange, ConfirmRevision
<1>4. row \in change' /\ row.claim = c /\ row.key = ch.key /\ row.confirmedBy = {e}
  BY <1>2, <1>3 DEF ChangeRows
<1>5. Grows /\ PersonsStay
  <2>1. CASE ch.key.action = "propose_claim"
    <3> DEFINE ownWord == claim[c].source = "third_party" /\ AuthorOf[e] = p
               rows == IF ownWord THEN Superseding(p, claim[c].field) ELSE claim
    <3>1. claim' = Activated(rows, c) /\ lastClaim' = lastClaim
      BY <1>3, <2>1 DEF Confirmed
    <3>2. Settles(rows)
      BY SupersedingSettles
    <3> HIDE DEF rows
    <3>3. PersonsStay
      <4> SUFFICES ASSUME NEW d \in 1..lastClaim PROVE claim'[d].person = claim[d].person
        BY <1>1, <3>1 DEF PersonsStay
      <4>1. d \in Claims /\ claim[d] \in ClaimRows
        BY <1>1 DEF Tables, Claims
      <4>2. rows[d] \in ClaimRows /\ rows[d].person = claim[d].person /\ rows \in Rows
        BY <3>2, <4>1, RowSettled DEF Settles
      <4>3. claim'[d].person = rows[d].person
        BY <1>2, <3>1, <4>1, <4>2 DEF Activated, Rows, ClaimRows
      <4> QED
        BY <4>2, <4>3
    <3>4. Consented(c)'
      <4>1. claim'[c].person = p
        BY <1>2, <3>3 DEF PersonsStay
      <4>2. e \in Admin \/ <<p, AuthorOf[e]>> \in Controllers \/ AuthorOf[e] = p
        BY <1>3 DEF RequireWrite, Maintains, IsController
      <4> QED
        BY <1>4, <2>1, <4>1, <4>2 DEF Consented
    <3> QED
      BY <1>2, <3>1, <3>2, <3>3, <3>4, ActivatedGrows
  <2>2. CASE ch.key.action = "correct_claim"
    <3>1. claim' = Corrected(Supersede(c), c) /\ lastClaim' = lastClaim + 1 /\ lastClaim < MaxClaims
      BY <1>3, <2>2 DEF Confirmed
    <3> QED
      BY <1>2, <3>1, CorrectedGrows
  <2>3. CASE ch.key.action \notin {"propose_claim", "correct_claim"}
    <3>1. claim' = Supersede(c) /\ lastClaim' = lastClaim
      BY <1>3, <2>3 DEF Confirmed
    <3> QED
      BY <1>2, <3>1, SupersedeSettles, SettledGrows
  <2> QED
    BY <2>1, <2>2, <2>3
<1>6. TrailKept /\ ConsentKept
  BY <1>3, <1>5, Approved
<1> QED
  BY <1>5, <1>6, CallSafe

LEMMA ClaimsUnchanged ==
  ASSUME ClaimsInv, UNCHANGED claimsVars
  PROVE  ClaimsInv' /\ RetiredStay
<1>1. claim' = claim /\ change' = change /\ revision' = revision /\ lastClaim' = lastClaim
  BY DEF claimsVars
<1>2. RevisionTellsAll'
  <2> SUFFICES ASSUME NEW q \in Persons PROVE revision'[q] = 1 + Writes(q)'
    BY DEF RevisionTellsAll
  <2>1. Writes(q)' = Writes(q)
    BY <1>1, WritesOf, WritesOfNext
  <2> QED
    BY <1>1, <2>1 DEF ClaimsInv, RevisionTellsAll
<1>3. Tables' /\ TrailTells'
  BY <1>1 DEF ClaimsInv, Tables, TrailTells
<1>4. StandsByConsent' /\ CorrectionReplaces'
  BY <1>1 DEF ClaimsInv, StandsByConsent, CorrectionReplaces
<1> QED
  BY <1>1, <1>2, <1>3, <1>4 DEF ClaimsInv, RetiredStay

LEMMA ClaimsStep ==
  ASSUME ClaimsInv, [ClaimsNext]_claimsVars
  PROVE  ClaimsInv' /\ RetiredStay
<1>1. CASE UNCHANGED claimsVars
  BY <1>1, ClaimsUnchanged
<1>2. CASE ClaimsNext
  <2> SUFFICES ASSUME NEW e \in Evidence,
                      \/ \E p \in Persons, f \in Fields, stated \in Sources :
                           \E expected \in Expectations(p) : ProposeClaim(e, p, f, stated, expected)
                      \/ \E c \in 1..lastClaim, action \in ChangeActions \ {"propose_claim"} :
                           \E expected \in Expectations(claim[c].person) : ChangeClaim(e, c, action, expected)
                      \/ \E ch \in change :
                           \E expected \in Expectations(ch.key.person) : ConfirmChange(e, ch, expected)
               PROVE  ClaimsInv' /\ RetiredStay
    BY <1>2 DEF ClaimsNext
  <2> QED
    BY ProposeSafe, ChangeSafe, ConfirmSafe
<1> QED
  BY <1>1, <1>2

LEMMA ClaimsInvSafe == ASSUME ClaimsInv PROVE ClaimSafety
<1>1. Tables /\ lastClaim \in 0..MaxClaims /\ MaxClaims \in Nat
  BY ClaimConstantsOK DEF ClaimsInv, Tables
<1>2. \A ch \in change :
       /\ ch.confirmedBy \subseteq Evidence /\ ch.key.by \in Evidence /\ ch.key.person \in Persons
       /\ ch.key.action \in ChangeActions
       /\ ch.claim \in 1..lastClaim /\ ch.status \in {"pending", "applied"}
  BY <1>1 DEF ClaimsInv, Tables, TrailTells, ChangeRows, Keys, Claims
<1>3. ClaimsTyped
  BY <1>1, <1>2 DEF Tables, ClaimsTyped
<1> QED
  BY <1>3 DEF ClaimsInv, ClaimSafety

(* However proposals, confirmations and corrections of people/service.py    *)
(* are ordered, what stands was consented to, what a correction replaces    *)
(* has stepped back, and the revision tells every write.                    *)
THEOREM ClaimsStand == ClaimsSpec => []ClaimSafety
<1>1. ClaimsInit => ClaimsInv
  BY ClaimsInitSafe
<1>2. ClaimsInv /\ [ClaimsNext]_claimsVars => ClaimsInv'
  BY ClaimsStep
<1>3. ClaimsInv => ClaimSafety
  BY ClaimsInvSafe
<1> QED
  BY <1>1, <1>2, <1>3, PTL DEF ClaimsSpec

(* A claim that was corrected or retired never stands again, whatever is    *)
(* still waiting to be confirmed.                                           *)
THEOREM ClaimsRetired == ClaimsSpec => RetiredForGood
<1>1. ClaimsInit => ClaimsInv
  BY ClaimsInitSafe
<1>2. ClaimsInv /\ [ClaimsNext]_claimsVars => ClaimsInv'
  BY ClaimsStep
<1>3. ClaimsInv /\ [ClaimsNext]_claimsVars =>
        [\A c \in 1..lastClaim : claim[c].status = "superseded" => claim'[c] = claim[c]]_claimsVars
  BY ClaimsStep DEF RetiredStay
<1> QED
  BY <1>1, <1>2, <1>3, PTL DEF ClaimsSpec, RetiredForGood

-----------------------------------------------------------------------------
(* The intentions of the autonomy loop. *)

Event == [msg : Messages, at : {"queued", "sending"}, awaited : BOOLEAN]
Beat == [at : {"rest", "loaded", "delivering", "unshared", "thinking", "roaming"},
         copy : [Wishes -> WishRecord], about : SUBSET Wishes, answer : {"none", "yes", "no"}]

(* Every variable, with what AutoTyped leaves open. *)
Shapes ==
  /\ wish \in [Wishes -> WishRecord] /\ pen \subseteq [Wishes -> WishRecord] /\ beat \in Beat
  /\ post \in Seq(Event) /\ Len(post) <= BusLimit
  /\ free \in [due : BOOLEAN, passed : Nat, offered : Nat] /\ calm \in BOOLEAN
  /\ ledger \in [Messages -> {"none", "open", "sent", "uncertain"}]
  /\ said \in [Messages -> Nat]

(* The ledger tells what the chat has seen. *)
LedgerTells ==
  \A m \in Messages :
    /\ said[m] <= 1
    /\ ledger[m] = "none" => said[m] = 0
    /\ ledger[m] = "sent" => said[m] > 0

WasSaid(w) == \E c \in Chats : said[<<w, c>>] > 0
Honest(file) == \A w \in Wishes : file[w].shared => WasSaid(w)

(* No copy calls shared what was not said; an event the heartbeat waits for *)
(* is about the wish it wants to tell, and "yes" means that it was told.    *)
CopiesHonest == Honest(wish) /\ Honest(beat.copy) /\ \A copy \in pen : Honest(copy)

ReceiptsHonest ==
  /\ beat.at # "delivering" => beat.answer # "yes"
  /\ beat.at = "loaded" => beat.answer = "none"
  /\ beat.answer = "yes" => \A w \in beat.about : WasSaid(w)
  /\ \A i \in DOMAIN post :
       post[i].awaited =>
         /\ beat.at = "delivering" /\ beat.answer = "none" /\ beat.about = {post[i].msg[1]}
         /\ \A j \in DOMAIN post : post[j].awaited => j = i

(* An interval that is due has not been used. *)
TimeKept == IF free.due THEN free.offered < free.passed ELSE free.offered <= free.passed

AutoInv == Shapes /\ LedgerTells /\ CopiesHonest /\ ReceiptsHonest /\ TimeKept

-----------------------------------------------------------------------------
LEMMA BlankShape == Blank \in [Wishes -> WishRecord] /\ Honest(Blank) /\ Asleep \in Beat
BY AutonomyConstantsOK DEF Blank, Unformed, WishRecord, Honest, Asleep, Beat

LEMMA AutoInitSafe == AutoInit => AutoInv
<1> SUFFICES ASSUME AutoInit PROVE AutoInv
  OBVIOUS
<1>1. Shapes
  BY BlankShape, AutonomyConstantsOK DEF AutoInit, Shapes, Event
<1>2. LedgerTells
  BY DEF AutoInit, LedgerTells
<1>3. CopiesHonest
  BY BlankShape DEF AutoInit, CopiesHonest, Asleep
<1>4. ReceiptsHonest /\ TimeKept
  BY DEF AutoInit, ReceiptsHonest, TimeKept, Asleep
<1> QED
  BY <1>1, <1>2, <1>3, <1>4 DEF AutoInv

(* Writing one wish of a file. *)
LEMMA Rewritten ==
  ASSUME NEW file \in [Wishes -> WishRecord], Honest(file), NEW w \in Wishes,
         NEW r \in WishRecord, r.shared => WasSaid(w)
  PROVE  /\ [file EXCEPT ![w] = r] \in [Wishes -> WishRecord]
         /\ Honest([file EXCEPT ![w] = r])
BY DEF Honest

LEMMA RecordEdits ==
  ASSUME NEW r \in WishRecord
  PROVE  /\ \A to \in Chats \cup {NoChat} :
              [r EXCEPT !.to = to] \in WishRecord /\ [r EXCEPT !.to = to].shared = r.shared
         /\ \A n \in 0..MaxAttempts :
              [r EXCEPT !.attempts = n] \in WishRecord /\ [r EXCEPT !.attempts = n].shared = r.shared
         /\ /\ [r EXCEPT !.status = "resolved"] \in WishRecord
            /\ [r EXCEPT !.status = "resolved"].shared = r.shared
         /\ [r EXCEPT !.shared = TRUE, !.status = "resolved"] \in WishRecord
         /\ r.attempts \in 0..MaxAttempts /\ r.to \in Chats \cup {NoChat} /\ r.shared \in BOOLEAN
BY DEF WishRecord

LEMMA Opened ==
  ASSUME NEW tell \in BOOLEAN, NEW to \in Chats \cup {NoChat}
  PROVE  /\ [Unformed EXCEPT !.status = "open", !.tell = tell, !.to = to] \in WishRecord
         /\ ~[Unformed EXCEPT !.status = "open", !.tell = tell, !.to = to].shared
<1> DEFINE u == Unformed
<1>1. u \in WishRecord /\ ~u.shared
  BY AutonomyConstantsOK DEF Unformed, WishRecord
<1> HIDE DEF u
<1>2. /\ [u EXCEPT !.status = "open", !.tell = tell, !.to = to] \in WishRecord
      /\ ~[u EXCEPT !.status = "open", !.tell = tell, !.to = to].shared
  BY <1>1 DEF WishRecord
<1> QED
  BY <1>2 DEF u

(* The tools write copies of the file, and save them. *)
LEMMA ToolsSafe ==
  ASSUME AutoInv,
         \/ \E w \in Wishes, to \in Chats \cup {NoChat} :
              \/ \E tell \in BOOLEAN : FormWish(w, tell, to)
              \/ to # NoChat /\ AttachAudience(w, to)
         \/ ToolSaves
  PROVE  AutoInv'
<1>1. UNCHANGED <<beat, free, calm, post, ledger, said>>
  BY DEF FormWish, AttachAudience, ToolSaves
<1>2. /\ wish' \in [Wishes -> WishRecord] /\ pen' \subseteq [Wishes -> WishRecord]
      /\ Honest(wish') /\ \A copy \in pen' : Honest(copy)
  <2>0. wish \in [Wishes -> WishRecord] /\ Honest(wish)
    BY DEF AutoInv, Shapes, CopiesHonest
  <2>1. ASSUME NEW w \in Wishes, NEW to \in Chats \cup {NoChat}, NEW tell \in BOOLEAN,
               FormWish(w, tell, to)
        PROVE  /\ wish' \in [Wishes -> WishRecord] /\ pen' \subseteq [Wishes -> WishRecord]
               /\ Honest(wish') /\ \A copy \in pen' : Honest(copy)
    <3> DEFINE r == [Unformed EXCEPT !.status = "open", !.tell = tell, !.to = to]
    <3>1. r \in WishRecord /\ ~r.shared
      BY Opened
    <3>2. pen' = {[wish EXCEPT ![w] = r]} /\ wish' = wish
      BY <2>1 DEF FormWish
    <3> HIDE DEF r
    <3>3. [wish EXCEPT ![w] = r] \in [Wishes -> WishRecord] /\ Honest([wish EXCEPT ![w] = r])
      BY <2>0, <3>1, Rewritten
    <3> QED
      BY <2>0, <3>2, <3>3
  <2>2. ASSUME NEW w \in Wishes, NEW to \in Chats \cup {NoChat}, AttachAudience(w, to)
        PROVE  /\ wish' \in [Wishes -> WishRecord] /\ pen' \subseteq [Wishes -> WishRecord]
               /\ Honest(wish') /\ \A copy \in pen' : Honest(copy)
    <3> DEFINE r == [wish[w] EXCEPT !.to = to]
    <3>1. r \in WishRecord /\ (r.shared => WasSaid(w))
      BY <2>0, RecordEdits DEF Honest
    <3>2. pen' = {[wish EXCEPT ![w] = r]} /\ wish' = wish
      BY <2>2 DEF AttachAudience
    <3> HIDE DEF r
    <3>3. [wish EXCEPT ![w] = r] \in [Wishes -> WishRecord] /\ Honest([wish EXCEPT ![w] = r])
      BY <2>0, <3>1, Rewritten
    <3> QED
      BY <2>0, <3>2, <3>3
  <2>3. CASE ToolSaves
    BY <2>3 DEF ToolSaves, AutoInv, Shapes, CopiesHonest
  <2> QED
    BY <2>1, <2>2, <2>3
<1>3. CopiesHonest'
  BY <1>1, <1>2 DEF AutoInv, CopiesHonest, Honest, WasSaid
<1> QED
  BY <1>1, <1>2, <1>3 DEF AutoInv, Shapes, LedgerTells, ReceiptsHonest, TimeKept, WasSaid

(* The heartbeat, where no receipt is awaited. *)
LEMMA BeatSafe ==
  ASSUME AutoInv,
         \/ BeatLoads \/ (\E w \in Wishes : BeatThinks(w)) \/ BeatThought
         \/ BeatRoams \/ BeatRoamed \/ BeatRests
  PROVE  AutoInv'
<1> DEFINE Quiet(b) == b \in Beat /\ b.at # "delivering" /\ b.answer = "none" /\ Honest(b.copy)
<1>0. beat \in Beat /\ wish \in [Wishes -> WishRecord] /\ Honest(wish) /\ Honest(beat.copy)
  BY DEF AutoInv, Shapes, CopiesHonest
<1>1. UNCHANGED <<pen, calm, post, ledger, said>> /\ beat.at # "delivering"
  BY DEF BeatLoads, BeatThinks, BeatThought, BeatRoams, BeatRoamed, BeatRests, MayThink
<1>2. Quiet(beat')
  <2>1. Quiet(Asleep) /\ Quiet([Asleep EXCEPT !.at = "roaming"])
    BY BlankShape DEF Asleep, Beat
  <2>2. Quiet([Asleep EXCEPT !.at = "loaded", !.copy = wish])
    BY <1>0 DEF Asleep, Beat
  <2>3. \A w \in Wishes : Quiet([Asleep EXCEPT !.at = "thinking", !.about = {w}])
    BY BlankShape DEF Asleep, Beat
  <2> HIDE DEF Quiet
  <2> QED
    BY <2>1, <2>2, <2>3
    DEF BeatLoads, BeatThinks, BeatThought, BeatRoams, BeatRoamed, BeatRests
<1>3. wish' \in [Wishes -> WishRecord] /\ Honest(wish')
  <2>1. ASSUME NEW w \in Wishes, BeatThinks(w)
        PROVE  wish' \in [Wishes -> WishRecord] /\ Honest(wish')
    <3> DEFINE r == [beat.copy[w] EXCEPT !.attempts = beat.copy[w].attempts + 1]
    <3>1. beat.copy \in [Wishes -> WishRecord] /\ beat.copy[w].attempts < MaxAttempts
      BY <1>0, <2>1 DEF BeatThinks, Actionable, Beat
    <3>2. beat.copy[w].attempts + 1 \in 0..MaxAttempts
      BY <3>1, AutonomyConstantsOK DEF WishRecord
    <3>3. r \in WishRecord /\ (r.shared => WasSaid(w))
      BY <1>0, <3>1, <3>2, RecordEdits DEF Honest
    <3>4. wish' = [beat.copy EXCEPT ![w] = r]
      BY <2>1, <3>1 DEF BeatThinks
    <3> HIDE DEF r
    <3> QED
      BY <1>0, <3>1, <3>3, <3>4, Rewritten
  <2>2. ASSUME BeatThought, NEW w \in beat.about, wish' = AfterThought(w), wish' # wish
        PROVE  wish' \in [Wishes -> WishRecord] /\ Honest(wish')
    <3> DEFINE r == [wish[w] EXCEPT !.status = "resolved"]
    <3>1. w \in Wishes /\ wish' = [wish EXCEPT ![w] = r]
      BY <1>0, <2>2 DEF AfterThought, Beat
    <3>2. r \in WishRecord /\ (r.shared => WasSaid(w))
      BY <1>0, <3>1, RecordEdits DEF Honest
    <3> HIDE DEF r
    <3> QED
      BY <1>0, <3>1, <3>2, Rewritten
  <2> QED
    BY <1>0, <2>1, <2>2 DEF BeatLoads, BeatThought, BeatRoams, BeatRoamed, BeatRests
<1>4. free' \in [due : BOOLEAN, passed : Nat, offered : Nat] /\ TimeKept'
  <2>1. free \in [due : BOOLEAN, passed : Nat, offered : Nat] /\ TimeKept
    BY DEF AutoInv, Shapes
  <2>2. CASE BeatRoams
    <3>1. free.due /\ free' = [due |-> FALSE, passed |-> free.passed, offered |-> free.offered + 1]
      BY <2>1, <2>2 DEF BeatRoams, Spent
    <3> QED
      BY <2>1, <3>1 DEF TimeKept
  <2>3. CASE BeatRoamed
    <3>1. \/ free' = [due |-> FALSE, passed |-> free.passed, offered |-> free.offered]
          \/ free' = free
      BY <2>1, <2>3 DEF BeatRoamed
    <3>2. CASE free' = [due |-> FALSE, passed |-> free.passed, offered |-> free.offered]
      BY <2>1, <3>2 DEF TimeKept
    <3>3. CASE free' = free
      BY <2>1, <3>3 DEF TimeKept
    <3> QED
      BY <3>1, <3>2, <3>3
  <2>4. CASE UNCHANGED free
    BY <2>1, <2>4 DEF TimeKept
  <2> QED
    BY <2>2, <2>3, <2>4 DEF BeatLoads, BeatThinks, BeatThought, BeatRests
<1>5. ReceiptsHonest'
  BY <1>1, <1>2 DEF AutoInv, ReceiptsHonest
<1>6. CopiesHonest'
  BY <1>1, <1>2, <1>3 DEF AutoInv, CopiesHonest, Honest, WasSaid
<1> QED
  BY <1>1, <1>2, <1>3, <1>4, <1>5, <1>6 DEF AutoInv, Shapes, LedgerTells

(* A share on its way: to the adapter, given up, refused, or recorded. *)
LEMMA ShareSafe ==
  ASSUME AutoInv,
         (\E w \in Wishes : BeatShares(w)) \/ BeatGivesUp \/ BeatRefused \/ BeatRecordsShare
  PROVE  AutoInv'
<1> USE DEF AutoInv
<1>1. UNCHANGED <<pen, free, ledger, said>> /\ calm' \in BOOLEAN
  BY DEF BeatShares, BeatGivesUp, BeatRefused, BeatRecordsShare, Shapes
<1>2. ASSUME NEW w \in Wishes, BeatShares(w) PROVE AutoInv'
  <2>1. CASE beat' = [beat EXCEPT !.at = "unshared"] /\ UNCHANGED post
    <3>1. beat.at = "loaded" /\ UNCHANGED <<wish, calm, post>>
      BY <1>2, <2>1 DEF BeatShares
    <3>2. beat' \in Beat /\ beat'.copy = beat.copy /\ beat'.at = "unshared"
          /\ beat'.answer = beat.answer
      BY <2>1 DEF Shapes, Beat
    <3>3. \A i \in DOMAIN post : ~post[i].awaited
      BY <3>1 DEF ReceiptsHonest
    <3>4. ReceiptsHonest'
      BY <3>1, <3>2, <3>3 DEF ReceiptsHonest
    <3> QED
      BY <1>1, <3>1, <3>2, <3>4
      DEF Shapes, LedgerTells, CopiesHonest, TimeKept, Honest, WasSaid
  <2>2. CASE ~(beat' = [beat EXCEPT !.at = "unshared"] /\ UNCHANGED post)
    <3> DEFINE e == [msg |-> <<w, beat.copy[w].to>>, at |-> "queued", awaited |-> TRUE]
    <3>1. /\ post' = Append(post, e) /\ Len(post) < BusLimit
          /\ beat' = [beat EXCEPT !.at = "delivering", !.about = {w}] /\ beat.at = "loaded"
          /\ UNCHANGED <<wish, calm>>
      BY <1>2, <2>2 DEF BeatShares
    <3>2. e \in Event
      BY <1>2 DEF BeatShares, Pending, Shapes, Beat, WishRecord, Event, Messages
    <3>3. /\ post' \in Seq(Event) /\ Len(post') = Len(post) + 1 /\ DOMAIN post' = 1..(Len(post) + 1)
          /\ \A i \in 1..Len(post) : post'[i] = post[i]
          /\ post'[Len(post) + 1] = e
      BY <3>1, <3>2 DEF Shapes
    <3>4. \A i \in 1..Len(post) : ~post[i].awaited
      BY <3>1 DEF ReceiptsHonest, Shapes
    <3>6. beat' \in Beat /\ beat'.copy = beat.copy /\ beat'.at = "delivering"
          /\ beat'.about = {w} /\ beat'.answer = beat.answer
      BY <3>1 DEF Shapes, Beat
    <3>5. ReceiptsHonest'
      <4>1. beat.answer # "yes" /\ beat.answer \in {"none", "yes", "no"}
        BY <3>1 DEF ReceiptsHonest, Shapes, Beat
      <4>2. beat.answer = "none"
        BY <1>2, <3>1 DEF ReceiptsHonest
      <4>3. e.msg[1] = w
        OBVIOUS
      <4>4. \A i \in DOMAIN post' : post'[i].awaited => i = Len(post) + 1
        BY <3>3, <3>4
      <4> HIDE DEF e
      <4> QED
        BY <3>3, <3>6, <4>2, <4>3, <4>4 DEF ReceiptsHonest
    <3>7. Shapes'
      BY <1>1, <3>1, <3>3, <3>6, AutonomyConstantsOK DEF Shapes
    <3> QED
      BY <1>1, <3>1, <3>5, <3>6, <3>7
      DEF LedgerTells, CopiesHonest, TimeKept, Honest, WasSaid
  <2> QED
    BY <2>1, <2>2
<1>3. CASE BeatGivesUp
  <2>1. /\ post' = [i \in DOMAIN post |-> [post[i] EXCEPT !.awaited = FALSE]]
        /\ UNCHANGED <<wish, calm>> /\ beat' = [beat EXCEPT !.at = "unshared"]
        /\ beat.answer = "none"
    BY <1>3 DEF BeatGivesUp
  <2>2. post' \in Seq(Event) /\ Len(post') = Len(post) /\ \A i \in DOMAIN post' : ~post'[i].awaited
    <3>1. \A i \in 1..Len(post) : post[i] \in Event
      BY DEF Shapes
    <3>2. \A i \in 1..Len(post) : [post[i] EXCEPT !.awaited = FALSE] \in Event
      BY <3>1 DEF Event
    <3>3. post' \in [1..Len(post) -> Event]
      BY <2>1, <3>2 DEF Shapes
    <3>4. \A i \in DOMAIN post' : ~post'[i].awaited
      <4>1. \A e \in Event : ~[e EXCEPT !.awaited = FALSE].awaited
        BY DEF Event
      <4>2. DOMAIN post = 1..Len(post)
        BY DEF Shapes
      <4>3. \A i \in DOMAIN post' : i \in 1..Len(post) /\ post'[i] = [post[i] EXCEPT !.awaited = FALSE]
        BY <2>1, <4>2
      <4> QED
        BY <3>1, <4>1, <4>3
    <3> QED
      <4>1. DOMAIN post' = 1..Len(post) /\ Len(post) \in Nat
        BY <3>3 DEF Shapes
      <4>2. post' \in Seq(Event) /\ Len(post') = Len(post)
        BY <3>3, <4>1
      <4> QED
        BY <3>4, <4>2
  <2>3. beat' \in Beat /\ beat'.copy = beat.copy /\ beat'.at = "unshared" /\ beat'.answer = "none"
    BY <2>1 DEF Shapes, Beat
  <2>4. ReceiptsHonest'
    BY <2>2, <2>3 DEF ReceiptsHonest
  <2>5. Shapes'
    BY <1>1, <2>1, <2>2, <2>3 DEF Shapes
  <2> QED
    BY <1>1, <2>1, <2>3, <2>4, <2>5
    DEF LedgerTells, CopiesHonest, TimeKept, Honest, WasSaid
<1>4. CASE BeatRefused
  <2>1. beat' = [beat EXCEPT !.at = "unshared"] /\ beat.answer = "no" /\ UNCHANGED <<wish, calm, post>>
    BY <1>4 DEF BeatRefused
  <2>2. beat' \in Beat /\ beat'.copy = beat.copy /\ beat'.answer = "no" /\ beat'.at = "unshared"
    BY <2>1 DEF Shapes, Beat
  <2>3. \A i \in DOMAIN post : ~post[i].awaited
    BY <2>1 DEF ReceiptsHonest
  <2>4. ReceiptsHonest'
    BY <2>1, <2>2, <2>3 DEF ReceiptsHonest
  <2> QED
    BY <1>1, <2>1, <2>2, <2>4
    DEF Shapes, LedgerTells, CopiesHonest, TimeKept, Honest, WasSaid
<1>5. CASE BeatRecordsShare
  <2>1. PICK v \in beat.about : wish' = MarkShared(wish, v)
    BY <1>5 DEF BeatRecordsShare
  <2>2. v \in Wishes /\ WasSaid(v)
    BY <1>5, <2>1 DEF BeatRecordsShare, ReceiptsHonest, Shapes, Beat
  <2>3. wish' \in [Wishes -> WishRecord] /\ Honest(wish')
    <3> DEFINE r == [wish[v] EXCEPT !.shared = TRUE, !.status = "resolved"]
    <3>1. wish \in [Wishes -> WishRecord] /\ Honest(wish)
      BY DEF Shapes, CopiesHonest
    <3>2. r \in WishRecord
      BY <2>2, <3>1, RecordEdits
    <3>3. wish' = wish \/ wish' = [wish EXCEPT ![v] = r]
      BY <2>1, <3>1 DEF MarkShared
    <3> HIDE DEF r
    <3> QED
      BY <2>2, <3>1, <3>2, <3>3, Rewritten
  <2>4. beat' = Asleep /\ UNCHANGED post
    BY <1>5 DEF BeatRecordsShare
  <2>5. \A i \in DOMAIN post : ~post[i].awaited
    BY <1>5 DEF BeatRecordsShare, ReceiptsHonest
  <2>6. ReceiptsHonest'
    BY <2>4, <2>5 DEF ReceiptsHonest, Asleep
  <2>7. CopiesHonest'
    BY <1>1, <2>3, <2>4, BlankShape DEF CopiesHonest, Honest, WasSaid, Asleep
  <2> QED
    BY <1>1, <2>3, <2>4, <2>6, <2>7, BlankShape DEF Shapes, LedgerTells, TimeKept
<1> QED
  BY <1>2, <1>3, <1>4, <1>5

(* What is left of the events when the first has been dealt with. *)
LEMMA TailKeeps ==
  ASSUME AutoInv, post # <<>>
  PROVE  /\ Tail(post) \in Seq(Event) /\ Len(Tail(post)) = Len(post) - 1 /\ Len(post) > 0
         /\ Head(post) = post[1] /\ Head(post) \in Event /\ 1 \in DOMAIN post
         /\ DOMAIN Tail(post) = 1..(Len(post) - 1)
         /\ \A i \in 1..(Len(post) - 1) : Tail(post)[i] = post[i + 1] /\ i + 1 \in DOMAIN post
<1>1. post \in Seq(Event)
  BY DEF AutoInv, Shapes
<1> QED
  BY <1>1, HeadTailProperties

(* An answer reaches the heartbeat only from the event it waits for. *)
LEMMA Answered ==
  ASSUME AutoInv, post # <<>>, NEW answer \in {"yes", "no"}, Tell(answer), post' = Tail(post),
         answer = "yes" => said'[Head(post).msg] > 0,
         \A m \in Messages : said[m] > 0 => said'[m] > 0
  PROVE  /\ beat' \in Beat /\ beat'.copy = beat.copy
         /\ post' \in Seq(Event) /\ Len(post') <= BusLimit
         /\ ReceiptsHonest'
<1> DEFINE e == Head(post)
<1>1. /\ post' \in Seq(Event) /\ Len(post') <= BusLimit /\ e \in Event
      /\ DOMAIN post' = 1..(Len(post) - 1)
      /\ \A i \in 1..(Len(post) - 1) : post'[i] = post[i + 1] /\ i + 1 \in DOMAIN post
  BY TailKeeps, AutonomyConstantsOK DEF AutoInv, Shapes
<1>2. beat' \in Beat /\ beat'.copy = beat.copy /\ beat'.about = beat.about /\ beat'.at = beat.at
  BY DEF Tell, AutoInv, Shapes, Beat
<1>3. CASE e.awaited
  <2>1. beat.at = "delivering" /\ beat.about = {e.msg[1]} /\ \A i \in DOMAIN post' : ~post'[i].awaited
    BY <1>1, <1>3, TailKeeps DEF AutoInv, ReceiptsHonest
  <2>2. beat'.answer = answer
    BY <1>3 DEF Tell, AutoInv, Shapes, Beat
  <2>3. e.msg \in Messages /\ e.msg = <<e.msg[1], e.msg[2]>> /\ e.msg[2] \in Chats
    BY <1>1 DEF Event, Messages
  <2>4. answer = "yes" => \A w \in beat.about : WasSaid(w)'
    BY <2>1, <2>3 DEF WasSaid
  <2> QED
    BY <1>1, <1>2, <2>1, <2>2, <2>4 DEF ReceiptsHonest
<1>4. CASE ~e.awaited
  <2>1. beat' = beat
    BY <1>4 DEF Tell
  <2>2. \A i \in DOMAIN post' : post'[i].awaited => post[i + 1].awaited /\ i + 1 \in DOMAIN post
    BY <1>1
  <2>3. \A i, j \in DOMAIN post' : post'[i].awaited /\ post'[j].awaited => j = i
    <3>1. TAKE i, j \in DOMAIN post'
    <3>2. i \in Nat /\ j \in Nat
      BY <1>1
    <3>3. HAVE post'[i].awaited /\ post'[j].awaited
    <3>4. j + 1 = i + 1
      BY <2>2, <3>3 DEF AutoInv, ReceiptsHonest
    <3> QED
      BY <3>2, <3>4
  <2>4. beat.answer = "yes" => \A w \in beat.about : WasSaid(w)'
    BY DEF AutoInv, Shapes, Beat, ReceiptsHonest, WasSaid, Messages
  <2>5. \A i \in DOMAIN post' : post'[i].awaited =>
          beat.at = "delivering" /\ beat.answer = "none" /\ beat.about = {post'[i].msg[1]}
    BY <1>1, <2>2 DEF AutoInv, ReceiptsHonest
  <2>6. /\ beat.at # "delivering" => beat.answer # "yes"
        /\ beat.at = "loaded" => beat.answer = "none"
    BY DEF AutoInv, ReceiptsHonest
  <2>7. \A i \in DOMAIN post' : post'[i].awaited =>
          /\ beat.at = "delivering" /\ beat.answer = "none" /\ beat.about = {post'[i].msg[1]}
          /\ \A j \in DOMAIN post' : post'[j].awaited => j = i
    BY <2>3, <2>5
  <2>8. beat.answer = "yes" => \A w \in beat.about : WasSaid(w)'
    BY <2>4
  <2>9. ReceiptsHonest'
    BY <2>1, <2>6, <2>7, <2>8 DEF ReceiptsHonest
  <2> QED
    BY <1>1, <1>2, <2>9
<1> QED
  BY <1>1, <1>2, <1>3, <1>4

(* The adapter. *)
LEMMA AdapterSafe ==
  ASSUME AutoInv, NEW outcome \in {"ok", "failed", "lost"},
         AdapterDeclines \/ AdapterFails \/ AdapterSends \/ PlatformAnswers(outcome)
  PROVE  AutoInv'
<1>1. /\ post # <<>> /\ UNCHANGED <<wish, pen, free, calm>>
      /\ Head(post).msg \in Messages
  BY TailKeeps DEF AdapterDeclines, AdapterFails, AdapterSends, PlatformAnswers, Event
<1>2. CASE AdapterDeclines
  <2>1. UNCHANGED <<ledger, said>> /\ post' = Tail(post)
    BY <1>2 DEF AdapterDeclines
  <2>2. \A m \in Messages : said[m] > 0 => said'[m] > 0
    BY <2>1
  <2> DEFINE answer == IF WasSent(Head(post).msg) THEN "yes" ELSE "no"
  <2>3. Tell(answer) /\ answer \in {"yes", "no"}
    BY <1>2 DEF AdapterDeclines
  <2>4. answer = "yes" => said'[Head(post).msg] > 0
    BY <1>1, <2>1 DEF WasSent, AutoInv, LedgerTells
  <2> HIDE DEF answer
  <2>5. /\ beat' \in Beat /\ beat'.copy = beat.copy /\ ReceiptsHonest'
        /\ post' \in Seq(Event) /\ Len(post') <= BusLimit
    BY <1>1, <2>1, <2>2, <2>3, <2>4, Answered
  <2> QED
    BY <1>1, <2>1, <2>5 DEF AutoInv, Shapes, LedgerTells, CopiesHonest, TimeKept, Honest, WasSaid
<1>3. CASE AdapterFails
  <2>1. UNCHANGED <<ledger, said>> /\ post' = Tail(post) /\ Tell("no")
    BY <1>3 DEF AdapterFails
  <2>2. \A m \in Messages : said[m] > 0 => said'[m] > 0
    BY <2>1
  <2>5. /\ beat' \in Beat /\ beat'.copy = beat.copy /\ ReceiptsHonest'
        /\ post' \in Seq(Event) /\ Len(post') <= BusLimit
    BY <1>1, <2>1, <2>2, Answered
  <2> QED
    BY <1>1, <2>1, <2>5 DEF AutoInv, Shapes, LedgerTells, CopiesHonest, TimeKept, Honest, WasSaid
<1>4. CASE AdapterSends
  <2> DEFINE m == Head(post).msg
  <2>1. PICK seen \in {0, 1} : said' = [said EXCEPT ![m] = @ + seen]
    BY <1>4 DEF AdapterSends
  <2>2. /\ ledger' = [ledger EXCEPT ![m] = "open"] /\ ledger[m] = "none" /\ UNCHANGED beat
        /\ post' = [post EXCEPT ![1].at = "sending"]
    BY <1>4 DEF AdapterSends, Admitted
  <2>3. said[m] = 0 /\ said' \in [Messages -> Nat] /\ \A k \in Messages : said'[k] >= said[k]
    BY <1>1, <2>1, <2>2 DEF AutoInv, LedgerTells, Shapes
  <2>4. LedgerTells'
    BY <1>1, <2>1, <2>2, <2>3 DEF AutoInv, LedgerTells, Shapes
  <2>5. \A w \in Wishes : WasSaid(w) => WasSaid(w)'
    <3>1. \A w \in Wishes, c \in Chats : <<w, c>> \in Messages
      BY DEF Messages
    <3>2. \A k \in Messages : said[k] \in Nat /\ said'[k] \in Nat /\ said'[k] >= said[k]
      BY <2>3 DEF AutoInv, Shapes
    <3>3. \A w \in Wishes, c \in Chats : said[<<w, c>>] > 0 => said'[<<w, c>>] > 0
      BY <3>1, <3>2
    <3> QED
      BY <3>3 DEF WasSaid
  <2>6. /\ post' \in Seq(Event) /\ Len(post') = Len(post) /\ DOMAIN post' = DOMAIN post
        /\ \A i \in DOMAIN post : post'[i].awaited = post[i].awaited /\ post'[i].msg = post[i].msg
    <3>1. post[1] \in Event /\ 1 \in DOMAIN post /\ post \in Seq(Event)
      BY <1>1, TailKeeps DEF AutoInv, Shapes
    <3>2. [post[1] EXCEPT !.at = "sending"] \in Event
      BY <3>1 DEF Event
    <3>3. \A i \in DOMAIN post : post[i] \in Event
      BY <3>1
    <3> QED
      BY <2>2, <3>1, <3>2, <3>3 DEF Event
  <2>7. ReceiptsHonest'
    <3>1. beat.answer = "yes" => \A w \in beat.about : WasSaid(w)'
      BY <2>5 DEF AutoInv, ReceiptsHonest, Shapes, Beat, WasSaid
    <3> QED
      BY <2>2, <2>6, <3>1 DEF AutoInv, ReceiptsHonest
  <2>8. CopiesHonest'
    BY <1>1, <2>2, <2>5 DEF AutoInv, CopiesHonest, Honest, WasSaid
  <2>9. ledger' \in [Messages -> {"none", "open", "sent", "uncertain"}]
    BY <1>1, <2>2 DEF AutoInv, Shapes
  <2> QED
    BY <1>1, <2>2, <2>3, <2>4, <2>6, <2>7, <2>8, <2>9 DEF AutoInv, Shapes, TimeKept
<1>5. CASE PlatformAnswers(outcome)
  <2> DEFINE mm == Head(post).msg
             answer == IF outcome = "ok" THEN "yes" ELSE "no"
  <2>1. /\ UNCHANGED said /\ post' = Tail(post) /\ Tell(answer) /\ answer \in {"yes", "no"}
        /\ ledger' = [ledger EXCEPT ![mm] = Verdict(outcome)]
        /\ outcome = "ok" => said[mm] > 0
        /\ outcome = "failed" => said[mm] = 0
    BY <1>5 DEF PlatformAnswers
  <2>2. \A m \in Messages : said[m] > 0 => said'[m] > 0
    BY <2>1
  <2>3. answer = "yes" => said'[mm] > 0
    BY <2>1
  <2>4. LedgerTells' /\ ledger' \in [Messages -> {"none", "open", "sent", "uncertain"}]
    BY <1>1, <2>1 DEF AutoInv, LedgerTells, Shapes, Verdict
  <2> HIDE DEF answer
  <2>5. /\ beat' \in Beat /\ beat'.copy = beat.copy /\ ReceiptsHonest'
        /\ post' \in Seq(Event) /\ Len(post') <= BusLimit
    BY <1>1, <2>1, <2>2, <2>3, Answered
  <2> QED
    BY <1>1, <2>1, <2>4, <2>5 DEF AutoInv, Shapes, CopiesHonest, TimeKept, Honest, WasSaid
<1> QED
  BY <1>2, <1>3, <1>4, <1>5

(* Time, leases and the end of the process. *)
LEMMA WorldSafe ==
  ASSUME AutoInv,
         IntervalPasses \/ NightAndDay \/ AutoCrash \/ (\E m \in Messages : SendingLapses(m))
  PROVE  AutoInv'
<1> USE DEF AutoInv
<1>1. CASE IntervalPasses
  <2>1. /\ free' = [free EXCEPT !.due = TRUE, !.passed = @ + 1] /\ ~free.due
        /\ UNCHANGED <<wish, beat, pen, calm, post, ledger, said>>
    BY <1>1 DEF IntervalPasses
  <2>2. free' = [due |-> TRUE, passed |-> free.passed + 1, offered |-> free.offered]
    BY <2>1 DEF Shapes
  <2>3. free' \in [due : BOOLEAN, passed : Nat, offered : Nat] /\ TimeKept'
    <3>1. free.passed \in Nat /\ free.offered \in Nat /\ free.offered <= free.passed
      BY <2>1 DEF Shapes, TimeKept
    <3> QED
      BY <2>2, <3>1 DEF TimeKept
  <2> QED
    BY <2>1, <2>3 DEF Shapes, LedgerTells, CopiesHonest, ReceiptsHonest, Honest, WasSaid
<1>2. CASE NightAndDay
  BY <1>2 DEF NightAndDay, Shapes, LedgerTells, CopiesHonest, ReceiptsHonest, TimeKept, Honest,
              WasSaid
<1>3. CASE AutoCrash
  <2>1. beat' = Asleep /\ pen' = {} /\ post' = <<>> /\ UNCHANGED <<wish, free, calm, ledger, said>>
    BY <1>3 DEF AutoCrash
  <2>2. Shapes'
    BY <2>1, BlankShape, AutonomyConstantsOK DEF Shapes
  <2>3. CopiesHonest'
    BY <2>1, BlankShape DEF CopiesHonest, Honest, WasSaid, Asleep
  <2> QED
    BY <2>1, <2>2, <2>3 DEF LedgerTells, ReceiptsHonest, TimeKept, Asleep
<1>4. ASSUME NEW m \in Messages, SendingLapses(m) PROVE AutoInv'
  BY <1>4 DEF SendingLapses, Shapes, LedgerTells, CopiesHonest, ReceiptsHonest, TimeKept, Honest,
              WasSaid
<1> QED
  BY <1>1, <1>2, <1>3, <1>4

LEMMA AutoStepSafe == AutoInv /\ [AutoNext]_autoVars => AutoInv'
<1> SUFFICES ASSUME AutoInv, [AutoNext]_autoVars PROVE AutoInv'
  OBVIOUS
<1>1. CASE UNCHANGED autoVars
  BY <1>1 DEF autoVars, AutoInv, Shapes, LedgerTells, CopiesHonest, ReceiptsHonest, TimeKept,
              Honest, WasSaid
<1>2. CASE AutoNext
  BY <1>2, ToolsSafe, BeatSafe, ShareSafe, AdapterSafe, WorldSafe DEF AutoNext
<1> QED
  BY <1>1, <1>2

THEOREM AutoInvariance == AutoSpec => []AutoInv
BY AutoInitSafe, AutoStepSafe, PTL DEF AutoSpec

(* She never says the same words twice in a chat, counts as told only what  *)
(* was seen, and is offered no more free time than has passed: for any      *)
(* number of wishes, chats, stale copies, retries and crashes.              *)
THEOREM WordsSaidOnce == AutoSpec => []IntentSafety
<1>1. AutoInv => IntentSafety
  BY DEF AutoInv, Shapes, LedgerTells, CopiesHonest, TimeKept, Honest, WasSaid, Beat, IntentSafety,
         AutoTyped, NeverSaidTwice, SharedWasSaid, FreeTimePaced
<1> QED
  BY <1>1, AutoInvariance, PTL

===============================================================================
