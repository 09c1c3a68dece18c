---------------------------- MODULE WorkflowState ----------------------------
(***************************************************************************)
(* The workflow_state tool (tools/builtin/workflow_state.py): one workflow *)
(* of one chat, the turns that follow its protocol, the store it is kept   *)
(* in (tools/data_store.py) and the executor that runs the tools a step    *)
(* permits (tools/executor.py).  A step's side effect must not be repeated *)
(* although turns die, leases lapse, tools time out and saves fail.        *)
(***************************************************************************)
EXTENDS Naturals, Sequences

CONSTANTS
  Turns,
  Steps,
  NoStep,
  MaxRuns,     \* bound: restarts
  MaxTokens,   \* bound: claims granted, over all runs
  MaxBadSaves  \* bound: failing writes of the store's file

ASSUME FlowConstantsOK ==
  NoStep \notin Steps /\ MaxRuns \in Nat \ {0} /\ MaxTokens \in Nat /\ MaxBadSaves \in Nat

VARIABLES
  flow,      \* the record in ToolDataStore._data
  flowFile,  \* the record in the store's file
  turn,      \* what each turn remembers of the tool's answers
  grants,    \* tokens issued so far, with the run and step they are for
  lapsed,    \* tokens whose lease_until has passed
  effects,   \* tokens under which the step's tool has been called
  badSaves

flowVars == <<flow, flowFile, turn, grants, lapsed, effects, badSaves>>

Tokens == 1..MaxTokens
StepState == [status : {"none", "claimed", "succeeded", "failed"}, token : 0..MaxTokens]
Untouched == [status |-> "none", token |-> 0]
Flows == [run : 0..MaxRuns, rev : Nat, status : {"active", "completed", "failed"},
          current : Steps \cup {NoStep}, steps : [Steps -> StepState]]

NewRecord(run) ==
  [run |-> run, rev |-> 0, status |-> "active", current |-> NoStep,
   steps |-> [s \in Steps |-> Untouched]]

(* at: reading (no permission), permitted (claimed=true), running (inside   *)
(* the tool), ran and broke (it returned, or failed).                       *)
AwayTurn == [at |-> "away", run |-> 0, rev |-> 0, step |-> NoStep, token |-> 0]

FlowInit ==
  /\ flow = NewRecord(0) /\ flowFile = NewRecord(0)   \* run 0: no record yet
  /\ turn = [t \in Turns |-> AwayTurn]
  /\ grants = <<>> /\ lapsed = {} /\ effects = {} /\ badSaves = 0

Issued == DOMAIN grants

-----------------------------------------------------------------------------
(* run(): the transition, then save() of whatever is dirty, then the answer. *)
(* When the save raises, memory keeps the change and the turn is told of an  *)
(* error: it learns nothing.                                                 *)

WrongFlowAnswer(t, record, answer) ==
  /\ flow' = record /\ turn' = [turn EXCEPT ![t] = answer]
  /\ \/ flowFile' = record /\ UNCHANGED badSaves
     \/ badSaves < MaxBadSaves /\ badSaves' = badSaves + 1 /\ UNCHANGED flowFile

FlowAnswer(t, record, answer) ==
  /\ flow' = record
  /\ \/ flowFile' = record /\ turn' = [turn EXCEPT ![t] = answer] /\ UNCHANGED badSaves
     \/ /\ badSaves < MaxBadSaves /\ record # flowFile
        /\ badSaves' = badSaves + 1 /\ UNCHANGED <<flowFile, turn>>

Knowing(t, record) == [turn[t] EXCEPT !.run = record.run, !.rev = record.rev]
Reading(t, record) == [Knowing(t, record) EXCEPT !.at = "reading"]
KnowsNewest(t) == turn[t].at # "away" /\ flow.run > 0 /\ turn[t].rev = flow.rev

Begin(t) ==
  /\ turn[t].at = "away"
  /\ LET record == IF flow.run = 0 THEN NewRecord(1) ELSE flow
     IN  FlowAnswer(t, record, Reading(t, record))
  /\ UNCHANGED <<grants, lapsed, effects>>

(* A turn that reads again keeps its token and what it did with it. *)
Resume(t) ==
  /\ turn[t].at \in {"away", "reading", "ran", "broke"} /\ flow.run > 0
  /\ FlowAnswer(t, flow, IF turn[t].at = "away" THEN Reading(t, flow) ELSE Knowing(t, flow))
  /\ UNCHANGED <<grants, lapsed, effects>>

Restart(t) ==
  /\ turn[t].at = "reading" /\ KnowsNewest(t)
  /\ flow.status \in {"completed", "failed"} /\ flow.run < MaxRuns
  /\ LET record == NewRecord(flow.run + 1) IN FlowAnswer(t, record, Reading(t, record))
  /\ UNCHANGED <<grants, lapsed, effects>>

-----------------------------------------------------------------------------
(* Claiming a step. *)

StepAllowed(s) == flow.current \in {NoStep, s}

Leased(s) == flow.steps[s].status = "claimed" /\ flow.steps[s].token \notin lapsed

Grantable(s) == flow.steps[s].status # "succeeded" /\ ~Leased(s)

Granted(s, token) ==
  [flow EXCEPT !.rev = @ + 1, !.status = "active", !.current = s,
               !.steps[s] = [status |-> "claimed", token |-> token]]

MayClaim(t, s) ==
  turn[t].at = "reading" /\ KnowsNewest(t) /\ flow.status # "completed" /\ StepAllowed(s)

Claim(t, s) ==
  /\ MayClaim(t, s) /\ Grantable(s) /\ Len(grants) < MaxTokens
  /\ LET token == Len(grants) + 1
         record == Granted(s, token)
     IN  /\ grants' = Append(grants, [run |-> flow.run, step |-> s])
         /\ FlowAnswer(t, record, [Knowing(t, record) EXCEPT !.at = "permitted",
                                                         !.step = s, !.token = token])
  /\ UNCHANGED <<lapsed, effects>>

(* in_progress or already_done: no permission, the turn knows what it knew. *)
ClaimInVain(t, s) ==
  /\ MayClaim(t, s) /\ ~Grantable(s)
  /\ FlowAnswer(t, flow, Reading(t, flow))
  /\ UNCHANGED <<grants, lapsed, effects>>

-----------------------------------------------------------------------------
(* Running the step's tool through ToolExecutor.execute_async.  broke also   *)
(* stands for a time-out, although the tool's thread goes on.                *)

CallTool(t) ==
  /\ turn[t].at = "permitted"
  /\ turn' = [turn EXCEPT ![t].at = "running"]
  /\ effects' = effects \cup {turn[t].token}
  /\ UNCHANGED <<flow, flowFile, grants, lapsed, badSaves>>

ToolReturns(t) ==
  /\ turn[t].at = "running"
  /\ \E outcome \in {"ran", "broke"} : turn' = [turn EXCEPT ![t].at = outcome]
  /\ UNCHANGED <<flow, flowFile, grants, lapsed, effects, badSaves>>

-----------------------------------------------------------------------------
(* Recording the outcome. *)

WrongHolds(t) == flow.steps[turn[t].step].status = "claimed"
Holds(t) ==
  LET step == flow.steps[turn[t].step]
  IN  step.status = "claimed" /\ step.token = turn[t].token

Checkpointed(s, next) ==
  [flow EXCEPT !.rev = @ + 1, !.status = IF next = NoStep THEN "completed" ELSE "active",
               !.current = next,
               !.steps[s].status = "succeeded"]

FailedAt(s) ==
  [flow EXCEPT !.rev = @ + 1, !.status = "failed", !.current = s,
               !.steps[s].status = "failed"]

Checkpoint(t, next) ==
  /\ turn[t].at = "ran" /\ KnowsNewest(t) /\ Holds(t)
  /\ LET record == Checkpointed(turn[t].step, next) IN FlowAnswer(t, record, Reading(t, record))
  /\ UNCHANGED <<grants, lapsed, effects>>

Fail(t) ==
  /\ turn[t].at = "broke" /\ KnowsNewest(t) /\ Holds(t) /\ flow.status # "completed"
  /\ LET record == FailedAt(turn[t].step) IN FlowAnswer(t, record, Reading(t, record))
  /\ UNCHANGED <<grants, lapsed, effects>>

(* The same report again, when the first one's answer was lost. *)
Replayed(t) ==
  /\ turn[t].at \in {"ran", "broke"} /\ KnowsNewest(t)
  /\ flow.steps[turn[t].step] =
       [status |-> IF turn[t].at = "ran" THEN "succeeded" ELSE "failed", token |-> turn[t].token]
  /\ turn[t].at = "broke" => flow.status # "completed"
  /\ FlowAnswer(t, flow, Reading(t, flow))
  /\ UNCHANGED <<grants, lapsed, effects>>

-----------------------------------------------------------------------------
(* The environment. *)

LeaseLapses(s) ==
  /\ Leased(s) /\ lapsed' = lapsed \cup {flow.steps[s].token}
  /\ UNCHANGED <<flow, flowFile, turn, grants, effects, badSaves>>

(* A turn ends wherever it is. *)
TurnEnds(t) ==
  /\ turn[t].at # "away" /\ turn' = [turn EXCEPT ![t] = AwayTurn]
  /\ UNCHANGED <<flow, flowFile, grants, lapsed, effects, badSaves>>

(* The process dies; ToolDataStore._load reads the file. *)
FlowCrash ==
  /\ flow' = flowFile /\ turn' = [t \in Turns |-> AwayTurn]
  /\ UNCHANGED <<flowFile, grants, lapsed, effects, badSaves>>

FlowNext ==
  \/ \E t \in Turns :
       \/ Begin(t) \/ Resume(t) \/ Restart(t)
       \/ \E s \in Steps : Claim(t, s) \/ ClaimInVain(t, s)
       \/ CallTool(t) \/ ToolReturns(t)
       \/ \E next \in Steps \cup {NoStep} : Checkpoint(t, next)
       \/ Fail(t) \/ Replayed(t) \/ TurnEnds(t)
  \/ \E s \in Steps : LeaseLapses(s)
  \/ FlowCrash

FlowSpec == FlowInit /\ [][FlowNext]_flowVars

-----------------------------------------------------------------------------
(* Properties. *)

(* The record has its shape, and a step that was touched names its claim.   *)
FlowTyped ==
  /\ \A record \in {flow, flowFile} :
       /\ record \in Flows
       /\ \A s \in Steps : record.steps[s].status # "none" <=> record.steps[s].token \in Issued
  /\ turn \in [Turns -> [at : {"away", "reading", "permitted", "running", "ran", "broke"},
                         run : 0..MaxRuns, rev : Nat, step : Steps \cup {NoStep},
                         token : 0..MaxTokens]]
  /\ lapsed \subseteq Issued /\ effects \subseteq Issued

(* Whatever turns do, at most one step is open, it is the current one, a    *)
(* failed workflow is failed at its current step and a completed one has    *)
(* nothing open: resume's next_step always tells the whole truth.           *)
OneOpenStep ==
  /\ \A s \in Steps : flow.steps[s].status \in {"claimed", "failed"} => flow.current = s
  /\ flow.status = "completed" => flow.current = NoStep
  /\ flow.status = "failed" => flow.steps[flow.current].status = "failed"

(* claim: two turns are inside the tool of one step only when the first     *)
(* one's lease has lapsed.                                                  *)
RunnersApart ==
  \A t, u \in Turns :
    /\ t # u /\ turn[t].at = "running" /\ turn[u].at = "running"
    /\ grants[turn[t].token] = grants[turn[u].token]
    => turn[t].token \in lapsed \/ turn[u].token \in lapsed

(* checkpoint and fail refuse late results: an outcome is recorded for the  *)
(* newest claim of the step by a turn that holds it and has run the tool.   *)
OutcomeByHolder ==
  \A s \in Steps :
    /\ flow'.run = flow.run /\ flow'.rev = flow.rev + 1
    /\ flow'.steps[s].status \in {"succeeded", "failed"} /\ flow'.steps[s] # flow.steps[s]
    => \E t \in Turns :
         /\ turn[t].at = (IF flow'.steps[s].status = "failed" THEN "broke" ELSE "ran")
         /\ turn[t].step = s /\ turn[t].run = flow.run
         /\ \A token \in Issued :
              grants[token] = [run |-> flow.run, step |-> s] => token <= turn[t].token

(* Once a success is in the file the step is never claimed again in that    *)
(* run, whatever is restarted, repeated or lost.                            *)
DoneStaysDone ==
  \A s \in Steps :
    flowFile.steps[s].status = "succeeded" /\ flowFile'.run = flowFile.run =>
      /\ flowFile'.steps[s] = flowFile.steps[s]
      /\ grants' # grants => grants' # Append(grants, [run |-> flowFile.run, step |-> s])

(* What is recorded of a step is recorded once, by whom it was granted to.  *)
OutcomesStand == [][OutcomeByHolder /\ DoneStaysDone]_flowVars

(* No tool has been called for a claim the file does not know: a restart of *)
(* the process cannot forget that a side effect may have happened.          *)
EffectIsOnFile ==
  \A token \in effects :
    flowFile.run = grants[token].run =>
      flowFile.steps[grants[token].step].token >= token

(* A step's side effect happens once for one lease, whatever turns, leases, *)
(* saves and restarts do, and the record never hides that it may have       *)
(* happened.                                                                *)
StepSafety == FlowTyped /\ OneOpenStep /\ RunnersApart /\ EffectIsOnFile
=============================================================================
