------------------------------- MODULE Notebook -------------------------------
(***************************************************************************)
(* One chat's notebook (memory/persona_notebook.py), the tool that writes  *)
(* it (tools/builtin/persona_notebook.py) and the maintenance that tidies  *)
(* it with a model's help (core/notebook_maintenance.py).  The file is     *)
(* small and never cut: a request that does not fit is kept whole beside   *)
(* the entries until maintenance has made room for it.                     *)
(***************************************************************************)
EXTENDS Naturals, FiniteSets

CONSTANTS
  Ids,          \* entry ids
  MaxSize,      \* sizes of a text; a text is known by its size, 0 is no entry
  Budget,       \* persona_notebook_token_budget
  Upkeeps,         \* maintenance runs, one per engine of the process
  NoRun,
  MaxPending,   \* _MAX_PENDING
  MaxRequests,  \* bound: requests that had to wait
  MaxNoteRev    \* bound: revisions of the file

ASSUME NotebookConstantsOK ==
  NoRun \notin Upkeeps /\ {MaxSize, Budget, MaxPending, MaxRequests, MaxNoteRev} \subseteq Nat

VARIABLES
  note,      \* the file
  upkeep,    \* NotebookMaintenance.run, one per engine
  slot,      \* _MODEL_SLOT: NoRun when free, else whose call holds it
  requestId  \* ids given out

noteVars == <<note, upkeep, slot, requestId>>

Texts == [Ids -> 0..MaxSize]
Operations == [op : {"add", "patch"}, entry : Ids, text : 1..MaxSize]
              \cup [op : {"remove"}, entry : Ids, text : {0}]

Weight(text) == Cardinality({token \in Ids \X (1..MaxSize) : token[2] <= text[token[1]]})

Fits(text) == Weight(text) <= Budget

Rested == [at |-> "rest", rev |-> 0, text |-> [i \in Ids |-> 0], selected |-> 0,
           plan |-> [i \in Ids |-> 0], aborted |-> FALSE]

NotebookInit ==
  /\ note = [rev |-> 0, text |-> [i \in Ids |-> 0], pending |-> {}, receipts |-> {}]
  /\ upkeep = [r \in Upkeeps |-> Rested]
  /\ slot = NoRun /\ requestId = 0

(* A run that replaces the file holds the file's lock. *)
Unlocked == \A r \in Upkeeps : upkeep[r].at # "replacing"

-----------------------------------------------------------------------------
(* _apply_operations: patch and remove need the entry to be there.          *)
Sound(text, op) == op.op = "add" \/ text[op.entry] # 0
Applied(text, op) ==
  IF Sound(text, op) THEN [text EXCEPT ![op.entry] = op.text] ELSE text

WrongMarked(pending, text) == pending
(* _persist_document: who waits to change what has just been changed is     *)
(* marked.                                                                  *)
Marked(pending, text) ==
  {[p EXCEPT !.conflicted = @ \/ text[p.op.entry] # note.text[p.op.entry]] : p \in pending}

Persist(text, pending, receipts) ==
  note' = IF text = note.text /\ pending = note.pending THEN note
          ELSE [rev |-> note.rev + 1, text |-> text,
                pending |-> Marked(pending, text), receipts |-> receipts]

ApplyNow(op) ==
  /\ Unlocked /\ note.rev < MaxNoteRev /\ Fits(Applied(note.text, op))
  /\ Persist(Applied(note.text, op), note.pending, note.receipts)
  /\ UNCHANGED <<upkeep, slot, requestId>>

Asked(op) == \E p \in note.pending :
  ~p.conflicted /\ p.op = op /\ p.before = note.text[op.entry]

(* Too large: the whole request waits, unless the same one waits already.   *)
Enqueue(op) ==
  /\ Unlocked /\ note.rev < MaxNoteRev /\ ~Fits(Applied(note.text, op)) /\ Sound(note.text, op)
  /\ ~Asked(op) /\ Cardinality(note.pending) < MaxPending /\ requestId < MaxRequests
  /\ Persist(note.text,
             note.pending \cup {[id |-> requestId + 1, op |-> op,
                                 before |-> note.text[op.entry], conflicted |-> FALSE]},
             note.receipts)
  /\ requestId' = requestId + 1 /\ UNCHANGED <<upkeep, slot>>

-----------------------------------------------------------------------------
(* run(): read, ask the model, commit in a thread.  At every await another  *)
(* message may come in (InterruptRun), and a busy chat ends the attempt.        *)

Unspoilt == {p \in note.pending : ~p.conflicted}
Oldest == CHOOSE p \in Unspoilt : \A q \in Unspoilt : p.id <= q.id

(* Without a request that waits only a forced run goes on.                   *)
ReadNotes(r) ==
  /\ upkeep[r].at = "rest" /\ Unlocked
  /\ note.pending # {} => Unspoilt # {}
  /\ note.pending # {} \/ Weight(note.text) > 0
  /\ upkeep' = [upkeep EXCEPT ![r] =
       [Rested EXCEPT !.at = "read", !.rev = note.rev, !.text = note.text,
                      !.selected = IF note.pending = {} THEN 0 ELSE Oldest.id]]
  /\ UNCHANGED <<note, slot, requestId>>

(* The slot is taken without waiting: a run that finds it taken is busy.     *)
AskModel(r) ==
  /\ upkeep[r].at = "read" /\ slot = NoRun
  /\ slot' = r
  /\ upkeep' = [upkeep EXCEPT ![r].at = "asking"]
  /\ UNCHANGED <<note, requestId>>

(* _parse_plan: edits of entries the run has read, each at most once.        *)
Plans(text) ==
  {plan \in Texts : \A i \in Ids : text[i] = 0 => plan[i] = 0}

(* The model answers in time.  With a request selected the plan must take    *)
(* it; without one the plan must change something.                           *)
ModelAnswers(r, plan) ==
  /\ upkeep[r].at = "asking" /\ plan \in Plans(upkeep[r].text)
  /\ upkeep[r].selected = 0 => plan # upkeep[r].text
  /\ slot' = NoRun
  /\ upkeep' = [upkeep EXCEPT ![r].at = "planned", ![r].plan = plan]
  /\ UNCHANGED <<note, requestId>>

(* Busy at one of the checks, the slot taken, an answer refused.             *)
Desist(r) ==
  /\ upkeep[r].at \in {"read", "planned"}
  /\ upkeep' = [upkeep EXCEPT ![r] = Rested]
  /\ UNCHANGED <<note, slot, requestId>>

(* Time-out or cancellation during the call: the run ends at once, the slot  *)
(* is given back when the cancelled call is over.                            *)
GiveUpAsking(r) ==
  /\ upkeep[r].at = "asking"
  /\ upkeep' = [upkeep EXCEPT ![r] = Rested]
  /\ UNCHANGED <<note, slot, requestId>>

WrongCallEnds(r) == slot = r /\ upkeep[r].at # "asking" /\ UNCHANGED noteVars
CallEnds(r) ==
  /\ slot = r /\ upkeep[r].at # "asking"
  /\ slot' = NoRun /\ UNCHANGED <<note, upkeep, requestId>>

CommitPlan(r) ==
  /\ upkeep[r].at = "planned"
  /\ upkeep' = [upkeep EXCEPT ![r].at = "committing"]
  /\ UNCHANGED <<note, slot, requestId>>

(* on_message or stop: the thread is told, the task waits for the thread.    *)
InterruptRun(r) ==
  /\ upkeep[r].at \in {"committing", "replacing"} /\ ~upkeep[r].aborted
  /\ upkeep' = [upkeep EXCEPT ![r].aborted = TRUE]
  /\ UNCHANGED <<note, slot, requestId>>

WrongReadNewest(r) == TRUE
ReadNewest(r) == note.rev = upkeep[r].rev

Selected(r) == {p \in note.pending : p.id = upkeep[r].selected}
StillWaiting(r) == upkeep[r].selected = 0 \/ \E p \in Selected(r) :
  ~p.conflicted /\ p.before = note.text[p.op.entry]

(* What the plan leaves of the entries, and the request carried out on it.   *)
Tidied(r) == [i \in Ids |-> IF upkeep[r].plan[i] # upkeep[r].text[i]
                            THEN upkeep[r].plan[i] ELSE note.text[i]]
SparesTarget(r) == \A p \in Selected(r) : upkeep[r].plan[p.op.entry] = upkeep[r].text[p.op.entry]
Outcome(r) ==
  IF Selected(r) = {} THEN Tidied(r)
  ELSE Applied(Tidied(r), (CHOOSE p \in Selected(r) : TRUE).op)

Committable(r) ==
  /\ ReadNewest(r) /\ StillWaiting(r) /\ SparesTarget(r)
  /\ \A p \in Selected(r) : Sound(Tidied(r), p.op)
  /\ Fits(Outcome(r))

(* commit_maintenance up to the last look at the abort flag.                 *)
LockAndCheck(r) ==
  /\ upkeep[r].at = "committing" /\ Unlocked
  /\ upkeep' = IF ~upkeep[r].aborted /\ Committable(r) /\ note.rev < MaxNoteRev
               THEN [upkeep EXCEPT ![r].at = "replacing"]
               ELSE [upkeep EXCEPT ![r] = Rested]
  /\ UNCHANGED <<note, slot, requestId>>

Served(r) == Selected(r)

(* The temporary file takes the place of the notebook. *)
Replace(r) ==
  /\ upkeep[r].at = "replacing"
  /\ Persist(Outcome(r), note.pending \ Served(r),
             note.receipts \cup {p.id : p \in Selected(r)})
  /\ upkeep' = [upkeep EXCEPT ![r] = Rested]
  /\ UNCHANGED <<slot, requestId>>

(* The process dies: the file stays, whatever a run had in mind is gone.     *)
NotebookCrash ==
  /\ upkeep' = [r \in Upkeeps |-> Rested] /\ slot' = NoRun
  /\ UNCHANGED <<note, requestId>>

NotebookNext ==
  \/ \E op \in Operations : ApplyNow(op) \/ Enqueue(op)
  \/ \E r \in Upkeeps :
       \/ ReadNotes(r) \/ AskModel(r) \/ \E plan \in Texts : ModelAnswers(r, plan)
       \/ Desist(r) \/ GiveUpAsking(r) \/ CallEnds(r)
       \/ CommitPlan(r) \/ InterruptRun(r) \/ LockAndCheck(r) \/ Replace(r)
  \/ NotebookCrash

NotebookSpec == NotebookInit /\ [][NotebookNext]_noteVars

(* The model's answer is awaited with a time-out, and a call that was        *)
(* cancelled comes to its end.                                               *)
NotebookFair ==
  \A r \in Upkeeps : WF_noteVars(GiveUpAsking(r)) /\ WF_noteVars(CallEnds(r))

-----------------------------------------------------------------------------
(* Properties. *)

(* The file has its shape and stays within its budget. *)
NotebookTyped ==
  /\ note.text \in Texts /\ Weight(note.text) <= Budget /\ note.rev \in 0..MaxNoteRev
  /\ \A p \in note.pending :
       /\ p.id \in 1..requestId /\ p.op \in Operations
       /\ p.before \in 0..MaxSize /\ p.conflicted \in BOOLEAN
  /\ Cardinality(note.pending) <= MaxPending
  /\ note.receipts \subseteq 1..requestId

(* A request that is not marked as conflicted still finds its entry as it   *)
(* was when the request was made, whoever has written since.                *)
UnmarkedIsCurrent ==
  \A p \in note.pending : ~p.conflicted => p.before = note.text[p.op.entry]

(* The same request never waits twice. *)
NoTwins ==
  \A p, q \in Unspoilt : p.op = q.op => p = q

(* The file never promises what it does not hold: it fits its budget, what  *)
(* waits in it can still be carried out, and is asked once.                 *)
NotebookSafety == NotebookTyped /\ UnmarkedIsCurrent /\ NoTwins

(* A request that waits is dropped only by the write that carries it out    *)
(* and leaves its receipt; it is carried out once.                          *)
WaitsUntilServed ==
  \A p \in note.pending :
    \/ \E q \in note'.pending : q.id = p.id /\ q.op = p.op
    \/ /\ p.id \in note'.receipts \ note.receipts /\ ~p.conflicted
       /\ note'.text[p.op.entry] = p.op.text

(* Maintenance writes only over the very notebook it has read: nothing that *)
(* was written meanwhile is undone by a plan made before it.                *)
TidiesWhatItRead ==
  \A r \in Upkeeps :
    upkeep[r].at = "replacing" /\ note' # note => note.text = upkeep[r].text

(* However writers, marks, time-outs and maintenance runs interleave, no    *)
(* request and no note is lost or undone.                                   *)
UpkeepServes == [][WaitsUntilServed /\ TidiesWhatItRead]_noteVars

(* _MODEL_SLOT is always given back, after time-outs and cancellations too. *)
SlotComesBack == []<>(slot = NoRun)
=============================================================================
