---------------------------- MODULE VisualRevisions ----------------------------
(***************************************************************************)
(* The revisions of one visual profile (visual/service.py, store.py,       *)
(* retention.py): a staged picture is a draft, a derived one a candidate,  *)
(* and the profile points at the revision that is formal.  A handler does  *)
(* not await, but it commits several times, and the process may die after  *)
(* any commit.  The web interface calls the handlers in the worker's       *)
(* process; when it finds no engine there it opens the same database by    *)
(* itself (apart), and the two handle requests at the same time.  That a   *)
(* request repeated with the same evidence does nothing is left out: fresh *)
(* evidence is always to be had.                                           *)
(***************************************************************************)
EXTENDS Naturals, FiniteSets

CONSTANTS MaxHead,    \* bound: revisions
          DeriveJobs, \* the turnaround jobs that can be made
          MaxFalls    \* bound: process deaths

ASSUME RevisionAssumption == /\ MaxHead \in Nat \ {0} /\ MaxFalls \in Nat
                             /\ IsFiniteSet(DeriveJobs)

VARIABLES
  apart,
  formal,     \* active_revision; 0 is NULL
  head,       \* head_revision
  rev,        \* vs_revision: status and parent_revision
  deletedRow, \* deleted_subject
  derived,    \* vs_job of the derivations
  desk,       \* the handler a process is in
  falls,
  \* Histories.  In one process: revisions that stopped being retired while nothing pointed at
  \* them, and revisions that were made or became formal after the deletion.  In two: whether a
  \* retirement has cleared what was formal again.
  revived, late, lost

revisionVars == <<apart, formal, head, rev, deletedRow, derived, desk, falls, revived, late, lost>>

Revisions == 1 .. MaxHead
Sides == IF apart THEN {"worker", "web"} ELSE {"worker"}
AtDesk == [at |-> "free"]
NoRevision == [status |-> "none", parent |-> 0]
NoDerivation == [state |-> "none", source |-> 0, redo |-> FALSE]
Status(r) == rev[r].status
Missing == MaxHead + 1

RevisionInit ==
  /\ apart \in BOOLEAN
  /\ formal = 0 /\ head = 0 /\ rev = [r \in Revisions |-> NoRevision] /\ deletedRow = FALSE
  /\ derived = [j \in DeriveJobs |-> NoDerivation]
  /\ desk = [s \in {"worker", "web"} |-> AtDesk] /\ falls = 0
  /\ revived = {} /\ late = {} /\ lost = FALSE

At(s, what) == s \in Sides /\ desk[s].at = what
Leave(s) == desk' = [desk EXCEPT ![s] = AtDesk]
Rows == <<formal, head, rev, deletedRow, derived>>

(***************************************************************************)
(* Staging a picture (_action_stage).                                      *)
(***************************************************************************)
BeginStage(s) ==
  /\ At(s, "free") /\ ~deletedRow
  /\ desk' = [desk EXCEPT ![s] = [at |-> "staging", seen |-> formal]]
  /\ UNCHANGED <<Rows, falls, lost>>

\* One transaction.  A caller who may maintain the profile can have asked for the draft to be made
\* formal at once.
StageDraft(s) ==
  /\ At(s, "staging") /\ head < MaxHead
  /\ head' = head + 1
  /\ rev' = [rev EXCEPT ![head + 1].status = "draft"]
  /\ \/ desk' = [desk EXCEPT ![s] = [at |-> "staged", new |-> head + 1, seen |-> desk[s].seen]]
     \/ Leave(s)
  /\ UNCHANGED <<formal, deletedRow, derived, falls, lost>>

(***************************************************************************)
(* Making a revision formal (_action_activate, _activate_revision).        *)
(***************************************************************************)
\* The refusals, and the answer that it is formal already.  expected is what the request says it
\* replaces.
MayActivate(r, expected) ==
  /\ Status(r) \notin {"none", "retired"}
  /\ expected = Missing \/ expected = formal
  /\ ~(formal = r /\ Status(r) = "active")
  /\ expected = Missing => formal = 0

Activate(s, r, expected) ==
  /\ At(s, "free") /\ ~deletedRow
  /\ MayActivate(r, expected)
  /\ desk' = [desk EXCEPT ![s] = [at |-> "activating", new |-> r, seen |-> formal]]
  /\ UNCHANGED <<Rows, falls, lost>>

\* It expects what it saw before it stored the picture.
ActivateStaged(s) ==
  /\ At(s, "staged")
  /\ LET d == desk[s]
     IN desk' = [desk EXCEPT ![s] = IF MayActivate(d.new, d.seen)
                                      THEN [at |-> "activating", new |-> d.new, seen |-> formal]
                                      ELSE AtDesk]
  /\ UNCHANGED <<Rows, falls, lost>>

\* set_revision_status, for the revision that was formal and for the new one
Replaced(new, seen) ==
  [r \in Revisions |-> IF r = new THEN [rev[r] EXCEPT !.status = "active"]
                       ELSE IF r = seen THEN [rev[r] EXCEPT !.status = "superseded"] ELSE rev[r]]

WrongPointerHolds(seen) == TRUE
\* cas_active_revision
PointerHolds(seen) == formal = seen

\* One transaction, rolled back when the pointer has moved.
WriteActivation(s) ==
  /\ At(s, "activating")
  /\ LET d == desk[s]
     IN IF PointerHolds(d.seen)
          THEN formal' = d.new /\ rev' = Replaced(d.new, d.seen)
          ELSE UNCHANGED <<formal, rev>>
  /\ Leave(s)
  /\ UNCHANGED <<head, deletedRow, derived, falls, lost>>

(***************************************************************************)
(* Retiring a revision (_action_retire): three commits or reads.           *)
(***************************************************************************)
Retire(s, r) ==
  /\ At(s, "free") /\ Status(r) # "none"
  /\ rev' = [rev EXCEPT ![r].status = "retired"]
  /\ desk' = [desk EXCEPT ![s] = [at |-> "retiring", revision |-> r]]
  /\ UNCHANGED <<formal, head, deletedRow, derived, falls, lost>>

RetireLooks(s) ==
  /\ At(s, "retiring")
  /\ desk' = [desk EXCEPT ![s] = IF formal = desk[s].revision THEN [at |-> "clearing"] ELSE AtDesk]
  /\ UNCHANGED <<Rows, falls, lost>>

\* set_profile_active, with no comparison
RetireClears(s) ==
  /\ At(s, "clearing")
  /\ formal' = 0
  /\ lost' = (lost \/ (formal # 0 /\ Status(formal) = "active"))
  /\ Leave(s)
  /\ UNCHANGED <<head, rev, deletedRow, derived, falls>>

(***************************************************************************)
(* Deriving a candidate (_action_derive, auto_candidates,                  *)
(* complete_generation).  What a job costs and how it is withdrawn is in   *)
(* VisualJobs.                                                             *)
(***************************************************************************)
Same(r) == {j \in DeriveJobs : derived[j].state # "none" /\ derived[j].source = r /\ ~derived[j].redo}

\* _select_source_revision and what follows it: the source is or was formal, and unless the caller
\* says redo nobody has asked for the same derivation.
BeginDerive(s, r, redo) ==
  /\ At(s, "free") /\ ~deletedRow /\ Status(r) \in {"active", "superseded"}
  /\ redo \/ Same(r) = {}
  /\ desk' = [desk EXCEPT ![s] = [at |-> "deriving", source |-> r, redo |-> redo]]
  /\ UNCHANGED <<Rows, falls, lost>>

\* auto_candidates, in the background: the formal revision, if no candidate of it is there
AutoDerive ==
  /\ formal # 0
  /\ ~\E q \in Revisions : rev[q].parent = formal /\ Status(q) \in {"candidate", "active"}
  /\ BeginDerive("worker", formal, FALSE)

\* begin_binding: the key of the job is unique.  Without a queue, as from the web interface, or
\* with a full one the job is cancelled at once.
BindDerivation(s) ==
  /\ At(s, "deriving")
  /\ LET d == desk[s]
     IN IF ~d.redo /\ Same(d.source) # {}
          THEN UNCHANGED derived
          ELSE \E j \in DeriveJobs : \E state \in {"under way", "over"} :
                 /\ derived[j].state = "none" /\ (s = "web" => state = "over")
                 /\ derived' = [derived EXCEPT ![j] = [state |-> state, source |-> d.source,
                                                       redo |-> d.redo]]
  /\ Leave(s)
  /\ UNCHANGED <<formal, head, rev, deletedRow, falls, lost>>

\* revocation_reason: neither the person nor the source has been taken back.
Kept(j) == ~deletedRow /\ Status(derived[j].source) # "retired"

\* bump_revision, insert_revision and mark_result commit one by one.
PictureArrives(j) ==
  /\ At("worker", "free") /\ derived[j].state = "under way"
  /\ IF Kept(j)
       THEN /\ head < MaxHead
            /\ head' = head + 1
            /\ desk' = [desk EXCEPT !["worker"] = [at |-> "bumped", job |-> j, number |-> head + 1]]
            /\ UNCHANGED derived
       ELSE /\ derived' = [derived EXCEPT ![j].state = "over"]
            /\ UNCHANGED <<head, desk>>
  /\ UNCHANGED <<formal, rev, deletedRow, falls, lost>>

InsertCandidate ==
  /\ At("worker", "bumped")
  /\ LET d == desk["worker"]
     IN /\ rev' = [rev EXCEPT ![d.number] = [status |-> "candidate",
                                             parent |-> derived[d.job].source]]
        /\ desk' = [desk EXCEPT !["worker"] = [at |-> "inserted", job |-> d.job]]
  /\ UNCHANGED <<formal, head, deletedRow, derived, falls, lost>>

MarkDerived ==
  /\ At("worker", "inserted")
  /\ derived' = [derived EXCEPT ![desk["worker"].job].state = "done"]
  /\ Leave("worker")
  /\ UNCHANGED <<formal, head, rev, deletedRow, falls, lost>>

\* The job fails, is cancelled, or is given up after a restart.
DerivationFails(j) ==
  /\ At("worker", "free") /\ derived[j].state = "under way"
  /\ derived' = [derived EXCEPT ![j].state = "over"]
  /\ UNCHANGED <<formal, head, rev, deletedRow, desk, falls, lost>>

(***************************************************************************)
(* Deleting what there is of the person (execute_deletion).                *)
(***************************************************************************)
Existing == {r \in Revisions : Status(r) # "none"}

\* The confirmation is used up in the same transaction; another may be asked for.
BeginDeletion(s) ==
  /\ At(s, "free")
  /\ deletedRow' = TRUE
  /\ desk' = [desk EXCEPT ![s] = [at |-> "deleting"]]
  /\ UNCHANGED <<formal, head, rev, derived, falls, lost>>

DeletionClears(s) ==
  /\ At(s, "deleting")
  /\ formal' = 0
  /\ desk' = [desk EXCEPT ![s] = [at |-> "wiping", rest |-> Existing]]
  /\ UNCHANGED <<head, rev, deletedRow, derived, falls, lost>>

DeletionRetires(s) ==
  /\ At(s, "wiping")
  /\ \E r \in desk[s].rest :
       /\ rev' = [rev EXCEPT ![r].status = "retired"]
       /\ desk' = [desk EXCEPT ![s].rest = @ \ {r}]
  /\ UNCHANGED <<formal, head, deletedRow, derived, falls, lost>>

\* _scrub_metadata, one transaction; retires and unpoints what it finds
Scrub(s) ==
  /\ At(s, "wiping") /\ desk[s].rest = {}
  /\ rev' = [r \in Revisions |-> IF r \in Existing THEN [rev[r] EXCEPT !.status = "retired"]
                                 ELSE rev[r]]
  /\ formal' = IF formal \in Existing THEN 0 ELSE formal
  /\ Leave(s)
  /\ UNCHANGED <<head, deletedRow, derived, falls, lost>>

(***************************************************************************)
(* A process dies; the worker gives up the jobs that were under way.       *)
(***************************************************************************)
Falls(s) ==
  /\ s \in Sides /\ falls < MaxFalls
  /\ falls' = falls + 1
  /\ Leave(s)
  /\ derived' = IF s = "web" THEN derived
                ELSE [j \in DeriveJobs |->
                        IF derived[j].state = "under way" THEN [derived[j] EXCEPT !.state = "over"]
                        ELSE derived[j]]
  /\ UNCHANGED <<formal, head, rev, deletedRow, lost>>

RevisionStep ==
  \/ \E s \in {"worker", "web"} :
       \/ BeginStage(s) \/ StageDraft(s)
       \/ \E r \in Revisions : \E expected \in 0 .. Missing : Activate(s, r, expected)
       \/ ActivateStaged(s) \/ WriteActivation(s)
       \/ \E r \in Revisions : Retire(s, r)
       \/ RetireLooks(s) \/ RetireClears(s)
       \/ \E r \in Revisions : \E redo \in BOOLEAN : BeginDerive(s, r, redo)
       \/ BindDerivation(s)
       \/ BeginDeletion(s) \/ DeletionClears(s) \/ DeletionRetires(s) \/ Scrub(s)
       \/ Falls(s)
  \/ \E j \in DeriveJobs : PictureArrives(j) \/ DerivationFails(j)
  \/ AutoDerive \/ InsertCandidate \/ MarkDerived

RevisionNext ==
  /\ RevisionStep
  /\ UNCHANGED apart
  /\ revived' = revived \cup {r \in Revisions : /\ ~apart /\ Status(r) = "retired" /\ formal # r
                                                /\ rev'[r].status # "retired"}
  /\ late' = late \cup {r \in Revisions : /\ ~apart /\ deletedRow
                                          /\ \/ Status(r) = "none" /\ rev'[r].status # "none"
                                             \/ formal # r /\ formal' = r}

RevisionSpec == RevisionInit /\ [][RevisionNext]_revisionVars

(***************************************************************************)
(* Properties.                                                             *)
(***************************************************************************)
\* Types of the variables.
RevisionTyped ==
  /\ formal \in 0 .. MaxHead /\ head \in 0 .. MaxHead /\ deletedRow \in BOOLEAN
  /\ \A r \in Revisions : Status(r) \in {"none", "draft", "candidate", "active", "superseded",
                                         "retired"}
  /\ \A j \in DeriveJobs : derived[j].state \in {"none", "under way", "done", "over"}

\* The profile points at a revision that was confirmed, never at a draft, a candidate or one that
\* another has replaced; it points at a retired one only while the retirement or the deletion is
\* under way, or after a process has died.
UnderWay(s) == desk[s].at \in {"clearing", "wiping"} \/ desk[s] = [at |-> "retiring", revision |-> formal]
PointerIsFormal ==
  formal # 0 => \/ Status(formal) = "active"
                \/ Status(formal) = "retired" /\ (falls > 0 \/ \E s \in Sides : UnderWay(s))

\* At most one revision is formal, the one pointed at, through every interleaving of activations,
\* retirements and crashes, of two processes too, unless one process's retirement has cleared what
\* the other had just made formal.
OneFormal == ~deletedRow /\ ~lost => \A r \in Revisions : Status(r) = "active" => formal = r

\* In one process a retired revision that nothing points at stays retired, and after a deletion,
\* cut short or not, no revision is made and none becomes formal, by late pictures or replays.
GoneForGood == revived = {} /\ late = {}

\* The pointer and the marks of a profile's revisions agree, and what is gone stays gone.
RevisionSafety == RevisionTyped /\ PointerIsFormal /\ OneFormal /\ GoneForGood
=============================================================================
