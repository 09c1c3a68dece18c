------------------------------- MODULE VisualJobs -------------------------------
(***************************************************************************)
(* Paid picture jobs (visual/lifecycle.py, policies.py, retention.py,      *)
(* service.py; tools/builtin/image_generate.py).  A job is kept twice: its *)
(* binding in the persona's database, which knows how far the request went *)
(* towards the upstream model and what was reserved for it, and its entry  *)
(* in the queue file, which the worker polls and from which the agent is   *)
(* told.  Consent may be taken back, a picture retired, or the person      *)
(* deleted at any await of the worker; the process may die between any two *)
(* writes.  Everything runs on one event loop: hand is the code that runs  *)
(* without an await, outside what the worker awaits.                       *)
(***************************************************************************)
EXTENDS Naturals, FiniteSets

CONSTANTS Pictures,     \* job ids
          AutoPictures, \* the automatic candidates: they use up a grant, the rest do not
          MaxUses,      \* the grant's max_uses
          Quota,        \* deployment_total_quota
          Room,         \* max_pending_jobs
          MaxTries,     \* _CALLBACK_MAX_ATTEMPTS
          MaxOutages    \* bound: process deaths

ASSUME VisualAssumption == /\ AutoPictures \subseteq Pictures /\ MaxUses \in Nat /\ Quota \in Nat
                           /\ Room \in Nat /\ MaxTries \in Nat \ {0} /\ MaxOutages \in Nat
                           /\ IsFiniteSet(Pictures)

VARIABLES
  binding,    \* vs_job; back is what of its reservation its manifest says was given back
  entry,      \* the "jobs" of the queue file
  charged,    \* deployment_used
  usedCount,  \* vs_grant.used_count
  barred,     \* what was taken back: the grant, the source picture, the person
  hand, outside,
  fresh,      \* first_tick
  calls,      \* requests that went to the upstream model
  clean,      \* pictures that came while nothing was taken back
  acted,      \* agent turns about the job that ran a tool
  shownPic,   \* jobs whose picture was handed to the agent
  outages

visualVars == <<binding, entry, charged, usedCount, barred, hand, outside, fresh, calls, clean,
                acted, shownPic, outages>>

Terminal == {"done", "failed", "cancelled", "isolated", "outcome_uncertain"}
Pending == {"prepared", "enqueued", "dispatching", "submitted"}
Free == [at |-> "free"]
Idle == [on |-> "nothing"]
NoBinding == [state |-> "none", boundary |-> "not_submitted", isolated |-> FALSE, back |-> {},
              deleted |-> FALSE]
NoEntry == [status |-> "none", hidden |-> FALSE, callback |-> "pending", unsafe |-> FALSE,
            tries |-> 0, deleted |-> FALSE]
IsAuto(j) == j \in AutoPictures
Less(n) == IF n = 0 THEN 0 ELSE n - 1

VisualInit ==
  /\ binding = [j \in Pictures |-> NoBinding] /\ entry = [j \in Pictures |-> NoEntry]
  /\ charged = 0 /\ usedCount = 0 /\ barred = {} /\ hand = Free /\ outside = Idle /\ fresh = TRUE
  /\ calls = [j \in Pictures |-> 0] /\ acted = [j \in Pictures |-> 0]
  /\ clean = {} /\ shownPic = {} /\ outages = 0

Ghosts == <<calls, clean, acted, shownPic>>
Rest == <<barred, outside, fresh, Ghosts, outages>>

(***************************************************************************)
(* Bindings.                                                               *)
(***************************************************************************)
\* _subject_reason, _source_reason, _asset_chain_reason: what stands against the job.
Against(j) == barred \cap (IF IsAuto(j) THEN {"grant", "picture", "person"} ELSE {"picture", "person"})
\* revocation_reason # ""
Revoked(j) == binding[j].isolated \/ Against(j) # {}

\* Only what provably never reached the upstream model is given back.
Refundable(b) == b.boundary = "not_submitted"

\* release_job_budget, then release_job_grants with the same row: its manifest replaces the one
\* that the first of them wrote.
GivenBack(j, old) ==
  LET grants == IsAuto(j) /\ "grant" \notin old
      budget == "budget" \notin old
  IN [flags |-> IF grants THEN old \cup {"grant"} ELSE old \cup {"budget"},
      charged |-> IF budget THEN Less(charged) ELSE charged,
      usedCount |-> IF grants THEN Less(usedCount) ELSE usedCount]

\* cancel_binding
Cancelled(b) ==
  IF b.state \in Pending THEN [b EXCEPT !.state = "cancelled", !.isolated = TRUE] ELSE b
Cancel(j, refund) ==
  LET back == GivenBack(j, binding[j].back)
  IN IF refund /\ Refundable(binding[j])
       THEN /\ binding' = [binding EXCEPT ![j] = [Cancelled(@) EXCEPT !.back = back.flags]]
            /\ charged' = back.charged /\ usedCount' = back.usedCount
       ELSE /\ binding' = [binding EXCEPT ![j] = Cancelled(@)]
            /\ UNCHANGED <<charged, usedCount>>

\* mark_failure: nobody knows what became of a request once it was under way.
MarkedFailed(b) ==
  IF b.boundary \in {"submit_started", "submitted"}
    THEN [b EXCEPT !.state = "outcome_uncertain", !.isolated = TRUE]
    ELSE [b EXCEPT !.state = "failed"]

\* fail_generation
FailGeneration(j) ==
  LET back == GivenBack(j, binding[j].back)
  IN IF Refundable(binding[j])
       THEN /\ binding' = [binding EXCEPT ![j] = [MarkedFailed(@) EXCEPT !.back = back.flags]]
            /\ charged' = back.charged /\ usedCount' = back.usedCount
       ELSE /\ binding' = [binding EXCEPT ![j] = MarkedFailed(@)]
            /\ UNCHANGED <<charged, usedCount>>

(***************************************************************************)
(* Handing a job in (_submit_person_job, _action_derive).                  *)
(***************************************************************************)
Affordable(j) == charged < Quota /\ (IsAuto(j) => usedCount < MaxUses)

\* consume_deployment, or reserve_auto_budget and consume_grant
Reserve(j) ==
  /\ hand = Free /\ binding[j].state = "none" /\ Against(j) = {}
  /\ Affordable(j)
  /\ charged' = charged + 1
  /\ usedCount' = IF IsAuto(j) THEN usedCount + 1 ELSE usedCount
  /\ hand' = [at |-> "reserved", job |-> j]
  /\ UNCHANGED <<binding, entry, Rest>>

\* begin_binding; if it fails what was reserved is given back
Bind(j) ==
  /\ hand = [at |-> "reserved", job |-> j]
  /\ \/ /\ binding' = [binding EXCEPT ![j].state = "prepared"]
        /\ hand' = [at |-> "bound", job |-> j]
        /\ UNCHANGED <<charged, usedCount>>
     \/ /\ charged' = Less(charged)
        /\ usedCount' = IF IsAuto(j) THEN Less(usedCount) ELSE usedCount
        /\ hand' = Free
        /\ UNCHANGED binding
  /\ UNCHANGED <<entry, Rest>>

Waiting == {j \in Pictures : entry[j].status \in {"pending", "running"}}
\* enqueue_visual; a full queue or a failing write cancels the binding
Enqueue(j) ==
  /\ hand = [at |-> "bound", job |-> j]
  /\ \/ /\ Cardinality(Waiting) < Room
        /\ entry' = [entry EXCEPT ![j].status = "pending"]
        /\ hand' = [at |-> "queued", job |-> j]
        /\ UNCHANGED <<binding, charged, usedCount>>
     \/ /\ Cancel(j, TRUE)
        /\ hand' = Free
        /\ UNCHANGED entry
  /\ UNCHANGED Rest

\* mark_enqueued
MarkEnqueued(j) ==
  /\ hand = [at |-> "queued", job |-> j] /\ binding[j].state = "prepared"
  /\ binding' = [binding EXCEPT ![j].state = "enqueued"]
  /\ hand' = Free
  /\ UNCHANGED <<entry, charged, usedCount, Rest>>

(***************************************************************************)
(* The worker's tick (_process_once).                                      *)
(***************************************************************************)
\* recover_generation on a job that was not finished when the last process ended
Recovered(j) == IF binding[j].boundary \in {"submit_started", "submitted"}
                  THEN MarkedFailed(binding[j]) ELSE Cancelled(binding[j])

\* _recover_visual_jobs: running entries, and bindings that have no entry
Recover(j) ==
  /\ fresh /\ hand = Free /\ outside = Idle
  /\ binding[j].state \in Pending /\ entry[j].status \in {"running", "none"}
  /\ LET back == GivenBack(j, binding[j].back)
     IN IF Refundable(binding[j])
          THEN /\ binding' = [binding EXCEPT ![j] = [Recovered(j) EXCEPT !.back = back.flags]]
               /\ charged' = back.charged /\ usedCount' = back.usedCount
          ELSE /\ binding' = [binding EXCEPT ![j] = Recovered(j)]
               /\ UNCHANGED <<charged, usedCount>>
  /\ UNCHANGED <<entry, hand, Rest>>

\* _recover_interrupted_jobs: a turn that may have acted is not run again.
CallbackAgain(e) == IF e.unsafe THEN "uncertain" ELSE "pending"

\* _apply_visual_recovery
RecoveredEntry(j) ==
  LET e == entry[j]
      s == binding[j].state
  IN CASE e.status = "running" ->
            [e EXCEPT !.status = IF s = "cancelled" THEN "cancelled" ELSE "failed",
                      !.hidden = @ \/ s \in {"cancelled", "outcome_uncertain"},
                      !.callback = "pending", !.tries = 0]
       [] e.status # "running" /\ e.callback = "running" -> [e EXCEPT !.callback = CallbackAgain(e)]
       [] OTHER -> e

\* The whole list is saved when every binding has been dealt with; the first tick goes on.
SaveRecovered ==
  /\ fresh /\ hand = Free /\ outside = Idle
  /\ \A j \in Pictures : entry[j].status \in {"running", "none"} => binding[j].state \notin Pending
  /\ entry' = [j \in Pictures |-> RecoveredEntry(j)]
  /\ fresh' = FALSE
  /\ UNCHANGED <<binding, charged, usedCount, barred, hand, outside, Ghosts, outages>>

\* _generate_one: the entry is running before anything slow begins
Take(j) ==
  /\ ~fresh /\ hand = Free /\ outside = Idle
  /\ entry[j].status = "pending"
  /\ entry' = [entry EXCEPT ![j].status = "running"]
  /\ hand' = [at |-> "taken", job |-> j]
  /\ UNCHANGED <<binding, charged, usedCount, Rest>>

Verdict(j, status, hidden) == [at |-> "verdict", job |-> j, status |-> status, hidden |-> hidden]

\* preflight
Preflight(j) ==
  /\ hand = [at |-> "taken", job |-> j]
  /\ \/ /\ binding[j].state \in Terminal
        /\ hand' = Verdict(j, "cancelled", TRUE)
        /\ UNCHANGED <<binding, charged, usedCount>>
     \/ /\ binding[j].state \in Pending /\ Revoked(j)
        /\ Cancel(j, TRUE)
        /\ hand' = Verdict(j, "cancelled", TRUE)
     \/ /\ binding[j].state \in {"prepared", "enqueued", "dispatching"} /\ ~Revoked(j)
        /\ binding' = [binding EXCEPT ![j].state = "dispatching"]
        /\ hand' = [at |-> "checked", job |-> j]
        /\ UNCHANGED <<charged, usedCount>>
  /\ UNCHANGED <<entry, Rest>>

\* _read_reference_images finds a snapshot missing or changed: nothing was paid for
SnapshotLost(j) ==
  /\ hand = [at |-> "checked", job |-> j]
  /\ FailGeneration(j)
  /\ hand' = Verdict(j, "failed", FALSE)
  /\ UNCHANGED <<entry, Rest>>

\* acquire_permit
AcquirePermit(j) ==
  /\ hand = [at |-> "checked", job |-> j] /\ binding[j].state = "dispatching" /\ ~Revoked(j)
  /\ binding' = [binding EXCEPT ![j].boundary = "permit_acquired"]
  /\ hand' = [at |-> "permitted", job |-> j]
  /\ UNCHANGED <<entry, charged, usedCount, Rest>>

\* start_submit, and the request, with no await in between
StartSubmit(j) ==
  /\ hand = [at |-> "permitted", job |-> j] /\ binding[j].state = "dispatching" /\ ~Revoked(j)
  /\ binding' = [binding EXCEPT ![j].boundary = "submit_started", ![j].state = "submitted"]
  /\ hand' = Free /\ outside' = [on |-> "picture", job |-> j]
  /\ calls' = [calls EXCEPT ![j] = @ + 1]
  /\ UNCHANGED <<entry, charged, usedCount, barred, fresh, clean, acted, shownPic, outages>>

\* complete_generation, mark_result; the bytes of a deleted person are thrown away
Complete(j) ==
  /\ hand = Free /\ outside = [on |-> "picture", job |-> j]
  /\ LET isolated == Revoked(j)
     IN IF binding[j].deleted
          THEN /\ hand' = Verdict(j, "cancelled", TRUE)
               /\ UNCHANGED binding
          ELSE /\ binding' = [binding EXCEPT ![j].state = IF isolated THEN "isolated" ELSE "done",
                                             ![j].isolated = isolated, ![j].boundary = "submitted"]
               /\ hand' = Verdict(j, "done", isolated)
  /\ outside' = Idle
  /\ clean' = IF Against(j) = {} THEN clean \cup {j} ELSE clean
  /\ UNCHANGED <<entry, charged, usedCount, barred, fresh, calls, acted, shownPic, outages>>

\* a time-out, a refusal, a reply that cannot be used
RequestFails(j) ==
  /\ hand = Free /\ outside = [on |-> "picture", job |-> j]
  /\ FailGeneration(j)
  /\ hand' = Verdict(j, "failed", FALSE) /\ outside' = Idle
  /\ UNCHANGED <<entry, barred, fresh, Ghosts, outages>>

\* _update_job writes one entry, unless it was deleted
Written(e, new) == IF e.deleted THEN e ELSE new
WriteVerdict ==
  /\ hand.at = "verdict"
  /\ entry' = [entry EXCEPT ![hand.job] =
                 Written(@, [@ EXCEPT !.status = hand.status, !.hidden = hand.hidden])]
  /\ hand' = Free
  /\ UNCHANGED <<binding, charged, usedCount, Rest>>

(***************************************************************************)
(* Telling the agent (_notify_one, _deliver_notification).                 *)
(***************************************************************************)
Told(e) == e.deleted \/ e.callback \in {"completed", "failed", "uncertain", "skipped"}
HasPicture(e) == e.status = "done" /\ ~e.hidden

BeginCallback(j) ==
  /\ ~fresh /\ hand = Free /\ outside = Idle
  /\ entry[j].status \in {"done", "failed", "cancelled"}
  /\ ~Told(entry[j]) /\ entry[j].callback # "running"
  /\ IF entry[j].tries >= MaxTries
       THEN /\ entry' = [entry EXCEPT ![j].callback = "failed"]
            /\ UNCHANGED <<outside, shownPic>>
       ELSE /\ entry' = [entry EXCEPT ![j] = [@ EXCEPT !.callback = "running", !.unsafe = FALSE]]
            /\ outside' = [on |-> "turn", job |-> j, acted |-> FALSE]
            /\ shownPic' = IF HasPicture(entry[j]) THEN shownPic \cup {j} ELSE shownPic
  /\ UNCHANGED <<binding, charged, usedCount, barred, hand, fresh, calls, clean, acted, outages>>

InTurn(j) == hand = Free /\ outside.on = "turn" /\ outside.job = j

\* before_tool, and the tool
ToolInTurn(j) ==
  /\ InTurn(j) /\ ~entry[j].deleted /\ ~outside.acted
  /\ entry' = [entry EXCEPT ![j].unsafe = TRUE]
  /\ outside' = [outside EXCEPT !.acted = TRUE]
  /\ acted' = [acted EXCEPT ![j] = @ + 1]
  /\ UNCHANGED <<binding, charged, usedCount, barred, hand, fresh, calls, clean, shownPic, outages>>

WrongAfterFailure(e, didAct) == IF e.tries + 1 >= MaxTries THEN "failed" ELSE "pending"
AfterFailure(e, didAct) ==
  IF didAct THEN "uncertain" ELSE IF e.tries + 1 >= MaxTries THEN "failed" ELSE "pending"

\* The turn completes, is put off because the chat is busy, or fails.
EndCallback(j) ==
  /\ InTurn(j)
  /\ entry' = [entry EXCEPT ![j] = Written(@, [@ EXCEPT !.callback = "completed"])]
  /\ outside' = Idle
  /\ UNCHANGED <<binding, charged, usedCount, barred, hand, fresh, Ghosts, outages>>

DeferCallback(j) ==
  /\ InTurn(j) /\ ~outside.acted
  /\ entry' = [entry EXCEPT ![j] = Written(@, [@ EXCEPT !.callback = "pending"])]
  /\ outside' = Idle
  /\ UNCHANGED <<binding, charged, usedCount, barred, hand, fresh, Ghosts, outages>>

FailCallback(j) ==
  /\ InTurn(j)
  /\ LET e == entry[j]
     IN entry' = [entry EXCEPT ![j] =
                    Written(e, [e EXCEPT !.callback = AfterFailure(e, outside.acted),
                                         !.tries = @ + 1])]
  /\ outside' = Idle
  /\ UNCHANGED <<binding, charged, usedCount, barred, hand, fresh, Ghosts, outages>>

(***************************************************************************)
(* Taking back (_action_revoke_consent, _action_retire, execute_deletion). *)
(***************************************************************************)
\* Jobs the handler goes through after it has written what is taken back.
Affected(what) == IF what = "grant" THEN AutoPictures ELSE Pictures

TakeBack(what) ==
  /\ hand = Free /\ what \notin barred
  /\ barred' = barred \cup {what}
  /\ hand' = [at |-> "taking back", what |-> what,
              left |-> {j \in Affected(what) : binding[j].state \in IF what = "person"
                       THEN Pending \cup Terminal ELSE Pending}]
  /\ UNCHANGED <<binding, entry, charged, usedCount, outside, fresh, Ghosts, outages>>

WrongScrubbed(b) == [b EXCEPT !.state = "isolated", !.isolated = TRUE, !.deleted = TRUE]
\* _scrub_metadata, after what was submitted or done has been isolated
Scrubbed(b) ==
  [b EXCEPT !.state = IF @ \in {"submitted", "done"} THEN "isolated" ELSE @,
            !.isolated = TRUE, !.deleted = TRUE]

\* cancel_generation; a deletion leaves alone what was submitted
Cancellable(j) == binding[j].state \in IF hand.what = "person" THEN Pending \ {"submitted"} ELSE Pending

CancelTakenBack(j) ==
  /\ hand.at = "taking back" /\ j \in hand.left /\ Cancellable(j)
  /\ Cancel(j, TRUE)
  /\ hand' = IF hand.what = "person" THEN hand ELSE [hand EXCEPT !.left = @ \ {j}]
  /\ UNCHANGED <<entry, Rest>>

\* A finished job is left alone; a deletion isolates and scrubs every row.
PassTakenBack(j) ==
  /\ hand.at = "taking back" /\ j \in hand.left /\ ~Cancellable(j)
  /\ binding' = IF hand.what = "person" THEN [binding EXCEPT ![j] = Scrubbed(@)] ELSE binding
  /\ hand' = [hand EXCEPT !.left = @ \ {j}]
  /\ UNCHANGED <<entry, charged, usedCount, Rest>>

\* _scrub_queue; it may fail, and is not tried again
TookBack ==
  /\ hand.at = "taking back" /\ hand.left = {}
  /\ \/ /\ hand.what = "person"
        /\ entry' = [j \in Pictures |->
                       IF entry[j].status = "none" THEN entry[j]
                       ELSE [entry[j] EXCEPT !.status = "cancelled", !.hidden = TRUE,
                                             !.callback = "skipped", !.deleted = TRUE]]
     \/ UNCHANGED entry
  /\ hand' = Free
  /\ UNCHANGED <<binding, charged, usedCount, Rest>>

(***************************************************************************)
(* The process ends; a turn that is cancelled in time says how far it was. *)
(***************************************************************************)
Stop ==
  /\ outages < MaxOutages /\ outages' = outages + 1
  /\ hand' = Free /\ outside' = Idle /\ fresh' = TRUE
  /\ \/ UNCHANGED entry
     \/ /\ hand = Free /\ outside.on = "turn"
        /\ LET e == entry[outside.job]
           IN entry' = [entry EXCEPT ![outside.job] =
                          Written(e, [e EXCEPT !.callback = CallbackAgain(e)])]
  /\ UNCHANGED <<binding, charged, usedCount, barred, Ghosts>>

VisualNext ==
  \/ \E j \in Pictures :
       \/ Reserve(j) \/ Bind(j) \/ Enqueue(j) \/ MarkEnqueued(j)
       \/ Recover(j) \/ Take(j) \/ Preflight(j) \/ SnapshotLost(j) \/ AcquirePermit(j)
       \/ StartSubmit(j) \/ Complete(j) \/ RequestFails(j)
       \/ BeginCallback(j) \/ ToolInTurn(j) \/ EndCallback(j) \/ DeferCallback(j) \/ FailCallback(j)
       \/ CancelTakenBack(j) \/ PassTakenBack(j)
  \/ SaveRecovered \/ WriteVerdict \/ TookBack \/ Stop
  \/ \E what \in {"grant", "picture", "person"} : TakeBack(what)

VisualSpec == VisualInit /\ [][VisualNext]_visualVars

(***************************************************************************)
(* Properties.                                                             *)
(***************************************************************************)
\* Types of the variables.
VisualTyped ==
  /\ \A j \in Pictures :
       /\ binding[j].state \in Pending \cup Terminal \cup {"none"}
       /\ entry[j].status \in {"none", "pending", "running", "done", "failed", "cancelled"}
       /\ entry[j].tries \in 0 .. MaxTries
  /\ charged \in 0 .. Quota /\ usedCount \in 0 .. MaxUses

\* A request that went out stays charged, to the deployment and to its grant, whatever is
\* cancelled, failed, recovered or deleted afterwards; and it goes out once.
Sent == {j \in Pictures : calls[j] > 0}
PaidStaysCharged ==
  /\ \A j \in Pictures : calls[j] <= 1
  /\ Cardinality(Sent) <= charged
  /\ Cardinality(Sent \cap AutoPictures) <= usedCount

\* A picture that came after consent was taken back, its source retired or the person deleted is
\* never handed to the agent, in whatever order cancelling, answering and restarting happen.
WithdrawnStaysHidden == shownPic \subseteq clean

\* The agent's turn about a job runs its tools at most once, over failures and restarts.
ActsOnce == \A j \in Pictures : acted[j] <= 1

\* A job's money, picture and callback survive withdrawal, failures and restarts in any order.
JobSafety == VisualTyped /\ PaidStaysCharged /\ WithdrawnStaysHidden /\ ActsOnce

\* What happened to a request that was under way when it was lost is never decided later:
\* it becomes neither done nor failed nor cancelled, and no part of it is given back.
UncertainStaysSo ==
  [][\A j \in Pictures : binding[j].state = "outcome_uncertain" =>
       /\ binding'[j].state = "outcome_uncertain"
       /\ binding'[j].back = binding[j].back]_visualVars
=============================================================================
