------------------------------ MODULE MemoryUnits ------------------------------
(***************************************************************************)
(* From raw messages to memory units, for one group: the window of raw     *)
(* messages (memory/basic/manager.py), the checkpointer that has a model   *)
(* turn a batch of them into units (core/bg_tasks.py, memory/units), a     *)
(* tool that adds one, the dedupe worker that scans, applies and           *)
(* reconciles, all in the worker process and under one write lock, and a   *)
(* second process, the web interface, whose handlers edit the unit file    *)
(* with no lock and whose rebuild of the embeddings rewrites it from a     *)
(* thread of its own.  A message is a number in the order of arrival; a    *)
(* unit is its id, the messages it was made from, the ids merged into it   *)
(* and whether the text is the user's; CONFLICT and NEW differ in metadata *)
(* only and are one outcome.  The hard limit of the window (10000          *)
(* messages) is out of reach.                                              *)
(*                                                                         *)
(* Everybody writes the whole file from the copy he read.  Two history     *)
(* variables follow that: current, the parties whose copy is of the file   *)
(* as it is, and overtaken, what a write from an outdated copy put back or *)
(* left out.                                                               *)
(***************************************************************************)
EXTENDS Naturals, FiniteSets

CONSTANTS MaxMessages, MaxUnits, MaxUpsets,    \* bounds of the exploration
          MinBatch, MaxBatch,                   \* memory_unit_volume_threshold, the batch size
          ContextSize                           \* context_window

ASSUME MemoryAssumption == /\ MaxMessages \in Nat /\ MaxUnits \in Nat /\ MaxUpsets \in Nat
                           /\ MinBatch \in Nat \ {0} /\ MaxBatch \in Nat \ {0}
                           /\ ContextSize \in Nat

VARIABLES
  arrived,    \* messages seen so far
  window,     \* _windows[group]: raw messages in memory
  snapshot,   \* engine_state/basic_memory.json
  unitFile,   \* memory_units/<group>.json
  covered,    \* _checkpointed_sources[group], and whether the group is loaded
  backoff,    \* _generation_backoff: the batch not to ask about again
  keeper,     \* the checkpointer's task
  clerk,      \* the dedupe worker's task
  sync,       \* a read and write of the worker's event loop without an await in between
  job,        \* request.json, status.json and the report of the last scan
  todo,       \* reconcile.json: the units the user wrote
  web,        \* the handler of the web interface that is at work
  rebuild,    \* the web interface's thread that recomputes the embeddings
  issued,     \* the number of unit ids handed out
  traced,     \* units written to the file, by whom, and not deleted by the user
  dropped,    \* messages whose unit the user deleted, or that a crash took
  current,    \* the parties whose last copy is of the file as it is
  overtaken,  \* units and messages that a write from an outdated copy lost or put back
  upsets     \* requests the web interface was sent and restarts of the worker, so far

rawVars == <<arrived, window, snapshot, backoff>>
taskVars == <<keeper, clerk, sync>>
webVars == <<job, todo, web, rebuild>>
historyVars == <<issued, traced, dropped, upsets>>
fileVars == <<unitFile, current, overtaken>>
memoryVars == <<rawVars, covered, taskVars, webVars, historyVars, fileVars>>

Messages == 1 .. MaxMessages
UnitIds == 1 .. MaxUnits
Unit == [id : UnitIds, src : SUBSET Messages, was : SUBSET UnitIds, own : BOOLEAN]
AtRest == [at |-> "rest"]
NoReport == [seen |-> {}, final |-> {}]
NoJob == [request |-> "none", status |-> "idle", report |-> NoReport]
\* Who copies the file: a task of the worker that holds the write lock, the worker loading a
\* group (which needs no lock), a handler of the web interface, the rebuild.
Parties == {"task", "load", "web", "rebuild"}
SourcesOf(us) == UNION {u.src : u \in us}
IdsOf(us) == {u.id : u \in us}
Cache(us) == [loaded |-> TRUE, of |-> SourcesOf(us)]
NotLoaded == [loaded |-> FALSE, of |-> {}]

MemoryInit ==
  /\ arrived = 0 /\ window = {} /\ snapshot = {} /\ backoff = {}
  /\ covered = NotLoaded
  /\ keeper = AtRest /\ clerk = AtRest /\ sync = AtRest
  /\ job = NoJob /\ todo = {} /\ web = AtRest /\ rebuild = AtRest
  /\ issued = 0 /\ traced = {} /\ dropped = {} /\ upsets = 0
  /\ unitFile = {} /\ current = {} /\ overtaken = [units |-> {}, messages |-> {}]

Upset == upsets < MaxUpsets /\ upsets' = upsets + 1

(***************************************************************************)
(* The unit file.                                                          *)
(***************************************************************************)
\* Between the two writes of a PUT the unit is in the handler's hands only.
InHand == IF web.at \in {"half", "reopened"} THEN {web.unit} ELSE {}
Shown == unitFile \union InHand

\* The units us show unit t.id, in the user's words if he wrote it, or as merged into one.
Shows(us, t) == \E u \in us : (u.id = t.id /\ (t.own => u.own)) \/ t.id \in u.was
Unlike(a, b) == (a \ b) \union (b \ a)

\* A copy made between the two writes of a PUT misses the unit.
Reads(who) ==
  /\ current' = current \union {who}
  /\ overtaken' = [overtaken EXCEPT !.messages = @ \union SourcesOf(InHand)]
  /\ UNCHANGED unitFile

\* What a write that leaves the units us to be seen takes back, or puts back.
Undone(us) == [units |-> overtaken.units \union {t.id : t \in {x \in traced' : ~Shows(us, x)}},
               messages |-> overtaken.messages \union SourcesOf(InHand)
                            \union Unlike(SourcesOf(Shown), SourcesOf(us))]

\* A write from an outdated copy undoes what was written since.
Writes(who, new) ==
  /\ unitFile' = new
  /\ current' = IF new = unitFile THEN current ELSE {who}
  /\ overtaken' = IF who \in current THEN overtaken ELSE Undone(Shown')

(***************************************************************************)
(* What the tasks of the worker share.                                     *)
(***************************************************************************)
WrongLockFree == clerk.at \notin {"deciding", "applying"}
LockFree == keeper.at # "deciding" /\ clerk.at \notin {"deciding", "applying"}

\* ensure_group_loaded, at the first question about the group and without the lock: the file is
\* read ...
GroupLoads ==
  /\ ~covered.loaded
  /\ sync' = [at |-> "loading", units |-> unitFile]
  /\ Reads("load")
  /\ UNCHANGED <<rawVars, covered, keeper, clerk, webVars, historyVars>>

\* ... and written back as it was read, when a vector had to be computed, a unit to be retired,
\* or the layout is the old one.
GroupLoaded ==
  /\ sync.at = "loading"
  /\ covered' = Cache(sync.units)
  /\ sync' = AtRest
  /\ UNCHANGED <<rawVars, keeper, clerk, webVars, historyVars>>
  /\ \/ UNCHANGED fileVars
     \/ sync.units # {} /\ Writes("load", sync.units)

\* reload_from_disk, when the web interface reports a rebuild.
Reload ==
  /\ rebuild.at = "told"
  /\ rebuild' = AtRest
  /\ covered' = NotLoaded
  /\ UNCHANGED <<rawVars, taskVars, job, todo, web, historyVars, fileVars>>

\* add_units, for a tool that remembers something: under the lock, and with no await inside.
AddUnits ==
  /\ LockFree /\ covered.loaded /\ issued < MaxUnits
  /\ issued' = issued + 1
  /\ sync' = [at |-> "adding", id |-> issued',
              units |-> unitFile \union {[id |-> issued', src |-> {}, was |-> {}, own |-> FALSE]}]
  /\ Reads("task")
  /\ UNCHANGED <<rawVars, covered, keeper, clerk, webVars, traced, dropped, upsets>>

AddedUnits ==
  /\ sync.at = "adding"
  /\ covered' = Cache(sync.units)
  /\ sync' = AtRest
  /\ traced' = traced \union {[id |-> sync.id, own |-> FALSE]}
  /\ UNCHANGED <<rawVars, keeper, clerk, webVars, issued, dropped, upsets>>
  /\ Writes("task", sync.units)

\* merge_memory_units: the incoming unit stays and takes the target's provenance.
Merged(target, u) == [u EXCEPT !.src = @ \union target.src,
                               !.was = @ \union target.was \union {target.id}]
\* decide and apply_verdict, for every verdict the model may give.
Verdicts(working, u) ==
  {working \union {u}} \union {(working \ {t}) \union {Merged(t, u)} : t \in working}
Oldest(us) == {u \in us : \A v \in us : u.id <= v.id}
\* The loop over the incoming units awaits a verdict for each, the oldest first.
Judged(desk) ==
  UNION {{[desk EXCEPT !.kept = kept, !.left = @ \ {u}] : kept \in Verdicts(desk.kept, u)} :
           u \in Oldest(desk.left)}

(***************************************************************************)
(* The checkpointer.                                                       *)
(***************************************************************************)
Arrive ==
  /\ arrived < MaxMessages
  /\ arrived' = arrived + 1
  /\ window' = window \union {arrived + 1}
  /\ UNCHANGED <<snapshot, backoff, covered, taskVars, webVars, historyVars, fileVars>>

\* The newest messages are the context and stay out of a checkpoint of an active group.
Recent(ms) == {m \in ms : Cardinality({n \in ms : n > m}) < ContextSize}
\* is_source_checkpointed asks what the worker has in memory.
Candidates(ms, idle) == (IF idle THEN ms ELSE ms \ Recent(ms)) \ covered.of
First(ms) == {m \in ms : Cardinality({n \in ms : n < m}) < MaxBatch}

Enough(batch) == Cardinality(batch) >= MinBatch

\* One group of _checkpoint_memory_once up to the request: raw messages that a unit already
\* covers leave the window, then the oldest candidates, of an active group those up to an age,
\* go to the model - or the group is neither cold nor too long and nothing is asked.
StartCheckpoint(idle, upTo) ==
  LET raw == window \ covered.of
      batch == First({m \in Candidates(raw, idle) : m <= upTo}) IN
  /\ keeper.at = "rest" /\ window # {} /\ covered.loaded
  /\ window' = raw
  /\ \/ UNCHANGED keeper
     \/ /\ Enough(batch) /\ batch # backoff
        /\ idle => upTo = MaxMessages
        /\ keeper' = [at |-> "asking", batch |-> batch]
  /\ UNCHANGED <<arrived, snapshot, backoff, covered, clerk, sync, webVars, historyVars, fileVars>>

\* The model answers with one or two units, each made from some messages of the batch
\* (a unit without a source is thrown away), which then wait for the write lock.
KeeperHears ==
  /\ keeper.at = "asking"
  /\ \E k \in 1 .. 2 : \E made \in [1 .. k -> SUBSET keeper.batch \ {{}}] :
       /\ issued + k <= MaxUnits
       /\ issued' = issued + k
       /\ keeper' = [at |-> "waiting", batch |-> keeper.batch,
                     made |-> {[id |-> issued + i, src |-> made[i], was |-> {}, own |-> FALSE] :
                                i \in 1 .. k}]
  /\ UNCHANGED <<rawVars, covered, clerk, sync, webVars, traced, dropped, fileVars, upsets>>

\* No answer, or none with a usable source: the same batch is left alone for an hour.
KeeperHearsNothing ==
  /\ keeper.at = "asking"
  /\ backoff' = keeper.batch
  /\ keeper' = AtRest
  /\ UNCHANGED <<arrived, window, snapshot, covered, clerk, sync, webVars, historyVars, fileVars>>

BackoffEnds ==
  /\ backoff # {}
  /\ backoff' = {}
  /\ UNCHANGED <<arrived, window, snapshot, covered, taskVars, webVars, historyVars, fileVars>>

\* reconcile_units: with the lock taken, the file is read ...
KeeperLoads ==
  /\ keeper.at = "waiting" /\ LockFree /\ covered.loaded
  /\ keeper' = [at |-> "deciding", batch |-> keeper.batch, made |-> keeper.made,
                kept |-> unitFile, left |-> keeper.made]
  /\ Reads("task")
  /\ UNCHANGED <<rawVars, covered, clerk, sync, webVars, historyVars>>

\* What leaves the window: the sources of the accepted units that are in the batch.
Released(batch, units, made) ==
  batch \intersect SourcesOf({u \in units : u.id \in IdsOf(made)})

\* ... a verdict is awaited for every unit ...
KeeperDecides ==
  /\ keeper.at = "deciding"
  /\ keeper' \in Judged(keeper)
  /\ UNCHANGED <<rawVars, covered, clerk, sync, webVars, historyVars, fileVars>>

\* ... the file is written, the lock is released, and the messages the units cover leave the
\* window.
KeeperSaves ==
  /\ keeper.at = "deciding" /\ keeper.left = {}
  /\ covered' = Cache(keeper.kept)
  /\ window' = window \ Released(keeper.batch, keeper.kept, keeper.made)
  /\ traced' = traced \union {[id |-> i, own |-> FALSE] : i \in IdsOf(keeper.made)}
  /\ backoff' = {}
  /\ keeper' = AtRest
  /\ UNCHANGED <<arrived, snapshot, clerk, sync, webVars, issued, dropped, upsets>>
  /\ Writes("task", keeper.kept)

(***************************************************************************)
(* The dedupe worker.                                                      *)
(***************************************************************************)
\* A request is claimed before it is looked at; a scan reads the file without the lock.
ClerkScans ==
  /\ clerk.at = "rest" /\ job.request = "scan"
  /\ job' = [request |-> "none", status |-> "scanning", report |-> NoReport]
  /\ clerk' = [at |-> "scanning", seen |-> unitFile, kept |-> {}, left |-> unitFile]
  /\ UNCHANGED <<rawVars, covered, keeper, sync, todo, web, rebuild, historyVars, fileVars>>

\* A scan works on a copy and tells its progress, a reconciliation holds the lock; both await
\* one verdict after another.
ClerkDecides ==
  /\ clerk.at \in {"scanning", "deciding"}
  /\ clerk' \in Judged(clerk)
  /\ job' = IF clerk.at = "scanning" THEN [job EXCEPT !.status = "scanning"] ELSE job
  /\ UNCHANGED <<rawVars, covered, keeper, sync, todo, web, rebuild, historyVars, fileVars>>

ClerkReports ==
  /\ clerk.at = "scanning"
  /\ \/ /\ clerk.left = {}
        /\ job' = [job EXCEPT !.status = "ready",
                              !.report = [seen |-> clerk.seen, final |-> clerk.kept]]
     \/ job' = [job EXCEPT !.status = "failed"]
  /\ clerk' = AtRest
  /\ UNCHANGED <<rawVars, covered, keeper, sync, todo, web, rebuild, historyVars, fileVars>>

\* The fingerprint of the report is that of the file.
Fresh(report, us) == report.seen = us

\* An apply is announced first; from then on the web interface refuses edits ...
ClerkAnnounces ==
  /\ clerk.at = "rest" /\ job.request = "apply"
  /\ job' = [job EXCEPT !.request = "none", !.status = "applying"]
  /\ clerk' = [at |-> "announced"]
  /\ UNCHANGED <<rawVars, covered, keeper, sync, todo, web, rebuild, historyVars, fileVars>>

\* ... then it takes the lock, reads the file and compares; a stale report ends here.
ClerkChecksReport ==
  /\ clerk.at = "announced" /\ LockFree
  /\ IF Fresh(job.report, unitFile)
       THEN clerk' = [at |-> "applying"] /\ UNCHANGED job
       ELSE clerk' = AtRest /\ job' = [job EXCEPT !.status = "stale", !.report = NoReport]
  /\ Reads("task")
  /\ UNCHANGED <<rawVars, covered, keeper, sync, todo, web, rebuild, historyVars>>

\* Nothing is awaited between the comparison and the writing.  A failed write puts the old
\* units back.
ClerkApplies ==
  /\ clerk.at = "applying"
  /\ clerk' = AtRest
  /\ UNCHANGED <<rawVars, keeper, sync, todo, web, rebuild, historyVars>>
  /\ \E ending \in {"completed", "failed"} :
       LET units == IF ending = "completed" THEN job.report.final ELSE job.report.seen IN
       /\ job' = [job EXCEPT !.status = ending, !.report = NoReport]
       /\ covered' = Cache(units)
       /\ Writes("task", units)

\* reconcile_persisted_units: the units the user wrote are taken out and judged again.
ClerkLoads ==
  /\ clerk.at = "rest" /\ job.request = "none" /\ todo # {} /\ LockFree
  /\ clerk' = [at |-> "deciding", kept |-> {u \in unitFile : u.id \notin todo},
               left |-> {u \in unitFile : u.id \in todo}]
  /\ todo' = {}
  /\ Reads("task")
  /\ UNCHANGED <<rawVars, covered, keeper, sync, job, web, rebuild, historyVars>>

ClerkSaves ==
  /\ clerk.at = "deciding" /\ clerk.left = {}
  /\ covered' = Cache(clerk.kept)
  /\ clerk' = AtRest
  /\ UNCHANGED <<rawVars, keeper, sync, webVars, historyVars>>
  /\ Writes("task", clerk.kept)

(***************************************************************************)
(* The web interface: one handler at a time, each to its end once the body *)
(* of the request is there; only the rebuild runs beside them.             *)
(***************************************************************************)
\* The request first, then the status, whatever the worker made of the request meanwhile.
AskForScan ==
  /\ web.at = "rest" /\ Upset
  /\ job.status \notin {"queued", "scanning", "ready", "applying"}
  /\ job' = [job EXCEPT !.request = "scan"]
  /\ web' = [at |-> "queuing"]
  /\ UNCHANGED <<rawVars, covered, taskVars, todo, rebuild, issued, traced, dropped, fileVars>>

AskForApply ==
  /\ web.at = "rest" /\ Upset
  /\ job.status = "ready"
  /\ job' = [job EXCEPT !.request = "apply"]
  /\ web' = [at |-> "queuing"]
  /\ UNCHANGED <<rawVars, covered, taskVars, todo, rebuild, issued, traced, dropped, fileVars>>

WebQueues ==
  /\ web.at = "queuing"
  /\ job' = [job EXCEPT !.status = "queued"]
  /\ web' = AtRest
  /\ UNCHANGED <<rawVars, covered, taskVars, todo, rebuild, historyVars, fileVars>>

\* POST reads the units and adds one without a source; DELETE, unless an apply was announced,
\* takes one away.  POST and PUT ask that before they await the body, and may come later.
WebReads ==
  /\ web.at = "rest" /\ Upset
  /\ \/ /\ issued < MaxUnits
        /\ issued' = issued + 1
        /\ web' = [at |-> "open", id |-> issued', gone |-> {},
                   units |-> unitFile \union {[id |-> issued', src |-> {}, was |-> {},
                                               own |-> TRUE]}]
     \/ /\ job.status # "applying"
        /\ \E u \in unitFile : web' = [at |-> "open", id |-> u.id, units |-> unitFile \ {u},
                                       gone |-> {u}]
        /\ UNCHANGED issued
  /\ Reads("web")
  /\ UNCHANGED <<rawVars, covered, taskVars, job, todo, rebuild, traced, dropped>>

\* The list is written back, and a note to reconcile the unit is begun.
WebWrites ==
  /\ web.at = "open"
  /\ web' = [at |-> "noting", id |-> web.id, had |-> todo]
  /\ traced' = IF web.gone = {} THEN traced \union {[id |-> web.id, own |-> TRUE]}
                ELSE {t \in traced : \A u \in web.gone : t.id \notin {u.id} \union u.was}
  /\ dropped' = dropped \union SourcesOf(web.gone)
  /\ UNCHANGED <<rawVars, covered, taskVars, job, todo, rebuild, issued, upsets>>
  /\ Writes("web", web.units)

\* PUT, first: the units are read ...
PutReads ==
  /\ web.at = "rest" /\ Upset
  /\ \E u \in unitFile : web' = [at |-> "removing", units |-> unitFile \ {u},
                                 unit |-> [u EXCEPT !.own = TRUE]]
  /\ Reads("web")
  /\ UNCHANGED <<rawVars, covered, taskVars, job, todo, rebuild, issued, traced, dropped>>

\* ... and written without the one that changes ...
PutRemoves ==
  /\ web.at = "removing"
  /\ web' = [at |-> "half", unit |-> web.unit]
  /\ UNCHANGED <<rawVars, covered, taskVars, job, todo, rebuild, historyVars>>
  /\ Writes("web", web.units)

\* ... then the units, of the group the unit belongs to now, are read again ...
PutReadsAgain ==
  /\ web.at = "half"
  /\ web' = [at |-> "reopened", unit |-> web.unit,
             units |-> {u \in unitFile : u.id # web.unit.id} \union {web.unit}]
  /\ current' = IF web.unit.id \in IdsOf(unitFile) THEN current \ {"web"}
                  ELSE current \union {"web"}
  /\ UNCHANGED <<rawVars, covered, taskVars, job, todo, rebuild, historyVars, unitFile, overtaken>>

\* ... and written with it.
PutAdds ==
  /\ web.at = "reopened"
  /\ web' = [at |-> "noting", id |-> web.unit.id, had |-> todo]
  /\ traced' = traced \union {[id |-> web.unit.id, own |-> TRUE]}
  /\ UNCHANGED <<rawVars, covered, taskVars, job, todo, rebuild, issued, dropped, upsets>>
  /\ Writes("web", web.units)

\* _queue_memory_reconcile reads the note and writes it with the unit, although the worker may
\* have taken it in between.
WebNotes ==
  /\ web.at = "noting"
  /\ todo' \in {todo \union {web.id}, web.had \union {web.id}}
  /\ web' = AtRest
  /\ UNCHANGED <<rawVars, covered, taskVars, job, rebuild, historyVars, fileVars>>

\* The web process ends, with what it held.
WebDies ==
  /\ web.at # "rest" \/ rebuild.at = "embedding"
  /\ web' = AtRest
  /\ rebuild' = IF rebuild.at = "embedding" THEN AtRest ELSE rebuild
  /\ UNCHANGED <<rawVars, covered, taskVars, job, todo, historyVars, unitFile, current>>
  /\ overtaken' = IF InHand = {} THEN overtaken ELSE Undone(unitFile)

\* rebuild_memory_unit_embeddings: the units are read, their vectors asked for, and the same
\* units written, if any vector was missing.
RebuildReads ==
  /\ rebuild.at # "embedding" /\ unitFile # {} /\ Upset
  /\ rebuild' = [at |-> "embedding", units |-> unitFile]
  /\ Reads("rebuild")
  /\ UNCHANGED <<rawVars, covered, taskVars, job, todo, web, issued, traced, dropped>>

RebuildWrites ==
  /\ rebuild.at = "embedding"
  /\ rebuild' = [at |-> "told"]
  /\ UNCHANGED <<rawVars, covered, taskVars, job, todo, web, historyVars>>
  /\ UNCHANGED fileVars \/ Writes("rebuild", rebuild.units)

(***************************************************************************)
(* The end of the worker: a shutdown saves the window, a crash does not;   *)
(* tasks, caches and the claimed request are gone, the files stay.         *)
(***************************************************************************)
Restart ==
  /\ Upset
  /\ \/ snapshot' = window /\ window' = window /\ UNCHANGED dropped
     \/ /\ window' = snapshot
        /\ dropped' = dropped \union ((window \ snapshot) \ SourcesOf(unitFile))
        /\ UNCHANGED snapshot
  /\ covered' = NotLoaded /\ backoff' = {}
  /\ keeper' = AtRest /\ clerk' = AtRest /\ sync' = AtRest
  /\ UNCHANGED <<arrived, webVars, issued, traced, fileVars>>

\* The worker is one event loop: while it reads and writes without an await, no other task runs.
WorkerNext ==
  \/ Arrive \/ GroupLoads \/ Reload \/ AddUnits
  \/ (\E idle \in BOOLEAN, upTo \in Messages : StartCheckpoint(idle, upTo))
  \/ KeeperHears \/ KeeperHearsNothing \/ BackoffEnds \/ KeeperLoads
  \/ KeeperDecides \/ KeeperSaves
  \/ ClerkScans \/ ClerkDecides \/ ClerkReports \/ ClerkAnnounces \/ ClerkChecksReport
  \/ ClerkApplies \/ ClerkLoads \/ ClerkSaves

WebNext ==
  \/ AskForScan \/ AskForApply \/ WebQueues \/ WebReads \/ WebWrites
  \/ PutReads \/ PutRemoves \/ PutReadsAgain \/ PutAdds \/ WebNotes
  \/ RebuildReads \/ RebuildWrites \/ WebDies

MemoryNext ==
  \/ sync.at = "rest" /\ WorkerNext
  \/ GroupLoaded \/ AddedUnits \/ WebNext \/ Restart

MemorySpec == MemoryInit /\ [][MemoryNext]_memoryVars

(***************************************************************************)
(* What must hold.                                                         *)
(***************************************************************************)
\* Every record is one the code can build: a batch the size of one, units with known sources,
\* a status the web interface knows.
MemoryTyped ==
  /\ window \subseteq 1 .. arrived /\ snapshot \subseteq 1 .. arrived /\ unitFile \subseteq Unit
  /\ keeper.at \in {"rest", "asking", "waiting", "deciding"}
  /\ keeper.at # "rest" => Cardinality(keeper.batch) \in MinBatch .. MaxBatch
  /\ clerk.at \in {"rest", "scanning", "announced", "applying", "deciding"}
  /\ sync.at \in {"rest", "loading", "adding"} /\ rebuild.at \in {"rest", "embedding", "told"}
  /\ web.at \in {"rest", "queuing", "open", "removing", "half", "reopened", "noting"}
  /\ job.status \in {"idle", "queued", "scanning", "ready", "applying", "completed", "stale",
                     "failed"}
  /\ covered.of \subseteq 1 .. arrived /\ todo \subseteq 1 .. issued /\ current \subseteq Parties

\* A message leaves the window only for a unit that covers it: every message is still raw, or
\* among the sources of a unit on file, or went with a unit the user deleted, with a crash, or
\* with a write that overtook another. (bg_tasks removes entries after reconcile_units.)
TracedSources ==
  \A m \in 1 .. arrived :
    m \in window \union SourcesOf(Shown) \union dropped \union overtaken.messages

\* Within the worker no unit is lost to another writer, and the web interface loses none it has
\* read: every unit written to the file is there, in the user's words if the user wrote it, or
\* is among the merged_unit_ids of one that is, unless the user deleted it or a write of one
\* process came between a read and a write of the other. (_mutation_lock; add_units' comment on
\* silently lost units; the fingerprint of a report.)
TracedUnits == \A t \in traced : t.id \in overtaken.units \/ Shows(Shown, t)

\* A message is summarised once: what is being asked about has no unit on file, although a
\* crash brings back raw messages whose units were written. (is_source_checkpointed.)
SummarisedOnce ==
  keeper.at # "rest" => keeper.batch \intersect SourcesOf(unitFile) \subseteq overtaken.messages

\* Nothing said is lost or told twice by the tasks of the worker, and nothing by the user and
\* the rebuild beside them, but what one process wrote between a read and a write of the other.
MemorySafety == MemoryTyped /\ TracedSources /\ TracedUnits /\ SummarisedOnce
=============================================================================
