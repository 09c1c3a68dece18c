----------------------------- MODULE MCBackground -----------------------------
(* What the worker does in the background, for TLC: memory units, their     *)
(* vector files, picture jobs, and the revisions of a profile.  They share  *)
(* no state: a behaviour is one of the four, chosen by which.               *)
EXTENDS MemoryUnits, VectorFiles, VisualJobs, VisualRevisions

VARIABLE which

backgroundVars == <<memoryVars, vectorVars, visualVars, revisionVars, which>>

BackgroundInit ==
  /\ which \in {"memory", "vectors", "pictures", "revisions"}
  /\ MemoryInit /\ VectorInit /\ VisualInit /\ RevisionInit
  /\ apart => which = "revisions"
  /\ json.items # <<>> => which = "vectors"

BackgroundNext ==
  /\ UNCHANGED which
  /\ \/ which = "memory" /\ MemoryNext /\ UNCHANGED <<vectorVars, visualVars, revisionVars>>
     \/ which = "vectors" /\ VectorNext /\ UNCHANGED <<memoryVars, visualVars, revisionVars>>
     \/ which = "pictures" /\ VisualNext /\ UNCHANGED <<memoryVars, vectorVars, revisionVars>>
     \/ which = "revisions" /\ RevisionNext /\ UNCHANGED <<memoryVars, vectorVars, visualVars>>

BackgroundSpec == BackgroundInit /\ [][BackgroundNext]_backgroundVars

\* A unit keeps its text and sources, and its vector stays the vector of that text, whatever runs
\* between the reads and the writes of the two files and wherever a process dies - but for what
\* one process writes over the other's work (overtaken, crossed).
UnitSafety == MemorySafety /\ VectorSafety
=============================================================================
