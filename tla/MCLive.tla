------------------------------- MODULE MCLive -------------------------------
(* What must come to an end in a worker, for TLC: the model slot of the     *)
(* notebook's maintenance, the shutdown of the process, the way of a        *)
(* message through the adapter, and the calls over its connection.  They    *)
(* share no state: a behaviour is one of them, chosen by which.             *)
EXTENDS Notebook, PersonaRuntime, InboundTurn, PlatformLink

VARIABLE which

liveVars == <<noteVars, runtimeVars, inboundVars, linkVars, which>>

LiveInit ==
  /\ which \in {"notebook", "runtime", "inbound", "link"}
  /\ NotebookInit /\ RuntimeInit /\ InboundInit /\ LinkInit

LiveNext ==
  /\ UNCHANGED which
  /\ \/ which = "notebook" /\ NotebookNext /\ UNCHANGED <<runtimeVars, inboundVars, linkVars>>
     \/ which = "runtime" /\ RuntimeNext /\ UNCHANGED <<noteVars, inboundVars, linkVars>>
     \/ which = "inbound" /\ InboundNext /\ UNCHANGED <<noteVars, runtimeVars, linkVars>>
     \/ which = "link" /\ LinkNext /\ UNCHANGED <<noteVars, runtimeVars, inboundVars>>

(* Each specification with its own fairness. *)
LiveSpec ==
  /\ LiveInit /\ [][LiveNext]_liveVars
  /\ \/ which = "notebook" /\ NotebookFair
     \/ which = "runtime" /\ RuntimeFair
     \/ which = "inbound" /\ InboundFair
     \/ which = "link" /\ LinkFair

(* Every message that came in is handled, given up or cut off; every call   *)
(* to the platform has ended; the connection is there or the adapter is     *)
(* stopped.                                                                 *)
Settled ==
  /\ \A m \in Msgs : ~Busy(m)
  /\ \A c \in Calls : call[c] \in {"idle"} \cup Ends
  /\ which = "link" => Online \/ ~running

(* What goes through the adapter comes to an end, whatever is lost or       *)
(* refused on the way: a message that waits for the chat, the verdict or    *)
(* its retry (adapter.py:2404-2430), a call whose answer is lost or that    *)
(* waits behind one (adapter.py:921-995), a lost connection                 *)
(* (adapter.py:734-787).  Messages, calls and faults are finite: that it is *)
(* settled again and again says that each of them ends.                     *)
NothingHangs == []<>Settled

=============================================================================
