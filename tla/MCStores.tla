------------------------------- MODULE MCStores -------------------------------
(* Four stores of one persona for TLC.  They share no state: a behaviour is *)
(* one of the workflow, the notebook, the claims or the heartbeat, chosen   *)
(* by which.                                                                *)
EXTENDS WorkflowState, Notebook, PersonClaims, Autonomy, TLC

CONSTANTS alice, bob, elf, ea, eb, ex

VARIABLE which

storeVars == <<flowVars, noteVars, claimsVars, autoVars, which>>

(* Three messages: the person's own, a third party's, an importer's. *)
Author == (ea :> alice) @@ (eb :> bob) @@ (ex :> elf)

StoresInit ==
  /\ which \in {"workflow", "notebook", "claims", "heartbeat"}
  /\ FlowInit /\ NotebookInit /\ ClaimsInit /\ AutoInit

StoresNext ==
  /\ UNCHANGED which
  /\ \/ which = "workflow" /\ FlowNext /\ UNCHANGED <<noteVars, claimsVars, autoVars>>
     \/ which = "notebook" /\ NotebookNext /\ UNCHANGED <<flowVars, claimsVars, autoVars>>
     \/ which = "claims" /\ ClaimsNext /\ UNCHANGED <<flowVars, noteVars, autoVars>>
     \/ which = "heartbeat" /\ AutoNext /\ UNCHANGED <<flowVars, noteVars, claimsVars>>

StoresSpec == StoresInit /\ [][StoresNext]_storeVars

(* Turns, and runs of the maintenance: any two may be exchanged. *)
StoresSymmetry ==
  Permutations(Turns) \cup Permutations(Upkeeps)
=============================================================================
