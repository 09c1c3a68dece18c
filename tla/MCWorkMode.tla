------------------------------ MODULE MCWorkMode ------------------------------
(* Instances of WorkMode for TLC. *)
EXTENDS WorkMode, TLC

(* Messages that agree on whether they name the persona are interchangeable. *)
MsgSymmetry == Permutations(Addressed) \cup Permutations(Msgs \ Addressed)
=============================================================================
