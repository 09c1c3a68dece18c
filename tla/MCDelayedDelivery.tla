--------------------------- MODULE MCDelayedDelivery ---------------------------
(* Instances of DelayedDelivery for TLC. *)
EXTENDS DelayedDelivery, TLC

(* The items of a chat are interchangeable in safety runs. *)
ItemSymmetry == Permutations(Items)
=============================================================================
