--------------------------- MODULE MCGroupDispatcher ---------------------------
(* Instances of GroupDispatcher for TLC: two stable ids of one group        *)
(* (orphans) and platform messages only (talk, addressed).                  *)
EXTENDS GroupDispatcher, TLC

CONSTANTS w1, w2, g1, g2, human, peer, job, job2

NoMentions == <<>>

\* Both ids in one group.
OrphansGroupOf == [e \in {job, job2} |-> g1]

TalkGroupOf == [e \in {human, peer} |-> g1]
TalkMentions == (human :> {w2}) @@ (peer :> {})
TalkNames == [e \in {human, peer} |-> {}]

AloneGroupOf == human :> g1
AloneMentions == human :> {w2}
AloneNames == human :> {}
=============================================================================
