--------------------------- MODULE MCWriteDelivery ---------------------------
(* Instances of WriteDelivery for TLC. *)
EXTENDS WriteDelivery, TLC

CONSTANTS c1, c2, r1, q1, q2

MCHome == c1 :> r1 @@ c2 :> r1
MCSkew == r1 :> 0

\* The agent fails; refusals; everything may fail.
MCScenarios == {{"interrupt", "crash"}, {"failure", "blocked"}, Faults}
\* Only answers get lost.
MCLostReplies == {{"lost_reply"}}

\* The callers live in one process and are capped alike; requests differ in
\* nothing but their name.  Every property checked is an invariant.
MCSymmetry == Permutations({c1, c2}) \cup Permutations({q1, q2})
=============================================================================
