-------------------------- MODULE MCApprovalResume --------------------------
(* Instances of ApprovalResume for TLC. *)
EXTENDS ApprovalResume, TLC

CONSTANTS j1, j2, h1, h2

\* The agent service alone with everything that can happen to it; both
\* services with everything.
MCScenarios == {{"die", "failure"}, Faults}
\* Both services, and nothing goes wrong.
MCNoFaults == {{"java"}}
\* Both services, and the graph may raise.
MCFailing == {{"java", "failure"}}

\* Handlers, and Java callers, differ in nothing but their name; used for
\* invariants and action properties only.
MCSymmetry == Permutations({j1, j2}) \cup Permutations({h1, h2})
=============================================================================
