--------------------------- MODULE ApprovalResume ---------------------------
(***************************************************************************)
(* One approval, from the decision to its delivery to the paused run.      *)
(* The agent service (approval_store.py, approval_resume.py,               *)
(* resume_reconciler.py, graph/runner.py, api/routes) and the Java service *)
(* (ApprovalService, ApprovalController, ApprovalResumeReconciler,         *)
(* ApprovalResumeGuard, WorkflowResumeClient) write the SAME row of        *)
(* approval_task.                                                          *)
(*                                                                         *)
(* A handler is a task of the agent service that brings the decision to    *)
(* the graph: "resolve" handlers claim the row first, "http" handlers      *)
(* serve a request of Java to /v1/workflows/{turn}/resume and do not.  A   *)
(* Java caller is a request to the controller or the reconciler thread of  *)
(* the one Java process.                                                   *)
(***************************************************************************)
EXTENDS Naturals

CONSTANTS
    JavaCallers,
    Handlers,
    MaxAttempts,  \* resume_max_attempts; resume_attempts < 5 in ApprovalMapper
    NoCaller,     \* the in-process guard of Java is free
    NoHandler,    \* a Java caller that has no request under way
    Scenarios     \* the sets of faults that behaviours are explored for

ASSUME ApprovalAssumption ==
    /\ MaxAttempts \in Nat \ {0}
    /\ NoCaller \notin JavaCallers
    /\ NoHandler \notin Handlers

VARIABLES
    row,      \* the approval_task row
    thread,   \* the LangGraph thread of the run
    runs,     \* how many times the paused run was taken to its end
    handler,  \* handler[h]: a delivery in the agent service
    java,     \* java[j]: a caller in the Java service
    guard,    \* ApprovalResumeGuard: the caller that holds the approval
    faults    \* what may go wrong and what takes part in this behaviour

vars == <<row, thread, runs, handler, java, guard, faults>>

Faults == {
    "java",     \* the Java service takes part
    "die",      \* agent processes die, tasks in them are cancelled
    "failure",  \* the graph raises
    "store",    \* the outcome of an http delivery cannot be written
    "slow",     \* a graph run outlives resume_claim_timeout_seconds
    "timeout",  \* Java stops waiting after RESUME_TIMEOUT
    "stop"}     \* Java dies, or its client disconnects

ASSUME ScenarioAssumption == Scenarios \subseteq SUBSET Faults

Decisions == {"approved", "rejected"}
ResumeStates == {"queued", "running", "failed", "succeeded", "stale"}
Outcomes == {"none", "resumed", "stale", "failed"}
Stages == {"free", "claim", "unresumable", "precheck", "recheck", "running",
           "mark", "load", "save", "replied", "dead"}

Rows == [status : {"pending"} \cup Decisions, resume : ResumeStates,
         attempts : 0 .. MaxAttempts, refs : BOOLEAN]

TypeOK ==
    /\ row \in Rows
    /\ thread \in {"running", "paused", "advanced", "finished"}
    /\ runs \in 0 .. 2
    /\ handler \in [Handlers ->
          [stage : Stages, via : {"resolve", "http"}, value : {"none"} \cup Decisions,
           refs : BOOLEAN, outcome : Outcomes, read : Rows \cup {<<>>}]]
    /\ java \in [JavaCallers ->
          [pc : {"idle", "reread", "ready", "waiting", "marking"},
           value : {"none"} \cup Decisions, refs : BOOLEAN, sent : Handlers \cup {NoHandler},
           result : {"none", "succeeded", "stale", "failed"}]]
    /\ guard \in JavaCallers \cup {NoCaller}
    /\ faults \subseteq Faults

-----------------------------------------------------------------------------
FreeHandler == [stage |-> "free", via |-> "resolve", value |-> "none", refs |-> FALSE,
                outcome |-> "none", read |-> <<>>]
IdleCaller == [pc |-> "idle", value |-> "none", refs |-> FALSE, sent |-> NoHandler,
               result |-> "none"]

\* prepare_approval has created the row; the run has not come to its interrupt.
Init ==
    /\ row = [status |-> "pending", resume |-> "queued", attempts |-> 0, refs |-> FALSE]
    /\ thread = "running"
    /\ runs = 0
    /\ handler = [h \in Handlers |-> FreeHandler]
    /\ java = [j \in JavaCallers |-> IdleCaller]
    /\ guard = NoCaller
    /\ faults \in Scenarios

Decided == row.status \in Decisions
OneMore(attempts) == IF attempts < MaxAttempts THEN attempts + 1 ELSE attempts

\* The compare-and-set of decide_approval and of updateStatus.
DecidedBroken(value) ==  \* without AND status = 'pending'
    row' = [row EXCEPT !.status = value, !.resume = "queued", !.attempts = 0]
DecidedAs(value) ==
    /\ row.status = "pending"
    /\ row' = [row EXCEPT !.status = value, !.resume = "queued", !.attempts = 0]

\* The run reaches its interrupt and update_checkpoint_refs records where.
PersistRefs ==
    /\ thread = "running"
    /\ thread' = "paused"
    /\ row' = [row EXCEPT !.refs = TRUE]
    /\ UNCHANGED <<runs, handler, java, guard, faults>>

-----------------------------------------------------------------------------
(* The agent service: resolve_approval *)

\* resolve_approval is entered with a task that is not succeeded.
Enter(h) ==
    /\ handler[h].stage = "free"
    /\ handler' = [handler EXCEPT ![h].via = "resolve",
          ![h].stage = IF row.refs THEN "claim" ELSE "unresumable"]
    /\ UNCHANGED <<thread, runs, java, guard, faults>>

\* PATCH /v1/approvals/{id}/decision: the first decision, or a repeated click
\* after an attempt that did not finish.  Any other click changes nothing.
AgentDecide(h, value) ==
    /\ \/ DecidedAs(value)
       \/ /\ row.status = value
          /\ row.resume \in {"queued", "failed"}
          /\ UNCHANGED row
    /\ Enter(h)

\* A running claim is given up when it is older than the claim timeout, and
\* that is not before its owner is done unless a graph run is slow.
Owning(h) == handler[h].via = "resolve" /\ handler[h].stage \in {"recheck", "running", "mark"}
ClaimExpired ==
    /\ row.resume = "running"
    /\ "slow" \in faults \/ \A h \in Handlers : ~Owning(h)

ClaimableBroken ==  \* a running row is claimed like a queued one
    Decided /\ row.resume \in {"queued", "failed", "running"}
ClaimableForever ==  \* the claim of a process that died is never given up
    Decided /\ row.resume \in {"queued", "failed"}
Claimable ==
    Decided /\ (row.resume \in {"queued", "failed"} \/ ClaimExpired)

\* A tick of ResumeReconciler finds the row in list_resume_candidates.
AgentReconcile(h) ==
    /\ Claimable
    /\ row.attempts < MaxAttempts
    /\ row.refs
    /\ Enter(h)
    /\ UNCHANGED row

\* MISSING_CHECKPOINT_REFERENCE.
Unresumable(h) ==
    /\ handler[h].stage = "unresumable"
    /\ row' = IF row.resume = "succeeded" THEN row ELSE [row EXCEPT !.resume = "stale"]
    /\ handler' = [handler EXCEPT ![h] = FreeHandler]
    /\ UNCHANGED <<thread, runs, java, guard, faults>>

\* claim_resume; the decision is taken from the row it returns.
Claim(h) ==
    /\ handler[h].stage = "claim"
    /\ Claimable
    /\ row' = [row EXCEPT !.resume = "running", !.attempts = OneMore(@)]
    /\ handler' = [handler EXCEPT ![h].stage = "recheck", ![h].value = row.status,
                                  ![h].refs = row.refs]
    /\ UNCHANGED <<thread, runs, java, guard, faults>>

\* RESUME_IN_PROGRESS or already_resumed.
LoseClaim(h) ==
    /\ handler[h].stage = "claim"
    /\ ~Claimable
    /\ handler' = [handler EXCEPT ![h] = FreeHandler]
    /\ UNCHANGED <<row, thread, runs, java, guard, faults>>

-----------------------------------------------------------------------------
(* The agent service: resume_graph, and the handler of /resume around it *)

\* validate_resume_checkpoint.  Once the thread has moved past its interrupt
\* the pinned checkpoint is read, and either answer may come.
Valid(h) == handler[h].refs /\ thread \in {"paused", "advanced"}
Stale(h) == ~handler[h].refs \/ thread \in {"advanced", "finished"}

\* The precheck of the endpoint: an error is answered with 409 at once.
Precheck(h) ==
    /\ handler[h].stage = "precheck"
    /\ \/ Valid(h) /\ handler' = [handler EXCEPT ![h].stage = "recheck"]
       \/ Stale(h) /\ handler' = [handler EXCEPT ![h].stage = "replied", ![h].outcome = "stale"]
    /\ UNCHANGED <<row, thread, runs, java, guard, faults>>

\* The precheck of resume_graph.
Recheck(h) ==
    /\ handler[h].stage = "recheck"
    /\ \/ Valid(h) /\ handler' = [handler EXCEPT ![h].stage = "running"]
       \/ Stale(h) /\ handler' = [handler EXCEPT ![h].stage = "mark", ![h].outcome = "stale"]
    /\ UNCHANGED <<row, thread, runs, java, guard, faults>>

\* The graph, resumed at the pinned checkpoint, runs to its end: no path of
\* build_root_graph has a second interrupt.
RunEnds(h) ==
    /\ handler[h].stage = "running"
    /\ runs' = IF runs < 2 THEN runs + 1 ELSE runs
    /\ thread' = "finished"
    /\ handler' = [handler EXCEPT ![h].stage = "mark", ![h].outcome = "resumed"]
    /\ UNCHANGED <<row, java, guard, faults>>

\* RESUME_FAILED: a node raised, and some nodes may have run before it.
RunFails(h) ==
    /\ "failure" \in faults
    /\ handler[h].stage = "running"
    /\ thread' \in {thread, "advanced"}
    /\ handler' = [handler EXCEPT ![h].stage = "mark", ![h].outcome = "failed"]
    /\ UNCHANGED <<row, runs, java, guard, faults>>

Applied(h) == handler[h].outcome = "resumed"
ResumeStateBroken(h) == handler[h].outcome  \* the outcome itself is stored
ResumeState(h) == IF Applied(h) THEN "succeeded" ELSE handler[h].outcome

\* Where a delivery goes once its outcome is on record.
Recorded(h) ==
    handler' = [handler EXCEPT ![h] =
        CASE @.via = "http"                   -> [@ EXCEPT !.stage = "replied"]
          [] @.via = "resolve" /\ Applied(h)  -> [@ EXCEPT !.stage = "load"]
          [] @.via = "resolve" /\ ~Applied(h) -> FreeHandler]

\* mark_resume_result: "success is terminal".
Mark(h) ==
    /\ handler[h].stage = "mark"
    /\ row' = IF row.resume = "succeeded" THEN row ELSE [row EXCEPT !.resume = ResumeState(h)]
    /\ Recorded(h)
    /\ UNCHANGED <<thread, runs, java, guard, faults>>

\* _record_resume_outcome: "the graph already advanced; only the bookkeeping failed".
MarkFails(h) ==
    /\ "store" \in faults
    /\ handler[h].stage = "mark"
    /\ handler[h].via = "http"
    /\ Recorded(h)
    /\ UNCHANGED <<row, thread, runs, java, guard, faults>>

\* set_result reads the row ...
Load(h) ==
    /\ handler[h].stage = "load"
    /\ handler' = [handler EXCEPT ![h].stage = "save", ![h].read = row]
    /\ UNCHANGED <<row, thread, runs, java, guard, faults>>

\* ... and save_approval writes every column of it back.
Save(h) ==
    /\ handler[h].stage = "save"
    /\ row' = handler[h].read
    /\ handler' = [handler EXCEPT ![h] = FreeHandler]
    /\ UNCHANGED <<thread, runs, java, guard, faults>>

\* A request whose sender has gone ends by itself.
Unheard(h) ==
    /\ handler[h].stage \in {"replied", "dead"}
    /\ \A j \in JavaCallers : java[j].sent # h
    /\ handler' = [handler EXCEPT ![h] = FreeHandler]
    /\ UNCHANGED <<row, thread, runs, java, guard, faults>>

\* The process of a handler dies, or the task is cancelled or its store fails.
Die(h) ==
    /\ "die" \in faults
    /\ handler[h].stage \notin {"free", "replied", "dead"}
    /\ thread' \in IF handler[h].stage = "running" THEN {thread, "advanced"} ELSE {thread}
    /\ handler' = [handler EXCEPT ![h] =
          IF @.via = "http" THEN [FreeHandler EXCEPT !.stage = "dead"] ELSE FreeHandler]
    /\ UNCHANGED <<row, runs, java, guard, faults>>

-----------------------------------------------------------------------------
(* The Java service *)

Move(j, caller) == java' = [java EXCEPT ![j] = caller]

\* ApprovalService.decide: the row is claimed, or has been decided the same
\* way before.  Policy is checked first, on columns that do not change.
JavaDecide(j, value) ==
    /\ "java" \in faults
    /\ java[j].pc = "idle"
    /\ \/ DecidedAs(value)
       \/ row.status = value /\ UNCHANGED row
    /\ Move(j, [java[j] EXCEPT !.pc = "reread"])
    /\ UNCHANGED <<thread, runs, handler, guard, faults>>

JavaRereadBroken(j) ==  \* whatever was decided, an approval is delivered
    /\ java[j].pc = "reread"
    /\ Move(j, IF row.resume \in {"queued", "failed"}
               THEN [java[j] EXCEPT !.pc = "ready", !.value = "approved", !.refs = row.refs]
               ELSE IdleCaller)
    /\ UNCHANGED <<row, thread, runs, handler, guard, faults>>

\* claim() in ApprovalController: the decision is delivered when the row, read
\* once more, says that it can be.
JavaReread(j) ==
    /\ java[j].pc = "reread"
    /\ Move(j, IF row.resume \in {"queued", "failed"}
               THEN [java[j] EXCEPT !.pc = "ready", !.value = row.status, !.refs = row.refs]
               ELSE IdleCaller)
    /\ UNCHANGED <<row, thread, runs, handler, guard, faults>>

\* A tick of ApprovalResumeReconciler finds the row; it is not read again when
\* its turn in the batch comes.
JavaReconcile(j) ==
    /\ "java" \in faults
    /\ java[j].pc = "idle"
    /\ Decided
    /\ row.resume \in {"queued", "failed"}
    /\ row.attempts < MaxAttempts
    /\ row.refs
    /\ Move(j, [java[j] EXCEPT !.pc = "ready", !.value = row.status, !.refs = row.refs])
    /\ UNCHANGED <<row, thread, runs, handler, guard, faults>>

\* ApprovalResumeGuard.tryAcquire succeeds and the request is sent.
JavaSend(j) ==
    /\ java[j].pc = "ready"
    /\ guard = NoCaller
    /\ guard' = j
    /\ \E h \in Handlers :
          /\ handler[h].stage = "free"
          /\ handler' = [handler EXCEPT ![h] = [FreeHandler EXCEPT !.stage = "precheck",
                !.via = "http", !.value = java[j].value, !.refs = java[j].refs]]
          /\ Move(j, [java[j] EXCEPT !.pc = "waiting", !.sent = h])
    /\ UNCHANGED <<row, thread, runs, faults>>

\* RESUME_IN_PROGRESS.
JavaRefused(j) ==
    /\ java[j].pc = "ready"
    /\ guard # NoCaller
    /\ Move(j, IdleCaller)
    /\ UNCHANGED <<row, thread, runs, handler, guard, faults>>

ClassifiedBroken(outcome) ==  \* no answer passes for a success
    CASE outcome \in {"resumed", "none"} -> "succeeded"
      [] outcome \in {"stale", "failed"} -> "stale"

\* classifySuccess and classifyError: every 409 is stale, no answer is
\* transient.
Classified(outcome) ==
    CASE outcome = "resumed"             -> "succeeded"
      [] outcome \in {"stale", "failed"} -> "stale"
      [] outcome = "none"                -> "failed"

\* The answer arrives, or the connection to a process that died breaks.
JavaAnswer(j) ==
    /\ java[j].pc = "waiting"
    /\ LET h == java[j].sent
       IN /\ handler[h].stage \in {"replied", "dead"}
          /\ Move(j, [java[j] EXCEPT !.pc = "marking", !.sent = NoHandler,
                                     !.result = Classified(handler[h].outcome)])
          /\ handler' = [handler EXCEPT ![h] = FreeHandler]
    /\ UNCHANGED <<row, thread, runs, guard, faults>>

\* RESUME_TIMEOUT; the handler in the agent service goes on.
JavaTimeout(j) ==
    /\ "timeout" \in faults
    /\ java[j].pc = "waiting"
    /\ Move(j, [java[j] EXCEPT !.pc = "marking", !.sent = NoHandler, !.result = "failed"])
    /\ UNCHANGED <<row, thread, runs, handler, guard, faults>>

\* markResumeResult of ApprovalMapper has no guard; the approval is released.
JavaMark(j) ==
    /\ java[j].pc = "marking"
    /\ row' = [row EXCEPT !.resume = java[j].result, !.attempts = OneMore(@)]
    /\ guard' = NoCaller
    /\ Move(j, IdleCaller)
    /\ UNCHANGED <<thread, runs, handler, faults>>

\* Java dies, or the client disconnects: the guard is released, nothing is marked.
JavaStop(j) ==
    /\ "stop" \in faults
    /\ java[j].pc # "idle"
    /\ guard' = IF guard = j THEN NoCaller ELSE guard
    /\ Move(j, IdleCaller)
    /\ UNCHANGED <<row, thread, runs, handler, faults>>

-----------------------------------------------------------------------------
HandlerStep(h) ==
    \/ Unresumable(h)
    \/ Claim(h)
    \/ LoseClaim(h)
    \/ Precheck(h)
    \/ Recheck(h)
    \/ RunEnds(h)
    \/ RunFails(h)
    \/ Mark(h)
    \/ MarkFails(h)
    \/ Load(h)
    \/ Save(h)
    \/ Unheard(h)

JavaStep(j) ==
    \/ JavaReread(j)
    \/ JavaSend(j)
    \/ JavaRefused(j)
    \/ JavaAnswer(j)
    \/ JavaTimeout(j)
    \/ JavaMark(j)

Next ==
    \/ PersistRefs
    \/ \E h \in Handlers :
          \/ \E value \in Decisions : AgentDecide(h, value)
          \/ AgentReconcile(h)
          \/ HandlerStep(h)
          \/ Die(h)
    \/ \E j \in JavaCallers :
          \/ \E value \in Decisions : JavaDecide(j, value)
          \/ JavaReconcile(j)
          \/ JavaStep(j)
          \/ JavaStop(j)

Spec == Init /\ [][Next]_vars

\* Every task and thread goes on, the reconciler of the agent service ticks
\* every resume_reconciler_interval_seconds, and the run reaches its interrupt.
Fairness ==
    /\ WF_vars(PersistRefs)
    /\ WF_vars(\E h \in Handlers : AgentReconcile(h))
    /\ \A h \in Handlers : WF_vars(HandlerStep(h))
    /\ \A j \in JavaCallers : WF_vars(JavaStep(j))

FairSpec == Spec /\ Fairness

-----------------------------------------------------------------------------
(* Properties *)

\* "Exactly one caller can win this update": a decision stands, whatever the
\* other service, a second click or a full-row save does afterwards.
DecisionStands == [][Decided => row'.status = row.status]_vars

\* A run is taken on with the decision that is on record, through every
\* service that may have read it earlier.
RunFollowsDecision ==
    \A h \in Handlers : handler[h].stage = "running" => handler[h].value = row.status

\* Nothing says that a decision was delivered unless a run took it up: "a lost
\* checkpoint would silently start a brand new run and report success, which
\* is the failure mode this protocol exists to prevent".
SuccessIsApplied == row.resume = "succeeded" => runs > 0

\* "A duplicate HTTP call, a reconciler tick or a second replica cannot deliver
\* the same resume twice": true of the agent service by itself, as long as
\* runs do not outlive their claim.
ClaimExclusive ==
    faults \cap {"java", "slow"} = {} =>
        \A g, h \in Handlers : Owning(g) /\ Owning(h) => g = h

\* A decision is delivered in the end, or found undeliverable, or given up
\* after the attempts it is allowed, once processes stop dying.
Settled == row.resume \in {"succeeded", "stale"} \/ row.attempts = MaxAttempts
Fault ==
    \/ \E h \in Handlers : Die(h)
    \/ \E j \in JavaCallers : JavaStop(j)
Calm == <>[][~Fault]_vars
DecisionIsSettled == Calm => (Decided ~> Settled)

\* "409 CHECKPOINT_NOT_FOUND / STALE_APPROVAL / MISSING_CHECKPOINT_REFERENCE:
\* terminal, no retry": when Java takes an attempt that is on record as failed,
\* and to be repeated, for one of these and parks it, the run does not still
\* wait at the interrupt it would be resumed from.
RetryableStaysRetryable ==
    [][\A j \in JavaCallers :
          /\ java[j].pc = "marking" /\ java'[j].pc = "idle"
          /\ row.resume = "failed" /\ row'.resume = "stale"
          => thread # "paused"]_vars

\* "Success is terminal" (mark_resume_result).
SuccessIsTerminal == [][row.resume = "succeeded" => row'.resume = "succeeded"]_vars
=============================================================================
