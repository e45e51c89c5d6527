---------------------------- MODULE ToolDelivery ----------------------------
(***************************************************************************)
(* The receiving end of an agent write: InternalToolController.invokeTool  *)
(* with ToolIdempotencyService and its table agent_tool_idempotency, for   *)
(* one deduplicated tool and one idempotency key.  Requests are handled on *)
(* a pool of threads, so the steps of two requests interleave: look for a  *)
(* recorded answer, carry the tool out in TicketService, record the        *)
(* answer.  A request is not undone when its sender stops waiting for it.  *)
(***************************************************************************)
EXTENDS Naturals

CONSTANTS
    Requests,   \* deliveries under way at one time
    Retention,  \* skychat.tools.idempotency-retention-hours
    ServerMax   \* longest time a request takes, when the server is not slow

VARIABLES
    stage,      \* stage[q]: how far request q has come
    reply,      \* reply[q]: the `success` of its answer
    since,      \* since[q]: time since q arrived
    record,     \* the agent_tool_idempotency row of the key
    applied     \* how many times the ticket service carried the write out

vars == <<stage, reply, since, record, applied>>

\* One more than the promise allows is enough to see it broken.
MaxApplied == 2

AtWork == {"arrived", "executing", "applied"}
Stages == AtWork \cup {"free", "replied", "lost"}

TypeOK ==
    /\ stage \in [Requests -> Stages]
    /\ reply \in [Requests -> {"none", "success", "failure"}]
    /\ since \in [Requests -> 0 .. ServerMax]
    /\ record \in [present : BOOLEAN, age : 0 .. Retention + 1]
    /\ applied \in 0 .. MaxApplied

NoRecord == [present |-> FALSE, age |-> 0]

Init ==
    /\ stage = [q \in Requests |-> "free"]
    /\ reply = [q \in Requests |-> "none"]
    /\ since = [q \in Requests |-> 0]
    /\ record = NoRecord
    /\ applied = 0

Answer(q, result) ==
    /\ stage' = [stage EXCEPT ![q] = "replied"]
    /\ reply' = [reply EXCEPT ![q] = result]

\* The request reaches the controller with a valid internal token.
Deliver(q) ==
    /\ stage[q] = "free"
    /\ stage' = [stage EXCEPT ![q] = "arrived"]
    /\ since' = [since EXCEPT ![q] = 0]
    /\ UNCHANGED <<reply, record, applied>>

\* replay(): the key is on record, the original answer is returned.
Replay(q) ==
    /\ stage[q] = "arrived"
    /\ record.present
    /\ Answer(q, "success")
    /\ UNCHANGED <<since, record, applied>>

\* replay() returns null: the key has not been seen.
Miss(q) ==
    /\ stage[q] = "arrived"
    /\ ~record.present
    /\ stage' = [stage EXCEPT ![q] = "executing"]
    /\ UNCHANGED <<reply, since, record, applied>>

\* replay() cannot read the table or the stored answer: "executing normally".
LookupFails(q) ==
    /\ stage[q] = "arrived"
    /\ stage' = [stage EXCEPT ![q] = "executing"]
    /\ UNCHANGED <<reply, since, record, applied>>

\* The ticket service commits the write.
Commit(q) ==
    /\ stage[q] = "executing"
    /\ stage' = [stage EXCEPT ![q] = "applied"]
    /\ applied' = IF applied < MaxApplied THEN applied + 1 ELSE applied
    /\ UNCHANGED <<reply, since, record>>

RefuseBroken(q) ==  \* a refusal is recorded like a success
    /\ stage[q] = "executing"
    /\ record' = [present |-> TRUE, age |-> 0]
    /\ Answer(q, "failure")
    /\ UNCHANGED <<since, applied>>

\* The ticket service refuses (AuthException) or fails: nothing is changed and
\* nothing is recorded.
Refuse(q) ==
    /\ stage[q] = "executing"
    /\ Answer(q, "failure")
    /\ UNCHANGED <<since, record, applied>>

RecordBroken(q) ==  \* the answer goes out without having been recorded
    /\ stage[q] = "applied"
    /\ Answer(q, "success")
    /\ UNCHANGED <<since, record, applied>>

\* record(): insertIfAbsent, then the answer goes out.
Record(q) ==
    /\ stage[q] = "applied"
    /\ record' = IF record.present THEN record ELSE [present |-> TRUE, age |-> 0]
    /\ Answer(q, "success")
    /\ UNCHANGED <<since, applied>>

\* record() cannot write the table: logged, the answer is a success all the same.
RecordFails(q) ==
    /\ stage[q] = "applied"
    /\ Answer(q, "success")
    /\ UNCHANGED <<since, record, applied>>

\* The Java service stops: the requests in it are gone, its tables are not.
Die ==
    /\ \E q \in Requests : stage[q] \in AtWork
    /\ stage' = [q \in Requests |-> IF stage[q] \in AtWork THEN "lost" ELSE stage[q]]
    /\ UNCHANGED <<reply, since, record, applied>>

\* sweepExpired(): the row is older than the retention window.
Sweep ==
    /\ record.present
    /\ record.age > Retention
    /\ record' = NoRecord
    /\ UNCHANGED <<stage, reply, since, applied>>

\* The sender has taken the answer, or is no longer there to take it.
Forget(q) ==
    /\ stage[q] \in {"replied", "lost"}
    /\ stage' = [stage EXCEPT ![q] = "free"]
    /\ reply' = [reply EXCEPT ![q] = "none"]
    /\ since' = [since EXCEPT ![q] = 0]
    /\ UNCHANGED <<record, applied>>

\* Time passes; ages stop where nothing tells them from larger ones.
Tick ==
    /\ since' = [q \in Requests |->
          IF stage[q] \in AtWork /\ since[q] < ServerMax THEN since[q] + 1 ELSE since[q]]
    /\ record' = IF record.present /\ record.age <= Retention
                 THEN [record EXCEPT !.age = @ + 1] ELSE record
    /\ UNCHANGED <<stage, reply, applied>>

\* Every request at work still has time left.
OnTime == \A q \in Requests : stage[q] \in AtWork => since[q] < ServerMax
=============================================================================
