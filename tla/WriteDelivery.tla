---------------------------- MODULE WriteDelivery ----------------------------
(***************************************************************************)
(* One external write from end to end: EffectLedger in the agent service   *)
(* around the HTTP call of tools/adapters/ticket.py, which carries the     *)
(* idempotency key to ToolDelivery in the Java service.  The composition   *)
(* decides what execute() returns: an answer of the server, or a failure   *)
(* made up by the adapter when no answer came.  What can go wrong in a     *)
(* behaviour is fixed at its start, in `faults`.                           *)
(***************************************************************************)
EXTENDS Integers

CONSTANTS
    Callers, Replicas, Home, Capped, Lease, Deadline, Skew, NoCaller,
    Requests, Retention, ServerMax,
    NoRequest,  \* the caller has no request under way
    Scenarios   \* the sets of faults that behaviours are explored for

ASSUME WriteAssumption ==
    /\ Retention \in Nat /\ ServerMax \in Nat
    /\ NoRequest \notin Requests
    /\ Deadline + ServerMax <= Lease  \* a request does not outlive the lease it is sent under

\* What EffectLedger assumes of its constants.
ASSUME CallerAssumption ==
    /\ Home \in [Callers -> Replicas] /\ NoCaller \notin Callers
    /\ Skew \in [Replicas -> Int]
    /\ Capped \subseteq Callers
    /\ Lease \in Nat /\ Deadline \in Nat /\ Deadline < Lease

VARIABLES
    row, cache, lock, pc, elapsed, answer,   \* EffectLedger
    stage, reply, since, record, applied,    \* ToolDelivery
    sent,    \* sent[c]: the request caller c is waiting for
    faults   \* what may go wrong

Ledger == INSTANCE EffectLedger
Server == INSTANCE ToolDelivery

ledgerVars == <<row, cache, lock, pc, elapsed, answer>>
serverVars == <<stage, reply, since, record, applied>>
vars == <<ledgerVars, serverVars, sent, faults>>

Faults == {
    "interrupt",     \* calls are cancelled, statements on effect_ledger fail
    "crash",         \* agent processes die
    "failure",       \* the server refuses, or is not reached at all
    "blocked",       \* the output rail rejects an answer
    "lost_reply",    \* the connection breaks or times out after the request landed
    "slow",          \* the server takes longer than ServerMax
    "die",           \* the Java service dies
    "lookup_fails", "record_fails",  \* statements on agent_tool_idempotency fail
    "sweep"}         \* a replay comes later than the retention window

ASSUME ScenarioAssumption == Scenarios \subseteq SUBSET Faults

TypeOK ==
    /\ Ledger!TypeOK
    /\ Server!TypeOK
    /\ sent \in [Callers -> Requests \cup {NoRequest}]
    /\ faults \subseteq Faults

Init ==
    /\ Ledger!Init
    /\ Server!Init
    /\ sent = [c \in Callers |-> NoRequest]
    /\ faults \in Scenarios

-----------------------------------------------------------------------------
\* The steps of run_once outside execute().
LedgerStep(c) ==
    /\ \/ Ledger!Call(c)
       \/ Ledger!Acquire(c)
       \/ Ledger!Lookup(c)
       \/ Ledger!TakeOver(c)
       \/ Ledger!LoseTakeOver(c)
       \/ Ledger!Begin(c)
       \/ Ledger!Finish(c)
    /\ UNCHANGED <<serverVars, sent, faults>>

\* client.post: the request reaches the server.
Send(c) ==
    /\ pc[c] = "execute"
    /\ sent[c] = NoRequest
    /\ \E q \in Requests : Server!Deliver(q) /\ sent' = [sent EXCEPT ![c] = q]
    /\ UNCHANGED <<ledgerVars, faults>>

\* The connection is never established, on any attempt of call_with_retry, or
\* a rail refuses the arguments: execute() fails and nothing has been sent.
NotLanded(c) ==
    /\ "failure" \in faults
    /\ sent[c] = NoRequest
    /\ Ledger!Return(c, "failed")
    /\ UNCHANGED <<serverVars, sent, faults>>

AnsweredBroken(c) ==  \* the word of the server goes into the ledger as it is
    /\ sent[c] # NoRequest
    /\ stage[sent[c]] = "replied"
    /\ Ledger!Return(c, reply[sent[c]])
    /\ Server!Forget(sent[c])
    /\ sent' = [sent EXCEPT ![c] = NoRequest]
    /\ UNCHANGED faults

\* The answer arrives and becomes the result.
Answered(c) ==
    /\ sent[c] # NoRequest
    /\ stage[sent[c]] = "replied"
    /\ Ledger!Return(c, IF reply[sent[c]] = "success" THEN "succeeded" ELSE "failed")
    /\ Server!Forget(sent[c])
    /\ sent' = [sent EXCEPT ![c] = NoRequest]
    /\ UNCHANGED faults

\* The execution rail after the call withholds the answer of the server.
RailBlocks(c) ==
    /\ "blocked" \in faults
    /\ sent[c] # NoRequest
    /\ stage[sent[c]] = "replied"
    /\ Ledger!Return(c, "failed")
    /\ Server!Forget(sent[c])
    /\ sent' = [sent EXCEPT ![c] = NoRequest]
    /\ UNCHANGED faults

LostReplyBroken(c) ==  \* a write without an answer is reported as done
    /\ sent[c] # NoRequest
    /\ "lost_reply" \in faults \/ stage[sent[c]] = "lost"
    /\ Ledger!Return(c, "succeeded")
    /\ sent' = [sent EXCEPT ![c] = NoRequest]
    /\ UNCHANGED <<serverVars, faults>>

\* httpx raises after the request landed, a write is not sent again (T1), and
\* the adapter turns the error into a failed result.
LostReply(c) ==
    /\ sent[c] # NoRequest
    /\ "lost_reply" \in faults \/ stage[sent[c]] = "lost"
    /\ Ledger!Return(c, "failed")
    /\ sent' = [sent EXCEPT ![c] = NoRequest]
    /\ UNCHANGED <<serverVars, faults>>

\* Nobody waits for the request any more; it goes on without a sender.
Interrupt(c) ==
    /\ "interrupt" \in faults
    /\ Ledger!Interrupt(c) \/ Ledger!GiveUp(c)
    /\ sent' = [sent EXCEPT ![c] = NoRequest]
    /\ UNCHANGED <<serverVars, faults>>

Crash(r) ==
    /\ "crash" \in faults
    /\ Ledger!Crash(r)
    /\ sent' = [c \in Callers |-> IF Home[c] = r THEN NoRequest ELSE sent[c]]
    /\ UNCHANGED <<serverVars, faults>>

\* The steps of the server by itself.
ServerStep(q) ==
    /\ \/ Server!Replay(q)
       \/ Server!Miss(q)
       \/ "lookup_fails" \in faults /\ Server!LookupFails(q)
       \/ Server!Commit(q)
       \/ "failure" \in faults /\ Server!Refuse(q)
       \/ Server!Record(q)
       \/ "record_fails" \in faults /\ Server!RecordFails(q)
       \/ (\A c \in Callers : sent[c] # q) /\ Server!Forget(q)
    /\ UNCHANGED <<ledgerVars, sent, faults>>

ServerFault ==
    /\ \/ "die" \in faults /\ Server!Die
       \/ "sweep" \in faults /\ Server!Sweep
    /\ UNCHANGED <<ledgerVars, sent, faults>>

Tick ==
    /\ "slow" \in faults \/ Server!OnTime
    /\ Ledger!Tick
    /\ Server!Tick
    /\ UNCHANGED <<sent, faults>>

Next ==
    \/ \E c \in Callers :
          \/ LedgerStep(c)
          \/ Send(c)
          \/ NotLanded(c)
          \/ Answered(c)
          \/ RailBlocks(c)
          \/ LostReply(c)
          \/ Interrupt(c)
    \/ \E r \in Replicas : Crash(r)
    \/ \E q \in Requests : ServerStep(q)
    \/ ServerFault
    \/ Tick

Spec == Init /\ [][Next]_vars

-----------------------------------------------------------------------------
(* Properties *)

\* At most once, end to end.  A replay after a crash or a deadline is harmless,
\* because the lease outlives the request left behind and the server then finds
\* its own record of it; so is a retry after a failure the server or a rail
\* reported.
\* Both at once are not covered: see README, "What does not hold".
AppliedAtMostOnce ==
    (faults \subseteq {"interrupt", "crash"} \/ faults \subseteq {"failure", "blocked"}) => applied <= 1

\* "Never a fabricated success": whatever fails, nobody is told that the write
\* succeeded, and nothing on record says so, unless it was carried out.
SuccessIsReal ==
    \/ row.status = "succeeded"
    \/ \E r \in Replicas : cache[r].status = "succeeded"
    \/ \E c \in Callers : answer[c] \in {"succeeded", "deduplicated"}
    => applied > 0

\* "The previous attempt is known not to have produced the effect (the tool
\* reported failure)": what effect_ledger.py says of a failed row.
FailureIsKnown == row.status = "failed" => applied = 0
=============================================================================
