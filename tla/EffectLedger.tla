---------------------------- MODULE EffectLedger ----------------------------
(***************************************************************************)
(* The agent service's guard around external writes                        *)
(* (agent-service/app/core/effect_ledger.py) over its table effect_ledger  *)
(* (persistence/postgres_repository.py), for ONE effect key: keys share    *)
(* no state.                                                               *)
(*                                                                         *)
(* A caller is one task that calls run_once for the key, again and again:  *)
(* every call after the first is a replay.  Several callers may live in    *)
(* one replica (one process: one cache, one asyncio.Lock for the key), and *)
(* several replicas share the row.  An action is the code between two      *)
(* awaits; the await of a database statement takes effect at the moment    *)
(* the action of that statement is taken.                                  *)
(*                                                                         *)
(* Time is kept as ages: how long ago a record was last touched, how long  *)
(* a call has been running.  An age stops at the first value that no       *)
(* comparison of the code tells from a larger one, so no bound on the      *)
(* length of a behaviour is needed.                                        *)
(***************************************************************************)
EXTENDS Integers

CONSTANTS
    Callers,    \* tasks that call run_once for the key
    Replicas,   \* agent-service processes
    Home,       \* Home[c]: the replica that caller c runs in
    Capped,     \* callers under asyncio.wait_for (run_tool_loop); the others
                \* (_execute_confirmed, execute_approved_action) have no cap
    Lease,      \* lease_seconds()
    Deadline,   \* tool_call_deadline_seconds
    Skew,       \* Skew[r]: clock of replica r minus the clock of the database
    NoCaller    \* the lock is free

\* Leases are enabled, and the derivation of lease_seconds() puts them above
\* the deadline of a capped call.
ASSUME LedgerAssumption ==
    /\ Home \in [Callers -> Replicas]
    /\ Skew \in [Replicas -> Int]
    /\ Capped \subseteq Callers
    /\ Lease \in Nat
    /\ Deadline \in Nat
    /\ Deadline < Lease
    /\ NoCaller \notin Callers

VARIABLES
    row,        \* the effect_ledger row of the key
    cache,      \* cache[r]: EffectLedger._records in replica r
    lock,       \* lock[r]: holder of EffectLedger._locks in replica r
    pc,         \* pc[c]: the await that caller c is suspended at
    elapsed,    \* elapsed[c]: time since c called run_once
    answer      \* answer[c]: how c's last call ended

vars == <<row, cache, lock, pc, elapsed, answer>>

Statuses == {"absent", "started", "succeeded", "failed"}
PCs == {"idle", "waiting", "lookup", "takeover", "begin", "execute", "finish"}
Answers == {"none", "deduplicated", "in_progress", "succeeded", "failed", "raised"}

\* A caller holds the lock of its replica at every await after the first.
Holding == PCs \ {"idle", "waiting"}

\* The effect is being carried out, or its verdict is being written.
Running == {"execute", "finish"}

TypeOK ==
    /\ row \in [status : Statuses, age : Nat]
    /\ cache \in [Replicas -> [status : Statuses, age : Int]]
    /\ lock \in [Replicas -> Callers \cup {NoCaller}]
    /\ pc \in [Callers -> PCs]
    /\ elapsed \in [Callers -> Nat]
    /\ answer \in [Callers -> Answers]

-----------------------------------------------------------------------------
Record(status) == [status |-> status, age |-> 0]
Absent == Record("absent")

Init ==
    /\ row = Absent
    /\ cache = [r \in Replicas |-> Absent]
    /\ lock = [r \in Replicas |-> NoCaller]
    /\ pc = [c \in Callers |-> "idle"]
    /\ elapsed = [c \in Callers |-> 0]
    /\ answer = [c \in Callers |-> "none"]

\* Definitions named ...Broken stand for a plausible bug in the definition that
\* follows them; the specification does not use them (see README, sensitivity).
VerdictBroken(rec) ==  \* a success is not short-circuited
    CASE rec.status = "absent"                     -> "new"
      [] rec.status \in {"succeeded", "failed"}    -> "retry_after_failure"
      [] rec.status = "started" /\ rec.age < Lease -> "in_progress"
      [] OTHER                                     -> "lease_expired"

\* EffectLedger._claim
Verdict(rec) ==
    CASE rec.status = "absent"                       -> "new"
      [] rec.status = "succeeded"                    -> "deduplicated"
      [] rec.status = "failed"                       -> "retry_after_failure"
      [] rec.status = "started" /\ rec.age < Lease   -> "in_progress"
      [] rec.status = "started" /\ ~(rec.age < Lease) -> "lease_expired"

\* begin_effect: an upsert that never touches the status of an existing row.
Begun(rec) == IF rec.status = "absent" THEN Record("started")
                                       ELSE [rec EXCEPT !.age = 0]

StaleBroken(rec) == rec.status = "started"  \* any started row is taken over
StaleNeverBroken(rec) == rec.status = "started" /\ rec.age < rec.age

\* The predicate of claim_stale_effect, on the clock of the database.
Stale(rec) == rec.status = "started" /\ rec.age > Lease

FinishedBroken(rec, status) == Record("done")  \* a status nobody reads

\* finish_effect: an UPDATE by key alone.
Finished(rec, status) == IF rec.status = "absent" THEN rec ELSE Record(status)

\* run_once leaves through `async with`: the lock is released on every path.
Leave(c, outcome) ==
    /\ pc' = [pc EXCEPT ![c] = "idle"]
    /\ lock' = [lock EXCEPT ![Home[c]] = NoCaller]
    /\ elapsed' = [elapsed EXCEPT ![c] = 0]
    /\ answer' = [answer EXCEPT ![c] = outcome]

DecideBroken(c, rec) ==  \* the lock covers the decision, not the effect
    /\ cache' = [cache EXCEPT ![Home[c]] = Record("started")]
    /\ pc' = [pc EXCEPT ![c] = IF Verdict(rec) = "deduplicated" THEN "idle" ELSE "begin"]
    /\ lock' = [lock EXCEPT ![Home[c]] = NoCaller]
    /\ UNCHANGED <<elapsed, answer>>

\* The synchronous stretch of run_once from the record it found to its next await.
Decide(c, rec) ==
    \/ /\ Verdict(rec) \in {"new", "retry_after_failure"}
       /\ cache' = [cache EXCEPT ![Home[c]] = Record("started")]
       /\ pc' = [pc EXCEPT ![c] = "begin"]
       /\ UNCHANGED <<elapsed, answer>>
       /\ lock' = [lock EXCEPT ![Home[c]] = c]
    \/ /\ Verdict(rec) = "lease_expired"
       /\ cache' = [cache EXCEPT ![Home[c]] = rec]
       /\ pc' = [pc EXCEPT ![c] = "takeover"]
       /\ UNCHANGED <<elapsed, answer>>
       /\ lock' = [lock EXCEPT ![Home[c]] = c]
    \/ /\ Verdict(rec) \in {"deduplicated", "in_progress"}
       /\ cache' = [cache EXCEPT ![Home[c]] = rec]
       /\ Leave(c, Verdict(rec))

-----------------------------------------------------------------------------
\* run_once is called: the tool loop, a confirmed write or an approved action
\* reaches the write, for the first time or in a replay of its graph node.
Call(c) ==
    /\ pc[c] = "idle"
    /\ pc' = [pc EXCEPT ![c] = "waiting"]
    /\ UNCHANGED <<row, cache, lock, elapsed, answer>>

AcquireBroken(c) ==  \* the lock is not awaited
    /\ pc[c] = "waiting"
    /\ Decide(c, cache[Home[c]])
    /\ UNCHANGED row

\* The lock is granted.  A record in the cache is believed without a read.
Acquire(c) ==
    /\ pc[c] = "waiting"
    /\ lock[Home[c]] = NoCaller
    /\ \/ /\ cache[Home[c]].status # "absent"
          /\ Decide(c, cache[Home[c]])
       \/ /\ cache[Home[c]].status = "absent"
          /\ lock' = [lock EXCEPT ![Home[c]] = c]
          /\ pc' = [pc EXCEPT ![c] = "lookup"]
          /\ UNCHANGED <<cache, elapsed, answer>>
    /\ UNCHANGED row

\* get_effect answers.  The row carries a timestamp of the database, which
\* _claim compares with the clock of the replica.
Lookup(c) ==
    /\ pc[c] = "lookup"
    /\ Decide(c, [row EXCEPT !.age = IF row.status = "absent"
                                     THEN 0 ELSE row.age + Skew[Home[c]]])
    /\ UNCHANGED row

TakeOverBroken(c) ==  \* the lease is not renewed by its new owner
    /\ pc[c] = "takeover"
    /\ Stale(row)
    /\ cache' = [cache EXCEPT ![Home[c]] = Record("started")]
    /\ pc' = [pc EXCEPT ![c] = "execute"]
    /\ UNCHANGED <<row, lock, elapsed, answer>>

\* claim_stale_effect matches the row: this caller owns the effect now.
TakeOver(c) ==
    /\ pc[c] = "takeover"
    /\ Stale(row)
    /\ row' = [row EXCEPT !.age = 0]
    /\ cache' = [cache EXCEPT ![Home[c]] = Record("started")]
    /\ pc' = [pc EXCEPT ![c] = "execute"]
    /\ UNCHANGED <<lock, elapsed, answer>>

\* claim_stale_effect matches nothing: EFFECT_IN_PROGRESS, lease "takeover_lost".
LoseTakeOver(c) ==
    /\ pc[c] = "takeover"
    /\ ~Stale(row)
    /\ Leave(c, "in_progress")
    /\ UNCHANGED <<row, cache>>

\* begin_effect commits and the effect is started.
Begin(c) ==
    /\ pc[c] = "begin"
    /\ row' = Begun(row)
    /\ pc' = [pc EXCEPT ![c] = "execute"]
    /\ UNCHANGED <<cache, lock, elapsed, answer>>

\* execute() ends: with a result, successful or not, or with an exception,
\* which is recorded as a failure too.
Return(c, status) ==
    /\ pc[c] = "execute"
    /\ cache' = [cache EXCEPT ![Home[c]] = Record(status)]
    /\ pc' = [pc EXCEPT ![c] = "finish"]
    /\ UNCHANGED <<row, lock, elapsed, answer>>

\* finish_effect commits and run_once returns (or re-raises).
Finish(c) ==
    /\ pc[c] = "finish"
    /\ row' = Finished(row, cache[Home[c]].status)
    /\ Leave(c, cache[Home[c]].status)
    /\ UNCHANGED cache

-----------------------------------------------------------------------------
\* What the statement a caller is waiting for does to the row when it commits.
Committed(c) ==
    CASE pc[c] = "takeover" /\ Stale(row) -> [row EXCEPT !.age = 0]
      [] pc[c] = "begin"                  -> Begun(row)
      [] pc[c] = "finish"                 -> Finished(row, cache[Home[c]].status)
      [] OTHER                            -> row

\* The await ends in an exception: the task is cancelled (deadline, idle
\* timeout, client gone) or, with durable_persistence, the statement failed.
\* It may have committed all the same.  What is in the cache stays there.
Interrupt(c) ==
    /\ pc[c] \in Holding
    /\ row' \in {row, Committed(c)}
    /\ Leave(c, "raised")
    /\ UNCHANGED cache

\* Cancelled in the queue of the lock, which it does not hold.
GiveUp(c) ==
    /\ pc[c] = "waiting"
    /\ pc' = [pc EXCEPT ![c] = "idle"]
    /\ elapsed' = [elapsed EXCEPT ![c] = 0]
    /\ answer' = [answer EXCEPT ![c] = "raised"]
    /\ UNCHANGED <<row, cache, lock>>

\* The process dies and is started again: its memory is lost, the row stays.
Crash(r) ==
    /\ cache' = [cache EXCEPT ![r] = Absent]
    /\ lock' = [lock EXCEPT ![r] = NoCaller]
    /\ pc' = [c \in Callers |-> IF Home[c] = r THEN "idle" ELSE pc[c]]
    /\ elapsed' = [c \in Callers |-> IF Home[c] = r THEN 0 ELSE elapsed[c]]
    /\ answer' = [c \in Callers |-> IF Home[c] = r THEN "none" ELSE answer[c]]
    /\ UNCHANGED row

\* Ages beyond the lease are all alike.
Older(age) == IF age > Lease THEN age ELSE age + 1
Aged(rec) == IF rec.status = "started" THEN [rec EXCEPT !.age = Older(rec.age)] ELSE rec

\* One unit of time passes.  A capped call does not outlive its deadline.
Tick ==
    /\ \A c \in Capped : pc[c] # "idle" => elapsed[c] < Deadline
    /\ row' = Aged(row)
    /\ cache' = [r \in Replicas |-> Aged(cache[r])]
    /\ elapsed' = [c \in Callers |-> IF pc[c] = "idle" THEN 0 ELSE Older(elapsed[c])]
    /\ UNCHANGED <<lock, pc, answer>>

-----------------------------------------------------------------------------
\* The steps a call takes by itself once it is made.
Step(c) ==
    \/ Acquire(c)
    \/ Lookup(c)
    \/ TakeOver(c)
    \/ LoseTakeOver(c)
    \/ Begin(c)
    \/ \E status \in {"succeeded", "failed"} : Return(c, status)
    \/ Finish(c)

Next ==
    \/ \E c \in Callers : Call(c) \/ Step(c) \/ Interrupt(c) \/ GiveUp(c)
    \/ \E r \in Replicas : Crash(r)
    \/ Tick

Spec == Init /\ [][Next]_vars

\* Replays keep coming (a resume that did not finish is delivered again on a
\* timer; the property says what the ledger makes of that), an admitted call is
\* driven by the event loop, a database statement and an external call end
\* (httpx has a timeout per operation), asyncio.Lock serves its waiters in
\* order of arrival, and time passes.
Fairness ==
    /\ \A c \in Callers : WF_vars(Call(c)) /\ WF_vars(Step(c)) /\ SF_vars(Acquire(c))
    /\ WF_vars(Tick)

FairSpec == Spec /\ Fairness

-----------------------------------------------------------------------------
(* Properties *)

\* The lock does its work on every path out of run_once: two callers of one
\* process never carry the effect out, or write its verdict, at the same time.
OneRunPerReplica ==
    \A c, d \in Callers :
        c # d /\ pc[c] \in Running /\ pc[d] \in Running => Home[c] # Home[d]

\* "Execute execute(provider_key) at most once per turn + action" (run_once),
\* for callers in different processes too.
NoConcurrentExecution ==
    \A c, d \in Callers : pc[c] = "execute" /\ pc[d] = "execute" => c = d

\* A takeover happens only to a crashed attempt: the lease outlives every
\* capped call, whatever its replica, the clock of its replica, and the
\* number of replicas that read the stale row.
TookOver(c) == pc[c] = "takeover" /\ pc'[c] = "execute"
TakeoverExcludesLive ==
    [][\A c \in Callers : TookOver(c) => \A d \in Capped : pc[d] \notin Running]_vars

\* While a capped call is carrying the effect out, the row is at least as
\* young as the call: this is what keeps takeovers away from it.
LeaseCoversRun ==
    \A c \in Capped :
        pc[c] \in Running => row.status # "absent" /\ row.age <= elapsed[c]

\* With one replica a recorded success is never carried out again, in spite
\* of crashes, cancellations and failing statements.
NoRunAfterSuccess ==
    row.status = "succeeded" => \A c \in Callers : pc[c] \notin Running

\* "A started row whose lease has expired is a crashed attempt", and somebody
\* may take it over: once crashes and cancellations stop, a started row does
\* not stay, unless the process that wrote it knows that the effect succeeded.
Fault ==
    \/ \E c \in Callers : Interrupt(c) \/ GiveUp(c)
    \/ \E r \in Replicas : Crash(r)
Calm == <>[][~Fault]_vars
SuccessKnown == \E r \in Replicas : cache[r].status = "succeeded"
CrashedAttemptResolved ==
    Calm => (row.status = "started" ~> (row.status # "started" \/ SuccessKnown))

\* "Refusing to retry would make a transient failure permanent": a process
\* that believes the effect to be in progress comes to another belief, once
\* crashes and cancellations stop.
BeliefIsRevised ==
    Calm => \A r \in Replicas : cache[r].status = "started" ~> cache[r].status # "started"

\* With one replica the ledger implements WriteOnce.
Owner ==
    IF \E c \in Callers : pc[c] \in Running
    THEN CHOOSE c \in Callers : pc[c] \in Running
    ELSE NoCaller
Promise == INSTANCE WriteOnce WITH owner <- Owner, done <- (row.status = "succeeded")
PromiseKept == Promise!Spec
=============================================================================
