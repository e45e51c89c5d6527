------------------------- MODULE WriteDeliveryProofs -------------------------
(* Theorems about WriteDelivery: the composition takes only steps of the     *)
(* ledger, so what EffectLedgerProofs shows of the ledger holds in it; and   *)
(* what the two ends promise together.                                       *)
EXTENDS WriteDelivery, TLAPS

LF == INSTANCE EffectLedgerProofs

(**************************** the ledger within ***************************)
\* The definitions of the ledger are the same under both names.
LEMMA SameRecords ==
  /\ \A s : Ledger!Record(s) = LF!Record(s)
  /\ Ledger!Absent = LF!Absent /\ Ledger!Holding = LF!Holding
  /\ \A rec : /\ Ledger!Verdict(rec) = LF!Verdict(rec) /\ Ledger!Begun(rec) = LF!Begun(rec)
              /\ Ledger!Aged(rec) = LF!Aged(rec)
              /\ Ledger!Stale(rec) <=> LF!Stale(rec)
  /\ \A rec, s : Ledger!Finished(rec, s) = LF!Finished(rec, s)
  /\ \A age : Ledger!Older(age) = LF!Older(age)
  BY DEF Ledger!Record, LF!Record, Ledger!Absent, LF!Absent, Ledger!Holding, LF!Holding,
         Ledger!PCs, LF!PCs, Ledger!Verdict, LF!Verdict, Ledger!Begun, LF!Begun,
         Ledger!Stale, LF!Stale, Ledger!Aged, LF!Aged, Ledger!Finished, LF!Finished,
         Ledger!Older, LF!Older

LEMMA SameInit == Ledger!Init <=> LF!Init
  BY SameRecords DEF Ledger!Init, LF!Init

LEMMA SameType == Ledger!TypeOK <=> LF!TypeOK
  BY DEF Ledger!TypeOK, LF!TypeOK, Ledger!Statuses, LF!Statuses, Ledger!PCs, LF!PCs,
         Ledger!Answers, LF!Answers

\* A step of run_once.
LEMMA SameStep ==
  ASSUME NEW c \in Callers
  PROVE  /\ Ledger!Call(c) => LF!Call(c)
         /\ Ledger!Acquire(c) => LF!Acquire(c)
         /\ Ledger!Lookup(c) => LF!Lookup(c)
         /\ Ledger!TakeOver(c) => LF!TakeOver(c)
         /\ Ledger!LoseTakeOver(c) => LF!LoseTakeOver(c)
         /\ Ledger!Begin(c) => LF!Begin(c)
         /\ \A s : Ledger!Return(c, s) => LF!Return(c, s)
         /\ Ledger!Finish(c) => LF!Finish(c)
         /\ Ledger!Interrupt(c) => LF!Interrupt(c)
         /\ Ledger!GiveUp(c) => LF!GiveUp(c)
  <1>1. \A outcome : Ledger!Leave(c, outcome) <=> LF!Leave(c, outcome)
    BY DEF Ledger!Leave, LF!Leave
  <1>2. \A rec : Ledger!Decide(c, rec) <=> LF!Decide(c, rec)
    BY <1>1, SameRecords DEF Ledger!Decide, LF!Decide
  <1>3. Ledger!Committed(c) = LF!Committed(c)
    BY DEF Ledger!Committed, LF!Committed, Ledger!Begun, LF!Begun, Ledger!Stale, LF!Stale,
           Ledger!Finished, LF!Finished, Ledger!Record, LF!Record
  <1>4. Ledger!Call(c) => LF!Call(c)
    BY DEF Ledger!Call, LF!Call
  <1>5. Ledger!Acquire(c) => LF!Acquire(c)
    BY <1>2 DEF Ledger!Acquire, LF!Acquire
  <1>6. Ledger!Lookup(c) => LF!Lookup(c)
    BY <1>2 DEF Ledger!Lookup, LF!Lookup
  <1>7. Ledger!TakeOver(c) => LF!TakeOver(c)
    BY SameRecords DEF Ledger!TakeOver, LF!TakeOver
  <1>8. Ledger!LoseTakeOver(c) => LF!LoseTakeOver(c)
    BY <1>1, SameRecords DEF Ledger!LoseTakeOver, LF!LoseTakeOver
  <1>9. Ledger!Begin(c) => LF!Begin(c)
    BY SameRecords DEF Ledger!Begin, LF!Begin
  <1>10. \A s : Ledger!Return(c, s) => LF!Return(c, s)
    BY SameRecords DEF Ledger!Return, LF!Return
  <1>11. Ledger!Finish(c) => LF!Finish(c)
    BY <1>1, SameRecords DEF Ledger!Finish, LF!Finish
  <1>12. Ledger!Interrupt(c) => LF!Interrupt(c)
    BY <1>1, <1>3, SameRecords DEF Ledger!Interrupt, LF!Interrupt
  <1>13. Ledger!GiveUp(c) => LF!GiveUp(c)
    BY DEF Ledger!GiveUp, LF!GiveUp
  <1> QED
    BY <1>4, <1>5, <1>6, <1>7, <1>8, <1>9, <1>10, <1>11, <1>12, <1>13

LEMMA SameOutside ==
  /\ \A r \in Replicas : Ledger!Crash(r) => LF!Crash(r)
  /\ Ledger!Tick => LF!Tick
  <1>1. \A r \in Replicas : Ledger!Crash(r) => LF!Crash(r)
    BY SameRecords DEF Ledger!Crash, LF!Crash
  <1>2. Ledger!Tick => LF!Tick
    BY DEF Ledger!Tick, LF!Tick, Ledger!Aged, LF!Aged, Ledger!Older, LF!Older
  <1> QED
    BY <1>1, <1>2

\* To the ledger, sending and waiting is nothing, and an answer, a refusal and a
\* broken connection are the end of execute().
LEMMA LedgerStepRefined == [Next]_vars => [LF!Next]_(LF!vars)
  <1> SUFFICES ASSUME [Next]_vars PROVE [LF!Next]_(LF!vars)
    OBVIOUS
  <1>1. ASSUME NEW c \in Callers, LedgerStep(c) PROVE LF!Next
    BY <1>1, SameStep DEF LedgerStep, LF!Next, LF!Step
  <1>2. ASSUME NEW c \in Callers, NEW s \in {"succeeded", "failed"}, Ledger!Return(c, s)
        PROVE LF!Next
    BY <1>2, SameStep DEF LF!Next, LF!Step
  <1>3. ASSUME NEW c \in Callers,
               NotLanded(c) \/ Answered(c) \/ RailBlocks(c) \/ LostReply(c)
        PROVE  LF!Next
    BY <1>2, <1>3 DEF NotLanded, Answered, RailBlocks, LostReply
  <1>4. ASSUME NEW c \in Callers, Interrupt(c) PROVE LF!Next
    BY <1>4, SameStep DEF Interrupt, LF!Next
  <1>5. ASSUME NEW r \in Replicas, Crash(r) PROVE LF!Next
    BY <1>5, SameOutside DEF Crash, LF!Next
  <1>6. CASE Tick
    BY <1>6, SameOutside DEF Tick, LF!Next
  <1>7. CASE \/ \E c \in Callers : Send(c)
             \/ \E q \in Requests : ServerStep(q)
             \/ ServerFault \/ UNCHANGED vars
    BY <1>7 DEF Send, ServerStep, ServerFault, vars, ledgerVars, LF!vars
  <1> QED
    BY <1>1, <1>3, <1>4, <1>5, <1>6, <1>7 DEF Next

\* The delivery of a write keeps to the protocol of the ledger: every behaviour of
\* the composition is one of EffectLedger (run_once around tools/adapters/ticket.py).
THEOREM DeliveryUsesTheLedger == Spec => LF!Spec
  <1>1. Init => LF!Init
    BY SameInit DEF Init
  <1> QED
    BY <1>1, LedgerStepRefined, PTL DEF Spec, LF!Spec

\* So the ledger's discipline and its lease hold here.
LEMMA LedgerAlways == Spec => [](LF!Discipline /\ LF!LeaseInv)
  <1>1. LF!LedgerAssumption
    BY CallerAssumption DEF LF!LedgerAssumption
  <1> QED
    BY <1>1, DeliveryUsesTheLedger, LF!LeaseHolds, PTL

(********************************* the types ******************************)
ServerRecord == [present : BOOLEAN, age : 0..(Retention + 1)]

\* Whatever the server does by itself, for one request or as a whole.
ServerMoves ==
  \/ \E q \in Requests :
       \/ Server!Deliver(q) \/ Server!Replay(q) \/ Server!Miss(q) \/ Server!LookupFails(q)
       \/ Server!Commit(q) \/ Server!Refuse(q) \/ Server!Record(q) \/ Server!RecordFails(q)
       \/ Server!Forget(q)
  \/ Server!Die \/ Server!Sweep \/ Server!Tick \/ UNCHANGED serverVars

\* The server keeps its types on every step of its own.
LEMMA ServerTyped ==
  ASSUME Server!TypeOK, ServerMoves
  PROVE  Server!TypeOK'
  <1> USE WriteAssumption DEF Server!TypeOK, Server!Stages, Server!AtWork, Server!MaxApplied
  <1>1. ASSUME NEW q \in Requests,
               \/ Server!Deliver(q) \/ Server!Replay(q) \/ Server!Miss(q) \/ Server!LookupFails(q)
               \/ Server!Refuse(q) \/ Server!RecordFails(q) \/ Server!Forget(q)
        PROVE  Server!TypeOK'
    BY <1>1 DEF Server!Deliver, Server!Replay, Server!Miss, Server!LookupFails, Server!Refuse,
                Server!RecordFails, Server!Forget, Server!Answer
  <1>2. ASSUME NEW q \in Requests, Server!Commit(q) PROVE Server!TypeOK'
    BY <1>2 DEF Server!Commit
  <1>3. ASSUME NEW q \in Requests, Server!Record(q) PROVE Server!TypeOK'
    BY <1>3 DEF Server!Record, Server!Answer
  <1>4. CASE Server!Die
    BY <1>4 DEF Server!Die
  <1>5. CASE Server!Sweep
    BY <1>5 DEF Server!Sweep, Server!NoRecord
  <1>6. CASE Server!Tick
    <2>1. since' \in [Requests -> 0..ServerMax]
      BY <1>6 DEF Server!Tick
    <2>2. record' \in [present : BOOLEAN, age : 0..(Retention + 1)]
      BY <1>6 DEF Server!Tick
    <2> QED
      BY <1>6, <2>1, <2>2 DEF Server!Tick
  <1>7. CASE UNCHANGED serverVars
    BY <1>7 DEF serverVars
  <1> QED
    BY <1>1, <1>2, <1>3, <1>4, <1>5, <1>6, <1>7 DEF ServerMoves

SentTyped == sent \in [Callers -> Requests \cup {NoRequest}] /\ faults \subseteq Faults

\* Every step of the composition is a step of the server, or leaves it alone.
LEMMA ServerStepRefined ==
  ASSUME SentTyped, [Next]_vars
  PROVE  ServerMoves /\ SentTyped'
  <1>1. ASSUME NEW c \in Callers, LedgerStep(c) \/ NotLanded(c) PROVE ServerMoves /\ SentTyped'
    BY <1>1 DEF LedgerStep, NotLanded, ServerMoves, SentTyped
  <1>2. ASSUME NEW c \in Callers, Send(c) PROVE ServerMoves /\ SentTyped'
    BY <1>2 DEF Send, ServerMoves, SentTyped
  <1>3. ASSUME NEW c \in Callers, Answered(c) \/ RailBlocks(c) PROVE ServerMoves /\ SentTyped'
    <2>1. sent[c] \in Requests
      BY <1>3 DEF Answered, RailBlocks, SentTyped
    <2> QED
      BY <1>3, <2>1 DEF Answered, RailBlocks, ServerMoves, SentTyped
  <1>4. ASSUME NEW c \in Callers, LostReply(c) \/ Interrupt(c) PROVE ServerMoves /\ SentTyped'
    BY <1>4 DEF LostReply, Interrupt, ServerMoves, SentTyped
  <1>5. ASSUME NEW r \in Replicas, Crash(r) PROVE ServerMoves /\ SentTyped'
    BY <1>5 DEF Crash, ServerMoves, SentTyped
  <1>6. ASSUME NEW q \in Requests, ServerStep(q) PROVE ServerMoves /\ SentTyped'
    BY <1>6 DEF ServerStep, ServerMoves, SentTyped
  <1>7. CASE ServerFault \/ Tick \/ UNCHANGED vars
    BY <1>7 DEF ServerFault, Tick, vars, ServerMoves, SentTyped
  <1> QED
    BY <1>1, <1>2, <1>3, <1>4, <1>5, <1>6, <1>7 DEF Next

TypesInv == Server!TypeOK /\ SentTyped

LEMMA TypesAlways == Spec => []TypesInv
  <1>1. Init => TypesInv
    <2> SUFFICES ASSUME Init PROVE TypesInv
      OBVIOUS
    <2>1. Server!TypeOK
      BY WriteAssumption DEF Init, Server!Init, Server!TypeOK, Server!Stages, Server!AtWork,
                             Server!MaxApplied, Server!NoRecord
    <2>2. SentTyped
      BY ScenarioAssumption DEF Init, SentTyped
    <2> QED
      BY <2>1, <2>2 DEF TypesInv
  <1>2. TypesInv /\ [Next]_vars => TypesInv'
    BY ServerTyped, ServerStepRefined DEF TypesInv
  <1> QED
    BY <1>1, <1>2, PTL DEF Spec

\* Every variable of both services keeps its type: in particular no request is
\* waited for that the server was never sent (effect_ledger.py, adapters/ticket.py,
\* ToolIdempotencyService.java).
THEOREM DeliveryTyped == Spec => []TypeOK
  <1>1. LF!Discipline /\ TypesInv => TypeOK
    BY SameType DEF LF!Discipline, TypesInv, SentTyped, TypeOK
  <1> QED
    BY <1>1, LedgerAlways, TypesAlways, PTL

(**************************** no fabricated success ***********************)
\* As long as nothing was carried out, no part of the two services says otherwise.
NothingClaimed ==
  /\ row.status # "succeeded"
  /\ \A r \in Replicas : cache[r].status # "succeeded"
  /\ \A c \in Callers : answer[c] \notin {"succeeded", "deduplicated"}
NothingServed ==
  /\ ~record.present
  /\ \A q \in Requests : stage[q] # "applied" /\ reply[q] # "success"
RealInv == applied = 0 => NothingClaimed /\ NothingServed

\* What was carried out stays carried out, and the server takes a write for done
\* only when it has committed it.
LEMMA ServedNext ==
  ASSUME TypesInv, ServerMoves, applied' = 0, NothingServed
  PROVE  NothingServed'
  <1> USE DEF NothingServed, TypesInv, Server!TypeOK
  <1>1. ASSUME NEW q \in Requests,
               \/ Server!Deliver(q) \/ Server!Miss(q) \/ Server!LookupFails(q)
               \/ Server!Refuse(q) \/ Server!Forget(q)
        PROVE  NothingServed'
    BY <1>1 DEF Server!Deliver, Server!Miss, Server!LookupFails, Server!Refuse, Server!Forget,
                Server!Answer
  <1>2. ASSUME NEW q \in Requests,
               Server!Replay(q) \/ Server!Record(q) \/ Server!RecordFails(q) \/ Server!Commit(q)
        PROVE  FALSE
    BY <1>2 DEF Server!Replay, Server!Record, Server!RecordFails, Server!Commit, Server!MaxApplied
  <1>3. CASE Server!Die \/ Server!Sweep \/ Server!Tick \/ UNCHANGED serverVars
    BY <1>3 DEF Server!Die, Server!Sweep, Server!Tick, Server!NoRecord, serverVars
  <1> QED
    BY <1>1, <1>2, <1>3 DEF ServerMoves

LEMMA AppliedStays ==
  ASSUME TypesInv, ServerMoves, applied' = 0
  PROVE  applied = 0
  BY DEF TypesInv, Server!TypeOK, ServerMoves, Server!Deliver, Server!Replay, Server!Miss,
         Server!LookupFails, Server!Commit, Server!Refuse, Server!Record, Server!RecordFails,
         Server!Forget, Server!Die, Server!Sweep, Server!Tick, Server!MaxApplied, serverVars

\* A process that believes in no success comes to believe in none by itself.
LEMMA DecideClaimsNothing ==
  ASSUME Ledger!TypeOK, NothingClaimed, NEW c \in Callers, NEW rec,
         rec.status \in Ledger!Statuses \ {"succeeded"}, Ledger!Decide(c, rec), UNCHANGED row
  PROVE  NothingClaimed'
  <1>1. Ledger!Verdict(rec) # "deduplicated"
    BY DEF Ledger!Verdict, Ledger!Statuses
  <1>2. \A r \in Replicas : cache'[r].status # "succeeded"
    BY DEF Ledger!Decide, Ledger!TypeOK, NothingClaimed, Ledger!Record
  <1>3. \A d \in Callers : answer'[d] \notin {"succeeded", "deduplicated"}
    BY <1>1 DEF Ledger!Decide, Ledger!Leave, Ledger!TypeOK, NothingClaimed
  <1> QED
    BY <1>2, <1>3 DEF NothingClaimed

\* Every step of a call claims nothing that was not claimed before, the end of
\* execute() apart.
LEMMA CallClaimsNothing ==
  ASSUME Ledger!TypeOK, NothingClaimed, NEW c \in Callers,
         \/ LedgerStep(c) \/ Ledger!Interrupt(c) \/ Ledger!GiveUp(c)
         \/ Ledger!Return(c, "failed")
  PROVE  NothingClaimed'
  <1> USE DEF NothingClaimed, Ledger!TypeOK
  <1>0. Home[c] \in Replicas /\ cache[Home[c]].status \in Ledger!Statuses \ {"succeeded"}
    BY CallerAssumption
  <1>1. CASE Ledger!Acquire(c)
    <2>1. CASE Ledger!Decide(c, cache[Home[c]])
      BY <1>0, <1>1, <2>1, DecideClaimsNothing DEF Ledger!Acquire
    <2>2. CASE UNCHANGED <<cache, answer>>
      BY <1>1, <2>2 DEF Ledger!Acquire
    <2> QED
      BY <1>1, <2>1, <2>2 DEF Ledger!Acquire
  <1>2. CASE Ledger!Lookup(c)
    <2> DEFINE rec == [row EXCEPT !.age = IF row.status = "absent"
                                          THEN 0 ELSE row.age + Skew[Home[c]]]
    <2>1. Ledger!Decide(c, rec) /\ UNCHANGED row
         /\ rec.status \in Ledger!Statuses \ {"succeeded"}
      BY <1>2 DEF Ledger!Lookup
    <2> HIDE DEF rec
    <2> QED
      BY <2>1, DecideClaimsNothing
  <1>3. CASE Ledger!Call(c) \/ Ledger!GiveUp(c)
    BY <1>3 DEF Ledger!Call, Ledger!GiveUp
  <1>4. CASE Ledger!TakeOver(c) \/ Ledger!Begin(c)
    BY <1>0, <1>4 DEF Ledger!TakeOver, Ledger!Begin, Ledger!Begun, Ledger!Record
  <1>5. CASE Ledger!LoseTakeOver(c)
    BY <1>5 DEF Ledger!LoseTakeOver, Ledger!Leave
  <1>6. CASE Ledger!Return(c, "failed")
    BY <1>0, <1>6 DEF Ledger!Return, Ledger!Record
  <1>7. CASE Ledger!Finish(c)
    BY <1>0, <1>7 DEF Ledger!Finish, Ledger!Finished, Ledger!Record, Ledger!Leave, Ledger!Statuses
  <1>8. CASE Ledger!Interrupt(c)
    <2>1. Ledger!Committed(c).status # "succeeded"
      BY <1>0 DEF Ledger!Committed, Ledger!Begun, Ledger!Finished, Ledger!Record
    <2> QED
      BY <1>8, <2>1 DEF Ledger!Interrupt, Ledger!Leave
  <1> QED
    BY <1>1, <1>2, <1>3, <1>4, <1>5, <1>6, <1>7, <1>8 DEF LedgerStep

LEMMA RealNext ==
  ASSUME Ledger!TypeOK, TypesInv, RealInv, [Next]_vars
  PROVE  RealInv'
  <1> SUFFICES ASSUME applied' = 0 PROVE NothingClaimed' /\ NothingServed'
    BY DEF RealInv
  <1>1. ServerMoves
    BY ServerStepRefined DEF TypesInv
  <1>2. NothingClaimed /\ NothingServed
    BY <1>1, AppliedStays DEF RealInv
  <1>3. NothingServed'
    BY <1>1, <1>2, ServedNext
  <1>4. ASSUME NEW c \in Callers,
               \/ LedgerStep(c) \/ NotLanded(c) \/ RailBlocks(c) \/ LostReply(c) \/ Interrupt(c)
        PROVE  NothingClaimed'
    BY <1>2, <1>4, CallClaimsNothing DEF NotLanded, RailBlocks, LostReply, Interrupt
  <1>5. ASSUME NEW c \in Callers, Answered(c) PROVE NothingClaimed'
    <2>1. sent[c] \in Requests
      BY <1>5 DEF Answered, TypesInv, SentTyped
    <2>2. Ledger!Return(c, "failed")
      BY <1>2, <1>5, <2>1 DEF Answered, NothingServed
    <2> QED
      BY <1>2, <2>2, CallClaimsNothing
  <1>6. ASSUME NEW r \in Replicas, Crash(r) PROVE NothingClaimed'
    BY <1>2, <1>6 DEF Crash, Ledger!Crash, Ledger!Absent, Ledger!Record, NothingClaimed, Ledger!TypeOK
  <1>7. CASE Tick
    BY <1>2, <1>3, <1>7 DEF Tick, Ledger!Tick, Ledger!Aged, NothingClaimed, Ledger!TypeOK
  <1>8. CASE \/ \E c \in Callers : Send(c)
             \/ \E q \in Requests : ServerStep(q)
             \/ ServerFault \/ UNCHANGED vars
    BY <1>2, <1>3, <1>8 DEF Send, ServerStep, ServerFault, vars, ledgerVars, NothingClaimed
  <1> QED
    BY <1>3, <1>4, <1>5, <1>6, <1>7, <1>8 DEF Next

\* Whatever fails, at either end or between them, no row, no process and no answer
\* says that the write succeeded unless it was carried out (run_once, _finalize,
\* ToolIdempotencyService.record).
THEOREM SuccessIsNeverFabricated == Spec => []SuccessIsReal
  <1>1. Init => RealInv
    BY DEF Init, Ledger!Init, Ledger!Absent, Ledger!Record, Server!Init, Server!NoRecord, RealInv,
           NothingClaimed, NothingServed
  <1>2. LF!Discipline /\ TypesInv /\ RealInv /\ [Next]_vars => RealInv'
    BY RealNext, SameType DEF LF!Discipline
  <1>3. RealInv /\ TypesInv => SuccessIsReal
    BY DEF RealInv, NothingClaimed, SuccessIsReal, TypesInv, Server!TypeOK, Server!MaxApplied
  <1> QED
    BY <1>1, <1>2, <1>3, LedgerAlways, TypesAlways, PTL DEF Spec

(******************************* at most once *****************************)
\* One process, and every call of it under asyncio.wait_for: with two processes the
\* ledger lets two callers begin (NoConcurrentExecution), and a call without a
\* deadline may send its request when its lease is over.
CappedProcess == Capped = Callers /\ \A c, d \in Callers : Home[c] = Home[d]

AgentFails == faults \subseteq {"interrupt", "crash"}
ServiceRefuses == faults \subseteq {"failure", "blocked"}

Working(q) == stage[q] \in Server!AtWork

\* One request is at work at a time; it is the one its sender waits for, as long as
\* somebody carries the effect out; and a write that was committed is on record,
\* or about to be put there by that request.
OnceInv ==
  /\ applied <= 1
  /\ \A p, q \in Requests : Working(p) /\ Working(q) => p = q
  /\ \A q \in Requests : stage[q] = "executing" => applied = 0
  /\ applied > 0 => record.present \/ \E q \in Requests : stage[q] = "applied"
  /\ \A c \in Callers, q \in Requests : pc[c] = "execute" /\ Working(q) => sent[c] = q
  /\ \A c \in Callers : sent[c] # NoRequest => pc[c] = "execute"
  /\ \A q \in Requests : stage[q] # "lost"

\* When only the agent fails: no failure is ever on record, so that a row is begun
\* once; the row is as young as any request at work, so that it is not taken over.
FailureFree == row.status # "failed" /\ \A r \in Replicas : cache[r].status # "failed"
BegunOnce == \A c \in Callers : pc[c] = "begin" => row.status = "absent"
Covered == \A q \in Requests :
             Working(q) => row.status # "absent" /\ row.age <= Deadline + since[q]
RepliesGood == \A q \in Requests : stage[q] = "replied" => reply[q] = "success"
CoverInv == FailureFree /\ BegunOnce /\ Covered /\ RepliesGood

\* When only the service refuses: a request at work has a sender that waits.
WaitInv == \A q \in Requests : Working(q) => \E c \in Callers : sent[c] = q

Sound == LF!Discipline /\ LF!LeaseInv /\ TypesInv /\ Ledger!TypeOK
Usual == CappedProcess /\ Sound

\* The lock admits one caller at a time to the code between the awaits.
LEMMA OneInside ==
  ASSUME Usual, NEW c \in Callers, NEW d \in Callers,
         pc[c] \notin {"idle", "waiting"}, pc[d] \notin {"idle", "waiting"}
  PROVE  c = d
  <1>1. pc[c] \in LF!Holding /\ pc[d] \in LF!Holding
    BY DEF Usual, Sound, Ledger!TypeOK, Ledger!PCs, LF!Holding, LF!PCs
  <1> QED
    BY <1>1 DEF Usual, Sound, CappedProcess, LF!Discipline, LF!LockInv

\* A call under way leaves the program counters of the others alone, and gets to
\* the effect by beginning a row or by taking a stale one over.
LEMMA StepEnters ==
  ASSUME Usual, NEW c \in Callers, LedgerStep(c)
  PROVE  /\ pc[c] # "execute"
         /\ \A d \in Callers \ {c} : pc'[d] = pc[d]
         /\ pc'[c] = "execute" => pc[c] = "begin" \/ (pc[c] = "takeover" /\ Ledger!Stale(row))
  <1> USE DEF Ledger!TypeOK
  <1>0. Ledger!TypeOK
    BY DEF Usual, Sound
  <1>1. ASSUME NEW rec, Ledger!Decide(c, rec)
        PROVE  pc'[c] # "execute" /\ \A d \in Callers \ {c} : pc'[d] = pc[d]
    BY <1>0, <1>1 DEF Ledger!Decide, Ledger!Leave
  <1>2. CASE Ledger!Acquire(c) \/ Ledger!Lookup(c)
    BY <1>0, <1>1, <1>2 DEF Ledger!Acquire, Ledger!Lookup
  <1>3. CASE Ledger!Call(c) \/ Ledger!Begin(c) \/ Ledger!TakeOver(c)
    BY <1>0, <1>3 DEF Ledger!Call, Ledger!Begin, Ledger!TakeOver
  <1>4. CASE Ledger!LoseTakeOver(c) \/ Ledger!Finish(c)
    BY <1>0, <1>4 DEF Ledger!LoseTakeOver, Ledger!Finish, Ledger!Leave
  <1> QED
    BY <1>2, <1>3, <1>4 DEF LedgerStep

\* A statement on the row makes it young, or leaves it.
LEMMA RowRenewed ==
  ASSUME Usual, NEW c \in Callers,
         LedgerStep(c) \/ Ledger!Interrupt(c) \/ Ledger!GiveUp(c) \/ \E s : Ledger!Return(c, s)
  PROVE  \/ row' = row
         \/ /\ row'.age = 0 /\ pc[c] \notin {"idle", "waiting"}
            /\ row'.status # "absent"
  <1> USE DEF Ledger!TypeOK
  <1>0. Ledger!TypeOK /\ (pc[c] = "finish" => cache[Home[c]].status \in {"succeeded", "failed"})
    BY DEF Usual, Sound, LF!Discipline, LF!OutcomeInv
  <1>1. CASE \/ Ledger!Call(c) \/ Ledger!Acquire(c) \/ Ledger!Lookup(c) \/ Ledger!LoseTakeOver(c)
             \/ Ledger!GiveUp(c) \/ \E s : Ledger!Return(c, s)
    BY <1>1 DEF Ledger!Call, Ledger!Acquire, Ledger!Lookup, Ledger!LoseTakeOver, Ledger!GiveUp,
                Ledger!Return
  <1>2. CASE Ledger!TakeOver(c)
    BY <1>0, <1>2 DEF Ledger!TakeOver, Ledger!Stale
  <1>3. CASE Ledger!Begin(c)
    BY <1>0, <1>3 DEF Ledger!Begin, Ledger!Begun, Ledger!Record
  <1>4. CASE Ledger!Finish(c)
    BY <1>0, <1>4 DEF Ledger!Finish, Ledger!Finished, Ledger!Record
  <1>5. CASE Ledger!Interrupt(c)
    <2>1. pc[c] \notin {"idle", "waiting"}
      BY <1>5 DEF Ledger!Interrupt, Ledger!Holding
    <2>2. \/ Ledger!Committed(c) = row
          \/ Ledger!Committed(c).age = 0 /\ Ledger!Committed(c).status # "absent"
      BY <1>0 DEF Ledger!Committed, Ledger!Begun, Ledger!Finished, Ledger!Record, Ledger!Stale
    <2> QED
      BY <1>5, <2>1, <2>2 DEF Ledger!Interrupt
  <1> QED
    BY <1>1, <1>2, <1>3, <1>4, <1>5 DEF LedgerStep

\* A record without a failure leads to no failure, and to a new start only from an
\* absent row.
LEMMA DecideFailureFree ==
  ASSUME Ledger!TypeOK, FailureFree, NEW c \in Callers, NEW rec,
         rec.status \in Ledger!Statuses \ {"failed"}, Ledger!Decide(c, rec), UNCHANGED row
  PROVE  /\ FailureFree'
         /\ pc'[c] = "begin" => rec.status = "absent"
         /\ \A d \in Callers \ {c} : pc'[d] = pc[d]
  <1>1. Ledger!Verdict(rec) \in {"new", "retry_after_failure"} => rec.status = "absent"
    BY DEF Ledger!Verdict, Ledger!Statuses
  <1>2. FailureFree'
    BY DEF Ledger!Decide, Ledger!TypeOK, FailureFree, Ledger!Record
  <1>3. pc'[c] = "begin" => Ledger!Verdict(rec) \in {"new", "retry_after_failure"}
    BY DEF Ledger!Decide, Ledger!Leave, Ledger!TypeOK
  <1>4. \A d \in Callers \ {c} : pc'[d] = pc[d]
    BY DEF Ledger!Decide, Ledger!Leave, Ledger!TypeOK
  <1> QED
    BY <1>1, <1>2, <1>3, <1>4

\* Without failures on record every row is begun once.
LEMMA CallFailureFree ==
  ASSUME Usual, FailureFree, BegunOnce, NEW c \in Callers,
         \/ LedgerStep(c) \/ Ledger!Interrupt(c) \/ Ledger!GiveUp(c)
         \/ Ledger!Return(c, "succeeded")
  PROVE  FailureFree' /\ BegunOnce'
  <1> USE DEF Ledger!TypeOK
  <1>0. /\ Ledger!TypeOK /\ Home[c] \in Replicas
        /\ cache[Home[c]].status \in Ledger!Statuses \ {"failed"}
        /\ row.status \in Ledger!Statuses \ {"failed"}
    BY CallerAssumption DEF Usual, Sound, FailureFree
  <1>1. ASSUME NEW rec, rec.status \in Ledger!Statuses \ {"failed"}, Ledger!Decide(c, rec),
               UNCHANGED row, rec.status = "absent" => row.status = "absent"
        PROVE  FailureFree' /\ BegunOnce'
    BY <1>0, <1>1, DecideFailureFree DEF BegunOnce
  <1>2. CASE Ledger!Acquire(c)
    <2>1. CASE cache[Home[c]].status # "absent" /\ Ledger!Decide(c, cache[Home[c]])
      BY <1>0, <1>1, <1>2, <2>1 DEF Ledger!Acquire
    <2>2. CASE pc' = [pc EXCEPT ![c] = "lookup"] /\ UNCHANGED cache
      BY <1>0, <1>2, <2>2 DEF Ledger!Acquire, FailureFree, BegunOnce
    <2> QED
      BY <1>2, <2>1, <2>2 DEF Ledger!Acquire
  <1>3. CASE Ledger!Lookup(c)
    <2> DEFINE rec == [row EXCEPT !.age = IF row.status = "absent"
                                          THEN 0 ELSE row.age + Skew[Home[c]]]
    <2>1. Ledger!Decide(c, rec) /\ UNCHANGED row /\ rec.status = row.status
      BY <1>0, <1>3 DEF Ledger!Lookup
    <2> HIDE DEF rec
    <2> QED
      BY <1>0, <1>1, <2>1
  <1>4. CASE Ledger!Call(c) \/ Ledger!GiveUp(c)
    BY <1>0, <1>4 DEF Ledger!Call, Ledger!GiveUp, FailureFree, BegunOnce
  <1>5. ASSUME pc[c] \notin {"idle", "waiting"}, pc'[c] # "begin", FailureFree',
               \A d \in Callers \ {c} : pc'[d] = pc[d]
        PROVE  FailureFree' /\ BegunOnce'
    <2>1. ASSUME NEW d \in Callers, pc'[d] = "begin" PROVE FALSE
      BY <1>5, <2>1, OneInside
    <2> QED
      BY <1>5, <2>1 DEF BegunOnce
  <1>6. CASE Ledger!TakeOver(c) \/ Ledger!Begin(c)
    <2>1. FailureFree'
      BY <1>0, <1>6 DEF Ledger!TakeOver, Ledger!Begin, Ledger!Begun, Ledger!Record, FailureFree
    <2> QED
      BY <1>0, <1>5, <1>6, <2>1 DEF Ledger!TakeOver, Ledger!Begin
  <1>7. CASE Ledger!LoseTakeOver(c)
    BY <1>0, <1>5, <1>7 DEF Ledger!LoseTakeOver, Ledger!Leave, FailureFree
  <1>8. CASE Ledger!Return(c, "succeeded")
    <2>1. FailureFree'
      BY <1>0, <1>8 DEF Ledger!Return, Ledger!Record, FailureFree
    <2> QED
      BY <1>0, <1>5, <1>8, <2>1 DEF Ledger!Return
  <1>9. CASE Ledger!Finish(c)
    <2>1. FailureFree'
      BY <1>0, <1>9 DEF Ledger!Finish, Ledger!Finished, Ledger!Record, FailureFree
    <2> QED
      BY <1>0, <1>5, <1>9, <2>1 DEF Ledger!Finish, Ledger!Leave
  <1>10. CASE Ledger!Interrupt(c)
    <2>1. Ledger!Committed(c).status # "failed"
      BY <1>0 DEF Ledger!Committed, Ledger!Begun, Ledger!Finished, Ledger!Record
    <2>2. FailureFree'
      BY <1>0, <1>10, <2>1 DEF Ledger!Interrupt, FailureFree
    <2>3. pc[c] \notin {"idle", "waiting"}
      BY <1>10 DEF Ledger!Interrupt, Ledger!Holding
    <2> QED
      BY <1>0, <1>5, <1>10, <2>2, <2>3 DEF Ledger!Interrupt, Ledger!Leave
  <1> QED
    BY <1>2, <1>3, <1>4, <1>6, <1>7, <1>8, <1>9, <1>10 DEF LedgerStep

\* Neither case has the faults of the network and of the tables.
LEMMA OutOfScope ==
  ASSUME AgentFails \/ ServiceRefuses
  PROVE  /\ \A f \in {"lost_reply", "slow", "die", "lookup_fails", "record_fails", "sweep"} :
              f \notin faults
         /\ AgentFails => "failure" \notin faults /\ "blocked" \notin faults
         /\ ServiceRefuses => "interrupt" \notin faults /\ "crash" \notin faults
  BY DEF AgentFails, ServiceRefuses

\* Who gets to the effect finds no request of an earlier call at work: the lock keeps
\* it out while the sender waits, and the lease when the sender is gone.
LEMMA NoneAtWorkOnEntry ==
  ASSUME Usual, OnceInv, CoverInv \/ WaitInv, NEW c \in Callers, LedgerStep(c),
         pc'[c] = "execute", NEW q \in Requests, Working(q)
  PROVE  FALSE
  <1>1. pc[c] = "begin" \/ (pc[c] = "takeover" /\ Ledger!Stale(row))
    BY StepEnters
  <1>2. CASE CoverInv
    <2>1. since[q] \in 0..ServerMax /\ row.age \in Nat
      BY DEF Usual, Sound, TypesInv, Server!TypeOK, Ledger!TypeOK
    <2>2. row.status # "absent" /\ row.age <= Lease
      BY <1>2, <2>1, WriteAssumption, CallerAssumption DEF CoverInv, Covered
    <2> QED
      BY <1>1, <1>2, <2>1, <2>2, CallerAssumption DEF CoverInv, BegunOnce, Ledger!Stale
  <1>3. CASE WaitInv
    <2>1. PICK d \in Callers : sent[d] = q
      BY <1>3 DEF WaitInv
    <2>2. pc[d] = "execute"
      BY <2>1, WriteAssumption DEF OnceInv
    <2> QED
      BY <1>1, <2>2, OneInside
  <1> QED
    BY <1>2, <1>3

LEMMA OnceNext ==
  ASSUME Usual, OnceInv, (AgentFails /\ CoverInv) \/ (ServiceRefuses /\ WaitInv), [Next]_vars
  PROVE  OnceInv'
  <1> USE WriteAssumption DEF OnceInv, Working
  <1>0. /\ Ledger!TypeOK /\ Server!TypeOK /\ SentTyped
        /\ sent \in [Callers -> Requests \cup {NoRequest}]
        /\ stage \in [Requests -> Server!Stages]
        /\ applied \in 0..2
    BY DEF Usual, Sound, TypesInv, SentTyped, Server!TypeOK, Server!MaxApplied
  \* a step of the agent that starts no request
  <1>1. ASSUME UNCHANGED serverVars,
               \A d \in Callers, q \in Requests :
                 pc'[d] = "execute" /\ Working(q) => pc[d] = "execute" /\ sent'[d] = sent[d],
               \A d \in Callers :
                 sent'[d] # NoRequest => sent'[d] = sent[d] /\ (pc[d] = "execute" => pc'[d] = "execute")
        PROVE  OnceInv'
    BY <1>1 DEF serverVars
  <1>2. ASSUME NEW c \in Callers, LedgerStep(c) PROVE OnceInv'
    <2>1. UNCHANGED <<serverVars, sent>>
      BY <1>2 DEF LedgerStep
    <2>2. \A d \in Callers, q \in Requests : pc'[d] = "execute" /\ Working(q) => pc[d] = "execute"
      BY <1>2, StepEnters, NoneAtWorkOnEntry
    <2>3. \A d \in Callers : sent[d] # NoRequest => (pc[d] = "execute" => pc'[d] = "execute")
      BY <1>2, StepEnters
    <2> QED
      BY <1>1, <2>1, <2>2, <2>3
  <1>3. ASSUME NEW c \in Callers, Send(c) PROVE OnceInv'
    <2>1. PICK q \in Requests : Server!Deliver(q) /\ sent' = [sent EXCEPT ![c] = q]
      BY <1>3 DEF Send
    <2>2. \A p \in Requests : ~Working(p)
      BY <1>3 DEF Send
    <2>3. \A d \in Callers : pc[d] = "execute" => d = c
      BY <1>3, OneInside DEF Send
    <2>4. /\ stage' = [stage EXCEPT ![q] = "arrived"] /\ stage[q] = "free"
          /\ UNCHANGED <<record, applied>> /\ pc' = pc
      BY <1>3, <2>1 DEF Send, Server!Deliver, ledgerVars
    <2>5. \A p \in Requests : Working(p)' => p = q
      BY <1>0, <2>2, <2>4
    <2>6. stage'[q] = "arrived" /\ \A p \in Requests \ {q} : stage'[p] = stage[p]
      BY <1>0, <2>4
    <2>7. \A p \in Requests : stage'[p] # "executing" /\ stage[p] # "applied" /\ stage'[p] # "lost"
      BY <2>2, <2>6 DEF Server!AtWork
    <2>8. \A d \in Callers : (sent'[d] # NoRequest => pc'[d] = "execute")
                             /\ (pc'[d] = "execute" => sent'[d] = q)
      BY <1>0, <1>3, <2>1, <2>3, <2>4 DEF Send
    <2> QED
      BY <1>0, <2>4, <2>5, <2>7, <2>8
  <1>4. ASSUME NEW c \in Callers, NotLanded(c) PROVE OnceInv'
    BY <1>0, <1>1, <1>4 DEF NotLanded, Ledger!Return, Ledger!TypeOK
  <1>5. ASSUME NEW c \in Callers, Answered(c) \/ RailBlocks(c) PROVE OnceInv'
    <2>1. /\ sent[c] \in Requests /\ stage[sent[c]] = "replied"
          /\ stage' = [stage EXCEPT ![sent[c]] = "free"] /\ UNCHANGED <<record, applied>>
          /\ sent' = [sent EXCEPT ![c] = NoRequest] /\ pc' = [pc EXCEPT ![c] = "finish"]
      BY <1>0, <1>5 DEF Answered, RailBlocks, Server!Forget, Ledger!Return
    <2>2. \A p \in Requests : stage'[p] = stage[p] \/ (stage'[p] = "free" /\ stage[p] = "replied")
      BY <1>0, <2>1
    <2>3. \A d \in Callers : \/ sent'[d] = NoRequest /\ pc'[d] # "execute"
                             \/ sent'[d] = sent[d] /\ pc'[d] = pc[d]
      BY <1>0, <2>1 DEF Ledger!TypeOK
    <2> QED
      BY <1>0, <2>1, <2>2, <2>3 DEF Server!AtWork
  <1>6. ASSUME NEW c \in Callers, LostReply(c) PROVE FALSE
    BY <1>0, <1>6, OutOfScope DEF LostReply
  <1>7. ASSUME NEW c \in Callers, Interrupt(c) PROVE OnceInv'
    BY <1>0, <1>1, <1>7 DEF Interrupt, Ledger!Interrupt, Ledger!GiveUp, Ledger!Leave, Ledger!TypeOK
  <1>8. ASSUME NEW r \in Replicas, Crash(r) PROVE OnceInv'
    BY <1>0, <1>1, <1>8 DEF Crash, Ledger!Crash, Ledger!TypeOK
  <1>9. ASSUME NEW q \in Requests, ServerStep(q) PROVE OnceInv'
    <2>0. UNCHANGED <<pc, sent>>
      BY <1>9 DEF ServerStep, ledgerVars
    <2>1. CASE Server!Replay(q) \/ Server!Refuse(q) \/ Server!Forget(q)
      <3>1. /\ stage' = [stage EXCEPT ![q] = stage'[q]] /\ stage'[q] \in {"replied", "free"}
            /\ stage[q] # "applied" /\ UNCHANGED <<record, applied>>
        BY <1>0, <2>1 DEF Server!Replay, Server!Refuse, Server!Forget, Server!Answer
      <3>2. \A p \in Requests : stage'[p] = stage[p] \/ stage'[p] \in {"replied", "free"}
        BY <1>0, <3>1
      <3> QED
        BY <1>0, <2>0, <3>1, <3>2 DEF Server!AtWork
    <2>2. CASE Server!Miss(q)
      <3>1. stage[q] = "arrived" /\ stage' = [stage EXCEPT ![q] = "executing"]
            /\ UNCHANGED <<record, applied>> /\ ~record.present
        BY <2>2 DEF Server!Miss
      <3>2. applied = 0
        BY <1>0, <3>1 DEF Server!AtWork
      <3>3. \A p \in Requests : stage'[p] = IF p = q THEN "executing" ELSE stage[p]
        BY <1>0, <3>1
      <3> QED
        BY <1>0, <2>0, <3>1, <3>2, <3>3 DEF Server!AtWork
    <2>3. CASE Server!Commit(q)
      <3>1. stage[q] = "executing" /\ stage' = [stage EXCEPT ![q] = "applied"]
            /\ record' = record /\ applied = 0 /\ applied' = 1
        BY <2>3 DEF Server!Commit, Server!MaxApplied
      <3>2. \A p \in Requests : stage'[p] = IF p = q THEN "applied" ELSE stage[p]
        BY <1>0, <3>1
      <3> QED
        BY <1>0, <2>0, <3>1, <3>2 DEF Server!AtWork
    <2>4. CASE Server!Record(q)
      <3>1. stage' = [stage EXCEPT ![q] = "replied"] /\ record'.present /\ applied' = applied
        BY <2>4 DEF Server!Record, Server!Answer
      <3>2. \A p \in Requests : stage'[p] = IF p = q THEN "replied" ELSE stage[p]
        BY <1>0, <3>1
      <3> QED
        BY <1>0, <2>0, <3>1, <3>2 DEF Server!AtWork
    <2> QED
      BY <1>9, <2>1, <2>2, <2>3, <2>4, OutOfScope DEF ServerStep
  <1>10. CASE ServerFault
    BY <1>10, OutOfScope DEF ServerFault
  <1>11. CASE Tick
    <2>1. record'.present = record.present
      BY <1>0, <1>11 DEF Tick, Server!Tick, Server!TypeOK
    <2> QED
      BY <1>11, <2>1 DEF Tick, Ledger!Tick, Server!Tick
  <1>12. CASE UNCHANGED vars
    BY <1>12 DEF vars, ledgerVars, serverVars
  <1> QED
    BY <1>2, <1>3, <1>4, <1>5, <1>6, <1>7, <1>8, <1>9, <1>10, <1>11, <1>12 DEF Next

\* As long as only the agent fails, a request at work is covered by its row.
LEMMA CoverNext ==
  ASSUME Usual, OnceInv, CoverInv, AgentFails, [Next]_vars
  PROVE  CoverInv'
  <1> USE WriteAssumption DEF CoverInv
  <1>0. /\ Ledger!TypeOK /\ Server!TypeOK /\ SentTyped
        /\ sent \in [Callers -> Requests \cup {NoRequest}]
        /\ stage \in [Requests -> Server!Stages]
        /\ since \in [Requests -> 0..ServerMax]
        /\ reply \in [Requests -> {"none", "success", "failure"}]
        /\ row.age \in Nat
    BY DEF Usual, Sound, TypesInv, SentTyped, Server!TypeOK, Ledger!TypeOK
  <1>1. "failure" \notin faults /\ "blocked" \notin faults
    BY OutOfScope
  \* no statement makes the row older, and none removes it
  <1>2. ASSUME NEW c \in Callers, UNCHANGED serverVars,
               LedgerStep(c) \/ Ledger!Interrupt(c) \/ Ledger!GiveUp(c)
        PROVE  CoverInv'
    <2>1. FailureFree' /\ BegunOnce'
      BY <1>2, CallFailureFree
    <2>2. row' = row \/ (row'.age = 0 /\ row'.status # "absent")
      BY <1>2, RowRenewed
    <2>3. Covered'
      BY <1>0, <1>2, <2>2, CallerAssumption DEF Covered, Working, serverVars
    <2> QED
      BY <1>2, <2>1, <2>3 DEF RepliesGood, serverVars
  <1>3. ASSUME NEW c \in Callers, LedgerStep(c) PROVE CoverInv'
    BY <1>2, <1>3 DEF LedgerStep
  <1>4. ASSUME NEW c \in Callers, Send(c) PROVE CoverInv'
    <2>1. PICK q \in Requests : Server!Deliver(q)
      BY <1>4 DEF Send
    <2>2. row.status # "absent" /\ row.age <= Deadline
      <3>1. c \in Capped /\ pc[c] = "execute" /\ elapsed[c] \in Nat
        BY <1>0, <1>4 DEF Usual, CappedProcess, Send, Ledger!TypeOK
      <3>2. row.status # "absent" /\ row.age <= elapsed[c] /\ elapsed[c] <= Deadline
        BY <3>1 DEF Usual, Sound, LF!LeaseInv, LF!LeaseCoversRun, LF!DeadlineInv, LF!Running
      <3> QED
        BY <1>0, <3>1, <3>2, CallerAssumption
    <2>3. FailureFree' /\ BegunOnce' /\ row' = row
      BY <1>4 DEF Send, ledgerVars, FailureFree, BegunOnce
    <2>4. \A p \in Requests :
            /\ since'[p] = IF p = q THEN 0 ELSE since[p]
            /\ stage'[p] = IF p = q THEN "arrived" ELSE stage[p]
            /\ reply'[p] = reply[p]
      BY <1>0, <2>1 DEF Server!Deliver
    <2>5. Covered'
      BY <1>0, <2>2, <2>3, <2>4, CallerAssumption DEF Covered, Working
    <2> QED
      BY <2>3, <2>4, <2>5 DEF RepliesGood
  <1>5. ASSUME NEW c \in Callers, NotLanded(c) \/ RailBlocks(c) \/ LostReply(c) PROVE FALSE
    BY <1>0, <1>1, <1>5, OutOfScope DEF NotLanded, RailBlocks, LostReply, OnceInv
  <1>6. ASSUME NEW c \in Callers, Answered(c) PROVE CoverInv'
    <2>1. Ledger!Return(c, "succeeded") /\ sent[c] \in Requests /\ Server!Forget(sent[c])
      BY <1>0, <1>6 DEF Answered, RepliesGood
    <2>2. FailureFree' /\ BegunOnce' /\ row' = row
      BY <2>1, CallFailureFree DEF Ledger!Return
    <2>3. \A p \in Requests :
            \/ stage'[p] = "free"
            \/ stage'[p] = stage[p] /\ since'[p] = since[p] /\ reply'[p] = reply[p]
      BY <1>0, <2>1 DEF Server!Forget
    <2>4. Covered'
      BY <2>2, <2>3 DEF Covered, Working, Server!AtWork
    <2> QED
      BY <2>2, <2>3, <2>4 DEF RepliesGood
  <1>7. ASSUME NEW c \in Callers, Interrupt(c) PROVE CoverInv'
    BY <1>2, <1>7 DEF Interrupt
  <1>8. ASSUME NEW r \in Replicas, Crash(r) PROVE CoverInv'
    <2>1. UNCHANGED <<row, serverVars>>
      BY <1>8 DEF Crash, Ledger!Crash
    <2>2. FailureFree' /\ BegunOnce'
      BY <1>0, <1>8 DEF Crash, Ledger!Crash, Ledger!Absent, Ledger!Record, Ledger!TypeOK,
                        FailureFree, BegunOnce
    <2> QED
      BY <2>1, <2>2 DEF serverVars, Covered, Working, RepliesGood
  <1>9. ASSUME NEW q \in Requests, ServerStep(q) PROVE CoverInv'
    <2>1. FailureFree' /\ BegunOnce' /\ row' = row
      BY <1>9 DEF ServerStep, ledgerVars, FailureFree, BegunOnce
    <2>2. \/ Server!Replay(q) \/ Server!Miss(q) \/ Server!Commit(q) \/ Server!Record(q)
          \/ Server!Forget(q)
      BY <1>1, <1>9, OutOfScope DEF ServerStep
    <2>3. \A p \in Requests : stage'[p] \in Server!AtWork =>
            stage[p] \in Server!AtWork /\ since'[p] = since[p]
      BY <1>0, <2>2 DEF Server!Replay, Server!Miss, Server!Commit, Server!Record, Server!Forget,
                        Server!Answer, Server!AtWork
    <2>4. RepliesGood'
      BY <1>0, <2>2 DEF Server!Replay, Server!Miss, Server!Commit, Server!Record, Server!Forget,
                        Server!Answer, RepliesGood
    <2>5. Covered'
      BY <2>1, <2>3 DEF Covered, Working
    <2> QED
      BY <2>1, <2>4, <2>5
  <1>10. CASE ServerFault
    BY <1>10, OutOfScope DEF ServerFault
  <1>11. CASE Tick
    <2>1. Server!OnTime /\ Server!Tick /\ Ledger!Tick
      BY <1>11, OutOfScope DEF Tick
    <2>2. FailureFree' /\ BegunOnce'
      BY <1>0, <2>1 DEF Ledger!Tick, Ledger!Aged, Ledger!TypeOK, FailureFree, BegunOnce
    <2>3. row'.status = row.status /\ row'.age <= row.age + 1 /\ row'.age \in Nat
      BY <1>0, <2>1, CallerAssumption DEF Ledger!Tick, Ledger!Aged, Ledger!Older, Ledger!TypeOK
    <2>4. \A p \in Requests : Working(p)' => Working(p) /\ since'[p] = since[p] + 1
      BY <1>0, <2>1 DEF Server!OnTime, Server!Tick, Working
    <2>5. Covered'
      BY <1>0, <2>3, <2>4, CallerAssumption DEF Covered
    <2> QED
      BY <2>1, <2>2, <2>5 DEF Server!Tick, RepliesGood
  <1>12. CASE UNCHANGED vars
    BY <1>12 DEF vars, ledgerVars, serverVars, FailureFree, BegunOnce, Covered, Working, RepliesGood
  <1> QED
    BY <1>3, <1>4, <1>5, <1>6, <1>7, <1>8, <1>9, <1>10, <1>11, <1>12 DEF Next

\* As long as only the service refuses, nobody stops waiting for a request at work.
LEMMA WaitNext ==
  ASSUME Usual, OnceInv, WaitInv, ServiceRefuses, [Next]_vars
  PROVE  WaitInv'
  <1> USE WriteAssumption DEF WaitInv, Working
  <1>0. /\ sent \in [Callers -> Requests \cup {NoRequest}]
        /\ stage \in [Requests -> Server!Stages]
    BY DEF Usual, Sound, TypesInv, SentTyped, Server!TypeOK
  <1>1. ASSUME NEW c \in Callers, LedgerStep(c) \/ NotLanded(c) PROVE WaitInv'
    BY <1>1 DEF LedgerStep, NotLanded, serverVars
  <1>2. ASSUME NEW c \in Callers, Send(c) PROVE WaitInv'
    <2>1. PICK q \in Requests : Server!Deliver(q) /\ sent' = [sent EXCEPT ![c] = q]
      BY <1>2 DEF Send
    <2>2. sent[c] = NoRequest /\ sent'[c] = q /\ \A d \in Callers \ {c} : sent'[d] = sent[d]
      BY <1>0, <1>2, <2>1 DEF Send
    <2>3. \A p \in Requests \ {q} : stage'[p] = stage[p]
      BY <1>0, <2>1 DEF Server!Deliver
    <2> QED
      BY <2>2, <2>3
  <1>3. ASSUME NEW c \in Callers, Answered(c) \/ RailBlocks(c) PROVE WaitInv'
    <2>1. /\ sent[c] \in Requests /\ Server!Forget(sent[c])
          /\ sent' = [sent EXCEPT ![c] = NoRequest]
      BY <1>0, <1>3 DEF Answered, RailBlocks
    <2>2. \A p \in Requests : Working(p)' => Working(p) /\ p # sent[c]
      BY <1>0, <2>1 DEF Server!Forget, Server!AtWork
    <2>3. \A d \in Callers \ {c} : sent'[d] = sent[d]
      BY <1>0, <2>1
    <2> QED
      BY <2>2, <2>3
  <1>4. ASSUME NEW c \in Callers, LostReply(c) \/ Interrupt(c) PROVE FALSE
    BY <1>0, <1>4, OutOfScope DEF LostReply, Interrupt, OnceInv
  <1>5. ASSUME NEW r \in Replicas, Crash(r) PROVE FALSE
    BY <1>5, OutOfScope DEF Crash
  <1>6. ASSUME NEW q \in Requests, ServerStep(q) PROVE WaitInv'
    <2>1. \A p \in Requests : Working(p)' => Working(p)
      BY <1>0, <1>6 DEF ServerStep, Server!Replay, Server!Miss, Server!LookupFails, Server!Commit,
                        Server!Refuse, Server!Record, Server!RecordFails, Server!Forget,
                        Server!Answer, Server!AtWork
    <2> QED
      BY <1>6, <2>1 DEF ServerStep
  <1>7. CASE ServerFault
    BY <1>7, OutOfScope DEF ServerFault
  <1>8. CASE Tick \/ UNCHANGED vars
    BY <1>8 DEF Tick, Server!Tick, vars, serverVars
  <1> QED
    BY <1>1, <1>2, <1>3, <1>4, <1>5, <1>6, <1>7, <1>8 DEF Next

AtMostOnceInv ==
  /\ AgentFails => OnceInv /\ CoverInv
  /\ ServiceRefuses => OnceInv /\ WaitInv

\* The faults of a behaviour are those it starts with.
LEMMA FaultsFixed == [Next]_vars => faults' = faults
  BY DEF Next, LedgerStep, Send, NotLanded, Answered, RailBlocks, LostReply, Interrupt, Crash,
         ServerStep, ServerFault, Tick, vars

LEMMA AtMostOnceNext == Usual /\ AtMostOnceInv /\ [Next]_vars => AtMostOnceInv'
  <1> SUFFICES ASSUME Usual, AtMostOnceInv, [Next]_vars PROVE AtMostOnceInv'
    OBVIOUS
  <1>1. CASE AgentFails
    BY <1>1, OnceNext, CoverNext, WaitNext, FaultsFixed
       DEF AtMostOnceInv, AgentFails, ServiceRefuses
  <1>2. CASE ServiceRefuses
    BY <1>2, OnceNext, CoverNext, WaitNext, FaultsFixed
       DEF AtMostOnceInv, AgentFails, ServiceRefuses
  <1> QED
    BY <1>1, <1>2, FaultsFixed DEF AtMostOnceInv, AgentFails, ServiceRefuses

\* In one process whose calls all have a deadline, the write is carried out at most
\* once: whatever crashes and is cancelled and replayed on the agent's side alone,
\* and however often the service or a rail refuses (run_once with the lease of
\* lease_seconds(), ToolIdempotencyService).
THEOREM WrittenAtMostOnce ==
  ASSUME CappedProcess
  PROVE  Spec => []AppliedAtMostOnce
  <1>1. Init => AtMostOnceInv
    BY WriteAssumption
       DEF Init, Ledger!Init, Ledger!Absent, Ledger!Record, Server!Init, Server!NoRecord,
           Server!AtWork, AtMostOnceInv, OnceInv, CoverInv, WaitInv, FailureFree, BegunOnce,
           Covered, RepliesGood, Working
  <1>2. LF!Discipline /\ LF!LeaseInv /\ TypesInv /\ AtMostOnceInv /\ [Next]_vars => AtMostOnceInv'
    BY AtMostOnceNext, SameType DEF Usual, Sound, LF!Discipline
  <1>3. AtMostOnceInv => AppliedAtMostOnce
    BY DEF AtMostOnceInv, OnceInv, AgentFails, ServiceRefuses, AppliedAtMostOnce
  <1> QED
    BY <1>1, <1>2, <1>3, LedgerAlways, TypesAlways, PTL DEF Spec
=============================================================================
