------------------------- MODULE EffectLedgerProofs -------------------------
(***************************************************************************)
(* Theorems about EffectLedger, for every number of callers and replicas,  *)
(* every lease, deadline and clock skew allowed by LedgerAssumption.       *)
(***************************************************************************)
EXTENDS EffectLedger, TLAPS

\* The holder of a lock is the one caller of its replica inside run_once's
\* `async with`.
LockInv == \A c \in Callers : pc[c] \in Holding => lock[Home[c]] = c

\* asyncio.wait_for has ended a capped call by its deadline.
DeadlineInv == \A c \in Capped : elapsed[c] <= Deadline

\* A verdict about to be written is in the cache, where finish_effect takes it from.
OutcomeInv ==
    \A c \in Callers :
        pc[c] = "finish" => cache[Home[c]].status \in {"succeeded", "failed"}

\* Every variable keeps its type: statuses, ages and program counters are the
\* ones the code can write.
LEMMA TypeInit == Init => TypeOK
  BY LedgerAssumption DEF Init, TypeOK, Absent, Record, Statuses, PCs, Answers

LEMMA DecideTyped ==
    ASSUME TypeOK, NEW c \in Callers,
           NEW rec \in [status : Statuses, age : Int], Decide(c, rec)
    PROVE  /\ cache' \in [Replicas -> [status : Statuses, age : Int]]
           /\ lock' \in [Replicas -> Callers \cup {NoCaller}]
           /\ pc' \in [Callers -> PCs]
           /\ elapsed' \in [Callers -> Nat]
           /\ answer' \in [Callers -> Answers]
  <1>1. Home[c] \in Replicas
    BY LedgerAssumption
  <1>2. Record("started") \in [status : Statuses, age : Int]
    BY DEF Record, Statuses
  <1>3. CASE Verdict(rec) \in {"new", "retry_after_failure"}
    <2>1. /\ cache' = [cache EXCEPT ![Home[c]] = Record("started")]
          /\ pc' = [pc EXCEPT ![c] = "begin"]
          /\ lock' = [lock EXCEPT ![Home[c]] = c]
          /\ UNCHANGED <<elapsed, answer>>
      BY <1>3 DEF Decide
    <2> QED
      BY <1>1, <1>2, <2>1 DEF TypeOK, PCs
  <1>4. CASE Verdict(rec) = "lease_expired"
    <2>1. /\ cache' = [cache EXCEPT ![Home[c]] = rec]
          /\ pc' = [pc EXCEPT ![c] = "takeover"]
          /\ lock' = [lock EXCEPT ![Home[c]] = c]
          /\ UNCHANGED <<elapsed, answer>>
      BY <1>4 DEF Decide
    <2> QED
      BY <1>1, <2>1 DEF TypeOK, PCs
  <1>5. CASE Verdict(rec) \in {"deduplicated", "in_progress"}
    <2>1. cache' = [cache EXCEPT ![Home[c]] = rec] /\ Leave(c, Verdict(rec))
      BY <1>5 DEF Decide
    <2>2. Verdict(rec) \in Answers
      BY <1>5 DEF Answers
    <2> QED
      BY <1>1, <2>1, <2>2 DEF Leave, TypeOK, PCs
  <1> QED
    BY <1>3, <1>4, <1>5 DEF Decide

LEMMA TypeNext == TypeOK /\ OutcomeInv /\ [Next]_vars => TypeOK'
  <1> SUFFICES ASSUME TypeOK, OutcomeInv, [Next]_vars PROVE TypeOK'
    OBVIOUS
  <1> USE LedgerAssumption
  <1>h. \A c \in Callers : Home[c] \in Replicas
    OBVIOUS
  <1>r. \A s \in Statuses : Record(s) \in [status : Statuses, age : Nat]
    BY DEF Record, Statuses
  <1>1. ASSUME NEW c \in Callers, Call(c) PROVE TypeOK'
    BY <1>1 DEF Call, TypeOK, PCs
  <1>2. ASSUME NEW c \in Callers, Acquire(c) PROVE TypeOK'
    <2>1. CASE Decide(c, cache[Home[c]])
      <3>1. cache[Home[c]] \in [status : Statuses, age : Int]
        BY <1>h DEF TypeOK
      <3> QED
        BY <1>2, <2>1, <3>1, DecideTyped DEF Acquire, TypeOK
    <2>2. CASE /\ lock' = [lock EXCEPT ![Home[c]] = c]
               /\ pc' = [pc EXCEPT ![c] = "lookup"]
               /\ UNCHANGED <<cache, elapsed, answer>>
      BY <1>2, <1>h, <2>2 DEF Acquire, TypeOK, PCs
    <2> QED
      BY <1>2, <2>1, <2>2 DEF Acquire
  <1>3. ASSUME NEW c \in Callers, Lookup(c) PROVE TypeOK'
    <2> DEFINE rec == [row EXCEPT !.age = IF row.status = "absent"
                                          THEN 0 ELSE row.age + Skew[Home[c]]]
    <2>1. rec \in [status : Statuses, age : Int]
      BY <1>h DEF TypeOK
    <2>2. Decide(c, rec) /\ UNCHANGED row
      BY <1>3 DEF Lookup
    <2> HIDE DEF rec
    <2> QED
      BY <2>1, <2>2, DecideTyped DEF TypeOK
  <1>4. ASSUME NEW c \in Callers, TakeOver(c) PROVE TypeOK'
    BY <1>4, <1>h DEF TakeOver, TypeOK, PCs, Record, Statuses
  <1>5. ASSUME NEW c \in Callers, LoseTakeOver(c) PROVE TypeOK'
    BY <1>5, <1>h DEF LoseTakeOver, Leave, TypeOK, PCs, Answers
  <1>6. ASSUME NEW c \in Callers, Begin(c) PROVE TypeOK'
    BY <1>6, <1>h DEF Begin, Begun, TypeOK, PCs, Record, Statuses
  <1>7. ASSUME NEW c \in Callers, NEW s \in {"succeeded", "failed"}, Return(c, s)
        PROVE TypeOK'
    BY <1>7, <1>h DEF Return, TypeOK, PCs, Record, Statuses
  <1>8. ASSUME NEW c \in Callers, Finish(c) PROVE TypeOK'
    <2>1. PICK s \in {"succeeded", "failed"} : s = cache[Home[c]].status
      BY <1>8 DEF Finish, OutcomeInv
    <2>2. row' \in [status : Statuses, age : Nat]
      BY <1>8, <1>r, <2>1 DEF Finish, Finished, TypeOK, Statuses
    <2> QED
      BY <1>8, <1>h, <2>1, <2>2 DEF Finish, Leave, TypeOK, PCs, Answers
  <1>9. ASSUME NEW c \in Callers, Interrupt(c) PROVE TypeOK'
    <2>1. PICK s \in Statuses : s = cache[Home[c]].status
      BY <1>h DEF TypeOK
    <2>2. Committed(c) \in [status : Statuses, age : Nat]
      BY <1>r, <2>1 DEF Committed, Begun, Finished, TypeOK, Statuses
    <2> QED
      BY <1>9, <1>h, <2>2 DEF Interrupt, Leave, TypeOK, PCs, Answers
  <1>10. ASSUME NEW c \in Callers, GiveUp(c) PROVE TypeOK'
    BY <1>10 DEF GiveUp, TypeOK, PCs, Answers
  <1>11. ASSUME NEW r \in Replicas, Crash(r) PROVE TypeOK'
    BY <1>11 DEF Crash, TypeOK, PCs, Answers, Absent, Record, Statuses
  <1>12. CASE Tick
    BY <1>12 DEF Tick, Aged, Older, TypeOK, Statuses
  <1>13. CASE UNCHANGED vars
    BY <1>13 DEF vars, TypeOK
  <1> QED
    BY <1>1, <1>2, <1>3, <1>4, <1>5, <1>6, <1>7, <1>8, <1>9, <1>10, <1>11, <1>12, <1>13
       DEF Next, Step

-----------------------------------------------------------------------------
\* The lock is handed over and given back on every path, and while it is held
\* nobody else of the replica moves: the core of both invariants below.
LEMMA DecideLocks ==
    ASSUME TypeOK, LockInv, OutcomeInv, NEW c \in Callers, NEW rec, Decide(c, rec),
           lock[Home[c]] \in {NoCaller, c}
    PROVE  LockInv' /\ OutcomeInv'
  <1> USE LedgerAssumption
  <1>1. pc' \in [Callers -> PCs \cup {pc'[c]}] /\ \A d \in Callers \ {c} : pc'[d] = pc[d]
    BY DEF Decide, Leave, TypeOK
  <1>2. /\ \A r \in Replicas \ {Home[c]} : lock'[r] = lock[r] /\ cache'[r] = cache[r]
        /\ pc'[c] \in {"begin", "takeover", "idle"}
        /\ pc'[c] # "idle" => lock'[Home[c]] = c
    BY DEF Decide, Leave, TypeOK
  <1>3. ASSUME NEW d \in Callers, d # c, pc[d] \in Holding
        PROVE  Home[d] \in Replicas \ {Home[c]}
    BY <1>3 DEF LockInv
  <1>4. ASSUME NEW d \in Callers, pc'[d] \in Holding PROVE lock'[Home[d]] = d
    BY <1>1, <1>2, <1>3, <1>4 DEF LockInv, Holding, PCs
  <1>5. ASSUME NEW d \in Callers, pc'[d] = "finish"
        PROVE  cache'[Home[d]].status \in {"succeeded", "failed"}
    <2>1. d # c /\ pc[d] = "finish"
      BY <1>1, <1>2, <1>5
    <2>2. Home[d] \in Replicas \ {Home[c]}
      BY <1>3, <2>1 DEF Holding, PCs
    <2> QED
      BY <1>2, <2>1, <2>2 DEF OutcomeInv
  <1> QED
    BY <1>4, <1>5 DEF LockInv, OutcomeInv

LEMMA LeaveLocks ==
    ASSUME TypeOK, LockInv, OutcomeInv, NEW c \in Callers, NEW outcome,
           pc[c] \in Holding, Leave(c, outcome), UNCHANGED cache
    PROVE  LockInv' /\ OutcomeInv'
  <1> USE LedgerAssumption
  <1>1. ASSUME NEW d \in Callers, d # c, pc[d] \in Holding
        PROVE  Home[d] # Home[c]
    BY <1>1 DEF LockInv
  <1>2. /\ \A d \in Callers \ {c} : pc'[d] = pc[d]
        /\ \A r \in Replicas \ {Home[c]} : lock'[r] = lock[r]
        /\ pc'[c] = "idle"
    BY DEF Leave, TypeOK
  <1> QED
    BY <1>1, <1>2 DEF LockInv, OutcomeInv, Holding, PCs

LEMMA LockNext ==
    TypeOK /\ LockInv /\ OutcomeInv /\ [Next]_vars => LockInv' /\ OutcomeInv'
  <1> SUFFICES ASSUME TypeOK, LockInv, OutcomeInv, [Next]_vars
               PROVE  LockInv' /\ OutcomeInv'
    OBVIOUS
  <1> USE LedgerAssumption
  <1>0. /\ \A c, d \in Callers :
              pc[c] \in Holding /\ pc[d] \in Holding /\ Home[c] = Home[d] => c = d
        /\ \A c \in Callers : pc[c] \in Holding <=> pc[c] \notin {"idle", "waiting"}
    BY DEF LockInv, Holding, TypeOK
  <1>1. ASSUME NEW c \in Callers, Call(c) PROVE LockInv' /\ OutcomeInv'
    BY <1>1 DEF Call, LockInv, OutcomeInv, Holding, PCs, TypeOK
  <1>2. ASSUME NEW c \in Callers, Acquire(c) PROVE LockInv' /\ OutcomeInv'
    <2>1. CASE Decide(c, cache[Home[c]])
      BY <1>2, <2>1, DecideLocks DEF Acquire
    <2>2. CASE /\ lock' = [lock EXCEPT ![Home[c]] = c]
               /\ pc' = [pc EXCEPT ![c] = "lookup"]
               /\ UNCHANGED <<cache, elapsed, answer>>
      BY <1>2, <2>2 DEF Acquire, LockInv, OutcomeInv, Holding, PCs, TypeOK
    <2> QED
      BY <1>2, <2>1, <2>2 DEF Acquire
  <1>3. ASSUME NEW c \in Callers, Lookup(c) PROVE LockInv' /\ OutcomeInv'
    <2>1. lock[Home[c]] = c
      BY <1>3 DEF Lookup, LockInv, Holding, PCs
    <2> QED
      BY <1>3, <2>1, DecideLocks DEF Lookup
  <1>4. ASSUME NEW c \in Callers, TakeOver(c) PROVE LockInv' /\ OutcomeInv'
    BY <1>4, <1>0 DEF TakeOver, LockInv, OutcomeInv, Holding, PCs, TypeOK
  <1>5. ASSUME NEW c \in Callers, LoseTakeOver(c) PROVE LockInv' /\ OutcomeInv'
    BY <1>5, <1>0, LeaveLocks DEF LoseTakeOver
  <1>6. ASSUME NEW c \in Callers, Begin(c) PROVE LockInv' /\ OutcomeInv'
    BY <1>6, <1>0 DEF Begin, LockInv, OutcomeInv, Holding, PCs, TypeOK
  <1>7. ASSUME NEW c \in Callers, NEW s \in {"succeeded", "failed"}, Return(c, s)
        PROVE LockInv' /\ OutcomeInv'
    BY <1>7, <1>0 DEF Return, Record, LockInv, OutcomeInv, Holding, PCs, TypeOK
  <1>8. ASSUME NEW c \in Callers, Finish(c) PROVE LockInv' /\ OutcomeInv'
    BY <1>8, <1>0, LeaveLocks DEF Finish
  <1>9. ASSUME NEW c \in Callers, Interrupt(c) PROVE LockInv' /\ OutcomeInv'
    BY <1>9, LeaveLocks DEF Interrupt
  <1>10. ASSUME NEW c \in Callers, GiveUp(c) PROVE LockInv' /\ OutcomeInv'
    BY <1>10 DEF GiveUp, LockInv, OutcomeInv, Holding, PCs, TypeOK
  <1>11. ASSUME NEW r \in Replicas, Crash(r) PROVE LockInv' /\ OutcomeInv'
    BY <1>11 DEF Crash, LockInv, OutcomeInv, Holding, PCs, TypeOK
  <1>12. CASE Tick
    BY <1>12 DEF Tick, Aged, LockInv, OutcomeInv, TypeOK
  <1>13. CASE UNCHANGED vars
    BY <1>13 DEF vars, LockInv, OutcomeInv
  <1> QED
    BY <1>1, <1>2, <1>3, <1>4, <1>5, <1>6, <1>7, <1>8, <1>9, <1>10, <1>11, <1>12, <1>13
       DEF Next, Step

\* The part of the inductive invariant that does not speak of time.
Discipline == TypeOK /\ LockInv /\ OutcomeInv

LEMMA DisciplineHolds == Spec => []Discipline
  <1>1. Init => Discipline
    BY TypeInit DEF Init, Discipline, LockInv, OutcomeInv, Holding
  <1>2. Discipline /\ [Next]_vars => Discipline'
    BY TypeNext, LockNext DEF Discipline
  <1> QED
    BY <1>1, <1>2, PTL DEF Spec

\* Row, cache, lock and program counters keep their types in every behaviour.
THEOREM TypeCorrect == Spec => []TypeOK
  BY DisciplineHolds, PTL DEF Discipline

\* Two callers of one process never run the effect at the same time: the lock
\* of run_once is released on every path, exceptions included, and only once.
THEOREM LockWorks == Spec => []OneRunPerReplica
  <1>1. Discipline => OneRunPerReplica
    BY DEF Discipline, LockInv, OneRunPerReplica, Running, Holding, PCs
  <1> QED
    BY <1>1, DisciplineHolds, PTL

-----------------------------------------------------------------------------
(* The lease. *)

LeaseInv == LeaseCoversRun /\ DeadlineInv

\* A call that does not start to run and does not get older cannot lose its cover.
LEMMA LeaseKept ==
    ASSUME TypeOK, LeaseInv, NEW c \in Callers,
           row' = row \/ (row.status # "absent" => row'.status # "absent" /\ row'.age = 0),
           \A d \in Callers : pc'[d] \in Running => pc[d] \in Running,
           \A d \in Callers : elapsed'[d] = elapsed[d] \/ (elapsed'[d] = 0 /\ pc'[d] = "idle")
    PROVE  LeaseInv'
  <1> USE LedgerAssumption
  <1>1. ASSUME NEW d \in Capped, pc'[d] \in Running
        PROVE  row'.status # "absent" /\ row'.age <= elapsed'[d]
    <2>1. row.status # "absent" /\ row.age <= elapsed[d] /\ elapsed[d] \in Nat
      BY <1>1 DEF LeaseInv, LeaseCoversRun, TypeOK
    <2>2. elapsed'[d] = elapsed[d]
      BY <1>1 DEF Running
    <2> QED
      BY <2>1, <2>2
  <1>2. ASSUME NEW d \in Capped PROVE elapsed'[d] <= Deadline
    BY <1>2 DEF LeaseInv, DeadlineInv
  <1> QED
    BY <1>1, <1>2 DEF LeaseInv, LeaseCoversRun, DeadlineInv

LEMMA DecideKeepsLease ==
    ASSUME TypeOK, LeaseInv, NEW c \in Callers, NEW rec, Decide(c, rec), UNCHANGED row
    PROVE  LeaseInv'
  <1>1. /\ \A d \in Callers : pc'[d] \in Running => pc[d] \in Running
        /\ \A d \in Callers : elapsed'[d] = elapsed[d] \/ (elapsed'[d] = 0 /\ pc'[d] = "idle")
    BY DEF Decide, Leave, TypeOK, Running
  <1> QED
    BY <1>1, LeaseKept

LEMMA LeaveKeepsLease ==
    ASSUME TypeOK, LeaseInv, NEW c \in Callers, NEW outcome, Leave(c, outcome),
           row' = row \/ (row.status # "absent" => row'.status # "absent" /\ row'.age = 0)
    PROVE  LeaseInv'
  <1>1. /\ \A d \in Callers : pc'[d] \in Running => pc[d] \in Running
        /\ \A d \in Callers : elapsed'[d] = elapsed[d] \/ (elapsed'[d] = 0 /\ pc'[d] = "idle")
    BY DEF Leave, TypeOK, Running
  <1> QED
    BY <1>1, LeaseKept

LEMMA LeaseNext == TypeOK /\ OutcomeInv /\ LeaseInv /\ [Next]_vars => LeaseInv'
  <1> SUFFICES ASSUME TypeOK, OutcomeInv, LeaseInv, [Next]_vars PROVE LeaseInv'
    OBVIOUS
  <1> USE LedgerAssumption
  <1>1. ASSUME NEW c \in Callers, Call(c) PROVE LeaseInv'
    <2>1. /\ row' = row
          /\ \A d \in Callers : pc'[d] \in Running => pc[d] \in Running
          /\ \A d \in Callers : elapsed'[d] = elapsed[d]
      BY <1>1 DEF Call, TypeOK, Running
    <2> QED
      BY <2>1, LeaseKept
  <1>2. ASSUME NEW c \in Callers, Acquire(c) PROVE LeaseInv'
    <2>1. CASE Decide(c, cache[Home[c]])
      BY <1>2, <2>1, DecideKeepsLease DEF Acquire
    <2>2. CASE pc' = [pc EXCEPT ![c] = "lookup"] /\ UNCHANGED <<cache, elapsed, answer>>
      <3>1. /\ row' = row
            /\ \A d \in Callers : pc'[d] \in Running => pc[d] \in Running
            /\ \A d \in Callers : elapsed'[d] = elapsed[d]
        BY <1>2, <2>2 DEF Acquire, TypeOK, Running
      <3> QED
        BY <3>1, LeaseKept
    <2> QED
      BY <1>2, <2>1, <2>2 DEF Acquire
  <1>3. ASSUME NEW c \in Callers, Lookup(c) PROVE LeaseInv'
    BY <1>3, DecideKeepsLease DEF Lookup
  <1>4. ASSUME NEW c \in Callers, TakeOver(c) PROVE LeaseInv'
    BY <1>4 DEF TakeOver, Stale, LeaseInv, LeaseCoversRun, DeadlineInv, TypeOK, Running
  <1>5. ASSUME NEW c \in Callers, LoseTakeOver(c) PROVE LeaseInv'
    BY <1>5, LeaveKeepsLease DEF LoseTakeOver
  <1>6. ASSUME NEW c \in Callers, Begin(c) PROVE LeaseInv'
    BY <1>6 DEF Begin, Begun, Record, LeaseInv, LeaseCoversRun, DeadlineInv, TypeOK, Running
  <1>7. ASSUME NEW c \in Callers, NEW s \in {"succeeded", "failed"}, Return(c, s)
        PROVE LeaseInv'
    BY <1>7 DEF Return, LeaseInv, LeaseCoversRun, DeadlineInv, TypeOK, Running
  <1>8. ASSUME NEW c \in Callers, Finish(c) PROVE LeaseInv'
    <2>1. PICK s \in {"succeeded", "failed"} : s = cache[Home[c]].status
      BY <1>8 DEF Finish, OutcomeInv
    <2>2. row.status # "absent" => row'.status # "absent" /\ row'.age = 0
      BY <1>8, <2>1 DEF Finish, Finished, Record
    <2> QED
      BY <1>8, <2>2, LeaveKeepsLease DEF Finish
  <1>9. ASSUME NEW c \in Callers, Interrupt(c) PROVE LeaseInv'
    <2>1. pc[c] = "finish" => cache[Home[c]].status \in {"succeeded", "failed"}
      BY DEF OutcomeInv
    <2>2. \/ Committed(c) = row
          \/ row.status # "absent" => Committed(c).status # "absent" /\ Committed(c).age = 0
      BY <2>1 DEF Committed, Stale, Begun, Finished, Record, TypeOK
    <2> QED
      BY <1>9, <2>2, LeaveKeepsLease DEF Interrupt
  <1>10. ASSUME NEW c \in Callers, GiveUp(c) PROVE LeaseInv'
    <2>1. /\ row' = row
          /\ \A d \in Callers : pc'[d] \in Running => pc[d] \in Running
          /\ \A d \in Callers :
                elapsed'[d] = elapsed[d] \/ (elapsed'[d] = 0 /\ pc'[d] = "idle")
      BY <1>10 DEF GiveUp, TypeOK, Running
    <2> QED
      BY <2>1, LeaseKept
  <1>11. ASSUME NEW r \in Replicas, Crash(r) PROVE LeaseInv'
    BY <1>11 DEF Crash, LeaseInv, LeaseCoversRun, DeadlineInv, TypeOK, Running
  <1>12. CASE Tick
    <2>1. ASSUME NEW d \in Capped PROVE elapsed'[d] <= Deadline
      BY <1>12, <2>1 DEF Tick, Older, LeaseInv, DeadlineInv, TypeOK
    <2>2. ASSUME NEW d \in Capped, pc'[d] \in Running
          PROVE  row'.status # "absent" /\ row'.age <= elapsed'[d]
      <3>1. row.status # "absent" /\ row.age <= elapsed[d] /\ row.age \in Nat
            /\ elapsed[d] \in Nat
        BY <1>12, <2>2 DEF Tick, LeaseInv, LeaseCoversRun, TypeOK
      <3>2. elapsed'[d] = Older(elapsed[d]) /\ row' \in {row, [row EXCEPT !.age = Older(row.age)]}
        BY <1>12, <2>2 DEF Tick, Aged, Running
      <3> QED
        BY <3>1, <3>2 DEF Older, TypeOK
    <2> QED
      BY <2>1, <2>2 DEF LeaseInv, LeaseCoversRun, DeadlineInv
  <1>13. CASE UNCHANGED vars
    BY <1>13 DEF vars, LeaseInv, LeaseCoversRun, DeadlineInv
  <1> QED
    BY <1>1, <1>2, <1>3, <1>4, <1>5, <1>6, <1>7, <1>8, <1>9, <1>10, <1>11, <1>12, <1>13
       DEF Next, Step

LEMMA LeaseHolds == Spec => [](Discipline /\ LeaseInv)
  <1>1. Init => LeaseInv
    BY LedgerAssumption DEF Init, LeaseInv, LeaseCoversRun, DeadlineInv, Running
  <1>2. Discipline /\ LeaseInv /\ [Next]_vars => LeaseInv'
    BY LeaseNext DEF Discipline
  <1> QED
    BY <1>1, <1>2, DisciplineHolds, PTL DEF Spec

\* While a capped call runs, the row is no older than the call.
THEOREM LeaseCovers == Spec => []LeaseCoversRun
  BY LeaseHolds, PTL DEF LeaseInv

\* Only claim_stale_effect leads from the decision to take over to the effect.
LEMMA OnlyTheCasTakesOver ==
    ASSUME TypeOK, [Next]_vars, NEW c \in Callers, TookOver(c)
    PROVE  Stale(row)
  <1>1. pc[c] = "takeover" /\ pc'[c] = "execute"
    BY DEF TookOver
  <1>2. ASSUME NEW d \in Callers, Call(d) \/ GiveUp(d) \/ LoseTakeOver(d) \/ Finish(d)
                                  \/ Interrupt(d) PROVE FALSE
    BY <1>1, <1>2 DEF Call, GiveUp, LoseTakeOver, Finish, Interrupt, Leave, TypeOK
  <1>3. ASSUME NEW d \in Callers, Acquire(d) \/ Lookup(d) PROVE FALSE
    BY <1>1, <1>3 DEF Acquire, Lookup, Decide, Leave, TypeOK
  <1>4. ASSUME NEW d \in Callers, NEW s \in {"succeeded", "failed"}, Begin(d) \/ Return(d, s)
        PROVE FALSE
    BY <1>1, <1>4 DEF Begin, Return, TypeOK
  <1>5. ASSUME NEW d \in Callers, TakeOver(d) PROVE Stale(row)
    BY <1>5 DEF TakeOver
  <1>6. ASSUME NEW r \in Replicas, Crash(r) PROVE FALSE
    BY <1>1, <1>6 DEF Crash, TypeOK
  <1>7. CASE Tick \/ UNCHANGED vars
    BY <1>1, <1>7 DEF Tick, vars
  <1> QED
    BY <1>2, <1>3, <1>4, <1>5, <1>6, <1>7 DEF Next, Step

\* "Exactly one caller may take it over": no takeover starts while any capped
\* call is carrying the effect out or writing its verdict, for any number of
\* replicas with clocks that disagree.
THEOREM TakeoverIsSafe == Spec => TakeoverExcludesLive
  <1>1. Discipline /\ LeaseInv /\ [Next]_vars
        => \A c \in Callers : TookOver(c) => \A d \in Capped : pc[d] \notin Running
    <2> SUFFICES ASSUME Discipline, LeaseInv, [Next]_vars, NEW c \in Callers, TookOver(c),
                        NEW d \in Capped, pc[d] \in Running
                 PROVE  FALSE
      OBVIOUS
    <2>1. row.age > Lease /\ row.age \in Nat
      BY OnlyTheCasTakesOver DEF Discipline, Stale, TypeOK
    <2>2. row.age <= elapsed[d] /\ elapsed[d] <= Deadline /\ elapsed[d] \in Nat
      BY LedgerAssumption DEF LeaseInv, LeaseCoversRun, DeadlineInv, Discipline, TypeOK
    <2> QED
      BY <2>1, <2>2, LedgerAssumption
  <1> QED
    BY <1>1, LeaseHolds, PTL DEF Spec, TakeoverExcludesLive

-----------------------------------------------------------------------------
(* One replica: the only deployment in which the lock reaches every caller. *)

OneReplica == \A c, d \in Callers : Home[c] = Home[d]

\* A success on record is known to the process or will be read before anything
\* else is done: nobody is between a decision to run and the verdict.
SuccessInv ==
    row.status = "succeeded" =>
        \A c \in Callers :
            /\ pc[c] \in {"idle", "waiting", "lookup"}
            /\ cache[Home[c]].status \in {"absent", "succeeded"}

LEMMA Alone ==
    ASSUME OneReplica, Discipline, NEW c \in Callers, pc[c] \in Holding
    PROVE  \A d \in Callers \ {c} : pc[d] \in {"idle", "waiting"}
  BY DEF OneReplica, Discipline, LockInv, TypeOK, Holding, PCs

LEMMA SuccessNext ==
    ASSUME OneReplica, Discipline, SuccessInv, [Next]_vars
    PROVE  SuccessInv'
  <1> USE LedgerAssumption
  <1>t. TypeOK /\ OutcomeInv
    BY DEF Discipline
  <1>1. ASSUME NEW c \in Callers, Call(c) PROVE SuccessInv'
    BY <1>1, <1>t DEF Call, SuccessInv, TypeOK
  <1>2. ASSUME NEW c \in Callers, Acquire(c) PROVE SuccessInv'
    <2>1. CASE cache[Home[c]].status # "absent" /\ Decide(c, cache[Home[c]])
      BY <1>2, <1>t, <2>1 DEF Acquire, Decide, Verdict, Leave, SuccessInv, TypeOK
    <2>2. CASE /\ pc' = [pc EXCEPT ![c] = "lookup"]
               /\ UNCHANGED <<cache, elapsed, answer>>
      BY <1>2, <1>t, <2>2 DEF Acquire, SuccessInv, TypeOK
    <2> QED
      BY <1>2, <2>1, <2>2 DEF Acquire
  <1>3. ASSUME NEW c \in Callers, Lookup(c) PROVE SuccessInv'
    <2> DEFINE rec == [row EXCEPT !.age = IF row.status = "absent"
                                          THEN 0 ELSE row.age + Skew[Home[c]]]
    <2>1. Decide(c, rec) /\ UNCHANGED row /\ rec.status = row.status
      BY <1>3, <1>t DEF Lookup, TypeOK
    <2> HIDE DEF rec
    <2> QED
      BY <1>t, <2>1 DEF Decide, Verdict, Leave, SuccessInv, TypeOK, OneReplica
  <1>4. ASSUME NEW c \in Callers, TakeOver(c) \/ LoseTakeOver(c) PROVE SuccessInv'
    BY <1>4, <1>t DEF TakeOver, LoseTakeOver, Stale, Leave, SuccessInv, TypeOK
  <1>5. ASSUME NEW c \in Callers, Begin(c) PROVE SuccessInv'
    BY <1>5, <1>t DEF Begin, Begun, Record, SuccessInv, TypeOK
  <1>6. ASSUME NEW c \in Callers, NEW s \in {"succeeded", "failed"}, Return(c, s)
        PROVE SuccessInv'
    BY <1>6, <1>t DEF Return, SuccessInv, TypeOK
  <1>7. ASSUME NEW c \in Callers, pc[c] = "finish", Leave(c, cache[Home[c]].status)
                                                  \/ Leave(c, "raised"),
               row' \in {row, Finished(row, cache[Home[c]].status)}, UNCHANGED cache
        PROVE  SuccessInv'
    <2>1. \A d \in Callers \ {c} : pc[d] \in {"idle", "waiting"}
      BY <1>7, Alone DEF Holding, PCs
    <2>2. /\ pc'[c] = "idle"
          /\ \A d \in Callers \ {c} : pc'[d] = pc[d]
      BY <1>7, <1>t DEF Leave, TypeOK
    <2>3. row.status # "succeeded"
      BY <1>7 DEF SuccessInv
    <2>4. CASE row'.status = "succeeded"
      <3>1. cache[Home[c]].status = "succeeded"
        BY <1>7, <2>3, <2>4 DEF Finished, Record
      <3> QED
        BY <1>7, <2>1, <2>2, <3>1 DEF SuccessInv, OneReplica
    <2> QED
      BY <2>4 DEF SuccessInv
  <1>8. ASSUME NEW c \in Callers, Finish(c) PROVE SuccessInv'
    BY <1>7, <1>8 DEF Finish
  <1>9. ASSUME NEW c \in Callers, Interrupt(c) PROVE SuccessInv'
    <2>1. CASE pc[c] = "finish"
      <3>1. Committed(c) = Finished(row, cache[Home[c]].status)
        BY <2>1 DEF Committed
      <3> QED
        BY <1>7, <1>9, <2>1, <3>1 DEF Interrupt
    <2>2. CASE pc[c] # "finish"
      <3>1. row.status = "succeeded" => row' = row
        BY <1>9, <2>2 DEF Interrupt, Committed, Stale, SuccessInv
      <3>2. row'.status = "succeeded" => row.status = "succeeded"
        BY <1>9, <1>t, <2>2 DEF Interrupt, Committed, Stale, Begun, Record, TypeOK
      <3> QED
        BY <1>9, <1>t, <3>1, <3>2 DEF Interrupt, Leave, SuccessInv, TypeOK
    <2> QED
      BY <2>1, <2>2
  <1>10. ASSUME NEW c \in Callers, GiveUp(c) PROVE SuccessInv'
    BY <1>10, <1>t DEF GiveUp, SuccessInv, TypeOK
  <1>11. ASSUME NEW r \in Replicas, Crash(r) PROVE SuccessInv'
    BY <1>11, <1>t DEF Crash, Absent, Record, SuccessInv, TypeOK
  <1>12. CASE Tick
    BY <1>12, <1>t DEF Tick, Aged, SuccessInv, TypeOK
  <1>13. CASE UNCHANGED vars
    BY <1>13 DEF vars, SuccessInv
  <1> QED
    BY <1>1, <1>2, <1>3, <1>4, <1>5, <1>6, <1>8, <1>9, <1>10, <1>11, <1>12, <1>13
       DEF Next, Step

LEMMA SuccessHolds ==
    ASSUME OneReplica
    PROVE  Spec => [](Discipline /\ SuccessInv)
  <1>1. Init => SuccessInv
    <2>1. Init => row = [status |-> "absent", age |-> 0]
      BY DEF Init, Absent, Record
    <2> QED
      BY <2>1 DEF SuccessInv
  <1>2. Discipline /\ SuccessInv /\ [Next]_vars => SuccessInv'
    BY SuccessNext
  <1> QED
    BY <1>1, <1>2, DisciplineHolds, PTL DEF Spec

\* With one replica the per-process lock is a lock on the action: no two
\* callers carry the effect out at the same time, as run_once's docstring says.
THEOREM ExecutesOnceAtATime ==
    ASSUME OneReplica
    PROVE  Spec => []NoConcurrentExecution
  <1>1. ASSUME Discipline, NEW c \in Callers, NEW d \in Callers,
               pc[c] = "execute", pc[d] = "execute"
        PROVE  c = d
    <2>1. pc[c] \in Holding /\ pc[d] \in Holding
      BY <1>1 DEF Holding, PCs
    <2> QED
      BY <1>1, <2>1 DEF Discipline, LockInv, OneReplica
  <1>2. Discipline => NoConcurrentExecution
    BY <1>1 DEF NoConcurrentExecution
  <1> QED
    BY <1>2, DisciplineHolds, PTL

\* "A succeeded row short-circuits the call": with one replica nobody carries
\* the effect out once its success is on record, whatever crashes, deadlines
\* and failing statements came before.
THEOREM SuccessIsNotRepeated ==
    ASSUME OneReplica
    PROVE  Spec => []NoRunAfterSuccess
  <1>1. SuccessInv => NoRunAfterSuccess
    BY DEF SuccessInv, NoRunAfterSuccess, Running
  <1> QED
    BY <1>1, SuccessHolds, PTL

LEMMA OwnerIs ==
    ASSUME OneReplica, Discipline
    PROVE  /\ \A c \in Callers : pc[c] \in Running => Owner = c
           /\ (\A c \in Callers : pc[c] \notin Running) => Owner = NoCaller
  <1>1. ASSUME NEW c \in Callers, pc[c] \in Running PROVE Owner = c
    <2>1. \A d \in Callers : pc[d] \in Running => d = c
      BY <1>1, Alone DEF Holding, Running, PCs
    <2> QED
      BY <1>1, <2>1 DEF Owner
  <1>2. ASSUME \A c \in Callers : pc[c] \notin Running PROVE Owner = NoCaller
    BY <1>2 DEF Owner
  <1> QED
    BY <1>1, <1>2

\* A step in which nobody starts or stops running keeps the owner.
LEMMA OwnerKept ==
    ASSUME OneReplica, Discipline, Discipline',
           \A c \in Callers : pc'[c] \in Running <=> pc[c] \in Running
    PROVE  Owner' = Owner
  <1>1. CASE \E c \in Callers : pc[c] \in Running
    <2>1. PICK c \in Callers : pc[c] \in Running
      BY <1>1
    <2>2. Owner = c
      BY <2>1, OwnerIs
    <2>3. \A d \in Callers : pc'[d] \in Running => d = c
      BY <2>1, Alone DEF Holding, Running, PCs
    <2>4. pc'[c] \in Running
      BY <2>1
    <2>5. Owner' = c
      BY <2>3, <2>4 DEF Owner
    <2> QED
      BY <2>2, <2>5
  <1>2. CASE \A c \in Callers : pc[c] \notin Running
    <2>1. Owner = NoCaller
      BY <1>2, OwnerIs
    <2>2. Owner' = NoCaller
      BY <1>2 DEF Owner
    <2> QED
      BY <2>1, <2>2
  <1> QED
    BY <1>1, <1>2

\* The owner leaves: with its verdict on record or without.
LEMMA OwnerSettles ==
    ASSUME OneReplica, Discipline, Discipline', NEW c \in Callers, pc[c] \in Running,
           \A d \in Callers : pc'[d] \in Running => pc[d] \in Running /\ d # c
    PROVE  Promise!Settle
  <1>1. Owner = c
    BY OwnerIs
  <1>2. \A d \in Callers : pc'[d] \notin Running
    BY Alone DEF Holding, Running, PCs
  <1>3. Owner' = NoCaller
    BY <1>2 DEF Owner
  <1>4. (row.status = "succeeded")' \in BOOLEAN
    OBVIOUS
  <1> QED
    BY <1>1, <1>3, <1>4 DEF Promise!Settle

LEMMA OwnerStarts ==
    ASSUME OneReplica, Discipline, Discipline', SuccessInv, NEW c \in Callers,
           pc[c] \in {"takeover", "begin"}, pc' = [pc EXCEPT ![c] = "execute"],
           row'.status # "succeeded"
    PROVE  Promise!Own(c)
  <1>1. \A d \in Callers : pc[d] \notin Running
    BY Alone DEF Holding, Running, PCs
  <1>2. Owner = NoCaller
    BY <1>1, OwnerIs
  <1>3. row.status # "succeeded"
    BY DEF SuccessInv
  <1>4. \A d \in Callers : pc'[d] \in Running <=> d = c
    BY <1>1 DEF Discipline, TypeOK, Running
  <1>5. Owner' = c
    BY <1>4 DEF Owner
  <1> QED
    BY <1>2, <1>3, <1>5 DEF Promise!Own

LEMMA StepRefines ==
    ASSUME OneReplica, Discipline, Discipline', SuccessInv, [Next]_vars
    PROVE  [Promise!Next]_(Promise!vars)
  <1> DEFINE Done == row.status = "succeeded"
  <1> USE LedgerAssumption
  <1>t. TypeOK
    BY DEF Discipline
  <1>s. ASSUME \A c \in Callers : pc'[c] \in Running <=> pc[c] \in Running, Done' <=> Done
        PROVE  UNCHANGED Promise!vars
    <2>1. Owner' = Owner
      BY <1>s, OwnerKept
    <2> QED
      BY <1>s, <2>1 DEF Promise!vars
  <1>1. ASSUME NEW c \in Callers, Call(c) \/ GiveUp(c) PROVE UNCHANGED Promise!vars
    <2>1. \A d \in Callers : pc'[d] \in Running <=> pc[d] \in Running
      BY <1>1, <1>t DEF Call, GiveUp, TypeOK, Running
    <2> QED
      BY <1>1, <1>s, <2>1 DEF Call, GiveUp
  <1>2. ASSUME NEW c \in Callers, Acquire(c) \/ Lookup(c) \/ LoseTakeOver(c)
        PROVE  UNCHANGED Promise!vars
    <2>1. \A d \in Callers : pc'[d] \in Running <=> pc[d] \in Running
      BY <1>2, <1>t DEF Acquire, Lookup, LoseTakeOver, Decide, Leave, TypeOK, Running
    <2> QED
      BY <1>2, <1>s, <2>1 DEF Acquire, Lookup, LoseTakeOver
  <1>3. ASSUME NEW c \in Callers, TakeOver(c) PROVE Promise!Own(c)
    <2>1. row'.status # "succeeded"
      BY <1>3, <1>t DEF TakeOver, Stale, TypeOK
    <2> QED
      BY <1>3, <2>1, OwnerStarts DEF TakeOver
  <1>4. ASSUME NEW c \in Callers, Begin(c) PROVE Promise!Own(c)
    <2>1. row.status # "succeeded"
      BY <1>4 DEF Begin, SuccessInv
    <2>2. row'.status # "succeeded"
      BY <1>4, <1>t, <2>1 DEF Begin, Begun, Record, TypeOK
    <2> QED
      BY <1>4, <2>2, OwnerStarts DEF Begin
  <1>5. ASSUME NEW c \in Callers, NEW s \in {"succeeded", "failed"}, Return(c, s)
        PROVE  UNCHANGED Promise!vars
    <2>1. \A d \in Callers : pc'[d] \in Running <=> pc[d] \in Running
      BY <1>5, <1>t DEF Return, TypeOK, Running
    <2> QED
      BY <1>5, <1>s, <2>1 DEF Return
  <1>6. ASSUME NEW c \in Callers, Finish(c) PROVE Promise!Settle
    <2>1. \A d \in Callers : pc'[d] \in Running => pc[d] \in Running /\ d # c
      BY <1>6, <1>t DEF Finish, Leave, TypeOK, Running
    <2> QED
      BY <1>6, <2>1, OwnerSettles DEF Finish, Running
  <1>7. ASSUME NEW c \in Callers, Interrupt(c)
        PROVE  Promise!Settle \/ UNCHANGED Promise!vars
    <2>1. \A d \in Callers : pc'[d] \in Running <=> pc[d] \in Running /\ d # c
      BY <1>7, <1>t DEF Interrupt, Leave, TypeOK, Running
    <2>2. CASE pc[c] \in Running
      BY <2>1, <2>2, OwnerSettles
    <2>3. CASE pc[c] \notin Running
      <3>1. Done' <=> Done
        BY <1>7, <1>t, <2>3
           DEF Interrupt, Committed, Stale, Begun, Record, SuccessInv, TypeOK, Running
      <3> QED
        BY <1>s, <2>1, <2>3, <3>1
    <2> QED
      BY <2>2, <2>3
  <1>8. ASSUME NEW r \in Replicas, Crash(r)
        PROVE  Promise!Settle \/ UNCHANGED Promise!vars
    <2>1. \A d \in Callers : pc'[d] = IF Home[d] = r THEN "idle" ELSE pc[d]
      BY <1>8 DEF Crash
    <2>2. CASE \E c \in Callers : pc[c] \in Running /\ Home[c] = r
      <3>1. PICK c \in Callers : pc[c] \in Running /\ Home[c] = r
        BY <2>2
      <3>2. \A d \in Callers : pc'[d] \notin Running
        BY <2>1, <3>1 DEF OneReplica, Running
      <3> QED
        BY <3>1, <3>2, OwnerSettles
    <2>3. CASE \A c \in Callers : pc[c] \in Running => Home[c] # r
      <3>1. \A d \in Callers : pc'[d] \in Running <=> pc[d] \in Running
        BY <2>1, <2>3 DEF Running
      <3> QED
        BY <1>8, <1>s, <3>1 DEF Crash
    <2> QED
      BY <2>2, <2>3
  <1>9. CASE Tick
    <2>1. Done' <=> Done
      BY <1>9, <1>t DEF Tick, Aged, TypeOK
    <2> QED
      BY <1>9, <1>s, <2>1 DEF Tick
  <1>10. CASE UNCHANGED vars
    BY <1>10, <1>s DEF vars
  <1> QED
    BY <1>1, <1>2, <1>3, <1>4, <1>5, <1>6, <1>7, <1>8, <1>9, <1>10
       DEF Next, Step, Promise!Next

\* With one replica the ledger keeps the promise of WriteOnce: one owner at a
\* time, and none after a recorded success.
THEOREM LedgerImplementsWriteOnce ==
    ASSUME OneReplica
    PROVE  Spec => PromiseKept
  <1>1. Init => Promise!Init
    <2> SUFFICES ASSUME Init PROVE Promise!Init
      OBVIOUS
    <2>1. row = [status |-> "absent", age |-> 0] /\ \A c \in Callers : pc[c] \notin Running
      BY DEF Init, Absent, Record, Running
    <2>2. Owner = NoCaller
      BY <2>1 DEF Owner
    <2>3. (row.status = "succeeded") = FALSE
      BY <2>1
    <2> QED
      BY <2>2, <2>3 DEF Promise!Init
  <1>2. Discipline /\ Discipline' /\ SuccessInv /\ [Next]_vars => [Promise!Next]_(Promise!vars)
    BY StepRefines
  <1> QED
    BY <1>1, <1>2, SuccessHolds, PTL DEF Spec, PromiseKept, Promise!Spec
=============================================================================
