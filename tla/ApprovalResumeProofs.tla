------------------------- MODULE ApprovalResumeProofs -------------------------
(* Theorems about ApprovalResume, for any number of handlers and of Java     *)
(* callers, any limit on the attempts and every set of faults.               *)
EXTENDS ApprovalResume, TLAPS

(*************************** the inductive invariant ***********************)
HandlerRecords ==
  [stage : Stages, via : {"resolve", "http"}, value : {"none"} \cup Decisions,
   refs : BOOLEAN, outcome : Outcomes, read : Rows \cup {<<>>}]
CallerRecords ==
  [pc : {"idle", "reread", "ready", "waiting", "marking"},
   value : {"none"} \cup Decisions, refs : BOOLEAN, sent : Handlers \cup {NoHandler},
   result : {"none", "succeeded", "stale", "failed"}]

\* A handler that brings a decision to the graph brings the one that row r has on
\* record, one that writes the row back has read that decision, and the outcome
\* it reports is one of a graph that was run, n times so far.
HandlerOK(x, r, n) ==
  /\ x.stage \in {"precheck", "recheck", "running", "mark", "load", "save"} => r.status \in Decisions
  /\ x.stage \in {"precheck", "recheck", "running"} => x.value = r.status
  /\ x.stage = "mark" => x.outcome # "none"
  /\ x.stage \in {"load", "save"} => n > 0
  /\ x.stage = "save" => x.read \in Rows /\ x.read.status = r.status
  /\ x.outcome = "resumed" => n > 0

\* A Java caller works on a row that is decided, sends that decision, waits for a
\* handler, and reports a success only of a graph that was run.
CallerOK(x, r, n) ==
  /\ x.pc \in {"reread", "ready"} => r.status \in Decisions
  /\ x.pc = "ready" => x.value = r.status
  /\ x.pc = "waiting" => x.sent \in Handlers
  /\ x.pc = "marking" => x.result # "none"
  /\ x.result = "succeeded" => n > 0

DeliveryInv ==
  /\ TypeOK
  /\ \A h \in Handlers : HandlerOK(handler[h], row, runs)
  /\ \A j \in JavaCallers : CallerOK(java[j], row, runs)
  /\ SuccessIsApplied

\* What a step may do to the row and to the count of runs.
Progress ==
  /\ row' \in Rows /\ runs' \in 0..2
  /\ Decided => row'.status = row.status
  /\ runs > 0 => runs' > 0
  /\ row'.resume = "succeeded" => runs' > 0

\* Whoever did not move is in order after such a step.
LEMMA OthersStayInOrder ==
  ASSUME Progress
  PROVE  /\ \A x : HandlerOK(x, row, runs) => HandlerOK(x, row', runs')
         /\ \A x : CallerOK(x, row, runs) => CallerOK(x, row', runs')
  BY DEF Progress, HandlerOK, CallerOK, Decided

\* A step of one handler.
LEMMA HandlerMoves ==
  ASSUME DeliveryInv, Progress, NEW h \in Handlers, NEW x \in HandlerRecords,
         HandlerOK(x, row', runs'), handler' = [handler EXCEPT ![h] = x],
         thread' \in {"running", "paused", "advanced", "finished"},
         UNCHANGED <<java, guard, faults>>
  PROVE  DeliveryInv'
  <1>1. TypeOK'
    BY DEF DeliveryInv, TypeOK, Progress, HandlerRecords
  <1>2. \A g \in Handlers : handler'[g] = IF g = h THEN x ELSE handler[g]
    BY DEF DeliveryInv, TypeOK
  <1>3. \A g \in Handlers : HandlerOK(handler'[g], row', runs')
    BY <1>2, OthersStayInOrder DEF DeliveryInv
  <1>4. \A j \in JavaCallers : CallerOK(java'[j], row', runs')
    BY OthersStayInOrder DEF DeliveryInv
  <1> QED
    BY <1>1, <1>3, <1>4 DEF DeliveryInv, Progress, SuccessIsApplied

\* A step of one Java caller.
LEMMA CallerMoves ==
  ASSUME DeliveryInv, Progress, NEW j \in JavaCallers, NEW x \in CallerRecords,
         CallerOK(x, row', runs'), Move(j, x), guard' \in JavaCallers \cup {NoCaller},
         UNCHANGED <<handler, thread, faults>>
  PROVE  DeliveryInv'
  <1>1. TypeOK'
    BY DEF DeliveryInv, TypeOK, Progress, CallerRecords, Move
  <1>2. \A i \in JavaCallers : java'[i] = IF i = j THEN x ELSE java[i]
    BY DEF DeliveryInv, TypeOK, Move
  <1>3. \A i \in JavaCallers : CallerOK(java'[i], row', runs')
    BY <1>2, OthersStayInOrder DEF DeliveryInv
  <1>4. \A g \in Handlers : HandlerOK(handler'[g], row', runs')
    BY OthersStayInOrder DEF DeliveryInv
  <1> QED
    BY <1>1, <1>3, <1>4 DEF DeliveryInv, Progress, SuccessIsApplied

\* A step in which a handler and a Java caller meet.
LEMMA BothMove ==
  ASSUME DeliveryInv, NEW h \in Handlers, NEW x \in HandlerRecords,
         NEW j \in JavaCallers, NEW y \in CallerRecords,
         HandlerOK(x, row, runs), CallerOK(y, row, runs),
         handler' = [handler EXCEPT ![h] = x], Move(j, y),
         guard' \in JavaCallers \cup {NoCaller}, UNCHANGED <<row, thread, runs, faults>>
  PROVE  DeliveryInv'
  <1>1. TypeOK'
    <2>1. handler' \in [Handlers -> HandlerRecords] /\ java' \in [JavaCallers -> CallerRecords]
      BY DEF DeliveryInv, TypeOK, HandlerRecords, CallerRecords, Move
    <2> QED
      BY <2>1 DEF DeliveryInv, TypeOK, HandlerRecords, CallerRecords
  <1>2. \A g \in Handlers : handler'[g] = IF g = h THEN x ELSE handler[g]
    BY DEF DeliveryInv, TypeOK
  <1>3. \A i \in JavaCallers : java'[i] = IF i = j THEN y ELSE java[i]
    BY DEF DeliveryInv, TypeOK, Move
  <1> QED
    BY <1>1, <1>2, <1>3 DEF DeliveryInv, SuccessIsApplied

\* The records that handlers and callers start from are in order.
LEMMA FreeIsOK ==
  /\ FreeHandler \in HandlerRecords /\ \A r, n : HandlerOK(FreeHandler, r, n)
  /\ IdleCaller \in CallerRecords /\ \A r, n : CallerOK(IdleCaller, r, n)
  BY DEF FreeHandler, IdleCaller, HandlerRecords, CallerRecords, HandlerOK, CallerOK,
         Stages, Outcomes

\* Nothing is decided at the start.
LEMMA DeliveryInit == Init => DeliveryInv
  <1> SUFFICES ASSUME Init PROVE DeliveryInv
    OBVIOUS
  <1>1. TypeOK
    BY ApprovalAssumption, ScenarioAssumption, FreeIsOK
       DEF Init, TypeOK, Rows, ResumeStates, HandlerRecords, CallerRecords
  <1>2. /\ \A h \in Handlers : HandlerOK(handler[h], row, runs)
        /\ \A j \in JavaCallers : CallerOK(java[j], row, runs)
    BY FreeIsOK DEF Init
  <1> QED
    BY <1>1, <1>2 DEF DeliveryInv, Init, SuccessIsApplied

\* Steps that leave the row and the count alone make no progress to account for.
LEMMA RowAlone == DeliveryInv /\ UNCHANGED <<row, runs>> => Progress
  BY DEF DeliveryInv, TypeOK, Progress, SuccessIsApplied

\* The compare-and-set decides only what was pending.
LEMMA DecidedOnce ==
  ASSUME DeliveryInv, NEW value \in Decisions,
         DecidedAs(value) \/ (row.status = value /\ UNCHANGED row), UNCHANGED runs
  PROVE  Progress /\ row'.status = value
  <1>1. CASE DecidedAs(value)
    <2>1. row' = [row EXCEPT !.status = value, !.resume = "queued", !.attempts = 0]
      BY <1>1 DEF DecidedAs
    <2>2. row.status = "pending" /\ ~Decided
      BY <1>1 DEF DecidedAs, Decided, Decisions
    <2>3. row \in Rows /\ runs \in 0..2
      BY DEF DeliveryInv, TypeOK
    <2>4. row' \in Rows /\ row'.status = value /\ row'.resume = "queued"
      <3>1. 0 \in 0..MaxAttempts /\ value \in {"pending"} \cup Decisions
        BY ApprovalAssumption
      <3> QED
        BY <2>1, <2>3, <3>1 DEF Rows, ResumeStates
    <2> QED
      BY <2>2, <2>3, <2>4 DEF Progress
  <1>2. CASE row.status = value /\ UNCHANGED row
    BY <1>2, RowAlone
  <1> QED
    BY <1>1, <1>2

\* A handler that enters resolve_approval has nothing of a row yet.
LEMMA EnterKeeps ==
  ASSUME DeliveryInv, NEW h \in Handlers, Enter(h), Progress
  PROVE  DeliveryInv'
  <1> DEFINE x == [handler[h] EXCEPT !.via = "resolve",
                     !.stage = IF row.refs THEN "claim" ELSE "unresumable"]
  <1>1. handler[h] \in HandlerRecords /\ HandlerOK(handler[h], row, runs)
    BY DEF DeliveryInv, TypeOK, HandlerRecords
  <1>2. x \in HandlerRecords
    BY <1>1 DEF HandlerRecords, Stages
  <1>3. x.stage \in {"claim", "unresumable"} /\ x.outcome = handler[h].outcome
    BY <1>1 DEF HandlerRecords
  <1>4. HandlerOK(x, row', runs')
    BY <1>1, <1>3 DEF HandlerOK, Progress
  <1>5. handler' = [handler EXCEPT ![h] = x]
    BY DEF Enter
  <1> HIDE DEF x
  <1> QED
    BY <1>2, <1>4, <1>5, HandlerMoves DEF Enter, DeliveryInv, TypeOK

\* Every step of a handler keeps the deliveries in order.
LEMMA HandlerNext ==
  ASSUME DeliveryInv, NEW h \in Handlers, HandlerStep(h) \/ Die(h)
  PROVE  DeliveryInv'
  <1> DEFINE x == handler[h]
  <1>0. /\ x \in HandlerRecords /\ HandlerOK(x, row, runs)
        /\ row \in Rows /\ runs \in 0..2 /\ thread \in {"running", "paused", "advanced", "finished"}
    BY DEF DeliveryInv, TypeOK, HandlerRecords
  <1>1. CASE Unresumable(h)
    <2>1. Progress
      BY <1>0, <1>1 DEF Unresumable, Progress, Rows, ResumeStates, DeliveryInv, SuccessIsApplied
    <2> QED
      BY <1>0, <1>1, <2>1, FreeIsOK, HandlerMoves DEF Unresumable
  <1>2. CASE Claim(h)
    <2> DEFINE y == [x EXCEPT !.stage = "recheck", !.value = row.status, !.refs = row.refs]
    <2>1. row' = [row EXCEPT !.resume = "running", !.attempts = OneMore(@)] /\ UNCHANGED runs
      BY <1>2 DEF Claim
    <2>2. OneMore(row.attempts) \in 0..MaxAttempts
      BY <1>0, ApprovalAssumption DEF OneMore, Rows
    <2>3. Progress /\ row'.status = row.status
      BY <1>0, <2>1, <2>2 DEF Progress, Rows, ResumeStates
    <2>4. row.status \in Decisions
      BY <1>2 DEF Claim, Claimable, Decided
    <2>5. y \in HandlerRecords /\ HandlerOK(y, row', runs')
      BY <1>0, <2>1, <2>3, <2>4 DEF HandlerRecords, HandlerOK, Stages, Rows
    <2>6. handler' = [handler EXCEPT ![h] = y] /\ UNCHANGED <<thread, java, guard, faults>>
      BY <1>2 DEF Claim
    <2> HIDE DEF y
    <2> QED
      BY <1>0, <2>3, <2>5, <2>6, HandlerMoves
  <1>3. CASE LoseClaim(h)
    BY <1>0, <1>3, RowAlone, FreeIsOK, HandlerMoves DEF LoseClaim
  <1>4. CASE Precheck(h)
    <2>1. PICK y \in {[x EXCEPT !.stage = "recheck"],
                      [x EXCEPT !.stage = "replied", !.outcome = "stale"]} :
            handler' = [handler EXCEPT ![h] = y]
      BY <1>4 DEF Precheck
    <2>2. x.stage = "precheck" /\ UNCHANGED <<row, thread, runs, java, guard, faults>>
      BY <1>4 DEF Precheck
    <2>3. y \in HandlerRecords /\ HandlerOK(y, row', runs')
      BY <1>0, <2>1, <2>2 DEF HandlerRecords, HandlerOK, Stages, Outcomes
    <2> QED
      BY <1>0, <2>1, <2>2, <2>3, RowAlone, HandlerMoves
  <1>5. CASE Recheck(h)
    <2>1. PICK y \in {[x EXCEPT !.stage = "running"],
                      [x EXCEPT !.stage = "mark", !.outcome = "stale"]} :
            handler' = [handler EXCEPT ![h] = y]
      BY <1>5 DEF Recheck
    <2>2. x.stage = "recheck" /\ UNCHANGED <<row, thread, runs, java, guard, faults>>
      BY <1>5 DEF Recheck
    <2>3. y \in HandlerRecords /\ HandlerOK(y, row', runs')
      BY <1>0, <2>1, <2>2 DEF HandlerRecords, HandlerOK, Stages, Outcomes
    <2> QED
      BY <1>0, <2>1, <2>2, <2>3, RowAlone, HandlerMoves
  <1>6. CASE RunEnds(h)
    <2> DEFINE y == [x EXCEPT !.stage = "mark", !.outcome = "resumed"]
    <2>1. handler' = [handler EXCEPT ![h] = y]
      BY <1>6 DEF RunEnds
    <2>2. /\ x.stage = "running" /\ UNCHANGED <<row, java, guard, faults>>
          /\ thread' = "finished"
          /\ runs' \in 0..2 /\ runs' > 0
      BY <1>0, <1>6 DEF RunEnds
    <2>3. Progress
      BY <1>0, <2>2 DEF Progress
    <2>4. y \in HandlerRecords /\ HandlerOK(y, row', runs')
      BY <1>0, <2>2 DEF HandlerRecords, HandlerOK, Stages, Outcomes
    <2> HIDE DEF y
    <2> QED
      BY <2>1, <2>2, <2>3, <2>4, HandlerMoves
  <1>7. CASE RunFails(h)
    <2> DEFINE y == [x EXCEPT !.stage = "mark", !.outcome = "failed"]
    <2>1. /\ x.stage = "running" /\ handler' = [handler EXCEPT ![h] = y]
          /\ thread' \in {thread, "advanced"} /\ UNCHANGED <<row, runs, java, guard, faults>>
      BY <1>7 DEF RunFails
    <2>2. y \in HandlerRecords /\ HandlerOK(y, row', runs')
      BY <1>0, <2>1 DEF HandlerRecords, HandlerOK, Stages, Outcomes
    <2> HIDE DEF y
    <2> QED
      BY <1>0, <2>1, <2>2, RowAlone, HandlerMoves
  <1>8. ASSUME x.stage = "mark", Recorded(h), Progress, UNCHANGED <<thread, runs, java, guard, faults>>
        PROVE  DeliveryInv'
    <2>1. PICK y \in {FreeHandler, [x EXCEPT !.stage = "replied"]}
                     \cup {z \in {[x EXCEPT !.stage = "load"]} : Applied(h)} :
            handler' = [handler EXCEPT ![h] = y]
      BY <1>0, <1>8 DEF Recorded, HandlerRecords
    <2>2. CASE y = FreeHandler
      BY <1>0, <1>8, <2>1, <2>2, FreeIsOK, HandlerMoves
    <2>3. CASE y = [x EXCEPT !.stage = "replied"]
      <3>1. y \in HandlerRecords /\ HandlerOK(y, row', runs')
        BY <1>0, <1>8, <2>3 DEF HandlerRecords, HandlerOK, Stages, Progress
      <3> QED
        BY <1>0, <1>8, <2>1, <3>1, HandlerMoves
    <2>4. CASE y = [x EXCEPT !.stage = "load"] /\ Applied(h)
      <3>1. y \in HandlerRecords /\ HandlerOK(y, row', runs')
        BY <1>0, <1>8, <2>4 DEF HandlerRecords, HandlerOK, Stages, Progress, Applied, Decided
      <3> QED
        BY <1>0, <1>8, <2>1, <3>1, HandlerMoves
    <2> QED
      BY <2>1, <2>2, <2>3, <2>4
  <1>9. CASE Mark(h)
    <2>1. /\ x.stage = "mark" /\ Recorded(h) /\ UNCHANGED <<thread, runs, java, guard, faults>>
          /\ row' = IF row.resume = "succeeded" THEN row ELSE [row EXCEPT !.resume = ResumeState(h)]
      BY <1>9 DEF Mark
    <2>2. /\ ResumeState(h) \in ResumeStates
          /\ ResumeState(h) = "succeeded" => runs > 0
      BY <1>0, <2>1 DEF ResumeState, Applied, ResumeStates, HandlerOK, HandlerRecords, Outcomes
    <2>3. Progress
      BY <1>0, <2>1, <2>2 DEF Progress, Rows, DeliveryInv, SuccessIsApplied
    <2> QED
      BY <2>1, <2>3, <1>8
  <1>10. CASE MarkFails(h)
    BY <1>10, <1>8, RowAlone DEF MarkFails
  <1>11. CASE Load(h)
    <2> DEFINE y == [x EXCEPT !.stage = "save", !.read = row]
    <2>1. /\ x.stage = "load" /\ handler' = [handler EXCEPT ![h] = y]
          /\ UNCHANGED <<row, thread, runs, java, guard, faults>>
      BY <1>11 DEF Load
    <2>2. y \in HandlerRecords /\ HandlerOK(y, row', runs')
      BY <1>0, <2>1 DEF HandlerRecords, HandlerOK, Stages
    <2> HIDE DEF y
    <2> QED
      BY <1>0, <2>1, <2>2, RowAlone, HandlerMoves
  <1>12. CASE Save(h)
    <2>1. /\ x.stage = "save" /\ row' = x.read /\ handler' = [handler EXCEPT ![h] = FreeHandler]
          /\ UNCHANGED <<thread, runs, java, guard, faults>>
      BY <1>12 DEF Save
    <2>2. Progress
      BY <1>0, <2>1 DEF Progress, HandlerOK
    <2> QED
      BY <1>0, <2>1, <2>2, FreeIsOK, HandlerMoves
  <1>13. CASE Unheard(h)
    BY <1>0, <1>13, RowAlone, FreeIsOK, HandlerMoves DEF Unheard
  <1>14. CASE Die(h)
    <2> DEFINE y == IF x.via = "http" THEN [FreeHandler EXCEPT !.stage = "dead"] ELSE FreeHandler
    <2>1. /\ handler' = [handler EXCEPT ![h] = y] /\ UNCHANGED <<row, runs, java, guard, faults>>
          /\ thread' \in {thread, "advanced"}
      BY <1>14 DEF Die
    <2>2. y \in HandlerRecords /\ HandlerOK(y, row', runs')
      BY DEF FreeHandler, HandlerRecords, HandlerOK, Stages, Outcomes
    <2> HIDE DEF y
    <2> QED
      BY <1>0, <2>1, <2>2, RowAlone, HandlerMoves
  <1> QED
    BY <1>1, <1>2, <1>3, <1>4, <1>5, <1>6, <1>7, <1>9, <1>10, <1>11, <1>12, <1>13, <1>14
       DEF HandlerStep

\* Every step of a Java caller keeps the deliveries in order.
LEMMA JavaNext ==
  ASSUME DeliveryInv, NEW j \in JavaCallers,
         \/ \E value \in Decisions : JavaDecide(j, value)
         \/ JavaReconcile(j) \/ JavaStep(j) \/ JavaStop(j)
  PROVE  DeliveryInv'
  <1> DEFINE x == java[j]
  <1>0. /\ x \in CallerRecords /\ CallerOK(x, row, runs) /\ row \in Rows
        /\ guard \in JavaCallers \cup {NoCaller}
    BY DEF DeliveryInv, TypeOK, CallerRecords
  <1>a. x.value \in {"none"} \cup Decisions /\ x.refs \in BOOLEAN
        /\ row.refs \in BOOLEAN /\ row.status \in {"pending"} \cup Decisions
    BY <1>0 DEF CallerRecords, Rows
  <1>1. ASSUME NEW value \in Decisions, JavaDecide(j, value) PROVE DeliveryInv'
    <2> DEFINE y == [x EXCEPT !.pc = "reread"]
    <2>1. Progress /\ row'.status = value
      BY <1>1, DecidedOnce DEF JavaDecide
    <2>2. Move(j, y) /\ UNCHANGED <<thread, runs, handler, guard, faults>>
      BY <1>1 DEF JavaDecide
    <2>3. y \in CallerRecords /\ CallerOK(y, row', runs')
      BY <1>0, <2>1, <2>2 DEF CallerRecords, CallerOK
    <2> HIDE DEF y
    <2> QED
      BY <1>0, <2>1, <2>2, <2>3, CallerMoves
  <1>2. ASSUME row.status \in Decisions, UNCHANGED <<row, thread, runs, handler, guard, faults>>,
               Move(j, [x EXCEPT !.pc = "ready", !.value = row.status, !.refs = row.refs])
        PROVE  DeliveryInv'
    <2> DEFINE y == [x EXCEPT !.pc = "ready", !.value = row.status, !.refs = row.refs]
    <2>1. y \in CallerRecords /\ CallerOK(y, row', runs')
      BY <1>0, <1>a, <1>2 DEF CallerRecords, CallerOK
    <2> HIDE DEF y
    <2> QED
      BY <1>0, <1>2, <2>1, RowAlone, CallerMoves DEF y
  <1>3. ASSUME Move(j, IdleCaller), UNCHANGED <<thread, runs, handler, faults>>, Progress,
               guard' \in {guard, NoCaller}
        PROVE  DeliveryInv'
    BY <1>0, <1>3, FreeIsOK, CallerMoves
  <1>4. CASE JavaReread(j)
    <2>1. row.status \in Decisions /\ UNCHANGED <<row, thread, runs, handler, guard, faults>>
      BY <1>0, <1>4 DEF JavaReread, CallerOK
    <2>2. CASE row.resume \in {"queued", "failed"}
      BY <1>2, <1>4, <2>1, <2>2 DEF JavaReread
    <2>3. CASE row.resume \notin {"queued", "failed"}
      BY <1>3, <1>4, <2>1, <2>3, RowAlone DEF JavaReread
    <2> QED
      BY <2>2, <2>3
  <1>5. CASE JavaReconcile(j)
    BY <1>2, <1>5 DEF JavaReconcile, Decided
  <1>6. CASE JavaSend(j)
    <2>1. PICK h \in Handlers :
            /\ handler' = [handler EXCEPT ![h] = [FreeHandler EXCEPT !.stage = "precheck",
                  !.via = "http", !.value = x.value, !.refs = x.refs]]
            /\ Move(j, [x EXCEPT !.pc = "waiting", !.sent = h])
      BY <1>6 DEF JavaSend
    <2> DEFINE y == [x EXCEPT !.pc = "waiting", !.sent = h]
               z == [FreeHandler EXCEPT !.stage = "precheck", !.via = "http",
                                        !.value = x.value, !.refs = x.refs]
    <2>2. x.pc = "ready" /\ guard' = j /\ UNCHANGED <<row, thread, runs, faults>>
      BY <1>6 DEF JavaSend
    <2>3. y \in CallerRecords /\ CallerOK(y, row, runs)
      BY <1>0, <2>2 DEF CallerRecords, CallerOK
    <2>4. z \in HandlerRecords
      BY <1>a DEF FreeHandler, HandlerRecords, Stages, Outcomes
    <2>5. z.stage = "precheck" /\ z.value = x.value /\ z.outcome = "none"
      BY DEF FreeHandler
    <2>6. HandlerOK(z, row, runs)
      BY <1>0, <2>2, <2>5 DEF HandlerOK, CallerOK
    <2> HIDE DEF y, z
    <2> QED
      BY <2>1, <2>2, <2>3, <2>4, <2>6, BothMove DEF y, z
  <1>7. CASE JavaRefused(j)
    BY <1>3, <1>7, RowAlone DEF JavaRefused
  <1>8. CASE JavaAnswer(j)
    <2> DEFINE h == x.sent
               y == [x EXCEPT !.pc = "marking", !.sent = NoHandler,
                              !.result = Classified(handler[h].outcome)]
    <2>1. /\ x.pc = "waiting" /\ Move(j, y) /\ handler' = [handler EXCEPT ![h] = FreeHandler]
          /\ UNCHANGED <<row, thread, runs, guard, faults>>
      BY <1>8 DEF JavaAnswer
    <2>2. h \in Handlers
      BY <1>0, <2>1 DEF CallerOK
    <2>3. handler[h].outcome \in Outcomes /\ HandlerOK(handler[h], row, runs)
      BY <2>2 DEF DeliveryInv, TypeOK
    <2>4. /\ Classified(handler[h].outcome) \in {"succeeded", "stale", "failed"}
          /\ Classified(handler[h].outcome) = "succeeded" => runs > 0
      BY <2>3 DEF Classified, Outcomes, HandlerOK
    <2>5. y \in CallerRecords /\ CallerOK(y, row, runs)
      BY <1>0, <2>1, <2>4 DEF CallerRecords, CallerOK
    <2> HIDE DEF h, y
    <2> QED
      BY <1>0, <2>1, <2>2, <2>5, FreeIsOK, BothMove
  <1>9. CASE JavaTimeout(j)
    <2> DEFINE y == [x EXCEPT !.pc = "marking", !.sent = NoHandler, !.result = "failed"]
    <2>1. Move(j, y) /\ UNCHANGED <<row, thread, runs, handler, guard, faults>>
      BY <1>9 DEF JavaTimeout
    <2>2. y \in CallerRecords /\ CallerOK(y, row', runs')
      BY <1>0, <2>1 DEF CallerRecords, CallerOK
    <2> HIDE DEF y
    <2> QED
      BY <1>0, <2>1, <2>2, RowAlone, CallerMoves
  <1>10. CASE JavaMark(j)
    <2>1. /\ x.pc = "marking" /\ guard' = NoCaller /\ Move(j, IdleCaller)
          /\ row' = [row EXCEPT !.resume = x.result, !.attempts = OneMore(@)]
          /\ UNCHANGED <<thread, runs, handler, faults>>
      BY <1>10 DEF JavaMark
    <2>2. /\ OneMore(row.attempts) \in 0..MaxAttempts
          /\ x.result \in ResumeStates /\ (x.result = "succeeded" => runs > 0)
      BY <1>0, <2>1, ApprovalAssumption
         DEF OneMore, Rows, CallerRecords, CallerOK, ResumeStates
    <2>3. Progress
      BY <1>0, <2>1, <2>2 DEF Progress, Rows, DeliveryInv, TypeOK
    <2> QED
      BY <1>3, <2>1, <2>3
  <1>11. CASE JavaStop(j)
    BY <1>3, <1>11, RowAlone DEF JavaStop
  <1> QED
    BY <1>1, <1>4, <1>5, <1>6, <1>7, <1>8, <1>9, <1>10, <1>11 DEF JavaStep

\* Every step keeps the deliveries in order.
LEMMA DeliveryNext == DeliveryInv /\ [Next]_vars => DeliveryInv'
  <1> SUFFICES ASSUME DeliveryInv, [Next]_vars PROVE DeliveryInv'
    OBVIOUS
  <1>1. CASE PersistRefs
    <2>1. /\ row' = [row EXCEPT !.refs = TRUE] /\ thread' = "paused"
          /\ UNCHANGED <<runs, handler, java, guard, faults>>
      BY <1>1 DEF PersistRefs
    <2>2. Progress
      BY <2>1 DEF Progress, DeliveryInv, TypeOK, Rows, SuccessIsApplied
    <2> QED
      BY <2>1, <2>2, OthersStayInOrder DEF DeliveryInv, TypeOK, Progress, SuccessIsApplied
  <1>2. ASSUME NEW h \in Handlers, NEW value \in Decisions, AgentDecide(h, value)
        PROVE  DeliveryInv'
    <2>1. Enter(h) /\ UNCHANGED runs
      BY <1>2 DEF AgentDecide, Enter
    <2>2. Progress
      BY <1>2, <2>1, DecidedOnce DEF AgentDecide
    <2> QED
      BY <2>1, <2>2, EnterKeeps
  <1>3. ASSUME NEW h \in Handlers, AgentReconcile(h) PROVE DeliveryInv'
    <2>1. Enter(h) /\ UNCHANGED <<row, runs>>
      BY <1>3 DEF AgentReconcile, Enter
    <2> QED
      BY <2>1, RowAlone, EnterKeeps
  <1>4. CASE UNCHANGED vars
    BY <1>4 DEF vars, DeliveryInv, TypeOK, SuccessIsApplied
  <1> QED
    BY <1>1, <1>2, <1>3, <1>4, HandlerNext, JavaNext DEF Next

\* The deliveries are in order in every behaviour.
LEMMA DeliveryAlways == Spec => []DeliveryInv
  BY DeliveryInit, DeliveryNext, PTL DEF Spec

\* Every variable keeps its type: among others no attempt is counted past the
\* limit, and what save_approval writes back is a row (approval_store.py).
THEOREM ApprovalTyped == Spec => []TypeOK
  BY DeliveryAlways, PTL DEF DeliveryInv

\* A run is taken on with the decision that is on record, whichever service read
\* it and however long ago (approval_resume.py, ApprovalController.java).
THEOREM RunsFollowTheDecision == Spec => []RunFollowsDecision
  <1>1. DeliveryInv => RunFollowsDecision
    BY DEF DeliveryInv, HandlerOK, RunFollowsDecision
  <1> QED
    BY <1>1, DeliveryAlways, PTL

\* A delivery is on record as done only if a run took the decision up, after any
\* deaths, timeouts and overwritten rows (mark_resume_result, classifySuccess).
THEOREM RecordedSuccessIsReal == Spec => []SuccessIsApplied
  BY DeliveryAlways, PTL DEF DeliveryInv

\* No step of either service changes a decision that was taken: not a second
\* click, not a stale read, not a row written back whole (decide_approval,
\* updateStatus, save_approval).
THEOREM DecisionsStand == Spec => DecisionStands
  <1>1. DeliveryInv /\ [Next]_vars => (Decided => row'.status = row.status)
    <2> SUFFICES ASSUME DeliveryInv, [Next]_vars, Decided PROVE row'.status = row.status
      OBVIOUS
    <2>1. row.status # "pending" /\ row \in Rows
      BY DEF Decided, Decisions, DeliveryInv, TypeOK
    <2>2. CASE PersistRefs
      BY <2>1, <2>2 DEF PersistRefs, Rows
    <2>3. ASSUME NEW h \in Handlers, NEW value \in Decisions, AgentDecide(h, value)
          PROVE  row'.status = row.status
      BY <2>1, <2>3 DEF AgentDecide, DecidedAs
    <2>4. ASSUME NEW h \in Handlers, HandlerStep(h) \/ Die(h) \/ AgentReconcile(h)
          PROVE  row'.status = row.status
      <3>1. CASE Save(h)
        BY <3>1 DEF Save, DeliveryInv, HandlerOK
      <3>2. CASE Unresumable(h) \/ Claim(h) \/ Mark(h)
        BY <2>1, <3>2 DEF Unresumable, Claim, Mark, Rows
      <3> QED
        BY <2>4, <3>1, <3>2 DEF HandlerStep, LoseClaim, Precheck, Recheck, RunEnds, RunFails,
                                MarkFails, Load, Unheard, Die, AgentReconcile
    <2>5. ASSUME NEW j \in JavaCallers,
                 \/ \E value \in Decisions : JavaDecide(j, value)
                 \/ JavaReconcile(j) \/ JavaStep(j) \/ JavaStop(j)
          PROVE  row'.status = row.status
      <3>1. CASE JavaMark(j)
        BY <2>1, <3>1 DEF JavaMark, Rows
      <3>2. CASE \E value \in Decisions : JavaDecide(j, value)
        BY <2>1, <3>2 DEF JavaDecide, DecidedAs
      <3> QED
        BY <2>5, <3>1, <3>2 DEF JavaReconcile, JavaStep, JavaReread, JavaSend, JavaRefused,
                                JavaAnswer, JavaTimeout, JavaStop
    <2> QED
      BY <2>2, <2>3, <2>4, <2>5 DEF Next, vars
  <1> QED
    BY <1>1, DeliveryAlways, PTL DEF DecisionStands, Spec

(**************************** one claim at a time *************************)
\* The agent service by itself, and no run that outlives its claim.
Alone == faults \cap {"java", "slow"} = {}

Owns(x) == x.via = "resolve" /\ x.stage \in {"recheck", "running", "mark"}

\* While a claim is held the row cannot be claimed again, and what is written
\* back of a delivered decision says that it was delivered.
ClaimOK(x, r) ==
  /\ x.via = "resolve" /\ x.stage # "precheck"
  /\ Owns(x) => r.resume \notin {"queued", "failed"}
  /\ x.stage \in {"load", "save"} => r.resume = "succeeded"
  /\ x.stage = "save" => x.read.resume = "succeeded"

ClaimInv ==
  Alone => /\ \A j \in JavaCallers : java[j].pc = "idle"
           /\ \A h \in Handlers : ClaimOK(handler[h], row)
           /\ \A g, h \in Handlers : Owns(handler[g]) /\ Owns(handler[h]) => g = h

\* A handler that moves without becoming an owner beside another one.
LEMMA ClaimKept ==
  ASSUME ClaimInv, DeliveryInv, Alone, NEW h \in Handlers, NEW y,
         handler' = [handler EXCEPT ![h] = y], UNCHANGED <<java, faults>>,
         ClaimOK(y, row'), \A g \in Handlers \ {h} : ClaimOK(handler[g], row'),
         Owns(y) => Owns(handler[h]) \/ \A g \in Handlers : ~Owns(handler[g])
  PROVE  ClaimInv'
  <1>1. \A g \in Handlers : handler'[g] = IF g = h THEN y ELSE handler[g]
    BY DEF DeliveryInv, TypeOK
  <1>2. \A g \in Handlers : ClaimOK(handler'[g], row')
    BY <1>1
  <1>3. \A f, g \in Handlers : Owns(handler'[f]) /\ Owns(handler'[g]) => f = g
    BY <1>1 DEF ClaimInv
  <1> QED
    BY <1>2, <1>3 DEF ClaimInv, Alone

LEMMA FreeOwnsNothing == /\ \A r : ClaimOK(FreeHandler, r)
                         /\ ~Owns(FreeHandler)
  BY DEF FreeHandler, ClaimOK, Owns

\* Every step of a handler keeps the claim exclusive.
LEMMA ClaimHandlerNext ==
  ASSUME ClaimInv, DeliveryInv, Alone, NEW h \in Handlers, HandlerStep(h) \/ Die(h)
  PROVE  ClaimInv'
  <1> DEFINE x == handler[h]
  <1>0. /\ \A g \in Handlers : ClaimOK(handler[g], row)
        /\ x \in HandlerRecords /\ row \in Rows
    BY DEF ClaimInv, DeliveryInv, TypeOK, HandlerRecords
  <1>1. CASE Unresumable(h)
    <2>1. /\ row' = IF row.resume = "succeeded" THEN row ELSE [row EXCEPT !.resume = "stale"]
          /\ handler' = [handler EXCEPT ![h] = FreeHandler] /\ UNCHANGED <<java, faults>>
      BY <1>1 DEF Unresumable
    <2>2. \A g \in Handlers : ClaimOK(handler[g], row')
      BY <1>0, <2>1 DEF ClaimOK, Rows
    <2> QED
      BY <2>1, <2>2, FreeOwnsNothing, ClaimKept
  <1>2. CASE Claim(h)
    <2> DEFINE y == [x EXCEPT !.stage = "recheck", !.value = row.status, !.refs = row.refs]
    <2>1. /\ handler' = [handler EXCEPT ![h] = y] /\ UNCHANGED <<java, faults>>
          /\ row'.resume = "running" /\ Claimable
      BY <1>0, <1>2 DEF Claim, Rows
    <2>2. \A g \in Handlers : ~Owns(handler[g])
      BY <1>0, <2>1 DEF Claimable, ClaimExpired, Alone, Owning, ClaimOK, Owns
    <2>3. \A g \in Handlers : handler[g].stage \notin {"load", "save"}
      BY <1>0, <2>1 DEF Claimable, ClaimExpired, ClaimOK
    <2>4. \A g \in Handlers : ClaimOK(handler[g], row')
      BY <1>0, <2>2, <2>3 DEF ClaimOK
    <2>5. ClaimOK(y, row')
      BY <1>0, <2>1 DEF ClaimOK, HandlerRecords
    <2> HIDE DEF y
    <2> QED
      BY <2>1, <2>2, <2>4, <2>5, ClaimKept
  <1>3. CASE \/ LoseClaim(h) \/ Unheard(h)
    BY <1>0, <1>3, FreeOwnsNothing, ClaimKept DEF LoseClaim, Unheard
  <1>4. CASE Precheck(h) \/ MarkFails(h)
    BY <1>0, <1>4 DEF Precheck, MarkFails, ClaimOK
  <1>5. CASE Recheck(h) \/ RunEnds(h) \/ RunFails(h)
    <2>1. PICK y \in {[x EXCEPT !.stage = "running"]}
                     \cup {[x EXCEPT !.stage = "mark", !.outcome = o] :
                             o \in {"stale", "resumed", "failed"}} :
            handler' = [handler EXCEPT ![h] = y]
      BY <1>5 DEF Recheck, RunEnds, RunFails
    <2>2. Owns(x) /\ UNCHANGED <<row, java, faults>>
      BY <1>0, <1>5 DEF Recheck, RunEnds, RunFails, Owns, ClaimOK
    <2>3. ClaimOK(y, row')
      BY <1>0, <2>1, <2>2 DEF ClaimOK, Owns, HandlerRecords
    <2> QED
      BY <1>0, <2>1, <2>2, <2>3, ClaimKept
  <1>6. CASE Mark(h)
    <2> DEFINE y == IF Applied(h) THEN [x EXCEPT !.stage = "load"] ELSE FreeHandler
    <2>1. /\ x.via = "resolve" /\ x.stage = "mark" /\ UNCHANGED <<java, faults>>
          /\ row' = IF row.resume = "succeeded" THEN row ELSE [row EXCEPT !.resume = ResumeState(h)]
      BY <1>0, <1>6 DEF Mark, ClaimOK
    <2>2. handler' = [handler EXCEPT ![h] = y]
      BY <1>0, <1>6, <2>1 DEF Mark, Recorded, HandlerRecords
    <2>3. \A g \in Handlers \ {h} : ~Owns(handler[g])
      BY <2>1 DEF ClaimInv, Owns
    <2>4. row.resume = "succeeded" => row' = row
      BY <2>1
    <2>5. \A g \in Handlers \ {h} : ClaimOK(handler[g], row')
      BY <1>0, <2>3, <2>4 DEF ClaimOK
    <2>6. Applied(h) => row'.resume = "succeeded"
      BY <1>0, <2>1 DEF ResumeState, Rows
    <2>7. ClaimOK(y, row') /\ ~Owns(y)
      BY <1>0, <2>1, <2>6, FreeOwnsNothing DEF ClaimOK, Owns, HandlerRecords
    <2> HIDE DEF y
    <2> QED
      BY <2>1, <2>2, <2>5, <2>7, ClaimKept
  <1>7. CASE Load(h)
    <2> DEFINE y == [x EXCEPT !.stage = "save", !.read = row]
    <2>1. /\ x.stage = "load" /\ handler' = [handler EXCEPT ![h] = y]
          /\ UNCHANGED <<row, java, faults>>
      BY <1>7 DEF Load
    <2>2. ClaimOK(y, row') /\ ~Owns(y)
      BY <1>0, <2>1 DEF ClaimOK, Owns, HandlerRecords
    <2> HIDE DEF y
    <2> QED
      BY <1>0, <2>1, <2>2, ClaimKept
  <1>8. CASE Save(h)
    <2>1. /\ x.stage = "save" /\ row' = x.read
          /\ handler' = [handler EXCEPT ![h] = FreeHandler] /\ UNCHANGED <<java, faults>>
      BY <1>8 DEF Save
    <2>2. row'.resume = "succeeded" /\ row.resume = "succeeded"
      BY <1>0, <2>1 DEF ClaimOK
    <2>3. \A g \in Handlers : ClaimOK(handler[g], row')
      BY <1>0, <2>2 DEF ClaimOK
    <2> QED
      BY <2>1, <2>3, FreeOwnsNothing, ClaimKept
  <1>9. CASE Die(h)
    <2>1. x.via = "resolve"
      BY <1>0 DEF ClaimOK
    <2>2. handler' = [handler EXCEPT ![h] = FreeHandler] /\ UNCHANGED <<row, java, faults>>
      BY <1>9, <2>1 DEF Die
    <2> QED
      BY <1>0, <2>2, FreeOwnsNothing, ClaimKept
  <1> QED
    BY <1>1, <1>2, <1>3, <1>4, <1>5, <1>6, <1>7, <1>8, <1>9 DEF HandlerStep

\* Every step keeps the claim exclusive.
LEMMA ClaimNext == ClaimInv /\ DeliveryInv /\ [Next]_vars => ClaimInv'
  <1> SUFFICES ASSUME ClaimInv, DeliveryInv, [Next]_vars PROVE ClaimInv'
    OBVIOUS
  <1>0. UNCHANGED faults
    BY DEF Next, PersistRefs, AgentDecide, AgentReconcile, Enter, HandlerStep, Unresumable, Claim,
           LoseClaim, Precheck, Recheck, RunEnds, RunFails, Mark, MarkFails, Load, Save, Unheard,
           Die, JavaDecide, JavaReconcile, JavaStep, JavaReread, JavaSend, JavaRefused,
           JavaAnswer, JavaTimeout, JavaMark, JavaStop, vars
  <1> SUFFICES ASSUME Alone PROVE ClaimInv'
    BY <1>0 DEF ClaimInv, Alone
  <1>a. /\ \A g \in Handlers : ClaimOK(handler[g], row)
        /\ row \in Rows
    BY DEF ClaimInv, DeliveryInv, TypeOK
  <1>1. CASE PersistRefs
    <2>1. row'.resume = row.resume /\ UNCHANGED <<handler, java>>
      BY <1>a, <1>1 DEF PersistRefs, Rows
    <2> QED
      BY <1>0, <2>1 DEF ClaimInv, ClaimOK, Alone
  <1>2. ASSUME NEW h \in Handlers, Enter(h),
               row'.resume = row.resume \/ ~Decided
        PROVE  ClaimInv'
    <2> DEFINE y == [handler[h] EXCEPT !.via = "resolve",
                       !.stage = IF row.refs THEN "claim" ELSE "unresumable"]
    <2>1. handler' = [handler EXCEPT ![h] = y] /\ UNCHANGED <<java, faults>>
      BY <1>2 DEF Enter
    <2>2. handler[h] \in HandlerRecords
      BY DEF DeliveryInv, TypeOK, HandlerRecords
    <2>3. y.stage \in {"claim", "unresumable"} /\ y.via = "resolve"
      BY <2>2 DEF HandlerRecords
    <2>4. ClaimOK(y, row') /\ ~Owns(y)
      BY <2>3 DEF ClaimOK, Owns
    <2>5. \A g \in Handlers : ClaimOK(handler[g], row')
      BY <1>a, <1>2 DEF ClaimOK, Owns, DeliveryInv, HandlerOK, Decided
    <2> HIDE DEF y
    <2> QED
      BY <2>1, <2>4, <2>5, ClaimKept
  <1>3. ASSUME NEW h \in Handlers, NEW value \in Decisions, AgentDecide(h, value)
        PROVE  ClaimInv'
    BY <1>2, <1>3 DEF AgentDecide, DecidedAs, Decided, Decisions
  <1>4. ASSUME NEW h \in Handlers, AgentReconcile(h) PROVE ClaimInv'
    BY <1>2, <1>4 DEF AgentReconcile
  <1>5. ASSUME NEW j \in JavaCallers,
               \/ \E value \in Decisions : JavaDecide(j, value)
               \/ JavaReconcile(j) \/ JavaStep(j) \/ JavaStop(j)
        PROVE  FALSE
    BY <1>5 DEF ClaimInv, Alone, JavaDecide, JavaReconcile, JavaStep, JavaReread, JavaSend,
                JavaRefused, JavaAnswer, JavaTimeout, JavaMark, JavaStop
  <1>6. CASE UNCHANGED vars
    BY <1>6 DEF vars, ClaimInv, Alone
  <1> QED
    BY <1>1, <1>3, <1>4, <1>5, <1>6, ClaimHandlerNext DEF Next

\* In the agent service by itself two handlers never bring the same decision to
\* the graph at a time, as long as no run outlives its claim - with any number of
\* replicas, deaths and repeated clicks (claim_resume).
THEOREM ClaimsAreExclusive == Spec => []ClaimExclusive
  <1>1. Init => ClaimInv
    BY FreeOwnsNothing DEF Init, ClaimInv, IdleCaller
  <1>2. ClaimInv => ClaimExclusive
    BY DEF ClaimInv, Alone, Owns, ClaimExclusive, Owning
  <1> QED
    BY <1>1, <1>2, ClaimNext, DeliveryAlways, PTL DEF Spec
=============================================================================
