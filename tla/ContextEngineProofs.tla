------------------------- MODULE ContextEngineProofs -------------------------
(* Theorems about ContextBudget and ContextEngine, for every request the      *)
(* planner may get and any number of turns of one conversation: what packing  *)
(* and allocation do to a prompt, and what the turns make of it.              *)
EXTENDS ContextEngine, FoldLemmas

(******************************** totals **********************************)
\* Total adds up the values of a function of kinds, one term for each kind.
Term(f, kind) == IF kind \in DOMAIN f THEN f[kind] ELSE 0
TenTerms(f) ==
  Term(f, "system_policy") + Term(f, "tenant_profile") + Term(f, "user_profile")
  + Term(f, "conversation_summary") + Term(f, "approval_state") + Term(f, "task_slots")
  + Term(f, "retrieval_evidence") + Term(f, "tool_results") + Term(f, "recent_messages")
  + Term(f, "unknown")

LEMMA TotalIs ==
  ASSUME NEW f, \A k \in DOMAIN f : f[k] \in Int
  PROVE  Total(f) = TenTerms(f) /\ Total(f) \in Int /\ \A k : Term(f, k) \in Int
  <1> DEFINE s == [i \in DOMAIN KINDS |-> IF KINDS[i] \in DOMAIN f THEN f[KINDS[i]] ELSE 0]
  <1>1. \A k : Term(f, k) \in Int
    BY DEF Term
  <1>2. DOMAIN KINDS = 1..10
    BY DEF KINDS
  <1>3. s \in Seq(Int) /\ Len(s) = 10 /\ \A i \in 1..10 : s[i] = Term(f, KINDS[i])
    <2>1. s \in [1..10 -> Int] /\ \A i \in 1..10 : s[i] = Term(f, KINDS[i])
      BY <1>2 DEF Term
    <2> HIDE DEF s
    <2>2. 10 \in Nat /\ s \in [1..10 -> Int]
      BY <2>1
    <2>3. \A n \in Nat : s \in [1..n -> Int] => s \in Seq(Int) /\ Len(s) = n
      BY ArrayIsSeq
    <2>4. s \in Seq(Int) /\ Len(s) = 10
      BY <2>2, <2>3
    <2> QED
      BY <2>1, <2>4
  <1>4. PICK g \in [0..Len(s) -> Int] : /\ g[0] = 0
                                        /\ \A i \in 1..Len(s) : g[i] = g[i-1] + s[i]
                                        /\ SumOf(s) = g[Len(s)]
    <2> HIDE DEF s
    <2> QED
      BY <1>3, SumSteps
  <1>5. /\ Term(f, KINDS[1]) = Term(f, "system_policy")
        /\ Term(f, KINDS[2]) = Term(f, "tenant_profile")
        /\ Term(f, KINDS[3]) = Term(f, "user_profile")
        /\ Term(f, KINDS[4]) = Term(f, "conversation_summary")
        /\ Term(f, KINDS[5]) = Term(f, "approval_state")
        /\ Term(f, KINDS[6]) = Term(f, "task_slots")
        /\ Term(f, KINDS[7]) = Term(f, "retrieval_evidence")
        /\ Term(f, KINDS[8]) = Term(f, "tool_results")
        /\ Term(f, KINDS[9]) = Term(f, "recent_messages")
        /\ Term(f, KINDS[10]) = Term(f, "unknown")
    BY DEF KINDS
  <1>6. \A i \in 1..10 : g[i] = g[i-1] + Term(f, KINDS[i])
    <2> HIDE DEF s
    <2> QED
      BY <1>3, <1>4
  <1> DEFINE t(i) == Term(f, KINDS[i])
  <1>7. /\ g[1] = g[0] + t(1) /\ g[2] = g[1] + t(2) /\ g[3] = g[2] + t(3) /\ g[4] = g[3] + t(4)
        /\ g[5] = g[4] + t(5) /\ g[6] = g[5] + t(6) /\ g[7] = g[6] + t(7) /\ g[8] = g[7] + t(8)
        /\ g[9] = g[8] + t(9) /\ g[10] = g[9] + t(10)
    <2>1. ASSUME NEW i \in 1..10, NEW j, j = i - 1 PROVE g[i] = g[j] + t(i)
      BY <1>6, <2>1
    <2> HIDE DEF t
    <2>2. g[1] = g[0] + t(1)
      BY <2>1
    <2>3. g[2] = g[1] + t(2)
      BY <2>1
    <2>4. g[3] = g[2] + t(3)
      BY <2>1
    <2>5. g[4] = g[3] + t(4)
      BY <2>1
    <2>6. g[5] = g[4] + t(5)
      BY SMTT(20), <2>1
    <2>7. g[6] = g[5] + t(6)
      BY <2>1
    <2>8. g[7] = g[6] + t(7)
      BY <2>1
    <2>9. g[8] = g[7] + t(8)
      BY <2>1
    <2>10. g[9] = g[8] + t(9)
      BY <2>1
    <2>11. g[10] = g[9] + t(10)
      BY SMTT(20), <2>1
    <2> QED
      BY <2>2, <2>3, <2>4, <2>5, <2>6, <2>7, <2>8, <2>9, <2>10, <2>11
  <1>8. Total(f) = g[10]
    <2>1. Total(f) = SumOf(s)
      BY DEF Total
    <2> HIDE DEF s
    <2> QED
      BY <1>3, <1>4, <2>1
  <1>9. g[0] = 0 /\ \A i \in 1..10 : t(i) \in Int
    BY <1>1, <1>4
  <1>10. g[10] = t(1) + t(2) + t(3) + t(4) + t(5) + t(6) + t(7) + t(8) + t(9) + t(10)
    <2>1. {1, 2, 3, 4, 5, 6, 7, 8, 9, 10} \subseteq 1..10
      OBVIOUS
    <2> HIDE DEF t
    <2> QED
      BY <1>7, <1>9, <2>1
  <1>11. Total(f) = TenTerms(f)
    BY <1>5, <1>8, <1>10 DEF TenTerms
  <1>12. Total(f) \in Int
    <2>1. g[10] \in Int
      BY <1>3, <1>4
    <2> QED
      BY <1>8, <2>1
  <1> QED
    BY <1>1, <1>11, <1>12

(*************************** packing messages *****************************)
LEMMA TruncateTyped ==
  ASSUME NEW size \in Nat, NEW budget \in Int, NEW strategy
  PROVE  /\ truncate_text(size, budget, strategy).tokens \in Nat
         /\ truncate_text(size, budget, strategy).truncated \in BOOLEAN
         /\ strategy # "none" =>
              \/ truncate_text(size, budget, strategy).tokens = 0
              \/ truncate_text(size, budget, strategy).tokens <= budget
  BY DEF truncate_text, Cut

AreMessages(ms) == /\ Len(ms) \in Nat /\ DOMAIN ms = 1..Len(ms)
                   /\ \A i \in 1..Len(ms) : ms[i].size \in Nat

PackStates(n) ==
  [kept : SUBSET (1..n), used : Nat, truncated : SUBSET (1..n), current_kept : BOOLEAN,
   history_full : BOOLEAN, stopped : BOOLEAN]
NothingPacked == [kept |-> {}, used |-> 0, truncated |-> {}, current_kept |-> FALSE,
                  history_full |-> FALSE, stopped |-> FALSE]

\* What pack_messages does with message i.
PackOne(ms, budget, cur, st, i) ==
  LET room == budget - st.used - PER_MESSAGE_OVERHEAD
  IN IF st.stopped THEN st
     ELSE IF i = cur THEN PackCurrent(st, i, ms[i], room)
     ELSE PackHistory(st, i, ms[i], room)

\* The messages after r were looked at: what was left out of them runs up to some
\* message m, all but the current one, and nothing more is left out afterwards
\* unless the budget was full.
PackedTo(st, n, r, cur) ==
  /\ st.kept \subseteq (r+1)..n
  /\ st.truncated \subseteq st.kept \cap {cur}
  /\ st.current_kept <=> cur \in st.kept
  /\ st.stopped => ~st.current_kept
  /\ ~st.stopped => \E m \in r..n : /\ ((r+1)..n) \ st.kept = ((r+1)..m) \ {cur}
                                    /\ st.history_full \/ m = r

LEMMA PackTyped ==
  ASSUME NEW ms, AreMessages(ms), NEW budget \in Int, NEW cur,
         NEW st \in PackStates(Len(ms)), NEW i \in 1..Len(ms)
  PROVE  PackOne(ms, budget, cur, st, i) \in PackStates(Len(ms))
  <1>1. ms[i].size \in Nat
    BY DEF AreMessages
  <1>2. ASSUME NEW room \in Int PROVE PackCurrent(st, i, ms[i], room) \in PackStates(Len(ms))
    <2> DEFINE cut == truncate_text(ms[i].size, room, "head_tail")
    <2>1. cut.tokens \in Nat /\ cut.truncated \in BOOLEAN
      BY <1>1, TruncateTyped
    <2> HIDE DEF cut
    <2>3. st.used + cut.tokens + PER_MESSAGE_OVERHEAD \in Nat
      BY <2>1 DEF PER_MESSAGE_OVERHEAD, PackStates
    <2>4. PackCurrent(st, i, ms[i], room) =
            IF room <= 0 \/ cut.tokens = 0 THEN [st EXCEPT !.stopped = TRUE]
            ELSE [st EXCEPT !.kept = @ \cup {i}, !.used = @ + cut.tokens + PER_MESSAGE_OVERHEAD,
                            !.current_kept = TRUE, !.truncated = IF cut.truncated THEN {i} ELSE @]
      BY DEF PackCurrent, cut
    <2>5. (IF cut.truncated THEN {i} ELSE st.truncated) \in SUBSET (1..Len(ms))
          /\ st.kept \cup {i} \in SUBSET (1..Len(ms))
      BY DEF PackStates
    <2> QED
      BY <2>3, <2>4, <2>5 DEF PackStates
  <1>3. ASSUME NEW room \in Int PROVE PackHistory(st, i, ms[i], room) \in PackStates(Len(ms))
    <2>1. st.used + count_message(ms[i]) \in Nat
      BY <1>1 DEF count_message, PER_MESSAGE_OVERHEAD, PackStates
    <2> QED
      BY <2>1 DEF PackHistory, PackStates
  <1>4. budget - st.used - PER_MESSAGE_OVERHEAD \in Int
    BY DEF PackStates, PER_MESSAGE_OVERHEAD
  <1> QED
    BY <1>2, <1>3, <1>4 DEF PackOne

LEMMA PackKeeps ==
  ASSUME NEW ms, AreMessages(ms), NEW budget \in Int, NEW cur \in 0..Len(ms),
         NEW st \in PackStates(Len(ms)), NEW i \in 1..Len(ms), PackedTo(st, Len(ms), i, cur)
  PROVE  PackedTo(PackOne(ms, budget, cur, st, i), Len(ms), i - 1, cur)
  <1> DEFINE n == Len(ms)
             next == PackOne(ms, budget, cur, st, i)
  <1> SUFFICES PackedTo(next, n, i - 1, cur)
    OBVIOUS
  <1>9. \/ next = st /\ st.stopped
        \/ next = [st EXCEPT !.stopped = TRUE] /\ i = cur
        \/ /\ ~st.stopped /\ i = cur /\ next.kept = st.kept \cup {i} /\ next.current_kept
           /\ next.truncated \in {{i}, st.truncated} /\ next.stopped = st.stopped
           /\ next.history_full = st.history_full
        \/ /\ ~st.stopped /\ i # cur /\ next = [st EXCEPT !.history_full = TRUE]
        \/ /\ ~st.stopped /\ i # cur /\ ~st.history_full /\ next.kept = st.kept \cup {i}
           /\ next.current_kept = st.current_kept /\ next.truncated = st.truncated
           /\ next.stopped = st.stopped
    <2> DEFINE room == budget - st.used - PER_MESSAGE_OVERHEAD
    <2>1. CASE st.stopped
      BY <2>1 DEF PackOne
    <2>2. CASE ~st.stopped /\ i = cur
      <3>1. next = PackCurrent(st, i, ms[i], room)
        BY <2>2 DEF PackOne
      <3> QED
        BY <2>2, <3>1 DEF PackCurrent, PackStates
    <2>3. CASE ~st.stopped /\ i # cur
      <3>1. next = PackHistory(st, i, ms[i], room)
        BY <2>3 DEF PackOne
      <3> QED
        BY <2>3, <3>1 DEF PackHistory, PackStates
    <2> QED
      BY <2>1, <2>2, <2>3
  <1>0. st \in PackStates(n) /\ PackedTo(st, n, i, cur) /\ n \in Nat /\ i \in 1..n /\ cur \in 0..n
    BY DEF AreMessages
  <1> HIDE DEF next, n
  <1>1. n \in Nat /\ i \in 1..n /\ i - 1 \in Nat /\ i \in Int /\ (i - 1) + 1 = i
        /\ ((i-1)+1)..n = {i} \cup ((i+1)..n) /\ i \notin (i+1)..n
    BY <1>0
  <1>2. i \notin st.kept /\ i \notin st.truncated
    BY <1>0, <1>1 DEF PackedTo
  <1>3. \A m \in i..n : (((i-1)+1)..m) = {i} \cup ((i+1)..m)
    BY <1>0
  <1>4. CASE next = st /\ st.stopped
    BY <1>0, <1>1, <1>4 DEF PackedTo
  <1>5. CASE next = [st EXCEPT !.stopped = TRUE] /\ i = cur
    <2>1. /\ next.kept = st.kept /\ next.truncated = st.truncated /\ next.stopped
          /\ next.current_kept = st.current_kept
      BY <1>0, <1>5 DEF PackStates
    <2> QED
      BY <1>0, <1>1, <1>2, <1>5, <2>1 DEF PackedTo
  <1>6. CASE /\ ~st.stopped /\ i = cur /\ next.kept = st.kept \cup {i} /\ next.current_kept
             /\ next.truncated \in {{i}, st.truncated} /\ next.stopped = st.stopped
             /\ next.history_full = st.history_full
    <2>1. PICK m \in i..n : /\ ((i+1)..n) \ st.kept = ((i+1)..m) \ {cur}
                            /\ st.history_full \/ m = i
      BY <1>0, <1>6 DEF PackedTo
    <2>2. (((i-1)+1)..n) \ next.kept = (((i-1)+1)..m) \ {cur}
      BY <1>0, <1>1, <1>2, <1>3, <1>6, <2>1
    <2>3. m = i => (((i-1)+1)..m) \ {cur} = (((i-1)+1)..(i-1)) \ {cur}
      BY <1>0, <1>1, <1>6
    <2>4. \E q \in (i-1)..n : /\ (((i-1)+1)..n) \ next.kept = (((i-1)+1)..q) \ {cur}
                              /\ next.history_full \/ q = i - 1
      <3>1. m \in (i-1)..n /\ i - 1 \in (i-1)..n
        BY <1>0, <1>1
      <3> QED
        BY <1>0, <1>6, <2>1, <2>2, <2>3, <3>1
    <2>5. next.kept \subseteq ((i-1)+1)..n /\ next.truncated \subseteq next.kept \cap {cur}
          /\ cur \in next.kept
      BY <1>0, <1>1, <1>6 DEF PackedTo
    <2> QED
      BY <1>0, <1>6, <2>4, <2>5 DEF PackedTo
  <1>7. CASE /\ ~st.stopped /\ i # cur /\ next = [st EXCEPT !.history_full = TRUE]
    <2>0. /\ next.kept = st.kept /\ next.truncated = st.truncated /\ next.stopped = st.stopped
          /\ next.current_kept = st.current_kept /\ next.history_full
      BY <1>0, <1>7 DEF PackStates
    <2>1. PICK m \in i..n : ((i+1)..n) \ st.kept = ((i+1)..m) \ {cur}
      BY <1>0, <1>7 DEF PackedTo
    <2>2. (((i-1)+1)..n) \ next.kept = (((i-1)+1)..m) \ {cur} /\ m \in (i-1)..n
      BY <1>0, <1>1, <1>2, <1>3, <1>7, <2>0, <2>1
    <2>3. next.kept \subseteq ((i-1)+1)..n
      BY <1>0, <1>1, <2>0 DEF PackedTo
    <2> QED
      BY <1>0, <1>7, <2>0, <2>2, <2>3 DEF PackedTo
  <1>8. CASE /\ ~st.stopped /\ i # cur /\ ~st.history_full /\ next.kept = st.kept \cup {i}
             /\ next.current_kept = st.current_kept /\ next.truncated = st.truncated
             /\ next.stopped = st.stopped
    <2>1. ((i+1)..n) \ st.kept = ((i+1)..i) \ {cur}
      BY <1>0, <1>8 DEF PackedTo
    <2>2. (((i-1)+1)..n) \ next.kept = (((i-1)+1)..(i-1)) \ {cur} /\ i - 1 \in (i-1)..n
      BY <1>0, <1>1, <1>8, <2>1
    <2>3. next.kept \subseteq ((i-1)+1)..n
      BY <1>0, <1>1, <1>8 DEF PackedTo
    <2>4. next.truncated \subseteq next.kept \cap {cur} /\ (next.current_kept <=> cur \in next.kept)
      BY <1>0, <1>8 DEF PackedTo
    <2> QED
      BY <1>0, <1>8, <2>2, <2>3, <2>4 DEF PackedTo
  <1> QED
    BY <1>4, <1>5, <1>6, <1>7, <1>8, <1>9

LEMMA CurrentIs ==
  ASSUME NEW ms, AreMessages(ms), NEW protected
  PROVE  /\ CurrentIndex(ms, protected) \in 0..Len(ms)
         /\ CurrentIndex(ms, protected) # 0 => ms[CurrentIndex(ms, protected)].text = protected
  <1> DEFINE hits == {i \in DOMAIN ms : ms[i].role = "user" /\ ms[i].text = protected}
  <1>1. Len(ms) \in Nat /\ hits \in SUBSET (1..Len(ms)) /\ 0 \in 0..Len(ms)
    BY DEF AreMessages
  <1>2. CurrentIndex(ms, protected) = IF protected = NoText \/ hits = {} THEN 0 ELSE Max(hits)
    BY DEF CurrentIndex
  <1>3. ASSUME hits # {} PROVE Max(hits) \in hits
    <2> HIDE DEF hits
    <2> QED
      BY <1>1, <1>3, MaxOf
  <1>4. \A i \in hits : ms[i].text = protected /\ i \in 0..Len(ms)
    BY <1>1
  <1> HIDE DEF hits
  <1> QED
    BY <1>1, <1>2, <1>3, <1>4

\* Where packing the messages ends, for every budget.
LEMMA Packed ==
  ASSUME NEW ms, AreMessages(ms), NEW budget \in Int, NEW protected
  PROVE  /\ pack_messages(ms, budget, protected) \in PackStates(Len(ms))
         /\ PackedTo(pack_messages(ms, budget, protected), Len(ms), 0, CurrentIndex(ms, protected))
  <1> DEFINE n == Len(ms)
             cur == CurrentIndex(ms, protected)
             S == PackStates(n)
             order == [k \in 1..n |-> n + 1 - k]
             one(st, i) == PackOne(ms, budget, cur, st, i)
             G == [x \in S \X (1..n) |-> one(x[1], order[x[2]])]
             iter == CHOOSE iter : iter = [s \in SUBSET DOMAIN order |->
                       IF s = {} THEN NothingPacked ELSE one(iter[s \ {Max(s)}], order[Max(s)])]
  <1>1. n \in Nat /\ cur \in 0..n /\ DOMAIN order = 1..n
    BY CurrentIs DEF AreMessages
  <1>2. pack_messages(ms, budget, protected) = iter[DOMAIN order]
    BY DEF pack_messages, FoldLeft, MapThenFoldSet, PackOne, NothingPacked
  <1>3. \A k \in 1..n : order[k] \in 1..n /\ order[k] = n + 1 - k
    BY <1>1
  <1>4. NothingPacked \in S
    BY DEF NothingPacked, PackStates
  <1>5. ASSUME NEW st \in S, NEW i \in 1..n PROVE one(st, i) \in S
    BY PackTyped
  <1> HIDE DEF order, S, n, cur
  <1>6. G \in [S \X (1..n) -> S]
    <2> HIDE DEF one
    <2> QED
      BY <1>3, <1>5
  <1>7. PICK g \in [SUBSET (1..n) -> S] : Folds(g, n, NothingPacked, G)
    <2> HIDE DEF G
    <2> QED
      BY <1>1, <1>4, <1>6, FoldExists
  <1> HIDE DEF one
  <1>8. ASSUME NEW s \in SUBSET (1..n), s # {}
        PROVE  g[s] = one(g[s \ {Max(s)}], order[Max(s)])
    <2>1. Max(s) \in 1..n /\ g[s \ {Max(s)}] \in S
      BY <1>1, <1>8, MaxOf
    <2>2. g[s] = G[<<g[s \ {Max(s)}], Max(s)>>]
      BY <1>7, <1>8 DEF Folds
    <2> QED
      BY <2>1, <2>2
  <1>9. g = [s \in SUBSET DOMAIN order |->
               IF s = {} THEN NothingPacked ELSE one(g[s \ {Max(s)}], order[Max(s)])]
    BY <1>1, <1>7, <1>8 DEF Folds
  <1>10. iter = [s \in SUBSET DOMAIN order |->
               IF s = {} THEN NothingPacked ELSE one(iter[s \ {Max(s)}], order[Max(s)])]
    BY <1>9
  <1> HIDE DEF iter
  <1>11. Follows(iter, n, NothingPacked, G, S)
    <2>1. ASSUME NEW s \in SUBSET (1..n), s # {}, iter[s \ {Max(s)}] \in S
          PROVE  iter[s] = G[<<iter[s \ {Max(s)}], Max(s)>>]
      <3>1. Max(s) \in 1..n
        BY <1>1, <2>1, MaxOf
      <3>2. iter[s] = one(iter[s \ {Max(s)}], order[Max(s)])
        BY <1>1, <1>10, <2>1
      <3> QED
        BY <2>1, <3>1, <3>2
    <2>2. iter[{}] = NothingPacked
      BY <1>1, <1>10
    <2> HIDE DEF G
    <2> QED
      BY <2>1, <2>2 DEF Follows
  <1> DEFINE T == {x \in S \X (0..n) : PackedTo(x[1], n, n - x[2], cur)}
  <1>12. <<NothingPacked, 0>> \in T
    <2>1. n \in n..n /\ (n+1)..n = {} /\ n - 0 = n /\ 0 \in 0..n
      BY <1>1
    <2>2. /\ NothingPacked.kept = {} /\ NothingPacked.truncated = {}
          /\ ~NothingPacked.current_kept /\ ~NothingPacked.stopped
      BY DEF NothingPacked
    <2>3. PackedTo(NothingPacked, n, n, cur)
      BY <2>1, <2>2 DEF PackedTo
    <2> QED
      BY <1>4, <2>1, <2>3
  <1>13. ASSUME NEW k \in 0..(n-1), NEW st \in S, <<st, k>> \in T
         PROVE  <<G[<<st, k+1>>], k+1>> \in T
    <2>1. /\ k + 1 \in 1..n /\ k + 1 \in 0..n /\ n - k \in 1..n
          /\ (n - k) - 1 = n - (k + 1) /\ n + 1 - (k + 1) = n - k
      BY <1>1
    <2>2. G[<<st, k+1>>] = one(st, n - k)
      BY <1>3, <2>1
    <2>3. PackedTo(st, n, n - k, cur)
      BY <1>13
    <2>4. one(st, n - k) \in S
      BY <1>5, <2>1
    <2>5. PackedTo(one(st, n - k), n, (n - k) - 1, cur)
      BY <1>1, <2>1, <2>3, PackKeeps DEF one, S, n
    <2> QED
      BY <2>1, <2>2, <2>4, <2>5
  <1>14. iter[1..n] \in S /\ <<iter[1..n], n>> \in T
    <2> HIDE DEF T, G
    <2>1. PassedOn(T, n, NothingPacked, G, S)
      BY <1>12, <1>13 DEF PassedOn
    <2> QED
      BY <1>1, <1>4, <1>6, <1>11, <2>1, FoldKeeps
  <1>15. PackedTo(iter[1..n], n, 0, cur)
    <2>1. n - n = 0
      BY <1>1
    <2> QED
      BY <1>14, <2>1
  <1> QED
    BY <1>1, <1>2, <1>14, <1>15 DEF S, n, cur

(****************************** allocation ********************************)
BlockKinds == {"system_policy", "tenant_profile", "user_profile", "conversation_summary",
               "approval_state", "task_slots", "retrieval_evidence", "tool_results"}
Blocks == [kind : BlockKinds, size : Nat]
AllKinds == BlockKinds \cup {MESSAGES_KIND}

LEMMA PolicyTyped ==
  ASSUME NEW k \in AllKinds
  PROVE  /\ policy_for(k).max \in Nat /\ policy_for(k).min \in Nat
         /\ policy_for(k).weight \in Nat \ {0} /\ is_hard(k) \in BOOLEAN
  <1>1. k \in DOMAIN CONTEXT_POLICIES
    BY DEF AllKinds, BlockKinds, MESSAGES_KIND, CONTEXT_POLICIES
  <1>2. policy_for(k) = CONTEXT_POLICIES[k]
    BY <1>1 DEF policy_for
  <1>3. \A j \in AllKinds : /\ CONTEXT_POLICIES[j].max \in Nat /\ CONTEXT_POLICIES[j].min \in Nat
                            /\ CONTEXT_POLICIES[j].weight \in Nat \ {0}
    BY DEF AllKinds, BlockKinds, MESSAGES_KIND, CONTEXT_POLICIES, Policy
  <1> QED
    BY <1>2, <1>3 DEF is_hard

\* A request as the builder makes it: with a block for the evidence, or the results,
\* when there is any, and that block with content.
Declared(blocks, kind, list) ==
  /\ \A i \in DOMAIN blocks : blocks[i].kind = kind => blocks[i].size > 0
  /\ Len(list) > 0 => \E i \in DOMAIN blocks : blocks[i].kind = kind
WellFormed(req) ==
  /\ req.window \in Nat /\ req.max_output \in Nat /\ req.margin \in Nat
  /\ req.scaffolding = Scaffolding /\ AreMessages(req.messages)
  /\ req.evidence \in Seq(EvidenceItem) /\ req.tools \in Seq(ToolItem)
  /\ req.blocks \in Seq(Blocks) /\ Len(req.blocks) <= 8
  /\ Declared(req.blocks, "retrieval_evidence", req.evidence)
  /\ Declared(req.blocks, "tool_results", req.tools)

LEMMA DedupedTyped ==
  ASSUME NEW blocks \in Seq(Blocks), Len(blocks) <= 8
  PROVE  dedupe_blocks(blocks) \in Seq(Blocks) /\ Len(dedupe_blocks(blocks)) <= 8
  <1> DEFINE first == {i \in DOMAIN blocks :
                         \A j \in 1..(i - 1) : blocks[j].kind # blocks[i].kind}
  <1>1. first \in SUBSET (DOMAIN blocks) /\ DOMAIN blocks = 1..Len(blocks) /\ Len(blocks) \in Nat
    OBVIOUS
  <1>2. dedupe_blocks(blocks) = At(blocks, first)
    BY DEF dedupe_blocks
  <1> HIDE DEF first
  <1>3. At(blocks, first) \in Seq(Blocks) /\ Len(At(blocks, first)) = Cardinality(first)
    BY <1>1, AtTyped
  <1>4. Cardinality(first) <= Len(blocks) /\ Cardinality(first) \in Nat
    <2>1. IsFiniteSet(1..Len(blocks)) /\ Cardinality(1..Len(blocks)) = Len(blocks)
      BY <1>1, HowManyPositions
    <2>2. IsFiniteSet(first) /\ Cardinality(first) <= Cardinality(1..Len(blocks))
      BY <1>1, <2>1, FS_Subset
    <2> QED
      BY <2>1, <2>2, FS_CardinalityType
  <1> QED
    BY <1>1, <1>2, <1>3, <1>4

\* The kinds that compete for the budget.
Competing(blocks) == {b.kind : b \in {c \in ToSet(blocks) : ~is_empty(c)}} \cup {MESSAGES_KIND}

LEMMA CompetingKinds ==
  ASSUME NEW blocks \in Seq(Blocks)
  PROVE  /\ Competing(blocks) \in SUBSET AllKinds
         /\ \A k \in Competing(blocks) \ {MESSAGES_KIND} :
              /\ k \in BlockKinds /\ Size(blocks, k) \in Nat
              /\ \E i \in DOMAIN blocks : blocks[i].kind = k
  <1>1. ToSet(blocks) \in SUBSET Blocks /\ \A b \in ToSet(blocks) : \E i \in DOMAIN blocks : blocks[i] = b
    BY DEF ToSet
  <1>2. \A b \in Blocks : b.kind \in BlockKinds /\ b.size \in Nat
    BY DEF Blocks
  <1>3. MESSAGES_KIND \notin BlockKinds
    BY DEF MESSAGES_KIND, BlockKinds
  <1>4. ASSUME NEW k \in Competing(blocks) \ {MESSAGES_KIND}
        PROVE  /\ k \in BlockKinds /\ Size(blocks, k) \in Nat
               /\ \E i \in DOMAIN blocks : blocks[i].kind = k
    <2>1. PICK b \in ToSet(blocks) : b.kind = k
      BY DEF Competing
    <2>2. (CHOOSE c \in ToSet(blocks) : c.kind = k) \in ToSet(blocks)
      BY <2>1
    <2>3. Size(blocks, k) \in Nat
      BY <1>1, <1>2, <2>2 DEF Size
    <2>4. \E i \in DOMAIN blocks : blocks[i].kind = k
      BY <1>1, <2>1
    <2> QED
      BY <1>1, <1>2, <2>1, <2>3, <2>4
  <1> QED
    BY <1>1, <1>2, <1>3, <1>4 DEF Competing, AllKinds

LEMMA DemandsTyped ==
  ASSUME NEW blocks \in Seq(Blocks), NEW ms, AreMessages(ms), NEW usable \in Nat
  PROVE  Demands(blocks, ms, usable) \in [Competing(blocks) -> Nat]
  <1> DEFINE full == message_overhead(ms) + Least(count_messages(ms), usable)
             counts == [i \in DOMAIN ms |-> count_message(ms[i])]
  <1>1. counts \in Seq(Nat)
    <2>1. Len(ms) \in Nat /\ counts \in [1..Len(ms) -> Nat]
      BY DEF AreMessages, count_message, PER_MESSAGE_OVERHEAD
    <2> HIDE DEF counts
    <2> QED
      BY <2>1, ArrayIsSeq
  <1>2. full \in Nat
    <2>1. count_messages(ms) \in Nat
      <3> HIDE DEF counts
      <3>1. SumOf(counts) \in Nat
        BY <1>1, SumNat
      <3> QED
        BY <3>1 DEF count_messages, counts
    <2>2. message_overhead(ms) \in Nat
      BY DEF AreMessages, message_overhead, PER_MESSAGE_OVERHEAD
    <2> QED
      BY <2>1, <2>2 DEF Least
  <1> DEFINE demand(k) ==
        IF k = MESSAGES_KIND THEN Least(full, usable)
        ELSE IF is_hard(k) THEN Size(blocks, k) + Header
        ELSE Least(Size(blocks, k), policy_for(k).max) + Header
  <1>3. Demands(blocks, ms, usable) = [k \in Competing(blocks) |-> demand(k)]
    BY DEF Demands, Competing
  <1>4. ASSUME NEW k \in Competing(blocks) PROVE demand(k) \in Nat
    <2>1. CASE k = MESSAGES_KIND
      <3> HIDE DEF full
      <3> QED
        BY <1>2, <2>1 DEF Least
    <2>2. CASE k # MESSAGES_KIND
      <3>1. Size(blocks, k) \in Nat /\ policy_for(k).max \in Nat /\ Header \in Nat
        BY <2>2, CompetingKinds, PolicyTyped, CountsAssumption
      <3> HIDE DEF full
      <3> QED
        BY <2>2, <3>1 DEF Least
    <2> QED
      BY <2>1, <2>2
  <1> HIDE DEF demand
  <1> QED
    BY <1>3, <1>4

LEMMA FloorsTyped ==
  ASSUME NEW K \in SUBSET AllKinds, NEW demands \in [K -> Nat], NEW ms, AreMessages(ms),
         NEW usable \in Nat
  PROVE  Floors(demands, ms, usable) \in [K -> Nat]
  <1>1. message_overhead(ms) + MIN_MESSAGES_RESERVE \in Nat
    BY DEF AreMessages, message_overhead, PER_MESSAGE_OVERHEAD, MIN_MESSAGES_RESERVE
  <1>2. ASSUME NEW k \in K
        PROVE  /\ Least(message_overhead(ms) + MIN_MESSAGES_RESERVE, usable) \in Nat
               /\ demands[k] \in Nat /\ Least(policy_for(k).min, demands[k]) \in Nat
    <2>1. policy_for(k).min \in Nat
      BY PolicyTyped
    <2> QED
      BY <1>1, <2>1 DEF Least
  <1> QED
    BY <1>2 DEF Floors

\* One round keeps allocations whole numbers: somebody who wants more has a weight.
LEMMA FillRoundTyped ==
  ASSUME NEW K \in SUBSET AllKinds, NEW demands \in [K -> Nat],
         NEW st \in [alloc : [K -> Int], remaining : Int]
  PROVE  FillRound(st, demands) \in [alloc : [K -> Int], remaining : Int]
  <1> DEFINE active == {k \in DOMAIN demands : st.alloc[k] < demands[k]}
             weight == [k \in active |-> policy_for(k).weight]
             grant == [k \in DOMAIN demands |->
                         IF k \notin active THEN 0
                         ELSE Least(demands[k] - st.alloc[k],
                                    (st.remaining * policy_for(k).weight) \div Total(weight))]
  <1>1. FillRound(st, demands) =
          IF st.remaining <= 0 \/ active = {} THEN st
          ELSE [alloc |-> [k \in DOMAIN demands |-> st.alloc[k] + grant[k]],
                remaining |-> st.remaining - Total(grant)]
    BY DEF FillRound
  <1> SUFFICES ASSUME active # {}
               PROVE  [alloc |-> [k \in DOMAIN demands |-> st.alloc[k] + grant[k]],
                       remaining |-> st.remaining - Total(grant)]
                        \in [alloc : [K -> Int], remaining : Int]
    <2> HIDE DEF active, grant
    <2> QED
      BY <1>1
  <1>2. \A k \in active : weight[k] \in Nat \ {0}
    BY PolicyTyped
  <1>3. Total(weight) \in Nat \ {0}
    <2>1. DOMAIN weight = active /\ active \in SUBSET AllKinds
      OBVIOUS
    <2> HIDE DEF weight, active
    <2>2. Total(weight) = TenTerms(weight)
      BY <1>2, <2>1, TotalIs
    <2>3. \A k : Term(weight, k) \in Nat /\ (k \in active => Term(weight, k) > 0)
      BY <1>2, <2>1 DEF Term
    <2>4. PICK k \in AllKinds : k \in active
      BY <2>1
    <2>5. Term(weight, k) > 0
      BY <2>3, <2>4
    <2> DEFINE a == Term(weight, "system_policy")
               b == Term(weight, "tenant_profile")
               c == Term(weight, "user_profile")
               d == Term(weight, "conversation_summary")
               e == Term(weight, "approval_state")
               f == Term(weight, "task_slots")
               g == Term(weight, "retrieval_evidence")
               h == Term(weight, "tool_results")
               i == Term(weight, "recent_messages")
               j == Term(weight, "unknown")
    <2>6. /\ a \in Nat /\ b \in Nat /\ c \in Nat /\ d \in Nat /\ e \in Nat
          /\ f \in Nat /\ g \in Nat /\ h \in Nat /\ i \in Nat /\ j \in Nat
      BY <2>3
    <2>7. a > 0 \/ b > 0 \/ c > 0 \/ d > 0 \/ e > 0 \/ f > 0 \/ g > 0 \/ h > 0 \/ i > 0
      BY <2>4, <2>5 DEF AllKinds, BlockKinds, MESSAGES_KIND
    <2>8. TenTerms(weight) = a + b + c + d + e + f + g + h + i + j
      BY DEF TenTerms
    <2> HIDE DEF a, b, c, d, e, f, g, h, i, j
    <2> QED
      BY <2>2, <2>6, <2>7, <2>8
  <1>4. grant \in [K -> Int]
    <2> HIDE DEF weight
    <2>1. ASSUME NEW k \in active
          PROVE  Least(demands[k] - st.alloc[k],
                       (st.remaining * policy_for(k).weight) \div Total(weight)) \in Int
      <3>1. policy_for(k).weight \in Int /\ demands[k] - st.alloc[k] \in Int
        BY PolicyTyped
      <3>2. \A x, y \in Int, z \in Nat \ {0} : (x * y) \div z \in Int
        OBVIOUS
      <3>3. (st.remaining * policy_for(k).weight) \div Total(weight) \in Int
        BY <1>3, <3>1, <3>2
      <3> QED
        BY <3>1, <3>3 DEF Least
    <2>2. DOMAIN demands = K
      OBVIOUS
    <2>3. \A k \in K : grant[k] \in Int
      <3> HIDE DEF active
      <3> QED
        BY <2>1, <2>2
    <2> QED
      BY <2>2, <2>3
  <1>5. Total(grant) \in Int
    <2> HIDE DEF grant
    <2> QED
      BY <1>4, TotalIs
  <1> HIDE DEF grant
  <1> QED
    BY <1>4, <1>5

LEMMA FillTyped ==
  ASSUME NEW K \in SUBSET AllKinds, NEW demands \in [K -> Nat], NEW floors \in [K -> Nat],
         NEW remaining \in Int
  PROVE  Fill(floors, demands, remaining) \in [K -> Int]
  <1> DEFINE S == [alloc : [K -> Int], remaining : Int]
             base == [alloc |-> floors, remaining |-> remaining]
             n == MAX_FILL_ROUNDS
             order == [i \in 1..n |-> i]
             one(st) == With(st, LAMBDA v : FillRound(v, demands))
             G == [x \in S \X (1..n) |-> one(x[1])]
             iter == CHOOSE iter : iter = [s \in SUBSET DOMAIN order |->
                       IF s = {} THEN base ELSE one(iter[s \ {Max(s)}])]
             T == S \X (0..n)
  <1>1. n \in Nat /\ DOMAIN order = 1..n
    BY DEF MAX_FILL_ROUNDS
  <1>3. Fill(floors, demands, remaining) = iter[DOMAIN order].alloc
    BY DEF Fill, FoldLeft, MapThenFoldSet
  <1>4. base \in S
    OBVIOUS
  <1>5. ASSUME NEW st \in S PROVE one(st) \in S
    <2>1. one(st) = FillRound(st, demands)
      BY DEF With
    <2> HIDE DEF one
    <2> QED
      BY <2>1, FillRoundTyped
  <1> HIDE DEF one, S, base, n, order
  <1>6. G \in [S \X (1..n) -> S]
    BY <1>5
  <1>7. PICK g \in [SUBSET (1..n) -> S] : Folds(g, n, base, G)
    <2> HIDE DEF G
    <2> QED
      BY <1>1, <1>4, <1>6, FoldExists
  <1>8. ASSUME NEW s \in SUBSET (1..n), s # {}
        PROVE  g[s] = one(g[s \ {Max(s)}])
    <2>1. Max(s) \in 1..n /\ g[s \ {Max(s)}] \in S
      BY <1>1, <1>8, MaxOf
    <2>2. g[s] = G[<<g[s \ {Max(s)}], Max(s)>>]
      BY <1>7, <1>8 DEF Folds
    <2> QED
      BY <2>1, <2>2
  <1>9. g = [s \in SUBSET DOMAIN order |-> IF s = {} THEN base ELSE one(g[s \ {Max(s)}])]
    BY <1>1, <1>7, <1>8 DEF Folds
  <1>10. iter = [s \in SUBSET DOMAIN order |-> IF s = {} THEN base ELSE one(iter[s \ {Max(s)}])]
    BY <1>9
  <1> HIDE DEF iter
  <1>11. Follows(iter, n, base, G, S)
    <2>1. ASSUME NEW s \in SUBSET (1..n), s # {}, iter[s \ {Max(s)}] \in S
          PROVE  iter[s] = G[<<iter[s \ {Max(s)}], Max(s)>>]
      <3>1. Max(s) \in 1..n
        BY <1>1, <2>1, MaxOf
      <3>2. iter[s] = one(iter[s \ {Max(s)}])
        BY <1>1, <1>10, <2>1
      <3> QED
        BY <2>1, <3>1, <3>2
    <2>2. iter[{}] = base
      BY <1>1, <1>10
    <2> HIDE DEF G
    <2> QED
      BY <2>1, <2>2 DEF Follows
  <1>12. PassedOn(T, n, base, G, S)
    <2>1. \A k \in 0..(n-1) : k + 1 \in 1..n /\ k + 1 \in 0..n
      BY <1>1
    <2>2. \A k \in 0..(n-1), st \in S : G[<<st, k+1>>] \in S
      BY <1>6, <2>1
    <2>3. 0 \in 0..n
      BY <1>1
    <2> HIDE DEF G
    <2> QED
      BY <1>4, <2>1, <2>2, <2>3 DEF PassedOn
  <1>13. iter[1..n] \in S
    <2> HIDE DEF T, G
    <2> QED
      BY <1>1, <1>4, <1>6, <1>11, <1>12, FoldKeeps
  <1> QED
    BY <1>1, <1>3, <1>13 DEF S

\* There is a source that gives first.
LEMMA FirstSourceIs ==
  ASSUME NEW sources, sources # {}, NEW alloc, \A k \in sources : alloc[k] \in Nat,
         NEW order, NEW n \in Nat, DOMAIN order = 1..n,
         \A k \in sources : \E i \in DOMAIN order : order[i] = k
  PROVE  FirstSource(sources, alloc, order) \in sources
  <1> DEFINE class(k) == IF policy_for(k).protection = "droppable" THEN 0 ELSE 1
             rank(k) == CHOOSE i \in DOMAIN order : order[i] = k
             before(a, b) == \/ class(a) < class(b)
                             \/ class(a) = class(b) /\ alloc[a] < alloc[b]
                             \/ class(a) = class(b) /\ alloc[a] = alloc[b] /\ rank(a) <= rank(b)
  <1>1. FirstSource(sources, alloc, order) = CHOOSE k \in sources : \A o \in sources : before(k, o)
    BY DEF FirstSource
  <1>2. \A k \in sources : class(k) \in Nat /\ alloc[k] \in Nat /\ rank(k) \in Nat
    <2>1. ASSUME NEW k \in sources PROVE rank(k) \in 1..n
      OBVIOUS
    <2> QED
      BY <2>1
  <1> HIDE DEF class, rank
  <1> DEFINE C == {class(k) : k \in sources}
  <1>3. C \in SUBSET Nat /\ C # {}
    BY <1>2
  <1>4. PICK c \in C : \A x \in C : c <= x
    <2> HIDE DEF C
    <2> QED
      BY <1>3, LeastOf
  <1> DEFINE in_c == {k \in sources : class(k) = c}
             A == {alloc[k] : k \in in_c}
  <1>5. A \in SUBSET Nat /\ A # {}
    BY <1>2
  <1>6. PICK a \in A : \A x \in A : a <= x
    <2> HIDE DEF A
    <2> QED
      BY <1>5, LeastOf
  <1> DEFINE in_a == {k \in in_c : alloc[k] = a}
             R == {rank(k) : k \in in_a}
  <1>7. R \in SUBSET Nat /\ R # {}
    BY <1>2
  <1>8. PICK r \in R : \A x \in R : r <= x
    <2> HIDE DEF R
    <2> QED
      BY <1>7, LeastOf
  <1>9. PICK k \in in_a : rank(k) = r
    OBVIOUS
  <1>10. ASSUME NEW o \in sources PROVE before(k, o)
    <2>1. class(k) = c /\ alloc[k] = a /\ rank(k) = r /\ k \in sources
      BY <1>9
    <2>2. c <= class(o) /\ c \in Nat /\ class(o) \in Nat
      BY <1>2, <1>3, <1>4
    <2>3. class(o) = c => a <= alloc[o] /\ a \in Nat /\ alloc[o] \in Nat
      BY <1>2, <1>5, <1>6
    <2>4. class(o) = c /\ alloc[o] = a => r <= rank(o) /\ r \in Nat /\ rank(o) \in Nat
      BY <1>2, <1>7, <1>8
    <2> QED
      BY <2>1, <2>2, <2>3, <2>4
  <1> HIDE DEF before
  <1> QED
    BY <1>1, <1>9, <1>10

Packings(ms, protected) == {pack_messages(ms, budget, protected) : budget \in Int}

LEMMA ReclaimTyped ==
  ASSUME NEW K \in SUBSET AllKinds, MESSAGES_KIND \in K, NEW floors \in [K -> Nat],
         NEW order, NEW n \in Nat, DOMAIN order = 1..n,
         \A k \in K \ {MESSAGES_KIND} : \E i \in DOMAIN order : order[i] = k,
         NEW ms, NEW protected,
         NEW st \in [alloc : [K -> Int], packed : Packings(ms, protected)]
  PROVE  ReclaimOnce(st, floors, order, ms, protected)
           \in [alloc : [K -> Int], packed : Packings(ms, protected)]
  <1> DEFINE sources == reclaim_sources(st.alloc, floors)
             k == FirstSource(sources, st.alloc, order)
             step == Most(RECLAIM_STEP, st.alloc[k] - floors[k])
             alloc == [st.alloc EXCEPT ![k] = @ - step, ![MESSAGES_KIND] = @ + step]
  <1>1. ReclaimOnce(st, floors, order, ms, protected) =
          IF st.packed.current_kept \/ protected = NoText \/ sources = {} THEN st
          ELSE [alloc |-> alloc,
                packed |-> pack_messages(ms, alloc[MESSAGES_KIND], protected)]
    BY DEF ReclaimOnce
  <1>2. ASSUME sources # {}
        PROVE  alloc \in [K -> Int] /\ alloc[MESSAGES_KIND] \in Int
    <2>1. sources \in SUBSET (K \ {MESSAGES_KIND}) /\ \A o \in sources : st.alloc[o] \in Nat
      BY DEF reclaim_sources
    <2>2. k \in sources
      <3> HIDE DEF sources
      <3> QED
        BY <1>2, <2>1, FirstSourceIs
    <2> HIDE DEF k
    <2>3. step \in Int
      BY <2>1, <2>2 DEF Most, RECLAIM_STEP
    <2> HIDE DEF step, sources
    <2> QED
      BY <2>1, <2>2, <2>3
  <1> HIDE DEF alloc
  <1> QED
    BY <1>1, <1>2 DEF Packings

LEMMA FiniteKinds == IsFiniteSet(AllKinds)
  <1>1. IsFiniteSet({}) /\ \A S, x : IsFiniteSet(S) => IsFiniteSet(S \cup {x})
    BY FS_EmptySet, FS_AddElement
  <1>2. AllKinds = {} \cup {"system_policy"} \cup {"tenant_profile"} \cup {"user_profile"}
                   \cup {"conversation_summary"} \cup {"approval_state"} \cup {"task_slots"}
                   \cup {"retrieval_evidence"} \cup {"tool_results"} \cup {MESSAGES_KIND}
    BY DEF AllKinds, BlockKinds
  <1> QED
    BY <1>1, <1>2, Zenon

LEMMA PackedWithReclaim ==
  ASSUME NEW K \in SUBSET AllKinds, MESSAGES_KIND \in K, NEW floors \in [K -> Nat],
         NEW alloc \in [K -> Int], NEW order, NEW m \in Nat, DOMAIN order = 1..m,
         \A k \in K \ {MESSAGES_KIND} : \E i \in DOMAIN order : order[i] = k,
         NEW ms, NEW protected
  PROVE  PackWithReclaim(alloc, floors, order, ms, protected)
           \in [alloc : [K -> Int], packed : Packings(ms, protected)]
  <1> DEFINE S == [alloc : [K -> Int], packed : Packings(ms, protected)]
             base == [alloc |-> alloc,
                      packed |-> pack_messages(ms, alloc[MESSAGES_KIND], protected)]
             n == Cardinality({k \in DOMAIN alloc : ~is_hard(k)})
             steps == [i \in 1..n |-> i]
             one(st) == ReclaimOnce(st, floors, order, ms, protected)
             G == [x \in S \X (1..n) |-> one(x[1])]
             iter == CHOOSE iter : iter = [s \in SUBSET DOMAIN steps |->
                       IF s = {} THEN base ELSE one(iter[s \ {Max(s)}])]
             T == S \X (0..n)
  <1>1. n \in Nat /\ DOMAIN steps = 1..n
    <2>1. {k \in DOMAIN alloc : ~is_hard(k)} \in SUBSET AllKinds
      OBVIOUS
    <2>2. IsFiniteSet({k \in DOMAIN alloc : ~is_hard(k)})
      BY <2>1, FiniteKinds, FS_Subset
    <2> QED
      BY <2>2, FS_CardinalityType
  <1>3. PackWithReclaim(alloc, floors, order, ms, protected) = iter[DOMAIN steps]
    BY DEF PackWithReclaim, FoldLeft, MapThenFoldSet
  <1>4. base \in S
    BY DEF Packings
  <1>5. ASSUME NEW st \in S PROVE one(st) \in S
    BY ReclaimTyped, ZenonT(30)
  <1> HIDE DEF one, S, base, n, steps
  <1>6. G \in [S \X (1..n) -> S]
    BY <1>5
  <1>7. PICK g \in [SUBSET (1..n) -> S] : Folds(g, n, base, G)
    <2> HIDE DEF G
    <2> QED
      BY <1>1, <1>4, <1>6, FoldExists
  <1>8. ASSUME NEW s \in SUBSET (1..n), s # {}
        PROVE  g[s] = one(g[s \ {Max(s)}])
    <2>1. Max(s) \in 1..n /\ g[s \ {Max(s)}] \in S
      BY <1>1, <1>8, MaxOf
    <2>2. g[s] = G[<<g[s \ {Max(s)}], Max(s)>>]
      BY <1>7, <1>8 DEF Folds
    <2> QED
      BY <2>1, <2>2
  <1>9. g = [s \in SUBSET DOMAIN steps |-> IF s = {} THEN base ELSE one(g[s \ {Max(s)}])]
    BY <1>1, <1>7, <1>8 DEF Folds
  <1>10. iter = [s \in SUBSET DOMAIN steps |-> IF s = {} THEN base ELSE one(iter[s \ {Max(s)}])]
    BY <1>9
  <1> HIDE DEF iter
  <1>11. Follows(iter, n, base, G, S)
    <2>1. ASSUME NEW s \in SUBSET (1..n), s # {}, iter[s \ {Max(s)}] \in S
          PROVE  iter[s] = G[<<iter[s \ {Max(s)}], Max(s)>>]
      <3>1. Max(s) \in 1..n
        BY <1>1, <2>1, MaxOf
      <3>2. iter[s] = one(iter[s \ {Max(s)}])
        BY <1>1, <1>10, <2>1
      <3> QED
        BY <2>1, <3>1, <3>2
    <2>2. iter[{}] = base
      BY <1>1, <1>10
    <2> HIDE DEF G
    <2> QED
      BY <2>1, <2>2 DEF Follows
  <1>12. PassedOn(T, n, base, G, S)
    <2>1. \A k \in 0..(n-1) : k + 1 \in 1..n /\ k + 1 \in 0..n
      BY <1>1
    <2>2. \A k \in 0..(n-1), st \in S : G[<<st, k+1>>] \in S
      BY <1>6, <2>1
    <2>3. 0 \in 0..n
      BY <1>1
    <2> HIDE DEF G
    <2> QED
      BY <1>4, <2>1, <2>2, <2>3 DEF PassedOn
  <1>13. iter[1..n] \in S
    <2> HIDE DEF T, G
    <2> QED
      BY <1>1, <1>4, <1>6, <1>11, <1>12, FoldKeeps
  <1> QED
    BY <1>1, <1>3, <1>13 DEF S

(******************* packing evidence and tool results ********************)
\* The ranking is a line: every item has its place in it.
LEMMA RankedTyped ==
  ASSUME NEW items \in Seq(EvidenceItem)
  PROVE  RankEvidence(items) \in Seq(EvidenceItem) /\ (items = <<>> => RankEvidence(items) = <<>>)
  <1> DEFINE first == {i \in DOMAIN items :
                         /\ items[i].size > 0
                         /\ \A j \in 1..(i - 1) : items[j].size > 0 => items[j].id # items[i].id}
             better(j, i) == LET a == items[j]
                                 b == items[i]
                             IN \/ a.score > b.score
                                \/ a.score = b.score /\ a.rank < b.rank
                                \/ a.score = b.score /\ a.rank = b.rank /\ j < i
             R == {p \in first \X first : better(p[1], p[2])}
             at(k) == CHOOSE i \in first : Cardinality({j \in first : better(j, i)}) = k - 1
  <1>1. Len(items) \in Nat /\ DOMAIN items = 1..Len(items) /\ first \in SUBSET (1..Len(items))
        /\ \A i \in DOMAIN items : items[i] \in EvidenceItem
    OBVIOUS
  <1>2. RankEvidence(items) = [k \in 1..Cardinality(first) |-> items[at(k)]]
    BY DEF RankEvidence, InOrder
  <1>3. \A i \in first : i \in Int /\ items[i].score \in Int /\ items[i].rank \in Int
                         /\ items[i] \in EvidenceItem
    BY <1>1 DEF EvidenceItem
  <1>4. IsFiniteSet(first)
    BY <1>1, HowManyPositions, FS_Subset
  <1> HIDE DEF first
  <1>5. \A i, j \in first : <<i, j>> \in R <=> better(i, j)
    OBVIOUS
  <1>6. InLine(first, R)
    <2>1. \A i \in first : ~better(i, i)
      BY <1>3
    <2>2. \A i, j \in first : i # j => better(i, j) \/ better(j, i)
      BY <1>3
    <2>3. \A i, j, k \in first : better(i, j) /\ better(j, k) => better(i, k)
      BY <1>3
    <2> HIDE DEF R, better
    <2> QED
      BY <1>5, <2>1, <2>2, <2>3 DEF InLine
  <1>7. ASSUME NEW i \in first PROVE Before(first, R, i) = {j \in first : better(j, i)}
    <2> HIDE DEF R
    <2> QED
      BY <1>5 DEF Before
  <1> HIDE DEF R
  <1>8. /\ Cardinality(first) \in Nat
        /\ \A k \in 1..Cardinality(first) :
             \E i \in first : Cardinality(Before(first, R, i)) = k - 1
    BY <1>4, <1>6, PlacesInLine
  <1>9. \A k \in 1..Cardinality(first) : at(k) \in first
    <2>1. \A k \in 1..Cardinality(first) :
            \E i \in first : Cardinality({j \in first : better(j, i)}) = k - 1
      BY <1>7, <1>8
    <2> HIDE DEF better
    <2> QED
      BY <2>1
  <1> HIDE DEF at
  <1>10. RankEvidence(items) \in [1..Cardinality(first) -> EvidenceItem]
    BY <1>2, <1>3, <1>9
  <1>11. RankEvidence(items) \in Seq(EvidenceItem) /\ Len(RankEvidence(items)) = Cardinality(first)
    BY <1>8, <1>10, ArrayIsSeq
  <1>12. items = <<>> => first = {}
    BY DEF first
  <1>13. ASSUME items = <<>> PROVE RankEvidence(items) = <<>>
    <2>1. Cardinality(first) = 0
      BY <1>12, <1>13, FS_EmptySet
    <2> QED
      BY <1>11, <2>1
  <1> QED
    BY <1>11, <1>13

\* What is packed of either list: a whole number of tokens, and nothing of nothing.
ItemPack == [items : Seq(ItemIds), dropped : Seq(ItemIds), used : Nat]
AreItems(list) == /\ Len(list) \in Nat /\ DOMAIN list = 1..Len(list)
                  /\ \A i \in 1..Len(list) : list[i].id \in ItemIds /\ list[i].size \in Nat

LEMMA PackItemTyped ==
  ASSUME NEW st \in ItemPack, NEW item, item.id \in ItemIds, item.size \in Nat,
         NEW room \in Int, NEW trimmed \in Int
  PROVE  PackItem(st, item, room, trimmed) \in ItemPack
  <1> DEFINE cut == IF ItemHeader + item.size <= room THEN Cut(item.size, FALSE, 0)
                    ELSE IF room < MIN_ITEM_TOKENS THEN Cut(0, TRUE, item.size)
                    ELSE truncate_text(item.size, Most(8, trimmed), "tail")
             cost == ItemHeader + cut.tokens
  <1>1. PackItem(st, item, room, trimmed) =
          IF (cut.truncated /\ cut.tokens = 0) \/ cost > room
          THEN [st EXCEPT !.dropped = Append(@, item.id)]
          ELSE [st EXCEPT !.items = Append(@, item.id), !.used = @ + cost]
    BY DEF PackItem
  <1>2. cut.tokens \in Nat
    <2>1. Most(8, trimmed) \in Int
      BY DEF Most
    <2>2. truncate_text(item.size, Most(8, trimmed), "tail").tokens \in Nat
      BY <2>1, TruncateTyped
    <2>3. Cut(item.size, FALSE, 0).tokens \in Nat /\ Cut(0, TRUE, item.size).tokens \in Nat
      BY DEF Cut
    <2> QED
      BY <2>2, <2>3
  <1> HIDE DEF cut
  <1>3. cost \in Nat
    BY <1>2, CountsAssumption
  <1> HIDE DEF cost
  <1>4. /\ st.items \in Seq(ItemIds) /\ st.dropped \in Seq(ItemIds) /\ st.used \in Nat
    BY DEF ItemPack
  <1>5. Append(st.items, item.id) \in Seq(ItemIds) /\ Append(st.dropped, item.id) \in Seq(ItemIds)
        /\ st.used + cost \in Nat
    BY <1>3, <1>4
  <1> QED
    BY <1>1, <1>5 DEF ItemPack

LEMMA PackItemsTyped ==
  ASSUME NEW list, AreItems(list), NEW budget \in Int, NEW overhead \in Int, NEW parts \in Nat \ {0}
  PROVE  /\ PackItems(list, budget, overhead, parts) \in ItemPack
         /\ Len(list) = 0 => PackItems(list, budget, overhead, parts).items = <<>>
  <1> DEFINE S == ItemPack
             n == Len(list)
             one(st, item) == PackItem(st, item, budget - st.used,
                                       (budget - st.used - overhead) \div parts)
             G == [x \in S \X (1..n) |-> one(x[1], list[x[2]])]
             iter == CHOOSE iter : iter = [s \in SUBSET DOMAIN list |->
                       IF s = {} THEN EmptyPack ELSE one(iter[s \ {Max(s)}], list[Max(s)])]
             T == {x \in S \X (0..n) : x[2] = 0 => x[1] = EmptyPack}
  <1>1. n \in Nat /\ DOMAIN list = 1..n
    BY DEF AreItems
  <1>3. PackItems(list, budget, overhead, parts) = iter[DOMAIN list]
    BY DEF PackItems, FoldLeft, MapThenFoldSet
  <1>4. EmptyPack \in S
    BY DEF EmptyPack, ItemPack
  <1>5. ASSUME NEW st \in S, NEW i \in 1..n PROVE one(st, list[i]) \in S
    <2>1. list[i].id \in ItemIds /\ list[i].size \in Nat
      BY DEF AreItems
    <2>2. budget - st.used \in Int /\ budget - st.used - overhead \in Int
      BY DEF ItemPack
    <2>3. \A x \in Int : x \div parts \in Int
      OBVIOUS
    <2> QED
      BY <2>1, <2>2, <2>3, PackItemTyped
  <1> HIDE DEF one, S, n
  <1>6. G \in [S \X (1..n) -> S]
    BY <1>5
  <1>7. PICK g \in [SUBSET (1..n) -> S] : Folds(g, n, EmptyPack, G)
    <2> HIDE DEF G
    <2> QED
      BY <1>1, <1>4, <1>6, FoldExists
  <1>8. ASSUME NEW s \in SUBSET (1..n), s # {}
        PROVE  g[s] = one(g[s \ {Max(s)}], list[Max(s)])
    <2>1. Max(s) \in 1..n /\ g[s \ {Max(s)}] \in S
      BY <1>1, <1>8, MaxOf
    <2>2. g[s] = G[<<g[s \ {Max(s)}], Max(s)>>]
      BY <1>7, <1>8 DEF Folds
    <2> QED
      BY <2>1, <2>2
  <1>9. g = [s \in SUBSET DOMAIN list |->
               IF s = {} THEN EmptyPack ELSE one(g[s \ {Max(s)}], list[Max(s)])]
    BY <1>1, <1>7, <1>8 DEF Folds
  <1>10. iter = [s \in SUBSET DOMAIN list |->
               IF s = {} THEN EmptyPack ELSE one(iter[s \ {Max(s)}], list[Max(s)])]
    BY <1>9
  <1> HIDE DEF iter
  <1>11. Follows(iter, n, EmptyPack, G, S)
    <2>1. ASSUME NEW s \in SUBSET (1..n), s # {}, iter[s \ {Max(s)}] \in S
          PROVE  iter[s] = G[<<iter[s \ {Max(s)}], Max(s)>>]
      <3>1. Max(s) \in 1..n
        BY <1>1, <2>1, MaxOf
      <3>2. iter[s] = one(iter[s \ {Max(s)}], list[Max(s)])
        BY <1>1, <1>10, <2>1
      <3> QED
        BY <2>1, <3>1, <3>2
    <2>2. iter[{}] = EmptyPack
      BY <1>1, <1>10
    <2> HIDE DEF G
    <2> QED
      BY <2>1, <2>2 DEF Follows
  <1>12. PassedOn(T, n, EmptyPack, G, S)
    <2>1. \A k \in 0..(n-1) : k + 1 \in 1..n /\ k + 1 \in 0..n /\ k + 1 # 0
      BY <1>1
    <2>2. \A k \in 0..(n-1), st \in S : G[<<st, k+1>>] \in S
      BY <1>6, <2>1
    <2>3. 0 \in 0..n
      BY <1>1
    <2> HIDE DEF G
    <2>4. <<EmptyPack, 0>> \in T
      BY <1>4, <2>3
    <2>5. ASSUME NEW k \in 0..(n-1), NEW st \in S PROVE <<G[<<st, k+1>>], k+1>> \in T
      BY <2>1, <2>2
    <2> HIDE DEF T
    <2> QED
      BY <2>4, <2>5 DEF PassedOn
  <1>13. iter[1..n] \in S /\ <<iter[1..n], n>> \in T
    <2> HIDE DEF T, G
    <2> QED
      BY <1>1, <1>4, <1>6, <1>11, <1>12, FoldKeeps
  <1>14. n = 0 => iter[1..n] = EmptyPack
    BY <1>13
  <1> QED
    BY <1>1, <1>3, <1>13, <1>14 DEF S, n, EmptyPack
LEMMA RenderedPack ==
  ASSUME NEW pack \in ItemPack
  PROVE  Rendered(pack) \in Nat
  <1>1. Len(pack.items) \in Nat /\ pack.used \in Nat /\ (pack.items # <<>> => Len(pack.items) > 0)
    BY DEF ItemPack
  <1>2. \A n \in Nat \ {0} : Gap * (n - 1) \in Nat
    BY CountsAssumption
  <1> QED
    BY <1>1, <1>2, CountsAssumption DEF Rendered

\* The joined candidates take at least a token, unless there are none.
LEMMA RenderedItems ==
  ASSUME NEW list, AreItems(list)
  PROVE  render_items(list) \in Nat /\ (Len(list) > 0 => render_items(list) > 0)
  <1> DEFINE s == [i \in DOMAIN list |-> ItemHeader + list[i].size]
  <1>1. s \in Seq(Nat) /\ Len(s) = Len(list) /\ \A i \in 1..Len(list) : s[i] > 0
    <2>1. Len(list) \in Nat /\ s \in [1..Len(list) -> Nat] /\ \A i \in 1..Len(list) : s[i] > 0
      BY CountsAssumption DEF AreItems
    <2> HIDE DEF s
    <2> QED
      BY <2>1, ArrayIsSeq
  <1>2. render_items(list) = IF list = <<>> THEN 0 ELSE SumOf(s) + Gap * (Len(list) - 1)
    BY DEF render_items
  <1>3. Len(list) \in Nat
    BY DEF AreItems
  <1>4. SumOf(s) \in Nat /\ (Len(s) > 0 => SumOf(s) > 0)
    <2> HIDE DEF s
    <2>1. SumOf(s) \in Nat /\ (Len(s) > 0 => SumOf(s) >= s[Len(s)])
      BY <1>1, SumNat
    <2>2. Len(s) > 0 => Len(s) \in 1..Len(list)
      BY <1>1, <1>3
    <2>3. \A i \in 1..Len(list) : s[i] \in Nat
      BY <1>1
    <2> QED
      BY <1>1, <2>1, <2>2, <2>3
  <1>5. \A n \in Nat \ {0} : Gap * (n - 1) \in Nat
    BY CountsAssumption
  <1>6. list # <<>> <=> Len(list) > 0
    <2>1. ASSUME list # <<>> PROVE Len(list) # 0
      <3>1. ASSUME Len(list) = 0 PROVE FALSE
        <4>1. DOMAIN list = {}
          BY <3>1 DEF AreItems
        <4> QED
          BY <2>1, <4>1
      <3> QED
        BY <3>1
    <2> QED
      BY <1>3, <2>1
  <1> HIDE DEF s
  <1> QED
    BY <1>1, <1>2, <1>3, <1>4, <1>5, <1>6

LEMMA AreItemLists ==
  /\ \A list \in Seq(EvidenceItem) : AreItems(list)
  /\ \A list \in Seq(ToolItem) : AreItems(list) /\ AreItems(Reverse(list))
                                 /\ Len(Reverse(list)) = Len(list)
  <1>1. ASSUME NEW list \in Seq(EvidenceItem) PROVE AreItems(list)
    <2>1. \A x \in EvidenceItem : x.id \in ItemIds /\ x.size \in Nat
      BY DEF EvidenceItem
    <2>2. Len(list) \in Nat /\ DOMAIN list = 1..Len(list)
          /\ \A i \in 1..Len(list) : list[i] \in EvidenceItem
      OBVIOUS
    <2> QED
      BY <2>1, <2>2 DEF AreItems
  <1>2. ASSUME NEW list \in Seq(ToolItem)
        PROVE AreItems(list) /\ AreItems(Reverse(list)) /\ Len(Reverse(list)) = Len(list)
    <2>0. \A x \in ToolItem : x.id \in ItemIds /\ x.size \in Nat
      BY DEF ToolItem
    <2>1. Len(list) \in Nat /\ DOMAIN list = 1..Len(list)
          /\ \A i \in 1..Len(list) : list[i] \in ToolItem
      OBVIOUS
    <2>2. Reverse(list) \in [1..Len(list) -> ToolItem]
      BY <2>1 DEF Reverse
    <2>3. Reverse(list) \in Seq(ToolItem) /\ Len(Reverse(list)) = Len(list)
      BY <2>1, <2>2, ArrayIsSeq
    <2>4. AreItems(list)
      BY <2>0, <2>1 DEF AreItems
    <2>5. AreItems(Reverse(list))
      <3> HIDE DEF ToolItem
      <3>1. DOMAIN Reverse(list) = 1..Len(list)
            /\ \A i \in 1..Len(list) : Reverse(list)[i] \in ToolItem
        BY <2>2
      <3> QED
        BY <2>0, <2>1, <2>3, <3>1 DEF AreItems
    <2> QED
      BY <2>3, <2>4, <2>5
  <1> QED
    BY <1>1, <1>2

\* Of the blocks of one kind the first stays.
LEMMA DedupedKinds ==
  ASSUME NEW blocks \in Seq(Blocks)
  PROVE  /\ \A k \in 1..Len(dedupe_blocks(blocks)) :
              \E i \in DOMAIN blocks : dedupe_blocks(blocks)[k] = blocks[i]
         /\ \A i \in DOMAIN blocks :
              \E k \in 1..Len(dedupe_blocks(blocks)) :
                dedupe_blocks(blocks)[k].kind = blocks[i].kind
  <1> DEFINE first == {i \in DOMAIN blocks :
                         \A j \in 1..(i - 1) : blocks[j].kind # blocks[i].kind}
             D == dedupe_blocks(blocks)
  <1>1. /\ first \in SUBSET (1..Len(blocks)) /\ DOMAIN blocks = 1..Len(blocks)
        /\ Len(blocks) \in Nat /\ D = At(blocks, first)
    BY DEF dedupe_blocks
  <1>2. ASSUME NEW i \in DOMAIN blocks
        PROVE  \E m \in first : blocks[m].kind = blocks[i].kind
    <2> DEFINE T == {j \in DOMAIN blocks : blocks[j].kind = blocks[i].kind}
    <2>1. T \in SUBSET Nat /\ T # {}
      BY <1>1
    <2>2. PICK m \in T : \A j \in T : m <= j
      <3> HIDE DEF T
      <3> QED
        BY <2>1, LeastOf
    <2>3. ASSUME NEW j \in 1..(m - 1) PROVE blocks[j].kind # blocks[m].kind
      <3>1. j \in DOMAIN blocks /\ ~(m <= j)
        BY <1>1, <2>2
      <3> QED
        BY <2>2, <3>1
    <2> QED
      BY <2>2, <2>3
  <1> HIDE DEF first
  <1>3. Picked(blocks, first)
    BY <1>1, AtPositions
  <1>4. Len(D) = Cardinality(first)
    BY <1>1, AtTyped
  <1>5. ASSUME NEW k \in 1..Len(D) PROVE \E i \in DOMAIN blocks : D[k] = blocks[i]
    <2>1. Nth(first, k) \in first /\ D[k] = blocks[Nth(first, k)]
      BY <1>1, <1>3, <1>4 DEF Picked
    <2> QED
      BY <1>1, <2>1
  <1>6. ASSUME NEW i \in DOMAIN blocks PROVE \E k \in 1..Len(D) : D[k].kind = blocks[i].kind
    <2>1. PICK m \in first : blocks[m].kind = blocks[i].kind
      BY <1>2
    <2>2. PICK k \in 1..Cardinality(first) : Nth(first, k) = m
      BY <1>3 DEF Picked
    <2>3. D[k] = blocks[m]
      BY <1>1, <1>3, <2>2 DEF Picked
    <2> QED
      BY <1>4, <2>1, <2>3
  <1> QED
    BY <1>5, <1>6

One(K, kind) == IF kind \in K THEN 1 ELSE 0

LEMMA KindsCounted ==
  ASSUME NEW K \in SUBSET BlockKinds
  PROVE  Cardinality(K) = One(K, "system_policy") + One(K, "tenant_profile")
                          + One(K, "user_profile") + One(K, "conversation_summary")
                          + One(K, "approval_state") + One(K, "task_slots")
                          + One(K, "retrieval_evidence") + One(K, "tool_results")
  <1> DEFINE S1 == {} \cup (K \cap {"system_policy"})
  <1> DEFINE S2 == S1 \cup (K \cap {"tenant_profile"})
  <1> DEFINE S3 == S2 \cup (K \cap {"user_profile"})
  <1> DEFINE S4 == S3 \cup (K \cap {"conversation_summary"})
  <1> DEFINE S5 == S4 \cup (K \cap {"approval_state"})
  <1> DEFINE S6 == S5 \cup (K \cap {"task_slots"})
  <1> DEFINE S7 == S6 \cup (K \cap {"retrieval_evidence"})
  <1> DEFINE S8 == S7 \cup (K \cap {"tool_results"})
  <1>1. ASSUME NEW S, IsFiniteSet(S), NEW x, x \notin S
        PROVE  /\ IsFiniteSet(S \cup (K \cap {x}))
               /\ Cardinality(S \cup (K \cap {x})) = Cardinality(S) + One(K, x)
    <2>1. CASE x \in K
      <3>1. K \cap {x} = {x}
        BY <2>1
      <3>2. IsFiniteSet(S \cup {x}) /\ Cardinality(S \cup {x}) = Cardinality(S) + 1
        BY <1>1, FS_AddElement
      <3>3. One(K, x) = 1
        BY <2>1 DEF One
      <3>4. S \cup (K \cap {x}) = S \cup {x}
        BY <3>1
      <3> QED
        BY <3>2, <3>3, <3>4, Zenon
    <2>2. CASE x \notin K
      <3>1. S \cup (K \cap {x}) = S
        BY <2>2
      <3>2. Cardinality(S) \in Nat
        BY <1>1, FS_CardinalityType
      <3>3. One(K, x) = 0 /\ Cardinality(S) + 0 = Cardinality(S)
        BY <2>2, <3>2 DEF One
      <3> QED
        BY <1>1, <3>1, <3>3, Zenon
    <2> QED
      BY <2>1, <2>2
  <1>2. IsFiniteSet({}) /\ Cardinality({}) = 0
    BY FS_EmptySet
  <1>3. IsFiniteSet(S1) /\ Cardinality(S1) = Cardinality({}) + One(K, "system_policy")
    <2>1. "system_policy" \notin {}
      OBVIOUS
    <2> QED
      BY <1>2, <1>1, <2>1
  <1>4. IsFiniteSet(S2) /\ Cardinality(S2) = Cardinality(S1) + One(K, "tenant_profile")
    <2>1. "tenant_profile" \notin S1
      OBVIOUS
    <2> QED
      BY <1>3, <1>1, <2>1
  <1>5. IsFiniteSet(S3) /\ Cardinality(S3) = Cardinality(S2) + One(K, "user_profile")
    <2>1. "user_profile" \notin S2
      OBVIOUS
    <2> QED
      BY <1>4, <1>1, <2>1
  <1>6. IsFiniteSet(S4) /\ Cardinality(S4) = Cardinality(S3) + One(K, "conversation_summary")
    <2>1. "conversation_summary" \notin S3
      OBVIOUS
    <2> QED
      BY <1>5, <1>1, <2>1
  <1>7. IsFiniteSet(S5) /\ Cardinality(S5) = Cardinality(S4) + One(K, "approval_state")
    <2>1. "approval_state" \notin S4
      OBVIOUS
    <2> QED
      BY <1>6, <1>1, <2>1
  <1>8. IsFiniteSet(S6) /\ Cardinality(S6) = Cardinality(S5) + One(K, "task_slots")
    <2>1. "task_slots" \notin S5
      OBVIOUS
    <2> QED
      BY <1>7, <1>1, <2>1
  <1>9. IsFiniteSet(S7) /\ Cardinality(S7) = Cardinality(S6) + One(K, "retrieval_evidence")
    <2>1. "retrieval_evidence" \notin S6
      OBVIOUS
    <2> QED
      BY <1>8, <1>1, <2>1
  <1>10. IsFiniteSet(S8) /\ Cardinality(S8) = Cardinality(S7) + One(K, "tool_results")
    <2>1. "tool_results" \notin S7
      OBVIOUS
    <2> QED
      BY <1>9, <1>1, <2>1
  <1>11. K = S8
    BY DEF BlockKinds
  <1>12. \A k : One(K, k) \in Nat
    BY DEF One
  <1> HIDE DEF S1, S2, S3, S4, S5, S6, S7, S8
  <1> QED
    BY <1>2, <1>3, <1>4, <1>5, <1>6, <1>7, <1>8, <1>9, <1>10, <1>11, <1>12

\* There are no more kinds than blocks.
LEMMA KindsOfBlocks ==
  ASSUME NEW D \in Seq(Blocks)
  PROVE  /\ {D[i].kind : i \in 1..Len(D)} \in SUBSET BlockKinds
         /\ Cardinality({D[i].kind : i \in 1..Len(D)}) <= Len(D)
  <1> DEFINE K == {D[i].kind : i \in 1..Len(D)}
             f == [i \in 1..Len(D) |-> D[i].kind]
  <1>1. Len(D) \in Nat /\ \A i \in 1..Len(D) : D[i] \in Blocks
    OBVIOUS
  <1>2. f \in Surjection(1..Len(D), K)
    BY DEF Surjection
  <1>3. IsFiniteSet(1..Len(D)) /\ Cardinality(1..Len(D)) = Len(D)
    BY <1>1, HowManyPositions
  <1>4. Cardinality(K) <= Len(D)
    <2> HIDE DEF f, K
    <2> QED
      BY <1>2, <1>3, FS_Surjection
  <1> QED
    BY <1>1, <1>4 DEF Blocks

(******************************* placing **********************************)
HasBlock(D, kind) == \E b \in ToSet(D) : b.kind = kind /\ ~is_empty(b)

\* What was declared is still there once duplicates are gone.
LEMMA StillDeclared ==
  ASSUME NEW blocks \in Seq(Blocks), NEW kind, NEW list, Len(list) > 0, Declared(blocks, kind, list)
  PROVE  HasBlock(dedupe_blocks(blocks), kind)
  <1> DEFINE D == dedupe_blocks(blocks)
  <1>1. PICK i \in DOMAIN blocks : blocks[i].kind = kind
    BY DEF Declared
  <1>2. PICK k \in 1..Len(D) : D[k].kind = kind
    BY <1>1, DedupedKinds
  <1>3. PICK j \in DOMAIN blocks : D[k] = blocks[j]
    BY <1>2, DedupedKinds
  <1>4. D[k].size > 0 /\ D[k].size # 0
    <2>1. blocks[j].size > 0 /\ blocks[j] \in Blocks
      BY <1>2, <1>3 DEF Declared
    <2>2. blocks[j].size \in Nat
      BY <2>1 DEF Blocks
    <2> QED
      BY <1>3, <2>1, <2>2
  <1>5. D[k] \in ToSet(D)
    <2>1. DOMAIN D = 1..Len(D)
      <3>1. D = At(blocks, {i2 \in DOMAIN blocks :
                              \A j2 \in 1..(i2 - 1) : blocks[j2].kind # blocks[i2].kind})
        BY DEF dedupe_blocks
      <3>2. D \in Seq(Blocks)
        BY <3>1, AtTyped
      <3> HIDE DEF D
      <3> QED
        BY <3>2
    <2> QED
      BY <1>2, <2>1 DEF ToSet
  <1> HIDE DEF D
  <1> QED
    BY <1>2, <1>4, <1>5 DEF HasBlock, is_empty, D

LEMMA EvidencePacked ==
  ASSUME NEW req, WellFormed(req), NEW budget \in Int
  PROVE  /\ pack_evidence(req.evidence, budget) \in ItemPack
         /\ pack_evidence(req.evidence, budget).items # <<>>
              => HasBlock(dedupe_blocks(req.blocks), "retrieval_evidence")
  <1> DEFINE ranked == RankEvidence(req.evidence)
             pack == pack_evidence(req.evidence, budget)
  <1>1. /\ req.evidence \in Seq(EvidenceItem) /\ req.blocks \in Seq(Blocks)
        /\ Declared(req.blocks, "retrieval_evidence", req.evidence)
    BY DEF WellFormed
  <1>2. ranked \in Seq(EvidenceItem) /\ (req.evidence = <<>> => ranked = <<>>)
    BY <1>1, RankedTyped
  <1> HIDE DEF ranked
  <1>3. AreItems(ranked)
    BY <1>2, AreItemLists
  <1>4. pack = PackItems(ranked, budget, ItemHeader, 1)
    BY DEF pack_evidence, ranked
  <1>5. ItemHeader \in Int /\ 1 \in Nat \ {0}
    BY CountsAssumption
  <1> HIDE DEF pack
  <1>6. pack \in ItemPack /\ (Len(ranked) = 0 => pack.items = <<>>)
    BY <1>3, <1>4, <1>5, PackItemsTyped
  <1>7. ASSUME pack.items # <<>> PROVE HasBlock(dedupe_blocks(req.blocks), "retrieval_evidence")
    <2>1. ranked # <<>>
      BY <1>6, <1>7
    <2>2. Len(req.evidence) > 0
      BY <1>1, <1>2, <2>1
    <2> QED
      BY <1>1, <2>2, StillDeclared
  <1> QED
    BY <1>6, <1>7 DEF pack

LEMMA ToolsPacked ==
  ASSUME NEW req, WellFormed(req), NEW budget \in Int
  PROVE  /\ pack_tool_results(req.tools, budget) \in ItemPack
         /\ pack_tool_results(req.tools, budget).items # <<>>
              => HasBlock(dedupe_blocks(req.blocks), "tool_results")
  <1> DEFINE newest == Reverse(req.tools)
             pack == pack_tool_results(req.tools, budget)
  <1>1. /\ req.tools \in Seq(ToolItem) /\ req.blocks \in Seq(Blocks)
        /\ Declared(req.blocks, "tool_results", req.tools)
    BY DEF WellFormed
  <1>2. AreItems(newest) /\ Len(newest) = Len(req.tools) /\ Len(req.tools) \in Nat
    BY <1>1, AreItemLists
  <1> HIDE DEF newest
  <1>3. pack = PackItems(newest, budget, 0, 2)
    BY DEF pack_tool_results, newest
  <1> HIDE DEF pack
  <1>4. pack \in ItemPack /\ (Len(newest) = 0 => pack.items = <<>>)
    BY <1>2, <1>3, PackItemsTyped
  <1>5. ASSUME pack.items # <<>> PROVE HasBlock(dedupe_blocks(req.blocks), "tool_results")
    <2>1. Len(req.tools) > 0
      BY <1>2, <1>4, <1>5
    <2> QED
      BY <1>1, <2>1, StillDeclared
  <1> QED
    BY <1>4, <1>5 DEF pack

\* What a plan that was not refused says.
Accepted(plan, req, packed) ==
  /\ plan.packed = packed /\ plan.evicted = EvictedIds(req.messages, packed)
  /\ plan.request = SummaryRequestFor(plan.evicted, req.version)
  /\ \A k \in DOMAIN plan.sections : plan.sections[k].tokens \in Nat
  /\ RenderedPrompt(plan) \in Nat /\ RenderedPrompt(plan) <= Usable(req)
  /\ "conversation_summary" \in DOMAIN plan.sections =>
       RenderedPrompt(plan) >= Section(plan.sections["conversation_summary"].tokens)

\* A block of text is placed whole or cut.
LEMMA PlacedTyped ==
  ASSUME NEW b \in Blocks, NEW allocation \in Int
  PROVE  Placed(b, allocation).tokens \in Nat
  <1>1. b.size \in Nat /\ Most(0, allocation - Header) \in Int
    BY CountsAssumption DEF Blocks, Most
  <1>2. truncate_text(b.size, Most(0, allocation - Header), policy_for(b.kind).truncation).tokens
          \in Nat
    BY <1>1, TruncateTyped
  <1> QED
    BY <1>1, <1>2 DEF Placed, Cut

\* The blocks placed as texts: neither of the lists, and not the messages.
PlacedTexts(D) == {b \in ToSet(D) : /\ ~is_empty(b) /\ b.kind # MESSAGES_KIND
                                    /\ b.kind \notin {"retrieval_evidence", "tool_results"}}
PlacedKinds(D) == {b.kind : b \in PlacedTexts(D)}
SectionsOf(D, alloc) ==
  [k \in PlacedKinds(D) |-> Placed(CHOOSE b \in PlacedTexts(D) : b.kind = k, alloc[k])]

LEMMA SectionsTyped ==
  ASSUME NEW D \in Seq(Blocks), NEW alloc \in [Competing(D) -> Int]
  PROVE  /\ DOMAIN SectionsOf(D, alloc) = PlacedKinds(D)
         /\ \A k \in PlacedKinds(D) : SectionsOf(D, alloc)[k].tokens \in Nat
         /\ PlacedKinds(D) \in SUBSET ({D[i].kind : i \in 1..Len(D)}
                                       \ {"retrieval_evidence", "tool_results"})
  <1>1. /\ DOMAIN D = 1..Len(D) /\ \A b \in ToSet(D) : b \in Blocks /\ \E i \in 1..Len(D) : b = D[i]
    BY DEF ToSet
  <1>2. DOMAIN SectionsOf(D, alloc) = PlacedKinds(D)
    BY DEF SectionsOf
  <1>3. ASSUME NEW k \in PlacedKinds(D) PROVE SectionsOf(D, alloc)[k].tokens \in Nat
    <2>1. PICK c \in PlacedTexts(D) : c.kind = k
      BY DEF PlacedKinds
    <2> DEFINE b == CHOOSE b \in PlacedTexts(D) : b.kind = k
    <2>2. b \in PlacedTexts(D)
      BY <2>1
    <2>3. k \in Competing(D)
      BY <2>1 DEF Competing, PlacedTexts
    <2>4. SectionsOf(D, alloc)[k] = Placed(b, alloc[k])
      BY DEF SectionsOf
    <2> HIDE DEF b
    <2>5. b \in Blocks /\ alloc[k] \in Int
      BY <1>1, <2>2, <2>3 DEF PlacedTexts
    <2> QED
      BY <2>4, <2>5, PlacedTyped
  <1>4. PlacedKinds(D) \in SUBSET ({D[i].kind : i \in 1..Len(D)}
                                   \ {"retrieval_evidence", "tool_results"})
    BY <1>1 DEF PlacedKinds, PlacedTexts
  <1> QED
    BY <1>2, <1>3, <1>4

\* The headings and blank lines around the texts cost two tokens more, a section,
\* than the allocation counted.
LEMMA SectionsRendered ==
  ASSUME NEW K \in SUBSET (BlockKinds \ {"retrieval_evidence", "tool_results"}),
         NEW sections, DOMAIN sections = K, \A k \in K : sections[k].tokens \in Nat,
         NEW actual, actual = [k \in DOMAIN sections |->
                                 IF sections[k].tokens = 0 THEN 0 ELSE sections[k].tokens + Header],
         NEW rendered, rendered = [k \in DOMAIN sections |-> Section(sections[k].tokens)]
  PROVE  /\ Total(actual) \in Nat /\ Total(rendered) \in Nat
         /\ Total(rendered) <= Total(actual) + 2 * Cardinality(K)
         /\ Cardinality(K) \in Nat
         /\ \A k \in K : Total(rendered) >= Section(sections[k].tokens)
  <1>1. \A k \in K : /\ actual[k] \in Nat /\ rendered[k] \in Nat
                     /\ rendered[k] <= actual[k] + 2
    BY CountsAssumption DEF Section, SECTION_JOIN_TOKENS
  <1>2. \A k : /\ Term(actual, k) \in Nat /\ Term(rendered, k) \in Nat /\ One(K, k) \in Nat
               /\ Term(rendered, k) <= Term(actual, k) + 2 * One(K, k)
               /\ k \notin K => Term(rendered, k) = 0 /\ Term(actual, k) = 0 /\ One(K, k) = 0
    BY <1>1 DEF Term, One
  <1>3. \A k \in K : rendered[k] = Section(sections[k].tokens) /\ Term(rendered, k) = rendered[k]
    BY DEF Term
  <1>4. Total(actual) = TenTerms(actual) /\ Total(rendered) = TenTerms(rendered)
    <2>1. \A k \in DOMAIN actual : actual[k] \in Int
      BY <1>1
    <2>2. \A k \in DOMAIN rendered : rendered[k] \in Int
      BY <1>1
    <2> QED
      BY <2>1, <2>2, TotalIs
  <1> DEFINE a(k) == Term(actual, k)
             r(k) == Term(rendered, k)
             o(k) == One(K, k)
  <1>5. /\ "retrieval_evidence" \notin K /\ "tool_results" \notin K
        /\ "recent_messages" \notin K /\ "unknown" \notin K
    BY DEF BlockKinds
  <1>6. Cardinality(K) = o("system_policy") + o("tenant_profile") + o("user_profile")
          + o("conversation_summary") + o("approval_state") + o("task_slots")
          + o("retrieval_evidence") + o("tool_results")
    BY KindsCounted
  <1>7. Total(actual) = a("system_policy") + a("tenant_profile") + a("user_profile")
          + a("conversation_summary") + a("approval_state") + a("task_slots")
          + a("retrieval_evidence") + a("tool_results") + a("recent_messages") + a("unknown")
    BY <1>4 DEF TenTerms
  <1>8. Total(rendered) = r("system_policy") + r("tenant_profile") + r("user_profile")
          + r("conversation_summary") + r("approval_state") + r("task_slots")
          + r("retrieval_evidence") + r("tool_results") + r("recent_messages") + r("unknown")
    BY <1>4 DEF TenTerms
  <1>9. \A k : /\ a(k) \in Nat /\ r(k) \in Nat /\ o(k) \in Nat /\ r(k) <= a(k) + 2 * o(k)
               /\ k \notin K => r(k) = 0 /\ a(k) = 0 /\ o(k) = 0
    BY <1>2
  <1> HIDE DEF a, r, o
  <1>10. Total(actual) \in Nat /\ Total(rendered) \in Nat /\ Cardinality(K) \in Nat
    <2>1. \A k : a(k) \in Nat /\ r(k) \in Nat /\ o(k) \in Nat
      BY <1>9
    <2>2. Total(actual) \in Nat
      BY <1>7, <2>1
    <2>3. Total(rendered) \in Nat
      BY <1>8, <2>1
    <2>4. Cardinality(K) \in Nat
      BY <1>6, <2>1
    <2> QED
      BY <2>2, <2>3, <2>4
  <1>11. Total(rendered) <= Total(actual) + 2 * Cardinality(K)
    BY <1>5, <1>6, <1>7, <1>8, <1>9
  <1>12. ASSUME NEW k \in K PROVE Total(rendered) >= Section(sections[k].tokens)
    <2>1. r(k) = Section(sections[k].tokens)
      BY <1>3 DEF r
    <2>2. k \in {"system_policy", "tenant_profile", "user_profile", "conversation_summary",
                 "approval_state", "task_slots"}
      BY DEF BlockKinds
    <2>3. Total(rendered) >= r(k)
      BY <1>8, <1>9, <2>2
    <2> QED
      BY <2>1, <2>3
  <1> QED
    BY <1>10, <1>11, <1>12

\* The texts, the evidence and the results are of different kinds.
LEMMA ListsBesideTexts ==
  ASSUME NEW M \in SUBSET BlockKinds,
         NEW K \in SUBSET (M \ {"retrieval_evidence", "tool_results"})
  PROVE  Cardinality(K) + One(M, "retrieval_evidence") + One(M, "tool_results") <= Cardinality(M)
  <1> DEFINE o(k) == One(K, k)
             w(k) == One(M, k)
  <1>1. \A k : o(k) \in Nat /\ w(k) \in Nat /\ o(k) <= w(k)
    BY DEF One
  <1>2. o("retrieval_evidence") = 0 /\ o("tool_results") = 0
    BY DEF One
  <1>3. Cardinality(K) = o("system_policy") + o("tenant_profile") + o("user_profile")
          + o("conversation_summary") + o("approval_state") + o("task_slots")
          + o("retrieval_evidence") + o("tool_results")
    BY KindsCounted
  <1>4. Cardinality(M) = w("system_policy") + w("tenant_profile") + w("user_profile")
          + w("conversation_summary") + w("approval_state") + w("task_slots")
          + w("retrieval_evidence") + w("tool_results")
    BY KindsCounted
  <1>5. Cardinality(K) + w("retrieval_evidence") + w("tool_results") <= Cardinality(M)
    <2> HIDE DEF o, w
    <2> QED
      BY <1>1, <1>2, <1>3, <1>4
  <1> QED
    BY <1>5

\* What is placed inside the allocations fits once it is rendered: the blank lines
\* taken off the budget, two tokens for every block, pay for those that are rendered.
LEMMA PlaceIs ==
  ASSUME NEW req, WellFormed(req), Usable(req) >= MIN_USABLE_TOKENS,
         NEW D, D = dedupe_blocks(req.blocks),
         NEW alloc \in [Competing(D) -> Int], NEW packed, packed.used \in Nat
  PROVE  /\ Place(req, D, ToSpend(req, D), alloc, packed).ok \in BOOLEAN
         /\ Place(req, D, ToSpend(req, D), alloc, packed).ok
              => Accepted(Place(req, D, ToSpend(req, D), alloc, packed), req, packed)
  <1> DEFINE usable == ToSpend(req, D)
             plan == Place(req, D, usable, alloc, packed)
             share(k) == IF k \in DOMAIN alloc THEN Most(0, alloc[k] - Header) ELSE 0
             evidence == pack_evidence(req.evidence, share("retrieval_evidence"))
             tools == pack_tool_results(req.tools, share("tool_results"))
             sections == SectionsOf(D, alloc)
             actual == [k \in DOMAIN sections |->
                          IF sections[k].tokens = 0 THEN 0 ELSE sections[k].tokens + Header]
             rendered == [k \in DOMAIN sections |-> Section(sections[k].tokens)]
             used == req.scaffolding + Total(actual) + packed.used
                     + (IF HasBlock(D, "retrieval_evidence") THEN Rendered(evidence) ELSE 0)
                     + (IF HasBlock(D, "tool_results") THEN Rendered(tools) ELSE 0)
             evicted == EvictedIds(req.messages, packed)
             record == [ok |-> TRUE, sections |-> sections, evidence |-> evidence, tools |-> tools,
                        packed |-> packed, used |-> used, usable |-> usable, evicted |-> evicted,
                        request |-> SummaryRequestFor(evicted, req.version)]
  <1>1. \/ plan = Infeasible("hard_block")
        \/ plan = Infeasible("internal")
        \/ plan = record /\ ~(used > usable)
    BY DEF Place, HasBlock, SectionsOf, PlacedKinds, PlacedTexts
  <1>2. Infeasible("hard_block").ok = FALSE /\ Infeasible("internal").ok = FALSE /\ record.ok = TRUE
    BY DEF Infeasible
  <1>3. D \in Seq(Blocks) /\ Len(D) <= 8 /\ Len(D) \in Nat
    BY DedupedTyped DEF WellFormed
  <1>4. \A k : share(k) \in Int
    BY CountsAssumption DEF Most
  <1> HIDE DEF share
  <1>5. /\ evidence \in ItemPack
        /\ evidence.items # <<>> => HasBlock(D, "retrieval_evidence")
    BY <1>4, EvidencePacked
  <1>6. /\ tools \in ItemPack
        /\ tools.items # <<>> => HasBlock(D, "tool_results")
    BY <1>4, ToolsPacked
  <1> HIDE DEF evidence, tools
  <1>7. Rendered(evidence) \in Nat /\ Rendered(tools) \in Nat
    BY <1>5, <1>6, RenderedPack
  <1> DEFINE M == {D[i].kind : i \in 1..Len(D)}
             K == PlacedKinds(D)
  <1>8. /\ DOMAIN sections = K /\ \A k \in DOMAIN sections : sections[k].tokens \in Nat
        /\ K \in SUBSET (M \ {"retrieval_evidence", "tool_results"})
    BY <1>3, SectionsTyped
  <1>9. M \in SUBSET BlockKinds /\ Cardinality(M) <= Len(D)
    BY <1>3, KindsOfBlocks
  <1> HIDE DEF sections, M, K
  <1>10. /\ Total(actual) \in Nat /\ Total(rendered) \in Nat
         /\ Total(rendered) <= Total(actual) + 2 * Cardinality(K)
         /\ Cardinality(K) \in Nat
         /\ \A k \in K : Total(rendered) >= Section(sections[k].tokens)
    <2>1. K \in SUBSET (BlockKinds \ {"retrieval_evidence", "tool_results"})
      BY <1>8, <1>9
    <2> HIDE DEF actual, rendered
    <2> QED
      BY <1>8, <2>1, SectionsRendered DEF actual, rendered
  <1>11. Cardinality(K) + One(M, "retrieval_evidence") + One(M, "tool_results") <= Cardinality(M)
    BY <1>8, <1>9, ListsBesideTexts
  <1>12. \A kind : HasBlock(D, kind) => One(M, kind) = 1
    <2>1. \A b \in ToSet(D) : \E i \in 1..Len(D) : b = D[i]
      BY <1>3 DEF ToSet
    <2> QED
      BY <2>1 DEF HasBlock, One, M
  <1>13. usable = Usable(req) - 2 * Len(D) /\ usable \in Int /\ Usable(req) \in Int
    <2>1. Usable(req) \in Int
      BY DEF Usable, WellFormed
    <2> QED
      BY <1>3, <2>1 DEF ToSpend, Most, SECTION_JOIN_TOKENS, MIN_USABLE_TOKENS
  <1> DEFINE joined(pack) == IF pack.items = <<>> THEN 0 ELSE Rendered(pack) + SECTION_JOIN_TOKENS
             hasE == IF HasBlock(D, "retrieval_evidence") THEN Rendered(evidence) ELSE 0
             hasT == IF HasBlock(D, "tool_results") THEN Rendered(tools) ELSE 0
  <1>14. RenderedPrompt(record) = Scaffolding + Total(rendered) + joined(evidence)
                                  + joined(tools) + packed.used
    BY DEF RenderedPrompt
  <1>15. /\ joined(evidence) \in Nat /\ hasE \in Nat
         /\ joined(evidence) <= hasE + 2 * One(M, "retrieval_evidence")
         /\ One(M, "retrieval_evidence") \in Nat
    <2>1. One(M, "retrieval_evidence") \in Nat
      BY DEF One
    <2> QED
      BY <1>5, <1>7, <1>12, <2>1 DEF SECTION_JOIN_TOKENS
  <1>16. /\ joined(tools) \in Nat /\ hasT \in Nat
         /\ joined(tools) <= hasT + 2 * One(M, "tool_results")
         /\ One(M, "tool_results") \in Nat
    <2>1. One(M, "tool_results") \in Nat
      BY DEF One
    <2> QED
      BY <1>6, <1>7, <1>12, <2>1 DEF SECTION_JOIN_TOKENS
  <1>17. used = Scaffolding + Total(actual) + packed.used + hasE + hasT
    BY DEF WellFormed
  <1>18. Scaffolding \in Nat /\ Cardinality(M) \in Int
    <2>1. IsFiniteSet(M)
      <3>1. IsFiniteSet(AllKinds) /\ M \in SUBSET AllKinds
        BY <1>9, FiniteKinds DEF AllKinds
      <3> QED
        BY <3>1, FS_Subset
    <2>2. Cardinality(M) \in Nat
      BY <2>1, FS_CardinalityType
    <2> QED
      BY <2>2, ContextAssumption
  <1> HIDE DEF joined, hasE, hasT, usable, actual, rendered
  <1>19. ASSUME ~(used > usable) PROVE Accepted(record, req, packed)
    <2>1. used \in Int
      BY <1>10, <1>15, <1>16, <1>17, <1>18
    <2>2. used <= usable
      BY <1>13, <1>19, <2>1
    <2> HIDE DEF used
    <2>3. RenderedPrompt(record) \in Nat /\ RenderedPrompt(record) >= Total(rendered)
      BY <1>10, <1>14, <1>15, <1>16, <1>18
    <2>4. RenderedPrompt(record) <= used + 2 * (Cardinality(K) + One(M, "retrieval_evidence")
                                                + One(M, "tool_results"))
      BY <1>10, <1>14, <1>15, <1>16, <1>17, <1>18, <2>1
    <2>5. RenderedPrompt(record) <= Usable(req)
      <3> DEFINE extra == Cardinality(K) + One(M, "retrieval_evidence") + One(M, "tool_results")
      <3>1. extra \in Int /\ extra <= Len(D)
        <4>1. extra \in Int
          BY <1>10, <1>15, <1>16
        <4>2. extra <= Cardinality(M)
          BY <1>11
        <4> HIDE DEF extra
        <4> QED
          BY <1>3, <1>9, <1>18, <4>1, <4>2
      <3> HIDE DEF extra
      <3>2. RenderedPrompt(record) <= used + 2 * extra
        BY <2>4 DEF extra
      <3> HIDE DEF record
      <3> QED
        BY <1>3, <1>13, <2>1, <2>2, <2>3, <3>1, <3>2
    <2>6. /\ record.packed = packed /\ record.evicted = evicted /\ record.sections = sections
          /\ record.request = SummaryRequestFor(evicted, req.version)
      OBVIOUS
    <2>7. "conversation_summary" \in DOMAIN record.sections =>
            RenderedPrompt(record) >= Section(record.sections["conversation_summary"].tokens)
      <3> SUFFICES ASSUME "conversation_summary" \in DOMAIN sections
                   PROVE  RenderedPrompt(record) >= Section(sections["conversation_summary"].tokens)
        BY <2>6
      <3> DEFINE c == Section(sections["conversation_summary"].tokens)
      <3>1. Total(rendered) >= c
        BY <1>8, <1>10
      <3>2. c \in Int
        BY <1>8, CountsAssumption DEF Section, SECTION_JOIN_TOKENS
      <3> HIDE DEF c, record
      <3>3. RenderedPrompt(record) >= c
        BY <1>10, <2>3, <3>1, <3>2
      <3> QED
        BY <3>3 DEF c
    <2> HIDE DEF record
    <2> QED
      BY <1>8, <2>3, <2>5, <2>6, <2>7 DEF Accepted
  <1> HIDE DEF record, used
  <1> QED
    BY <1>1, <1>2, <1>19 DEF plan, usable

\* A plan holds what packing the messages to some budget keeps, the current one
\* included when there is one to protect.
Plans(plan, req) ==
  \E packed \in Packings(req.messages, req.protected) :
    /\ Accepted(plan, req, packed)
    /\ req.protected # NoText => packed.current_kept

LEMMA AllocateIs ==
  ASSUME NEW req, WellFormed(req)
  PROVE  allocate(req).ok \in BOOLEAN /\ (allocate(req).ok => Plans(allocate(req), req))
  <1> DEFINE D == dedupe_blocks(req.blocks)
             K == Competing(D)
             usable == ToSpend(req, D)
             demands == Demands(D, req.messages, usable)
             floors == Floors(demands, req.messages, usable)
             reserved == req.scaffolding + Total(floors)
             order == [i \in DOMAIN D |-> D[i].kind]
             filled == Fill(floors, demands, usable - reserved)
             done == PackWithReclaim(filled, floors, order, req.messages, req.protected)
             plan == Place(req, D, usable, done.alloc, done.packed)
  <1>1. allocate(req) =
          IF Usable(req) < MIN_USABLE_TOKENS THEN Infeasible("window")
          ELSE IF reserved > usable THEN Infeasible("floors")
          ELSE IF req.protected # NoText /\ ~done.packed.current_kept
          THEN Infeasible("current_turn")
          ELSE plan
    BY DEF allocate
  <1>2. D \in Seq(Blocks) /\ Len(D) <= 8 /\ Len(D) \in Nat /\ DOMAIN D = 1..Len(D)
    <2>1. D \in Seq(Blocks) /\ Len(D) <= 8
      BY DedupedTyped DEF WellFormed
    <2> HIDE DEF D
    <2> QED
      BY <2>1
  <1>3. AreMessages(req.messages) /\ req.scaffolding \in Nat /\ Usable(req) \in Int
    BY SMTT(20), ContextAssumption DEF WellFormed, Usable
  <1>4. usable \in Nat
    <2> HIDE DEF D
    <2> QED
      BY <1>2, <1>3 DEF ToSpend, Most, SECTION_JOIN_TOKENS
  <1>5. /\ K \in SUBSET AllKinds /\ MESSAGES_KIND \in K
        /\ \A k \in K \ {MESSAGES_KIND} : \E i \in DOMAIN order : order[i] = k
    <2> HIDE DEF D
    <2>1. \A k \in K \ {MESSAGES_KIND} : \E i \in DOMAIN D : D[i].kind = k
      BY <1>2, CompetingKinds
    <2> QED
      BY <1>2, <2>1, CompetingKinds DEF Competing
  <1>6. DOMAIN order = 1..Len(D)
    BY <1>2
  <1> HIDE DEF usable, order
  <1>7. demands \in [K -> Nat]
    <2> HIDE DEF D
    <2> QED
      BY <1>2, <1>3, <1>4, DemandsTyped
  <1> HIDE DEF demands, K, D
  <1>8. floors \in [K -> Nat]
    BY <1>3, <1>4, <1>5, <1>7, FloorsTyped
  <1> HIDE DEF floors
  <1>9. reserved \in Int
    <2>1. Total(floors) \in Int
      BY <1>8, TotalIs
    <2> QED
      BY <1>3, <2>1
  <1> HIDE DEF reserved
  <1>10. filled \in [K -> Int]
    <2>1. usable - reserved \in Int
      BY <1>4, <1>9
    <2> QED
      BY <1>5, <1>7, <1>8, <2>1, FillTyped
  <1> HIDE DEF filled
  <1>11. done \in [alloc : [K -> Int], packed : Packings(req.messages, req.protected)]
    BY SMTT(20), <1>2, <1>5, <1>6, <1>8, <1>10, PackedWithReclaim
  <1> HIDE DEF done
  <1>12. done.alloc \in [Competing(D) -> Int] /\ done.packed \in Packings(req.messages, req.protected)
    BY <1>11 DEF K
  <1>13. done.packed.used \in Nat
    <2>1. done.packed \in PackStates(Len(req.messages))
      BY <1>3, <1>12, Packed DEF Packings
    <2> QED
      BY <2>1 DEF PackStates
  <1>14. ASSUME Usable(req) >= MIN_USABLE_TOKENS
         PROVE  plan.ok \in BOOLEAN /\ (plan.ok => Accepted(plan, req, done.packed))
    BY <1>12, <1>13, <1>14, PlaceIs DEF usable, D
  <1>15. \A why : Infeasible(why).ok = FALSE
    BY DEF Infeasible
  <1>16. ~(Usable(req) < MIN_USABLE_TOKENS) => Usable(req) >= MIN_USABLE_TOKENS
    BY <1>3 DEF MIN_USABLE_TOKENS
  <1> HIDE DEF plan
  <1>17. CASE allocate(req) = plan /\ Usable(req) >= MIN_USABLE_TOKENS
              /\ (req.protected # NoText => done.packed.current_kept)
    BY <1>12, <1>14, <1>17 DEF Plans
  <1>18. CASE \E why : allocate(req) = Infeasible(why)
    BY <1>15, <1>18
  <1> QED
    BY <1>1, <1>16, <1>17, <1>18

(************************** what a turn asks for **************************)
LEMMA EligibleTyped ==
  ASSUME NEW results \in Seq(ToolItem)
  PROVE  eligible_tool_results(results) \in Seq(ToolItem)
  <1> DEFINE usable == {i \in DOMAIN results : results[i].eligible /\ ~results[i].expired}
             same(id) == {i \in usable : results[i].id = id}
             newest(id) == Max(same(id))
             first(id) == Min(same(id))
             latest == [i \in DOMAIN results |-> IF i \in usable THEN results[newest(results[i].id)]
                                                 ELSE results[i]]
             P == {first(results[i].id) : i \in usable}
  <1>1. /\ Len(results) \in Nat /\ DOMAIN results = 1..Len(results) /\ usable \in SUBSET (1..Len(results))
        /\ \A i \in 1..Len(results) : results[i] \in ToolItem
    OBVIOUS
  <1>2. eligible_tool_results(results) = At(latest, P)
    BY DEF eligible_tool_results
  <1>3. ASSUME NEW i \in usable
        PROVE  newest(results[i].id) \in 1..Len(results) /\ first(results[i].id) \in 1..Len(results)
    <2> DEFINE s == same(results[i].id)
    <2>1. s \in SUBSET (1..Len(results)) /\ s \in SUBSET Nat /\ s # {}
      BY <1>1, <1>3
    <2> HIDE DEF s
    <2>2. Max(s) \in s
      BY <1>1, <2>1, MaxOf
    <2>3. \E m \in s : \A n \in s : m <= n
      BY <2>1, LeastOf
    <2>4. Min(s) \in s
      BY <2>3 DEF Min
    <2> QED
      BY <2>1, <2>2, <2>4 DEF s
  <1> HIDE DEF same, newest, first, usable
  <1>4. latest \in [1..Len(results) -> ToolItem]
    <2>1. \A i \in 1..Len(results) : i \in usable => newest(results[i].id) \in 1..Len(results)
      BY <1>3
    <2> QED
      BY <1>1, <2>1
  <1>5. P \in SUBSET (1..Len(results))
    BY <1>3
  <1> HIDE DEF latest, P
  <1>6. latest \in Seq(ToolItem) /\ DOMAIN latest = 1..Len(results)
    BY <1>1, <1>4, ArrayIsSeq
  <1> QED
    BY <1>2, <1>5, <1>6, AtTyped

LEMMA EvidenceTyped ==
  ASSUME NEW a \in AgentState
  PROVE  evidence_candidates(a) \in Seq(EvidenceItem)
  <1>1. a.evidence \in Seq(EvidenceItem) /\ a.documents \in Seq(EvidenceItem) /\ a.knowledge \in Nat
    BY DEF AgentState
  <1> DEFINE item == [id |-> KNOWLEDGE_CONTEXT, size |-> a.knowledge, score |-> 0, rank |-> 0]
  <1>2. item \in EvidenceItem
    BY <1>1 DEF EvidenceItem, ItemIds
  <1>3. evidence_candidates(a) = CASE a.evidence # <<>>  -> a.evidence
                                   [] a.documents # <<>> -> a.documents
                                   [] OTHER -> IF a.knowledge = 0 THEN <<>> ELSE <<item>>
    BY DEF evidence_candidates
  <1>4. <<>> \in Seq(EvidenceItem) /\ <<item>> \in Seq(EvidenceItem)
    <2> HIDE DEF item
    <2> QED
      BY <1>2
  <1> HIDE DEF item
  <1> QED
    BY <1>1, <1>3, <1>4

\* The blocks of the graph are declared only with content.
LEMMA GraphBlocks ==
  ASSUME NEW a \in AgentState, NEW tools \in Seq(ToolItem), NEW evidence \in Seq(EvidenceItem)
  PROVE  /\ graph_state_blocks(a, tools, evidence) \in Seq(Blocks)
         /\ Len(graph_state_blocks(a, tools, evidence)) <= 3
         /\ Declared(graph_state_blocks(a, tools, evidence), "retrieval_evidence", evidence)
         /\ Declared(graph_state_blocks(a, tools, evidence), "tool_results", tools)
  <1> DEFINE declared == <<Block("task_slots", a.slots),
                           Block("tool_results", render_items(tools)),
                           Block("retrieval_evidence", render_items(evidence))>>
             P == {i \in DOMAIN declared : declared[i].size > 0}
             G == graph_state_blocks(a, tools, evidence)
  <1>1. G = At(declared, P)
    BY DEF graph_state_blocks
  <1>2. /\ render_items(tools) \in Nat /\ (Len(tools) > 0 => render_items(tools) > 0)
        /\ render_items(evidence) \in Nat /\ (Len(evidence) > 0 => render_items(evidence) > 0)
    BY AreItemLists, RenderedItems
  <1>3. a.slots \in Nat
    BY DEF AgentState
  <1>4. \A kind \in BlockKinds, size \in Nat :
          Block(kind, size) \in Blocks /\ Block(kind, size).kind = kind /\ Block(kind, size).size = size
    BY DEF Block, Blocks
  <1>5. /\ "task_slots" \in BlockKinds /\ "tool_results" \in BlockKinds
        /\ "retrieval_evidence" \in BlockKinds
    BY DEF BlockKinds
  <1>6. /\ declared \in Seq(Blocks) /\ DOMAIN declared = 1..3
        /\ declared[2].kind = "tool_results" /\ declared[2].size = render_items(tools)
        /\ declared[3].kind = "retrieval_evidence" /\ declared[3].size = render_items(evidence)
    <2> HIDE DEF Block
    <2>1. Block("task_slots", a.slots) \in Blocks
          /\ Block("tool_results", render_items(tools)) \in Blocks
          /\ Block("retrieval_evidence", render_items(evidence)) \in Blocks
      BY <1>2, <1>3, <1>4, <1>5
    <2>2. declared \in Seq(Blocks) /\ DOMAIN declared = 1..3
      BY <2>1
    <2>3. /\ declared[2] = Block("tool_results", render_items(tools))
          /\ declared[3] = Block("retrieval_evidence", render_items(evidence))
      OBVIOUS
    <2> QED
      BY <1>2, <1>4, <1>5, <2>2, <2>3
  <1> HIDE DEF declared
  <1>7. P \in SUBSET (1..3) /\ \A i \in P : declared[i].size > 0
    BY <1>6
  <1>8. Picked(declared, P)
    BY <1>7, AtPositions
  <1>9. G \in Seq(Blocks) /\ Len(G) = Cardinality(P)
    BY <1>1, <1>6, <1>7, AtTyped
  <1>10. Len(G) <= 3
    <2>1. IsFiniteSet(1..3) /\ Cardinality(1..3) = 3
      BY HowManyPositions
    <2>2. Cardinality(P) <= 3
      BY <1>7, <2>1, FS_Subset
    <2> QED
      BY <1>9, <2>2
  <1>11. \A k \in DOMAIN G : G[k].size > 0
    <2>1. DOMAIN G = 1..Cardinality(P)
      BY <1>1, <1>8 DEF Picked
    <2>2. \A k \in 1..Cardinality(P) : Nth(P, k) \in P /\ G[k] = declared[Nth(P, k)]
      BY <1>1, <1>8 DEF Picked
    <2> QED
      BY <1>7, <2>1, <2>2
  <1>12. ASSUME NEW i \in P PROVE \E k \in DOMAIN G : G[k] = declared[i]
    <2>1. PICK k \in 1..Cardinality(P) : Nth(P, k) = i
      BY <1>8 DEF Picked
    <2>2. k \in DOMAIN G /\ G[k] = declared[i]
      BY <1>1, <1>8, <2>1 DEF Picked
    <2> QED
      BY <2>2
  <1>13. Len(evidence) > 0 => \E k \in DOMAIN G : G[k].kind = "retrieval_evidence"
    <2> SUFFICES ASSUME Len(evidence) > 0 PROVE \E k \in DOMAIN G : G[k].kind = "retrieval_evidence"
      OBVIOUS
    <2>1. 3 \in P
      BY <1>2, <1>6
    <2> HIDE DEF P, G
    <2> QED
      BY <1>6, <1>12, <2>1
  <1>14. Len(tools) > 0 => \E k \in DOMAIN G : G[k].kind = "tool_results"
    <2> SUFFICES ASSUME Len(tools) > 0 PROVE \E k \in DOMAIN G : G[k].kind = "tool_results"
      OBVIOUS
    <2>1. 2 \in P
      BY <1>2, <1>6
    <2> HIDE DEF P, G
    <2> QED
      BY <1>6, <1>12, <2>1
  <1> HIDE DEF G, P
  <1> QED
    BY <1>9, <1>10, <1>11, <1>13, <1>14 DEF Declared, G

\* Blocks before and after, of other kinds, change nothing about a declared one.
LEMMA DeclaredAmong ==
  ASSUME NEW s \in Seq(Blocks), NEW g \in Seq(Blocks), NEW u \in Seq(Blocks), NEW kind, NEW list,
         Declared(g, kind, list),
         \A i \in 1..Len(s) : s[i].kind # kind, \A i \in 1..Len(u) : u[i].kind # kind
  PROVE  Declared(s \o g \o u, kind, list)
  <1> DEFINE all == s \o g \o u
  <1>1. /\ Len(s) \in Nat /\ Len(g) \in Nat /\ Len(u) \in Nat
        /\ DOMAIN g = 1..Len(g) /\ DOMAIN all = 1..(Len(s) + Len(g) + Len(u))
    OBVIOUS
  <1>2. \A i \in 1..Len(s) : all[i] = s[i]
    OBVIOUS
  <1>3. \A i \in 1..Len(g) : all[Len(s) + i] = g[i]
    OBVIOUS
  <1>4. \A i \in 1..Len(u) : all[Len(s) + Len(g) + i] = u[i]
    OBVIOUS
  <1> HIDE DEF all
  <1>5. ASSUME NEW i \in DOMAIN all, all[i].kind = kind PROVE all[i].size > 0
    <2>1. CASE i <= Len(s)
      <3>1. i \in 1..Len(s)
        BY <1>1, <1>5, <2>1
      <3> QED
        BY <1>2, <1>5, <3>1
    <2>2. CASE i > Len(s) /\ i <= Len(s) + Len(g)
      <3>1. i - Len(s) \in 1..Len(g) /\ Len(s) + (i - Len(s)) = i
        BY <1>1, <1>5, <2>2
      <3>2. all[i] = g[i - Len(s)]
        BY <1>3, <3>1
      <3> QED
        BY <1>1, <1>5, <3>1, <3>2 DEF Declared
    <2>3. CASE i > Len(s) + Len(g)
      <3> DEFINE j == i - (Len(s) + Len(g))
      <3>1. j \in 1..Len(u) /\ Len(s) + Len(g) + j = i
        BY <1>1, <1>5, <2>3
      <3>2. all[i] = u[j]
        BY <1>4, <3>1
      <3> QED
        BY <1>5, <3>1, <3>2
    <2> QED
      BY <1>1, <2>1, <2>2, <2>3
  <1>6. ASSUME Len(list) > 0 PROVE \E i \in DOMAIN all : all[i].kind = kind
    <2>1. PICK i \in 1..Len(g) : g[i].kind = kind
      BY <1>1, <1>6 DEF Declared
    <2>2. Len(s) + i \in DOMAIN all
      BY <1>1
    <2> QED
      BY <1>3, <2>1, <2>2
  <1> QED
    BY <1>5, <1>6 DEF Declared, all

LEMMA RequestIs ==
  ASSUME NEW t, NEW a \in AgentStates, AreMessages(Candidates(t)),
         chat[t].previous \in 0..Len(summaries), Len(summaries) \in Nat,
         \A v \in 1..Len(summaries) : summaries[v].size \in Nat
  PROVE  /\ WellFormed(Request(t, a))
         /\ Request(t, a).messages = Candidates(t) /\ Request(t, a).protected = chat[t].text
         /\ Request(t, a).version = chat[t].previous
         /\ Usable(Request(t, a)) = Window - MaxOutput - SafetyMargin
  <1> DEFINE r == Request(t, a)
             tools == eligible_tool_results(a.tools)
             evidence == evidence_candidates(a)
             s == blocks_from_state(a)
             g == graph_state_blocks(a, tools, evidence)
             u == summary_block(t)
  <1>1. a \in AgentState /\ PolicySize \in Nat /\ TenantSize \in Nat
        /\ Window \in Nat /\ MaxOutput \in Nat /\ SafetyMargin \in Nat
    BY ContextAssumption
  <1>2. a.profile \in Nat /\ a.approval \in Nat /\ a.tools \in Seq(ToolItem)
    BY <1>1 DEF AgentState
  <1>3. tools \in Seq(ToolItem) /\ evidence \in Seq(EvidenceItem)
    BY <1>1, <1>2, EligibleTyped, EvidenceTyped
  <1>4. /\ r.window = Window /\ r.max_output = MaxOutput /\ r.margin = SafetyMargin
        /\ r.scaffolding = Scaffolding /\ r.messages = Candidates(t)
        /\ r.protected = chat[t].text /\ r.version = chat[t].previous
        /\ r.evidence = evidence /\ r.tools = tools /\ r.blocks = s \o g \o u
    BY DEF Request
  <1> HIDE DEF r, tools, evidence
  <1>5. /\ g \in Seq(Blocks) /\ Len(g) <= 3
        /\ Declared(g, "retrieval_evidence", evidence) /\ Declared(g, "tool_results", tools)
    BY <1>1, <1>3, GraphBlocks
  <1>6. \A kind \in BlockKinds, size \in Nat :
          Block(kind, size) \in Blocks /\ Block(kind, size).kind = kind
    BY DEF Block, Blocks
  <1>7. /\ "system_policy" \in BlockKinds /\ "tenant_profile" \in BlockKinds
        /\ "user_profile" \in BlockKinds /\ "approval_state" \in BlockKinds
        /\ "conversation_summary" \in BlockKinds
    BY DEF BlockKinds
  <1>8. /\ s \in Seq(Blocks) /\ Len(s) = 4
        /\ \A i \in 1..4 : s[i].kind \notin {"retrieval_evidence", "tool_results"}
    <2> DEFINE b1 == Block("system_policy", PolicySize)
               b2 == Block("tenant_profile", TenantSize)
               b3 == Block("user_profile", a.profile)
               b4 == Block("approval_state", a.approval)
    <2>1. /\ b1 \in Blocks /\ b1.kind = "system_policy" /\ b2 \in Blocks /\ b2.kind = "tenant_profile"
          /\ b3 \in Blocks /\ b3.kind = "user_profile" /\ b4 \in Blocks /\ b4.kind = "approval_state"
      BY <1>1, <1>2, <1>6, <1>7
    <2>2. s = <<b1, b2, b3, b4>>
      BY DEF blocks_from_state
    <2> HIDE DEF b1, b2, b3, b4, s
    <2>3. /\ s \in Seq(Blocks) /\ Len(s) = 4
          /\ s[1] = b1 /\ s[2] = b2 /\ s[3] = b3 /\ s[4] = b4
      BY <2>1, <2>2
    <2>4. \A i \in 1..4 : i = 1 \/ i = 2 \/ i = 3 \/ i = 4
      OBVIOUS
    <2> QED
      BY <2>1, <2>3, <2>4
  <1>9. /\ u \in Seq(Blocks) /\ Len(u) <= 1 /\ Len(u) \in Nat
        /\ \A i \in 1..Len(u) : u[i].kind \notin {"retrieval_evidence", "tool_results"}
    <2> DEFINE b == Block("conversation_summary", summaries[chat[t].previous].size)
    <2>1. u = IF chat[t].previous = 0 THEN <<>> ELSE <<b>>
      BY DEF summary_block
    <2>2. chat[t].previous # 0 => b \in Blocks /\ b.kind = "conversation_summary"
      <3>1. chat[t].previous # 0 => chat[t].previous \in 1..Len(summaries)
        OBVIOUS
      <3> QED
        BY <1>6, <1>7, <3>1
    <2> HIDE DEF b, u
    <2> QED
      BY <2>1, <2>2
  <1> HIDE DEF s, g, u
  <1>10. r.blocks \in Seq(Blocks) /\ Len(r.blocks) <= 8
    <2>1. Len(s \o g \o u) = Len(s) + Len(g) + Len(u) /\ s \o g \o u \in Seq(Blocks)
          /\ Len(g) \in Nat
      <3>1. \A x, y \in Seq(Blocks) : /\ x \o y \in Seq(Blocks) /\ Len(x) \in Nat
                                       /\ Len(x \o y) = Len(x) + Len(y)
        OBVIOUS
      <3>2. s \o g \in Seq(Blocks) /\ Len(s \o g) = Len(s) + Len(g)
        BY <1>5, <1>8, <3>1
      <3> QED
        BY <1>5, <1>9, <3>1, <3>2
    <2> QED
      BY <1>4, <1>5, <1>8, <1>9, <2>1
  <1>11. /\ Declared(r.blocks, "retrieval_evidence", evidence)
         /\ Declared(r.blocks, "tool_results", tools)
    BY <1>4, <1>5, <1>8, <1>9, DeclaredAmong
  <1>12. WellFormed(r)
    BY <1>1, <1>3, <1>4, <1>10, <1>11 DEF WellFormed
  <1>13. Usable(r) = Window - MaxOutput - SafetyMargin
    BY <1>4 DEF Usable
  <1> QED
    BY <1>4, <1>12, <1>13 DEF r

(************************* the inductive invariant ************************)
SaidTexts == DOMAIN Texts \cup {NoText, Redacted}
Rows == [id : Nat, role : {"user", "assistant"}, text : SaidTexts, size : Nat]
SummaryRows == [from : Nat, until : Nat, size : Nat, builds_on : Nat, by : ChatTurns]
Deltas == [from : Nat, until : Nat, text : Nat,
           reason : {"none", "model_summary_failed", "evicted_range_not_contiguous"}]
TurnFields == {"pc", "text", "own", "env", "previous", "plan", "delta", "sent", "latest"}
Asked == {"stored", "built", "planned", "refused", "answering"}
Room == Window - MaxOutput - SafetyMargin

DistinctIds(ms) == \A i, j \in 1..Len(ms) : ms[i].id = ms[j].id => i = j

HistoryOK ==
  /\ history \in Seq(Rows)
  /\ \A i \in 1..Len(history) :
       history[i].id = i /\ (history[i].role = "user" => history[i].text \in DOMAIN Texts)

\* A turn is a turn: what it asked is in the history, what it was handed too.
TurnTyped(t) ==
  /\ DOMAIN chat[t] = TurnFields
  /\ chat[t].pc \in Asked \cup {"idle", "persisting", "writing", "done"}
  /\ chat[t].own \in 0..Len(history) /\ chat[t].previous \in 0..Len(summaries)
  /\ chat[t].sent \in Nat /\ chat[t].plan.ok \in BOOLEAN
  /\ chat[t].env \in Seq(Rows) /\ DistinctIds(chat[t].env)
  /\ \A i \in 1..Len(chat[t].env) : chat[t].env[i].id # CURRENT_TURN_ID

QuestionOK(t) ==
  chat[t].pc \in Asked =>
    /\ chat[t].own \in 1..Len(history) /\ history[chat[t].own].role = "user"
    /\ chat[t].text \in DOMAIN Texts \cup {Redacted}

\* A plan that was accepted packs the candidates of its turn, the question included.
PlanOK(t) ==
  chat[t].plan.ok =>
    LET plan == chat[t].plan
        ms == Candidates(t)
    IN /\ chat[t].pc \in {"planned", "answering"}
       /\ plan.packed \in PackStates(Len(ms))
       /\ PackedTo(plan.packed, Len(ms), 0, CurrentIndex(ms, chat[t].text))
       /\ plan.packed.current_kept
       /\ plan.evicted = EvictedIds(ms, plan.packed)
       /\ plan.request = SummaryRequestFor(plan.evicted, chat[t].previous)
       /\ \A k \in DOMAIN plan.sections : plan.sections[k].tokens \in Nat

PromptOK(t) ==
  /\ chat[t].pc = "planned" =>
       /\ chat[t].plan.ok /\ chat[t].sent <= Room
       /\ "conversation_summary" \in DOMAIN chat[t].plan.sections =>
            chat[t].sent >= Section(chat[t].plan.sections["conversation_summary"].tokens)
  /\ chat[t].pc = "answering" => chat[t].sent <= Room + Section(MAX_SUMMARY_TOKENS)

\* A summary comes after the plan; one that was not refused is of the range planned.
DeltaOK(t) ==
  /\ chat[t].delta \in Seq(Deltas)
  /\ chat[t].delta # <<>> => chat[t].pc \in {"answering", "persisting", "writing"}
  /\ chat[t].pc \in {"persisting", "writing"} => chat[t].delta # <<>>
  /\ chat[t].pc = "answering" /\ chat[t].delta # <<>> /\ Head(chat[t].delta) # Refusal =>
       /\ chat[t].plan.ok /\ chat[t].plan.request # <<>>
       /\ Head(chat[t].delta).from = Head(chat[t].plan.request).from
       /\ Head(chat[t].delta).until = Head(chat[t].plan.request).until
       /\ CanCut(Head(chat[t].plan.request), Candidates(t))

TurnOK(t) == TurnTyped(t) /\ QuestionOK(t) /\ PlanOK(t) /\ PromptOK(t) /\ DeltaOK(t)

ContextInv == /\ HistoryOK /\ summaries \in Seq(SummaryRows) /\ DOMAIN chat = ChatTurns
              /\ \A t \in ChatTurns : TurnOK(t)

\* The candidates are the envelope's messages and, when it lacks it, the question.
LEMMA CandidatesTyped ==
  ASSUME NEW t, HistoryOK, TurnTyped(t), QuestionOK(t), chat[t].pc \in Asked
  PROVE  /\ Candidates(t) \in Seq(Rows) /\ DistinctIds(Candidates(t))
         /\ AreMessages(Candidates(t))
  <1> DEFINE env == chat[t].env
             question == Message(CURRENT_TURN_ID, "user", chat[t].text, current_turn_size(t))
             ms == Candidates(t)
  <1>1. /\ env \in Seq(Rows) /\ DistinctIds(env) /\ Len(env) \in Nat
        /\ \A i \in 1..Len(env) : env[i].id # CURRENT_TURN_ID
    BY DEF TurnTyped
  <1>2. question \in Rows /\ question.id = CURRENT_TURN_ID
    <2>1. current_turn_size(t) \in Nat
      <3>1. chat[t].own \in 1..Len(history) /\ history[chat[t].own].role = "user"
        BY DEF QuestionOK
      <3>2. history[chat[t].own].text \in DOMAIN Texts
        BY <3>1 DEF HistoryOK
      <3> QED
        BY <3>2, ContextAssumption DEF current_turn_size
    <2>2. chat[t].text \in SaidTexts
      BY DEF QuestionOK, SaidTexts
    <2> QED
      BY <2>1, <2>2 DEF Message, Rows, CURRENT_TURN_ID
  <1>3. ms = env \/ ms = Append(env, question)
    BY DEF Candidates, ensure_current_turn
  <1> HIDE DEF env, question, ms
  <1>4. ASSUME ms = Append(env, question) PROVE ms \in Seq(Rows) /\ DistinctIds(ms)
    <2>1. /\ ms \in Seq(Rows) /\ Len(ms) = Len(env) + 1 /\ ms[Len(env) + 1] = question
          /\ \A i \in 1..Len(env) : ms[i] = env[i]
      BY <1>1, <1>2, <1>4
    <2>2. ASSUME NEW i \in 1..Len(ms), NEW j \in 1..Len(ms), ms[i].id = ms[j].id PROVE i = j
      <3>1. (i \in 1..Len(env) \/ i = Len(env) + 1) /\ (j \in 1..Len(env) \/ j = Len(env) + 1)
        BY <1>1, <2>1
      <3> QED
        BY <1>1, <1>2, <2>1, <2>2, <3>1 DEF DistinctIds
    <2> QED
      BY <2>1, <2>2 DEF DistinctIds
  <1>5. ms \in Seq(Rows) /\ DistinctIds(ms)
    BY <1>1, <1>3, <1>4
  <1>6. AreMessages(ms)
    <2>1. Len(ms) \in Nat /\ DOMAIN ms = 1..Len(ms) /\ \A i \in 1..Len(ms) : ms[i] \in Rows
      BY <1>5
    <2>2. \A m \in Rows : m.size \in Nat
      BY DEF Rows
    <2> QED
      BY <2>1, <2>2 DEF AreMessages
  <1> QED
    BY <1>5, <1>6 DEF ms

HistoryKept == /\ Len(history') \in Nat /\ Len(history') >= Len(history)
               /\ \A i \in 1..Len(history) : history'[i] = history[i]

LEMMA CandidatesStay ==
  ASSUME NEW t, chat[t].own \in 1..Len(history), HistoryKept,
         chat'[t].env = chat[t].env, chat'[t].text = chat[t].text, chat'[t].own = chat[t].own
  PROVE  Candidates(t)' = Candidates(t)
  <1>1. history'[chat'[t].own] = history[chat[t].own]
    BY DEF HistoryKept
  <1> QED
    BY <1>1 DEF Candidates, ensure_current_turn, current_turn_size, Message, CURRENT_TURN_ID

\* A turn that takes no step stays as it is, whatever the others add.
LEMMA TurnStays ==
  ASSUME NEW t, HistoryOK, Len(summaries) \in Nat, TurnOK(t), chat'[t] = chat[t], HistoryKept,
         Len(summaries') \in Nat, Len(summaries') >= Len(summaries)
  PROVE  TurnOK(t)'
  <1>1. TurnTyped(t)'
    <2>1. Len(history) \in Nat
      BY DEF HistoryOK
    <2>2. chat[t].own \in 0..Len(history)' /\ chat[t].previous \in 0..Len(summaries)'
      BY <2>1 DEF TurnOK, TurnTyped, HistoryKept
    <2> QED
      BY <2>2 DEF TurnOK, TurnTyped
  <1>2. QuestionOK(t)'
    <2>1. chat[t].pc \in Asked => /\ chat[t].own \in 1..Len(history') 
                                  /\ history'[chat[t].own] = history[chat[t].own]
      BY DEF TurnOK, QuestionOK, HistoryKept, HistoryOK
    <2> QED
      BY <2>1 DEF TurnOK, QuestionOK
  <1>3. chat[t].pc \in Asked => Candidates(t)' = Candidates(t)
    BY CandidatesStay DEF TurnOK, QuestionOK
  <1>4. PlanOK(t)'
    <2>1. chat[t].plan.ok => chat[t].pc \in Asked
      BY DEF TurnOK, PlanOK, Asked
    <2>2. CASE chat[t].plan.ok
      <3>1. Candidates(t)' = Candidates(t)
        BY <1>3, <2>1, <2>2
      <3> QED
        BY <2>2, <3>1 DEF TurnOK, PlanOK
    <2>3. CASE ~chat[t].plan.ok
      BY <2>3 DEF PlanOK
    <2> QED
      BY <2>2, <2>3
  <1>5. PromptOK(t)'
    BY DEF TurnOK, PromptOK
  <1>6. DeltaOK(t)'
    <2>1. CASE chat[t].pc = "answering"
      <3>1. Candidates(t)' = Candidates(t)
        BY <1>3, <2>1 DEF Asked
      <3> QED
        BY <3>1 DEF TurnOK, DeltaOK, CanCut
    <2>2. CASE chat[t].pc # "answering"
      BY <2>2 DEF TurnOK, DeltaOK
    <2> QED
      BY <2>1, <2>2
  <1> QED
    BY <1>1, <1>2, <1>4, <1>5, <1>6 DEF TurnOK

LEMMA StepKeeps ==
  ASSUME ContextInv, NEW t \in ChatTurns, DOMAIN chat' = ChatTurns,
         \A u \in ChatTurns \ {t} : chat'[u] = chat[u], HistoryOK', HistoryKept,
         summaries' \in Seq(SummaryRows), Len(summaries') >= Len(summaries), TurnOK(t)'
  PROVE  ContextInv'
  <1>1. Len(summaries) \in Nat /\ Len(summaries') \in Nat
    BY DEF ContextInv
  <1>2. ASSUME NEW u \in ChatTurns PROVE TurnOK(u)'
    <2>1. CASE u = t
      BY <2>1
    <2>2. CASE u # t
      <3>1. TurnOK(u) /\ chat'[u] = chat[u] /\ HistoryOK
        BY <2>2 DEF ContextInv
      <3> QED
        BY <1>1, <3>1, TurnStays
    <2> QED
      BY <2>1, <2>2
  <1> QED
    BY <1>2 DEF ContextInv

LEMMA HistoryAppended ==
  ASSUME HistoryOK, NEW m \in Rows, m.id = Len(history) + 1,
         m.role = "user" => m.text \in DOMAIN Texts, history' = Append(history, m)
  PROVE  HistoryOK' /\ HistoryKept /\ Len(history') = Len(history) + 1
         /\ history'[Len(history) + 1] = m
  <1>1. history \in Seq(Rows) /\ Len(history) \in Nat
    BY DEF HistoryOK
  <1>2. /\ history' \in Seq(Rows) /\ Len(history') = Len(history) + 1
        /\ \A i \in 1..Len(history) : history'[i] = history[i]
        /\ history'[Len(history) + 1] = m
    BY <1>1
  <1>3. \A i \in 1..Len(history') : i \in 1..Len(history) \/ i = Len(history) + 1
    BY <1>1, <1>2
  <1>4. \A i \in 1..Len(history') :
          /\ history'[i].id = i
          /\ history'[i].role = "user" => history'[i].text \in DOMAIN Texts
    BY <1>2, <1>3 DEF HistoryOK
  <1>5. HistoryOK'
    BY <1>2, <1>4 DEF HistoryOK
  <1> QED
    BY <1>1, <1>2, <1>5 DEF HistoryKept

LEMMA NothingStored ==
  ASSUME ContextInv, UNCHANGED history
  PROVE  HistoryOK' /\ HistoryKept /\ Len(history) \in Nat
  BY DEF ContextInv, HistoryOK, HistoryKept

\* A turn that has neither a plan nor a summary, whatever else it holds.
LEMMA NothingPlanned ==
  ASSUME NEW t, TurnTyped(t)', QuestionOK(t)', ~chat'[t].plan.ok,
         chat'[t].pc \notin {"planned", "answering", "persisting", "writing"},
         chat'[t].delta = <<>>
  PROVE  TurnOK(t)'
  <1>1. PlanOK(t)' /\ PromptOK(t)'
    BY DEF PlanOK, PromptOK
  <1>2. DeltaOK(t)'
    <2>1. chat'[t].delta \in Seq(Deltas)
      OBVIOUS
    <2> QED
      BY <2>1 DEF DeltaOK
  <1> QED
    BY <1>1, <1>2 DEF TurnOK

LEMMA AskKeeps ==
  ASSUME ContextInv, NEW t \in ChatTurns, Ask(t)
  PROVE  ContextInv'
  <1>1. PICK text \in DOMAIN Texts, redacted \in BOOLEAN :
          /\ history' = Append(history, Message(Len(history) + 1, "user", text, Texts[text]))
          /\ chat' = [chat EXCEPT ![t].pc = "stored", ![t].own = Len(history) + 1,
                                  ![t].text = IF redacted THEN Redacted ELSE text]
    BY DEF Ask
  <1> DEFINE m == Message(Len(history) + 1, "user", text, Texts[text])
  <1>2. HistoryOK /\ Len(history) \in Nat /\ chat[t].pc = "idle" /\ summaries' = summaries
        /\ TurnOK(t) /\ DOMAIN chat = ChatTurns /\ summaries \in Seq(SummaryRows)
        /\ Len(summaries) \in Nat
    BY DEF ContextInv, HistoryOK, Ask
  <1>3. m \in Rows /\ m.id = Len(history) + 1 /\ m.role = "user" /\ m.text \in DOMAIN Texts
    <2>1. Texts[text] \in Nat
      BY ContextAssumption
    <2> QED
      BY <1>2, <2>1 DEF Message, Rows, SaidTexts
  <1> HIDE DEF m
  <1>4. HistoryOK' /\ HistoryKept /\ Len(history') = Len(history) + 1
        /\ history'[Len(history) + 1] = m
    BY <1>1, <1>2, <1>3, HistoryAppended DEF m
  <1>5. /\ DOMAIN chat[t] = TurnFields /\ TurnTyped(t) /\ chat[t].delta = <<>> /\ ~chat[t].plan.ok
    BY <1>2 DEF TurnOK, TurnTyped, DeltaOK, PlanOK
  <1>6. /\ DOMAIN chat'[t] = TurnFields /\ chat'[t].pc = "stored" /\ chat'[t].own = Len(history) + 1
        /\ chat'[t].text \in DOMAIN Texts \cup {Redacted}
        /\ chat'[t].env = chat[t].env /\ chat'[t].previous = chat[t].previous
        /\ chat'[t].plan = chat[t].plan /\ chat'[t].delta = chat[t].delta
        /\ chat'[t].sent = chat[t].sent
    BY <1>1, <1>2, <1>5 DEF TurnFields
  <1>7. TurnTyped(t)'
    BY <1>2, <1>4, <1>5, <1>6 DEF TurnTyped, Asked
  <1>8. QuestionOK(t)'
    BY <1>2, <1>3, <1>4, <1>6 DEF QuestionOK
  <1>9. TurnOK(t)'
    BY <1>5, <1>6, <1>7, <1>8, NothingPlanned
  <1>10. /\ DOMAIN chat' = ChatTurns /\ \A u \in ChatTurns \ {t} : chat'[u] = chat[u]
         /\ summaries' \in Seq(SummaryRows) /\ Len(summaries') >= Len(summaries)
    BY <1>1, <1>2
  <1> QED
    BY <1>4, <1>9, <1>10, StepKeeps

\* The envelope is a slice of the history, so its ids are distinct and not zero.
LEMMA EnvelopeTyped ==
  ASSUME HistoryOK, NEW a \in Nat \ {0}, NEW env, env = SubSeq(history, a, Len(history))
  PROVE  /\ env \in Seq(Rows) /\ DistinctIds(env)
         /\ \A i \in 1..Len(env) : env[i].id # CURRENT_TURN_ID
  <1> DEFINE n == Len(history)
  <1>1. history \in Seq(Rows) /\ n \in Nat /\ \A i \in 1..n : history[i].id = i
    BY DEF HistoryOK
  <1>2. /\ env \in Seq(Rows) /\ Len(env) \in Nat
        /\ \A i \in 1..Len(env) : a + i - 1 \in 1..n /\ env[i] = history[a + i - 1]
    BY <1>1
  <1>3. \A i \in 1..Len(env) : env[i].id = a + i - 1 /\ i \in Int
    BY <1>1, <1>2
  <1>4. DistinctIds(env)
    <2>1. ASSUME NEW i \in 1..Len(env), NEW j \in 1..Len(env), env[i].id = env[j].id PROVE i = j
      <3>1. a + i - 1 = a + j - 1 /\ i \in Int /\ j \in Int
        BY <1>3, <2>1
      <3> QED
        BY <3>1
    <2> QED
      BY <2>1 DEF DistinctIds
  <1>5. ASSUME NEW i \in 1..Len(env) PROVE env[i].id # CURRENT_TURN_ID
    <2>1. i \in Nat \ {0} /\ env[i].id = a + i - 1
      BY <1>2, <1>3
    <2>2. a + i - 1 # 0
      BY <2>1
    <2> QED
      BY <2>1, <2>2 DEF CURRENT_TURN_ID
  <1> QED
    BY <1>2, <1>4, <1>5

LEMMA BuildEnvelopeKeeps ==
  ASSUME ContextInv, NEW t \in ChatTurns, BuildEnvelope(t)
  PROVE  ContextInv'
  <1> DEFINE a == Most(1, Len(history) - RecentLimit + 1)
  <1>1. /\ chat' = [chat EXCEPT ![t].pc = "built", ![t].previous = Len(summaries),
                                ![t].env = SubSeq(history, a, Len(history))]
        /\ chat[t].pc = "stored" /\ history' = history /\ summaries' = summaries
    BY DEF BuildEnvelope
  <1>2. HistoryOK /\ Len(history) \in Nat /\ HistoryOK' /\ HistoryKept
        /\ TurnOK(t) /\ DOMAIN chat = ChatTurns /\ summaries \in Seq(SummaryRows)
        /\ Len(summaries) \in Nat
    BY <1>1, NothingStored DEF ContextInv
  <1>3. /\ DOMAIN chat[t] = TurnFields /\ TurnTyped(t) /\ chat[t].delta = <<>> /\ ~chat[t].plan.ok
        /\ QuestionOK(t)
    BY <1>1, <1>2 DEF TurnOK, TurnTyped, DeltaOK, PlanOK
  <1>4. a \in Nat \ {0}
    BY <1>2, ContextAssumption DEF Most
  <1> HIDE DEF a
  <1>5. /\ DOMAIN chat'[t] = TurnFields /\ chat'[t].pc = "built" /\ chat'[t].own = chat[t].own
        /\ chat'[t].text = chat[t].text /\ chat'[t].env = SubSeq(history, a, Len(history))
        /\ chat'[t].previous = Len(summaries) /\ chat'[t].plan = chat[t].plan
        /\ chat'[t].delta = chat[t].delta /\ chat'[t].sent = chat[t].sent
    BY <1>1, <1>2, <1>3 DEF TurnFields
  <1>6. /\ chat'[t].env \in Seq(Rows) /\ DistinctIds(chat'[t].env)
        /\ \A i \in 1..Len(chat'[t].env) : chat'[t].env[i].id # CURRENT_TURN_ID
    BY <1>2, <1>4, <1>5, EnvelopeTyped
  <1>7. TurnTyped(t)'
    <2>1. /\ chat'[t].pc \in Asked /\ chat'[t].own \in 0..Len(history')
          /\ chat'[t].previous \in 0..Len(summaries') /\ chat'[t].plan.ok \in BOOLEAN
          /\ chat'[t].sent \in Nat
      BY <1>1, <1>2, <1>3, <1>5 DEF TurnTyped, Asked
    <2> QED
      BY <2>1, <1>5, <1>6 DEF TurnTyped, DistinctIds, CURRENT_TURN_ID
  <1>8. QuestionOK(t)'
    BY <1>1, <1>3, <1>5 DEF QuestionOK, Asked
  <1>9. TurnOK(t)'
    BY <1>3, <1>5, <1>7, <1>8, NothingPlanned
  <1>10. /\ DOMAIN chat' = ChatTurns /\ \A u \in ChatTurns \ {t} : chat'[u] = chat[u]
         /\ summaries' \in Seq(SummaryRows) /\ Len(summaries') >= Len(summaries)
    BY <1>1, <1>2
  <1> QED
    BY <1>2, <1>9, <1>10, StepKeeps

\* What a turn may be sent, for every state of the graph.
LEMMA PlanFrom ==
  ASSUME ContextInv, NEW t \in ChatTurns, chat[t].pc \in Asked, NEW a \in AgentStates,
         NEW plan, plan = allocate(Request(t, a))
  PROVE  /\ plan.ok \in BOOLEAN
         /\ plan.ok =>
              /\ plan.packed \in PackStates(Len(Candidates(t))) /\ plan.packed.current_kept
              /\ PackedTo(plan.packed, Len(Candidates(t)), 0,
                          CurrentIndex(Candidates(t), chat[t].text))
              /\ plan.evicted = EvictedIds(Candidates(t), plan.packed)
              /\ plan.request = SummaryRequestFor(plan.evicted, chat[t].previous)
              /\ \A k \in DOMAIN plan.sections : plan.sections[k].tokens \in Nat
              /\ RenderedPrompt(plan) \in Nat /\ RenderedPrompt(plan) <= Room
              /\ "conversation_summary" \in DOMAIN plan.sections =>
                   RenderedPrompt(plan) >= Section(plan.sections["conversation_summary"].tokens)
  <1> DEFINE req == Request(t, a)
  <1>1. /\ TurnTyped(t) /\ QuestionOK(t) /\ HistoryOK
        /\ chat[t].previous \in 0..Len(summaries)
    BY DEF ContextInv, TurnOK, TurnTyped
  <1>2. AreMessages(Candidates(t))
    BY <1>1, CandidatesTyped
  <1>3. Len(summaries) \in Nat /\ \A v \in 1..Len(summaries) : summaries[v].size \in Nat
    <2>1. summaries \in Seq(SummaryRows)
      BY DEF ContextInv
    <2>2. Len(summaries) \in Nat /\ \A v \in 1..Len(summaries) : summaries[v] \in SummaryRows
      BY <2>1
    <2>3. \A r \in SummaryRows : r.size \in Nat
      BY DEF SummaryRows
    <2> QED
      BY <2>2, <2>3
  <1>4. /\ WellFormed(req) /\ req.messages = Candidates(t) /\ req.protected = chat[t].text
        /\ req.version = chat[t].previous /\ Usable(req) = Room
    BY <1>1, <1>2, <1>3, RequestIs DEF Room
  <1> HIDE DEF req
  <1>5. plan.ok \in BOOLEAN /\ (plan.ok => Plans(plan, req))
    BY <1>4, AllocateIs DEF req
  <1>6. chat[t].text # NoText
    BY <1>1, ContextAssumption DEF QuestionOK, NoText, Redacted
  <1>7. ASSUME plan.ok
        PROVE  /\ plan.packed \in Packings(Candidates(t), chat[t].text)
               /\ plan.packed.current_kept
               /\ Accepted(plan, req, plan.packed)
    <2>1. PICK packed \in Packings(req.messages, req.protected) :
            /\ Accepted(plan, req, packed)
            /\ req.protected # NoText => packed.current_kept
      BY <1>5, <1>7 DEF Plans
    <2>2. plan.packed = packed
      BY <2>1 DEF Accepted
    <2> QED
      BY <1>4, <1>6, <2>1, <2>2
  <1>8. ASSUME plan.ok
        PROVE  /\ plan.packed \in PackStates(Len(Candidates(t)))
               /\ PackedTo(plan.packed, Len(Candidates(t)), 0,
                           CurrentIndex(Candidates(t), chat[t].text))
    <2>1. PICK budget \in Int : plan.packed = pack_messages(Candidates(t), budget, chat[t].text)
      BY <1>7, <1>8 DEF Packings
    <2> QED
      BY <1>2, <2>1, Packed
  <1>9. ASSUME plan.ok
        PROVE  /\ plan.evicted = EvictedIds(Candidates(t), plan.packed)
               /\ plan.request = SummaryRequestFor(plan.evicted, chat[t].previous)
               /\ \A k \in DOMAIN plan.sections : plan.sections[k].tokens \in Nat
               /\ RenderedPrompt(plan) \in Nat /\ RenderedPrompt(plan) <= Room
               /\ "conversation_summary" \in DOMAIN plan.sections =>
                    RenderedPrompt(plan) >= Section(plan.sections["conversation_summary"].tokens)
    BY <1>4, <1>7, <1>9 DEF Accepted
  <1> QED
    BY <1>5, <1>7, <1>8, <1>9

LEMMA AssembleKeeps ==
  ASSUME ContextInv, NEW t \in ChatTurns, assemble_context(t)
  PROVE  ContextInv'
  <1>1. PICK a \in AgentStates :
          chat' = [chat EXCEPT ![t].pc = IF allocate(Request(t, a)).ok THEN "planned" ELSE "refused",
                               ![t].plan = allocate(Request(t, a)),
                               ![t].sent = IF allocate(Request(t, a)).ok
                                           THEN RenderedPrompt(allocate(Request(t, a))) ELSE 0]
    BY DEF assemble_context
  <1> DEFINE plan == allocate(Request(t, a))
             ms == Candidates(t)
  <1>2. chat[t].pc = "built" /\ history' = history /\ summaries' = summaries
        /\ chat[t].pc \in Asked
    BY DEF assemble_context, Asked
  <1>3. HistoryOK /\ Len(history) \in Nat /\ HistoryOK' /\ HistoryKept
        /\ TurnOK(t) /\ DOMAIN chat = ChatTurns /\ summaries \in Seq(SummaryRows)
        /\ Len(summaries) \in Nat
    BY <1>2, NothingStored DEF ContextInv
  <1>4. /\ DOMAIN chat[t] = TurnFields /\ TurnTyped(t) /\ chat[t].delta = <<>> /\ QuestionOK(t)
        /\ chat[t].own \in 1..Len(history)
    BY <1>2, <1>3 DEF TurnOK, TurnTyped, DeltaOK, QuestionOK
  <1>5. /\ plan.ok \in BOOLEAN
        /\ plan.ok =>
              /\ plan.packed \in PackStates(Len(ms)) /\ plan.packed.current_kept
              /\ PackedTo(plan.packed, Len(ms), 0, CurrentIndex(ms, chat[t].text))
              /\ plan.evicted = EvictedIds(ms, plan.packed)
              /\ plan.request = SummaryRequestFor(plan.evicted, chat[t].previous)
              /\ \A k \in DOMAIN plan.sections : plan.sections[k].tokens \in Nat
              /\ RenderedPrompt(plan) \in Nat /\ RenderedPrompt(plan) <= Room
              /\ "conversation_summary" \in DOMAIN plan.sections =>
                   RenderedPrompt(plan) >= Section(plan.sections["conversation_summary"].tokens)
    BY <1>2, PlanFrom
  <1> HIDE DEF plan
  <1>6. /\ DOMAIN chat'[t] = TurnFields /\ chat'[t].own = chat[t].own
        /\ chat'[t].pc = IF plan.ok THEN "planned" ELSE "refused"
        /\ chat'[t].text = chat[t].text /\ chat'[t].env = chat[t].env
        /\ chat'[t].previous = chat[t].previous /\ chat'[t].plan = plan
        /\ chat'[t].delta = chat[t].delta
        /\ chat'[t].sent = IF plan.ok THEN RenderedPrompt(plan) ELSE 0
    BY <1>1, <1>3, <1>4 DEF TurnFields, plan
  <1>7. Candidates(t)' = ms
    BY <1>3, <1>4, <1>6, CandidatesStay
  <1> HIDE DEF ms
  <1>8. chat'[t].sent \in Nat /\ chat'[t].pc \in {"planned", "refused"}
    BY <1>5, <1>6
  <1>9. TurnTyped(t)'
    BY <1>2, <1>3, <1>4, <1>5, <1>6, <1>8 DEF TurnTyped, Asked, DistinctIds, CURRENT_TURN_ID
  <1>10. QuestionOK(t)'
    BY <1>2, <1>4, <1>6 DEF QuestionOK, Asked
  <1>11. PlanOK(t)'
    BY <1>5, <1>6, <1>7 DEF PlanOK
  <1>12. PromptOK(t)'
    BY <1>5, <1>6, <1>8 DEF PromptOK, Room
  <1>13. DeltaOK(t)'
    <2>1. chat'[t].delta = <<>> /\ chat'[t].pc \notin {"persisting", "writing"}
      BY <1>4, <1>6, <1>8
    <2> QED
      BY <2>1 DEF DeltaOK
  <1>14. TurnOK(t)'
    BY <1>9, <1>10, <1>11, <1>12, <1>13 DEF TurnOK
  <1>15. /\ DOMAIN chat' = ChatTurns /\ \A u \in ChatTurns \ {t} : chat'[u] = chat[u]
         /\ summaries' \in Seq(SummaryRows) /\ Len(summaries') >= Len(summaries)
    BY <1>1, <1>2, <1>3
  <1> QED
    BY <1>3, <1>14, <1>15, StepKeeps

\* The steps of a turn that keep its question, its envelope and its plan.
LEMMA PlanKept ==
  ASSUME ContextInv, NEW t \in ChatTurns, chat[t].pc = "planned", chat'[t].pc = "answering",
         UNCHANGED history, UNCHANGED summaries, DOMAIN chat' = ChatTurns,
         \A u \in ChatTurns \ {t} : chat'[u] = chat[u],
         DOMAIN chat'[t] = TurnFields, chat'[t].own = chat[t].own,
         chat'[t].text = chat[t].text, chat'[t].env = chat[t].env,
         chat'[t].previous = chat[t].previous, chat'[t].plan = chat[t].plan,
         chat'[t].sent \in Nat, chat'[t].sent <= Room + Section(MAX_SUMMARY_TOKENS),
         chat'[t].delta \in Seq(Deltas),
         chat'[t].delta # <<>> /\ Head(chat'[t].delta) # Refusal =>
           /\ chat[t].plan.request # <<>>
           /\ Head(chat'[t].delta).from = Head(chat[t].plan.request).from
           /\ Head(chat'[t].delta).until = Head(chat[t].plan.request).until
           /\ CanCut(Head(chat[t].plan.request), Candidates(t))
  PROVE  ContextInv'
  <1>1. HistoryOK /\ HistoryOK' /\ HistoryKept /\ TurnOK(t) /\ summaries \in Seq(SummaryRows)
        /\ Len(summaries) \in Nat
    BY NothingStored DEF ContextInv
  <1>2. /\ TurnTyped(t) /\ QuestionOK(t) /\ PlanOK(t) /\ chat[t].plan.ok
        /\ chat[t].own \in 1..Len(history)
    BY <1>1 DEF TurnOK, PromptOK, QuestionOK, Asked
  <1>3. Candidates(t)' = Candidates(t)
    BY <1>1, <1>2, CandidatesStay
  <1>4. TurnTyped(t)'
    <2>1. /\ chat'[t].pc \in Asked /\ chat'[t].own \in 0..Len(history')
          /\ chat'[t].previous \in 0..Len(summaries') /\ chat'[t].plan.ok \in BOOLEAN
      BY <1>2 DEF TurnTyped, Asked
    <2>2. /\ chat'[t].env \in Seq(Rows) /\ DistinctIds(chat'[t].env)
          /\ \A i \in 1..Len(chat'[t].env) : chat'[t].env[i].id # CURRENT_TURN_ID
      BY <1>2 DEF TurnTyped
    <2> QED
      BY <2>1, <2>2 DEF TurnTyped, DistinctIds, CURRENT_TURN_ID
  <1>5. QuestionOK(t)'
    BY <1>2 DEF QuestionOK, Asked
  <1>6. PlanOK(t)'
    BY <1>2, <1>3 DEF PlanOK
  <1>7. PromptOK(t)'
    BY DEF PromptOK, Room, Section, MAX_SUMMARY_TOKENS, SECTION_JOIN_TOKENS
  <1>8. DeltaOK(t)'
    BY <1>2, <1>3 DEF DeltaOK, CanCut
  <1>9. TurnOK(t)'
    BY <1>4, <1>5, <1>6, <1>7, <1>8 DEF TurnOK
  <1> QED
    BY <1>1, <1>9, StepKeeps

LEMMA SkipSummaryKeeps ==
  ASSUME ContextInv, NEW t \in ChatTurns, SkipSummary(t)
  PROVE  ContextInv'
  <1>1. chat' = [chat EXCEPT ![t].pc = "answering"] /\ chat[t].pc = "planned"
        /\ history' = history /\ summaries' = summaries
    BY DEF SkipSummary
  <1>2. TurnOK(t) /\ DOMAIN chat = ChatTurns
    BY DEF ContextInv
  <1>3. /\ DOMAIN chat[t] = TurnFields /\ chat[t].delta = <<>> /\ chat[t].sent \in Nat
        /\ chat[t].sent <= Room
    BY <1>1, <1>2 DEF TurnOK, TurnTyped, DeltaOK, PromptOK
  <1>4. /\ DOMAIN chat'[t] = TurnFields /\ chat'[t].pc = "answering"
        /\ chat'[t].own = chat[t].own /\ chat'[t].text = chat[t].text
        /\ chat'[t].env = chat[t].env /\ chat'[t].previous = chat[t].previous
        /\ chat'[t].plan = chat[t].plan /\ chat'[t].delta = <<>> /\ chat'[t].sent = chat[t].sent
    BY <1>1, <1>2, <1>3 DEF TurnFields
  <1>5. chat'[t].sent <= Room + Section(MAX_SUMMARY_TOKENS)
    <2>1. Section(MAX_SUMMARY_TOKENS) \in Nat /\ Room \in Int
      BY CountsAssumption, ContextAssumption
      DEF Section, MAX_SUMMARY_TOKENS, SECTION_JOIN_TOKENS, Room
    <2> QED
      BY <1>3, <1>4, <2>1
  <1>6. DOMAIN chat' = ChatTurns /\ \A u \in ChatTurns \ {t} : chat'[u] = chat[u]
    BY <1>1, <1>2
  <1>7. chat'[t].delta \in Seq(Deltas)
    <2>1. <<>> \in Seq(Deltas)
      OBVIOUS
    <2> QED
      BY <1>4, <2>1
  <1> QED
    BY <1>1, <1>3, <1>4, <1>5, <1>6, <1>7, PlanKept

\* The ids the plan gave up are ids of candidates.
LEMMA EvictedTyped ==
  ASSUME NEW ms \in Seq(Rows), NEW packed \in PackStates(Len(ms))
  PROVE  EvictedIds(ms, packed) \in Seq(Nat)
  <1> DEFINE ids == [i \in DOMAIN ms |-> ms[i].id]
  <1>1. Len(ms) \in Nat /\ DOMAIN ms = 1..Len(ms) /\ \A i \in 1..Len(ms) : ms[i] \in Rows
    OBVIOUS
  <1>2. ids \in [1..Len(ms) -> Nat]
    BY <1>1 DEF Rows
  <1> HIDE DEF ids
  <1>3. ids \in Seq(Nat) /\ DOMAIN ids = 1..Len(ms)
    BY <1>1, <1>2, ArrayIsSeq
  <1>4. DOMAIN ms \ packed.kept \in SUBSET (DOMAIN ids) /\ packed.truncated \in SUBSET (DOMAIN ids)
    BY <1>1, <1>3 DEF PackStates
  <1>5. At(ids, DOMAIN ms \ packed.kept) \in Seq(Nat) /\ At(ids, packed.truncated) \in Seq(Nat)
    BY <1>3, <1>4, AtTyped
  <1> QED
    BY <1>5 DEF EvictedIds, ids

LEMMA RequestedRange ==
  ASSUME NEW evicted \in Seq(Nat), NEW version, SummaryRequestFor(evicted, version) # <<>>
  PROVE  /\ evicted # <<>> /\ Len(evicted) \in Nat \ {0}
         /\ Head(SummaryRequestFor(evicted, version)).from = evicted[1]
         /\ Head(SummaryRequestFor(evicted, version)).until = evicted[Len(evicted)]
         /\ Head(SummaryRequestFor(evicted, version)).count = Len(evicted)
         /\ evicted[1] \in Nat /\ evicted[Len(evicted)] \in Nat
  <1>1. evicted # <<>> /\ Len(evicted) \in Nat \ {0}
    BY DEF SummaryRequestFor
  <1>2. Head(evicted) = evicted[1] /\ Last(evicted) = evicted[Len(evicted)]
        /\ evicted[1] \in Nat /\ evicted[Len(evicted)] \in Nat
    BY <1>1 DEF Last
  <1> DEFINE r == [from |-> Head(evicted), until |-> Last(evicted),
                   count |-> Len(evicted), previous |-> version]
  <1>3. Head(SummaryRequestFor(evicted, version)) = r
    BY <1>1 DEF SummaryRequestFor
  <1> QED
    BY <1>1, <1>2, <1>3

LEMMA SummarizeKeeps ==
  ASSUME ContextInv, NEW t \in ChatTurns, summarize_context(t)
  PROVE  ContextInv'
  <1> DEFINE ms == Candidates(t)
             request == Head(chat[t].plan.request)
  <1>1. PICK size \in SummarySizes, reason \in {"none", "model_summary_failed"} :
          LET delta == summarise_request(request, ms, size, reason)
          IN chat' = [chat EXCEPT ![t].pc = "answering", ![t].delta = <<delta>>,
                                  ![t].sent = IF delta.text = 0 THEN @ ELSE Folded(t, delta)]
    BY DEF summarize_context
  <1> DEFINE delta == summarise_request(request, ms, size, reason)
             sent == IF delta.text = 0 THEN chat[t].sent ELSE Folded(t, delta)
  <1>2. chat[t].pc = "planned" /\ history' = history /\ summaries' = summaries
        /\ chat[t].plan.request # <<>> /\ chat[t].pc \in Asked
    BY DEF summarize_context, Asked
  <1>3. TurnOK(t) /\ DOMAIN chat = ChatTurns /\ HistoryOK
    BY DEF ContextInv
  <1>4. /\ DOMAIN chat[t] = TurnFields /\ chat[t].sent \in Nat /\ chat[t].sent <= Room
        /\ chat[t].plan.ok /\ TurnTyped(t) /\ QuestionOK(t) /\ PlanOK(t)
        /\ "conversation_summary" \in DOMAIN chat[t].plan.sections =>
             chat[t].sent >= Section(chat[t].plan.sections["conversation_summary"].tokens)
    BY <1>2, <1>3 DEF TurnOK, TurnTyped, PromptOK
  <1>5. ms \in Seq(Rows)
    BY <1>2, <1>3, <1>4, CandidatesTyped
  <1> HIDE DEF ms
  <1>6. /\ chat[t].plan.packed \in PackStates(Len(ms))
        /\ chat[t].plan.evicted = EvictedIds(ms, chat[t].plan.packed)
        /\ chat[t].plan.request = SummaryRequestFor(chat[t].plan.evicted, chat[t].previous)
        /\ \A k \in DOMAIN chat[t].plan.sections : chat[t].plan.sections[k].tokens \in Nat
    BY <1>4 DEF PlanOK, ms
  <1>7. chat[t].plan.evicted \in Seq(Nat)
    BY <1>5, <1>6, EvictedTyped
  <1>8. request.from \in Nat /\ request.until \in Nat
    BY <1>2, <1>6, <1>7, RequestedRange
  <1> HIDE DEF request
  <1> DEFINE text == summary_text(size)
             kept == [from |-> request.from, until |-> request.until, text |-> text,
                      reason |-> reason]
  <1>9. text \in Nat /\ text <= MAX_SUMMARY_TOKENS
    <2>1. size \in Nat /\ MAX_SUMMARY_TOKENS \in Int /\ 0 <= MAX_SUMMARY_TOKENS
      BY ContextAssumption DEF MAX_SUMMARY_TOKENS
    <2>2. "tail" # "none"
      OBVIOUS
    <2> QED
      BY <2>1, <2>2, TruncateTyped DEF summary_text
  <1>10. delta = IF ~CanCut(request, ms) THEN Refusal ELSE kept
    BY DEF summarise_request
  <1> HIDE DEF text
  <1>11. kept \in Deltas /\ Refusal \in Deltas
    BY <1>8, <1>9 DEF Deltas, Refusal
  <1>12. /\ Refusal.text = 0 /\ kept.from = request.from /\ kept.until = request.until
         /\ kept.text = text
    BY DEF Refusal
  <1> HIDE DEF delta, kept
  <1>13. /\ delta \in Deltas /\ delta.text \in Nat /\ delta.text <= MAX_SUMMARY_TOKENS
         /\ delta # Refusal => /\ delta.from = request.from /\ delta.until = request.until
                               /\ CanCut(request, ms)
    BY <1>9, <1>10, <1>11, <1>12 DEF MAX_SUMMARY_TOKENS
  <1> DEFINE placed == IF "conversation_summary" \in DOMAIN chat[t].plan.sections
                       THEN chat[t].plan.sections["conversation_summary"].tokens ELSE 0
  <1>14. Folded(t, delta) = chat[t].sent - Section(placed) + Section(delta.text)
    BY DEF Folded
  <1>15. placed \in Nat /\ Section(placed) \in Nat /\ Section(placed) <= chat[t].sent
    <2>1. placed \in Nat
      BY <1>6
    <2>2. Section(placed) <= chat[t].sent
      <3>1. CASE "conversation_summary" \in DOMAIN chat[t].plan.sections
        BY <1>4, <3>1
      <3>2. CASE "conversation_summary" \notin DOMAIN chat[t].plan.sections
        BY <1>4, <3>2 DEF Section
      <3> QED
        BY <3>1, <3>2
    <2> HIDE DEF placed
    <2> QED
      BY <2>1, <2>2, CountsAssumption DEF Section, SECTION_JOIN_TOKENS
  <1> HIDE DEF placed
  <1>16. /\ Section(delta.text) \in Nat /\ Section(MAX_SUMMARY_TOKENS) \in Nat
         /\ Section(delta.text) <= Section(MAX_SUMMARY_TOKENS)
    BY <1>13, CountsAssumption DEF Section, SECTION_JOIN_TOKENS, MAX_SUMMARY_TOKENS
  <1>17. sent \in Nat /\ sent <= Room + Section(MAX_SUMMARY_TOKENS)
    <2>1. Room \in Int
      BY ContextAssumption DEF Room
    <2> QED
      BY <1>4, <1>14, <1>15, <1>16, <2>1
  <1>18. chat' = [chat EXCEPT ![t].pc = "answering", ![t].delta = <<delta>>,
                              ![t].sent = IF delta.text = 0 THEN @ ELSE Folded(t, delta)]
    BY <1>1 DEF delta
  <1>19. /\ DOMAIN chat'[t] = TurnFields /\ chat'[t].pc = "answering"
         /\ chat'[t].own = chat[t].own /\ chat'[t].text = chat[t].text
         /\ chat'[t].env = chat[t].env /\ chat'[t].previous = chat[t].previous
         /\ chat'[t].plan = chat[t].plan /\ chat'[t].delta = <<delta>> /\ chat'[t].sent = sent
    BY <1>3, <1>4, <1>18 DEF TurnFields
  <1> HIDE DEF sent
  <1>20. chat'[t].delta \in Seq(Deltas) /\ Head(chat'[t].delta) = delta
    BY <1>13, <1>19
  <1>21. DOMAIN chat' = ChatTurns /\ \A u \in ChatTurns \ {t} : chat'[u] = chat[u]
    BY <1>3, <1>18
  <1>22. chat'[t].sent \in Nat /\ chat'[t].sent <= Room + Section(MAX_SUMMARY_TOKENS)
    BY <1>17, <1>19
  <1>23. chat'[t].delta # <<>> /\ Head(chat'[t].delta) # Refusal =>
           /\ chat[t].plan.request # <<>>
           /\ Head(chat'[t].delta).from = Head(chat[t].plan.request).from
           /\ Head(chat'[t].delta).until = Head(chat[t].plan.request).until
           /\ CanCut(Head(chat[t].plan.request), Candidates(t))
    BY <1>2, <1>13, <1>20 DEF request, ms
  <1> QED
    BY <1>2, <1>19, <1>20, <1>21, <1>22, <1>23, PlanKept

\* A turn that is over, or writes its summary, has no plan any more.
LEMMA TurnOver ==
  ASSUME ContextInv, NEW t \in ChatTurns, HistoryKept,
         Len(summaries') \in Nat, Len(summaries') >= Len(summaries),
         DOMAIN chat'[t] = TurnFields, chat'[t].pc \in {"persisting", "writing", "done"},
         chat'[t].own = 0, chat'[t].previous \in 0..Len(summaries), chat'[t].env = <<>>,
         ~chat'[t].plan.ok, chat'[t].plan.ok \in BOOLEAN, chat'[t].sent = 0,
         chat'[t].delta \in Seq(Deltas), chat'[t].delta # <<>> <=> chat'[t].pc # "done"
  PROVE  TurnOK(t)'
  <1>1. Len(summaries) \in Nat
    BY DEF ContextInv
  <1>2. TurnTyped(t)'
    <2>1. chat'[t].own \in 0..Len(history') /\ chat'[t].previous \in 0..Len(summaries')
      BY <1>1 DEF HistoryKept
    <2>2. chat'[t].env \in Seq(Rows) /\ Len(chat'[t].env) = 0
      <3>1. <<>> \in Seq(Rows) /\ Len(<<>>) = 0
        OBVIOUS
      <3> QED
        BY <3>1
    <2> QED
      BY <2>1, <2>2 DEF TurnTyped, DistinctIds
  <1>3. QuestionOK(t)' /\ PlanOK(t)' /\ PromptOK(t)'
    BY DEF QuestionOK, PlanOK, PromptOK, Asked
  <1>4. DeltaOK(t)'
    BY DEF DeltaOK
  <1> QED
    BY <1>2, <1>3, <1>4 DEF TurnOK

LEMMA CompleteKeeps ==
  ASSUME ContextInv, NEW t \in ChatTurns, Complete(t)
  PROVE  ContextInv'
  <1>1. PICK size \in AnswerSizes :
          history' = Append(history, Message(Len(history) + 1, "assistant", NoText, size))
    BY DEF Complete
  <1> DEFINE m == Message(Len(history) + 1, "assistant", NoText, size)
             next == IF chat[t].delta = <<>> \/ Head(chat[t].delta).text = 0
                     THEN [IdleTurn EXCEPT !.pc = "done"]
                     ELSE [IdleTurn EXCEPT !.pc = "persisting", !.delta = chat[t].delta,
                                           !.previous = chat[t].previous]
  <1>2. chat' = [chat EXCEPT ![t] = next] /\ chat[t].pc = "answering" /\ summaries' = summaries
    BY DEF Complete
  <1>3. HistoryOK /\ Len(history) \in Nat /\ TurnOK(t) /\ DOMAIN chat = ChatTurns
        /\ summaries \in Seq(SummaryRows) /\ Len(summaries) \in Nat
    BY DEF ContextInv, HistoryOK
  <1>4. m \in Rows /\ m.id = Len(history) + 1 /\ m.role # "user"
    <2>1. size \in Nat
      BY ContextAssumption
    <2> QED
      BY <1>3, <2>1 DEF Message, Rows, SaidTexts
  <1> HIDE DEF m
  <1>5. HistoryOK' /\ HistoryKept
    BY <1>1, <1>3, <1>4, HistoryAppended DEF m
  <1>6. chat[t].delta \in Seq(Deltas) /\ chat[t].previous \in 0..Len(summaries)
    BY <1>3 DEF TurnOK, TurnTyped, DeltaOK
  <1>7. /\ DOMAIN next = TurnFields /\ next.own = 0 /\ next.env = <<>> /\ next.sent = 0
        /\ next.plan.ok = FALSE
    BY DEF IdleTurn, TurnFields, Infeasible
  <1>8. \/ next.pc = "done" /\ next.delta = <<>> /\ next.previous = 0
        \/ /\ next.pc = "persisting" /\ next.delta = chat[t].delta /\ chat[t].delta # <<>>
           /\ next.previous = chat[t].previous
    BY DEF IdleTurn
  <1> HIDE DEF next
  <1>9. chat'[t] = next
    BY <1>2, <1>3
  <1>10. next.delta \in Seq(Deltas) /\ next.previous \in 0..Len(summaries)
    <2>1. <<>> \in Seq(Deltas) /\ 0 \in 0..Len(summaries)
      BY <1>3
    <2> QED
      BY <1>6, <1>8, <2>1
  <1>11. TurnOK(t)'
    <2>1. next.delta # <<>> <=> next.pc # "done"
      BY <1>8
    <2>2. next.pc \in {"persisting", "writing", "done"}
      BY <1>8
    <2>3. Len(summaries') \in Nat /\ Len(summaries') >= Len(summaries)
      BY <1>2, <1>3
    <2> QED
      BY <1>5, <1>7, <1>9, <1>10, <2>1, <2>2, <2>3, TurnOver
  <1>12. /\ DOMAIN chat' = ChatTurns /\ \A u \in ChatTurns \ {t} : chat'[u] = chat[u]
         /\ summaries' \in Seq(SummaryRows) /\ Len(summaries') >= Len(summaries)
    BY <1>2, <1>3
  <1> QED
    BY <1>5, <1>11, <1>12, StepKeeps

\* A turn that persists its summary holds only that.
LEMMA WritesSummary ==
  ASSUME ContextInv, NEW t \in ChatTurns, chat[t].pc \in {"persisting", "writing"}
  PROVE  /\ DOMAIN chat[t] = TurnFields /\ chat[t].delta \in Seq(Deltas) /\ chat[t].delta # <<>>
         /\ Head(chat[t].delta) \in Deltas /\ chat[t].previous \in 0..Len(summaries)
         /\ TurnTyped(t) /\ ~chat[t].plan.ok /\ DeltaOK(t)
  <1>1. TurnOK(t)
    BY DEF ContextInv
  <1>2. /\ DOMAIN chat[t] = TurnFields /\ chat[t].delta \in Seq(Deltas) /\ chat[t].delta # <<>>
        /\ chat[t].previous \in 0..Len(summaries) /\ TurnTyped(t) /\ DeltaOK(t)
    BY <1>1 DEF TurnOK, TurnTyped, DeltaOK
  <1>3. ~chat[t].plan.ok
    BY <1>1 DEF TurnOK, PlanOK
  <1>4. Head(chat[t].delta) \in Deltas
    BY <1>2
  <1> QED
    BY <1>2, <1>3, <1>4

LEMMA ReadLatestKeeps ==
  ASSUME ContextInv, NEW t \in ChatTurns, ReadLatest(t)
  PROVE  ContextInv'
  <1>0. \/ chat' = [chat EXCEPT ![t] = [IdleTurn EXCEPT !.pc = "done"]]
        \/ chat' = [chat EXCEPT ![t] = [chat[t] EXCEPT !.pc = "writing", !.latest = Len(summaries)]]
    BY DEF ReadLatest
  <1>1. chat[t].pc = "persisting" /\ history' = history /\ summaries' = summaries
    BY DEF ReadLatest
  <1>2. HistoryOK /\ HistoryOK' /\ HistoryKept /\ TurnOK(t) /\ DOMAIN chat = ChatTurns
        /\ summaries \in Seq(SummaryRows) /\ Len(summaries) \in Nat
    BY <1>1, NothingStored DEF ContextInv
  <1>3. /\ DOMAIN chat[t] = TurnFields /\ chat[t].delta \in Seq(Deltas) /\ chat[t].delta # <<>>
        /\ TurnTyped(t) /\ ~chat[t].plan.ok /\ DeltaOK(t)
    BY <1>1, WritesSummary
  <1>4. ASSUME chat' = [chat EXCEPT ![t] = [IdleTurn EXCEPT !.pc = "done"]] PROVE TurnOK(t)'
    <2>1. chat'[t] = [IdleTurn EXCEPT !.pc = "done"]
      BY <1>2, <1>4
    <2>2. /\ DOMAIN chat'[t] = TurnFields /\ chat'[t].own = 0 /\ chat'[t].env = <<>>
          /\ chat'[t].sent = 0 /\ chat'[t].plan.ok = FALSE /\ chat'[t].pc = "done"
          /\ chat'[t].delta = <<>> /\ chat'[t].previous = 0
      BY <2>1 DEF IdleTurn, TurnFields, Infeasible
    <2>3. <<>> \in Seq(Deltas) /\ 0 \in 0..Len(summaries)
      BY <1>2
    <2>4. Len(summaries') \in Nat /\ Len(summaries') >= Len(summaries)
      BY <1>1, <1>2
    <2> QED
      BY <1>2, <2>2, <2>3, <2>4, TurnOver
  <1>5. ASSUME chat' = [chat EXCEPT ![t] = [chat[t] EXCEPT !.pc = "writing",
                                                           !.latest = Len(summaries)]]
        PROVE  TurnOK(t)'
    <2>1. /\ DOMAIN chat'[t] = TurnFields /\ chat'[t].own = chat[t].own /\ chat'[t].env = chat[t].env
          /\ chat'[t].sent = chat[t].sent /\ chat'[t].plan = chat[t].plan /\ chat'[t].pc = "writing"
          /\ chat'[t].delta = chat[t].delta /\ chat'[t].previous = chat[t].previous
      BY <1>2, <1>3, <1>5 DEF TurnFields
    <2>2. TurnTyped(t)'
      BY <1>1, <1>3, <2>1 DEF TurnTyped, DistinctIds, CURRENT_TURN_ID
    <2>3. QuestionOK(t)' /\ PlanOK(t)' /\ PromptOK(t)'
      BY <1>3, <2>1 DEF QuestionOK, PlanOK, PromptOK, Asked
    <2>4. DeltaOK(t)'
      BY <1>3, <2>1 DEF DeltaOK
    <2> QED
      BY <2>2, <2>3, <2>4 DEF TurnOK
  <1>6. TurnOK(t)'
    BY <1>0, <1>4, <1>5
  <1>7. /\ DOMAIN chat' = ChatTurns /\ \A u \in ChatTurns \ {t} : chat'[u] = chat[u]
        /\ summaries' \in Seq(SummaryRows) /\ Len(summaries') >= Len(summaries)
    BY <1>0, <1>1, <1>2
  <1> QED
    BY <1>2, <1>6, <1>7, StepKeeps

LEMMA InsertKeeps ==
  ASSUME ContextInv, NEW t \in ChatTurns, insertIfVersionFree(t)
  PROVE  ContextInv'
  <1> DEFINE d == Head(chat[t].delta)
             row == [from |-> d.from, until |-> d.until, size |-> d.text,
                     builds_on |-> chat[t].previous, by |-> t]
  <1>1. /\ summaries' = IF Len(summaries) = chat[t].latest THEN Append(summaries, row) ELSE summaries
        /\ chat' = [chat EXCEPT ![t] = [IdleTurn EXCEPT !.pc = "done"]]
        /\ chat[t].pc = "writing" /\ history' = history
    BY DEF insertIfVersionFree
  <1>2. HistoryOK /\ HistoryOK' /\ HistoryKept /\ TurnOK(t) /\ DOMAIN chat = ChatTurns
        /\ summaries \in Seq(SummaryRows) /\ Len(summaries) \in Nat
    BY <1>1, NothingStored DEF ContextInv
  <1>3. d \in Deltas /\ chat[t].previous \in Nat
    BY <1>1, <1>2, WritesSummary
  <1> HIDE DEF d
  <1>4. row \in SummaryRows
    BY <1>3 DEF Deltas, SummaryRows
  <1> HIDE DEF row
  <1>5. summaries' \in Seq(SummaryRows) /\ Len(summaries') >= Len(summaries) /\ Len(summaries') \in Nat
    <2>1. /\ Append(summaries, row) \in Seq(SummaryRows)
          /\ Len(Append(summaries, row)) = Len(summaries) + 1
      BY <1>2, <1>4
    <2> QED
      BY <1>1, <1>2, <2>1
  <1>6. TurnOK(t)'
    <2>1. chat'[t] = [IdleTurn EXCEPT !.pc = "done"]
      BY <1>1, <1>2
    <2>2. /\ DOMAIN chat'[t] = TurnFields /\ chat'[t].own = 0 /\ chat'[t].env = <<>>
          /\ chat'[t].sent = 0 /\ chat'[t].plan.ok = FALSE /\ chat'[t].pc = "done"
          /\ chat'[t].delta = <<>> /\ chat'[t].previous = 0
      BY <2>1 DEF IdleTurn, TurnFields, Infeasible
    <2>3. <<>> \in Seq(Deltas) /\ 0 \in 0..Len(summaries)
      BY <1>2
    <2> QED
      BY <1>2, <1>5, <2>2, <2>3, TurnOver
  <1>7. DOMAIN chat' = ChatTurns /\ \A u \in ChatTurns \ {t} : chat'[u] = chat[u]
    BY <1>1, <1>2
  <1> QED
    BY <1>2, <1>5, <1>6, <1>7, StepKeeps

LEMMA ContextStep ==
  ASSUME ContextInv, [ContextNext]_context_vars
  PROVE  ContextInv'
  <1>1. CASE UNCHANGED context_vars
    <2>1. history' = history /\ summaries' = summaries /\ chat' = chat
      BY <1>1 DEF context_vars
    <2>2. HistoryOK /\ HistoryOK' /\ HistoryKept /\ summaries' \in Seq(SummaryRows)
          /\ DOMAIN chat' = ChatTurns /\ Len(summaries) \in Nat
      BY <2>1, NothingStored DEF ContextInv
    <2>3. ASSUME NEW t \in ChatTurns PROVE TurnOK(t)'
      <3>1. TurnOK(t) /\ chat'[t] = chat[t] /\ Len(summaries') \in Nat
            /\ Len(summaries') >= Len(summaries)
        BY <2>1, <2>2 DEF ContextInv
      <3> QED
        BY <2>2, <3>1, TurnStays
    <2> QED
      BY <2>2, <2>3 DEF ContextInv
  <1>2. CASE ContextNext
    <2> SUFFICES ASSUME NEW t \in ChatTurns,
                        \/ Ask(t)
                        \/ BuildEnvelope(t)
                        \/ assemble_context(t)
                        \/ summarize_context(t)
                        \/ SkipSummary(t)
                        \/ Complete(t)
                        \/ ReadLatest(t)
                        \/ insertIfVersionFree(t)
                 PROVE  ContextInv'
      BY <1>2 DEF ContextNext
    <2> QED
      BY AskKeeps, BuildEnvelopeKeeps, AssembleKeeps, SummarizeKeeps, SkipSummaryKeeps,
         CompleteKeeps, ReadLatestKeeps, InsertKeeps
  <1> QED
    BY <1>1, <1>2

LEMMA ContextStart == ContextInit => ContextInv
  <1> SUFFICES ASSUME ContextInit PROVE ContextInv
    OBVIOUS
  <1>1. history = <<>> /\ summaries = <<>> /\ chat = [t \in ChatTurns |-> IdleTurn]
    BY DEF ContextInit
  <1>2. HistoryOK
    <2>1. <<>> \in Seq(Rows) /\ Len(<<>>) = 0
      OBVIOUS
    <2> QED
      BY <1>1, <2>1 DEF HistoryOK
  <1>3. summaries \in Seq(SummaryRows) /\ Len(summaries) = 0 /\ Len(history) = 0
    <2>1. <<>> \in Seq(SummaryRows) /\ Len(<<>>) = 0
      OBVIOUS
    <2> QED
      BY <1>1, <2>1
  <1>4. ASSUME NEW t \in ChatTurns PROVE TurnOK(t)
    <2>1. chat[t] = IdleTurn
      BY <1>1
    <2>2. /\ DOMAIN chat[t] = TurnFields /\ chat[t].pc = "idle" /\ chat[t].own = 0
          /\ chat[t].env = <<>> /\ chat[t].previous = 0 /\ chat[t].plan.ok = FALSE
          /\ chat[t].delta = <<>> /\ chat[t].sent = 0
      BY <2>1 DEF IdleTurn, TurnFields, Infeasible
    <2>3. <<>> \in Seq(Rows) /\ Len(<<>>) = 0 /\ <<>> \in Seq(Deltas)
      OBVIOUS
    <2>4. TurnTyped(t)
      <3>1. chat[t].env \in Seq(Rows) /\ Len(chat[t].env) = 0
        BY <2>2, <2>3
      <3>2. 0 \in 0..Len(history) /\ 0 \in 0..Len(summaries)
        BY <1>3
      <3>3. chat[t].pc \in Asked \cup {"idle", "persisting", "writing", "done"}
        BY <2>2
      <3>4. chat[t].sent \in Nat /\ chat[t].plan.ok \in BOOLEAN
        <4>1. chat[t].sent \in Nat
          BY <2>2
        <4>2. chat[t].plan.ok \in {TRUE, FALSE}
          BY <2>2, Zenon
        <4> QED
          BY <4>1, <4>2
      <3>5. DistinctIds(chat[t].env)
            /\ \A i \in 1..Len(chat[t].env) : chat[t].env[i].id # CURRENT_TURN_ID
        BY <3>1 DEF DistinctIds
      <3>6. chat[t].own \in 0..Len(history) /\ chat[t].previous \in 0..Len(summaries)
        BY <2>2, <3>2
      <3> QED
        BY <2>2, <3>1, <3>3, <3>4, <3>5, <3>6 DEF TurnTyped
    <2>5. QuestionOK(t) /\ PlanOK(t) /\ PromptOK(t)
      BY <2>2 DEF QuestionOK, PlanOK, PromptOK, Asked
    <2>6. DeltaOK(t)
      BY <2>2, <2>3 DEF DeltaOK
    <2> QED
      BY <2>4, <2>5, <2>6 DEF TurnOK
  <1> QED
    BY <1>1, <1>2, <1>3, <1>4 DEF ContextInv

\* Every turn of a conversation is where its program counter says, with an envelope
\* that is a slice of the history, a plan that packs the candidates it was made for,
\* and a summary of the range that plan gave up - however the turns overlap.
THEOREM ContextInvariant == ContextSpec => []ContextInv
  <1>1. ContextInv /\ [ContextNext]_context_vars => ContextInv'
    BY ContextStep
  <1> QED
    BY <1>1, ContextStart, PTL DEF ContextSpec

(***************************** the theorems *******************************)
LEMMA TypesHold == ContextInv => ContextTypeOK
  <1> SUFFICES ASSUME ContextInv PROVE ContextTypeOK
    OBVIOUS
  <1>1. HistoryOK /\ summaries \in Seq(SummaryRows) /\ \A t \in ChatTurns : TurnTyped(t)
    BY DEF ContextInv, TurnOK
  <1>2. ASSUME NEW i \in DOMAIN history
        PROVE  /\ history[i].id = i /\ history[i].role \in {"user", "assistant"}
               /\ history[i].size \in Nat
    <2>1. history[i] \in Rows /\ i \in 1..Len(history)
      BY <1>1 DEF HistoryOK
    <2> QED
      BY <1>1, <2>1 DEF HistoryOK, Rows
  <1>3. ASSUME NEW v \in DOMAIN summaries
        PROVE  summaries[v].by \in ChatTurns /\ summaries[v].size \in Nat
    <2>1. summaries[v] \in SummaryRows
      BY <1>1
    <2> QED
      BY <2>1 DEF SummaryRows
  <1>4. ASSUME NEW t \in ChatTurns
        PROVE  /\ chat[t].pc \in {"idle", "stored", "built", "planned", "refused", "answering",
                                  "persisting", "writing", "done"}
               /\ chat[t].own \in 0..Len(history) /\ chat[t].sent \in Nat
    BY <1>1 DEF TurnTyped, Asked
  <1> QED
    BY <1>2, <1>3, <1>4 DEF ContextTypeOK

\* The rows keep their ids and every prompt a size: whatever other turns store.
THEOREM ContextTypeCorrect == ContextSpec => []ContextTypeOK
  BY ContextInvariant, TypesHold, PTL

LEMMA WindowHolds == ContextInv => PromptFitsWindow
  <1> SUFFICES ASSUME ContextInv, NEW t \in ChatTurns, chat[t].pc = "planned"
               PROVE  chat[t].sent + MaxOutput + SafetyMargin <= Window
    BY DEF PromptFitsWindow
  <1>1. chat[t].sent \in Nat /\ chat[t].sent <= Room
    BY DEF ContextInv, TurnOK, TurnTyped, PromptOK
  <1> QED
    BY <1>1, ContextAssumption DEF Room

\* Whatever the history, the graph and the summary hold, the prompt of a plan that was
\* not refused fits the window of the model, with the reply and the margin
\* (budget.py allocate, builder.py).
THEOREM PromptFits == ContextSpec => []PromptFitsWindow
  BY ContextInvariant, WindowHolds, PTL

LEMMA OverrunHolds == ContextInv => FoldOverrunBounded
  <1> SUFFICES ASSUME ContextInv, NEW t \in ChatTurns, Planned(t)
               PROVE  chat[t].sent + MaxOutput + SafetyMargin <= Window + Section(MAX_SUMMARY_TOKENS)
    BY DEF FoldOverrunBounded
  <1>1. chat[t].pc \in {"planned", "answering"} /\ chat[t].sent \in Nat
        /\ (chat[t].pc = "planned" => chat[t].sent <= Room)
        /\ (chat[t].pc = "answering" => chat[t].sent <= Room + Section(MAX_SUMMARY_TOKENS))
    BY DEF ContextInv, TurnOK, TurnTyped, PromptOK, PlanOK, Planned
  <1>2. Section(MAX_SUMMARY_TOKENS) \in Nat
    BY CountsAssumption DEF Section, MAX_SUMMARY_TOKENS, SECTION_JOIN_TOKENS
  <1> QED
    BY <1>1, <1>2, ContextAssumption DEF Room

\* Folding the summary in after the budget was spent takes the prompt over it by no
\* more than a summary may be long (builder.py, summary.py).
THEOREM FoldOverrun == ContextSpec => []FoldOverrunBounded
  BY ContextInvariant, OverrunHolds, PTL

\* What the invariant says of a turn with a plan.
LEMMA PlannedTurn ==
  ASSUME ContextInv, NEW t \in ChatTurns, Planned(t)
  PROVE  /\ Candidates(t) \in Seq(Rows) /\ DistinctIds(Candidates(t)) /\ AreMessages(Candidates(t))
         /\ chat[t].plan.packed \in PackStates(Len(Candidates(t)))
         /\ PackedTo(chat[t].plan.packed, Len(Candidates(t)), 0,
                     CurrentIndex(Candidates(t), chat[t].text))
         /\ chat[t].plan.packed.current_kept
         /\ chat[t].plan.evicted = EvictedIds(Candidates(t), chat[t].plan.packed)
         /\ chat[t].plan.request = SummaryRequestFor(chat[t].plan.evicted, chat[t].previous)
  <1>1. HistoryOK /\ TurnTyped(t) /\ QuestionOK(t) /\ PlanOK(t) /\ chat[t].plan.ok
    BY DEF ContextInv, TurnOK, Planned
  <1>2. chat[t].pc \in Asked
    BY <1>1 DEF PlanOK, Asked
  <1>3. /\ Candidates(t) \in Seq(Rows) /\ DistinctIds(Candidates(t)) /\ AreMessages(Candidates(t))
    BY <1>1, <1>2, CandidatesTyped
  <1> QED
    BY <1>1, <1>3 DEF PlanOK

LEMMA QuestionHolds == ContextInv => CurrentTurnSent
  <1> SUFFICES ASSUME ContextInv, NEW t \in ChatTurns, Planned(t)
               PROVE  \E i \in chat[t].plan.packed.kept : Candidates(t)[i].text = chat[t].text
    BY DEF CurrentTurnSent
  <1> DEFINE ms == Candidates(t)
             cur == CurrentIndex(ms, chat[t].text)
             packed == chat[t].plan.packed
  <1>1. AreMessages(ms) /\ PackedTo(packed, Len(ms), 0, cur) /\ packed.current_kept
    BY PlannedTurn
  <1>2. cur # 0 => ms[cur].text = chat[t].text
    BY <1>1, CurrentIs
  <1> HIDE DEF ms, cur, packed
  <1>3. cur \in packed.kept /\ cur \in 1..Len(ms)
    BY <1>1 DEF PackedTo
  <1> QED
    BY <1>2, <1>3 DEF ms, cur, packed

\* No prompt leaves without the question it answers, also when overlapping turns
\* stored newer messages before the envelope was built (budget.py pack_messages).
THEOREM CurrentTurn == ContextSpec => []CurrentTurnSent
  BY ContextInvariant, QuestionHolds, PTL

LEMMA PrefixHolds == ContextInv => DroppedIsPrefix
  <1> SUFFICES ASSUME ContextInv, NEW t \in ChatTurns, Planned(t),
                      CurrentIndex(Candidates(t), chat[t].text) = Len(Candidates(t)),
                      NEW i \in chat[t].plan.packed.kept, NEW j \in i..Len(Candidates(t))
               PROVE  j \in chat[t].plan.packed.kept
    BY DEF DroppedIsPrefix
  <1> DEFINE n == Len(Candidates(t))
             packed == chat[t].plan.packed
  <1>1. n \in Nat /\ PackedTo(packed, n, 0, n) /\ packed.current_kept
    <2>1. AreMessages(Candidates(t))
      BY PlannedTurn
    <2> QED
      BY <2>1, PlannedTurn DEF AreMessages
  <1> HIDE DEF n, packed
  <1>2. PICK m \in 0..n : ((0+1)..n) \ packed.kept = ((0+1)..m) \ {n}
    BY <1>1 DEF PackedTo
  <1>3. packed.kept \subseteq (0+1)..n
    BY <1>1 DEF PackedTo
  <1>4. i \in packed.kept /\ i \in 1..n /\ j \in i..n /\ j \in 1..n
    BY <1>1, <1>3 DEF n, packed
  <1>5. i \notin ((0+1)..m) \ {n}
    BY <1>2, <1>4
  <1>6. j \notin ((0+1)..m) \ {n}
    BY <1>1, <1>4, <1>5
  <1>7. j \in packed.kept
    BY <1>2, <1>4, <1>6
  <1> QED
    BY <1>7 DEF packed

\* When the question is the newest message, what stays of the conversation is its end,
\* without a hole (budget.py pack_messages).
THEOREM PrefixDropped == ContextSpec => []DroppedIsPrefix
  BY ContextInvariant, PrefixHolds, PTL

(*********************** what a plan says it dropped **********************)
Ids(ms) == [i \in DOMAIN ms |-> ms[i].id]
PickedIds(ms, P) == {ms[i].id : i \in P}
Dropped(ms, packed) == (1..Len(ms)) \ packed.kept
Lost(ms, packed) == Dropped(ms, packed) \cup packed.truncated

LEMMA IdsTyped ==
  ASSUME NEW ms \in Seq(Rows)
  PROVE  Ids(ms) \in Seq(Nat) /\ DOMAIN Ids(ms) = 1..Len(ms) /\ Len(Ids(ms)) = Len(ms)
  <1>1. Len(ms) \in Nat /\ DOMAIN ms = 1..Len(ms) /\ \A i \in 1..Len(ms) : ms[i] \in Rows
    OBVIOUS
  <1>2. Ids(ms) \in [1..Len(ms) -> Nat]
    BY <1>1 DEF Rows, Ids
  <1> QED
    BY <1>1, <1>2, ArrayIsSeq

\* Naming the messages at some positions names each of them once.
LEMMA IdsAt ==
  ASSUME NEW ms \in Seq(Rows), NEW P \in SUBSET (1..Len(ms))
  PROVE  /\ At(Ids(ms), P) \in Seq(Nat) /\ ToSet(At(Ids(ms), P)) = PickedIds(ms, P)
         /\ Len(At(Ids(ms), P)) = Cardinality(P) /\ Cardinality(P) \in Nat
  <1> DEFINE a == At(Ids(ms), P)
             c == Cardinality(P)
  <1>1. Len(ms) \in Nat /\ DOMAIN ms = 1..Len(ms) /\ Ids(ms) \in Seq(Nat)
        /\ DOMAIN Ids(ms) = 1..Len(ms)
    BY IdsTyped
  <1>2. a \in Seq(Nat)
    BY <1>1, AtTyped
  <1>3. Picked(Ids(ms), P)
    BY <1>1, AtPositions
  <1>4. c \in Nat /\ DOMAIN a = 1..c
    BY <1>3 DEF Picked
  <1>5. \A i \in P : Ids(ms)[i] = ms[i].id
    BY <1>1 DEF Ids
  <1>6. \A k \in 1..c : Nth(P, k) \in P /\ a[k] = ms[Nth(P, k)].id
    BY <1>3, <1>5 DEF Picked
  <1>7. \A i \in P : \E k \in 1..c : Nth(P, k) = i
    BY <1>3 DEF Picked
  <1> HIDE DEF a, c
  <1>8. {a[k] : k \in DOMAIN a} = PickedIds(ms, P)
    <2>1. ASSUME NEW k \in 1..c PROVE a[k] \in PickedIds(ms, P)
      BY <1>6 DEF PickedIds
    <2>2. ASSUME NEW i \in P PROVE ms[i].id \in {a[k] : k \in DOMAIN a}
      BY <1>4, <1>6, <1>7
    <2> QED
      BY <1>4, <2>1, <2>2 DEF PickedIds
  <1>9. ToSet(a) = {a[k] : k \in DOMAIN a}
    BY DEF ToSet
  <1>10. Len(a) = c
    BY <1>2, <1>4
  <1> QED
    BY <1>2, <1>4, <1>8, <1>9, <1>10 DEF a, c

LEMMA SetOfBoth ==
  ASSUME NEW a \in Seq(Nat), NEW b \in Seq(Nat)
  PROVE  /\ a \o b \in Seq(Nat) /\ Len(a \o b) = Len(a) + Len(b)
         /\ ToSet(a \o b) = ToSet(a) \cup ToSet(b)
  <1> DEFINE c == a \o b
  <1>1. c \in Seq(Nat) /\ Len(c) = Len(a) + Len(b) /\ DOMAIN c = 1..Len(a) + Len(b)
    OBVIOUS
  <1>2. Len(a) \in Nat /\ Len(b) \in Nat /\ DOMAIN a = 1..Len(a) /\ DOMAIN b = 1..Len(b)
    OBVIOUS
  <1>3. \A k \in 1..Len(a) : c[k] = a[k]
    OBVIOUS
  <1>4. \A k \in 1..Len(b) : c[Len(a) + k] = b[k]
    OBVIOUS
  <1>5. ASSUME NEW k \in DOMAIN c PROVE c[k] \in ToSet(a) \cup ToSet(b)
    <2>1. CASE k <= Len(a)
      BY <1>1, <1>2, <1>3, <2>1 DEF ToSet
    <2>2. CASE k > Len(a)
      <3>1. k - Len(a) \in 1..Len(b) /\ Len(a) + (k - Len(a)) = k
        BY <1>1, <1>2, <2>2
      <3>2. c[k] = b[k - Len(a)]
        BY <1>4, <3>1
      <3> QED
        BY <1>2, <3>1, <3>2 DEF ToSet
    <2> QED
      BY <1>1, <1>2, <2>1, <2>2
  <1>6. ASSUME NEW k \in DOMAIN a PROVE a[k] \in ToSet(c)
    <2>1. k \in DOMAIN c /\ c[k] = a[k]
      BY <1>1, <1>2, <1>3
    <2> QED
      BY <2>1 DEF ToSet
  <1>7. ASSUME NEW k \in DOMAIN b PROVE b[k] \in ToSet(c)
    <2>1. Len(a) + k \in DOMAIN c /\ c[Len(a) + k] = b[k]
      BY <1>1, <1>2, <1>4
    <2> HIDE DEF c
    <2> QED
      BY <2>1 DEF ToSet
  <1> HIDE DEF c
  <1>8. ToSet(c) = ToSet(a) \cup ToSet(b)
    BY <1>5, <1>6, <1>7 DEF ToSet
  <1> QED
    BY <1>1, <1>8 DEF c

LEMMA EvictedAre ==
  ASSUME NEW ms \in Seq(Rows), NEW packed \in PackStates(Len(ms))
  PROVE  /\ ToSet(EvictedIds(ms, packed)) = PickedIds(ms, Lost(ms, packed))
         /\ Len(EvictedIds(ms, packed))
              = Cardinality(Dropped(ms, packed)) + Cardinality(packed.truncated)
  <1> DEFINE D == Dropped(ms, packed)
             C == packed.truncated
             a == At(Ids(ms), D)
             b == At(Ids(ms), C)
  <1>1. D \in SUBSET (1..Len(ms)) /\ C \in SUBSET (1..Len(ms))
    BY DEF Dropped, PackStates
  <1>2. EvictedIds(ms, packed) = a \o b
    <2>1. DOMAIN ms = 1..Len(ms)
      OBVIOUS
    <2> QED
      BY <2>1 DEF EvictedIds, Ids, Dropped
  <1> HIDE DEF D, C
  <1>3. /\ a \in Seq(Nat) /\ ToSet(a) = PickedIds(ms, D) /\ Len(a) = Cardinality(D)
    BY <1>1, IdsAt
  <1>4. /\ b \in Seq(Nat) /\ ToSet(b) = PickedIds(ms, C) /\ Len(b) = Cardinality(C)
    BY <1>1, IdsAt
  <1> HIDE DEF a, b
  <1>5. /\ ToSet(a \o b) = ToSet(a) \cup ToSet(b) /\ Len(a \o b) = Len(a) + Len(b)
    BY <1>3, <1>4, SetOfBoth
  <1>6. PickedIds(ms, D) \cup PickedIds(ms, C) = PickedIds(ms, D \cup C)
    BY DEF PickedIds
  <1>7. ToSet(a \o b) = PickedIds(ms, D \cup C) /\ Len(a \o b) = Cardinality(D) + Cardinality(C)
    BY <1>3, <1>4, <1>5, <1>6
  <1> QED
    BY <1>2, <1>7 DEF D, C, Lost

\* Distinct ids: as many names as positions.
LEMMA IdsCounted ==
  ASSUME NEW ms \in Seq(Rows), DistinctIds(ms), NEW P \in SUBSET (1..Len(ms))
  PROVE  /\ IsFiniteSet(P) /\ Cardinality(P) \in Nat
         /\ Cardinality(PickedIds(ms, P)) = Cardinality(P)
  <1> DEFINE f == [i \in P |-> ms[i].id]
             T == PickedIds(ms, P)
  <1>1. Len(ms) \in Nat
    OBVIOUS
  <1>2. IsFiniteSet(P) /\ Cardinality(P) \in Nat
    <2>1. IsFiniteSet(1..Len(ms))
      BY <1>1, FS_Interval
    <2>2. IsFiniteSet(P)
      BY <2>1, FS_Subset
    <2> QED
      BY <2>2, FS_CardinalityType
  <1>3. f \in [P -> T] /\ \A y \in T : \E x \in P : f[x] = y
    BY DEF PickedIds
  <1>4. \A x, y \in P : f[x] = f[y] => x = y
    BY DEF DistinctIds
  <1> HIDE DEF f, T
  <1>5. f \in Surjection(P, T) /\ f \in Injection(P, T)
    BY <1>3, <1>4 DEF Surjection, Injection, IsInjective
  <1>6. Cardinality(T) = Cardinality(P)
    BY <1>2, <1>5, FS_Surjection
  <1> QED
    BY <1>2, <1>6 DEF T

LEMMA LostCounted ==
  ASSUME NEW ms \in Seq(Rows), NEW packed \in PackStates(Len(ms)),
         packed.truncated \subseteq packed.kept
  PROVE  /\ Cardinality(Lost(ms, packed))
              = Cardinality(Dropped(ms, packed)) + Cardinality(packed.truncated)
         /\ Lost(ms, packed) \in SUBSET (1..Len(ms))
         /\ Cardinality(Lost(ms, packed)) \in Nat /\ IsFiniteSet(Lost(ms, packed))
  <1> DEFINE D == Dropped(ms, packed)
             C == packed.truncated
  <1>1. D \in SUBSET (1..Len(ms)) /\ C \in SUBSET (1..Len(ms)) /\ D \cap C = {}
    BY DEF Dropped, PackStates
  <1> HIDE DEF D, C
  <1>2. Len(ms) \in Nat
    OBVIOUS
  <1>3. IsFiniteSet(1..Len(ms))
    BY <1>2, FS_Interval
  <1>4. IsFiniteSet(D) /\ IsFiniteSet(C)
    BY <1>1, <1>3, FS_Subset
  <1>5. Cardinality(D) \in Nat /\ Cardinality(C) \in Nat
    BY <1>4, FS_CardinalityType
  <1>6. /\ IsFiniteSet(D \cup C)
        /\ Cardinality(D \cup C) = Cardinality(D) + Cardinality(C) - Cardinality(D \cap C)
    BY <1>4, FS_Union
  <1>7. Cardinality(D \cap C) = 0
    BY <1>1, FS_EmptySet
  <1>8. Cardinality(D \cup C) = Cardinality(D) + Cardinality(C)
    BY <1>5, <1>6, <1>7
  <1>9. Lost(ms, packed) = D \cup C /\ D \cup C \in SUBSET (1..Len(ms))
    BY <1>1 DEF Lost, D, C
  <1> QED
    BY <1>5, <1>6, <1>8, <1>9 DEF D, C

LEMMA EvictionHolds == ContextInv => EvictionExact
  <1> SUFFICES ASSUME ContextInv, NEW t \in ChatTurns, Planned(t)
               PROVE  /\ Kept(t) \cup Evicted(t) = {m.id : m \in ToSet(Candidates(t))}
                      /\ Kept(t) \cap Evicted(t) = CutShort(t)
                      /\ Cardinality(Evicted(t)) = Len(chat[t].plan.evicted)
    BY DEF EvictionExact
  <1> DEFINE ms == Candidates(t)
             packed == chat[t].plan.packed
             cur == CurrentIndex(ms, chat[t].text)
             lost == Lost(ms, packed)
  <1>1. /\ ms \in Seq(Rows) /\ DistinctIds(ms) /\ packed \in PackStates(Len(ms))
        /\ PackedTo(packed, Len(ms), 0, cur) /\ chat[t].plan.evicted = EvictedIds(ms, packed)
    BY PlannedTurn
  <1>2. packed.truncated \subseteq packed.kept
    BY <1>1 DEF PackedTo
  <1>3. Kept(t) = PickedIds(ms, packed.kept) /\ CutShort(t) = PickedIds(ms, packed.truncated)
        /\ Evicted(t) = ToSet(chat[t].plan.evicted)
    BY DEF Kept, CutShort, Evicted, PickedIds
  <1> HIDE DEF ms, packed, cur
  <1>4. /\ ToSet(EvictedIds(ms, packed)) = PickedIds(ms, lost)
        /\ Len(EvictedIds(ms, packed)) = Cardinality(lost)
    BY <1>1, <1>2, EvictedAre, LostCounted
  <1>5. lost \in SUBSET (1..Len(ms)) /\ packed.kept \in SUBSET (1..Len(ms))
        /\ packed.kept \cup lost = 1..Len(ms) /\ packed.kept \cap lost = packed.truncated
    BY <1>1, <1>2 DEF Lost, Dropped, PackStates
  <1> HIDE DEF lost
  <1>6. {m.id : m \in ToSet(ms)} = PickedIds(ms, 1..Len(ms))
    <2>1. DOMAIN ms = 1..Len(ms)
      BY <1>1
    <2> QED
      BY <2>1 DEF ToSet, PickedIds
  <1>7. PickedIds(ms, packed.kept) \cup PickedIds(ms, lost) = PickedIds(ms, 1..Len(ms))
    BY <1>5 DEF PickedIds
  <1>8. PickedIds(ms, packed.kept) \cap PickedIds(ms, lost) = PickedIds(ms, packed.truncated)
    <2>1. ASSUME NEW x \in PickedIds(ms, packed.kept), x \in PickedIds(ms, lost)
          PROVE  x \in PickedIds(ms, packed.truncated)
      <3>1. PICK i \in packed.kept : x = ms[i].id
        BY DEF PickedIds
      <3>2. PICK j \in lost : x = ms[j].id
        BY <2>1 DEF PickedIds
      <3>3. i = j
        BY <1>1, <1>5, <3>1, <3>2 DEF DistinctIds
      <3> QED
        BY <1>5, <3>1, <3>3 DEF PickedIds
    <2>2. ASSUME NEW i \in packed.truncated
          PROVE  ms[i].id \in PickedIds(ms, packed.kept) /\ ms[i].id \in PickedIds(ms, lost)
      BY <1>5 DEF PickedIds
    <2> QED
      BY <2>1, <2>2 DEF PickedIds
  <1>9. Cardinality(PickedIds(ms, lost)) = Cardinality(lost)
    BY <1>1, <1>5, IdsCounted
  <1>10. Evicted(t) = PickedIds(ms, lost)
    BY <1>1, <1>3, <1>4
  <1>11. Cardinality(Evicted(t)) = Len(chat[t].plan.evicted)
    BY <1>1, <1>4, <1>9, <1>10
  <1> QED
    BY <1>3, <1>6, <1>7, <1>8, <1>10, <1>11 DEF ms

\* The report of a plan is exact: sent whole or named, each message once
\* (budget.py allocate, the evicted ids).
THEOREM Eviction == ContextSpec => []EvictionExact
  BY ContextInvariant, EvictionHolds, PTL

(****************** the range of a summary is what was lost ***************)
Spans(s, P) ==
  \E lo, hi \in P : /\ P \subseteq lo..hi
                    /\ At(s, P)[1] = s[lo] /\ At(s, P)[Cardinality(P)] = s[hi]

LEMMA EndsAt ==
  ASSUME NEW n \in Nat, NEW s, NEW P \in SUBSET (1..n), P # {}
  PROVE  Spans(s, P) /\ Cardinality(P) \in Nat \ {0}
  <1> DEFINE c == Cardinality(P)
             first == Nth(P, 1)
             final == Nth(P, c)
  <1>1. Picked(s, P)
    BY AtPositions
  <1>2. /\ c \in Nat
        /\ \A k \in 1..c : Nth(P, k) \in P /\ At(s, P)[k] = s[Nth(P, k)]
        /\ \A i \in P : \E k \in 1..c : Nth(P, k) = i
        /\ \A k, m \in 1..c : k < m => Nth(P, k) < Nth(P, m)
    BY <1>1 DEF Picked
  <1> HIDE DEF c
  <1>3. c \in Nat \ {0} /\ 1 \in 1..c /\ c \in 1..c
    <2>1. PICK i \in P : TRUE
      OBVIOUS
    <2>2. PICK k \in 1..c : Nth(P, k) = i
      BY <1>2
    <2> QED
      BY <1>2, <2>2
  <1>4. first \in P /\ final \in P /\ At(s, P)[1] = s[first] /\ At(s, P)[c] = s[final]
    BY <1>2, <1>3
  <1>5. ASSUME NEW i \in P PROVE i \in first..final
    <2>1. PICK k \in 1..c : Nth(P, k) = i
      BY <1>2
    <2>2. k = 1 \/ first < i
      BY <1>2, <1>3, <2>1
    <2>3. k = c \/ i < final
      BY <1>2, <1>3, <2>1
    <2>4. \A x \in P : x \in Int
      OBVIOUS
    <2> HIDE DEF first, final
    <2>5. first \in Int /\ final \in Int /\ i \in Int
      BY <1>4, <2>4
    <2>6. k = 1 => i = first
      BY <2>1 DEF first
    <2>7. k = c => i = final
      BY <2>1 DEF final
    <2> QED
      BY <2>2, <2>3, <2>5, <2>6, <2>7
  <1> QED
    BY <1>3, <1>4, <1>5 DEF Spans, c

LEMMA EndsOfBoth ==
  ASSUME NEW a \in Seq(Nat), NEW b \in Seq(Nat)
  PROVE  /\ Len(a) # 0 => (a \o b)[1] = a[1]
         /\ Len(a) = 0 => (a \o b)[1] = b[1]
         /\ Len(b) # 0 => (a \o b)[Len(a) + Len(b)] = b[Len(b)]
         /\ Len(b) = 0 => (a \o b)[Len(a) + Len(b)] = a[Len(a)]
  <1>1. Len(a) \in Nat /\ Len(b) \in Nat
    OBVIOUS
  <1>2. ASSUME Len(b) # 0 PROVE (a \o b)[Len(a) + Len(b)] = b[Len(b)]
    BY <1>1, <1>2
  <1>3. ASSUME Len(b) = 0 PROVE (a \o b)[Len(a) + Len(b)] = a[Len(a)]
    <2>1. a \o b = a
      BY <1>3
    <2> QED
      BY <1>1, <1>3, <2>1
  <1>4. ASSUME Len(a) # 0 PROVE (a \o b)[1] = a[1]
    BY <1>1, <1>4
  <1>5. ASSUME Len(a) = 0 PROVE (a \o b)[1] = b[1]
    <2>1. a \o b = b
      BY <1>5
    <2> QED
      BY <2>1
  <1> QED
    BY <1>2, <1>3, <1>4, <1>5

\* The first and the last id that a plan names are those of two lost messages, and
\* what was lost lies between them - unless the newer of them is the question itself,
\* and everything up to a message after it was lost as well.
LostBetween(ms, packed, p, q) ==
  /\ p \in Lost(ms, packed) /\ q \in Lost(ms, packed)
  /\ EvictedIds(ms, packed)[1] = ms[p].id
  /\ EvictedIds(ms, packed)[Len(EvictedIds(ms, packed))] = ms[q].id
  /\ Lost(ms, packed) \subseteq p..q \/ 1..(q+1) \subseteq Lost(ms, packed)

LEMMA LostRange ==
  ASSUME NEW ms \in Seq(Rows), NEW packed \in PackStates(Len(ms)), NEW cur \in 0..Len(ms),
         PackedTo(packed, Len(ms), 0, cur), packed.current_kept, Lost(ms, packed) # {}
  PROVE  \E p, q \in 1..Len(ms) : LostBetween(ms, packed, p, q)
  <1> DEFINE n == Len(ms)
             D == Dropped(ms, packed)
             C == packed.truncated
             a == At(Ids(ms), D)
             b == At(Ids(ms), C)
  <1>1. n \in Nat /\ DOMAIN ms = 1..n
    OBVIOUS
  <1>2. D \in SUBSET (1..n) /\ C \in SUBSET (1..n)
    BY DEF Dropped, PackStates
  <1>3. C \subseteq {cur} /\ cur \in packed.kept /\ cur \in 1..n /\ cur \notin D
    BY DEF PackedTo, Dropped
  <1>4. \E m \in 0..n : D = (1..m) \ {cur}
    BY <1>1, <1>3 DEF PackedTo, Dropped
  <1>5. \A i \in 1..n : Ids(ms)[i] = ms[i].id
    BY <1>1 DEF Ids
  <1>6. EvictedIds(ms, packed) = a \o b
    BY <1>1 DEF EvictedIds, Ids, Dropped
  <1>7. Lost(ms, packed) = D \cup C
    BY DEF Lost
  <1> HIDE DEF n, D, C
  <1>8. a \in Seq(Nat) /\ Len(a) = Cardinality(D) /\ b \in Seq(Nat) /\ Len(b) = Cardinality(C)
        /\ Cardinality(D) \in Nat /\ Cardinality(C) \in Nat
    BY <1>2, IdsAt DEF n
  <1>9. /\ D # {} => Spans(Ids(ms), D) /\ Len(a) # 0
        /\ C # {} => Spans(Ids(ms), C) /\ Len(b) # 0
    BY <1>1, <1>2, <1>8, EndsAt
  <1>10. /\ D = {} => Len(a) = 0
         /\ C = {} => Len(b) = 0
    BY <1>8, FS_EmptySet
  <1>11. /\ D # {} => \E lo, hi \in D : D \subseteq lo..hi /\ a[1] = ms[lo].id /\ a[Len(a)] = ms[hi].id
         /\ C # {} => C = {cur} /\ b[1] = ms[cur].id /\ b[Len(b)] = ms[cur].id
    <2>1. ASSUME D # {}
          PROVE  \E lo, hi \in D : D \subseteq lo..hi /\ a[1] = ms[lo].id /\ a[Len(a)] = ms[hi].id
      <3>1. PICK lo, hi \in D : /\ D \subseteq lo..hi
                                /\ a[1] = Ids(ms)[lo] /\ a[Cardinality(D)] = Ids(ms)[hi]
        BY <1>9, <2>1 DEF Spans
      <3>2. Ids(ms)[lo] = ms[lo].id /\ Ids(ms)[hi] = ms[hi].id
        BY <1>2, <1>5
      <3> QED
        BY <1>8, <3>1, <3>2
    <2>2. ASSUME C # {} PROVE C = {cur} /\ b[1] = ms[cur].id /\ b[Len(b)] = ms[cur].id
      <3>1. PICK lo, hi \in C : b[1] = Ids(ms)[lo] /\ b[Cardinality(C)] = Ids(ms)[hi]
        BY <1>9, <2>2 DEF Spans
      <3>2. C = {cur} /\ lo = cur /\ hi = cur /\ Ids(ms)[cur] = ms[cur].id
        BY <1>2, <1>3, <1>5, <2>2
      <3> QED
        BY <1>8, <3>1, <3>2
    <2> QED
      BY <2>1, <2>2
  <1> HIDE DEF a, b
  <1>12. Len(a \o b) = Len(a) + Len(b)
    BY <1>8, SetOfBoth
  <1>13. /\ Len(a) # 0 => (a \o b)[1] = a[1]
         /\ Len(a) = 0 => (a \o b)[1] = b[1]
         /\ Len(b) # 0 => (a \o b)[Len(a) + Len(b)] = b[Len(b)]
         /\ Len(b) = 0 => (a \o b)[Len(a) + Len(b)] = a[Len(a)]
    BY <1>8, EndsOfBoth
  <1>14. CASE D = {}
    <2>1. C = {cur} /\ Len(a) = 0 /\ Len(b) # 0
      BY <1>7, <1>9, <1>10, <1>11, <1>14
    <2>2. (a \o b)[1] = ms[cur].id /\ (a \o b)[Len(a) + Len(b)] = ms[cur].id
      BY <1>11, <1>13, <2>1
    <2>3. Lost(ms, packed) = {cur} /\ cur \in Int /\ {cur} \subseteq cur..cur
      BY <1>3, <1>7, <1>14, <2>1
    <2>4. LostBetween(ms, packed, cur, cur)
      BY <1>6, <1>12, <2>2, <2>3 DEF LostBetween
    <2> QED
      BY <1>3, <2>4 DEF n
  <1>15. CASE D # {} /\ C = {}
    <2>1. PICK lo, hi \in D : D \subseteq lo..hi /\ a[1] = ms[lo].id /\ a[Len(a)] = ms[hi].id
      BY <1>11, <1>15
    <2>2. (a \o b)[1] = ms[lo].id /\ (a \o b)[Len(a) + Len(b)] = ms[hi].id
      BY <1>9, <1>10, <1>13, <1>15, <2>1
    <2>3. Lost(ms, packed) = D
      BY <1>7, <1>15
    <2>4. LostBetween(ms, packed, lo, hi)
      BY <1>6, <1>12, <2>1, <2>2, <2>3 DEF LostBetween
    <2> QED
      BY <1>2, <2>1, <2>4 DEF n
  <1>16. CASE D # {} /\ C # {}
    <2>1. PICK lo, hi \in D : D \subseteq lo..hi /\ a[1] = ms[lo].id /\ a[Len(a)] = ms[hi].id
      BY <1>11, <1>16
    <2>2. (a \o b)[1] = ms[lo].id /\ (a \o b)[Len(a) + Len(b)] = ms[cur].id /\ C = {cur}
      BY <1>9, <1>11, <1>13, <1>16, <2>1
    <2>3. Lost(ms, packed) = D \cup {cur}
      BY <1>7, <2>2
    <2>4. D \cup {cur} \subseteq lo..cur \/ 1..(cur+1) \subseteq D \cup {cur}
      <3>1. PICK m \in 0..n : D = (1..m) \ {cur}
        BY <1>4
      <3>2. lo \in 1..n /\ cur \in 1..n /\ lo \in 1..m /\ \A i \in D : i \in 1..n /\ i >= lo
        BY <1>1, <1>2, <1>3, <2>1, <3>1
      <3>3. CASE m <= cur
        BY <1>1, <3>1, <3>2, <3>3
      <3>4. CASE m > cur
        BY <1>1, <3>1, <3>2, <3>4
      <3> QED
        BY <1>1, <3>1, <3>2, <3>3, <3>4
    <2>5. LostBetween(ms, packed, lo, cur)
      BY <1>6, <1>12, <2>1, <2>2, <2>3, <2>4 DEF LostBetween
    <2> QED
      BY <1>2, <1>3, <2>1, <2>5 DEF n
  <1> QED
    BY <1>14, <1>15, <1>16

LEMMA LeastOfOne ==
  ASSUME NEW p
  PROVE  Min({p}) = p
  BY DEF Min

\* As many messages between the two as were lost: they are the ones that were lost.
LEMMA CutExact ==
  ASSUME NEW ms \in Seq(Rows), NEW L \in SUBSET (1..Len(ms)), IsFiniteSet(L),
         NEW p \in L, NEW q \in L, L \subseteq p..q \/ 1..(q+1) \subseteq L,
         Len(SubSeq(ms, p, q)) = Cardinality(L)
  PROVE  L = p..q /\ ToSet(SubSeq(ms, p, q)) = {ms[i] : i \in p..q}
  <1>1. Len(ms) \in Nat /\ p \in 1..Len(ms) /\ q \in 1..Len(ms)
    OBVIOUS
  <1>2. Len(SubSeq(ms, p, q)) = IF p <= q THEN q - p + 1 ELSE 0
    BY <1>1
  <1>3. IsFiniteSet(p..q) /\ Cardinality(p..q) = IF p > q THEN 0 ELSE q - p + 1
    BY <1>1, FS_Interval
  <1>4. Cardinality(p..q) = Cardinality(L)
    BY <1>1, <1>2, <1>3
  <1>5. L \subseteq p..q
    <2>1. CASE 1..(q+1) \subseteq L
      <3>1. IsFiniteSet(1..(q+1)) /\ Cardinality(1..(q+1)) = q + 1
        BY <1>1, FS_Interval
      <3>2. Cardinality(1..(q+1)) <= Cardinality(L)
        BY <2>1, FS_Subset
      <3>3. Cardinality(L) <= q
        BY <1>1, <1>3, <1>4
      <3>4. q + 1 <= Cardinality(L)
        BY <3>1, <3>2
      <3>5. Cardinality(L) \in Nat
        BY FS_CardinalityType
      <3> QED
        BY <1>1, <3>3, <3>4, <3>5
    <2> QED
      BY <2>1
  <1>6. L = p..q
    BY <1>3, <1>4, <1>5, FS_Subset
  <1>7. p <= q
    BY <1>1, <1>6
  <1> DEFINE s == SubSeq(ms, p, q)
  <1>8. /\ DOMAIN s = 1..(q - p + 1)
        /\ \A k \in 1..(q - p + 1) : s[k] = ms[p + k - 1]
    BY <1>1, <1>7
  <1> HIDE DEF s
  <1>9. ASSUME NEW k \in DOMAIN s PROVE s[k] \in {ms[i] : i \in p..q}
    BY <1>1, <1>7, <1>8
  <1>10. ASSUME NEW i \in p..q PROVE ms[i] \in {s[k] : k \in DOMAIN s}
    <2>1. i - p + 1 \in DOMAIN s /\ p + (i - p + 1) - 1 = i
      BY <1>1, <1>7, <1>8
    <2>2. s[i - p + 1] = ms[i]
      BY <1>8, <2>1
    <2> QED
      BY <2>1, <2>2
  <1>11. {s[k] : k \in DOMAIN s} = {ms[i] : i \in p..q}
    BY <1>9, <1>10
  <1> QED
    BY <1>6, <1>11 DEF s, ToSet

LEMMA Between ==
  ASSUME NEW ms \in Seq(Rows), DistinctIds(ms), NEW p \in 1..Len(ms), NEW q \in 1..Len(ms)
  PROVE  messages_between(ms, ms[p].id, ms[q].id) = SubSeq(ms, p, q)
  <1>1. DOMAIN ms = 1..Len(ms)
    OBVIOUS
  <1>2. {i \in DOMAIN ms : ms[i].id = ms[p].id} = {p}
    BY <1>1 DEF DistinctIds
  <1>3. {i \in DOMAIN ms : ms[i].id = ms[q].id} = {q}
    BY <1>1 DEF DistinctIds
  <1>4. Min({p}) = p /\ Min({q}) = q
    BY LeastOfOne
  <1> QED
    BY <1>2, <1>3, <1>4 DEF messages_between

LEMMA RangeHolds == ContextInv => SummaryRangeExact
  <1> SUFFICES ASSUME ContextInv, NEW t \in ChatTurns, chat[t].pc = "answering",
                      chat[t].delta # <<>>, Head(chat[t].delta) # Refusal
               PROVE  LET d == Head(chat[t].delta)
                      IN Evicted(t) = {m.id : m \in ToSet(messages_between(Candidates(t), d.from, d.until))}
    BY DEF SummaryRangeExact
  <1> DEFINE ms == Candidates(t)
             plan == chat[t].plan
             packed == plan.packed
             cur == CurrentIndex(ms, chat[t].text)
             d == Head(chat[t].delta)
             request == Head(plan.request)
             lost == Lost(ms, packed)
  <1>1. /\ plan.ok /\ plan.request # <<>> /\ d.from = request.from /\ d.until = request.until
        /\ CanCut(request, ms)
    BY DEF ContextInv, TurnOK, DeltaOK
  <1>2. Planned(t)
    BY <1>1 DEF Planned
  <1>3. /\ ms \in Seq(Rows) /\ DistinctIds(ms) /\ AreMessages(ms) /\ packed \in PackStates(Len(ms))
        /\ PackedTo(packed, Len(ms), 0, cur) /\ packed.current_kept
        /\ plan.evicted = EvictedIds(ms, packed)
        /\ plan.request = SummaryRequestFor(plan.evicted, chat[t].previous)
    BY <1>2, PlannedTurn
  <1>4. cur \in 0..Len(ms)
    BY <1>3, CurrentIs
  <1>5. Evicted(t) = ToSet(plan.evicted)
    BY DEF Evicted
  <1> HIDE DEF ms, packed, cur, d, plan, request
  <1>6. plan.evicted \in Seq(Nat)
    BY <1>3, EvictedTyped
  <1>7. /\ request.from = plan.evicted[1] /\ request.until = plan.evicted[Len(plan.evicted)]
        /\ request.count = Len(plan.evicted) /\ Len(plan.evicted) \in Nat \ {0}
    <2>1. SummaryRequestFor(plan.evicted, chat[t].previous) # <<>>
      BY <1>1, <1>3
    <2>2. request = Head(SummaryRequestFor(plan.evicted, chat[t].previous))
      BY <1>3 DEF request
    <2> QED
      BY <1>6, <2>1, <2>2, RequestedRange
  <1>8. packed.truncated \subseteq packed.kept
    BY <1>3 DEF PackedTo
  <1>9. /\ ToSet(plan.evicted) = PickedIds(ms, lost) /\ Len(plan.evicted) = Cardinality(lost)
        /\ lost \in SUBSET (1..Len(ms)) /\ IsFiniteSet(lost)
    BY <1>3, <1>8, EvictedAre, LostCounted
  <1> HIDE DEF lost
  <1>10. lost # {}
    BY <1>7, <1>9, FS_EmptySet
  <1>11. PICK p, q \in 1..Len(ms) : LostBetween(ms, packed, p, q)
    BY <1>3, <1>4, <1>10, LostRange DEF lost
  <1>12. /\ p \in lost /\ q \in lost /\ d.from = ms[p].id /\ d.until = ms[q].id
         /\ lost \subseteq p..q \/ 1..(q+1) \subseteq lost
    BY <1>1, <1>3, <1>7, <1>11 DEF LostBetween, lost
  <1>13. messages_between(ms, d.from, d.until) = SubSeq(ms, p, q)
    BY <1>3, <1>12, Between
  <1>14. Len(SubSeq(ms, p, q)) = Cardinality(lost)
    BY <1>1, <1>7, <1>9, <1>13 DEF CanCut
  <1>15. lost = p..q /\ ToSet(SubSeq(ms, p, q)) = {ms[i] : i \in p..q}
    BY <1>3, <1>9, <1>12, <1>14, CutExact
  <1>16. {m.id : m \in ToSet(SubSeq(ms, p, q))} = PickedIds(ms, lost)
    BY <1>15 DEF PickedIds
  <1>17. Evicted(t) = {m.id : m \in ToSet(messages_between(ms, d.from, d.until))}
    BY <1>5, <1>9, <1>13, <1>16
  <1> QED
    BY <1>17 DEF ms, d

\* A summary that was not refused stands for exactly the messages its prompt lost,
\* the question it cut short included (context/summary.py, summarize).
THEOREM SummaryRange == ContextSpec => []SummaryRangeExact
  BY ContextInvariant, RangeHolds, PTL
=============================================================================
