---------------------------- MODULE ToolLoopProofs ----------------------------
(* Theorems about ToolLoop, for every batch a model may ask for, every user   *)
(* and agent, and any number of turns: what the stream decoder makes of a     *)
(* decision, and what a turn and its confirmation node keep to.               *)
EXTENDS ToolLoop, FoldLemmas, FiniteSetTheorems

(***************************** the decoder ********************************)
Names == STRING \cup {"none"}
ArgPart == STRING \X Nat
Lines == [index : Nat, id : Names, tool : Names, args : Seq(ArgPart), read : BOOLEAN]
SlotSet == [id : Names, tool : Names, args : Seq(ArgPart)]
\* What has arrived so far: some of the numbers have a slot.
Slots == UNION {[D -> SlotSet] : D \in {D \in SUBSET Nat : IsFiniteSet(D)}}

\* The step of collect_fragments.
Collect(slots, f) ==
  LET at == slot_for(slots, f)
      old == IF at \in DOMAIN slots THEN slots[at] ELSE Slot("none", "none", <<>>)
      new == Slot(IF f.id # "none" THEN f.id ELSE old.id,
                  IF f.tool # "none" THEN f.tool ELSE old.tool, old.args \o f.args)
  IN IF ~f.read THEN slots
     ELSE [i \in DOMAIN slots \cup {at} |-> IF i = at THEN new ELSE slots[i]]

LEMMA SlotFields ==
  ASSUME NEW id, NEW tool, NEW args
  PROVE  Slot(id, tool, args).id = id /\ Slot(id, tool, args).tool = tool /\ Slot(id, tool, args).args = args
  BY DEF Slot

\* The slot a line goes to, as it was.
Old(slots, at) == IF at \in DOMAIN slots THEN slots[at] ELSE Slot("none", "none", <<>>)

Collects(slots, f, at, next) ==
  /\ DOMAIN next = DOMAIN slots \cup {at}
  /\ \A i \in DOMAIN slots \ {at} : next[i] = slots[i]
  /\ next[at].id = IF f.id # "none" THEN f.id ELSE Old(slots, at).id
  /\ next[at].tool = IF f.tool # "none" THEN f.tool ELSE Old(slots, at).tool
  /\ next[at].args = Old(slots, at).args \o f.args

\* One more line: its slot is the old one, or a fresh one, with the piece added.
LEMMA CollectOne ==
  ASSUME NEW slots \in Slots, NEW f \in Lines
  PROVE  /\ Collect(slots, f) \in Slots
         /\ f.read = TRUE => Collects(slots, f, slot_for(slots, f), Collect(slots, f))
         /\ f.read # TRUE => Collect(slots, f) = slots
         /\ slot_for(slots, f) \in Nat
  <1> DEFINE at == slot_for(slots, f)
             old == Old(slots, at)
             new == Slot(IF f.id # "none" THEN f.id ELSE old.id,
                         IF f.tool # "none" THEN f.tool ELSE old.tool, old.args \o f.args)
             next == [i \in DOMAIN slots \cup {at} |-> IF i = at THEN new ELSE slots[i]]
  <1>1. Collect(slots, f) = IF ~f.read THEN slots ELSE next
    BY DEF Collect, Old
  <1>2. DOMAIN slots \in SUBSET Nat /\ IsFiniteSet(DOMAIN slots) /\ slots \in [DOMAIN slots -> SlotSet]
    BY DEF Slots
  <1>3. at \in Nat
    <2>1. Cardinality(DOMAIN slots) \in Nat
      BY <1>2, FS_CardinalityType
    <2> QED
      BY <2>1 DEF slot_for, Lines
  <1>4. f.read \in BOOLEAN /\ f.id \in Names /\ f.tool \in Names /\ f.args \in Seq(ArgPart)
    BY DEF Lines
  <1> HIDE DEF at
  <1>5. old \in SlotSet
    <2>1. Slot("none", "none", <<>>) \in SlotSet
      BY DEF SlotSet, Slot, Names
    <2> QED
      BY <1>2, <2>1 DEF Old
  <1> HIDE DEF old
  <1>6. old.id \in Names /\ old.tool \in Names /\ old.args \in Seq(ArgPart)
    BY <1>5 DEF SlotSet
  <1>7. old.args \o f.args \in Seq(ArgPart)
    BY <1>4, <1>6
  <1>8. new \in SlotSet
    BY <1>4, <1>6, <1>7 DEF SlotSet, Slot
  <1>9. /\ new.id = IF f.id # "none" THEN f.id ELSE old.id
        /\ new.tool = IF f.tool # "none" THEN f.tool ELSE old.tool
        /\ new.args = old.args \o f.args
    BY DEF Slot
  <1> HIDE DEF new
  <1>10. next \in Slots
    <2>1. DOMAIN slots \cup {at} \in SUBSET Nat /\ IsFiniteSet(DOMAIN slots \cup {at})
      BY <1>2, <1>3, FS_AddElement
    <2>2. next \in [DOMAIN slots \cup {at} -> SlotSet]
      BY <1>2, <1>8
    <2> QED
      BY <2>1, <2>2 DEF Slots
  <1>11. Collects(slots, f, at, next)
    BY <1>9 DEF Collects, old
  <1> HIDE DEF next
  <1> QED
    BY <1>1, <1>3, <1>4, <1>10, <1>11 DEF at

\* A slot that holds nothing but what belongs to the call, and its id with its name.
Owned(slot, call) ==
  /\ slot.args \in Seq(ArgPart) /\ \A k \in DOMAIN slot.args : slot.args[k][1] = call.args
  /\ slot.id \in {"none", call.id}
  /\ slot.tool # "none" => slot.id = call.id /\ slot.tool = call.tool

\* A line of a call: the first names it, and only the first.
LineOf(f, call, first) ==
  /\ f.id = IF first THEN call.id ELSE "none"
  /\ f.tool = IF first THEN call.tool ELSE "none"
  /\ f.args \in Seq(ArgPart) /\ \A k \in DOMAIN f.args : f.args[k][1] = call.args

\* The slot takes the line, and the others stay.
Taken(slots, next, at, call, first) ==
  /\ DOMAIN next = DOMAIN slots \cup {at}
  /\ \A i \in DOMAIN slots \ {at} : next[i] = slots[i]
  /\ Owned(next[at], call)
  /\ at \notin DOMAIN slots /\ ~first => next[at].tool = "none"

LEMMA CollectKeeps ==
  ASSUME NEW slots \in Slots, NEW f \in Lines, f.read = TRUE, NEW call, NEW first \in BOOLEAN,
         LineOf(f, call, first), NEW at, at = slot_for(slots, f),
         at \in DOMAIN slots => Owned(slots[at], call)
  PROVE  Taken(slots, Collect(slots, f), at, call, first)
  <1> DEFINE next == Collect(slots, f)
             old == Old(slots, at)
  <1>1. Collects(slots, f, at, next)
    BY CollectOne
  <1> HIDE DEF next
  <1>2. at \notin DOMAIN slots => old.id = "none" /\ old.tool = "none" /\ old.args = <<>>
    BY SlotFields DEF Old
  <1>3. Owned(old, call)
    <2>1. CASE at \in DOMAIN slots
      BY <2>1 DEF Old
    <2>2. CASE at \notin DOMAIN slots
      <3>1. <<>> \in Seq(ArgPart) /\ DOMAIN <<>> = {}
        OBVIOUS
      <3> HIDE DEF old
      <3> QED
        BY <1>2, <2>2, <3>1 DEF Owned
    <2> QED
      BY <2>1, <2>2
  <1> DEFINE a == old.args
             b == f.args
  <1>4. /\ a \in Seq(ArgPart) /\ b \in Seq(ArgPart)
        /\ \A k \in DOMAIN a : a[k][1] = call.args
        /\ \A k \in DOMAIN b : b[k][1] = call.args
    BY <1>3 DEF Owned, LineOf
  <1>5. next[at].args = a \o b
    BY <1>1 DEF Collects
  <1> HIDE DEF a, b
  <1>6. a \o b \in Seq(ArgPart) /\ \A k \in DOMAIN (a \o b) : (a \o b)[k][1] = call.args
    <2>1. a \o b \in Seq(ArgPart) /\ Len(a) \in Nat /\ Len(b) \in Nat
      BY <1>4
    <2>2. ASSUME NEW k \in DOMAIN (a \o b) PROVE (a \o b)[k][1] = call.args
      <3>1. k \in 1..(Len(a) + Len(b))
        BY <1>4
      <3>2. CASE k <= Len(a)
        <4>1. k \in DOMAIN a /\ (a \o b)[k] = a[k]
          BY <1>4, <3>1, <3>2
        <4> QED
          BY <1>4, <4>1
      <3>3. CASE k > Len(a)
        <4>1. k - Len(a) \in DOMAIN b /\ (a \o b)[k] = b[k - Len(a)]
          BY <1>4, <2>1, <3>1, <3>3
        <4> QED
          BY <1>4, <4>1
      <3> QED
        BY <2>1, <3>1, <3>2, <3>3
    <2> QED
      BY <2>1, <2>2
  <1>7. /\ next[at].id = IF f.id # "none" THEN f.id ELSE old.id
        /\ next[at].tool = IF f.tool # "none" THEN f.tool ELSE old.tool
    BY <1>1 DEF Collects
  <1>8. /\ f.id = IF first THEN call.id ELSE "none"
        /\ f.tool = IF first THEN call.tool ELSE "none"
    BY DEF LineOf
  <1>9. /\ next[at].id \in {"none", call.id}
        /\ next[at].tool # "none" => next[at].id = call.id /\ next[at].tool = call.tool
    <2>1. /\ old.id \in {"none", call.id}
          /\ old.tool # "none" => old.id = call.id /\ old.tool = call.tool
      BY <1>3 DEF Owned
    <2> HIDE DEF old
    <2>2. CASE first = TRUE
      BY <1>7, <1>8, <2>1, <2>2
    <2>3. CASE first = FALSE
      BY <1>7, <1>8, <2>1, <2>3
    <2> QED
      BY <2>2, <2>3
  <1>10. Owned(next[at], call)
    BY <1>5, <1>6, <1>9 DEF Owned
  <1>11. at \notin DOMAIN slots /\ ~first => next[at].tool = "none"
    BY <1>2, <1>7, <1>8
  <1> QED
    BY <1>1, <1>10, <1>11 DEF Collects, next, Taken

\* What the stream of a decision is made of.
IsStream(stream, calls, arrival, indexed) ==
  /\ stream \in Seq(Lines) /\ DOMAIN stream = DOMAIN arrival
  /\ \A k \in DOMAIN stream :
       /\ stream[k].index = IF indexed THEN arrival[k] ELSE 0
       /\ LineOf(stream[k], calls[arrival[k]], ~ \E j \in 1..(k - 1) : arrival[j] = arrival[k])

LEMMA FragmentFields ==
  ASSUME NEW i, NEW id, NEW tool, NEW args, NEW read
  PROVE  LET f == Fragment(i, id, tool, args, read)
         IN f.index = i /\ f.id = id /\ f.tool = tool /\ f.args = args /\ f.read = read
  BY DEF Fragment

LEMMA FragmentsOf ==
  ASSUME NEW calls \in Seq(AskedCall), NEW m \in {1, 4}, NEW arrival \in Arrivals(Len(calls), m),
         NEW read, NEW split \in BOOLEAN, NEW indexed \in BOOLEAN
  PROVE  /\ IsStream(Fragments(calls, arrival, read, split, indexed), calls, arrival, indexed)
         /\ arrival \in [1..(m * Len(calls)) -> 1..Len(calls)] /\ m * Len(calls) \in Nat
  <1> DEFINE n == Len(calls)
             N == m * n
             stream == Fragments(calls, arrival, read, split, indexed)
             before(k) == {j \in 1..(k - 1) : arrival[j] = arrival[k]}
             index(k) == IF indexed THEN arrival[k] ELSE 0
             c(k) == calls[arrival[k]]
             head(k) == IF split THEN <<>> ELSE Parts(c(k).args)
             tail(k) == <<<<c(k).args, Cardinality(before(k))>>>>
             line(k) == IF before(k) = {}
                        THEN Fragment(index(k), c(k).id, c(k).tool, head(k), k \in read)
                        ELSE Fragment(index(k), "none", "none", tail(k), k \in read)
  <1>1. n \in Nat /\ N \in Nat /\ arrival \in [1..N -> 1..n] /\ DOMAIN calls = 1..n
    <2>1. n \in Nat /\ DOMAIN calls = 1..n
      OBVIOUS
    <2>2. 1 * n \in Nat /\ 4 * n \in Nat
      BY <2>1
    <2>3. arrival \in [1..N -> 1..n]
      BY DEF Arrivals
    <2> QED
      BY <2>1, <2>2, <2>3
  <1> HIDE DEF N, n
  <1>2. stream = [k \in 1..N |-> line(k)]
    BY <1>1 DEF Fragments
  <1>3. ASSUME NEW k \in 1..N
        PROVE  /\ line(k) \in Lines /\ line(k).index = index(k)
               /\ LineOf(line(k), calls[arrival[k]], ~ \E j \in 1..(k - 1) : arrival[j] = arrival[k])
    <2>1. /\ k \in Int /\ arrival[k] \in 1..n /\ calls[arrival[k]] \in AskedCall /\ index(k) \in Nat
      BY <1>1
    <2>2. c(k).id \in Names /\ c(k).tool \in Names /\ c(k).args \in STRING
      BY <2>1 DEF AskedCall, Names
    <2>3. Cardinality(before(k)) \in Nat
      <3>0. k - 1 \in Int /\ 1 \in Int /\ before(k) \in SUBSET (1..(k - 1))
        BY <2>1
      <3>1. IsFiniteSet(1..(k - 1))
        <4> HIDE DEF before
        <4> QED
          BY <3>0, FS_Interval
      <3>2. IsFiniteSet(before(k))
        <4> HIDE DEF before
        <4> QED
          BY <3>0, <3>1, FS_Subset
      <3> QED
        BY <3>2, FS_CardinalityType
    <2>4. (before(k) = {}) <=> ~ \E j \in 1..(k - 1) : arrival[j] = arrival[k]
      OBVIOUS
    <2> DEFINE first == before(k) = {}
               x == c(k)
               i == index(k)
               card == Cardinality(before(k))
               h == head(k)
               p == tail(k)
    <2>5. h \in Seq(ArgPart) /\ \A q \in DOMAIN h : h[q][1] = x.args
      <3>1. \A a \in STRING : /\ Parts(a) \in Seq(ArgPart)
                              /\ \A q \in DOMAIN Parts(a) : Parts(a)[q][1] = a
        <4> SUFFICES ASSUME NEW a \in STRING
                     PROVE  Parts(a) \in Seq(ArgPart) /\ \A q \in DOMAIN Parts(a) : Parts(a)[q][1] = a
          OBVIOUS
        <4>1. <<a, 1>> \in ArgPart /\ <<a, 2>> \in ArgPart /\ <<a, 3>> \in ArgPart
          BY DEF ArgPart
        <4> DEFINE p1 == <<a, 1>>
                   p2 == <<a, 2>>
                   p3 == <<a, 3>>
        <4>2. Parts(a) = <<p1, p2, p3>> /\ p1[1] = a /\ p2[1] = a /\ p3[1] = a
          BY DEF Parts
        <4> HIDE DEF p1, p2, p3
        <4>3. p1 \in ArgPart /\ p2 \in ArgPart /\ p3 \in ArgPart
          BY <4>1 DEF p1, p2, p3
        <4> DEFINE P == <<p1, p2, p3>>
        <4>4. P \in Seq(ArgPart)
          BY <4>3
        <4>5. DOMAIN P = {1, 2, 3} /\ P[1] = p1 /\ P[2] = p2 /\ P[3] = p3
          BY <4>4
        <4>6. Parts(a) = P /\ p1[1] = a /\ p2[1] = a /\ p3[1] = a
          BY <4>2
        <4> HIDE DEF P
        <4> QED
          BY <4>4, <4>5, <4>6
      <3>2. <<>> \in Seq(ArgPart) /\ DOMAIN <<>> = {}
        OBVIOUS
      <3>3. h = IF split THEN <<>> ELSE Parts(x.args)
        OBVIOUS
      <3>4. x.args \in STRING
        BY <2>2
      <3> HIDE DEF h, x
      <3>5. CASE split
        <4>1. h = <<>>
          BY <3>3, <3>5
        <4> HIDE DEF h
        <4> QED
          BY <3>2, <4>1
      <3>6. CASE ~split
        BY <3>1, <3>3, <3>4, <3>6
      <3> QED
        BY <3>5, <3>6
    <2>6. p \in Seq(ArgPart) /\ \A q \in DOMAIN p : p[q][1] = x.args
      <3> HIDE DEF x, card
      <3>1. <<x.args, card>> \in ArgPart
        BY <2>2, <2>3 DEF ArgPart, x, card
      <3>2. p = <<<<x.args, card>>>>
        BY DEF x, card
      <3> HIDE DEF p
      <3> QED
        BY <3>1, <3>2
    <2>7. (k \in read) \in BOOLEAN
      OBVIOUS
    <2> DEFINE l == line(k)
               rd == k \in read
    <2>8. CASE first
      <3>1. l = Fragment(i, x.id, x.tool, h, rd)
        BY <2>8
      <3> HIDE DEF l, x, h, first, i, rd
      <3>2. l.index = i /\ l.id = x.id /\ l.tool = x.tool /\ l.args = h /\ l.read = rd
        BY <3>1, FragmentFields
      <3>3. l \in Lines
        BY <2>1, <2>2, <2>5, <2>7, <3>1 DEF Lines, Fragment, i, x, rd
      <3>4. LineOf(l, x, TRUE)
        BY <2>5, <3>2 DEF LineOf
      <3>5. ~ \E j \in 1..(k - 1) : arrival[j] = arrival[k]
        BY <2>4, <2>8 DEF first
      <3> QED
        BY <3>2, <3>3, <3>4, <3>5 DEF l, x, i
    <2>9. CASE ~first
      <3>1. l = Fragment(i, "none", "none", p, rd)
        BY <2>9
      <3> HIDE DEF l, x, p, first, i, rd
      <3>2. l.index = i /\ l.id = "none" /\ l.tool = "none" /\ l.args = p /\ l.read = rd
        BY <3>1, FragmentFields
      <3>3. l \in Lines
        <4>1. "none" \in Names
          BY DEF Names
        <4> QED
          BY <2>1, <2>6, <2>7, <3>1, <4>1 DEF Lines, Fragment, i, rd
      <3>4. LineOf(l, x, FALSE)
        BY <2>6, <3>2 DEF LineOf
      <3>5. \E j \in 1..(k - 1) : arrival[j] = arrival[k]
        BY <2>4, <2>9 DEF first
      <3> QED
        BY <3>2, <3>3, <3>4, <3>5 DEF l, x, i
    <2> QED
      BY <2>8, <2>9
  <1> HIDE DEF line, index
  <1>4. stream \in Seq(Lines) /\ DOMAIN stream = 1..N /\ \A k \in 1..N : stream[k] = line(k)
    BY <1>1, <1>2, <1>3
  <1>5. DOMAIN arrival = 1..N
    BY <1>1
  <1>6. \A k \in 1..N : index(k) = IF indexed THEN arrival[k] ELSE 0
    BY DEF index
  <1> HIDE DEF stream
  <1>7. IsStream(stream, calls, arrival, indexed)
    BY <1>3, <1>4, <1>5, <1>6 DEF IsStream
  <1> QED
    BY <1>1, <1>7 DEF stream, N, n
LEMMA NoSlots == <<>> \in Slots
  <1>1. {} \in SUBSET Nat /\ IsFiniteSet({}) /\ <<>> \in [{} -> SlotSet]
    BY FS_EmptySet
  <1> QED
    BY <1>1 DEF Slots

\* The slots after k lines, and what the decoder returns.
Collected(stream, h) ==
  /\ h[0] = <<>>
  /\ \A k \in 0..(Len(stream) - 1) : h[k + 1] = Collect(h[k], stream[k + 1])
  /\ collect_fragments(stream) = h[Len(stream)]

LEMMA CollectFold ==
  ASSUME NEW stream \in Seq(Lines)
  PROVE  \E h \in [0..Len(stream) -> Slots] : Collected(stream, h)
  <1> DEFINE n == Len(stream)
             S == Slots
             G == [x \in S \X (1..n) |-> Collect(x[1], stream[x[2]])]
             iter == CHOOSE iter : iter = [s \in SUBSET DOMAIN stream |->
                        IF s = {} THEN <<>> ELSE Collect(iter[s \ {Max(s)}], stream[Max(s)])]
  <1>1. n \in Nat /\ DOMAIN stream = 1..n /\ \A k \in 1..n : stream[k] \in Lines
    OBVIOUS
  <1>2. collect_fragments(stream) = iter[DOMAIN stream]
    BY DEF collect_fragments, FoldLeft, MapThenFoldSet, Collect
  <1>3. PICK g \in [SUBSET (1..n) -> S] : Folds(g, n, <<>>, G)
    <2>1. G \in [S \X (1..n) -> S]
      BY <1>1, CollectOne
    <2>2. <<>> \in S
      BY NoSlots
    <2> HIDE DEF G, S
    <2> QED
      BY <1>1, <2>1, <2>2, FoldExists
  <1>4. ASSUME NEW s \in SUBSET (1..n), s # {}
        PROVE  g[s] = Collect(g[s \ {Max(s)}], stream[Max(s)])
    <2>1. Max(s) \in 1..n /\ g[s \ {Max(s)}] \in S
      BY <1>1, <1>4, MaxOf
    <2>2. g[s] = G[<<g[s \ {Max(s)}], Max(s)>>]
      BY <1>3, <1>4 DEF Folds
    <2> QED
      BY <2>1, <2>2
  <1>5. g = [s \in SUBSET DOMAIN stream |->
               IF s = {} THEN <<>> ELSE Collect(g[s \ {Max(s)}], stream[Max(s)])]
    BY <1>1, <1>3, <1>4 DEF Folds
  <1>6. iter = [s \in SUBSET DOMAIN stream |->
                  IF s = {} THEN <<>> ELSE Collect(iter[s \ {Max(s)}], stream[Max(s)])]
    BY <1>5
  <1> HIDE DEF iter
  <1> DEFINE h == [k \in 0..n |-> iter[1..k]]
  <1>7. h[0] = <<>>
    <2>1. 1..0 = {} /\ {} \in SUBSET DOMAIN stream
      OBVIOUS
    <2> QED
      BY <1>1, <1>6, <2>1
  <1>8. ASSUME NEW k \in 0..(n - 1) PROVE h[k + 1] = Collect(h[k], stream[k + 1])
    <2>1. 1..(k + 1) \in SUBSET DOMAIN stream
      BY <1>1
    <2>2. iter[1..(k + 1)] = Collect(iter[1..k], stream[k + 1])
      <3>1. k \in Nat
        BY <1>1
      <3>2. /\ 1..(k + 1) # {} /\ Max(1..(k + 1)) = k + 1
            /\ (1..(k + 1)) \ {Max(1..(k + 1))} = 1..k
        BY <3>1, NextPosition
      <3> QED
        BY <1>6, <2>1, <3>2
    <2> QED
      BY <1>1, <2>2
  <1>9. h \in [0..n -> S]
    <2> DEFINE T == {k \in 0..n : h[k] \in S}
    <2>1. 0 \in T
      <3>1. <<>> \in S
        BY NoSlots
      <3> QED
        BY <1>1, <1>7, <3>1
    <2>2. ASSUME NEW k \in 0..(n - 1), h[k] \in S PROVE h[k + 1] \in S
      <3>1. stream[k + 1] \in Lines
        BY <1>1
      <3>2. Collect(h[k], stream[k + 1]) \in Slots
        <4> HIDE DEF h
        <4> QED
          BY <2>2, <3>1, CollectOne
      <3> HIDE DEF h
      <3> QED
        BY <1>8, <3>2
    <2>5. \A k \in 0..(n - 1) : k \in T => k + 1 \in T
      <3> HIDE DEF h
      <3> QED
        BY <1>1, <2>2
    <2>3. 0..n \subseteq T
      <3> HIDE DEF T
      <3> QED
        BY <1>1, <2>1, <2>5, Induction
    <2>4. DOMAIN h = 0..n /\ h = [k \in 0..n |-> h[k]]
      OBVIOUS
    <2> HIDE DEF h
    <2> QED
      BY <2>3, <2>4
  <1>10. collect_fragments(stream) = h[n]
    BY <1>1, <1>2
  <1> HIDE DEF h
  <1> QED
    BY <1>7, <1>8, <1>9, <1>10 DEF Collected


\* What k lines of a stream leave: who each slot belongs to.
Holds(slots, w, calls, arrival, indexed, k) ==
  /\ w \in [DOMAIN slots -> 1..Len(calls)]
  /\ \A i \in DOMAIN slots : Owned(slots[i], calls[w[i]])
  /\ indexed => \A i \in DOMAIN slots : w[i] = i
  /\ \A i, j \in DOMAIN slots :
       slots[i].tool # "none" /\ slots[j].tool # "none" /\ w[i] = w[j] => i = j
  /\ ~indexed => \E c \in 0..k : DOMAIN slots = 1..c
  /\ ~indexed => \A i \in DOMAIN slots :
       slots[i].tool # "none" => \E j \in 1..k : arrival[j] = w[i]

LEMMA HoldsOn ==
  ASSUME NEW stream, NEW calls \in Seq(AskedCall), NEW N \in Nat, NEW indexed \in BOOLEAN,
         NEW arrival \in [1..N -> 1..Len(calls)], IsStream(stream, calls, arrival, indexed),
         NEW k \in 0..(N - 1), NEW slots \in Slots, NEW w,
         Holds(slots, w, calls, arrival, indexed, k)
  PROVE  \E v : Holds(Collect(slots, stream[k + 1]), v, calls, arrival, indexed, k + 1)
  <1> DEFINE n == Len(calls)
             f == stream[k + 1]
             a == arrival[k + 1]
             at == slot_for(slots, f)
             next == Collect(slots, f)
             first == ~ \E j \in 1..k : arrival[j] = a
  <1>1. n \in Nat /\ k \in Nat /\ k + 1 \in 1..N /\ (k + 1) - 1 = k /\ a \in 1..n
    OBVIOUS
  <1>2. /\ f \in Lines /\ f.index = IF indexed THEN a ELSE 0
        /\ LineOf(f, calls[a], first)
    <2>1. stream \in Seq(Lines) /\ DOMAIN stream = 1..N /\ k + 1 \in DOMAIN stream
      BY <1>1 DEF IsStream
    <2>2. f \in Lines
      BY <2>1
    <2>3. /\ f.index = IF indexed THEN a ELSE 0
          /\ LineOf(f, calls[a], ~ \E j \in 1..((k + 1) - 1) : arrival[j] = a)
      BY <2>1 DEF IsStream
    <2>4. LineOf(f, calls[a], first)
      BY <1>1, <2>3
    <2> QED
      BY <2>2, <2>3, <2>4
  <1>3. f.read \in BOOLEAN /\ at \in Nat /\ first \in BOOLEAN
    BY <1>2, CollectOne DEF Lines
  <1> HIDE DEF f, a, n
  <1>4. CASE f.read = FALSE
    <2>1. next = slots
      BY <1>2, <1>4, CollectOne
    <2>2. \A c \in 0..k : c \in 0..(k + 1)
      BY <1>1
    <2>3. \A j \in 1..k : j \in 1..(k + 1)
      BY <1>1
    <2>4. Holds(slots, w, calls, arrival, indexed, k + 1)
      BY <2>2, <2>3 DEF Holds
    <2> QED
      BY <2>1, <2>4 DEF f
  <1>5. CASE f.read = TRUE
    <2> DEFINE v == [i \in DOMAIN slots \cup {at} |-> IF i = at THEN a ELSE w[i]]
    <2> HIDE DEF first, next
    <2>0. at = slot_for(slots, f) /\ next = Collect(slots, f)
      BY DEF next
    <2>5. ASSUME at \in DOMAIN slots => Owned(slots[at], calls[a])
          PROVE  /\ DOMAIN next = DOMAIN slots \cup {at}
                 /\ \A i \in DOMAIN slots \ {at} : next[i] = slots[i]
                 /\ Owned(next[at], calls[a])
                 /\ at \notin DOMAIN slots /\ ~first => next[at].tool = "none"
      <3> HIDE DEF at
      <3> DEFINE call == calls[a]
      <3>1. f \in Lines /\ LineOf(f, call, first) /\ first \in BOOLEAN /\ f.read = TRUE
        BY <1>2, <1>3, <1>5
      <3>2. at \in DOMAIN slots => Owned(slots[at], call)
        BY <2>5
      <3> HIDE DEF call
      <3>3. Taken(slots, Collect(slots, f), at, call, first)
        BY <2>0, <3>1, <3>2, CollectKeeps
      <3> QED
        BY <2>0, <3>3 DEF call, Taken
    <2>1. /\ w \in [DOMAIN slots -> 1..n]
          /\ \A i \in DOMAIN slots : Owned(slots[i], calls[w[i]])
      BY DEF Holds, n
    <2>2. CASE indexed
      <3>1. at = a
        BY <1>1, <1>2, <2>2 DEF slot_for
      <3>2. \A i \in DOMAIN slots : w[i] = i
        BY <2>2 DEF Holds
      <3> HIDE DEF at
      <3>3. at \in DOMAIN slots => Owned(slots[at], calls[a])
        BY <2>1, <3>1, <3>2
      <3>4. /\ DOMAIN next = DOMAIN slots \cup {at}
            /\ \A i \in DOMAIN slots \ {at} : next[i] = slots[i]
            /\ Owned(next[at], calls[a])
        BY <2>5, <3>3
      <3>5. v \in [DOMAIN next -> 1..n] /\ \A i \in DOMAIN next : v[i] = i
        BY <1>1, <2>1, <3>1, <3>2, <3>4
      <3>6. \A i \in DOMAIN next : Owned(next[i], calls[v[i]])
        <4> SUFFICES ASSUME NEW i \in DOMAIN next PROVE Owned(next[i], calls[v[i]])
          OBVIOUS
        <4>1. CASE i = at
          BY <3>1, <3>4, <3>5, <4>1
        <4>2. CASE i # at
          BY <2>1, <3>2, <3>4, <3>5, <4>2
        <4> QED
          BY <4>1, <4>2
      <3> HIDE DEF v
      <3>7. Holds(next, v, calls, arrival, indexed, k + 1)
        BY <2>2, <3>5, <3>6 DEF Holds, n
      <3> QED
        BY <3>7 DEF next, f
    <2>3. CASE ~indexed
      <3>1. PICK c \in 0..k : DOMAIN slots = 1..c
        BY <2>3 DEF Holds
      <3>2. at = c + 1 /\ c \in Nat
        <4>1. c \in Nat /\ Cardinality(1..c) = c
          BY <1>1, HowManyPositions
        <4> QED
          BY <1>2, <2>3, <3>1, <4>1 DEF slot_for
      <3> HIDE DEF at
      <3>3. at \notin DOMAIN slots
        BY <3>1, <3>2
      <3>4. /\ DOMAIN next = DOMAIN slots \cup {at}
            /\ \A i \in DOMAIN slots \ {at} : next[i] = slots[i]
            /\ Owned(next[at], calls[a])
            /\ ~first => next[at].tool = "none"
        BY <2>5, <3>3
      <3>5. DOMAIN next = 1..(c + 1) /\ c + 1 \in 0..(k + 1)
        BY <1>1, <3>1, <3>2, <3>4
      <3>6. /\ v \in [DOMAIN next -> 1..n] /\ v[at] = a
            /\ \A i \in DOMAIN slots : v[i] = w[i] /\ next[i] = slots[i] /\ i # at
        BY <1>1, <2>1, <3>3, <3>4
      <3> HIDE DEF v
      <3>7. \A i \in DOMAIN next : Owned(next[i], calls[v[i]])
        BY <2>1, <3>4, <3>6
      <3>8. \A i \in DOMAIN slots : slots[i].tool # "none" => \E j \in 1..k : arrival[j] = w[i]
        BY <2>3 DEF Holds
      <3>9. \A i \in DOMAIN slots :
              slots[i].tool # "none" /\ next[at].tool # "none" => w[i] # a
        BY <3>4, <3>8 DEF first
      <3>10. \A i, j \in DOMAIN slots :
               slots[i].tool # "none" /\ slots[j].tool # "none" /\ w[i] = w[j] => i = j
        BY DEF Holds
      <3>11. \A i, j \in DOMAIN next :
               next[i].tool # "none" /\ next[j].tool # "none" /\ v[i] = v[j] => i = j
        BY <3>4, <3>6, <3>9, <3>10
      <3>12. \A i \in DOMAIN next : next[i].tool # "none" => \E j \in 1..(k + 1) : arrival[j] = v[i]
        <4>1. k + 1 \in 1..(k + 1) /\ arrival[k + 1] = a
          BY <1>1 DEF a
        <4>2. \A j \in 1..k : j \in 1..(k + 1)
          BY <1>1
        <4> QED
          BY <3>4, <3>6, <3>8, <4>1, <4>2
      <3>13. Holds(next, v, calls, arrival, indexed, k + 1)
        BY <2>3, <3>5, <3>6, <3>7, <3>11, <3>12 DEF Holds, n
      <3> QED
        BY <3>13 DEF next, f
    <2> QED
      BY <2>2, <2>3
  <1> QED
    BY <1>3, <1>4, <1>5


\* A call that is run for one the model asked for, and where that one stands.
Run(call, asked) == /\ call.id = asked.id /\ call.tool = asked.tool
                    /\ call.args \in {asked.args, "none", "cut"}

LEMMA RunOf ==
  ASSUME NEW slot, NEW asked, Owned(slot, asked), slot.tool # "none", parsable(slot)
  PROVE  Run([id |-> slot.id, tool |-> slot.tool, args |-> arguments(slot)], asked)
  <1>1. slot.id = asked.id /\ slot.tool = asked.tool
    BY DEF Owned
  <1> DEFINE args == slot.args
  <1>2. args \in Seq(ArgPart) /\ \A k \in DOMAIN args : args[k][1] = asked.args
    BY DEF Owned
  <1>3. args # <<>> => args[1][1] = asked.args
    <2> HIDE DEF args
    <2> QED
      BY <1>2
  <1>4. args = <<>> \/ whole(args) \/ holed(args)
    BY DEF parsable
  <1>5. ~(whole(args) /\ holed(args)) /\ ~(args = <<>> /\ (whole(args) \/ holed(args)))
    <2>1. ASSUME whole(args), holed(args) PROVE FALSE
      <3>1. Len(args) = 3 /\ Len(args) = 2
        BY <2>1 DEF whole, holed, Parts
      <3> QED
        BY <3>1
    <2> QED
      BY <2>1 DEF whole, holed
  <1>6. arguments(slot) \in {asked.args, "none", "cut"}
    BY <1>3, <1>4, <1>5 DEF arguments
  <1> QED
    BY <1>1, <1>6 DEF Run

\* The calls of one message have ids of their own.
IdsApart(calls) == \A i, j \in DOMAIN calls : calls[i].id = calls[j].id => i = j

IsSeq(s) == s \in Seq(ToSet(s))

LEMMA FunctionIsSeq ==
  ASSUME NEW n \in Nat, NEW s, DOMAIN s = 1..n, s = [i \in 1..n |-> s[i]]
  PROVE  IsSeq(s) /\ Len(s) = n
  <1>1. s \in [1..n -> ToSet(s)]
    BY DEF ToSet
  <1> QED
    BY <1>1 DEF IsSeq

\* Of each call of a message at most one is run, for that one and for no other.
RunsOf(decoded, calls) ==
  /\ IsSeq(decoded) /\ Len(decoded) <= Len(calls)
  /\ \E w \in [DOMAIN decoded -> DOMAIN calls] :
       /\ \A i \in DOMAIN decoded : Run(decoded[i], calls[w[i]])
       /\ \A i, j \in DOMAIN decoded : w[i] = w[j] => i = j

LEMMA RunsApart ==
  ASSUME NEW decoded, NEW calls, RunsOf(decoded, calls), IdsApart(calls)
  PROVE  IdsApart(decoded)
  BY DEF RunsOf, IdsApart, Run

\* What the decoder returns of slots that hold what belongs to the calls.
LEMMA TurnOfSlots ==
  ASSUME NEW calls \in Seq(AskedCall), NEW M \in Nat, NEW slots, DOMAIN slots \subseteq 1..M,
         NEW w \in [DOMAIN slots -> 1..Len(calls)],
         \A i \in DOMAIN slots : Owned(slots[i], calls[w[i]]),
         \A i, j \in DOMAIN slots :
           slots[i].tool # "none" /\ slots[j].tool # "none" /\ w[i] = w[j] => i = j
  PROVE  RunsOf(turn_from_fragments(slots), calls)
  <1> DEFINE n == Len(calls)
             decoded == turn_from_fragments(slots)
             usable == {i \in DOMAIN slots : slots[i].tool # "none" /\ parsable(slots[i])}
             chosen(k) == CHOOSE i \in usable : Cardinality({j \in usable : j < i}) = k - 1
             call(i) == [id |-> slots[i].id, tool |-> slots[i].tool, args |-> arguments(slots[i])]
             card == Cardinality(usable)
             v == [k \in 1..card |-> w[chosen(k)]]
             back == [i \in usable |-> w[i]]
  <1>1. n \in Nat /\ DOMAIN calls = 1..n
    OBVIOUS
  <1>2. decoded = [k \in 1..card |-> call(chosen(k))]
    BY DEF turn_from_fragments
  <1>3. usable \in SUBSET (1..M) /\ usable \in SUBSET DOMAIN slots
    OBVIOUS
  <1>4. \A i \in usable : Run(call(i), calls[w[i]]) /\ w[i] \in 1..n
    BY RunOf
  <1>5. \A i, j \in usable : w[i] = w[j] => i = j
    OBVIOUS
  <1> HIDE DEF usable, call, n, decoded
  <1>6. /\ card \in Nat /\ IsFiniteSet(usable)
        /\ \A k \in 1..card : \E i \in usable : Cardinality({j \in usable : j < i}) = k - 1
    BY <1>3, Ranks
  <1>7. ASSUME NEW k \in 1..card
        PROVE  chosen(k) \in usable /\ Cardinality({j \in usable : j < chosen(k)}) = k - 1
    <2> HIDE DEF card
    <2>1. \E i \in usable : Cardinality({j \in usable : j < i}) = k - 1
      BY <1>6
    <2> QED
      BY <2>1
  <1> HIDE DEF card, chosen
  <1>8. \A k, l \in 1..card : chosen(k) = chosen(l) => k = l
    <2> SUFFICES ASSUME NEW k \in 1..card, NEW l \in 1..card, chosen(k) = chosen(l)
                 PROVE  k = l
      OBVIOUS
    <2>1. k - 1 = l - 1
      BY <1>7
    <2>2. k \in Int /\ l \in Int
      BY <1>6
    <2> QED
      BY <2>1, <2>2
  <1>9. card <= n
    <2>1. IsFiniteSet(1..n) /\ Cardinality(1..n) = n
      BY <1>1, HowManyPositions
    <2>2. back \in Injection(usable, 1..n)
      <3>1. back \in [usable -> 1..n] /\ \A i, j \in usable : back[i] = back[j] => i = j
        BY <1>4, <1>5
      <3> HIDE DEF back
      <3> QED
        BY <3>1 DEF Injection, IsInjective
    <2>3. card <= Cardinality(1..n)
      BY <2>1, <2>2, FS_Injection DEF card
    <2> QED
      BY <2>1, <2>3
  <1>10. DOMAIN decoded = 1..card /\ decoded = [k \in 1..card |-> decoded[k]]
    BY <1>2
  <1>11. IsSeq(decoded) /\ Len(decoded) = card
    BY <1>6, <1>10, FunctionIsSeq
  <1>12. v \in [DOMAIN decoded -> DOMAIN calls]
    BY <1>1, <1>4, <1>7, <1>10
  <1>13. \A i \in DOMAIN decoded : Run(decoded[i], calls[v[i]])
    BY <1>2, <1>4, <1>7, <1>10
  <1>14. \A i, j \in DOMAIN decoded : v[i] = v[j] => i = j
    BY <1>5, <1>7, <1>8, <1>10
  <1> HIDE DEF v
  <1> QED
    BY <1>9, <1>11, <1>12, <1>13, <1>14 DEF RunsOf, n, decoded

\* Whatever arrives of a message, and however it is numbered.
LEMMA DecodedCalls ==
  ASSUME NEW calls \in Seq(AskedCall), NEW decoded \in Decoded(calls)
  PROVE  RunsOf(decoded, calls)
  <1> DEFINE n == Len(calls)
  <1>1. PICK m \in {1, 4}, indexed \in BOOLEAN :
          decoded \in {turn_from_fragments(collect_fragments(Fragments(calls, arrival, read, m > 1, indexed))) :
                         arrival \in Arrivals(n, m), read \in LinesRead(m * n)}
    BY DEF Decoded
  <1>2. PICK arrival \in Arrivals(n, m), read \in LinesRead(m * n) :
          decoded = turn_from_fragments(collect_fragments(Fragments(calls, arrival, read, m > 1, indexed)))
    BY <1>1
  <1> DEFINE N == m * n
             split == m > 1
             stream == Fragments(calls, arrival, read, split, indexed)
  <1>3. split \in BOOLEAN
    OBVIOUS
  <1> HIDE DEF split
  <1>4. /\ IsStream(stream, calls, arrival, indexed)
        /\ arrival \in [1..N -> 1..n] /\ N \in Nat
    BY <1>3, FragmentsOf
  <1>5. decoded = turn_from_fragments(collect_fragments(stream))
    BY <1>2 DEF split
  <1>6. n \in Nat
    OBVIOUS
  <1> HIDE DEF stream, N
  <1>7. stream \in Seq(Lines) /\ Len(stream) = N
    BY <1>4 DEF IsStream
  <1>8. PICK h \in [0..N -> Slots] : Collected(stream, h)
    BY <1>7, CollectFold
  <1> DEFINE Good(k) == \E w : Holds(h[k], w, calls, arrival, indexed, k)
             T == {k \in 0..N : Good(k)}
  <1>9. Good(0)
    <2>1. h[0] = <<>> /\ DOMAIN <<>> = {} /\ 1..0 = {} /\ 0 \in 0..0
      BY <1>8 DEF Collected
    <2>2. Holds(h[0], <<>>, calls, arrival, indexed, 0)
      BY <2>1 DEF Holds
    <2> QED
      BY <2>2
  <1>10. ASSUME NEW k \in 0..(N - 1), Good(k) PROVE Good(k + 1)
    <2>1. PICK w : Holds(h[k], w, calls, arrival, indexed, k)
      BY <1>10
    <2>2. h[k] \in Slots /\ h[k + 1] = Collect(h[k], stream[k + 1])
      BY <1>4, <1>7, <1>8 DEF Collected
    <2>3. \E v : Holds(Collect(h[k], stream[k + 1]), v, calls, arrival, indexed, k + 1)
      BY <1>4, <2>1, <2>2, HoldsOn DEF n
    <2> QED
      BY <2>2, <2>3
  <1>11. Good(N)
    <2>1. 0 \in T /\ \A k \in 0..(N - 1) : k \in T => k + 1 \in T
      <3> HIDE DEF Good
      <3> QED
        BY <1>4, <1>9, <1>10
    <2>2. 0..N \subseteq T
      <3> HIDE DEF T
      <3> QED
        BY <1>4, <2>1, Induction
    <2> HIDE DEF Good
    <2> QED
      BY <1>4, <2>2
  <1> DEFINE slots == h[N]
  <1>12. PICK w : Holds(slots, w, calls, arrival, indexed, N)
    BY <1>11
  <1>13. collect_fragments(stream) = slots
    BY <1>7, <1>8 DEF Collected
  <1> HIDE DEF slots
  <1>14. DOMAIN slots \subseteq 1..(n + N) /\ n + N \in Nat
    <2>1. CASE indexed
      BY <1>4, <1>6, <1>12, <2>1 DEF Holds
    <2>2. CASE ~indexed
      <3>1. PICK c \in 0..N : DOMAIN slots = 1..c
        BY <1>12, <2>2 DEF Holds
      <3> QED
        BY <1>4, <1>6, <3>1
    <2> QED
      BY <2>1, <2>2
  <1>15. RunsOf(turn_from_fragments(slots), calls)
    BY <1>12, <1>14, TurnOfSlots DEF Holds
  <1> QED
    BY <1>5, <1>13, <1>15

(***************************** a turn *************************************)
Fields == {"pc", "mode", "stop", "rounds", "budget", "tokens", "withdrawn", "seen", "calls",
           "state", "outcome", "results", "asked", "replies", "pending", "found", "shown",
           "verdict", "begun", "attempts", "replays"}

Shape(u) ==
  /\ DOMAIN u = Fields
  /\ u.pc \in {"ask", "batch", "over", "confirm", "execute", "clarify", "answer"}
  /\ u.mode \in {"rule-based", "model", "rules"}
  /\ u.rounds \in 0..MaxRounds /\ u.budget \in 0..MaxToolCalls /\ u.begun \in Nat
  /\ IsSeq(u.calls) /\ IsSeq(u.pending) /\ IsSeq(u.results) /\ IsSeq(u.attempts)
  /\ u.state \in [DOMAIN u.calls -> {"new", "sent", "done"}]
  /\ u.found \in 0..Len(u.results)

\* What a turn holds at each place of the graph.
Lifecycle(u) ==
  /\ u.pc \notin {"batch", "execute"} => u.calls = <<>>
  /\ u.pc = "execute" => /\ u.calls = u.pending /\ Sent(u) = {}
                         /\ u.shown = {fingerprint(u.pending[i]) : i \in DOMAIN u.pending}
  /\ u.pc # "execute" => u.verdict = "none"
  /\ u.pc = "ask" => u.pending = <<>>

\* Nothing is said to have had no effect that may have had one, but a lost reply.
Honest(r) ==
  writes(r.call.tool) /\ MayApply(r.answer) /\ r.code \notin UNKNOWN_EFFECT_CODES \cup {"none"}
    => r.answer = "lost"

\* With confirmation on: no write is on its way, one that was carried out was
\* approved, and what is said of it is honest.
Guarded(u, confirm) ==
  confirm =>
    /\ \A i \in Sent(u) : ~writes(u.calls[i].tool)
    /\ \A k \in Executed(u) : writes(u.results[k].call.tool)
         => u.verdict = "approved" /\ fingerprint(u.results[k].call) \in u.shown
    /\ \A k \in DOMAIN u.results : Honest(u.results[k])

\* What was sent, carried out or put aside was claimed, each call once.
Claimed(u) ==
  /\ \A i \in Sent(u) : fingerprint(u.calls[i]) \in u.seen
  /\ \A k \in Executed(u) : fingerprint(u.results[k].call) \in u.seen
  /\ \A i \in DOMAIN u.pending : fingerprint(u.pending[i]) \in u.seen
Distinct(u) ==
  /\ \A i, j \in Sent(u) : fingerprint(u.calls[i]) = fingerprint(u.calls[j]) => i = j
  /\ \A k, l \in Executed(u) :
       fingerprint(u.results[k].call) = fingerprint(u.results[l].call) => k = l
  /\ \A i \in Sent(u), k \in Executed(u) :
       fingerprint(u.calls[i]) # fingerprint(u.results[k].call)
\* A call put aside waits: until it has run, nothing else runs in its place.
Aside(u) ==
  /\ \A i, j \in DOMAIN u.pending : fingerprint(u.pending[i]) = fingerprint(u.pending[j]) => i = j
  /\ \A i \in DOMAIN u.pending, j \in Sent(u) : fingerprint(u.pending[i]) # fingerprint(u.calls[j])
  /\ \A i \in DOMAIN u.pending, k \in Executed(u) :
       u.pc # "execute" \/ k <= u.found \/ u.state[i] = "new"
         => fingerprint(u.pending[i]) # fingerprint(u.results[k].call)

\* What the ledger says of the attempts: one that succeeded has its row there, one
\* that another follows is over, and nothing like any of them is on its way.
Recorded(u, rows) ==
  /\ \A a \in DOMAIN u.attempts :
       /\ u.attempts[a].call \in u.seen
       /\ u.attempts[a].row \in {"started", "stale", "failed", "succeeded"}
       /\ u.attempts[a].row = "succeeded" => \E row \in rows : row.call = u.attempts[a].call
  /\ \A a, b \in DOMAIN u.attempts :
       a < b /\ u.attempts[a].call = u.attempts[b].call => u.attempts[a].row \in {"failed", "stale"}
  /\ \A a \in DOMAIN u.attempts, i \in Sent(u) : u.attempts[a].call # fingerprint(u.calls[i])

\* Every call a turn may still begin has its place in the budget.
New(u) == {i \in DOMAIN u.state : u.state[i] = "new"}
Budgeted(u) ==
  /\ u.pc \in {"ask", "over"} => u.begun + Len(u.pending) + u.budget <= MaxToolCalls
  /\ u.pc = "batch" =>
       u.begun + Len(u.pending) + u.budget + Cardinality(New(u)) <= MaxToolCalls
  /\ u.begun + Len(u.pending) <= MaxToolCalls

AskedFor(call) == \E calls \in Batches : \E asked \in ToSet(calls) : Run(call, asked)
Whole(u) == u.mode = "model" => /\ \A i \in DOMAIN u.calls : AskedFor(u.calls[i])
                                /\ \A i \in DOMAIN u.pending : AskedFor(u.pending[i])

TurnInv(u, confirm, rows) ==
  /\ Shape(u) /\ Lifecycle(u) /\ Guarded(u, confirm) /\ Claimed(u) /\ Distinct(u) /\ Aside(u)
  /\ Recorded(u, rows) /\ Budgeted(u) /\ Whole(u)
LoopInv == \A t \in Turns : TurnInv(turn[t], settings.confirm, ledger[t])

\* v is u with other values in the fields of S.
Keeps(u, v, S) == DOMAIN v = Fields /\ \A x \in Fields \ S : v[x] = u[x]

LEMMA SeqFacts ==
  ASSUME NEW s, IsSeq(s)
  PROVE  Len(s) \in Nat /\ DOMAIN s = 1..Len(s)
  BY DEF IsSeq

LEMMA EmptyIsSeq == IsSeq(<<>>) /\ DOMAIN <<>> = {} /\ Len(<<>>) = 0
  <1>1. <<>> \in Seq(ToSet(<<>>))
    OBVIOUS
  <1> QED
    BY <1>1 DEF IsSeq

\* a is s with x at its end.
Extends(a, s, x) ==
  /\ IsSeq(a) /\ Len(s) \in Nat /\ Len(a) = Len(s) + 1
  /\ DOMAIN a = DOMAIN s \cup {Len(s) + 1} /\ Len(s) + 1 \notin DOMAIN s
  /\ \A k \in DOMAIN s : a[k] = s[k] /\ k < Len(s) + 1
  /\ a[Len(s) + 1] = x

LEMMA AppendFacts ==
  ASSUME NEW s, IsSeq(s), NEW x
  PROVE  Extends(Append(s, x), s, x)
  <1> DEFINE X == ToSet(s) \cup {x}
             a == Append(s, x)
  <1>1. s \in Seq(X) /\ Len(s) \in Nat /\ DOMAIN s = 1..Len(s)
    <2>1. s \in Seq(ToSet(s)) /\ ToSet(s) \subseteq X
      BY DEF IsSeq
    <2> HIDE DEF X
    <2> QED
      BY <2>1
  <1>2. x \in X
    OBVIOUS
  <1> HIDE DEF X
  <1>3. /\ a \in Seq(X) /\ Len(a) = Len(s) + 1 /\ DOMAIN a = 1..(Len(s) + 1)
        /\ \A k \in 1..Len(s) : a[k] = s[k]
        /\ a[Len(s) + 1] = x
    BY <1>1, <1>2
  <1> HIDE DEF a
  <1>4. IsSeq(a)
    <2>1. Len(s) + 1 \in Nat /\ a = [i \in 1..(Len(s) + 1) |-> a[i]]
      BY <1>1, <1>3
    <2> QED
      BY <1>3, <2>1, FunctionIsSeq
  <1>5. /\ 1..(Len(s) + 1) = (1..Len(s)) \cup {Len(s) + 1} /\ Len(s) + 1 \notin 1..Len(s)
        /\ \A k \in 1..Len(s) : k < Len(s) + 1
    BY <1>1
  <1> QED
    BY <1>1, <1>3, <1>4, <1>5 DEF a, Extends

LEMMA SubSeqFacts ==
  ASSUME NEW s, IsSeq(s), NEW n \in 0..Len(s)
  PROVE  LET a == SubSeq(s, 1, n)
         IN IsSeq(a) /\ Len(a) = n /\ DOMAIN a = 1..n /\ \A k \in 1..n : a[k] = s[k] /\ k \in DOMAIN s
  <1> DEFINE a == SubSeq(s, 1, n)
             X == ToSet(s)
  <1>1. s \in Seq(X) /\ Len(s) \in Nat /\ DOMAIN s = 1..Len(s)
    BY DEF IsSeq
  <1> HIDE DEF X
  <1>2. Len(a) = n /\ DOMAIN a = 1..n /\ (\A k \in 1..n : a[k] = s[k] /\ k \in DOMAIN s) /\ a \in Seq(X)
    BY <1>1
  <1> HIDE DEF a
  <1>3. IsSeq(a)
    <2>1. n \in Nat /\ a = [i \in 1..n |-> a[i]]
      BY <1>1, <1>2
    <2> QED
      BY <1>2, <2>1, FunctionIsSeq
  <1> QED
    BY <1>2, <1>3 DEF a

\* A turn that has not begun, or that is over and forgotten.
LEMMA StartedInv ==
  ASSUME NEW confirm, NEW rows, NEW u,
         u = Started \/ \E p \in {"clarify", "answer"} : u = [Started EXCEPT !.pc = p]
  PROVE  TurnInv(u, confirm, rows)
  <1>1. /\ DOMAIN u = Fields /\ u.pc \in {"ask", "clarify", "answer"} /\ u.mode = "rule-based" /\ u.rounds = 0
        /\ u.budget = MaxToolCalls /\ u.begun = 0 /\ u.found = 0 /\ u.verdict = "none"
        /\ u.calls = <<>> /\ u.state = <<>> /\ u.results = <<>> /\ u.attempts = <<>> /\ u.pending = <<>>
    BY DEF Started, Fields
  <1>2. DOMAIN u.calls = {} /\ DOMAIN u.state = {} /\ DOMAIN u.results = {} /\ DOMAIN u.attempts = {}
        /\ DOMAIN u.pending = {} /\ Len(u.pending) = 0 /\ Len(u.results) = 0
    BY <1>1, EmptyIsSeq
  <1>3. MaxRounds \in Nat /\ MaxToolCalls \in Nat
    BY LoopAssumption
  <1>4. Shape(u)
    <2>1. u.state \in [{} -> {"new", "sent", "done"}]
      BY <1>1
    <2> QED
      BY <1>1, <1>2, <1>3, <2>1, EmptyIsSeq DEF Shape
  <1>5. Executed(u) = {} /\ Sent(u) = {}
    BY <1>2 DEF Executed, Sent
  <1>6. Lifecycle(u)
    BY <1>1 DEF Lifecycle
  <1>7. Guarded(u, confirm) /\ Claimed(u) /\ Distinct(u) /\ Aside(u) /\ Recorded(u, rows) /\ Whole(u)
    BY <1>2, <1>5 DEF Guarded, Claimed, Distinct, Aside, Recorded, Whole
  <1>8. Budgeted(u)
    BY <1>1, <1>2, <1>3 DEF Budgeted
  <1> QED
    BY <1>4, <1>6, <1>7, <1>8 DEF TurnInv

\* The loop is left: nothing else changes.
LEMMA ClosesInv ==
  ASSUME NEW u, NEW v, NEW confirm, NEW rows, TurnInv(u, confirm, rows),
         u.pc = "ask", v.pc = "over", v.mode \in {u.mode, "model"},
         Keeps(u, v, {"pc", "mode", "stop", "tokens"})
  PROVE  TurnInv(v, confirm, rows)
  <1>1. /\ DOMAIN v = Fields /\ v.rounds = u.rounds /\ v.budget = u.budget /\ v.begun = u.begun
        /\ v.found = u.found /\ v.verdict = u.verdict /\ v.calls = u.calls /\ v.state = u.state
        /\ v.results = u.results /\ v.attempts = u.attempts /\ v.pending = u.pending /\ v.seen = u.seen
        /\ v.shown = u.shown
    BY DEF Keeps, Fields
  <1>2. Executed(v) = Executed(u) /\ Sent(v) = Sent(u) /\ New(v) = New(u)
    BY <1>1 DEF Executed, Sent, New
  <1>3. u.calls = <<>> /\ u.pending = <<>>
    BY DEF TurnInv, Lifecycle
  <1>4. Shape(v)
    BY <1>1 DEF TurnInv, Shape
  <1>5. Lifecycle(v)
    BY <1>1, <1>3 DEF TurnInv, Lifecycle
  <1>6. Guarded(v, confirm) /\ Claimed(v) /\ Distinct(v) /\ Recorded(v, rows)
    BY <1>1, <1>2 DEF TurnInv, Guarded, Claimed, Distinct, Recorded
  <1>7. Aside(v) /\ Whole(v)
    BY <1>1, <1>2, <1>3, EmptyIsSeq DEF Aside, Whole
  <1>8. Budgeted(v)
    BY <1>1, <1>2 DEF TurnInv, Budgeted
  <1> QED
    BY <1>4, <1>5, <1>6, <1>7, <1>8 DEF TurnInv

\* A batch is taken: what the budget gives is taken out of it.
LEMMA NewBatchInv ==
  ASSUME NEW u, NEW v, NEW confirm, NEW rows, TurnInv(u, confirm, rows),
         u.pc \in {"ask", "over"}, v.pc = "batch",
         Keeps(u, v, {"pc", "mode", "stop", "rounds", "budget", "tokens", "calls", "state",
                      "outcome", "asked"}),
         v.rounds \in 0..MaxRounds, IsSeq(v.calls), Len(v.calls) <= u.budget,
         v.budget = u.budget - Len(v.calls), v.state = [i \in DOMAIN v.calls |-> "new"],
         v.mode \in {"model", "rules"},
         v.mode = "model" => u.pc = "ask" /\ \A i \in DOMAIN v.calls : AskedFor(v.calls[i])
  PROVE  TurnInv(v, confirm, rows)
  <1>1. /\ DOMAIN v = Fields /\ v.begun = u.begun /\ v.found = u.found /\ v.verdict = u.verdict
        /\ v.results = u.results /\ v.attempts = u.attempts /\ v.pending = u.pending
        /\ v.seen = u.seen /\ v.shown = u.shown
    BY DEF Keeps, Fields
  <1>2. Executed(v) = Executed(u) /\ Sent(v) = {}
    BY <1>1 DEF Executed, Sent
  <1>3. Len(v.calls) \in Nat /\ DOMAIN v.calls = 1..Len(v.calls) /\ Len(u.pending) \in Nat
    BY SeqFacts DEF TurnInv, Shape
  <1>4. u.budget \in 0..MaxToolCalls /\ u.begun \in Nat /\ MaxToolCalls \in Nat
    BY LoopAssumption DEF TurnInv, Shape
  <1>5. Shape(v)
    <2>1. v.budget \in 0..MaxToolCalls
      BY <1>3, <1>4
    <2>2. v.state \in [DOMAIN v.calls -> {"new", "sent", "done"}]
      OBVIOUS
    <2> QED
      BY <1>1, <2>1, <2>2 DEF TurnInv, Shape
  <1>6. Lifecycle(v)
    BY <1>1 DEF TurnInv, Lifecycle
  <1>7. Guarded(v, confirm) /\ Claimed(v) /\ Distinct(v) /\ Recorded(v, rows)
    BY <1>1, <1>2 DEF TurnInv, Guarded, Claimed, Distinct, Recorded
  <1>8. Aside(v)
    BY <1>1, <1>2 DEF TurnInv, Aside
  <1>9. Whole(v)
    BY <1>1, EmptyIsSeq DEF TurnInv, Whole, Lifecycle
  <1>10. Budgeted(v)
    <2>1. New(v) = 1..Len(v.calls)
      BY <1>3 DEF New
    <2>2. Cardinality(New(v)) = Len(v.calls)
      BY <1>3, <2>1, FS_Interval
    <2>3. u.begun + Len(u.pending) + u.budget <= MaxToolCalls
      BY DEF TurnInv, Budgeted
    <2> QED
      BY <1>1, <1>3, <1>4, <2>2, <2>3 DEF Budgeted
  <1> QED
    BY <1>5, <1>6, <1>7, <1>8, <1>9, <1>10 DEF TurnInv

\* A call that is done with is no longer new.
LEMMA OneLess ==
  ASSUME NEW u, NEW v, Shape(u), NEW i \in DOMAIN u.calls, NEW x \in {"sent", "done"},
         v.state = [u.state EXCEPT ![i] = x]
  PROVE  /\ Cardinality(New(u)) \in Nat /\ Cardinality(New(v)) \in Nat
         /\ u.state[i] = "new" => Cardinality(New(v)) = Cardinality(New(u)) - 1
         /\ u.state[i] # "new" => Cardinality(New(v)) = Cardinality(New(u))
  <1>1. Len(u.calls) \in Nat /\ DOMAIN u.calls = 1..Len(u.calls)
    BY SeqFacts DEF Shape
  <1>2. DOMAIN u.state = 1..Len(u.calls) /\ DOMAIN v.state = 1..Len(u.calls)
    BY <1>1 DEF Shape
  <1>3. IsFiniteSet(1..Len(u.calls))
    BY <1>1, FS_Interval
  <1>4. New(u) \in SUBSET (1..Len(u.calls)) /\ New(v) = New(u) \ {i}
    BY <1>1, <1>2 DEF New
  <1>5. IsFiniteSet(New(u))
    BY <1>3, <1>4, FS_Subset
  <1>6. /\ IsFiniteSet(New(v))
        /\ Cardinality(New(v)) = IF i \in New(u) THEN Cardinality(New(u)) - 1 ELSE Cardinality(New(u))
    <2> DEFINE S == New(u)
    <2>1. IsFiniteSet(S)
      BY <1>5
    <2> HIDE DEF S
    <2>2. /\ IsFiniteSet(S \ {i})
          /\ Cardinality(S \ {i}) = IF i \in S THEN Cardinality(S) - 1 ELSE Cardinality(S)
      BY <2>1, FS_RemoveElement
    <2> QED
      BY <1>4, <2>2 DEF S
  <1>7. i \in New(u) <=> u.state[i] = "new"
    BY <1>1, <1>2 DEF New
  <1> QED
    BY <1>5, <1>6, <1>7, FS_CardinalityType

\* What a report adds.
Reports(u, v, i, code, answer) ==
  /\ i \in DOMAIN u.calls
  /\ v.state = [u.state EXCEPT ![i] = "done"]
  /\ v.results = Append(u.results, Result(u.calls[i], code, answer))

Reported(u, v, i, code, answer) ==
  LET new == Len(u.results) + 1
  IN /\ Extends(v.results, u.results, v.results[new])
     /\ v.results[new].call = u.calls[i] /\ v.results[new].code = code
     /\ v.results[new].answer = answer
     /\ Executed(v) = IF answer = "none" THEN Executed(u) ELSE Executed(u) \cup {new}
     /\ Sent(v) = Sent(u) \ {i}
     /\ v.state \in [DOMAIN u.calls -> {"new", "sent", "done"}]

LEMMA ReportFacts ==
  ASSUME NEW u, NEW v, Shape(u), NEW i, NEW code, NEW answer, Reports(u, v, i, code, answer)
  PROVE  Reported(u, v, i, code, answer)
  <1> DEFINE new == Len(u.results) + 1
             r == Result(u.calls[i], code, answer)
  <1>1. r.call = u.calls[i] /\ r.code = code /\ r.answer = answer
    BY DEF Result
  <1> HIDE DEF r
  <1>2. IsSeq(u.results) /\ u.state \in [DOMAIN u.calls -> {"new", "sent", "done"}]
    BY DEF Shape
  <1>3. Extends(v.results, u.results, r)
    BY <1>2, AppendFacts DEF Reports, r
  <1>4. v.results[new] = r
    BY <1>3 DEF Extends
  <1>5. Executed(v) = IF answer = "none" THEN Executed(u) ELSE Executed(u) \cup {new}
    BY <1>1, <1>3 DEF Executed, Extends
  <1>6. Sent(v) = Sent(u) \ {i} /\ v.state \in [DOMAIN u.calls -> {"new", "sent", "done"}]
    BY <1>2 DEF Sent, Reports
  <1> QED
    BY <1>1, <1>3, <1>4, <1>5, <1>6 DEF Reported

\* A call is refused, or put aside: its result carries no answer.
LEMMA RefusesInv ==
  ASSUME NEW u, NEW v, NEW confirm, NEW rows, TurnInv(u, confirm, rows), NEW i, NEW code,
         u.pc \in {"batch", "execute"},
         Keeps(u, v, {"state", "outcome", "results", "seen", "pending"}),
         Reports(u, v, i, code, "none"), u.state[i] = "new", u.seen \subseteq v.seen,
         \/ v.pending = u.pending
         \/ /\ v.pending = Append(u.pending, u.calls[i]) /\ u.pc = "batch"
            /\ fingerprint(u.calls[i]) \in v.seen \ u.seen
  PROVE  TurnInv(v, confirm, rows)
  <1>1. /\ DOMAIN v = Fields /\ v.pc = u.pc /\ v.mode = u.mode /\ v.rounds = u.rounds
        /\ v.budget = u.budget /\ v.begun = u.begun
        /\ v.found = u.found /\ v.verdict = u.verdict /\ v.calls = u.calls
        /\ v.attempts = u.attempts /\ v.shown = u.shown
    BY DEF Keeps, Fields
  <1>s. Shape(u) /\ IsSeq(u.pending)
    BY DEF TurnInv, Shape
  <1>2. /\ Extends(v.results, u.results, v.results[Len(u.results) + 1])
        /\ v.results[Len(u.results) + 1].answer = "none"
        /\ Executed(v) = Executed(u) /\ Sent(v) = Sent(u)
        /\ v.state \in [DOMAIN u.calls -> {"new", "sent", "done"}]
    <2>1. i \notin Sent(u)
      BY DEF Sent
    <2>2. Reported(u, v, i, code, "none")
      BY <1>s, ReportFacts
    <2> QED
      BY <2>1, <2>2 DEF Reported
  <1>3. \/ v.pending = u.pending
        \/ Extends(v.pending, u.pending, u.calls[i]) /\ u.pc = "batch"
           /\ fingerprint(u.calls[i]) \in v.seen /\ fingerprint(u.calls[i]) \notin u.seen
    BY <1>s, AppendFacts
  <1>x. \A k \in Executed(u) : v.results[k] = u.results[k] /\ k \in DOMAIN u.results
    BY <1>2 DEF Executed, Extends
  <1>4. Shape(v)
    BY <1>s, <1>1, <1>2, <1>3 DEF Shape, Extends
  <1>5. Lifecycle(v)
    BY <1>1, <1>2, <1>3 DEF TurnInv, Lifecycle
  <1>6. Guarded(v, confirm)
    <2> DEFINE new == Len(u.results) + 1
    <2>1. ~MayApply("none")
      BY DEF MayApply
    <2>2. Honest(v.results[new])
      BY <1>2, <2>1 DEF Honest
    <2>3. \A k \in DOMAIN v.results : k = new \/ (k \in DOMAIN u.results /\ v.results[k] = u.results[k])
      BY <1>2 DEF Extends
    <2> HIDE DEF new
    <2> QED
      BY <1>1, <1>2, <1>x, <2>2, <2>3 DEF TurnInv, Guarded
  <1>7. Claimed(v) /\ Distinct(v) /\ Recorded(v, rows)
    <2>1. Claimed(v)
      BY <1>1, <1>2, <1>3, <1>x DEF TurnInv, Claimed, Extends
    <2> QED
      BY <1>1, <1>2, <1>x, <2>1 DEF TurnInv, Distinct, Recorded
  <1>8. Aside(v)
    <2>1. CASE v.pending = u.pending
      <3>1. \A j \in DOMAIN u.pending : v.state[j] = "new" => u.state[j] = "new"
        BY <1>s DEF Shape, Reports
      <3> QED
        BY <1>1, <1>2, <1>x, <2>1, <3>1 DEF TurnInv, Aside
    <2>2. CASE Extends(v.pending, u.pending, u.calls[i])
      <3>1. v.pc = "batch" /\ fingerprint(u.calls[i]) \notin u.seen
        BY <1>1, <1>3, <2>2 DEF Extends
      <3>2. Claimed(u) /\ Aside(u)
        BY DEF TurnInv
      <3>3. \A j \in DOMAIN v.pending :
              \/ j \in DOMAIN u.pending /\ v.pending[j] = u.pending[j]
              \/ j = Len(u.pending) + 1 /\ v.pending[j] = u.calls[i]
        BY <2>2 DEF Extends
      <3>4. \A j, k \in DOMAIN v.pending : fingerprint(v.pending[j]) = fingerprint(v.pending[k]) => j = k
        BY <3>1, <3>2, <3>3 DEF Claimed, Aside
      <3>5. \A j \in DOMAIN v.pending, k \in Sent(v) : fingerprint(v.pending[j]) # fingerprint(v.calls[k])
        BY <1>1, <1>2, <3>1, <3>2, <3>3 DEF Claimed, Aside
      <3>6. \A j \in DOMAIN v.pending, k \in Executed(v) :
              fingerprint(v.pending[j]) # fingerprint(v.results[k].call)
        BY <1>1, <1>2, <1>x, <3>1, <3>2, <3>3 DEF Claimed, Aside
      <3> QED
        BY <3>4, <3>5, <3>6 DEF Aside
    <2> QED
      BY <1>3, <2>1, <2>2
  <1>9. Whole(v)
    BY <1>1, <1>3 DEF TurnInv, Whole, Reports, Extends
  <1>10. Budgeted(v)
    <2>1. Cardinality(New(u)) \in Nat /\ Cardinality(New(v)) = Cardinality(New(u)) - 1
      BY <1>s, OneLess DEF Reports
    <2>2. /\ Len(u.pending) \in Nat /\ Len(v.pending) \in {Len(u.pending), Len(u.pending) + 1}
          /\ u.pc = "execute" => Len(v.pending) = Len(u.pending)
      BY <1>s, <1>3, SeqFacts DEF Extends
    <2>3. u.begun \in Nat /\ u.budget \in Nat /\ MaxToolCalls \in Nat
      BY <1>s, LoopAssumption DEF Shape
    <2>4. Cardinality(New(v)) \in Nat
      BY <1>s, OneLess DEF Reports
    <2>5. CASE u.pc = "batch"
      <3>1. u.begun + Len(u.pending) + u.budget + Cardinality(New(u)) <= MaxToolCalls
        BY <2>5 DEF TurnInv, Budgeted
      <3>2. /\ u.begun + Len(v.pending) + u.budget + Cardinality(New(v)) <= MaxToolCalls
            /\ u.begun + Len(v.pending) <= MaxToolCalls
        <4> DEFINE p == Len(u.pending)
                   q == Len(v.pending)
                   m == Cardinality(New(u))
                   n == Cardinality(New(v))
        <4>1. /\ p \in Nat /\ q \in {p, p + 1} /\ n = m - 1 /\ n \in Nat /\ m \in Nat
              /\ u.begun + p + u.budget + m <= MaxToolCalls
          BY <2>1, <2>2, <2>4, <3>1
        <4> HIDE DEF p, q, m, n
        <4>2. u.begun + q + u.budget + n <= MaxToolCalls /\ u.begun + q <= MaxToolCalls
          BY SMTT(20), <2>3, <4>1
        <4> QED
          BY <4>2 DEF q, n
      <3> QED
        BY <1>1, <2>5, <3>2 DEF Budgeted
    <2>6. CASE u.pc = "execute"
      BY <1>1, <2>2, <2>3, <2>6 DEF TurnInv, Budgeted
    <2> QED
      BY <2>5, <2>6
  <1> QED
    BY <1>4, <1>5, <1>6, <1>7, <1>8, <1>9, <1>10 DEF TurnInv

\* A call goes on its way: it was claimed in the same step.
LEMMA SendsInv ==
  ASSUME NEW u, NEW v, NEW confirm, NEW rows, TurnInv(u, confirm, rows), NEW i \in DOMAIN u.calls,
         u.pc = "batch", u.state[i] = "new", Keeps(u, v, {"state", "seen", "begun"}),
         v.state = [u.state EXCEPT ![i] = "sent"], v.begun = u.begun + 1,
         v.seen = u.seen \cup {fingerprint(u.calls[i])}, fingerprint(u.calls[i]) \notin u.seen,
         confirm => ~writes(u.calls[i].tool)
  PROVE  TurnInv(v, confirm, rows)
  <1>1. /\ DOMAIN v = Fields /\ v.pc = u.pc /\ v.mode = u.mode /\ v.rounds = u.rounds
        /\ v.budget = u.budget /\ v.found = u.found /\ v.verdict = u.verdict /\ v.calls = u.calls
        /\ v.results = u.results /\ v.pending = u.pending
        /\ v.attempts = u.attempts /\ v.shown = u.shown
    BY DEF Keeps, Fields
  <1>2. Shape(u)
    BY DEF TurnInv
  <1>3. Executed(v) = Executed(u) /\ Sent(v) = Sent(u) \cup {i}
    BY <1>1, <1>2 DEF Executed, Sent, Shape
  <1>4. Shape(v)
    BY <1>1, <1>2 DEF Shape
  <1>5. Lifecycle(v)
    BY <1>1 DEF TurnInv, Lifecycle
  <1>6. Guarded(v, confirm)
    BY <1>1, <1>3 DEF TurnInv, Guarded
  <1>7. Claimed(v)
    BY <1>1, <1>3 DEF TurnInv, Claimed
  <1>8. Distinct(v)
    BY <1>1, <1>3 DEF TurnInv, Distinct, Claimed
  <1>9. Aside(v)
    BY <1>1, <1>3 DEF TurnInv, Aside, Claimed
  <1>10. Recorded(v, rows)
    BY <1>1, <1>3 DEF TurnInv, Recorded
  <1>11. Whole(v)
    BY <1>1 DEF TurnInv, Whole
  <1>12. Budgeted(v)
    <2> DEFINE p == Len(u.pending)
               m == Cardinality(New(u))
               n == Cardinality(New(v))
    <2>1. n = m - 1 /\ n \in Nat /\ m \in Nat
      BY <1>2, OneLess
    <2>2. p \in Nat /\ u.begun \in Nat /\ u.budget \in Nat /\ MaxToolCalls \in Nat
      BY <1>2, SeqFacts, LoopAssumption DEF Shape
    <2>3. u.begun + p + u.budget + m <= MaxToolCalls
      BY DEF TurnInv, Budgeted
    <2> HIDE DEF p, m, n
    <2>4. (u.begun + 1) + p + u.budget + n <= MaxToolCalls /\ (u.begun + 1) + p <= MaxToolCalls
      BY <2>1, <2>2, <2>3
    <2> QED
      BY <1>1, <2>4 DEF Budgeted, p, n
  <1> QED
    BY <1>4, <1>5, <1>6, <1>7, <1>8, <1>9, <1>10, <1>11, <1>12 DEF TurnInv

\* A call may be attempted: as far as the ledger tells, no attempt at it still runs.
MayAttempt(u, call) == \A a \in DOMAIN u.attempts :
  u.attempts[a].call = fingerprint(call) => u.attempts[a].row \in {"failed", "stale"}

\* One more attempt, with a row that the ledger bears out.
Attempted(u, v, call, rows) ==
  \/ v.attempts = u.attempts
  \/ \E row \in {"started", "failed", "succeeded"} :
       /\ v.attempts = Append(u.attempts, [call |-> fingerprint(call), row |-> row])
       /\ row = "succeeded" => \E r \in rows : r.call = fingerprint(call)

\* An attempt at a claimed call that nothing else is on its way for.
LEMMA AttemptKeeps ==
  ASSUME NEW u, NEW v, NEW call, NEW rows, NEW rows2, rows \subseteq rows2,
         IsSeq(u.attempts), Recorded(u, rows), v.seen = u.seen, v.calls = u.calls,
         fingerprint(call) \in u.seen, Sent(v) \subseteq Sent(u), MayAttempt(u, call),
         \A j \in Sent(v) : fingerprint(u.calls[j]) # fingerprint(call),
         Attempted(u, v, call, rows2)
  PROVE  IsSeq(v.attempts) /\ Recorded(v, rows2)
  <1>1. CASE v.attempts = u.attempts
    BY <1>1 DEF Recorded
  <1>2. CASE v.attempts # u.attempts
    <2>1. PICK row \in {"started", "failed", "succeeded"} :
            /\ v.attempts = Append(u.attempts, [call |-> fingerprint(call), row |-> row])
            /\ row = "succeeded" => \E r \in rows2 : r.call = fingerprint(call)
      BY <1>2 DEF Attempted
    <2> DEFINE x == [call |-> fingerprint(call), row |-> row]
               last == Len(u.attempts) + 1
    <2>2. x.call = fingerprint(call) /\ x.row = row
      OBVIOUS
    <2>3. Extends(v.attempts, u.attempts, x)
      BY <2>1, AppendFacts
    <2> HIDE DEF x
    <2>4. /\ \A a \in DOMAIN v.attempts :
               \/ a \in DOMAIN u.attempts /\ v.attempts[a] = u.attempts[a] /\ a < last
               \/ a = last /\ v.attempts[a] = x
          /\ last \in Nat
      BY <2>3 DEF Extends
    <2>5. DOMAIN u.attempts \subseteq Int
      BY SeqFacts
    <2> HIDE DEF last
    <2>6. \A a \in DOMAIN v.attempts :
            /\ v.attempts[a].call \in v.seen
            /\ v.attempts[a].row \in {"started", "stale", "failed", "succeeded"}
            /\ v.attempts[a].row = "succeeded" => \E r \in rows2 : r.call = v.attempts[a].call
      BY <2>1, <2>2, <2>4 DEF Recorded
    <2>7. ASSUME NEW a \in DOMAIN v.attempts, NEW b \in DOMAIN v.attempts, a < b,
                 v.attempts[a].call = v.attempts[b].call
          PROVE  v.attempts[a].row \in {"failed", "stale"}
      <3>1. a \in DOMAIN u.attempts /\ v.attempts[a] = u.attempts[a]
        BY <2>4, <2>5, <2>7
      <3>2. CASE b \in DOMAIN u.attempts /\ v.attempts[b] = u.attempts[b]
        BY <2>7, <3>1, <3>2 DEF Recorded
      <3>3. CASE v.attempts[b] = x
        BY <2>2, <2>7, <3>1, <3>3 DEF MayAttempt
      <3> QED
        BY <2>4, <3>2, <3>3
    <2>8. \A a \in DOMAIN v.attempts, j \in Sent(v) : v.attempts[a].call # fingerprint(v.calls[j])
      BY <2>2, <2>4 DEF Recorded
    <2> QED
      BY <2>3, <2>6, <2>7, <2>8 DEF Recorded, Extends
  <1> QED
    BY <1>1, <1>2

\* A call of the batch comes back, or its deadline passes.
LEMMA AnswersInv ==
  ASSUME NEW u, NEW v, NEW confirm, NEW rows, NEW rows2, TurnInv(u, confirm, rows),
         rows \subseteq rows2, NEW i, NEW code, NEW answer, Reports(u, v, i, code, answer),
         u.pc = "batch", u.state[i] = "sent", Keeps(u, v, {"state", "outcome", "results", "attempts"}),
         Attempted(u, v, u.calls[i], rows2)
  PROVE  TurnInv(v, confirm, rows2)
  <1> DEFINE new == Len(u.results) + 1
  <1>1. /\ DOMAIN v = Fields /\ v.pc = u.pc /\ v.mode = u.mode /\ v.rounds = u.rounds
        /\ v.budget = u.budget /\ v.begun = u.begun /\ v.found = u.found /\ v.verdict = u.verdict
        /\ v.calls = u.calls /\ v.pending = u.pending /\ v.seen = u.seen /\ v.shown = u.shown
    BY DEF Keeps, Fields
  <1>2. Shape(u) /\ i \in DOMAIN u.calls /\ i \in Sent(u)
    BY DEF TurnInv, Reports, Sent, Shape
  <1>3. Reported(u, v, i, code, answer)
    BY <1>2, ReportFacts
  <1>4. /\ Extends(v.results, u.results, v.results[new]) /\ v.results[new].call = u.calls[i]
        /\ Executed(v) \subseteq Executed(u) \cup {new} /\ Sent(v) = Sent(u) \ {i}
        /\ v.state \in [DOMAIN u.calls -> {"new", "sent", "done"}]
    BY <1>3 DEF Reported
  <1>5. \A k \in Executed(u) : v.results[k] = u.results[k] /\ k \in DOMAIN u.results
    BY <1>4 DEF Executed, Extends
  <1>6. Claimed(u) /\ Distinct(u) /\ Aside(u) /\ Recorded(u, rows)
    BY DEF TurnInv
  <1> HIDE DEF new
  <1>7. IsSeq(v.attempts) /\ Recorded(v, rows2)
    <2>1. fingerprint(u.calls[i]) \in u.seen
      BY <1>2, <1>6 DEF Claimed
    <2>2. \A j \in Sent(v) : fingerprint(u.calls[j]) # fingerprint(u.calls[i])
      BY <1>2, <1>4, <1>6 DEF Distinct
    <2>3. MayAttempt(u, u.calls[i])
      BY <1>2, <1>6 DEF Recorded, MayAttempt
    <2>4. Sent(v) \subseteq Sent(u) /\ IsSeq(u.attempts)
      BY <1>2, <1>4 DEF Shape
    <2> QED
      BY <1>1, <1>6, <2>1, <2>2, <2>3, <2>4, AttemptKeeps
  <1>8. Shape(v)
    BY <1>1, <1>2, <1>4, <1>7 DEF Shape, Extends
  <1>9. Lifecycle(v)
    BY <1>1, <1>4 DEF TurnInv, Lifecycle
  <1>10. Guarded(v, confirm)
    <2> SUFFICES ASSUME confirm PROVE Guarded(v, confirm)
      BY DEF Guarded
    <2>1. /\ \A j \in Sent(u) : ~writes(u.calls[j].tool)
          /\ \A k \in Executed(u) : writes(u.results[k].call.tool)
               => u.verdict = "approved" /\ fingerprint(u.results[k].call) \in u.shown
          /\ \A k \in DOMAIN u.results : Honest(u.results[k])
      BY DEF TurnInv, Guarded
    <2>2. ~writes(v.results[new].call.tool)
      BY <1>2, <1>4, <2>1
    <2>3. \A j \in Sent(v) : ~writes(v.calls[j].tool)
      BY <1>1, <1>4, <2>1
    <2>4. \A k \in Executed(v) : writes(v.results[k].call.tool)
            => v.verdict = "approved" /\ fingerprint(v.results[k].call) \in v.shown
      BY <1>1, <1>4, <1>5, <2>1, <2>2
    <2>5. \A k \in DOMAIN v.results : Honest(v.results[k])
      <3>1. \A k \in DOMAIN v.results :
              k = new \/ (k \in DOMAIN u.results /\ v.results[k] = u.results[k])
        BY <1>4 DEF Extends, new
      <3>2. Honest(v.results[new])
        BY <2>2 DEF Honest
      <3> QED
        BY <2>1, <3>1, <3>2
    <2> QED
      BY <2>3, <2>4, <2>5 DEF Guarded
  <1>11. Claimed(v)
    BY <1>1, <1>2, <1>4, <1>5, <1>6 DEF Claimed
  <1>12. Distinct(v)
    BY <1>1, <1>2, <1>4, <1>5, <1>6 DEF Distinct
  <1>13. Aside(v)
    BY <1>1, <1>2, <1>4, <1>5, <1>6 DEF Aside
  <1>14. Whole(v)
    BY <1>1 DEF TurnInv, Whole
  <1>15. Budgeted(v)
    <2>1. Cardinality(New(v)) = Cardinality(New(u))
      BY <1>2, OneLess DEF Reports
    <2> QED
      BY <1>1, <2>1 DEF TurnInv, Budgeted
  <1> QED
    BY <1>7, <1>8, <1>9, <1>10, <1>11, <1>12, <1>13, <1>14, <1>15 DEF TurnInv

\* An approved call of the confirmation node runs, or the ledger answers for it.
LEMMA ExecutesInv ==
  ASSUME NEW u, NEW v, NEW confirm, NEW rows, NEW rows2, TurnInv(u, confirm, rows),
         rows \subseteq rows2, NEW i, NEW code, NEW answer, Reports(u, v, i, code, answer),
         u.pc = "execute", u.verdict = "approved", u.state[i] = "new",
         Keeps(u, v, {"state", "outcome", "results", "attempts"}),
         Honest(Result(u.calls[i], code, answer)),
         v.attempts = u.attempts \/ MayAttempt(u, u.calls[i]), Attempted(u, v, u.calls[i], rows2)
  PROVE  TurnInv(v, confirm, rows2)
  <1> DEFINE new == Len(u.results) + 1
  <1>1. /\ DOMAIN v = Fields /\ v.pc = u.pc /\ v.mode = u.mode /\ v.rounds = u.rounds
        /\ v.budget = u.budget /\ v.begun = u.begun /\ v.found = u.found /\ v.verdict = u.verdict
        /\ v.calls = u.calls /\ v.pending = u.pending /\ v.seen = u.seen /\ v.shown = u.shown
    BY DEF Keeps, Fields
  <1>2. Shape(u) /\ i \in DOMAIN u.calls
    BY DEF TurnInv, Reports
  <1>3. Reported(u, v, i, code, answer)
    BY <1>2, ReportFacts
  <1>4. /\ Extends(v.results, u.results, v.results[new]) /\ v.results[new].call = u.calls[i]
        /\ v.results[new].code = code /\ v.results[new].answer = answer
        /\ Executed(v) \subseteq Executed(u) \cup {new} /\ Sent(v) \subseteq Sent(u)
        /\ v.state \in [DOMAIN u.calls -> {"new", "sent", "done"}]
    BY <1>3 DEF Reported
  <1>5. \A k \in Executed(u) : v.results[k] = u.results[k] /\ k \in DOMAIN u.results
    BY <1>4 DEF Executed, Extends
  <1>6. Claimed(u) /\ Distinct(u) /\ Aside(u) /\ Recorded(u, rows)
    BY DEF TurnInv
  <1>7. /\ u.calls = u.pending /\ Sent(v) = {}
        /\ fingerprint(u.calls[i]) \in u.shown /\ fingerprint(u.calls[i]) \in u.seen
    BY <1>2, <1>4, <1>6 DEF TurnInv, Lifecycle, Claimed
  <1>8. ~(new <= u.found)
    BY <1>2, SeqFacts DEF Shape
  <1> HIDE DEF new
  <1>9. IsSeq(v.attempts) /\ Recorded(v, rows2)
    <2>1. \A j \in Sent(v) : fingerprint(u.calls[j]) # fingerprint(u.calls[i])
      BY <1>7
    <2>2. Sent(v) \subseteq Sent(u) /\ IsSeq(u.attempts)
      BY <1>2, <1>4 DEF Shape
    <2>3. CASE v.attempts = u.attempts
      BY <1>1, <1>6, <1>7, <2>2, <2>3 DEF Recorded
    <2>4. CASE MayAttempt(u, u.calls[i])
      BY <1>1, <1>6, <1>7, <2>1, <2>2, <2>4, AttemptKeeps
    <2> QED
      BY <2>3, <2>4
  <1>10. Shape(v)
    <2>1. v.found \in 0..Len(v.results)
      BY <1>1, <1>2, <1>4 DEF Shape, Extends
    <2> QED
      BY <1>1, <1>2, <1>4, <1>9, <2>1 DEF Shape, Extends
  <1>11. Lifecycle(v)
    BY <1>1, <1>7 DEF TurnInv, Lifecycle
  <1>12. Guarded(v, confirm)
    <2>1. Honest(v.results[new])
      BY <1>4 DEF Honest, Result
    <2>2. \A k \in DOMAIN v.results : k = new \/ (k \in DOMAIN u.results /\ v.results[k] = u.results[k])
      BY <1>4 DEF Extends, new
    <2> QED
      BY <1>1, <1>4, <1>5, <1>7, <2>1, <2>2 DEF TurnInv, Guarded
  <1>13. Claimed(v)
    BY <1>1, <1>4, <1>5, <1>6, <1>7 DEF Claimed
  <1>14. Distinct(v)
    <2>1. \A k \in Executed(u) : fingerprint(u.calls[i]) # fingerprint(u.results[k].call)
      BY <1>2, <1>6, <1>7 DEF Aside
    <2> QED
      BY <1>1, <1>4, <1>5, <1>6, <1>7, <2>1 DEF Distinct
  <1>15. Aside(v)
    <2>1. \A j \in DOMAIN u.pending : v.state[j] = "new" => u.state[j] = "new" /\ j # i
      BY <1>2, <1>7 DEF Shape, Reports
    <2> QED
      BY <1>1, <1>2, <1>4, <1>5, <1>6, <1>7, <1>8, <2>1 DEF Aside
  <1>16. Whole(v)
    BY <1>1 DEF TurnInv, Whole
  <1>17. Budgeted(v)
    BY <1>1 DEF TurnInv, Budgeted
  <1> QED
    BY <1>9, <1>10, <1>11, <1>12, <1>13, <1>14, <1>15, <1>16, <1>17 DEF TurnInv

\* A round is over and everything in it is done; or the loop is left for the user.
LEMMA EndsInv ==
  ASSUME NEW u, NEW v, NEW confirm, NEW rows, TurnInv(u, confirm, rows),
         u.pc \in {"batch", "over"}, v.pc \in {"ask", "over", "confirm"},
         Keeps(u, v, {"pc", "stop", "replies", "withdrawn", "calls", "state", "outcome"}),
         v.calls = <<>>, v.state = <<>>, v.pc = "ask" => u.pending = <<>>
  PROVE  TurnInv(v, confirm, rows)
  <1>1. /\ DOMAIN v = Fields /\ v.mode = u.mode /\ v.rounds = u.rounds
        /\ v.budget = u.budget /\ v.begun = u.begun /\ v.found = u.found /\ v.verdict = u.verdict
        /\ v.results = u.results /\ v.attempts = u.attempts /\ v.pending = u.pending
        /\ v.seen = u.seen /\ v.shown = u.shown
    BY DEF Keeps, Fields
  <1>2. Executed(v) = Executed(u) /\ Sent(v) = {} /\ DOMAIN v.calls = {}
    BY <1>1, EmptyIsSeq DEF Executed, Sent
  <1>3. Shape(v)
    <2>1. v.state \in [{} -> {"new", "sent", "done"}]
      OBVIOUS
    <2> QED
      BY <1>1, <1>2, <2>1, EmptyIsSeq DEF TurnInv, Shape
  <1>4. Lifecycle(v)
    BY <1>1 DEF TurnInv, Lifecycle
  <1>5. Guarded(v, confirm) /\ Claimed(v) /\ Distinct(v) /\ Recorded(v, rows)
    BY <1>1, <1>2 DEF TurnInv, Guarded, Claimed, Distinct, Recorded
  <1>6. Aside(v) /\ Whole(v)
    BY <1>1, <1>2 DEF TurnInv, Aside, Whole
  <1>7. Budgeted(v)
    <2>1. Cardinality(New(u)) \in Nat
      <3>1. IsFiniteSet(1..Len(u.calls)) /\ New(u) \in SUBSET (1..Len(u.calls))
        <4>1. Len(u.calls) \in Nat /\ DOMAIN u.calls = 1..Len(u.calls)
          BY SeqFacts DEF TurnInv, Shape
        <4>2. DOMAIN u.state = 1..Len(u.calls)
          BY <4>1 DEF TurnInv, Shape
        <4> QED
          BY <4>1, <4>2, FS_Interval DEF New
      <3> QED
        BY <3>1, FS_Subset, FS_CardinalityType
    <2>2. Len(u.pending) \in Nat /\ u.begun \in Nat /\ u.budget \in Nat /\ MaxToolCalls \in Nat
      BY SeqFacts, LoopAssumption DEF TurnInv, Shape
    <2>3. u.begun + Len(u.pending) + u.budget <= MaxToolCalls
      BY <2>1, <2>2 DEF TurnInv, Budgeted
    <2> QED
      BY <1>1, <2>2, <2>3 DEF TurnInv, Budgeted
  <1> QED
    BY <1>3, <1>4, <1>5, <1>6, <1>7 DEF TurnInv

\* The user answers: what was put aside is what is shown and what is run.
LEMMA ConfirmsInv ==
  ASSUME NEW u, NEW v, NEW confirm, NEW rows, TurnInv(u, confirm, rows),
         u.pc = "confirm", v.pc = "execute",
         Keeps(u, v, {"pc", "verdict", "found", "shown", "calls", "state", "outcome"}),
         v.found = Len(u.results), v.calls = u.pending,
         v.shown = {fingerprint(u.pending[i]) : i \in DOMAIN u.pending},
         v.state = [i \in DOMAIN u.pending |-> "new"]
  PROVE  TurnInv(v, confirm, rows)
  <1>1. /\ DOMAIN v = Fields /\ v.mode = u.mode /\ v.rounds = u.rounds
        /\ v.budget = u.budget /\ v.begun = u.begun
        /\ v.results = u.results /\ v.attempts = u.attempts /\ v.pending = u.pending /\ v.seen = u.seen
    BY DEF Keeps, Fields
  <1>2. Executed(v) = Executed(u) /\ Sent(v) = {}
    BY <1>1 DEF Executed, Sent
  <1>3. Len(u.results) \in Nat
    BY SeqFacts DEF TurnInv, Shape
  <1>4. Shape(v)
    BY <1>1, <1>3 DEF TurnInv, Shape
  <1>5. Lifecycle(v)
    BY <1>1, <1>2 DEF TurnInv, Lifecycle
  <1>6. Guarded(v, confirm)
    BY <1>1, <1>2 DEF TurnInv, Guarded, Lifecycle
  <1>7. Claimed(v) /\ Distinct(v) /\ Recorded(v, rows)
    BY <1>1, <1>2 DEF TurnInv, Claimed, Distinct, Recorded
  <1>8. Aside(v) /\ Whole(v)
    BY <1>1, <1>2 DEF TurnInv, Aside, Whole
  <1>9. Budgeted(v)
    BY <1>1 DEF TurnInv, Budgeted
  <1> QED
    BY <1>4, <1>5, <1>6, <1>7, <1>8, <1>9 DEF TurnInv

\* The confirmation node runs again: it keeps the results it found.
LEMMA ReplaysInv ==
  ASSUME NEW u, NEW v, NEW confirm, NEW rows, TurnInv(u, confirm, rows),
         u.pc = "execute", Keeps(u, v, {"state", "results", "replays", "attempts"}),
         v.state = [i \in DOMAIN u.calls |-> "new"], v.results = SubSeq(u.results, 1, u.found),
         \/ v.attempts = u.attempts
         \/ \E i \in DOMAIN u.calls : MayAttempt(u, u.calls[i]) /\ Attempted(u, v, u.calls[i], rows)
  PROVE  TurnInv(v, confirm, rows)
  <1>1. /\ DOMAIN v = Fields /\ v.pc = u.pc /\ v.mode = u.mode /\ v.rounds = u.rounds
        /\ v.budget = u.budget /\ v.begun = u.begun /\ v.found = u.found /\ v.verdict = u.verdict
        /\ v.calls = u.calls /\ v.pending = u.pending /\ v.seen = u.seen
        /\ v.shown = u.shown
    BY DEF Keeps, Fields
  <1>2. /\ IsSeq(v.results) /\ Len(v.results) = u.found /\ DOMAIN v.results = 1..u.found
        /\ \A k \in 1..u.found : v.results[k] = u.results[k] /\ k \in DOMAIN u.results
    <2>1. IsSeq(u.results) /\ u.found \in 0..Len(u.results)
      BY DEF TurnInv, Shape
    <2> QED
      BY SMTT(20), <2>1, SubSeqFacts
  <1>3. /\ \A k \in Executed(v) : /\ k \in Executed(u) /\ v.results[k] = u.results[k]
                                  /\ k <= u.found
        /\ Sent(v) = {} /\ Sent(u) = {}
    <2>1. Sent(v) = {}
      BY DEF Sent
    <2>2. Sent(u) = {}
      BY DEF TurnInv, Lifecycle
    <2>3. \A k \in 1..u.found : k <= u.found
      BY DEF TurnInv, Shape
    <2>4. \A k \in Executed(v) : k \in Executed(u) /\ v.results[k] = u.results[k] /\ k \in 1..u.found
      BY <1>2 DEF Executed
    <2> QED
      BY <2>1, <2>2, <2>3, <2>4
  <1>7. /\ Claimed(u) /\ Distinct(u) /\ Recorded(u, rows) /\ Aside(u) /\ u.calls = u.pending
        /\ IsSeq(u.attempts)
    BY DEF TurnInv, Lifecycle, Shape
  <1>10. IsSeq(v.attempts) /\ Recorded(v, rows)
    <2>1. CASE v.attempts = u.attempts
      BY <1>1, <1>3, <1>7, <2>1 DEF Recorded
    <2>2. CASE \E i \in DOMAIN u.calls : MayAttempt(u, u.calls[i]) /\ Attempted(u, v, u.calls[i], rows)
      <3>1. PICK i \in DOMAIN u.calls : MayAttempt(u, u.calls[i]) /\ Attempted(u, v, u.calls[i], rows)
        BY <2>2
      <3>2. fingerprint(u.calls[i]) \in u.seen
        BY <1>7 DEF Claimed
      <3>3. Sent(v) \subseteq Sent(u) /\ rows \subseteq rows
            /\ \A j \in Sent(v) : fingerprint(u.calls[j]) # fingerprint(u.calls[i])
        BY <1>3
      <3> QED
        BY <1>1, <1>7, <3>1, <3>2, <3>3, AttemptKeeps
    <2> QED
      BY <2>1, <2>2
  <1>4. Shape(v)
    <2>1. u.found \in 0..u.found
      BY DEF TurnInv, Shape
    <2> QED
      BY <1>1, <1>2, <1>10, <2>1 DEF TurnInv, Shape
  <1>5. Lifecycle(v)
    BY <1>1, <1>3 DEF TurnInv, Lifecycle
  <1>6. Guarded(v, confirm)
    BY <1>1, <1>2, <1>3 DEF TurnInv, Guarded
  <1>8. Claimed(v)
    BY <1>1, <1>3, <1>7 DEF Claimed
  <1>9. Distinct(v)
    BY <1>1, <1>3, <1>7 DEF Distinct
  <1>11. Aside(v)
    <2>1. \A j \in DOMAIN u.pending, k \in Executed(v) :
            fingerprint(u.pending[j]) # fingerprint(v.results[k].call)
      BY ZenonT(40), <1>3, <1>7 DEF Aside
    <2>2. \A i, j \in DOMAIN v.pending : fingerprint(v.pending[i]) = fingerprint(v.pending[j]) => i = j
      BY <1>1, <1>7 DEF Aside
    <2>3. v.pending = u.pending /\ Sent(v) = {}
      BY <1>1, <1>3
    <2>4. \A i \in DOMAIN v.pending, j \in Sent(v) : fingerprint(v.pending[i]) # fingerprint(v.calls[j])
      BY <2>3
    <2>5. \A i \in DOMAIN v.pending, k \in Executed(v) :
            fingerprint(v.pending[i]) # fingerprint(v.results[k].call)
      BY <2>1, <2>3
    <2> QED
      BY <2>2, <2>4, <2>5 DEF Aside
  <1>12. Whole(v)
    BY <1>1 DEF TurnInv, Whole
  <1>13. Budgeted(v)
    BY <1>1 DEF TurnInv, Budgeted
  <1> QED
    BY <1>4, <1>5, <1>6, <1>8, <1>9, <1>10, <1>11, <1>12, <1>13 DEF TurnInv

\* A lease runs out: the row is stale.
LEMMA LeaseInv ==
  ASSUME NEW u, NEW v, NEW confirm, NEW rows, TurnInv(u, confirm, rows), Keeps(u, v, {"attempts"}),
         DOMAIN v.attempts = DOMAIN u.attempts, v.attempts = [k \in DOMAIN u.attempts |-> v.attempts[k]],
         \A k \in DOMAIN u.attempts :
           /\ v.attempts[k].call = u.attempts[k].call
           /\ v.attempts[k].row = IF u.attempts[k].row = "started" THEN "stale" ELSE u.attempts[k].row
  PROVE  TurnInv(v, confirm, rows)
  <1>1. /\ DOMAIN v = Fields /\ v.pc = u.pc /\ v.mode = u.mode /\ v.rounds = u.rounds
        /\ v.budget = u.budget /\ v.begun = u.begun /\ v.found = u.found /\ v.verdict = u.verdict
        /\ v.calls = u.calls /\ v.pending = u.pending /\ v.seen = u.seen /\ v.state = u.state
        /\ v.results = u.results /\ v.shown = u.shown
    BY DEF Keeps, Fields
  <1>2. Executed(v) = Executed(u) /\ Sent(v) = Sent(u) /\ New(v) = New(u)
    BY <1>1 DEF Executed, Sent, New
  <1>3. IsSeq(v.attempts)
    <2>1. IsSeq(u.attempts)
      BY DEF TurnInv, Shape
    <2>2. Len(u.attempts) \in Nat /\ DOMAIN u.attempts = 1..Len(u.attempts)
      BY <2>1, SeqFacts
    <2> QED
      BY <2>2, FunctionIsSeq
  <1>4. Shape(v)
    BY <1>1, <1>3 DEF TurnInv, Shape
  <1>5. Lifecycle(v)
    BY <1>1, <1>2 DEF TurnInv, Lifecycle
  <1>6. Guarded(v, confirm) /\ Claimed(v) /\ Distinct(v)
    BY <1>1, <1>2 DEF TurnInv, Guarded, Claimed, Distinct
  <1>7. Aside(v) /\ Whole(v)
    BY <1>1, <1>2 DEF TurnInv, Aside, Whole
  <1>8. Budgeted(v)
    BY <1>1, <1>2 DEF TurnInv, Budgeted
  <1>9. Recorded(v, rows)
    <2>1. Recorded(u, rows)
      BY DEF TurnInv
    <2>2. ASSUME NEW a \in DOMAIN v.attempts
          PROVE  /\ v.attempts[a].call \in v.seen
                 /\ v.attempts[a].row \in {"started", "stale", "failed", "succeeded"}
                 /\ v.attempts[a].row = "succeeded" => \E row \in rows : row.call = v.attempts[a].call
      BY <1>1, <2>1 DEF Recorded
    <2>3. ASSUME NEW a \in DOMAIN v.attempts, NEW b \in DOMAIN v.attempts,
                 a < b, v.attempts[a].call = v.attempts[b].call
          PROVE  v.attempts[a].row \in {"failed", "stale"}
      <3>1. u.attempts[a].row \in {"failed", "stale"}
        BY <2>1, <2>3 DEF Recorded
      <3> QED
        BY <3>1
    <2>4. \A a \in DOMAIN v.attempts, i \in Sent(v) : v.attempts[a].call # fingerprint(v.calls[i])
      BY <1>1, <1>2, <2>1 DEF Recorded
    <2> QED
      BY <2>2, <2>3, <2>4 DEF Recorded
  <1> QED
    BY <1>4, <1>5, <1>6, <1>7, <1>8, <1>9 DEF TurnInv

(***************************** the steps **********************************)
LoopTyped == /\ settings \in [confirm : BOOLEAN] /\ DOMAIN turn = Turns /\ DOMAIN ledger = Turns

\* A step of one turn: the others keep what they have.
Moves(t) ==
  /\ settings' = settings /\ DOMAIN turn' = Turns /\ DOMAIN ledger' = Turns
  /\ \A s \in Turns \ {t} : turn'[s] = turn[s] /\ ledger'[s] = ledger[s]
  /\ TurnInv(turn'[t], settings.confirm, ledger'[t])

LEMMA MovesInv ==
  ASSUME LoopTyped, LoopInv, NEW t \in Turns, Moves(t)
  PROVE  LoopTyped' /\ LoopInv'
  <1>1. \A s \in Turns : TurnInv(turn'[s], settings'.confirm, ledger'[s])
    <2> TAKE s \in Turns
    <2>1. CASE s = t
      BY <2>1 DEF Moves
    <2>2. CASE s # t
      BY <2>2 DEF Moves, LoopInv
    <2> QED
      BY <2>1, <2>2
  <1> QED
    BY <1>1 DEF LoopInv, LoopTyped, Moves

\* The loop is left, or a turn is over.
LEMMA NoModelStep ==
  ASSUME LoopTyped, LoopInv, NEW t \in Turns, NoModel(t) \/ OutOfRounds(t)
  PROVE  Moves(t)
  <1> DEFINE u == turn[t]
             v == turn'[t]
  <1>1. TurnInv(u, settings.confirm, ledger[t]) /\ DOMAIN u = Fields
    BY DEF LoopInv, TurnInv, Shape
  <1>2. /\ settings' = settings /\ ledger' = ledger /\ DOMAIN turn' = Turns
        /\ \A s \in Turns \ {t} : turn'[s] = turn[s]
        /\ u.pc = "ask" /\ v.pc = "over" /\ v.mode = u.mode
        /\ Keeps(u, v, {"pc", "mode", "stop", "tokens"})
    BY <1>1 DEF NoModel, OutOfRounds, Loops, LoopTyped, Keeps, Fields
  <1> HIDE DEF u, v
  <1>3. TurnInv(v, settings.confirm, ledger[t])
    BY <1>1, <1>2, ClosesInv
  <1> QED
    BY <1>2, <1>3 DEF Moves, LoopTyped, u, v

LEMMA ReportFields ==
  ASSUME NEW u, DOMAIN u = Fields, NEW i \in DOMAIN u.calls, NEW code, NEW answer, NEW v,
         v = Report(u, i, code, answer)
  PROVE  Keeps(u, v, {"state", "outcome", "results"}) /\ Reports(u, v, i, code, answer)
  BY DEF Report, Reports, Keeps, Fields

\* With confirmation on, a write that passes the gate is put aside.
LEMMA WritesAskFirst ==
  ASSUME NEW call, settings.confirm, gate(call) = "none", writes(call.tool)
  PROVE  asks_first(call)
  <1>1. known(call.tool) /\ ~approval_gated(call.tool)
    BY DEF gate
  <1>2. TOOLS[call.tool].policy = "confirm"
    BY <1>1 DEF known, writes, approval_gated, TOOLS, ToolSpec
  <1> QED
    BY <1>2 DEF asks_first

LEMMA RunOneStep ==
  ASSUME LoopTyped, LoopInv, NEW t \in Turns, NEW i \in Positions, run_one(t, i)
  PROVE  Moves(t)
  <1> DEFINE u == turn[t]
             v == turn'[t]
             call == u.calls[i]
             taken == [u EXCEPT !.seen = claimed(u, call)]
  <1>1. TurnInv(u, settings.confirm, ledger[t]) /\ DOMAIN u = Fields
    BY DEF LoopInv, TurnInv, Shape
  <1>2. /\ settings' = settings /\ ledger' = ledger
        /\ u.pc = "batch" /\ i \in DOMAIN u.calls /\ u.state[i] = "new"
        /\ DOMAIN turn' = Turns /\ \A s \in Turns \ {t} : turn'[s] = turn[s]
    BY DEF run_one, LoopTyped
  <1>3. v = IF gate(call) # "none" THEN Report(u, i, gate(call), "none")
            ELSE IF repeats(u, call) THEN Report(u, i, "DUPLICATE_CALL_REFUSED", "none")
            ELSE IF ~screen_tool_input(call.tool, call.args)
                 THEN Report(taken, i, "GUARDRAIL_REFUSED", "none")
            ELSE IF asks_first(call)
                 THEN [Report(taken, i, "CONFIRMATION_REQUIRED", "none") EXCEPT
                         !.pending = Append(@, call)]
            ELSE [taken EXCEPT !.state[i] = "sent", !.begun = @ + 1]
    BY DEF run_one, LoopTyped
  <1>4. /\ DOMAIN taken = Fields /\ taken.calls = u.calls /\ taken.state = u.state
        /\ taken.results = u.results
        /\ taken.pending = u.pending /\ taken.seen = u.seen \cup {fingerprint(call)}
        /\ Keeps(u, taken, {"seen"})
    BY <1>1 DEF Fields, Keeps, claimed
  <1> HIDE DEF u, v, taken
  <1>5. CASE gate(call) # "none" \/ repeats(u, call)
    <2>1. PICK code : v = Report(u, i, code, "none")
      BY <1>3, <1>5
    <2>2. Keeps(u, v, {"state", "outcome", "results"}) /\ Reports(u, v, i, code, "none")
      BY <1>1, <1>2, <2>1, ReportFields
    <2>3. /\ Keeps(u, v, {"state", "outcome", "results", "seen", "pending"})
          /\ v.pending = u.pending /\ u.seen \subseteq v.seen
      BY <2>2 DEF Keeps, Fields
    <2>4. TurnInv(v, settings.confirm, ledger[t])
      BY <1>1, <1>2, <2>2, <2>3, RefusesInv
    <2> QED
      BY <1>2, <2>4 DEF Moves, LoopTyped, v
  <1>6. CASE /\ gate(call) = "none" /\ ~repeats(u, call)
             /\ ~screen_tool_input(call.tool, call.args)
    <2>1. v = Report(taken, i, "GUARDRAIL_REFUSED", "none")
      BY <1>3, <1>6
    <2>2. /\ Keeps(taken, v, {"state", "outcome", "results"})
          /\ Reports(taken, v, i, "GUARDRAIL_REFUSED", "none")
      BY <1>2, <1>4, <2>1, ReportFields
    <2>3. /\ Keeps(u, v, {"state", "outcome", "results", "seen", "pending"})
          /\ v.pending = u.pending /\ u.seen \subseteq v.seen
          /\ Reports(u, v, i, "GUARDRAIL_REFUSED", "none")
      BY <1>4, <2>2 DEF Keeps, Fields, Reports
    <2>4. TurnInv(v, settings.confirm, ledger[t])
      BY <1>1, <1>2, <2>3, RefusesInv
    <2> QED
      BY <1>2, <2>4 DEF Moves, LoopTyped, v
  <1>7. CASE /\ gate(call) = "none" /\ ~repeats(u, call)
             /\ screen_tool_input(call.tool, call.args) /\ asks_first(call)
    <2> DEFINE w == Report(taken, i, "CONFIRMATION_REQUIRED", "none")
    <2>1. v = [w EXCEPT !.pending = Append(@, call)]
      BY <1>3, <1>7
    <2>2. /\ Keeps(taken, w, {"state", "outcome", "results"})
          /\ Reports(taken, w, i, "CONFIRMATION_REQUIRED", "none")
      BY <1>2, <1>4, ReportFields
    <2> HIDE DEF w
    <2>3. /\ Keeps(u, v, {"state", "outcome", "results", "seen", "pending"})
          /\ v.pending = Append(u.pending, call) /\ v.seen = u.seen \cup {fingerprint(call)}
          /\ v.state = w.state /\ v.results = w.results
      BY <1>4, <2>1, <2>2 DEF Keeps, Fields
    <2>4. Reports(u, v, i, "CONFIRMATION_REQUIRED", "none")
      BY <1>4, <2>2, <2>3 DEF Reports
    <2>5. fingerprint(call) \notin u.seen
      BY <1>7 DEF repeats
    <2>6. TurnInv(v, settings.confirm, ledger[t])
      BY <1>1, <1>2, <2>3, <2>4, <2>5, RefusesInv
    <2> QED
      BY <1>2, <2>6 DEF Moves, LoopTyped, v
  <1>8. CASE /\ gate(call) = "none" /\ ~repeats(u, call)
             /\ screen_tool_input(call.tool, call.args) /\ ~asks_first(call)
    <2>1. v = [taken EXCEPT !.state[i] = "sent", !.begun = @ + 1]
      BY <1>3, <1>8
    <2>2. /\ Keeps(u, v, {"state", "seen", "begun"}) /\ v.begun = u.begun + 1
          /\ v.state = [u.state EXCEPT ![i] = "sent"] /\ v.seen = u.seen \cup {fingerprint(call)}
      BY <1>4, <2>1 DEF Keeps, Fields
    <2>3. fingerprint(call) \notin u.seen /\ (settings.confirm => ~writes(call.tool))
      BY <1>8, WritesAskFirst DEF repeats
    <2>4. TurnInv(v, settings.confirm, ledger[t])
      BY <1>1, <1>2, <2>2, <2>3, SendsInv
    <2> QED
      BY <1>2, <2>4 DEF Moves, LoopTyped, v
  <1> QED
    BY <1>5, <1>6, <1>7, <1>8

\* What the adapter makes of the answer to a write: only a lost reply is taken for
\* a request that never arrived.
LEMMA ExecuteFacts ==
  ASSUME NEW call, NEW script, NEW r, r = execute(call.tool, script), NEW code,
         code = apply_result_contract(call.tool, r.code, r.answer)
  PROVE  Honest(Result(call, code, r.answer))
  <1> SUFFICES ASSUME writes(call.tool), MayApply(r.answer), r.answer # "lost"
               PROVE  code \in UNKNOWN_EFFECT_CODES \cup {"none"}
    BY DEF Honest, Result
  <1> DEFINE n == call_with_retry(script, writes(call.tool))
  <1>1. r.answer = script[n] /\ r.code = adapter_code(script[n], writes(call.tool))
    BY DEF execute
  <1> HIDE DEF n
  <1>2. ASSUME NEW answer, MayApply(answer), answer # "lost"
        PROVE  adapter_code(answer, TRUE) \in {"none", "TICKET_SERVICE_ERROR"}
    BY <1>2 DEF MayApply, adapter_code
  <1>3. writes(call.tool) = TRUE
    BY DEF writes, known, TOOLS, ToolSpec
  <1>4. r.code \in {"none", "TICKET_SERVICE_ERROR"}
    BY <1>1, <1>2, <1>3
  <1>5. code \in {r.code, "RESULT_SCHEMA_VIOLATION"}
    BY DEF apply_result_contract
  <1> QED
    BY <1>4, <1>5 DEF UNKNOWN_EFFECT_CODES

\* What the ledger holds is a success until the contract looks at it, and what was
\* not attempted, or raised, claims nothing of the effect.
LEMMA OtherwiseHonest ==
  ASSUME NEW call, NEW answer
  PROVE  /\ Honest(Result(call, apply_result_contract(call.tool, "none", answer), answer))
         /\ \A code : Honest(Result(call, code, "none"))
         /\ Honest(Result(call, "UNCLASSIFIED", answer))
  <1>1. apply_result_contract(call.tool, "none", answer) \in {"none", "RESULT_SCHEMA_VIOLATION"}
    BY DEF apply_result_contract
  <1>2. ~MayApply("none")
    BY DEF MayApply
  <1> QED
    BY <1>1, <1>2 DEF Honest, Result, UNKNOWN_EFFECT_CODES

LEMMA AttemptFields ==
  ASSUME NEW u, DOMAIN u = Fields, NEW call, NEW row, NEW w, w = Attempt(u, call, row)
  PROVE  /\ Keeps(u, w, {"attempts"}) /\ w.calls = u.calls /\ w.state = u.state
         /\ w.results = u.results
         /\ \/ w.attempts = u.attempts
            \/ /\ w.attempts = Append(u.attempts, [call |-> fingerprint(call), row |-> row])
               /\ writes(call.tool) /\ row # "none"
  BY DEF Attempt, Keeps, Fields

\* The attempt that a call that raised, or was broken off, leaves behind.
LEMMA RowFacts ==
  ASSUME NEW u, NEW call
  PROVE  /\ begun_row(u, call) \in {"started", "failed"}
         /\ \A end \in Raised(u, call) : end.row \in {"none", "started", "failed"}
  <1>1. begun_row(u, call) \in {"started", "failed"}
    BY DEF begun_row
  <1> DEFINE b == begun_row(u, call)
  <1>2. ASSUME NEW end \in Raised(u, call) PROVE end.row \in {"none", "started", "failed"}
    <2> HIDE DEF b
    <2>1. b \in {"started", "failed"}
      BY <1>1 DEF b
    <2>2. \/ end = [answer |-> "lost", row |-> "failed"]
          \/ end = [answer |-> "lost", row |-> b]
          \/ end = [answer |-> "none", row |-> "none"]
      BY DEF Raised, b
    <2> QED
      BY <2>1, <2>2
  <1> QED
    BY <1>1, <1>2

\* What an attempt with a row adds, whichever the row is.
LEMMA AttemptedRow ==
  ASSUME NEW u, DOMAIN u = Fields, NEW call, NEW row \in {"none", "started", "failed", "succeeded"},
         NEW rows, writes(call.tool) /\ row = "succeeded" => \E r \in rows : r.call = fingerprint(call),
         NEW v, v.attempts = Attempt(u, call, row).attempts
  PROVE  Attempted(u, v, call, rows)
  <1> DEFINE w == Attempt(u, call, row)
  <1>1. \/ w.attempts = u.attempts
        \/ /\ w.attempts = Append(u.attempts, [call |-> fingerprint(call), row |-> row])
           /\ writes(call.tool) /\ row # "none"
    <2>1. w = Attempt(u, call, row)
      OBVIOUS
    <2> HIDE DEF w
    <2> QED
      BY <2>1, AttemptFields
  <1>2. v.attempts = w.attempts
    OBVIOUS
  <1> HIDE DEF w
  <1> QED
    BY <1>1, <1>2 DEF Attempted

\* A report of what an attempt came to.
LEMMA AttemptReported ==
  ASSUME NEW u, DOMAIN u = Fields, NEW i \in DOMAIN u.calls, NEW row, NEW code, NEW answer, NEW v,
         v = Report(Attempt(u, u.calls[i], row), i, code, answer)
  PROVE  /\ Keeps(u, v, {"state", "outcome", "results", "attempts"})
         /\ v.attempts = Attempt(u, u.calls[i], row).attempts
         /\ Reports(u, v, i, code, answer)
  <1> DEFINE call == u.calls[i]
             w == Attempt(u, call, row)
  <1>1. /\ Keeps(u, w, {"attempts"}) /\ w.calls = u.calls /\ w.state = u.state
        /\ w.results = u.results
    <2> HIDE DEF call
    <2> QED
      BY DEF Attempt, Keeps, Fields
  <1>2. v = Report(w, i, code, answer)
    OBVIOUS
  <1> HIDE DEF w
  <1>3. Keeps(w, v, {"state", "outcome", "results"}) /\ Reports(w, v, i, code, answer)
    BY <1>1, <1>2, ReportFields DEF Keeps
  <1>4. /\ Keeps(u, v, {"state", "outcome", "results", "attempts"}) /\ v.attempts = w.attempts
        /\ Reports(u, v, i, code, answer)
    BY <1>1, <1>3 DEF Keeps, Fields, Reports
  <1> QED
    BY <1>4 DEF w

\* The ledger after a call: the rows it had, and one for a write that succeeded.
LEMMA RecordFacts ==
  ASSUME LoopTyped, NEW t \in Turns, NEW call, NEW r, record_effect(t, call, r)
  PROVE  /\ DOMAIN ledger' = Turns /\ \A s \in Turns \ {t} : ledger'[s] = ledger[s]
         /\ ledger[t] \subseteq ledger'[t]
         /\ writes(call.tool) /\ r.code = "none"
              => \E row \in ledger'[t] : row.call = fingerprint(call)
  <1> DEFINE row == [call |-> fingerprint(call), answer |-> r.answer]
  <1>1. row.call = fingerprint(call)
    OBVIOUS
  <1> HIDE DEF row
  <1>2. CASE writes(call.tool) /\ r.code = "none"
    <2>1. ledger' = [ledger EXCEPT ![t] = @ \cup {row}]
      BY <1>2 DEF record_effect, row
    <2> QED
      BY <1>1, <2>1 DEF LoopTyped
  <1>3. CASE ~(writes(call.tool) /\ r.code = "none")
    BY <1>3 DEF record_effect, LoopTyped
  <1> QED
    BY <1>2, <1>3

LEMMA ReturnsStep ==
  ASSUME LoopTyped, LoopInv, NEW t \in Turns, NEW i \in Positions, Returns(t, i)
  PROVE  Moves(t)
  <1> DEFINE u == turn[t]
             v == turn'[t]
             call == u.calls[i]
  <1>1. TurnInv(u, settings.confirm, ledger[t]) /\ DOMAIN u = Fields
    BY DEF LoopInv, TurnInv, Shape
  <1>2. /\ settings' = settings
        /\ u.pc = "batch" /\ i \in DOMAIN u.calls /\ u.state[i] = "sent"
    BY DEF Returns
  <1>3. PICK script \in Scripts :
          LET r == execute(call.tool, script)
              code == apply_result_contract(call.tool, r.code, r.answer)
              w == Attempt(u, call, row_of(r))
          IN /\ record_effect(t, call, r)
             /\ \/ turn' = [turn EXCEPT ![t] = Report(w, i, "GUARDRAIL_REFUSED", r.answer)]
                \/ turn' = [turn EXCEPT ![t] = Report(w, i, code, r.answer)]
    BY DEF Returns
  <1> DEFINE r == execute(call.tool, script)
             row == row_of(r)
             w == Attempt(u, call, row)
  <1>4. PICK code : turn' = [turn EXCEPT ![t] = Report(w, i, code, r.answer)]
    BY <1>3
  <1>5. /\ DOMAIN turn' = Turns /\ \A s \in Turns \ {t} : turn'[s] = turn[s]
        /\ v = Report(w, i, code, r.answer)
    BY <1>4 DEF LoopTyped
  <1>6. /\ DOMAIN ledger' = Turns /\ \A s \in Turns \ {t} : ledger'[s] = ledger[s]
        /\ ledger[t] \subseteq ledger'[t]
        /\ writes(call.tool) /\ r.code = "none"
             => \E x \in ledger'[t] : x.call = fingerprint(call)
    BY <1>3, RecordFacts
  <1>7. row \in {"none", "started", "failed", "succeeded"} /\ (row = "succeeded" => r.code = "none")
    BY DEF row_of
  <1> HIDE DEF u, v, r, row
  <1>8. /\ Keeps(u, v, {"state", "outcome", "results", "attempts"})
        /\ v.attempts = w.attempts /\ Reports(u, v, i, code, r.answer)
    BY <1>1, <1>2, <1>5, AttemptReported
  <1>9. Attempted(u, v, call, ledger'[t])
    <2>1. writes(call.tool) /\ row = "succeeded" => \E x \in ledger'[t] : x.call = fingerprint(call)
      BY <1>6, <1>7
    <2> HIDE DEF call
    <2> QED
      BY <1>1, <1>7, <1>8, <2>1, AttemptedRow
  <1> HIDE DEF w
  <1>10. TurnInv(v, settings.confirm, ledger'[t])
    BY <1>1, <1>2, <1>6, <1>8, <1>9, AnswersInv
  <1> QED
    BY <1>2, <1>5, <1>6, <1>10 DEF Moves, v

\* The call raises, or its deadline passes: the ledger has no row of a success.
LEMMA BrokenOffStep ==
  ASSUME LoopTyped, LoopInv, NEW t \in Turns, NEW i \in Positions,
         Raises(t, i) \/ DeadlineFires(t, i)
  PROVE  Moves(t)
  <1> DEFINE u == turn[t]
             v == turn'[t]
             call == u.calls[i]
  <1>1. TurnInv(u, settings.confirm, ledger[t]) /\ DOMAIN u = Fields
    BY DEF LoopInv, TurnInv, Shape
  <1>2. /\ settings' = settings /\ ledger' = ledger
        /\ u.pc = "batch" /\ i \in DOMAIN u.calls /\ u.state[i] = "sent"
    BY DEF Raises, DeadlineFires
  <1>3. \E row \in {"none", "started", "failed"} : \E code, answer :
          turn' = [turn EXCEPT ![t] = Report(Attempt(u, call, row), i, code, answer)]
    <2>1. CASE Raises(t, i)
      <3>1. PICK end \in Raised(u, call) :
              turn' = [turn EXCEPT ![t] = Report(Attempt(u, call, end.row), i, "UNCLASSIFIED", end.answer)]
        BY <2>1 DEF Raises
      <3>2. end.row \in {"none", "started", "failed"}
        BY RowFacts
      <3> QED
        BY <3>1, <3>2
    <2>2. CASE DeadlineFires(t, i)
      <3>1. \E code : turn' = [turn EXCEPT ![t] = Report(Attempt(u, call, begun_row(u, call)), i, code, "lost")]
        BY <2>2 DEF DeadlineFires
      <3>2. begun_row(u, call) \in {"none", "started", "failed"}
        BY RowFacts
      <3> QED
        BY <3>1, <3>2
    <2> QED
      BY <2>1, <2>2
  <1>a. PICK row \in {"none", "started", "failed"} : \E code, answer :
          turn' = [turn EXCEPT ![t] = Report(Attempt(u, call, row), i, code, answer)]
    BY <1>3
  <1>4. PICK code, answer :
          turn' = [turn EXCEPT ![t] = Report(Attempt(u, call, row), i, code, answer)]
    BY <1>a
  <1> DEFINE w == Attempt(u, call, row)
  <1>5. /\ DOMAIN turn' = Turns /\ \A s \in Turns \ {t} : turn'[s] = turn[s]
        /\ v = Report(w, i, code, answer)
    BY <1>4 DEF LoopTyped
  <1> HIDE DEF u, v
  <1>6. /\ Keeps(u, v, {"state", "outcome", "results", "attempts"})
        /\ v.attempts = w.attempts /\ Reports(u, v, i, code, answer)
    BY <1>1, <1>2, <1>5, AttemptReported
  <1>7. Attempted(u, v, call, ledger[t])
    <2>1. ~(row = "succeeded") /\ row \in {"none", "started", "failed", "succeeded"}
      OBVIOUS
    <2> HIDE DEF call
    <2> QED
      BY <1>1, <1>6, <2>1, AttemptedRow
  <1> HIDE DEF w
  <1>8. TurnInv(v, settings.confirm, ledger[t])
    BY <1>1, <1>2, <1>6, <1>7, AnswersInv
  <1> QED
    BY <1>2, <1>5, <1>8 DEF Moves, LoopTyped, v

\* The loop asks again only when nothing waits for the user.
LEMMA EndRoundStep ==
  ASSUME LoopTyped, LoopInv, NEW t \in Turns, EndRound(t)
  PROVE  Moves(t)
  <1> DEFINE u == turn[t]
             v == turn'[t]
  <1>1. TurnInv(u, settings.confirm, ledger[t]) /\ DOMAIN u = Fields
    BY DEF LoopInv, TurnInv, Shape
  <1>2. stop_reason(u) = "none" => u.pending = <<>>
    BY DEF stop_reason
  <1>3. /\ settings' = settings /\ ledger' = ledger /\ DOMAIN turn' = Turns
        /\ \A s \in Turns \ {t} : turn'[s] = turn[s]
        /\ u.pc = "batch" /\ v.calls = <<>> /\ v.state = <<>>
        /\ v.pc = IF stop_reason(u) = "none" THEN "ask" ELSE "over"
        /\ Keeps(u, v, {"pc", "stop", "replies", "withdrawn", "calls", "state", "outcome"})
    BY ZenonT(40), <1>1 DEF EndRound, LoopTyped, Keeps, Fields
  <1> HIDE DEF u, v
  <1>4. TurnInv(v, settings.confirm, ledger[t])
    BY <1>1, <1>2, <1>3, EndsInv
  <1> QED
    BY <1>3, <1>4 DEF Moves, LoopTyped, v

LEMMA LeaveStep ==
  ASSUME LoopTyped, LoopInv, NEW t \in Turns, LeaveLoop(t) \/ LeaveConfirm(t)
  PROVE  Moves(t)
  <1> DEFINE u == turn[t]
             v == turn'[t]
  <1>1. TurnInv(u, settings.confirm, ledger[t]) /\ DOMAIN u = Fields
    BY DEF LoopInv, TurnInv, Shape
  <1>2. /\ settings' = settings /\ ledger' = ledger /\ DOMAIN turn' = Turns
        /\ \A s \in Turns \ {t} : turn'[s] = turn[s]
    BY DEF LeaveLoop, LeaveConfirm, LoopTyped
  <1>3. \/ \E p \in {"clarify", "answer"} : v = [Started EXCEPT !.pc = p]
        \/ /\ u.pc \in {"batch", "over"}
           /\ v = [u EXCEPT !.pc = "confirm", !.calls = <<>>, !.state = <<>>, !.outcome = <<>>]
    BY DEF LeaveLoop, LeaveConfirm, LoopTyped
  <1> HIDE DEF u, v
  <1>4. TurnInv(v, settings.confirm, ledger[t])
    <2>1. CASE \E p \in {"clarify", "answer"} : v = [Started EXCEPT !.pc = p]
      BY <2>1, StartedInv
    <2>2. CASE /\ u.pc \in {"batch", "over"}
               /\ v = [u EXCEPT !.pc = "confirm", !.calls = <<>>, !.state = <<>>, !.outcome = <<>>]
      <3>1. /\ Keeps(u, v, {"pc", "stop", "replies", "withdrawn", "calls", "state", "outcome"})
            /\ v.pc = "confirm" /\ v.calls = <<>> /\ v.state = <<>>
        BY <1>1, <2>2 DEF Keeps, Fields
      <3> QED
        BY <1>1, <2>2, <3>1, EndsInv
    <2> QED
      BY <1>3, <2>1, <2>2
  <1> QED
    BY <1>2, <1>4 DEF Moves, LoopTyped, v

LEMMA ConfirmStep ==
  ASSUME LoopTyped, LoopInv, NEW t \in Turns, NEW verdict, confirm_writes(t, verdict)
  PROVE  Moves(t) /\ turn'[t].pc = "execute"
  <1> DEFINE u == turn[t]
             v == turn'[t]
  <1>1. TurnInv(u, settings.confirm, ledger[t]) /\ DOMAIN u = Fields
    BY DEF LoopInv, TurnInv, Shape
  <1>2. /\ settings' = settings /\ ledger' = ledger /\ DOMAIN turn' = Turns
        /\ \A s \in Turns \ {t} : turn'[s] = turn[s]
        /\ u.pc = "confirm" /\ v.pc = "execute" /\ v.calls = u.pending
        /\ v.found = Len(u.results) /\ v.state = [i \in DOMAIN u.pending |-> "new"]
        /\ v.shown = {fingerprint(u.pending[i]) : i \in DOMAIN u.pending}
        /\ Keeps(u, v, {"pc", "verdict", "found", "shown", "calls", "state", "outcome"})
    BY <1>1 DEF confirm_writes, LoopTyped, Keeps, Fields
  <1> HIDE DEF u, v
  <1>3. TurnInv(v, settings.confirm, ledger[t])
    BY <1>1, <1>2, ConfirmsInv
  <1>4. Moves(t)
    BY <1>2, <1>3 DEF Moves, LoopTyped, v
  <1> QED
    BY <1>2, <1>4 DEF v

\* A call that is not in the ledger and not in progress may be attempted.
LEMMA NothingRuns ==
  ASSUME LoopInv, NEW t \in Turns, NEW call, ~ledger_holds(t, call), ~in_progress(turn[t], call)
  PROVE  MayAttempt(turn[t], call)
  <1> DEFINE u == turn[t]
  <1>1. Recorded(u, ledger[t])
    BY DEF LoopInv, TurnInv
  <1>2. \A row \in ledger[t] : row.call # fingerprint(call)
    BY DEF ledger_holds
  <1>3. \A a \in DOMAIN u.attempts : ~(u.attempts[a].call = fingerprint(call) /\ u.attempts[a].row = "started")
    BY DEF in_progress, attempted
  <1> HIDE DEF u
  <1>4. MayAttempt(u, call)
    BY <1>1, <1>2, <1>3 DEF Recorded, MayAttempt
  <1> QED
    BY <1>4 DEF u

LEMMA ReplayStep ==
  ASSUME LoopTyped, LoopInv, NEW t \in Turns, ReplayConfirm(t)
  PROVE  Moves(t)
  <1> DEFINE u == turn[t]
             v == turn'[t]
             again(x) == [x EXCEPT !.state = [i \in DOMAIN u.calls |-> "new"],
                                   !.results = SubSeq(@, 1, u.found),
                                   !.replays = @ + 1]
  <1>1. TurnInv(u, settings.confirm, ledger[t]) /\ DOMAIN u = Fields
    BY DEF LoopInv, TurnInv, Shape
  <1>2. /\ settings' = settings /\ ledger' = ledger /\ u.pc = "execute"
        /\ \/ turn' = [turn EXCEPT ![t] = again(u)]
           \/ \E i \in {j \in DOMAIN u.calls : runs_next(t, j)} :
                turn' = [turn EXCEPT ![t] = again(Attempt(u, u.calls[i], begun_row(u, u.calls[i])))]
    BY DEF ReplayConfirm
  <1>3. ASSUME NEW x, DOMAIN x = Fields, x.results = u.results, Keeps(u, x, {"attempts"}),
               turn' = [turn EXCEPT ![t] = again(x)]
        PROVE  /\ DOMAIN turn' = Turns /\ \A s \in Turns \ {t} : turn'[s] = turn[s]
               /\ v.state = [i \in DOMAIN u.calls |-> "new"] /\ v.results = SubSeq(u.results, 1, u.found)
               /\ v.attempts = x.attempts /\ Keeps(u, v, {"state", "results", "replays", "attempts"})
    BY <1>3 DEF LoopTyped, Keeps, Fields
  <1>4. CASE turn' = [turn EXCEPT ![t] = again(u)]
    <2>1. Keeps(u, u, {"attempts"})
      BY <1>1 DEF Keeps
    <2>2. /\ DOMAIN turn' = Turns /\ \A s \in Turns \ {t} : turn'[s] = turn[s]
          /\ v.state = [i \in DOMAIN u.calls |-> "new"] /\ v.results = SubSeq(u.results, 1, u.found)
          /\ v.attempts = u.attempts /\ Keeps(u, v, {"state", "results", "replays", "attempts"})
      <3> HIDE DEF v
      <3> QED
        BY <1>1, <1>3, <1>4, <2>1
    <2> HIDE DEF u, v
    <2>3. TurnInv(v, settings.confirm, ledger[t])
      BY <1>1, <1>2, <2>2, ReplaysInv
    <2> QED
      BY <1>2, <2>2, <2>3 DEF Moves, LoopTyped, v
  <1>5. CASE \E i \in {j \in DOMAIN u.calls : runs_next(t, j)} :
               turn' = [turn EXCEPT ![t] = again(Attempt(u, u.calls[i], begun_row(u, u.calls[i])))]
    <2>1. PICK i \in {j \in DOMAIN u.calls : runs_next(t, j)} :
               turn' = [turn EXCEPT ![t] = again(Attempt(u, u.calls[i], begun_row(u, u.calls[i])))]
      BY <1>5
    <2> DEFINE call == u.calls[i]
               row == begun_row(u, call)
               w == Attempt(u, call, row)
    <2>2. ~ledger_holds(t, call) /\ ~in_progress(turn[t], call) /\ i \in DOMAIN u.calls
      BY <2>1 DEF runs_next
    <2>3. MayAttempt(u, call)
      BY <2>2, NothingRuns
    <2>4. row \in {"started", "failed"}
      BY RowFacts
    <2>5. Keeps(u, w, {"attempts"}) /\ w.results = u.results
      <3> HIDE DEF row, call, u
      <3> QED
        BY <1>1 DEF Attempt, Keeps, Fields
    <2>6. turn' = [turn EXCEPT ![t] = again(w)]
      BY <2>1
    <2> HIDE DEF w
    <2>7. /\ DOMAIN turn' = Turns /\ \A s \in Turns \ {t} : turn'[s] = turn[s]
          /\ v.state = [k \in DOMAIN u.calls |-> "new"] /\ v.results = SubSeq(u.results, 1, u.found)
          /\ v.attempts = w.attempts /\ Keeps(u, v, {"state", "results", "replays", "attempts"})
      <3>1. DOMAIN w = Fields
        BY <2>5 DEF Keeps
      <3> HIDE DEF v
      <3> QED
        BY <1>3, <2>5, <2>6, <3>1
    <2>8. Attempted(u, v, call, ledger[t])
      <3>1. ~(row = "succeeded") /\ row \in {"none", "started", "failed", "succeeded"}
        BY <2>4
      <3>2. v.attempts = Attempt(u, call, row).attempts
        BY <2>7 DEF w
      <3> HIDE DEF u, v, call, row
      <3> QED
        BY <1>1, <3>1, <3>2, AttemptedRow
    <2> HIDE DEF u, v
    <2>9. TurnInv(v, settings.confirm, ledger[t])
      BY <1>1, <1>2, <2>2, <2>3, <2>7, <2>8, ReplaysInv
    <2> QED
      BY <1>2, <2>7, <2>9 DEF Moves, LoopTyped, v
  <1> QED
    BY <1>2, <1>4, <1>5

LEMMA LeaseStep ==
  ASSUME LoopTyped, LoopInv, NEW t \in Turns, LeaseRunsOut(t)
  PROVE  Moves(t)
  <1> DEFINE u == turn[t]
             v == turn'[t]
             late(a) == [call |-> a.call, row |-> IF a.row = "started" THEN "stale" ELSE a.row]
  <1>1. TurnInv(u, settings.confirm, ledger[t]) /\ DOMAIN u = Fields
    BY DEF LoopInv, TurnInv, Shape
  <1>2. /\ settings' = settings /\ ledger' = ledger
        /\ turn' = [turn EXCEPT ![t].attempts = [k \in DOMAIN @ |-> late(@[k])]]
    BY DEF LeaseRunsOut
  <1>3. /\ DOMAIN turn' = Turns /\ \A s \in Turns \ {t} : turn'[s] = turn[s]
        /\ v = [u EXCEPT !.attempts = [k \in DOMAIN @ |-> late(@[k])]]
    BY <1>2 DEF LoopTyped
  <1>4. \A a : /\ late(a).call = a.call
               /\ late(a).row = IF a.row = "started" THEN "stale" ELSE a.row
    OBVIOUS
  <1> HIDE DEF u, v, late
  <1>5. Keeps(u, v, {"attempts"}) /\ v.attempts = [k \in DOMAIN u.attempts |-> late(u.attempts[k])]
    BY <1>1, <1>3 DEF Keeps, Fields
  <1>6. /\ DOMAIN v.attempts = DOMAIN u.attempts /\ v.attempts = [k \in DOMAIN u.attempts |-> v.attempts[k]]
        /\ \A k \in DOMAIN u.attempts :
             /\ v.attempts[k].call = u.attempts[k].call
             /\ v.attempts[k].row = IF u.attempts[k].row = "started" THEN "stale" ELSE u.attempts[k].row
    BY <1>4, <1>5
  <1>7. TurnInv(v, settings.confirm, ledger[t])
    BY <1>1, <1>5, <1>6, LeaseInv
  <1> QED
    BY <1>2, <1>3, <1>7 DEF Moves, LoopTyped, v

\* What the confirmation node concludes of one call.
Concluded(t, i, row, code, answer) ==
  turn' = [turn EXCEPT ![t] = Report(Attempt(turn[t], turn[t].calls[i], row), i, code, answer)]

LEMMA ConcludedStep ==
  ASSUME LoopTyped, LoopInv, NEW t \in Turns, NEW i \in DOMAIN turn[t].calls,
         turn[t].pc = "execute", turn[t].state[i] = "new", turn[t].verdict = "approved",
         NEW row \in {"none", "started", "failed", "succeeded"}, NEW code, NEW answer,
         Concluded(t, i, row, code, answer), settings' = settings,
         Honest(Result(turn[t].calls[i], code, answer)),
         row = "none" \/ MayAttempt(turn[t], turn[t].calls[i]),
         DOMAIN ledger' = Turns, \A s \in Turns \ {t} : ledger'[s] = ledger[s],
         ledger[t] \subseteq ledger'[t],
         writes(turn[t].calls[i].tool) /\ row = "succeeded"
           => \E x \in ledger'[t] : x.call = fingerprint(turn[t].calls[i])
  PROVE  Moves(t)
  <1> DEFINE u == turn[t]
             v == turn'[t]
             call == u.calls[i]
             w == Attempt(u, call, row)
  <1>1. TurnInv(u, settings.confirm, ledger[t]) /\ DOMAIN u = Fields
    BY DEF LoopInv, TurnInv, Shape
  <1>2. /\ DOMAIN turn' = Turns /\ \A s \in Turns \ {t} : turn'[s] = turn[s]
        /\ v = Report(w, i, code, answer)
    BY DEF LoopTyped, Concluded
  <1> HIDE DEF v
  <1>3. /\ Keeps(u, v, {"state", "outcome", "results", "attempts"})
        /\ v.attempts = w.attempts /\ Reports(u, v, i, code, answer)
    <2> HIDE DEF u
    <2>1. i \in DOMAIN u.calls
      BY DEF u
    <2> QED
      BY <1>1, <1>2, <2>1, AttemptReported
  <1>4. Attempted(u, v, call, ledger'[t])
    <2>1. writes(call.tool) /\ row = "succeeded" => \E x \in ledger'[t] : x.call = fingerprint(call)
      OBVIOUS
    <2> HIDE DEF call, u
    <2> QED
      BY <1>1, <1>3, <2>1, AttemptedRow
  <1>5. v.attempts = u.attempts \/ MayAttempt(u, call)
    <2>1. row = "none" => w.attempts = u.attempts
      BY DEF Attempt
    <2> QED
      BY <1>3, <2>1
  <1>6. /\ u.pc = "execute" /\ u.verdict = "approved" /\ u.state[i] = "new"
        /\ Honest(Result(u.calls[i], code, answer))
    OBVIOUS
  <1> HIDE DEF u, w
  <1>7. TurnInv(v, settings.confirm, ledger'[t])
    BY <1>1, <1>3, <1>4, <1>5, <1>6, ExecutesInv
  <1> QED
    BY <1>2, <1>7 DEF Moves, v, u

LEMMA ExecuteStep ==
  ASSUME LoopTyped, LoopInv, NEW t \in Turns, NEW i \in Positions, execute_confirmed(t, i)
  PROVE  Moves(t)
  <1> DEFINE u == turn[t]
             v == turn'[t]
             call == u.calls[i]
             Refused == u.verdict # "approved" \/ ~authorize_tool(Roles, call.tool)
  <1>1. TurnInv(u, settings.confirm, ledger[t]) /\ DOMAIN u = Fields
    BY DEF LoopInv, TurnInv, Shape
  <1>2. /\ settings' = settings
        /\ u.pc = "execute" /\ i \in DOMAIN u.calls /\ u.state[i] = "new"
    BY DEF execute_confirmed
  <1>3. CASE Refused
    <2>1. ledger' = ledger /\ \E code : turn' = [turn EXCEPT ![t] = Report(u, i, code, "none")]
      BY <1>3 DEF execute_confirmed
    <2>2. PICK code : turn' = [turn EXCEPT ![t] = Report(u, i, code, "none")]
      BY <2>1
    <2>3. /\ DOMAIN turn' = Turns /\ \A s \in Turns \ {t} : turn'[s] = turn[s]
          /\ v = Report(u, i, code, "none")
      BY <2>2 DEF LoopTyped
    <2> HIDE DEF u, v
    <2>4. Keeps(u, v, {"state", "outcome", "results"}) /\ Reports(u, v, i, code, "none")
      BY <1>1, <1>2, <2>3, ReportFields
    <2>5. /\ Keeps(u, v, {"state", "outcome", "results", "seen", "pending"})
          /\ v.pending = u.pending /\ u.seen \subseteq v.seen
      BY <2>4 DEF Keeps, Fields
    <2>6. TurnInv(v, settings.confirm, ledger[t])
      BY <1>1, <1>2, <2>4, <2>5, RefusesInv
    <2> QED
      BY <1>2, <2>1, <2>3, <2>6 DEF Moves, LoopTyped, v
  <1>4. ASSUME NEW code, NEW answer, ~Refused, ledger' = ledger,
               turn' = [turn EXCEPT ![t] = Report(u, i, code, answer)], Honest(Result(call, code, answer))
        PROVE  Moves(t)
    <2>1. Attempt(u, call, "none") = u
      BY DEF Attempt
    <2>2. Concluded(t, i, "none", code, answer)
      BY <1>4, <2>1 DEF Concluded
    <2>3. DOMAIN ledger' = Turns /\ \A s \in Turns \ {t} : ledger'[s] = ledger[s]
      BY <1>4 DEF LoopTyped
    <2>4. ledger[t] \subseteq ledger'[t]
      BY <1>4
    <2> QED
      BY <1>2, <1>4, <2>2, <2>3, <2>4, ConcludedStep
  <1>5. CASE ~Refused /\ ledger_holds(t, call)
    <2> DEFINE answer == recorded(t, call)
               code == apply_result_contract(call.tool, "none", answer)
    <2>1. ledger' = ledger /\ turn' = [turn EXCEPT ![t] = Report(u, i, code, answer)]
      BY <1>5 DEF execute_confirmed, Concludes
    <2>2. Honest(Result(call, code, answer))
      BY OtherwiseHonest
    <2> HIDE DEF u, call, answer, code
    <2> QED
      BY <1>4, <1>5, <2>1, <2>2
  <1>6. CASE ~Refused /\ ~ledger_holds(t, call) /\ in_progress(u, call)
    <2>1. /\ ledger' = ledger
          /\ turn' = [turn EXCEPT ![t] = Report(u, i, "EFFECT_IN_PROGRESS", "none")]
      BY <1>6 DEF execute_confirmed, Concludes
    <2>2. Honest(Result(call, "EFFECT_IN_PROGRESS", "none"))
      BY OtherwiseHonest
    <2> HIDE DEF u, call
    <2> QED
      BY <1>4, <1>6, <2>1, <2>2
  <1>7. CASE ~Refused /\ ~ledger_holds(t, call) /\ ~in_progress(u, call)
    <2>1. MayAttempt(u, call) /\ u.verdict = "approved"
      BY <1>7, NothingRuns
    <2>2. \/ \E script \in Scripts :
               LET r == execute(call.tool, script)
               IN /\ turn' = [turn EXCEPT ![t] = Report(Attempt(u, call, row_of(r)), i,
                                  apply_result_contract(call.tool, r.code, r.answer), r.answer)]
                  /\ record_effect(t, call, r)
          \/ /\ \E end \in Raised(u, call) :
                  turn' = [turn EXCEPT ![t] = Report(Attempt(u, call, end.row), i, "UNCLASSIFIED", end.answer)]
             /\ ledger' = ledger
      BY <1>7 DEF execute_confirmed, Concludes
    <2>3. CASE \E script \in Scripts :
                 LET r == execute(call.tool, script)
                 IN /\ turn' = [turn EXCEPT ![t] = Report(Attempt(u, call, row_of(r)), i,
                                    apply_result_contract(call.tool, r.code, r.answer), r.answer)]
                    /\ record_effect(t, call, r)
      <3>1. PICK script \in Scripts :
              LET r == execute(call.tool, script)
              IN /\ turn' = [turn EXCEPT ![t] = Report(Attempt(u, call, row_of(r)), i,
                                 apply_result_contract(call.tool, r.code, r.answer), r.answer)]
                 /\ record_effect(t, call, r)
        BY <2>3
      <3> DEFINE r == execute(call.tool, script)
                 row == row_of(r)
                 code == apply_result_contract(call.tool, r.code, r.answer)
                 answer == r.answer
      <3>2. Concluded(t, i, row, code, answer)
        BY <3>1 DEF Concluded
      <3>3. /\ DOMAIN ledger' = Turns /\ \A s \in Turns \ {t} : ledger'[s] = ledger[s]
            /\ ledger[t] \subseteq ledger'[t]
            /\ writes(call.tool) /\ r.code = "none"
                 => \E x \in ledger'[t] : x.call = fingerprint(call)
        BY <3>1, RecordFacts
      <3>4. row \in {"none", "started", "failed", "succeeded"} /\ (row = "succeeded" => r.code = "none")
        BY DEF row_of
      <3>5. Honest(Result(call, code, answer))
        BY ExecuteFacts
      <3> HIDE DEF r, row, code, answer
      <3> QED
        BY <1>2, <2>1, <3>2, <3>3, <3>4, <3>5, ConcludedStep
    <2>4. CASE /\ \E end \in Raised(u, call) :
                    turn' = [turn EXCEPT ![t] = Report(Attempt(u, call, end.row), i, "UNCLASSIFIED", end.answer)]
               /\ ledger' = ledger
      <3>1. PICK end \in Raised(u, call) :
              turn' = [turn EXCEPT ![t] = Report(Attempt(u, call, end.row), i, "UNCLASSIFIED", end.answer)]
        BY <2>4
      <3> DEFINE row == end.row
                 answer == end.answer
      <3>2. Concluded(t, i, row, "UNCLASSIFIED", answer)
        BY <3>1 DEF Concluded
      <3>3. /\ DOMAIN ledger' = Turns /\ \A s \in Turns \ {t} : ledger'[s] = ledger[s]
            /\ ledger[t] \subseteq ledger'[t]
        BY <2>4 DEF LoopTyped
      <3>4. row \in {"none", "started", "failed", "succeeded"} /\ row # "succeeded"
        <4>1. row \in {"none", "started", "failed"}
          BY RowFacts
        <4> QED
          BY <4>1
      <3>5. Honest(Result(call, "UNCLASSIFIED", answer))
        BY OtherwiseHonest
      <3> HIDE DEF row, answer
      <3> QED
        BY <1>2, <2>1, <3>2, <3>3, <3>4, <3>5, ConcludedStep
    <2> QED
      BY <2>2, <2>3, <2>4
  <1> QED
    BY <1>3, <1>5, <1>6, <1>7

LEMMA TakeFacts ==
  ASSUME NEW s, IsSeq(s), NEW n \in Nat
  PROVE  /\ IsSeq(Take(n, s)) /\ Len(Take(n, s)) <= n /\ Len(Take(n, s)) <= Len(s)
         /\ \A k \in DOMAIN Take(n, s) : k \in DOMAIN s /\ Take(n, s)[k] = s[k]
  <1> DEFINE m == IF n < Len(s) THEN n ELSE Len(s)
  <1>1. m \in 0..Len(s) /\ m <= n /\ m <= Len(s)
    BY SeqFacts
  <1>2. Take(n, s) = SubSeq(s, 1, m)
    BY DEF Take
  <1> HIDE DEF m
  <1>3. LET a == SubSeq(s, 1, m)
        IN IsSeq(a) /\ Len(a) = m /\ DOMAIN a = 1..m /\ \A k \in 1..m : a[k] = s[k] /\ k \in DOMAIN s
    BY <1>1, SubSeqFacts
  <1> QED
    BY <1>1, <1>2, <1>3

\* A sequence over some set is one over its own members.
LEMMA AnySeq ==
  ASSUME NEW X, NEW s \in Seq(X)
  PROVE  IsSeq(s) /\ \A k \in DOMAIN s : s[k] \in X
  <1>1. Len(s) \in Nat /\ DOMAIN s = 1..Len(s) /\ s = [k \in 1..Len(s) |-> s[k]]
    OBVIOUS
  <1> QED
    BY <1>1, FunctionIsSeq

LEMMA FallbackStep ==
  ASSUME LoopTyped, LoopInv, NEW t \in Turns, Fallback(t)
  PROVE  Moves(t) /\ turn'[t].pc = "batch" /\ turn'[t].mode = "rules"
  <1> DEFINE u == turn[t]
             v == turn'[t]
             names == IF candidates(t) = {} THEN <<>> ELSE Take(u.budget, RuleTools)
             calls == [i \in DOMAIN names |-> [id |-> "rule", tool |-> names[i], args |-> "rule"]]
  <1>1. TurnInv(u, settings.confirm, ledger[t]) /\ DOMAIN u = Fields /\ u.budget \in Nat
    BY DEF LoopInv, TurnInv, Shape
  <1>2. IsSeq(names) /\ Len(names) <= u.budget
    <2>1. IsSeq(RuleTools)
      BY LoopAssumption, AnySeq
    <2>2. 0 <= u.budget
      BY <1>1
    <2> QED
      BY <1>1, <2>1, <2>2, TakeFacts, EmptyIsSeq
  <1> HIDE DEF names
  <1>3. IsSeq(calls) /\ Len(calls) = Len(names)
    <2>1. Len(names) \in Nat /\ DOMAIN names = 1..Len(names)
      BY <1>2, SeqFacts
    <2>2. DOMAIN calls = 1..Len(names) /\ calls = [i \in 1..Len(names) |-> calls[i]]
      BY <2>1
    <2> HIDE DEF calls
    <2> QED
      BY <2>1, <2>2, FunctionIsSeq
  <1>4. /\ settings' = settings /\ ledger' = ledger /\ DOMAIN turn' = Turns
        /\ \A s \in Turns \ {t} : turn'[s] = turn[s]
        /\ u.pc = "over" /\ v.pc = "batch" /\ v.mode = "rules" /\ v.rounds = 1 /\ v.calls = calls
        /\ v.budget = u.budget - Len(calls) /\ v.state = [i \in DOMAIN calls |-> "new"]
        /\ Keeps(u, v, {"pc", "mode", "stop", "rounds", "budget", "tokens", "calls", "state",
                        "outcome", "asked"})
    BY ZenonT(40), <1>1 DEF Fallback, LoopTyped, Keeps, Fields, names
  <1>5. v.rounds \in 0..MaxRounds
    BY <1>4, LoopAssumption
  <1> HIDE DEF u, v, calls
  <1>6. TurnInv(v, settings.confirm, ledger[t])
    BY <1>1, <1>2, <1>3, <1>4, <1>5, NewBatchInv
  <1>7. Moves(t)
    BY <1>4, <1>6 DEF Moves, LoopTyped, v
  <1> QED
    BY <1>4, <1>7 DEF v

LEMMA RunsOfBatch ==
  ASSUME NEW asked \in Batches, NEW calls, RunsOf(calls, asked)
  PROVE  IsSeq(calls) /\ \A k \in DOMAIN calls : AskedFor(calls[k])
  <1>1. PICK w \in [DOMAIN calls -> DOMAIN asked] : \A k \in DOMAIN calls : Run(calls[k], asked[w[k]])
    BY DEF RunsOf
  <1>2. IsSeq(asked)
    BY LoopAssumption, AnySeq
  <1>3. \A k \in DOMAIN asked : asked[k] \in ToSet(asked)
    BY <1>2 DEF ToSet
  <1> QED
    BY <1>1, <1>3 DEF AskedFor, RunsOf

\* The model decides: the decision is decoded, and the budget truncates it.
LEMMA DecideInv ==
  ASSUME NEW u, NEW v, NEW confirm, NEW rows, TurnInv(u, confirm, rows), u.pc = "ask",
         u.rounds < MaxRounds, NEW asked \in Batches, NEW calls, RunsOf(calls, asked),
         NEW tokens, v = Decide(u, calls, tokens)
  PROVE  TurnInv(v, confirm, rows)
  <1> DEFINE batch == Take(u.budget, calls)
             closed == [u EXCEPT !.pc = "over", !.tokens = tokens, !.stop = "TOKEN_BUDGET"]
             quiet == [u EXCEPT !.pc = "over", !.tokens = tokens, !.mode = "model"]
             next == [u EXCEPT !.pc = "batch", !.tokens = tokens, !.mode = "model",
                               !.rounds = @ + 1, !.budget = @ - Len(batch), !.calls = batch,
                               !.state = [i \in DOMAIN batch |-> "new"],
                               !.outcome = [i \in DOMAIN batch |-> NoResult],
                               !.asked = @ \cup {<<u.rounds + 1, calls[i].id>> : i \in DOMAIN calls}]
  <1>1. v \in {closed, quiet, next}
    BY DEF Decide
  <1>2. DOMAIN u = Fields /\ u.budget \in Nat /\ u.rounds \in Nat
    BY DEF TurnInv, Shape
  <1>3. CASE v \in {closed, quiet}
    <2>1. /\ v.pc = "over" /\ v.mode \in {u.mode, "model"}
          /\ Keeps(u, v, {"pc", "mode", "stop", "tokens"})
      BY <1>2, <1>3 DEF Keeps, Fields
    <2> QED
      BY <2>1, ClosesInv
  <1>4. CASE v = next
    <2>1. IsSeq(calls) /\ \A k \in DOMAIN calls : AskedFor(calls[k])
      BY RunsOfBatch
    <2>2. IsSeq(batch) /\ Len(batch) <= u.budget /\ \A k \in DOMAIN batch : AskedFor(batch[k])
      BY <1>2, <2>1, TakeFacts
    <2> HIDE DEF batch
    <2>3. /\ v.pc = "batch" /\ v.mode = "model" /\ v.rounds = u.rounds + 1
          /\ v.budget = u.budget - Len(batch) /\ v.calls = batch
          /\ v.state = [i \in DOMAIN batch |-> "new"]
          /\ Keeps(u, v, {"pc", "mode", "stop", "rounds", "budget", "tokens", "calls", "state",
                          "outcome", "asked"})
      BY ZenonT(40), <1>2, <1>4 DEF Keeps, Fields
    <2>4. v.rounds \in 0..MaxRounds
      BY <1>2, <2>3, LoopAssumption
    <2> HIDE DEF next
    <2> QED
      BY <2>2, <2>3, <2>4, NewBatchInv
  <1> QED
    BY <1>1, <1>3, <1>4

\* The model's decision: what it decoded to, from one of the batches.
Decides(t, calls, decoded, tokens) ==
  /\ RunsOf(decoded, calls)
  /\ DOMAIN turn' = Turns /\ \A s \in Turns \ {t} : turn'[s] = turn[s]
  /\ turn'[t] = Decide(turn[t], decoded, tokens)

LEMMA ModelDecides ==
  ASSUME LoopTyped, NEW t \in Turns, model_turn(t)
  PROVE  \E calls \in Batches : \E decoded, tokens : Decides(t, calls, decoded, tokens)
  <1> DEFINE u == turn[t]
             v == turn'[t]
  <1>1. PICK decoded \in Decisions, cost \in TurnTokens :
          turn' = [turn EXCEPT ![t] = Decide(u, decoded, u.tokens + cost)]
    BY DEF model_turn
  <1>2. PICK calls \in Batches : decoded \in Decoded(calls)
    BY DEF Decisions
  <1>3. RunsOf(decoded, calls)
    BY <1>2, LoopAssumption, DecodedCalls
  <1>4. /\ DOMAIN turn' = Turns /\ \A s \in Turns \ {t} : turn'[s] = turn[s]
        /\ v = Decide(u, decoded, u.tokens + cost)
    BY <1>1 DEF LoopTyped
  <1>5. Decides(t, calls, decoded, u.tokens + cost)
    BY <1>3, <1>4 DEF Decides
  <1> QED
    BY <1>5

LEMMA ModelStep ==
  ASSUME LoopTyped, LoopInv, NEW t \in Turns, model_turn(t)
  PROVE  Moves(t)
  <1> DEFINE u == turn[t]
             v == turn'[t]
  <1>1. TurnInv(u, settings.confirm, ledger[t])
    BY DEF LoopInv
  <1>2. /\ settings' = settings /\ ledger' = ledger /\ u.pc = "ask" /\ u.rounds < MaxRounds
    BY DEF model_turn, Loops
  <1>3. PICK calls \in Batches : \E decoded, tokens : Decides(t, calls, decoded, tokens)
    BY ModelDecides
  <1>4. PICK decoded, tokens : Decides(t, calls, decoded, tokens)
    BY <1>3
  <1>5. /\ RunsOf(decoded, calls) /\ v = Decide(u, decoded, tokens)
        /\ DOMAIN turn' = Turns /\ \A s \in Turns \ {t} : turn'[s] = turn[s]
    BY <1>4 DEF Decides
  <1> HIDE DEF u, v
  <1>6. TurnInv(v, settings.confirm, ledger[t])
    BY <1>1, <1>2, <1>5, DecideInv
  <1> QED
    BY <1>2, <1>5, <1>6 DEF Moves, LoopTyped, v

(************************* the echoed messages ****************************)
IdsOf(replies) == {r.id : r \in replies}

\* Of a finite set of replies, each answers another call, of a round up to n.
OneReplyEach(replies, n) ==
  /\ IsFiniteSet(replies)
  /\ \A r, s \in replies : r.id = s.id => r = s
  /\ \A r \in replies : r.id[1] \in 0..n

CallIds(u) == {<<u.rounds, u.calls[i].id>> : i \in DOMAIN u.calls}

\* Between two rounds every call has its reply; in a round, the calls it runs are
\* the ones without, unless the budget cut the batch and the loop will end.
Answered(u) ==
  /\ u.pc = "ask" => OneReplyEach(u.replies, u.rounds) /\ IdsOf(u.replies) = u.asked
  /\ u.pc = "batch" /\ u.mode = "model" =>
       /\ IdsApart(u.calls) /\ OneReplyEach(u.replies, u.rounds - 1)
       /\ u.budget > 0 => u.asked = IdsOf(u.replies) \cup CallIds(u)
AnsweredInv == \A t \in Turns : Answered(turn[t])

\* v is at the place of u, with the same calls, replies and budget.
Same(u, v) ==
  /\ DOMAIN v = Fields /\ v.pc = u.pc /\ v.mode = u.mode /\ v.rounds = u.rounds
  /\ v.budget = u.budget /\ v.calls = u.calls /\ v.asked = u.asked /\ v.replies = u.replies

LEMMA SameAnswered ==
  ASSUME NEW u, NEW v, Same(u, v), Answered(u)
  PROVE  Answered(v)
  BY DEF Same, Answered, CallIds

LEMMA ElsewhereAnswered ==
  ASSUME NEW v, v.pc \notin {"ask", "batch"} \/ (v.pc = "batch" /\ v.mode = "rules")
  PROVE  Answered(v)
  BY DEF Answered

LEMMA ReportSame ==
  ASSUME NEW u, DOMAIN u = Fields, NEW i, NEW code, NEW answer, NEW v, v = Report(u, i, code, answer)
  PROVE  Same(u, v)
  BY DEF Report, Same, Fields

\* A call that comes back, however it does, leaves its attempt and its report.
LEMMA BackReported ==
  ASSUME LoopTyped, NEW t \in Turns, NEW i \in Positions,
         Returns(t, i) \/ Raises(t, i) \/ DeadlineFires(t, i)
  PROVE  \E row, code, answer :
           turn'[t] = Report(Attempt(turn[t], turn[t].calls[i], row), i, code, answer)
  <1> DEFINE call == turn[t].calls[i]
             Back(row, code, answer) == Report(Attempt(turn[t], call, row), i, code, answer)
  <1>1. DOMAIN turn = Turns
    BY DEF LoopTyped
  <1>2. \E row, code, answer : turn' = [turn EXCEPT ![t] = Back(row, code, answer)]
    <2>1. CASE Returns(t, i)
      <3>1. PICK script \in Scripts :
              LET r == execute(call.tool, script)
                  code == apply_result_contract(call.tool, r.code, r.answer)
              IN \/ turn' = [turn EXCEPT ![t] = Back(row_of(r), "GUARDRAIL_REFUSED", r.answer)]
                 \/ turn' = [turn EXCEPT ![t] = Back(row_of(r), code, r.answer)]
        BY <2>1 DEF Returns
      <3> HIDE DEF Back
      <3> QED
        BY <3>1
    <2>2. CASE Raises(t, i)
      <3>1. PICK end \in Raised(turn[t], call) :
              turn' = [turn EXCEPT ![t] = Back(end.row, "UNCLASSIFIED", end.answer)]
        BY <2>2 DEF Raises
      <3> HIDE DEF Back
      <3> QED
        BY <3>1
    <2>3. CASE DeadlineFires(t, i)
      <3>1. \E code : turn' = [turn EXCEPT ![t] = Back(begun_row(turn[t], call), code, "lost")]
        BY <2>3 DEF DeadlineFires
      <3> HIDE DEF Back
      <3> QED
        BY <3>1
    <2> QED
      BY <2>1, <2>2, <2>3
  <1> HIDE DEF Back
  <1>3. \E row, code, answer : turn'[t] = Back(row, code, answer)
    BY <1>1, <1>2
  <1> QED
    BY <1>3 DEF Back

\* So does a confirmed one, which may also be answered without an attempt.
LEMMA ConfirmedReported ==
  ASSUME LoopTyped, NEW t \in Turns, NEW i \in Positions, execute_confirmed(t, i)
  PROVE  \E w, code, answer :
           /\ w = turn[t] \/ \E row : w = Attempt(turn[t], turn[t].calls[i], row)
           /\ turn'[t] = Report(w, i, code, answer)
  <1> DEFINE u == turn[t]
             call == u.calls[i]
  <1>1. DOMAIN turn = Turns
    BY DEF LoopTyped
  <1>2. ASSUME NEW w, NEW code, NEW answer, Concludes(t, i, w, code, answer)
        PROVE  turn'[t] = Report(w, i, code, answer)
    BY <1>1, <1>2 DEF Concludes
  <1>3. \/ \E code : turn' = [turn EXCEPT ![t] = Report(u, i, code, "none")]
        \/ \E code, answer : Concludes(t, i, u, code, answer)
        \/ \E row, code, answer : Concludes(t, i, Attempt(u, call, row), code, answer)
    BY DEF execute_confirmed
  <1>4. CASE \E code : turn' = [turn EXCEPT ![t] = Report(u, i, code, "none")]
    BY <1>1, <1>4
  <1>5. CASE \E code, answer : Concludes(t, i, u, code, answer)
    BY <1>2, <1>5
  <1>6. CASE \E row, code, answer : Concludes(t, i, Attempt(u, call, row), code, answer)
    BY <1>2, <1>6
  <1> QED
    BY <1>3, <1>4, <1>5, <1>6

LEMMA AttemptSame ==
  ASSUME NEW u, DOMAIN u = Fields, NEW call, NEW row, NEW w, w = Attempt(u, call, row)
  PROVE  Same(u, w) /\ DOMAIN w = Fields /\ w.pending = u.pending /\ w.state = u.state
  <1>1. Keeps(u, w, {"attempts"})
    BY AttemptFields
  <1> QED
    BY <1>1 DEF Keeps, Same, Fields

\* One call of a batch is refused, put aside, sent, or comes back.
LEMMA CallSame ==
  ASSUME LoopTyped, LoopInv, NEW t \in Turns, NEW i \in Positions,
         run_one(t, i) \/ Returns(t, i) \/ Raises(t, i) \/ DeadlineFires(t, i)
  PROVE  Same(turn[t], turn'[t])
  <1> DEFINE u == turn[t]
             v == turn'[t]
             call == u.calls[i]
             taken == [u EXCEPT !.seen = claimed(u, call)]
  <1> SUFFICES Same(u, v)
    OBVIOUS
  <1>1. DOMAIN u = Fields /\ DOMAIN turn = Turns
    BY DEF LoopInv, TurnInv, Shape, LoopTyped
  <1>2. Same(u, u) /\ Same(u, taken) /\ DOMAIN taken = Fields
    BY <1>1 DEF Same, Fields
  <1>3. ASSUME NEW w, Same(u, w), DOMAIN w = Fields, NEW code, NEW answer
        PROVE  Same(u, Report(w, i, code, answer))
    <2>1. Same(w, Report(w, i, code, answer))
      BY <1>3, ReportSame
    <2> QED
      BY <1>3, <2>1 DEF Same
  <1> HIDE DEF u, v, taken
  <1>4. CASE run_one(t, i)
    <2>1. \/ \E code : v = Report(u, i, code, "none")
          \/ \E code : v = Report(taken, i, code, "none")
          \/ v = [Report(taken, i, "CONFIRMATION_REQUIRED", "none") EXCEPT !.pending = Append(@, call)]
          \/ v = [taken EXCEPT !.state[i] = "sent", !.begun = @ + 1]
      BY <1>1, <1>4 DEF run_one, u, v, taken
    <2>2. CASE \E code : v = Report(u, i, code, "none")
      BY <1>1, <1>2, <1>3, <2>2
    <2>3. CASE \E code : v = Report(taken, i, code, "none")
      BY <1>2, <1>3, <2>3
    <2>4. CASE v = [Report(taken, i, "CONFIRMATION_REQUIRED", "none") EXCEPT !.pending = Append(@, call)]
      <3> DEFINE w == Report(taken, i, "CONFIRMATION_REQUIRED", "none")
      <3>1. Same(u, w)
        BY <1>2, <1>3
      <3>2. v = [w EXCEPT !.pending = Append(@, call)]
        BY <2>4
      <3> HIDE DEF w
      <3> QED
        BY <3>1, <3>2 DEF Same, Fields
    <2>5. CASE v = [taken EXCEPT !.state[i] = "sent", !.begun = @ + 1]
      BY <1>2, <2>5 DEF Same, Fields
    <2> QED
      BY <2>1, <2>2, <2>3, <2>4, <2>5 DEF u, v
  <1>5. CASE Returns(t, i) \/ Raises(t, i) \/ DeadlineFires(t, i)
    <2>1. PICK row, code, answer : v = Report(Attempt(u, call, row), i, code, answer)
      BY <1>5, BackReported DEF u, v
    <2> DEFINE w == Attempt(u, call, row)
    <2>2. Same(u, w) /\ DOMAIN w = Fields
      BY <1>1, AttemptSame DEF u
    <2> HIDE DEF w
    <2>3. v = Report(w, i, code, answer)
      BY <2>1 DEF w
    <2> QED
      BY <1>3, <2>2, <2>3 DEF u, v
  <1> QED
    BY <1>4, <1>5

\* The replies of a round join those there are: one for each of its calls.
LEMMA RoundAnswered ==
  ASSUME LoopTyped, LoopInv, NEW t \in Turns, EndRound(t), Answered(turn[t])
  PROVE  Answered(turn'[t])
  <1> DEFINE u == turn[t]
             v == turn'[t]
             order == run_round_order(u.calls)
             P(k) == [id |-> <<u.rounds, u.calls[k].id>>, result |-> u.outcome[order[k]]]
             new == {P(k) : k \in DOMAIN u.calls}
             f == [k \in DOMAIN u.calls |-> P(k)]
  <1>1. Shape(u) /\ DOMAIN turn = Turns
    BY DEF LoopInv, TurnInv, LoopTyped
  <1>2. /\ u.pc = "batch" /\ u.mode = "model" /\ v.pc \in {"ask", "over"}
        /\ v.pc = "ask" => stop_reason(u) = "none"
        /\ v.replies = u.replies \cup paired(u) /\ v.asked = u.asked /\ v.rounds = u.rounds
    BY ZenonT(60), <1>1 DEF EndRound, Shape, Fields
  <1>3. paired(u) = new
    BY DEF paired
  <1>4. IdsApart(u.calls) /\ OneReplyEach(u.replies, u.rounds - 1)
        /\ (u.budget > 0 => u.asked = IdsOf(u.replies) \cup CallIds(u))
    BY <1>2 DEF Answered
  <1>5. \A k \in DOMAIN u.calls : P(k).id = <<u.rounds, u.calls[k].id>>
    OBVIOUS
  <1>6. u.rounds \in Nat /\ u.budget \in Nat /\ IsSeq(u.calls)
    BY <1>1 DEF Shape
  <1> HIDE DEF u, v
  <1>7. IsFiniteSet(new)
    <2>1. Len(u.calls) \in Nat /\ DOMAIN u.calls = 1..Len(u.calls)
      BY <1>6, SeqFacts
    <2>2. IsFiniteSet(DOMAIN u.calls)
      BY <2>1, FS_Interval
    <2> HIDE DEF P
    <2>3. f \in Surjection(DOMAIN u.calls, new)
      BY DEF Surjection
    <2> HIDE DEF f, new
    <2> QED
      BY <2>2, <2>3, FS_Surjection
  <1> HIDE DEF P
  <1>8. \A r \in new : \E k \in DOMAIN u.calls : r = P(k) /\ r.id = <<u.rounds, u.calls[k].id>>
    BY <1>5
  <1>9. IdsOf(new) = CallIds(u)
    BY <1>5 DEF IdsOf, CallIds
  <1> HIDE DEF new, f
  <1>10. \A r \in new, s \in new : r.id = s.id => r = s
    BY <1>4, <1>8 DEF IdsApart
  <1>11. \A r \in new, s \in u.replies : r.id # s.id
    <2> SUFFICES ASSUME NEW r \in new, NEW s \in u.replies, r.id = s.id PROVE FALSE
      OBVIOUS
    <2>1. r.id[1] = u.rounds
      BY <1>8
    <2>2. s.id[1] \in 0..(u.rounds - 1)
      BY <1>4 DEF OneReplyEach
    <2> QED
      BY <1>6, <2>1, <2>2
  <1>12. OneReplyEach(u.replies \cup new, u.rounds)
    <2>1. IsFiniteSet(u.replies \cup new)
      BY <1>4, <1>7, FS_Union DEF OneReplyEach
    <2>2. \A r, s \in u.replies \cup new : r.id = s.id => r = s
      BY <1>4, <1>10, <1>11 DEF OneReplyEach
    <2>3. ASSUME NEW r \in u.replies \cup new PROVE r.id[1] \in 0..u.rounds
      <3>1. CASE r \in new
        <4>1. r.id[1] = u.rounds
          BY <1>8, <3>1
        <4> QED
          BY <1>6, <4>1
      <3>2. CASE r \in u.replies
        <4>1. r.id[1] \in 0..(u.rounds - 1)
          BY <1>4, <3>2 DEF OneReplyEach
        <4> QED
          BY <1>6, <4>1
      <3> QED
        BY <3>1, <3>2
    <2> QED
      BY <2>1, <2>2, <2>3 DEF OneReplyEach
  <1>13. IdsOf(u.replies \cup new) = IdsOf(u.replies) \cup IdsOf(new)
    BY DEF IdsOf
  <1>14. stop_reason(u) = "none" => u.budget > 0
    BY <1>6 DEF stop_reason
  <1>15. CASE v.pc = "ask"
    BY <1>2, <1>3, <1>4, <1>9, <1>12, <1>13, <1>14, <1>15 DEF Answered, v
  <1>16. CASE v.pc # "ask"
    BY <1>2, <1>16, ElsewhereAnswered DEF v
  <1> QED
    BY <1>15, <1>16

\* The model is asked: a batch is the whole message, or takes the rest of the budget.
LEMMA DecisionAnswered ==
  ASSUME NEW u, Shape(u), u.pc = "ask", Answered(u), NEW calls, IsSeq(calls),
         IdsApart(calls), NEW tokens, NEW v, v = Decide(u, calls, tokens)
  PROVE  Answered(v)
  <1> DEFINE batch == Take(u.budget, calls)
  <1>1. IsSeq(calls)
    OBVIOUS
  <1>2. u.budget \in Nat /\ u.rounds \in Nat /\ DOMAIN u = Fields
    BY DEF Shape
  <1>3. \/ v.pc = "over"
        \/ /\ v.pc = "batch" /\ v.mode = "model" /\ v.rounds = u.rounds + 1 /\ v.calls = batch
           /\ v.budget = u.budget - Len(batch) /\ v.replies = u.replies
           /\ v.asked = u.asked \cup {<<u.rounds + 1, calls[i].id>> : i \in DOMAIN calls}
    BY <1>2 DEF Decide, Fields
  <1>4. /\ \A k \in DOMAIN batch : k \in DOMAIN calls /\ batch[k] = calls[k]
        /\ Len(batch) # u.budget => DOMAIN batch = DOMAIN calls
    <2> DEFINE m == IF u.budget < Len(calls) THEN u.budget ELSE Len(calls)
    <2>1. Len(calls) \in Nat /\ DOMAIN calls = 1..Len(calls)
      BY <1>1, SeqFacts
    <2>2. m \in 0..Len(calls) /\ batch = SubSeq(calls, 1, m)
      BY <1>2, <2>1 DEF Take
    <2>3. m # u.budget => m = Len(calls)
      OBVIOUS
    <2> HIDE DEF m, batch
    <2>4. Len(batch) = m /\ DOMAIN batch = 1..m /\ \A k \in 1..m : batch[k] = calls[k] /\ k \in DOMAIN calls
      BY <1>1, <2>2, SubSeqFacts
    <2> QED
      BY <2>1, <2>3, <2>4
  <1> HIDE DEF batch
  <1>5. CASE v.pc = "over"
    BY <1>5, ElsewhereAnswered
  <1>6. CASE /\ v.pc = "batch" /\ v.mode = "model" /\ v.rounds = u.rounds + 1 /\ v.calls = batch
             /\ v.budget = u.budget - Len(batch) /\ v.replies = u.replies
             /\ v.asked = u.asked \cup {<<u.rounds + 1, calls[i].id>> : i \in DOMAIN calls}
    <2>1. IdsApart(v.calls)
      BY <1>4, <1>6 DEF IdsApart
    <2>2. OneReplyEach(v.replies, v.rounds - 1) /\ u.asked = IdsOf(v.replies)
      <3>1. v.rounds - 1 = u.rounds
        BY <1>2, <1>6
      <3> QED
        BY <1>6, <3>1 DEF Answered
    <2>3. ASSUME v.budget > 0 PROVE v.asked = IdsOf(v.replies) \cup CallIds(v)
      <3>1. Len(batch) # u.budget
        BY <1>2, <1>6, <2>3
      <3>2. DOMAIN v.calls = DOMAIN calls /\ \A i \in DOMAIN calls : v.calls[i] = calls[i]
        BY <1>4, <1>6, <3>1
      <3>3. CallIds(v) = {<<u.rounds + 1, calls[i].id>> : i \in DOMAIN calls}
        BY <1>6, <3>2 DEF CallIds
      <3> QED
        BY <1>6, <2>2, <3>3
    <2> QED
      BY <1>6, <2>1, <2>2, <2>3 DEF Answered
  <1> QED
    BY <1>3, <1>5, <1>6

(**************************** the theorems ********************************)
LEMMA LoopInitially == Init => LoopTyped /\ LoopInv
  <1> SUFFICES ASSUME Init PROVE LoopTyped /\ LoopInv
    OBVIOUS
  <1>1. \A confirm, rows : TurnInv(Started, confirm, rows)
    BY StartedInv
  <1> QED
    BY <1>1 DEF Init, LoopTyped, LoopInv

LEMMA LoopStep == LoopTyped /\ LoopInv /\ [Next]_vars => LoopTyped' /\ LoopInv'
  <1> SUFFICES ASSUME LoopTyped, LoopInv, [Next]_vars PROVE LoopTyped' /\ LoopInv'
    OBVIOUS
  <1>1. CASE \E t \in Turns : Moves(t)
    BY <1>1, MovesInv
  <1>2. CASE UNCHANGED <<settings, turn, ledger>>
    BY <1>2 DEF LoopTyped, LoopInv
  <1>3. ASSUME NEW t \in Turns,
               \/ model_turn(t) \/ NoModel(t) \/ OutOfRounds(t)
               \/ EndRound(t) \/ Fallback(t) \/ LeaveLoop(t)
        PROVE  Moves(t)
    BY <1>3, ModelStep, NoModelStep, EndRoundStep, FallbackStep, LeaveStep
  <1>4. ASSUME NEW t \in Turns, NEW i \in Positions,
               \/ run_one(t, i) \/ Returns(t, i) \/ Raises(t, i) \/ DeadlineFires(t, i)
               \/ execute_confirmed(t, i)
        PROVE  Moves(t)
    BY <1>4, RunOneStep, ReturnsStep, BrokenOffStep, ExecuteStep
  <1>5. ASSUME NEW t \in Turns,
               \/ \E verdict \in {"approved", "rejected"} : confirm_writes(t, verdict)
               \/ ReplayConfirm(t) \/ LeaseRunsOut(t) \/ LeaveConfirm(t)
        PROVE  Moves(t)
    BY <1>5, ConfirmStep, ReplayStep, LeaseStep, LeaveStep
  <1>6. CASE Tick
    BY <1>2, <1>6 DEF Tick
  <1>7. CASE UNCHANGED vars
    BY <1>2, <1>7 DEF vars
  <1> QED
    BY <1>1, <1>3, <1>4, <1>5, <1>6, <1>7 DEF Next, TurnNext

LEMMA LoopKept == Spec => [](LoopTyped /\ LoopInv)
  BY LoopInitially, LoopStep, PTL DEF Spec

\* While confirmation is on, a write that left the process was shown to the user
\* and approved (graph/nodes/tools.py: run_one, confirm_writes).
THEOREM WritesAreConfirmed == Spec => []OnlyConfirmedWrites
  <1>1. LoopInv => OnlyConfirmedWrites
    <2> SUFFICES ASSUME LoopInv, settings.confirm, NEW t \in Turns
                 PROVE  LET u == turn[t]
                            out == {u.results[k].call : k \in Executed(u)} \cup {u.calls[i] : i \in Sent(u)}
                        IN \A call \in out : writes(call.tool) => /\ u.verdict = "approved"
                                                                 /\ fingerprint(call) \in u.shown
      BY DEF OnlyConfirmedWrites
    <2>1. Guarded(turn[t], TRUE)
      BY DEF LoopInv, TurnInv, Guarded
    <2> QED
      BY <2>1 DEF Guarded
  <1> QED
    BY <1>1, LoopKept, PTL

\* No call runs twice in a turn, whatever the model repeats in a batch or in a later
\* round (tools/calling.py: the fingerprints of run_tool_loop).
THEOREM CallsAreDistinct == Spec => []DistinctCalls
  <1>1. LoopInv => DistinctCalls
    BY DEF LoopInv, TurnInv, Distinct, DistinctCalls
  <1> QED
    BY <1>1, LoopKept, PTL

\* A write is attempted again only after an attempt that the ledger has as failed, or
\* whose lease ran out, however often the confirmation node is replayed and wherever the
\* process died (execute_confirmed, core/effect_ledger.py: run_once).
THEOREM WritesAreAppliedOnce == Spec => []AppliedOnce
  <1>1. LoopInv => AppliedOnce
    BY DEF LoopInv, TurnInv, Recorded, AppliedOnce
  <1> QED
    BY <1>1, LoopKept, PTL

\* A turn never begins more calls than max_tool_calls, however the batches are cut and
\* whichever path begins them (tools/calling.py: run_tool_loop; graph/nodes/tools.py).
THEOREM BudgetIsRespected == Spec => []BudgetRespected
  <1>1. LoopInv => BudgetRespected
    BY DEF LoopInv, TurnInv, Budgeted, BudgetRespected
  <1> QED
    BY <1>1, LoopKept, PTL

\* With confirmation on, a write that may have been carried out is reported as if nothing
\* had happened only when the reply of its service was lost
\* (tools/failures.py, catalog.py, graph/nodes/tools.py: execute_confirmed).
THEOREM OnlyLostRepliesMislead == Spec => []OnlyLostReplyMisleads
  <1>1. LoopInv => OnlyLostReplyMisleads
    BY DEF LoopInv, TurnInv, Guarded, Honest, OnlyLostReplyMisleads
  <1> QED
    BY <1>1, LoopKept, PTL

\* A call that runs is one the model asked for, with all of its arguments, none of them,
\* or a gap a skipped line left, and never with those of another call: whatever the order
\* in which the fragments arrive, whatever the provider numbers and wherever the stream
\* breaks off (tools/calling.py: collect_fragments, turn_from_fragments).
THEOREM CallsAreNotTorn == Spec => []NoTornCalls
  <1>1. LoopInv => NoTornCalls
    BY DEF LoopInv, TurnInv, Whole, AskedFor, Run, NoTornCalls
  <1> QED
    BY <1>1, LoopKept, PTL

\* A replay, or a lease that runs out, leaves the turn in the confirmation node.
LEMMA AgainRests ==
  ASSUME NEW t \in Turns, DOMAIN turn = Turns, DOMAIN turn[t] = Fields, ReplayConfirm(t) \/ LeaseRunsOut(t)
  PROVE  turn[t].pc = "execute" /\ turn'[t].pc = "execute" /\ turn'[t].pending = turn[t].pending
  <1> DEFINE u == turn[t]
             v == turn'[t]
             again(x) == [x EXCEPT !.state = [i \in DOMAIN u.calls |-> "new"],
                                   !.results = SubSeq(@, 1, u.found),
                                   !.replays = @ + 1]
  <1>1. ASSUME NEW x, DOMAIN x = Fields, x.pc = u.pc, x.pending = u.pending
        PROVE  again(x).pc = u.pc /\ again(x).pending = u.pending
    BY <1>1 DEF Fields
  <1>2. u.pc = "execute"
    BY DEF ReplayConfirm, LeaseRunsOut
  <1>3. CASE ReplayConfirm(t)
    <2>1. \/ v = again(u)
          \/ \E i : v = again(Attempt(u, u.calls[i], begun_row(u, u.calls[i])))
      BY <1>3 DEF ReplayConfirm
    <2> HIDE DEF again, v
    <2>2. CASE v = again(u)
      BY <1>1, <1>2, <2>2 DEF v
    <2>3. CASE \E i : v = again(Attempt(u, u.calls[i], begun_row(u, u.calls[i])))
      <3>1. PICK i : v = again(Attempt(u, u.calls[i], begun_row(u, u.calls[i])))
        BY <2>3
      <3> DEFINE w == Attempt(u, u.calls[i], begun_row(u, u.calls[i]))
      <3>2. Same(u, w) /\ DOMAIN w = Fields /\ w.pending = u.pending
        <4> HIDE DEF u
        <4> QED
          BY AttemptSame DEF u
      <3> HIDE DEF w
      <3>3. v = again(w)
        BY <3>1 DEF w
      <3> QED
        BY <1>1, <1>2, <3>2, <3>3 DEF Same, v
    <2> QED
      BY <2>1, <2>2, <2>3
  <1>4. CASE LeaseRunsOut(t)
    BY <1>2, <1>4 DEF LeaseRunsOut, Fields
  <1> QED
    BY <1>2, <1>3, <1>4

\* When the model is asked again every call of the messages it is shown has one
\* reply, for any number of rounds, whatever is refused, cut by the budget or late, as
\* long as the calls of one message have ids of their own
\* (tools/calling.py: run_tool_loop; graph/nodes/tools.py).
THEOREM HistoryIsAnswered ==
  ASSUME \A calls \in Batches : IdsApart(calls)
  PROVE  Spec => []HistoryAnswered
  <1>1. Init => AnsweredInv
    <2>1. OneReplyEach({}, 0) /\ IdsOf({}) = {}
      BY FS_EmptySet DEF OneReplyEach, IdsOf
    <2>2. Answered(Started)
      BY <2>1 DEF Answered, Started
    <2> QED
      BY <2>2 DEF Init, AnsweredInv
  <1>2. LoopTyped /\ LoopInv /\ AnsweredInv /\ [Next]_vars => AnsweredInv'
    <2> SUFFICES ASSUME LoopTyped, LoopInv, AnsweredInv, [Next]_vars PROVE AnsweredInv'
      OBVIOUS
    <2>1. ASSUME NEW t \in Turns, Moves(t), Answered(turn'[t]) PROVE AnsweredInv'
      BY <2>1 DEF Moves, AnsweredInv
    <2>2. ASSUME UNCHANGED turn PROVE AnsweredInv'
      BY <2>2 DEF AnsweredInv
    <2>3. ASSUME NEW t \in Turns, model_turn(t) PROVE AnsweredInv'
      <3>1. PICK calls \in Batches : \E decoded, tokens : Decides(t, calls, decoded, tokens)
        BY <2>3, ModelDecides
      <3>2. PICK decoded, tokens : Decides(t, calls, decoded, tokens)
        BY <3>1
      <3>3. Shape(turn[t]) /\ turn[t].pc = "ask" /\ Answered(turn[t])
        BY <2>3 DEF LoopInv, TurnInv, AnsweredInv, model_turn, Loops
      <3>a. RunsOf(decoded, calls) /\ turn'[t] = Decide(turn[t], decoded, tokens)
        BY <3>2 DEF Decides
      <3>b. IsSeq(decoded)
        BY <3>a DEF RunsOf
      <3>c. IdsApart(decoded)
        BY <3>a, RunsApart
      <3>4. Answered(turn'[t])
        BY <3>3, <3>a, <3>b, <3>c, DecisionAnswered
      <3> QED
        BY <2>1, <2>3, <3>4, ModelStep
    <2>4. ASSUME NEW t \in Turns, EndRound(t) PROVE AnsweredInv'
      BY <2>1, <2>4, RoundAnswered, EndRoundStep DEF AnsweredInv
    <2>5. ASSUME NEW t \in Turns, NEW i \in Positions,
                 run_one(t, i) \/ Returns(t, i) \/ Raises(t, i) \/ DeadlineFires(t, i)
          PROVE  AnsweredInv'
      <3>1. Answered(turn'[t])
        BY <2>5, CallSame, SameAnswered DEF AnsweredInv
      <3> QED
        BY <2>1, <2>5, <3>1, RunOneStep, ReturnsStep, BrokenOffStep
    <2>6. ASSUME NEW t \in Turns, Moves(t),
                 turn'[t].pc \notin {"ask", "batch"}
                   \/ (turn'[t].pc = "batch" /\ turn'[t].mode = "rules")
          PROVE  AnsweredInv'
      BY <2>1, <2>6, ElsewhereAnswered
    <2>7. \A t \in Turns : DOMAIN turn[t] = Fields /\ DOMAIN turn = Turns
      BY DEF LoopInv, LoopTyped, TurnInv, Shape
    <2>8. ASSUME NEW t \in Turns, NoModel(t) \/ OutOfRounds(t) PROVE AnsweredInv'
      <3>1. turn'[t].pc = "over"
        BY <2>7, <2>8 DEF NoModel, OutOfRounds, Fields
      <3> QED
        BY <2>6, <2>8, <3>1, NoModelStep
    <2>9. ASSUME NEW t \in Turns, Fallback(t) PROVE AnsweredInv'
      BY <2>6, <2>9, FallbackStep
    <2>10. ASSUME NEW t \in Turns, LeaveLoop(t) \/ LeaveConfirm(t) PROVE AnsweredInv'
      <3> DEFINE u == turn[t]
      <3>1. \/ \E p \in {"clarify", "answer"} : turn'[t] = [Started EXCEPT !.pc = p]
            \/ turn'[t] = [u EXCEPT !.pc = "confirm", !.calls = <<>>, !.state = <<>>, !.outcome = <<>>]
        BY <2>7, <2>10 DEF LeaveLoop, LeaveConfirm
      <3>2. turn'[t].pc \in {"confirm", "clarify", "answer"}
        BY <2>7, <3>1 DEF Started, Fields
      <3> QED
        BY <2>6, <2>10, <3>2, LeaveStep
    <2>11. ASSUME NEW t \in Turns, NEW verdict, confirm_writes(t, verdict) PROVE AnsweredInv'
      BY <2>6, <2>11, ConfirmStep
    <2>12. ASSUME NEW t \in Turns, ReplayConfirm(t) \/ LeaseRunsOut(t) PROVE AnsweredInv'
      <3>1. turn'[t].pc = "execute"
        BY <2>7, <2>12, AgainRests
      <3> QED
        BY <2>6, <2>12, <3>1, ReplayStep, LeaseStep
    <2>13. ASSUME NEW t \in Turns, NEW i \in Positions, execute_confirmed(t, i) PROVE AnsweredInv'
      <3> DEFINE u == turn[t]
      <3>1. u.pc = "execute" /\ DOMAIN u = Fields
        BY <2>7, <2>13 DEF execute_confirmed
      <3>2. turn'[t].pc = "execute"
        <4>1. PICK w, code, answer :
                 /\ w = u \/ \E row : w = Attempt(u, u.calls[i], row)
                 /\ turn'[t] = Report(w, i, code, answer)
          BY <2>13, ConfirmedReported
        <4> DEFINE v == turn'[t]
        <4> HIDE DEF u, v
        <4>2. DOMAIN w = Fields /\ w.pc = u.pc
          BY <3>1, <4>1, AttemptSame DEF Same
        <4>3. Same(w, v)
          BY <4>1, <4>2, ReportSame DEF v
        <4> QED
          BY <3>1, <4>2, <4>3 DEF Same, v
      <3> QED
        BY <2>6, <2>13, <3>2, ExecuteStep
    <2>14. CASE Tick \/ UNCHANGED vars
      BY <2>2, <2>14 DEF Tick, vars
    <2> QED
      BY <2>3, <2>4, <2>5, <2>8, <2>9, <2>10, <2>11, <2>12, <2>13, <2>14 DEF Next, TurnNext
  <1>3. LoopInv /\ AnsweredInv => HistoryAnswered
    <2> SUFFICES ASSUME AnsweredInv, NEW t \in Turns, turn[t].pc = "ask"
                 PROVE  /\ {r.id : r \in turn[t].replies} = turn[t].asked
                        /\ Cardinality(turn[t].replies) = Cardinality(turn[t].asked)
      BY DEF HistoryAnswered
    <2> DEFINE R == turn[t].replies
               f == [r \in R |-> r.id]
    <2>1. OneReplyEach(R, turn[t].rounds) /\ IdsOf(R) = turn[t].asked
      BY DEF AnsweredInv, Answered
    <2> HIDE DEF R
    <2>2. IsFiniteSet(R) /\ \A r, s \in R : r.id = s.id => r = s
      BY <2>1 DEF OneReplyEach
    <2>3. f \in Bijection(R, IdsOf(R))
      BY <2>2 DEF IdsOf, Bijection, Injection, Surjection, IsInjective
    <2>4. ExistsBijection(R, IdsOf(R))
      BY <2>3 DEF ExistsBijection
    <2>5. Cardinality(IdsOf(R)) = Cardinality(R)
      BY <2>2, <2>4, FS_Bijection
    <2> QED
      BY <2>1, <2>5 DEF IdsOf, R
  <1> QED
    BY <1>1, <1>2, <1>3, LoopKept, PTL DEF Spec

(****************************** the types *********************************)
BreakerTyped ==
  /\ clock \in 0..MaxTime
  /\ breaker \in [DOMAIN TOOLS -> [failures : Nat, opened_at : 0..clock]]
  /\ seen_down \in [DOMAIN TOOLS -> [begun : Nat, answered : BOOLEAN]]

\* A breaker that counts a failure, or forgets them.
LEMMA OneBreaker ==
  ASSUME BreakerTyped, UNCHANGED clock, NEW tool, NEW b,
         b = record_success(breaker[tool]) \/ b = record_failure(breaker[tool]),
         breaker' = [breaker EXCEPT ![tool] = b]
  PROVE  breaker' \in [DOMAIN TOOLS -> [failures : Nat, opened_at : 0..clock']]
  <1> DEFINE B == [failures : Nat, opened_at : 0..clock]
  <1>1. clock \in Nat /\ 0 \in 0..clock /\ clock \in 0..clock
    BY LoopAssumption DEF BreakerTyped
  <1>2. ASSUME tool \in DOMAIN TOOLS PROVE b \in B
    <2>1. breaker[tool] \in B
      BY <1>2 DEF BreakerTyped
    <2> DEFINE old == breaker[tool]
    <2>2. old \in B /\ old.failures \in Nat /\ old.opened_at \in 0..clock
      BY <2>1
    <2>3. b = record_success(old) \/ b = record_failure(old)
      OBVIOUS
    <2> HIDE DEF old
    <2>4. record_success(old) \in B
      BY <1>1, <2>2 DEF record_success
    <2>5. record_failure(old) \in B
      BY <1>1, <2>2 DEF record_failure
    <2> QED
      BY <2>3, <2>4, <2>5
  <1> HIDE DEF B
  <1>3. breaker' \in [DOMAIN TOOLS -> B]
    BY <1>2 DEF BreakerTyped, B
  <1> QED
    BY <1>3 DEF B

LEMMA RecordsOne ==
  ASSUME NEW tool, NEW code, record_breaker(tool, code)
  PROVE  /\ code # "none" /\ counts_towards_breaker(code)
              => breaker' = [breaker EXCEPT ![tool] = record_failure(breaker[tool])]
         /\ ~(code # "none" /\ counts_towards_breaker(code))
              => breaker' = [breaker EXCEPT ![tool] = record_success(breaker[tool])]
  BY DEF record_breaker

\* What happens between the calls does not touch the breaker.
LEMMA RestsStill ==
  ASSUME NEW t \in Turns,
         \/ model_turn(t) \/ NoModel(t) \/ OutOfRounds(t) \/ EndRound(t) \/ Fallback(t)
         \/ LeaveLoop(t) \/ ReplayConfirm(t) \/ LeaseRunsOut(t) \/ LeaveConfirm(t)
         \/ \E verdict : confirm_writes(t, verdict)
  PROVE  UNCHANGED <<clock, breaker, seen_down>>
  <1>1. ASSUME model_turn(t) PROVE UNCHANGED <<clock, breaker, seen_down>>
    BY <1>1 DEF model_turn
  <1>2. ASSUME NoModel(t) \/ OutOfRounds(t) PROVE UNCHANGED <<clock, breaker, seen_down>>
    BY <1>2 DEF NoModel, OutOfRounds
  <1>3. ASSUME EndRound(t) PROVE UNCHANGED <<clock, breaker, seen_down>>
    BY <1>3 DEF EndRound
  <1>4. ASSUME Fallback(t) PROVE UNCHANGED <<clock, breaker, seen_down>>
    BY <1>4 DEF Fallback
  <1>5. ASSUME LeaveLoop(t) PROVE UNCHANGED <<clock, breaker, seen_down>>
    BY <1>5 DEF LeaveLoop
  <1>6. ASSUME ReplayConfirm(t) \/ LeaseRunsOut(t) \/ LeaveConfirm(t)
        PROVE  UNCHANGED <<clock, breaker, seen_down>>
    BY <1>6 DEF ReplayConfirm, LeaseRunsOut, LeaveConfirm
  <1>7. ASSUME NEW verdict, confirm_writes(t, verdict) PROVE UNCHANGED <<clock, breaker, seen_down>>
    BY <1>7 DEF confirm_writes
  <1> QED
    BY <1>1, <1>2, <1>3, <1>4, <1>5, <1>6, <1>7

LEMMA BreakerStep == BreakerTyped /\ [Next]_vars => BreakerTyped'
  <1> SUFFICES ASSUME BreakerTyped, [Next]_vars PROVE BreakerTyped'
    OBVIOUS
  <1> DEFINE Down == [DOMAIN TOOLS -> [begun : Nat, answered : BOOLEAN]]
  <1>1. ASSUME UNCHANGED <<clock, breaker, seen_down>> PROVE BreakerTyped'
    BY <1>1 DEF BreakerTyped
  <1>2. ASSUME NEW t \in Turns, NEW i \in Positions, run_one(t, i) PROVE BreakerTyped'
    <2> DEFINE tool == turn[t].calls[i].tool
    <2>0. UNCHANGED <<clock, breaker>>
      BY <1>2 DEF run_one
    <2>1. seen_down' = seen_down \/ seen_down' = [seen_down EXCEPT ![tool].begun = @ + 1]
      BY <1>2, ZenonT(30) DEF run_one
    <2> HIDE DEF tool
    <2>2. seen_down' \in Down
      BY <2>1 DEF BreakerTyped
    <2> QED
      BY <2>0, <2>2 DEF BreakerTyped
  <1>3. ASSUME NEW t \in Turns, NEW i \in Positions, Returns(t, i) PROVE BreakerTyped'
    <2> DEFINE tool == turn[t].calls[i].tool
    <2>1. UNCHANGED clock
      BY <1>3 DEF Returns
    <2>4. \E code : seen_down' = [seen_down EXCEPT ![tool].answered = @ \/ code \notin TRANSPORT_CODES]
      BY <1>3, Zenon DEF Returns
    <2>5. UNCHANGED breaker \/ \E code : record_breaker(tool, code)
      BY <1>3 DEF Returns
    <2> HIDE DEF tool
    <2>2. seen_down' \in Down
      <3>1. PICK code : seen_down' = [seen_down EXCEPT ![tool].answered = @ \/ code \notin TRANSPORT_CODES]
        BY <2>4
      <3> DEFINE late == seen_down[tool].answered \/ code \notin TRANSPORT_CODES
      <3>2. late \in BOOLEAN
        OBVIOUS
      <3>3. seen_down' = [seen_down EXCEPT ![tool].answered = late]
        BY <3>1
      <3> HIDE DEF late
      <3> QED
        BY <3>2, <3>3 DEF BreakerTyped
    <2>3. breaker' \in [DOMAIN TOOLS -> [failures : Nat, opened_at : 0..clock']]
      <3>1. CASE UNCHANGED breaker
        BY <2>1, <3>1 DEF BreakerTyped
      <3>2. CASE \E code : record_breaker(tool, code)
        BY <2>1, <3>2, RecordsOne, OneBreaker
      <3> QED
        BY <2>5, <3>1, <3>2
    <2> QED
      BY <2>1, <2>2, <2>3 DEF BreakerTyped
  <1>4. ASSUME NEW t \in Turns, NEW i \in Positions, DeadlineFires(t, i) PROVE BreakerTyped'
    <2> DEFINE tool == turn[t].calls[i].tool
    <2>1. /\ UNCHANGED <<clock, seen_down>>
          /\ breaker' = [breaker EXCEPT ![tool] = record_failure(breaker[tool])]
      BY <1>4 DEF DeadlineFires
    <2> HIDE DEF tool
    <2> QED
      BY <2>1, OneBreaker DEF BreakerTyped
  <1>4b. ASSUME NEW t \in Turns, NEW i \in Positions, Raises(t, i) PROVE BreakerTyped'
    <2> DEFINE tool == turn[t].calls[i].tool
    <2>1. /\ UNCHANGED <<clock, breaker>>
          /\ seen_down' = [seen_down EXCEPT ![tool].answered = TRUE]
      BY <1>4b DEF Raises
    <2> HIDE DEF tool
    <2>2. seen_down' \in Down
      BY <2>1 DEF BreakerTyped
    <2> QED
      BY <2>1, <2>2 DEF BreakerTyped
  <1>5. ASSUME NEW t \in Turns, NEW i \in Positions, execute_confirmed(t, i) PROVE BreakerTyped'
    <2> DEFINE tool == turn[t].calls[i].tool
    <2>1. /\ UNCHANGED <<clock, seen_down>>
          /\ \/ UNCHANGED breaker
             \/ \E code : record_breaker(tool, code)
      BY <1>5 DEF execute_confirmed, Concludes
    <2> HIDE DEF tool
    <2>2. breaker' \in [DOMAIN TOOLS -> [failures : Nat, opened_at : 0..clock']]
      <3>1. CASE UNCHANGED breaker
        BY <2>1, <3>1 DEF BreakerTyped
      <3>2. CASE \E code : record_breaker(tool, code)
        BY <2>1, <3>2, RecordsOne, OneBreaker
      <3> QED
        BY <2>1, <3>1, <3>2
    <2> QED
      BY <2>1, <2>2 DEF BreakerTyped
  <1>6. CASE Tick
    <2>1. clock' \in 0..MaxTime /\ 0..clock \subseteq 0..clock' /\ UNCHANGED <<breaker, seen_down>>
      BY <1>6, LoopAssumption DEF Tick, BreakerTyped
    <2> QED
      BY <2>1 DEF BreakerTyped
  <1>7. ASSUME NEW t \in Turns,
               \/ model_turn(t) \/ NoModel(t) \/ OutOfRounds(t) \/ EndRound(t) \/ Fallback(t)
               \/ LeaveLoop(t) \/ ReplayConfirm(t) \/ LeaseRunsOut(t) \/ LeaveConfirm(t)
               \/ \E verdict : confirm_writes(t, verdict)
        PROVE  BreakerTyped'
    BY <1>1, <1>7, RestsStill
  <1> QED
    BY <1>1, <1>2, <1>3, <1>4, <1>4b, <1>5, <1>6, <1>7 DEF Next, TurnNext, vars

LEMMA BreakerKept == Spec => []BreakerTyped
  <1>1. Init => BreakerTyped
    BY LoopAssumption DEF Init, BreakerTyped
  <1> QED
    BY <1>1, BreakerStep, PTL DEF Spec

\* Every variable of the loop keeps its type (graph/nodes/tools.py, tools/resilience.py).
THEOREM LoopIsTyped == Spec => []TypeOK
  <1>1. LoopTyped /\ LoopInv /\ BreakerTyped => TypeOK
    <2> SUFFICES ASSUME LoopTyped, LoopInv, BreakerTyped PROVE TypeOK
      OBVIOUS
    <2>1. settings.confirm \in BOOLEAN /\ clock \in 0..MaxTime
      BY DEF LoopTyped, BreakerTyped
    <2>2. ASSUME NEW tool \in DOMAIN TOOLS
          PROVE  breaker[tool].failures \in Nat /\ breaker[tool].opened_at \in 0..clock
      BY DEF BreakerTyped
    <2>3. ASSUME NEW t \in Turns
          PROVE  /\ turn[t].pc \in {"ask", "batch", "over", "confirm", "execute", "clarify", "answer"}
                 /\ turn[t].mode \in {"rule-based", "model", "rules"}
                 /\ turn[t].rounds \in 0..MaxRounds /\ turn[t].budget \in 0..MaxToolCalls
      BY DEF LoopInv, TurnInv, Shape
    <2> QED
      BY <2>1, <2>2, <2>3 DEF TypeOK
  <1> QED
    BY <1>1, LoopKept, BreakerKept, PTL

(************************ a dependency that is down ***********************)
\* The calls of a tool that are on their way, as pairs of a turn and a position.
Ways(turns, tool) == {w \in Turns \X Positions : /\ w[2] \in Sent(turns[w[1]])
                                                 /\ turns[w[1]].calls[w[2]].tool = tool}

\* Side by side run the calls of one batch, or a single one that the rules chose.
SideBySide(u) ==
  u.pc = "batch" =>
    \/ u.mode = "model" /\ Len(u.calls) <= WidestBatch
    \/ u.mode = "rules" /\ \A i \in Sent(u) : \A j \in DOMAIN u.calls : j < i => u.state[j] = "done"

\* What waits for the user is a write that confirmation put aside.
AskedAside(u) == \A i \in DOMAIN u.pending : settings.confirm /\ writes(u.pending[i].tool)
InFlight == \A t \in Turns : SideBySide(turn[t]) /\ AskedAside(turn[t])

\* A silent tool has begun what failed and what is still on its way; one that
\* only confirmed writes call, and that the breaker does not guard, has begun nothing.
Silent(tool) == clock < Cooldown /\ ~seen_down[tool].answered
Contained(tool) ==
  /\ settings.confirm /\ writes(tool) => seen_down[tool].begun = 0
  /\ Silent(tool) => /\ seen_down[tool].begun <= breaker[tool].failures + Cardinality(Ways(turn, tool))
                     /\ seen_down[tool].begun <= Threshold - 1 + Concurrency
DownInv == InFlight /\ \A tool \in DOMAIN TOOLS : Contained(tool)

LEMMA WidestOf ==
  ASSUME NEW n \in Nat, \A calls \in Batches : Len(calls) <= n
  PROVE  /\ WidestBatch \in Nat /\ WidestBatch >= 1
         /\ \A calls \in Batches : Len(calls) \in Nat /\ Len(calls) <= WidestBatch
  <1> DEFINE S == {1} \cup {Len(calls) : calls \in Batches}
  <1>1. \A calls \in Batches : Len(calls) \in Nat
    BY LoopAssumption
  <1>2. n + 1 \in Nat /\ S \in SUBSET (0..(n + 1)) /\ S # {}
    BY <1>1
  <1>3. 1 \in S /\ \A calls \in Batches : Len(calls) \in S
    OBVIOUS
  <1>4. WidestBatch = Max(S)
    BY DEF WidestBatch
  <1> HIDE DEF S
  <1>5. Max(S) \in S /\ \A x \in S : x <= Max(S)
    BY <1>2, GreatestOf
  <1> DEFINE m == Max(S)
  <1>6. m \in Nat /\ m >= 1
    <2>1. S \subseteq Nat
      BY <1>2
    <2>2. m \in S /\ 1 <= m
      BY <1>3, <1>5
    <2> HIDE DEF m
    <2> QED
      BY <2>1, <2>2
  <1>7. \A calls \in Batches : Len(calls) <= Max(S)
    BY <1>3, <1>5
  <1> HIDE DEF WidestBatch
  <1> QED
    BY <1>1, <1>4, <1>6, <1>7

\* Only a batch that runs has calls on their way.
LEMMA SentInBatch ==
  ASSUME NEW u, NEW confirm, NEW rows, TurnInv(u, confirm, rows), u.pc # "batch"
  PROVE  Sent(u) = {}
  <1>1. u.state \in [DOMAIN u.calls -> {"new", "sent", "done"}]
    BY DEF TurnInv, Shape
  <1>2. u.pc # "execute" => u.calls = <<>>
    BY DEF TurnInv, Lifecycle
  <1>3. u.pc = "execute" => Sent(u) = {}
    BY DEF TurnInv, Lifecycle
  <1>4. u.calls = <<>> => DOMAIN u.state = {}
    <2>1. DOMAIN u.state = DOMAIN u.calls
      BY <1>1
    <2> QED
      BY <2>1, EmptyIsSeq
  <1> QED
    BY <1>2, <1>3, <1>4 DEF Sent

\* What bounds the calls on their way.
Ready(turns) ==
  \A t \in Turns :
    LET u == turns[t]
    IN /\ IsSeq(u.calls) /\ u.state \in [DOMAIN u.calls -> {"new", "sent", "done"}]
       /\ u.pc # "batch" => Sent(u) = {}
       /\ SideBySide(u)

LEMMA ReadyOne ==
  ASSUME NEW u, NEW confirm, NEW rows, TurnInv(u, confirm, rows)
  PROVE  /\ IsSeq(u.calls) /\ u.state \in [DOMAIN u.calls -> {"new", "sent", "done"}]
         /\ u.pc # "batch" => Sent(u) = {}
  <1>1. u.pc # "batch" => Sent(u) = {}
    BY SentInBatch
  <1>2. Shape(u)
    BY DEF TurnInv
  <1> QED
    BY <1>1, <1>2 DEF Shape

LEMMA ReadyNow == LoopInv /\ InFlight => Ready(turn)
  <1> SUFFICES ASSUME LoopInv, InFlight, NEW t \in Turns
               PROVE  LET u == turn[t]
                      IN /\ IsSeq(u.calls) /\ u.state \in [DOMAIN u.calls -> {"new", "sent", "done"}]
                         /\ u.pc # "batch" => Sent(u) = {}
                         /\ SideBySide(u)
    BY DEF Ready
  <1>1. TurnInv(turn[t], settings.confirm, ledger[t]) /\ SideBySide(turn[t])
    BY DEF LoopInv, InFlight
  <1> QED
    BY <1>1, ReadyOne

LEMMA ReadyNext == LoopInv' /\ InFlight' => Ready(turn')
  <1> SUFFICES ASSUME LoopInv', InFlight', NEW t \in Turns
               PROVE  LET u == turn'[t]
                      IN /\ IsSeq(u.calls) /\ u.state \in [DOMAIN u.calls -> {"new", "sent", "done"}]
                         /\ u.pc # "batch" => Sent(u) = {}
                         /\ SideBySide(u)
    BY DEF Ready
  <1>1. TurnInv(turn'[t], settings'.confirm, ledger'[t]) /\ SideBySide(turn'[t])
    BY DEF LoopInv, InFlight
  <1> QED
    BY <1>1, ReadyOne

\* On their way at once are at most as many calls as turns and places in a batch.
LEMMA WaysBounded ==
  ASSUME NEW turns, Ready(turns), IsFiniteSet(Turns), WidestBatch \in Nat, WidestBatch >= 1, NEW tool
  PROVE  /\ IsFiniteSet(Ways(turns, tool)) /\ Cardinality(Ways(turns, tool)) \in Nat
         /\ Concurrency \in Nat /\ Cardinality(Ways(turns, tool)) <= Concurrency
  <1> DEFINE Places == Turns \X (1..WidestBatch)
             W == Ways(turns, tool)
             f == [w \in W |-> IF turns[w[1]].mode = "model" THEN w ELSE <<w[1], 1>>]
  <1>1. ASSUME NEW w \in W
        PROVE  LET u == turns[w[1]]
               IN /\ w[1] \in Turns /\ w[2] \in Nat /\ w[2] \in Sent(u) /\ w = <<w[1], w[2]>>
                  /\ Len(u.calls) \in Nat /\ DOMAIN u.calls = 1..Len(u.calls)
                  /\ w[2] \in DOMAIN u.calls
                  /\ u.state[w[2]] = "sent"
                  /\ \/ u.mode = "model" /\ Len(u.calls) <= WidestBatch
                     \/ /\ u.mode = "rules"
                        /\ \A i \in Sent(u) : \A j \in DOMAIN u.calls : j < i => u.state[j] = "done"
    <2> DEFINE u == turns[w[1]]
    <2>1. w[1] \in Turns /\ w[2] \in Positions /\ w[2] \in Sent(u) /\ w = <<w[1], w[2]>>
      BY DEF Ways
    <2>2. SideBySide(u) /\ (u.pc # "batch" => Sent(u) = {})
      BY <2>1 DEF Ready
    <2>3. IsSeq(u.calls) /\ u.state \in [DOMAIN u.calls -> {"new", "sent", "done"}]
      BY <2>1 DEF Ready
    <2> HIDE DEF u
    <2>4. w[2] \in DOMAIN u.calls /\ u.state[w[2]] = "sent"
      BY <2>1, <2>3 DEF Sent
    <2>5. u.pc = "batch"
      BY <2>1, <2>2
    <2>6. Len(u.calls) \in Nat /\ DOMAIN u.calls = 1..Len(u.calls)
      BY <2>3, SeqFacts
    <2> QED
      BY <2>1, <2>2, <2>4, <2>5, <2>6, LoopAssumption DEF SideBySide, Positions, u
  <1>2. ASSUME NEW w \in W PROVE f[w] \in Places
    BY <1>1
  <1>3. ASSUME NEW w \in W, NEW x \in W, f[w] = f[x] PROVE w = x
    <2> DEFINE u == turns[w[1]]
    <2>1. w[1] = x[1] /\ w = <<w[1], w[2]>> /\ x = <<x[1], x[2]>>
      BY <1>1, <1>3
    <2>2. CASE u.mode = "model"
      BY <1>3, <2>1, <2>2
    <2>3. CASE u.mode # "model"
      <3>1. /\ \A i \in Sent(u) : \A j \in DOMAIN u.calls : j < i => u.state[j] = "done"
            /\ w[2] \in Sent(u) /\ w[2] \in DOMAIN u.calls /\ w[2] \in Nat /\ u.state[w[2]] = "sent"
            /\ x[2] \in Sent(u) /\ x[2] \in DOMAIN u.calls /\ x[2] \in Nat /\ u.state[x[2]] = "sent"
        BY <1>1, <2>1, <2>3
      <3>2. ~(w[2] < x[2]) /\ ~(x[2] < w[2])
        BY <3>1
      <3> QED
        BY <2>1, <3>1, <3>2
    <2> QED
      BY <2>2, <2>3
  <1>4. IsFiniteSet(1..WidestBatch) /\ Cardinality(1..WidestBatch) = WidestBatch
    BY HowManyPositions
  <1>5. /\ IsFiniteSet(Places) /\ Cardinality(Places) = Concurrency
        /\ Cardinality(Turns) \in Nat
    BY <1>4, FS_Product, FS_CardinalityType DEF Concurrency
  <1>6. Concurrency \in Nat
    BY <1>5 DEF Concurrency
  <1>7. f \in Injection(W, Places)
    <2>1. f \in [W -> Places]
      BY <1>2
    <2> HIDE DEF W, Places
    <2>2. \A w, x \in W : f[w] = f[x] => w = x
      BY <1>3
    <2> HIDE DEF f
    <2> QED
      BY <2>1, <2>2 DEF Injection, IsInjective
  <1> HIDE DEF f, W, Places
  <1>8. IsFiniteSet(W) /\ Cardinality(W) <= Cardinality(Places)
    BY <1>5, <1>7, FS_Injection
  <1> QED
    BY <1>5, <1>6, <1>8, FS_CardinalityType DEF W

\* A call of a batch: it is refused or put aside, sent, or comes back.
Rests(u, v) == v.pc # "batch" /\ v.pending \in {u.pending, <<>>}
Ends(u, v, i) == /\ v.state = [u.state EXCEPT ![i] = "done"]
                 /\ \/ v.pending = u.pending
                    \/ v.pending = Append(u.pending, u.calls[i]) /\ asks_first(u.calls[i])
Leaves(u, v, i) == /\ u.state[i] = "new" /\ v.state = [u.state EXCEPT ![i] = "sent"]
                   /\ v.pending = u.pending
                   /\ gate(u.calls[i]) = "none" /\ InTurn(u, i)

LEMMA ReportParts ==
  ASSUME NEW u, DOMAIN u = Fields, NEW i, NEW code, NEW answer, NEW v, v = Report(u, i, code, answer)
  PROVE  v.state = [u.state EXCEPT ![i] = "done"] /\ v.pending = u.pending /\ DOMAIN v = Fields
  BY DEF Report, Fields

LEMMA ReportRests ==
  ASSUME NEW u, u.pc # "batch", NEW w, DOMAIN w = Fields, w.pc = u.pc, w.pending = u.pending,
         NEW i, NEW code, NEW answer, NEW v, v = Report(w, i, code, answer)
  PROVE  Rests(u, v)
  BY DEF Report, Rests, Fields

LEMMA RunOneParts ==
  ASSUME LoopTyped, LoopInv, NEW t \in Turns, NEW i \in Positions, run_one(t, i)
  PROVE  /\ i \in DOMAIN turn[t].calls /\ turn[t].pc = "batch"
         /\ DOMAIN turn' = Turns /\ \A s \in Turns \ {t} : turn'[s] = turn[s]
         /\ settings' = settings /\ UNCHANGED <<clock, breaker>>
         /\ seen_down' = IF turn'[t].state[i] = "sent"
                         THEN [seen_down EXCEPT ![turn[t].calls[i].tool].begun = @ + 1] ELSE seen_down
         /\ \/ turn[t].state[i] = "new" /\ Ends(turn[t], turn'[t], i)
            \/ Leaves(turn[t], turn'[t], i)
  <1> DEFINE u == turn[t]
             v == turn'[t]
             call == u.calls[i]
             taken == [u EXCEPT !.seen = claimed(u, call)]
  <1>1. DOMAIN u = Fields
    BY DEF LoopInv, TurnInv, Shape
  <1>2. /\ u.pc = "batch" /\ i \in DOMAIN u.calls /\ u.state[i] = "new" /\ InTurn(u, i)
        /\ DOMAIN turn' = Turns /\ \A s \in Turns \ {t} : turn'[s] = turn[s]
        /\ settings' = settings /\ UNCHANGED <<clock, breaker>>
    BY DEF run_one, LoopTyped
  <1>3. seen_down' = IF turn'[t].state[i] = "sent"
                     THEN [seen_down EXCEPT ![call.tool].begun = @ + 1] ELSE seen_down
    BY ZenonT(30) DEF run_one
  <1>4. v = IF gate(call) # "none" THEN Report(u, i, gate(call), "none")
            ELSE IF repeats(u, call) THEN Report(u, i, "DUPLICATE_CALL_REFUSED", "none")
            ELSE IF ~screen_tool_input(call.tool, call.args)
                 THEN Report(taken, i, "GUARDRAIL_REFUSED", "none")
            ELSE IF asks_first(call)
                 THEN [Report(taken, i, "CONFIRMATION_REQUIRED", "none") EXCEPT
                         !.pending = Append(@, call)]
            ELSE [taken EXCEPT !.state[i] = "sent", !.begun = @ + 1]
    BY DEF run_one, LoopTyped
  <1>5. DOMAIN taken = Fields /\ taken.state = u.state /\ taken.calls = u.calls /\ taken.pending = u.pending
    BY <1>1 DEF Fields
  <1> HIDE DEF u, v, taken
  <1>6. ASSUME NEW w, w = u \/ w = taken, NEW code
        PROVE  LET r == Report(w, i, code, "none")
               IN r.state = [u.state EXCEPT ![i] = "done"] /\ r.pending = u.pending /\ DOMAIN r = Fields
    <2>1. DOMAIN w = Fields /\ w.state = u.state /\ w.pending = u.pending
      BY <1>1, <1>5, <1>6 DEF u
    <2> DEFINE r == Report(w, i, code, "none")
    <2>2. r.state = [w.state EXCEPT ![i] = "done"] /\ r.pending = w.pending /\ DOMAIN r = Fields
      BY <2>1, ReportParts
    <2> HIDE DEF r
    <2> QED
      BY <2>1, <2>2 DEF r
  <1>7. CASE v = [taken EXCEPT !.state[i] = "sent", !.begun = @ + 1] /\ gate(call) = "none"
    <2>1. Leaves(u, v, i)
      BY <1>2, <1>5, <1>7 DEF Leaves, Fields, u
    <2> QED
      BY <1>2, <1>3, <2>1 DEF u, v
  <1>8. CASE v = [Report(taken, i, "CONFIRMATION_REQUIRED", "none") EXCEPT !.pending = Append(@, call)]
             /\ asks_first(call)
    <2> DEFINE r == Report(taken, i, "CONFIRMATION_REQUIRED", "none")
    <2>1. r.state = [u.state EXCEPT ![i] = "done"] /\ r.pending = u.pending /\ DOMAIN r = Fields
      BY <1>6
    <2>2. v = [r EXCEPT !.pending = Append(@, call)]
      BY <1>8
    <2> HIDE DEF r
    <2>3. Ends(u, v, i)
      BY <1>8, <2>1, <2>2 DEF Ends, Fields, u
    <2> QED
      BY <1>2, <1>3, <2>3 DEF u, v
  <1>9. CASE \E w \in {u, taken} : \E code : v = Report(w, i, code, "none")
    <2>1. Ends(u, v, i)
      BY <1>6, <1>9 DEF Ends
    <2> QED
      BY <1>2, <1>3, <2>1 DEF u, v
  <1> QED
    BY <1>4, <1>7, <1>8, <1>9

\* The code of a call that came back counts as long as nothing was answered.
LEMMA FlaggedAnswers ==
  ASSUME NEW tool, NEW script, NEW r, r = execute(tool, script), ~screen_tool_output(r.answer)
  PROVE  apply_result_contract(tool, r.code, r.answer) \notin TRANSPORT_CODES
  <1> DEFINE n == call_with_retry(script, writes(tool))
  <1>1. r.answer = script[n] /\ r.code = adapter_code(script[n], writes(tool))
    BY DEF execute
  <1> HIDE DEF n
  <1>2. r.answer = "flagged" /\ r.code = "none"
    BY <1>1 DEF screen_tool_output, adapter_code
  <1> QED
    BY <1>2 DEF apply_result_contract, TRANSPORT_CODES

LEMMA ComesBack ==
  ASSUME LoopTyped, LoopInv, NEW t \in Turns, NEW i \in Positions,
         Returns(t, i) \/ Raises(t, i) \/ DeadlineFires(t, i)
  PROVE  LET tool == turn[t].calls[i].tool
         IN /\ i \in DOMAIN turn[t].calls /\ turn[t].pc = "batch" /\ turn[t].state[i] = "sent"
            /\ DOMAIN turn' = Turns /\ \A s \in Turns \ {t} : turn'[s] = turn[s]
            /\ settings' = settings /\ UNCHANGED clock
            /\ Ends(turn[t], turn'[t], i)
            /\ \/ /\ UNCHANGED seen_down
                  /\ breaker' = [breaker EXCEPT ![tool] = record_failure(breaker[tool])]
               \/ \E code :
                    /\ seen_down' = [seen_down EXCEPT ![tool].answered = @ \/ code \notin TRANSPORT_CODES]
                    /\ code \in TRANSPORT_CODES => record_breaker(tool, code)
                    /\ record_breaker(tool, code) \/ UNCHANGED breaker
               \/ UNCHANGED breaker /\ seen_down' = [seen_down EXCEPT ![tool].answered = TRUE]
  <1> DEFINE u == turn[t]
             v == turn'[t]
             call == u.calls[i]
  <1>1. DOMAIN u = Fields
    BY DEF LoopInv, TurnInv, Shape
  <1>2. u.pc = "batch" /\ i \in DOMAIN u.calls /\ u.state[i] = "sent" /\ settings' = settings /\ UNCHANGED clock
    BY DEF Returns, Raises, DeadlineFires
  <1>3. /\ DOMAIN turn' = Turns /\ \A s \in Turns \ {t} : turn'[s] = turn[s]
        /\ Ends(u, v, i)
    <2>1. /\ DOMAIN turn' = Turns /\ \A s \in Turns \ {t} : turn'[s] = turn[s]
      BY DEF LoopTyped, Returns, Raises, DeadlineFires
    <2>2. PICK row, code, answer : v = Report(Attempt(u, call, row), i, code, answer)
      BY BackReported
    <2> DEFINE w == Attempt(u, call, row)
    <2>3. DOMAIN w = Fields /\ w.state = u.state /\ w.pending = u.pending
      <3> HIDE DEF u, call
      <3> QED
        BY <1>1, AttemptSame
    <2> HIDE DEF w, u, v
    <2>4. v = Report(w, i, code, answer)
      BY <2>2 DEF w
    <2>5. v.state = [w.state EXCEPT ![i] = "done"] /\ v.pending = w.pending
      BY <2>3, <2>4, ReportParts
    <2>6. Ends(u, v, i)
      BY <2>3, <2>5 DEF Ends
    <2> QED
      BY <2>1, <2>6 DEF u, v
  <1>4. CASE Returns(t, i)
    <2>1. PICK script \in Scripts :
            LET r == execute(call.tool, script)
                code == apply_result_contract(call.tool, r.code, r.answer)
            IN /\ \/ ~screen_tool_output(r.answer) /\ UNCHANGED breaker
                  \/ screen_tool_output(r.answer) /\ record_breaker(call.tool, code)
               /\ seen_down' = [seen_down EXCEPT ![call.tool].answered = @ \/ code \notin TRANSPORT_CODES]
      BY <1>4, ZenonT(30) DEF Returns
    <2> DEFINE r == execute(call.tool, script)
               code == apply_result_contract(call.tool, r.code, r.answer)
    <2>2. /\ code \in TRANSPORT_CODES => record_breaker(call.tool, code)
          /\ record_breaker(call.tool, code) \/ UNCHANGED breaker
      BY <2>1, FlaggedAnswers
    <2>3. seen_down' = [seen_down EXCEPT ![call.tool].answered = @ \/ code \notin TRANSPORT_CODES]
      BY <2>1
    <2> HIDE DEF code, r, u, v
    <2> QED
      BY <1>2, <1>3, <2>2, <2>3 DEF u, v
  <1>5. CASE Raises(t, i)
    <2>1. UNCHANGED breaker /\ seen_down' = [seen_down EXCEPT ![call.tool].answered = TRUE]
      BY <1>5 DEF Raises
    <2> HIDE DEF u, v
    <2> QED
      BY <1>2, <1>3, <2>1 DEF u, v
  <1>6. CASE DeadlineFires(t, i)
    <2>1. UNCHANGED seen_down /\ breaker' = [breaker EXCEPT ![call.tool] = record_failure(breaker[call.tool])]
      BY <1>6 DEF DeadlineFires
    <2> HIDE DEF u, v
    <2> QED
      BY <1>2, <1>3, <2>1 DEF u, v
  <1> QED
    BY <1>4, <1>5, <1>6

\* Between the calls of a batch nothing is on its way; a new batch is no wider than
\* what the model asked for.
LEMMA RestSteps ==
  ASSUME LoopTyped, LoopInv, NEW t \in Turns,
         \/ NoModel(t) \/ OutOfRounds(t) \/ EndRound(t) \/ LeaveLoop(t)
         \/ ReplayConfirm(t) \/ LeaseRunsOut(t) \/ LeaveConfirm(t)
         \/ \E verdict : confirm_writes(t, verdict)
  PROVE  Moves(t) /\ Sent(turn[t]) = {} /\ Rests(turn[t], turn'[t])
  <1> DEFINE u == turn[t]
             v == turn'[t]
  <1>1. DOMAIN turn = Turns /\ DOMAIN u = Fields /\ TurnInv(u, settings.confirm, ledger[t])
    BY DEF LoopTyped, LoopInv, TurnInv, Shape
  <1>2. u.pc # "batch" => Sent(u) = {}
    BY <1>1, SentInBatch
  <1>3. DOMAIN u.state = DOMAIN u.calls
    BY <1>1 DEF TurnInv, Shape
  <1>4. CASE NoModel(t) \/ OutOfRounds(t)
    <2>1. v.pc = "over" /\ v.pending = u.pending /\ u.pc = "ask"
      BY <1>1, <1>4 DEF NoModel, OutOfRounds, Loops, Fields
    <2> QED
      BY <1>2, <1>4, <2>1, NoModelStep DEF Rests
  <1>5. CASE EndRound(t)
    <2>1. v.pc \in {"ask", "over"} /\ v.pending = u.pending
      BY <1>1, <1>5 DEF EndRound, Fields
    <2>2. \A i \in DOMAIN u.calls : u.state[i] = "done"
      BY <1>5 DEF EndRound
    <2>3. Sent(u) = {}
      BY <1>3, <2>2 DEF Sent
    <2> QED
      BY <1>5, <2>1, <2>3, EndRoundStep DEF Rests
  <1>6. CASE LeaveLoop(t) \/ LeaveConfirm(t)
    <2>1. \/ \E p \in {"clarify", "answer"} : v = [Started EXCEPT !.pc = p]
          \/ v = [u EXCEPT !.pc = "confirm", !.calls = <<>>, !.state = <<>>, !.outcome = <<>>]
      BY <1>1, <1>6 DEF LeaveLoop, LeaveConfirm
    <2>2. Rests(u, v)
      BY <1>1, <2>1 DEF Started, Fields, Rests
    <2>3. u.pc = "batch" => \A i \in DOMAIN u.calls : u.state[i] = "done"
      BY <1>6 DEF LeaveLoop, LeaveConfirm
    <2>4. Sent(u) = {}
      BY <1>2, <1>3, <2>3 DEF Sent
    <2> QED
      BY <1>6, <2>2, <2>4, LeaveStep
  <1>7. CASE ReplayConfirm(t) \/ LeaseRunsOut(t)
    <2>1. v.pc = "execute" /\ v.pending = u.pending /\ u.pc = "execute"
      BY <1>1, <1>7, AgainRests
    <2> QED
      BY <1>2, <1>7, <2>1, ReplayStep, LeaseStep DEF Rests
  <1>8. ASSUME NEW verdict, confirm_writes(t, verdict)
        PROVE  Moves(t) /\ Sent(u) = {} /\ Rests(u, v)
    <2>1. v.pc = "execute" /\ v.pending = u.pending /\ u.pc = "confirm"
      BY <1>1, <1>8 DEF confirm_writes, Fields
    <2> QED
      BY <1>2, <1>8, <2>1, ConfirmStep DEF Rests
  <1> QED
    BY <1>4, <1>5, <1>6, <1>7, <1>8

\* A new batch: nothing of it is on its way.
Opens(u, v) == Sent(v) = {} /\ v.pending = u.pending /\ SideBySide(v)

LEMMA FallbackOpens ==
  ASSUME LoopTyped, LoopInv, NEW t \in Turns, Fallback(t)
  PROVE  Moves(t) /\ Sent(turn[t]) = {} /\ Opens(turn[t], turn'[t])
  <1> DEFINE u == turn[t]
             v == turn'[t]
  <1>1. DOMAIN turn = Turns /\ DOMAIN u = Fields /\ TurnInv(u, settings.confirm, ledger[t])
    BY DEF LoopTyped, LoopInv, TurnInv, Shape
  <1>2. u.pc = "over"
    BY DEF Fallback
  <1>3. v.mode = "rules" /\ v.pending = u.pending /\ \A i \in DOMAIN v.state : v.state[i] = "new"
    BY <1>1, ZenonT(60) DEF Fallback, Fields
  <1> HIDE DEF u, v
  <1>4. Sent(v) = {}
    BY <1>3 DEF Sent
  <1>5. SideBySide(v)
    BY <1>3, <1>4 DEF SideBySide
  <1>6. Sent(u) = {}
    BY <1>1, <1>2, SentInBatch
  <1>7. Moves(t)
    BY FallbackStep
  <1> QED
    BY <1>3, <1>4, <1>5, <1>6, <1>7 DEF Opens, u, v

LEMMA DecideOpens ==
  ASSUME NEW u, NEW v, Shape(u), NEW asked \in Batches, NEW calls, IsSeq(calls),
         Len(calls) <= Len(asked), Len(asked) \in Nat, Len(asked) <= WidestBatch,
         WidestBatch \in Nat, u.pc = "ask",
         Sent(u) = {}, NEW tokens, v = Decide(u, calls, tokens)
  PROVE  Opens(u, v)
  <1> DEFINE batch == Take(u.budget, calls)
             next == [u EXCEPT !.pc = "batch", !.tokens = tokens, !.mode = "model",
                               !.rounds = @ + 1, !.budget = @ - Len(batch), !.calls = batch,
                               !.state = [i \in DOMAIN batch |-> "new"],
                               !.outcome = [i \in DOMAIN batch |-> NoResult],
                               !.asked = @ \cup {<<u.rounds + 1, calls[i].id>> : i \in DOMAIN calls}]
  <1>1. DOMAIN u = Fields /\ u.budget \in Nat
    BY DEF Shape
  <1>2. \/ v = [u EXCEPT !.pc = "over", !.tokens = tokens, !.stop = "TOKEN_BUDGET"]
        \/ v = [u EXCEPT !.pc = "over", !.tokens = tokens, !.mode = "model"]
        \/ v = next
    BY DEF Decide
  <1>3. Len(batch) \in Nat /\ Len(batch) <= WidestBatch
    <2>1. IsSeq(calls)
      OBVIOUS
    <2>2. IsSeq(batch) /\ Len(batch) <= Len(calls)
      BY <1>1, <2>1, TakeFacts
    <2>3. Len(batch) \in Nat /\ Len(calls) \in Nat
      BY <2>1, <2>2, SeqFacts
    <2> HIDE DEF batch
    <2> QED
      BY <2>2, <2>3
  <1> HIDE DEF batch
  <1>4. CASE v = next
    <2>1. v.mode = "model" /\ v.pending = u.pending /\ v.calls = batch /\ v.state = [i \in DOMAIN batch |-> "new"]
      BY <1>1, <1>4, ZenonT(60) DEF Fields
    <2> HIDE DEF next
    <2>2. Sent(v) = {}
      BY <2>1 DEF Sent
    <2> QED
      BY <1>3, <2>1, <2>2 DEF Opens, SideBySide
  <1>5. CASE \/ v = [u EXCEPT !.pc = "over", !.tokens = tokens, !.stop = "TOKEN_BUDGET"]
             \/ v = [u EXCEPT !.pc = "over", !.tokens = tokens, !.mode = "model"]
    <2>1. v.pc = "over" /\ v.pending = u.pending /\ v.state = u.state
      BY <1>1, <1>5 DEF Fields
    <2>2. Sent(v) = {}
      BY <2>1 DEF Sent
    <2> QED
      BY <2>1, <2>2 DEF Opens, SideBySide
  <1> QED
    BY <1>2, <1>4, <1>5

LEMMA ModelOpens ==
  ASSUME LoopTyped, LoopInv, NEW t \in Turns, model_turn(t), WidestBatch \in Nat,
         \A calls \in Batches : Len(calls) \in Nat /\ Len(calls) <= WidestBatch
  PROVE  Moves(t) /\ Sent(turn[t]) = {} /\ Opens(turn[t], turn'[t])
  <1> DEFINE u == turn[t]
             v == turn'[t]
  <1>1. Shape(u) /\ TurnInv(u, settings.confirm, ledger[t])
    BY DEF LoopInv, TurnInv
  <1>2. u.pc = "ask"
    BY DEF model_turn, Loops
  <1>3. Sent(u) = {}
    BY <1>1, <1>2, SentInBatch
  <1>4. PICK calls \in Batches : \E decoded, tokens : Decides(t, calls, decoded, tokens)
    BY ModelDecides
  <1>5. PICK decoded, tokens : Decides(t, calls, decoded, tokens)
    BY <1>4
  <1>6. IsSeq(decoded) /\ Len(decoded) <= Len(calls) /\ v = Decide(u, decoded, tokens)
    BY <1>5 DEF Decides, RunsOf
  <1>7. Len(calls) \in Nat /\ Len(calls) <= WidestBatch
    BY <1>4
  <1> HIDE DEF u, v
  <1>8. Opens(u, v)
    BY <1>1, <1>2, <1>3, <1>6, <1>7, DecideOpens
  <1>9. Moves(t)
    BY ModelStep
  <1> QED
    BY <1>3, <1>8, <1>9 DEF u, v

\* What the steps do to the calls on their way.
Elsewhere(t) == \A s \in Turns \ {t} : turn'[s] = turn[s]

LEMMA SameWays ==
  ASSUME NEW t \in Turns, Elsewhere(t), Sent(turn[t]) = {}, Sent(turn'[t]) = {}, NEW tool
  PROVE  Ways(turn', tool) = Ways(turn, tool)
  <1>1. ASSUME NEW w \in Turns \X Positions
        PROVE  /\ w[2] \in Sent(turn'[w[1]]) /\ turn'[w[1]].calls[w[2]].tool = tool
                    <=> w[2] \in Sent(turn[w[1]]) /\ turn[w[1]].calls[w[2]].tool = tool
    <2>1. CASE w[1] = t
      BY <2>1
    <2>2. CASE w[1] # t
      <3>1. turn'[w[1]] = turn[w[1]]
        BY <1>1, <2>2 DEF Elsewhere
      <3> QED
        BY <3>1
    <2> QED
      BY <2>1, <2>2
  <1> QED
    BY <1>1 DEF Ways

LEMMA WaysBack ==
  ASSUME NEW t \in Turns, NEW i \in Positions, Elsewhere(t),
         turn'[t].calls = turn[t].calls, Sent(turn'[t]) = Sent(turn[t]) \ {i}, NEW tool
  PROVE  Ways(turn', tool) = Ways(turn, tool) \ {<<t, i>>}
  <1>1. ASSUME NEW w \in Turns \X Positions
        PROVE  /\ w[2] \in Sent(turn'[w[1]]) /\ turn'[w[1]].calls[w[2]].tool = tool
                    <=> /\ w[2] \in Sent(turn[w[1]]) /\ turn[w[1]].calls[w[2]].tool = tool
                        /\ w # <<t, i>>
    <2>0. w = <<w[1], w[2]>>
      BY <1>1
    <2>1. CASE w[1] = t
      <3>1. w # <<t, i>> <=> w[2] # i
        BY <2>0, <2>1
      <3> QED
        BY <2>1, <3>1
    <2>2. CASE w[1] # t
      <3>1. turn'[w[1]] = turn[w[1]] /\ w # <<t, i>>
        BY <1>1, <2>0, <2>2 DEF Elsewhere
      <3> QED
        BY <3>1
    <2> QED
      BY <2>1, <2>2
  <1> QED
    BY <1>1 DEF Ways

LEMMA WaysOut ==
  ASSUME NEW t \in Turns, NEW i \in Positions, Elsewhere(t), i \notin Sent(turn[t]),
         turn'[t].calls = turn[t].calls, Sent(turn'[t]) = Sent(turn[t]) \cup {i}, NEW tool
  PROVE  /\ turn[t].calls[i].tool = tool => Ways(turn', tool) = Ways(turn, tool) \cup {<<t, i>>}
         /\ turn[t].calls[i].tool # tool => Ways(turn', tool) = Ways(turn, tool)
         /\ <<t, i>> \notin Ways(turn, tool)
  <1>1. ASSUME NEW w \in Turns \X Positions
        PROVE  /\ w[2] \in Sent(turn'[w[1]]) /\ turn'[w[1]].calls[w[2]].tool = tool
                    <=> \/ w[2] \in Sent(turn[w[1]]) /\ turn[w[1]].calls[w[2]].tool = tool
                        \/ w = <<t, i>> /\ turn[t].calls[i].tool = tool
    <2>0. w = <<w[1], w[2]>>
      BY <1>1
    <2>1. CASE w[1] = t
      <3>1. w = <<t, i>> <=> w[2] = i
        BY <2>0, <2>1
      <3> QED
        BY <2>1, <3>1
    <2>2. CASE w[1] # t
      <3>1. turn'[w[1]] = turn[w[1]] /\ w # <<t, i>>
        BY <1>1, <2>0, <2>2 DEF Elsewhere
      <3> QED
        BY <3>1
    <2> QED
      BY <2>1, <2>2
  <1>2. <<t, i>> \in Turns \X Positions
    OBVIOUS
  <1>3. <<t, i>> \notin Ways(turn, tool)
    BY DEF Ways
  <1>4. ASSUME turn[t].calls[i].tool = tool PROVE Ways(turn', tool) = Ways(turn, tool) \cup {<<t, i>>}
    BY <1>1, <1>2, <1>4 DEF Ways
  <1>5. ASSUME turn[t].calls[i].tool # tool PROVE Ways(turn', tool) = Ways(turn, tool)
    BY <1>1, <1>5 DEF Ways
  <1> QED
    BY <1>3, <1>4, <1>5

\* A step of one turn keeps the others as they are.
LEMMA FlightKept ==
  ASSUME InFlight, NEW t \in Turns, Elsewhere(t), settings' = settings,
         SideBySide(turn'[t]), AskedAside(turn'[t])
  PROVE  InFlight'
  <1>1. ASSUME NEW s \in Turns PROVE SideBySide(turn'[s]) /\ AskedAside(turn'[s])
    <2>1. CASE s = t
      BY <2>1
    <2>2. CASE s # t
      BY <2>2 DEF Elsewhere, InFlight
    <2> QED
      BY <2>1, <2>2
  <1>2. ASSUME NEW s \in Turns PROVE SideBySide(turn[s])' /\ AskedAside(turn[s])'
    <2>1. SideBySide(turn'[s]) /\ AskedAside(turn'[s])
      BY <1>1
    <2> QED
      BY <2>1 DEF SideBySide, AskedAside, WidestBatch, Sent
  <1> QED
    BY <1>2 DEF InFlight

\* A tool whose breaker, record and calls on their way stay as they are, or whose
\* breaker moves while it has begun nothing.
LEMMA ContainedKept ==
  ASSUME NEW tool, Contained(tool), settings' = settings, clock \in Int, clock' \in Int, clock <= clock',
         breaker'[tool].failures = breaker[tool].failures
           \/ (settings.confirm /\ writes(tool) /\ breaker'[tool].failures \in Nat),
         seen_down'[tool] = seen_down[tool], Ways(turn', tool) = Ways(turn, tool),
         Cardinality(Ways(turn, tool)) \in Nat, Cooldown \in Nat
  PROVE  Contained(tool)'
  <1>1. Silent(tool)' => Silent(tool)
    BY DEF Silent
  <1>2. Silent(tool) => seen_down[tool].begun <= Threshold - 1 + Concurrency
    BY DEF Contained
  <1>3. settings.confirm /\ writes(tool) => seen_down[tool].begun = 0
    BY DEF Contained
  <1>4. Silent(tool) => seen_down[tool].begun <= breaker'[tool].failures + Cardinality(Ways(turn, tool))
    <2>1. CASE breaker'[tool].failures = breaker[tool].failures
      BY <2>1 DEF Contained
    <2>2. CASE settings.confirm /\ writes(tool) /\ breaker'[tool].failures \in Nat
      BY <1>3, <2>2
    <2> QED
      BY <2>1, <2>2
  <1> QED
    BY <1>1, <1>2, <1>3, <1>4 DEF Contained, Concurrency, WidestBatch

LEMMA EndsFlight ==
  ASSUME NEW u, NEW v, NEW i \in DOMAIN u.calls, Shape(u), SideBySide(u), AskedAside(u), Same(u, v),
         Ends(u, v, i)
  PROVE  Sent(v) = Sent(u) \ {i} /\ SideBySide(v) /\ AskedAside(v) /\ v.state[i] = "done"
  <1>1. u.state \in [DOMAIN u.calls -> {"new", "sent", "done"}] /\ IsSeq(u.pending)
    BY DEF Shape
  <1>2. v.state = [u.state EXCEPT ![i] = "done"] /\ v.calls = u.calls /\ v.mode = u.mode /\ v.pc = u.pc
    BY DEF Ends, Same
  <1>3. /\ DOMAIN v.state = DOMAIN u.calls /\ v.state[i] = "done"
        /\ \A j \in DOMAIN u.calls \ {i} : v.state[j] = u.state[j]
    BY <1>1, <1>2
  <1>4. Sent(v) = Sent(u) \ {i}
    BY <1>1, <1>3 DEF Sent
  <1>5. SideBySide(v)
    BY <1>2, <1>3, <1>4 DEF SideBySide
  <1>6. AskedAside(v)
    <2>1. CASE v.pending = u.pending
      BY <2>1 DEF AskedAside
    <2>2. CASE v.pending = Append(u.pending, u.calls[i]) /\ asks_first(u.calls[i])
      <3>1. Extends(v.pending, u.pending, u.calls[i])
        BY <1>1, <2>2, AppendFacts
      <3> QED
        BY <2>2, <3>1 DEF AskedAside, Extends, asks_first
    <2> QED
      BY <2>1, <2>2 DEF Ends
  <1> QED
    BY <1>3, <1>4, <1>5, <1>6

LEMMA LeavesFlight ==
  ASSUME NEW u, NEW v, NEW i \in DOMAIN u.calls, Shape(u), SideBySide(u), AskedAside(u), Same(u, v),
         Leaves(u, v, i)
  PROVE  /\ Sent(v) = Sent(u) \cup {i} /\ i \notin Sent(u)
         /\ SideBySide(v) /\ AskedAside(v) /\ v.state[i] = "sent"
  <1>1. u.state \in [DOMAIN u.calls -> {"new", "sent", "done"}] /\ u.state[i] = "new"
    BY DEF Shape, Leaves
  <1>2. /\ v.state = [u.state EXCEPT ![i] = "sent"] /\ v.pending = u.pending
        /\ v.calls = u.calls /\ v.mode = u.mode /\ v.pc = u.pc
    BY DEF Leaves, Same
  <1>3. /\ DOMAIN v.state = DOMAIN u.calls /\ v.state[i] = "sent"
        /\ \A j \in DOMAIN u.calls \ {i} : v.state[j] = u.state[j]
    BY <1>1, <1>2
  <1>4. Sent(v) = Sent(u) \cup {i} /\ i \notin Sent(u)
    BY <1>1, <1>3 DEF Sent
  <1>5. u.mode = "rules" => \A j \in DOMAIN u.calls : j < i => u.state[j] = "done" /\ j # i
    BY <1>1 DEF Leaves, InTurn
  <1>6. SideBySide(v)
    <2>1. CASE v.pc = "batch" /\ v.mode = "rules" /\ ~(v.mode = "model")
      <3>1. \A k \in Sent(u) : \A j \in DOMAIN u.calls : j < k => u.state[j] = "done" /\ j # i
        BY <1>1, <1>2, <2>1 DEF SideBySide
      <3>2. \A k \in Sent(v) : \A j \in DOMAIN v.calls : j < k => v.state[j] = "done"
        BY <1>2, <1>3, <1>4, <1>5, <2>1, <3>1
      <3> QED
        BY <2>1, <3>2 DEF SideBySide
    <2>2. CASE ~(v.pc = "batch" /\ v.mode = "rules")
      BY <1>2, <2>2 DEF SideBySide
    <2> QED
      BY <2>1, <2>2
  <1>7. AskedAside(v)
    BY <1>2 DEF AskedAside
  <1> QED
    BY <1>3, <1>4, <1>6, <1>7

Hypotheses == IsFiniteSet(Turns) /\ WidestBatch \in Nat /\ WidestBatch >= 1

\* A call goes out only while the breaker is closed.
LEMMA GoesOut ==
  ASSUME LoopTyped, LoopInv, BreakerTyped, DownInv, Hypotheses, NEW t \in Turns, NEW i \in Positions,
         run_one(t, i), Leaves(turn[t], turn'[t], i), LoopInv'
  PROVE  DownInv'
  <1> DEFINE u == turn[t]
             v == turn'[t]
             call == u.calls[i]
  <1>1. /\ i \in DOMAIN u.calls /\ settings' = settings /\ UNCHANGED <<clock, breaker>>
        /\ Elsewhere(t) /\ Same(u, v) /\ Shape(u) /\ SideBySide(u) /\ AskedAside(u)
        /\ DOMAIN turn' = Turns
    BY RunOneParts, CallSame DEF Elsewhere, LoopInv, TurnInv, DownInv, InFlight
  <1>2. /\ Sent(v) = Sent(u) \cup {i} /\ i \notin Sent(u)
        /\ SideBySide(v) /\ AskedAside(v) /\ v.state[i] = "sent" /\ v.calls = u.calls
    BY <1>1, LeavesFlight DEF Same
  <1>3. seen_down' = [seen_down EXCEPT ![call.tool].begun = @ + 1]
    BY <1>2, RunOneParts
  <1>4. InFlight'
    BY <1>1, <1>2, FlightKept DEF DownInv
  <1>5. known(call.tool) /\ ~is_open(call.tool)
    BY DEF Leaves, gate
  <1>6. clock < Cooldown => breaker[call.tool].failures <= Threshold - 1
    <2>1. breaker[call.tool].failures \in Nat /\ breaker[call.tool].opened_at \in Nat /\ clock \in Nat
      BY <1>5, LoopAssumption DEF known, BreakerTyped
    <2> QED
      <3> DEFINE b == breaker[call.tool]
      <3>1. ~(b.failures >= Threshold /\ clock - b.opened_at < Cooldown)
        BY <1>5 DEF is_open
      <3>2. Threshold \in Nat /\ Cooldown \in Nat
        BY LoopAssumption
      <3> HIDE DEF b
      <3> QED
        BY <2>1, <3>1, <3>2 DEF b
  <1>7. ASSUME NEW tool \in DOMAIN TOOLS PROVE Contained(tool)'
    <2>1. Contained(tool) /\ InFlight
      BY DEF DownInv
    <2>2. /\ IsFiniteSet(Ways(turn, tool)) /\ Cardinality(Ways(turn, tool)) \in Nat
          /\ Concurrency \in Nat /\ Cardinality(Ways(turn, tool)) <= Concurrency
      BY <2>1, ReadyNow, WaysBounded DEF Hypotheses
    <2>3. CASE tool # call.tool
      <3>1. seen_down'[tool] = seen_down[tool]
        BY <1>3, <2>3 DEF BreakerTyped
      <3>2. Ways(turn', tool) = Ways(turn, tool)
        BY <1>1, <1>2, <2>3, WaysOut
      <3>3. clock \in Int /\ clock' \in Int /\ clock <= clock'
        BY <1>1, LoopAssumption DEF BreakerTyped
      <3> QED
        BY <1>1, <2>1, <2>2, <3>1, <3>2, <3>3, ContainedKept, LoopAssumption
    <2>4. CASE tool = call.tool
      <3>1. /\ seen_down'[tool].begun = seen_down[tool].begun + 1
            /\ seen_down'[tool].answered = seen_down[tool].answered
            /\ seen_down[tool].begun \in Nat /\ breaker[tool].failures \in Nat
        BY <1>3, <2>4 DEF BreakerTyped
      <3>2. Ways(turn', tool) = Ways(turn, tool) \cup {<<t, i>>} /\ <<t, i>> \notin Ways(turn, tool)
        BY <1>1, <1>2, <2>4, WaysOut
      <3>3. Cardinality(Ways(turn', tool)) = Cardinality(Ways(turn, tool)) + 1
        BY <2>2, <3>2, FS_AddElement
      <3>4. Cardinality(Ways(turn', tool)) <= Concurrency
        <4>1. Ready(turn')
          BY <1>4, ReadyNext
        <4> QED
          BY <4>1, WaysBounded DEF Hypotheses
      <3>5. ~(settings.confirm /\ writes(tool))
        <4>1. i \in Sent(v) /\ Guarded(v, settings'.confirm)
          BY <1>2 DEF LoopInv, TurnInv
        <4> QED
          BY <1>1, <1>2, <2>4, <4>1 DEF Guarded
      <3>6. Silent(tool)' => Silent(tool) /\ clock < Cooldown
        BY <1>1, <3>1 DEF Silent
      <3>7. Silent(tool) => seen_down[tool].begun <= breaker[tool].failures + Cardinality(Ways(turn, tool))
        BY <2>1 DEF Contained
      <3>8. Silent(tool)' =>
              /\ seen_down'[tool].begun <= breaker'[tool].failures + Cardinality(Ways(turn', tool))
              /\ seen_down'[tool].begun <= Threshold - 1 + Concurrency
        <4> SUFFICES ASSUME Silent(tool)'
                     PROVE  /\ seen_down'[tool].begun <= breaker'[tool].failures + Cardinality(Ways(turn', tool))
                            /\ seen_down'[tool].begun <= Threshold - 1 + Concurrency
          OBVIOUS
        <4> DEFINE begun == seen_down[tool].begun
                   failures == breaker[tool].failures
                   ways == Cardinality(Ways(turn, tool))
        <4>1. Threshold \in Nat /\ begun \in Nat /\ failures \in Nat /\ ways \in Nat /\ Concurrency \in Nat
          BY <2>2, <3>1, LoopAssumption
        <4>2. begun <= failures + ways /\ failures <= Threshold - 1 /\ ways + 1 <= Concurrency
          BY <1>6, <2>4, <3>3, <3>4, <3>6, <3>7
        <4>3. seen_down'[tool].begun = begun + 1 /\ breaker'[tool].failures = failures
              /\ Cardinality(Ways(turn', tool)) = ways + 1
          BY <1>1, <3>1, <3>3
        <4> HIDE DEF begun, failures, ways
        <4>4. begun + 1 <= failures + (ways + 1) /\ begun + 1 <= Threshold - 1 + Concurrency
          BY <4>1, <4>2
        <4> QED
          BY <4>3, <4>4
      <3> QED
        BY <1>1, <3>5, <3>8 DEF Contained, Concurrency, WidestBatch
    <2> QED
      BY <2>3, <2>4
  <1> QED
    BY <1>4, <1>7 DEF DownInv

\* A call that is refused or put aside was not on its way.
LEMMA StaysHere ==
  ASSUME LoopTyped, LoopInv, BreakerTyped, DownInv, Hypotheses, NEW t \in Turns, NEW i \in Positions,
         run_one(t, i), turn[t].state[i] = "new", Ends(turn[t], turn'[t], i)
  PROVE  DownInv'
  <1> DEFINE u == turn[t]
             v == turn'[t]
  <1>1. /\ i \in DOMAIN u.calls /\ settings' = settings /\ UNCHANGED <<clock, breaker>>
        /\ Elsewhere(t) /\ Same(u, v) /\ Shape(u) /\ SideBySide(u) /\ AskedAside(u)
    BY RunOneParts, CallSame DEF Elsewhere, LoopInv, TurnInv, DownInv, InFlight
  <1>2. /\ Sent(v) = Sent(u) \ {i} /\ SideBySide(v) /\ AskedAside(v) /\ v.state[i] = "done"
        /\ v.calls = u.calls
    BY <1>1, EndsFlight DEF Same
  <1>3. seen_down' = seen_down
    BY <1>2, RunOneParts
  <1>4. InFlight'
    BY <1>1, <1>2, FlightKept DEF DownInv
  <1>5. ASSUME NEW tool \in DOMAIN TOOLS PROVE Contained(tool)'
    <2>1. Contained(tool) /\ InFlight
      BY DEF DownInv
    <2>2. Cardinality(Ways(turn, tool)) \in Nat
      BY <2>1, ReadyNow, WaysBounded DEF Hypotheses
    <2>3. Ways(turn', tool) = Ways(turn, tool) \ {<<t, i>>}
      BY <1>1, <1>2, WaysBack
    <2>4. <<t, i>> \notin Ways(turn, tool)
      BY DEF Ways, Sent
    <2>5. Ways(turn', tool) = Ways(turn, tool)
      BY <2>3, <2>4
    <2>6. clock \in Int /\ clock' \in Int /\ clock <= clock'
      BY <1>1, LoopAssumption DEF BreakerTyped
    <2> QED
      BY <1>1, <1>3, <2>1, <2>2, <2>5, <2>6, ContainedKept, LoopAssumption
  <1> QED
    BY <1>4, <1>5 DEF DownInv

\* A call that comes back without an answer is counted by the breaker.
LEMMA Unanswered ==
  ASSUME LoopTyped, LoopInv, BreakerTyped, NEW t \in Turns, NEW i \in Positions,
         Returns(t, i) \/ Raises(t, i) \/ DeadlineFires(t, i), NEW tool \in DOMAIN TOOLS
  PROVE  /\ seen_down'[tool].begun = seen_down[tool].begun
         /\ seen_down[tool].answered => seen_down'[tool].answered
         /\ tool # turn[t].calls[i].tool =>
              breaker'[tool] = breaker[tool] /\ seen_down'[tool] = seen_down[tool]
         /\ tool = turn[t].calls[i].tool /\ ~seen_down'[tool].answered =>
              breaker'[tool].failures = breaker[tool].failures + 1
  <1> DEFINE called == turn[t].calls[i].tool
             tried == record_failure(breaker[called])
  <1>1. \/ UNCHANGED seen_down /\ breaker' = [breaker EXCEPT ![called] = tried]
        \/ \E code : /\ seen_down' = [seen_down EXCEPT ![called].answered = @ \/ code \notin TRANSPORT_CODES]
                     /\ code \in TRANSPORT_CODES => record_breaker(called, code)
                     /\ record_breaker(called, code) \/ UNCHANGED breaker
        \/ UNCHANGED breaker /\ seen_down' = [seen_down EXCEPT ![called].answered = TRUE]
    BY ComesBack
  <1>2. /\ DOMAIN breaker = DOMAIN TOOLS /\ DOMAIN seen_down = DOMAIN TOOLS
        /\ DOMAIN seen_down[tool] = {"begun", "answered"}
    BY DEF BreakerTyped
  <1>3. tried.failures = breaker[called].failures + 1
    BY DEF record_failure
  <1> HIDE DEF called, tried
  <1>4. CASE UNCHANGED seen_down /\ breaker' = [breaker EXCEPT ![called] = tried]
    BY <1>2, <1>3, <1>4 DEF called
  <1>4b. CASE UNCHANGED breaker /\ seen_down' = [seen_down EXCEPT ![called].answered = TRUE]
    <2>1. tool # called => seen_down'[tool] = seen_down[tool]
      BY <1>2, <1>4b
    <2>2. tool = called => seen_down'[tool].begun = seen_down[tool].begun /\ seen_down'[tool].answered
      BY <1>2, <1>4b
    <2> QED
      BY <1>4b, <2>1, <2>2 DEF called
  <1>5. CASE \E code : /\ seen_down' = [seen_down EXCEPT ![called].answered = @ \/ code \notin TRANSPORT_CODES]
                       /\ code \in TRANSPORT_CODES => record_breaker(called, code)
                       /\ record_breaker(called, code) \/ UNCHANGED breaker
    <2>1. PICK code : /\ seen_down' = [seen_down EXCEPT ![called].answered = @ \/ code \notin TRANSPORT_CODES]
                      /\ code \in TRANSPORT_CODES => record_breaker(called, code)
                      /\ record_breaker(called, code) \/ UNCHANGED breaker
      BY <1>5
    <2> DEFINE late == seen_down[called].answered \/ code \notin TRANSPORT_CODES
    <2>2. seen_down' = [seen_down EXCEPT ![called] = [seen_down[called] EXCEPT !.answered = late]]
      BY <2>1
    <2>3. /\ seen_down[called].answered => late
          /\ ~late => code \in TRANSPORT_CODES
      OBVIOUS
    <2> HIDE DEF late
    <2>4. tool # called => seen_down'[tool] = seen_down[tool]
      BY <1>2, <2>2
    <2>5. tool = called => seen_down'[tool].begun = seen_down[tool].begun /\ seen_down'[tool].answered = late
      BY <1>2, <2>2
    <2>6. code \in TRANSPORT_CODES => breaker' = [breaker EXCEPT ![called] = tried]
      <3>1. code \in TRANSPORT_CODES => code # "none" /\ counts_towards_breaker(code)
        BY DEF counts_towards_breaker, TRANSPORT_CODES
      <3> QED
        BY <2>1, <3>1, RecordsOne DEF tried
    <2>7. tool # called => breaker'[tool] = breaker[tool]
      <3>1. CASE UNCHANGED breaker
        BY <3>1
      <3>2. CASE record_breaker(called, code)
        <4>1. PICK b : breaker' = [breaker EXCEPT ![called] = b]
          BY <3>2, RecordsOne
        <4> QED
          BY <1>2, <4>1
      <3> QED
        BY <2>1, <3>1, <3>2
    <2>8. tool = called /\ ~late => breaker'[tool].failures = breaker[tool].failures + 1
      BY <1>2, <1>3, <2>3, <2>6
    <2> QED
      BY <2>3, <2>4, <2>5, <2>7, <2>8 DEF called
  <1> QED
    BY <1>1, <1>4, <1>4b, <1>5

LEMMA BackAgain ==
  ASSUME LoopTyped, LoopInv, BreakerTyped, DownInv, Hypotheses, NEW t \in Turns, NEW i \in Positions,
         Returns(t, i) \/ Raises(t, i) \/ DeadlineFires(t, i), BreakerTyped'
  PROVE  DownInv'
  <1> DEFINE u == turn[t]
             v == turn'[t]
             called == u.calls[i].tool
  <1>1. /\ i \in DOMAIN u.calls /\ u.state[i] = "sent" /\ settings' = settings /\ clock' = clock
        /\ Elsewhere(t) /\ Same(u, v) /\ Ends(u, v, i)
        /\ Shape(u) /\ SideBySide(u) /\ AskedAside(u)
    BY ComesBack, CallSame DEF Elsewhere, LoopInv, TurnInv, DownInv, InFlight
  <1>2. /\ Sent(v) = Sent(u) \ {i} /\ SideBySide(v) /\ AskedAside(v) /\ v.calls = u.calls
    BY <1>1, EndsFlight DEF Same
  <1>3. InFlight'
    BY <1>1, <1>2, FlightKept DEF DownInv
  <1>4. ASSUME NEW tool \in DOMAIN TOOLS PROVE Contained(tool)'
    <2>1. Contained(tool) /\ InFlight
      BY DEF DownInv
    <2>2. IsFiniteSet(Ways(turn, tool)) /\ Cardinality(Ways(turn, tool)) \in Nat
      BY <2>1, ReadyNow, WaysBounded DEF Hypotheses
    <2>3. Ways(turn', tool) = Ways(turn, tool) \ {<<t, i>>}
      BY <1>1, <1>2, WaysBack
    <2>4. CASE tool # called
      <3>1. <<t, i>> \notin Ways(turn, tool)
        BY <2>4 DEF Ways
      <3>2. Ways(turn', tool) = Ways(turn, tool)
        BY <2>3, <3>1
      <3>3. breaker'[tool] = breaker[tool] /\ seen_down'[tool] = seen_down[tool]
        BY <2>4, Unanswered
      <3>4. clock \in Int /\ clock' \in Int /\ clock <= clock'
        BY <1>1, LoopAssumption DEF BreakerTyped
      <3> QED
        BY <1>1, <2>1, <2>2, <3>2, <3>3, <3>4, ContainedKept, LoopAssumption
    <2>5. CASE tool = called
      <3>1. i \in Sent(u)
        BY <1>1 DEF Sent, Shape
      <3>2. <<t, i>> \in Ways(turn, tool)
        BY <2>5, <3>1 DEF Ways
      <3>3. Cardinality(Ways(turn', tool)) = Cardinality(Ways(turn, tool)) - 1
        <4> DEFINE way == <<t, i>>
        <4>1. Cardinality(Ways(turn, tool) \ {way}) = Cardinality(Ways(turn, tool)) - 1
          <5> HIDE DEF way
          <5> QED
            BY <2>2, <3>2, FS_RemoveElement DEF way
        <4> QED
          BY <2>3, <4>1
      <3>4. /\ seen_down'[tool].begun = seen_down[tool].begun
            /\ Silent(tool)' => Silent(tool) /\ breaker'[tool].failures = breaker[tool].failures + 1
        BY <1>1, <2>5, Unanswered DEF Silent
      <3>5. seen_down[tool].begun \in Nat /\ breaker[tool].failures \in Nat
        BY DEF BreakerTyped
      <3>6. Silent(tool) => /\ seen_down[tool].begun <= breaker[tool].failures + Cardinality(Ways(turn, tool))
                            /\ seen_down[tool].begun <= Threshold - 1 + Concurrency
        BY <2>1 DEF Contained
      <3>7. Silent(tool)' =>
              /\ seen_down'[tool].begun <= breaker'[tool].failures + Cardinality(Ways(turn', tool))
              /\ seen_down'[tool].begun <= Threshold - 1 + Concurrency
        BY <2>2, <3>3, <3>4, <3>5, <3>6
      <3>8. settings.confirm /\ writes(tool) => seen_down'[tool].begun = 0
        BY <2>1, <3>4 DEF Contained
      <3> QED
        BY <1>1, <3>7, <3>8 DEF Contained, Concurrency, WidestBatch
    <2> QED
      BY <2>4, <2>5
  <1> QED
    BY <1>3, <1>4 DEF DownInv

\* Between the calls.
LEMMA NothingOut ==
  ASSUME LoopTyped, LoopInv, BreakerTyped, DownInv, Hypotheses, NEW t \in Turns, Moves(t),
         Sent(turn[t]) = {}, Rests(turn[t], turn'[t]) \/ Opens(turn[t], turn'[t]),
         UNCHANGED <<clock, seen_down>>, BreakerTyped',
         \A tool \in DOMAIN TOOLS :
           breaker'[tool] = breaker[tool] \/ (settings.confirm /\ writes(tool))
  PROVE  DownInv'
  <1> DEFINE u == turn[t]
             v == turn'[t]
  <1>1. settings' = settings /\ Elsewhere(t) /\ TurnInv(v, settings.confirm, ledger'[t]) /\ AskedAside(u)
    BY DEF Moves, Elsewhere, DownInv, InFlight
  <1>2. Sent(v) = {} /\ SideBySide(v)
    BY <1>1, SentInBatch DEF Rests, Opens, SideBySide
  <1>3. AskedAside(v)
    <2>1. v.pending = u.pending \/ v.pending = <<>>
      BY DEF Rests, Opens
    <2> QED
      BY <1>1, <2>1, EmptyIsSeq DEF AskedAside
  <1>4. InFlight'
    BY <1>1, <1>2, <1>3, FlightKept DEF DownInv
  <1>5. ASSUME NEW tool \in DOMAIN TOOLS PROVE Contained(tool)'
    <2>1. Contained(tool) /\ InFlight
      BY DEF DownInv
    <2>2. Cardinality(Ways(turn, tool)) \in Nat
      BY <2>1, ReadyNow, WaysBounded DEF Hypotheses
    <2>3. Ways(turn', tool) = Ways(turn, tool)
      BY <1>1, <1>2, SameWays
    <2>4. clock \in Int /\ clock' \in Int /\ clock <= clock'
      BY LoopAssumption DEF BreakerTyped
    <2>5. breaker'[tool].failures \in Nat
      BY DEF BreakerTyped
    <2>6. \/ breaker'[tool].failures = breaker[tool].failures
          \/ settings.confirm /\ writes(tool) /\ breaker'[tool].failures \in Nat
      BY <2>5
    <2> QED
      BY <1>1, <2>1, <2>2, <2>3, <2>4, <2>6, ContainedKept, LoopAssumption
  <1> QED
    BY <1>4, <1>5 DEF DownInv

\* A confirmed write is not asked about, and its tool has begun nothing here.
LEMMA ConfirmedApart ==
  ASSUME LoopTyped, LoopInv, BreakerTyped, DownInv, Hypotheses, NEW t \in Turns, NEW i \in Positions,
         execute_confirmed(t, i), BreakerTyped'
  PROVE  DownInv'
  <1> DEFINE u == turn[t]
             v == turn'[t]
             called == u.calls[i].tool
  <1>1. DOMAIN u = Fields /\ Lifecycle(u) /\ AskedAside(u) /\ DOMAIN turn = Turns
        /\ TurnInv(u, settings.confirm, ledger[t])
    BY DEF LoopInv, TurnInv, Shape, DownInv, InFlight, LoopTyped
  <1>2. u.pc = "execute" /\ i \in DOMAIN u.calls /\ UNCHANGED <<clock, seen_down>>
    BY DEF execute_confirmed
  <1>3. settings.confirm /\ writes(called)
    BY <1>1, <1>2 DEF Lifecycle, AskedAside
  <1>4. Sent(u) = {}
    BY <1>1, <1>2 DEF Lifecycle
  <1>5. PICK w, code, answer :
           /\ w = u \/ \E row : w = Attempt(u, u.calls[i], row)
           /\ v = Report(w, i, code, answer)
    BY ConfirmedReported
  <1>6. Rests(u, v)
    <2> HIDE DEF u, v
    <2>1. DOMAIN w = Fields /\ w.pc = u.pc /\ w.pending = u.pending
      BY <1>1, <1>5, AttemptSame DEF Same
    <2>2. u.pc # "batch"
      BY <1>2
    <2> QED
      BY <1>1, <1>5, <2>1, <2>2, ReportRests
  <1>7. UNCHANGED breaker \/ \E c : record_breaker(called, c)
    BY DEF execute_confirmed, Concludes
  <1>8. ASSUME NEW tool \in DOMAIN TOOLS
        PROVE  breaker'[tool] = breaker[tool] \/ (settings.confirm /\ writes(tool))
    <2>1. CASE tool = called
      BY <1>3, <2>1
    <2>2. CASE tool # called
      <3>1. CASE UNCHANGED breaker
        BY <3>1
      <3>2. CASE \E c : record_breaker(called, c)
        <4>1. PICK b : breaker' = [breaker EXCEPT ![called] = b]
          BY <3>2, RecordsOne
        <4> QED
          BY <2>2, <4>1 DEF BreakerTyped
      <3> QED
        BY <1>7, <3>1, <3>2
    <2> QED
      BY <2>1, <2>2
  <1>9. Moves(t)
    BY ExecuteStep
  <1> QED
    BY <1>2, <1>4, <1>6, <1>8, <1>9, NothingOut

LEMMA DownStep ==
  ASSUME LoopTyped, LoopInv, BreakerTyped, DownInv, Hypotheses,
         \A calls \in Batches : Len(calls) \in Nat /\ Len(calls) <= WidestBatch,
         [Next]_vars, LoopInv', BreakerTyped'
  PROVE  DownInv'
  <1>1. ASSUME NEW t \in Turns, NEW i \in Positions, run_one(t, i) PROVE DownInv'
    BY <1>1, RunOneParts, GoesOut, StaysHere
  <1>2. ASSUME NEW t \in Turns, NEW i \in Positions,
               Returns(t, i) \/ Raises(t, i) \/ DeadlineFires(t, i)
        PROVE  DownInv'
    BY <1>2, BackAgain
  <1>3. ASSUME NEW t \in Turns, NEW i \in Positions, execute_confirmed(t, i) PROVE DownInv'
    BY <1>3, ConfirmedApart
  <1>4. ASSUME NEW t \in Turns,
               \/ NoModel(t) \/ OutOfRounds(t) \/ EndRound(t) \/ LeaveLoop(t)
               \/ ReplayConfirm(t) \/ LeaseRunsOut(t) \/ LeaveConfirm(t)
               \/ \E verdict : confirm_writes(t, verdict)
        PROVE  DownInv'
    <2>1. Moves(t) /\ Sent(turn[t]) = {} /\ Rests(turn[t], turn'[t])
      BY <1>4, RestSteps
    <2>2. UNCHANGED <<clock, breaker, seen_down>>
      BY <1>4, RestsStill
    <2> QED
      BY <2>1, <2>2, NothingOut
  <1>5. ASSUME NEW t \in Turns, model_turn(t) \/ Fallback(t) PROVE DownInv'
    <2>1. Moves(t) /\ Sent(turn[t]) = {} /\ Opens(turn[t], turn'[t])
      BY <1>5, ModelOpens, FallbackOpens DEF Hypotheses
    <2>2. UNCHANGED <<clock, breaker, seen_down>>
      BY <1>5, RestsStill
    <2> QED
      BY <2>1, <2>2, NothingOut
  <1>6. ASSUME UNCHANGED <<settings, turn, breaker, seen_down>>, clock' >= clock PROVE DownInv'
    <2>1. InFlight'
      BY <1>6 DEF DownInv, InFlight, AskedAside
    <2>2. ASSUME NEW tool \in DOMAIN TOOLS PROVE Contained(tool)'
      <3>1. Contained(tool) /\ InFlight
        BY DEF DownInv
      <3>2. Cardinality(Ways(turn, tool)) \in Nat
        BY <3>1, ReadyNow, WaysBounded DEF Hypotheses
      <3>3. clock \in Int /\ clock' \in Int /\ clock <= clock'
        BY <1>6 DEF BreakerTyped
      <3>4. Ways(turn', tool) = Ways(turn, tool)
        BY <1>6
      <3> QED
        BY <1>6, <3>1, <3>2, <3>3, <3>4, ContainedKept, LoopAssumption
    <2> QED
      BY <2>1, <2>2 DEF DownInv
  <1>7. CASE Tick
    BY <1>6, <1>7, LoopAssumption DEF Tick, BreakerTyped
  <1>8. CASE UNCHANGED vars
    BY <1>6, <1>8, LoopAssumption DEF vars, BreakerTyped
  <1> QED
    BY <1>1, <1>2, <1>3, <1>4, <1>5, <1>7, <1>8 DEF Next, TurnNext

\* While a dependency answers nothing, all turns of a process together begin no more
\* calls than the threshold of the breaker and what was side by side on the way when it
\* opened, for any number of turns, whatever the model asks for and the rules choose
\* (tools/resilience.py: CircuitBreaker; graph/nodes/tools.py: guarded, run_round).
THEOREM DownDependencyIsContained ==
  ASSUME IsFiniteSet(Turns), NEW widest \in Nat, \A calls \in Batches : Len(calls) <= widest
  PROVE  Spec => []DownDependencyContained
  <1>1. /\ Hypotheses
        /\ \A calls \in Batches : Len(calls) \in Nat /\ Len(calls) <= WidestBatch
    BY WidestOf DEF Hypotheses
  <1>2. Init => DownInv
    <2> SUFFICES ASSUME Init PROVE DownInv
      OBVIOUS
    <2>1. LoopInv
      BY LoopInitially
    <2>2. InFlight
      <3>1. ASSUME NEW t \in Turns PROVE turn[t].pc = "ask" /\ turn[t].pending = <<>>
        BY DEF Init, Started
      <3> QED
        BY <3>1, EmptyIsSeq DEF InFlight, SideBySide, AskedAside
    <2>3. ASSUME NEW tool \in DOMAIN TOOLS PROVE Contained(tool)
      <3>1. Cardinality(Ways(turn, tool)) \in Nat /\ Concurrency \in Nat
        BY <1>1, <2>1, <2>2, ReadyNow, WaysBounded DEF Hypotheses
      <3>2. breaker[tool].failures = 0 /\ seen_down[tool].begun = 0
        BY DEF Init
      <3>3. Threshold - 1 \in Nat
        BY LoopAssumption
      <3> QED
        BY <3>1, <3>2, <3>3 DEF Contained
    <2> QED
      BY <2>2, <2>3 DEF DownInv
  <1>3. LoopTyped /\ LoopInv /\ BreakerTyped /\ DownInv /\ [Next]_vars /\ LoopInv' /\ BreakerTyped'
        => DownInv'
    BY <1>1, DownStep
  <1>4. DownInv => DownDependencyContained
    BY DEF DownInv, Contained, Silent, DownDependencyContained
  <1> QED
    BY <1>2, <1>3, <1>4, LoopKept, BreakerKept, PTL DEF Spec
=============================================================================
