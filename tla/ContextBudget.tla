---------------------------- MODULE ContextBudget ----------------------------
(* The budget planner of the context engine (context/budget.py, policy.py,  *)
(* truncate.py, tokenizer.py): a pure function from one request to a prompt *)
(* plan or a refusal.  A text is its token count; counting is additive.     *)
EXTENDS Lists, SequencesExt

CONSTANTS Header,     \* tokens of a rendered section heading
          Marker,     \* tokens of the visible omission marker
          ItemHeader, \* tokens around the content of an evidence item or tool result
          Gap         \* tokens of the blank line between two items

\* As weak as the arithmetic needs: the counter never returns a negative count, and
\* an item is rendered with its title or its tool, which is at least one token.
ASSUME CountsAssumption == /\ Header \in Nat /\ Marker \in Nat
                           /\ ItemHeader \in Nat \ {0} /\ Gap \in Nat

MIN_MESSAGES_RESERVE == 256
MIN_ITEM_TOKENS == 96
SECTION_JOIN_TOKENS == 2
MAX_FILL_ROUNDS == 8
MIN_USABLE_TOKENS == 512
PER_MESSAGE_OVERHEAD == 4
RECLAIM_STEP == 24

MESSAGES_KIND == "recent_messages"
NoText == "none"

Least(a, b) == IF a < b THEN a ELSE b
Most(a, b) == IF a > b THEN a ELSE b
(***************************** policy.py **********************************)
Policy(p, w, lo, hi, prot, cut) ==
  [priority |-> p, weight |-> w, min |-> lo, max |-> hi,
   protection |-> prot, truncation |-> cut]

\* Weights in hundredths.
CONTEXT_POLICIES ==
  [system_policy        |-> Policy(100, 10, 40, 4000, "hard", "none"),
   tenant_profile       |-> Policy(90, 3, 30, 800, "hard", "none"),
   user_profile         |-> Policy(80, 5, 40, 1200, "elastic", "tail"),
   conversation_summary |-> Policy(70, 12, 0, 1600, "elastic", "tail"),
   approval_state       |-> Policy(60, 8, 20, 1200, "hard", "none"),
   task_slots           |-> Policy(55, 8, 0, 600, "elastic", "tail"),
   retrieval_evidence   |-> Policy(50, 16, 0, 12000, "droppable", "items"),
   tool_results         |-> Policy(45, 14, 0, 6000, "droppable", "items"),
   recent_messages      |-> Policy(95, 24, 0, 200000, "elastic", "head_tail")]

UNKNOWN_POLICY == Policy(10, 5, 0, 2000, "droppable", "tail")

\* Every kind once, to add up a function of kinds.
KINDS == <<"system_policy", "tenant_profile", "user_profile", "conversation_summary",
           "approval_state", "task_slots", "retrieval_evidence", "tool_results",
           "recent_messages", "unknown">>
Total(f) == SumOf([i \in DOMAIN KINDS |-> IF KINDS[i] \in DOMAIN f THEN f[KINDS[i]] ELSE 0])

policy_for(kind) == IF kind \in DOMAIN CONTEXT_POLICIES
                    THEN CONTEXT_POLICIES[kind] ELSE UNKNOWN_POLICY

is_hard(kind) == policy_for(kind).protection = "hard"

(**************************** truncate.py *********************************)
Cut(tokens, truncated, omitted) ==
  [tokens |-> tokens, truncated |-> truncated, omitted |-> omitted]

\* The cut text is the marker and as much of the text as fits beside it; both
\* renderings and the last shave end at that size when counting is additive.
truncate_text(size, budget, strategy) ==
  IF size <= budget \/ strategy = "none" THEN Cut(size, FALSE, 0)
  ELSE IF budget <= 0 \/ Marker >= budget THEN Cut(0, TRUE, size)
  ELSE Cut(budget, TRUE, size - (budget - Marker))

count_message(m) == m.size + PER_MESSAGE_OVERHEAD
count_messages(ms) == SumOf([i \in DOMAIN ms |-> count_message(ms[i])])
message_overhead(ms) == Len(ms) * PER_MESSAGE_OVERHEAD

(************************ packing the messages ****************************)
\* Definitions named ...Broken stand for a plausible bug in the definition that
\* follows; no other definition uses them.
CurrentIndexBroken(ms, protected) == Len(ms)  \* the newest message is taken for it
\* The current turn: the last user message whose text is the protected one.
CurrentIndex(ms, protected) ==
  LET hits == {i \in DOMAIN ms : ms[i].role = "user" /\ ms[i].text = protected}
  IN IF protected = NoText \/ hits = {} THEN 0 ELSE Max(hits)

PackCurrent(st, i, m, room) ==
  LET cut == truncate_text(m.size, room, "head_tail")
  IN IF room <= 0 \/ cut.tokens = 0 THEN [st EXCEPT !.stopped = TRUE]
     ELSE [st EXCEPT !.kept = @ \cup {i}, !.used = @ + cut.tokens + PER_MESSAGE_OVERHEAD,
                     !.current_kept = TRUE,
                     !.truncated = IF cut.truncated THEN {i} ELSE @]

PackHistoryBroken(st, i, m, room) ==  \* goes on past one that did not fit
  IF room <= 0 \/ count_message(m) > room THEN st
  ELSE [st EXCEPT !.kept = @ \cup {i}, !.used = @ + count_message(m)]

\* A history message is sent whole or not at all, and everything older than
\* one that did not fit is left out too.
PackHistory(st, i, m, room) ==
  IF st.history_full \/ room <= 0 \/ count_message(m) > room
  THEN [st EXCEPT !.history_full = TRUE]
  ELSE [st EXCEPT !.kept = @ \cup {i}, !.used = @ + count_message(m)]

\* Newest first.  The ids left out are reported in the order of the conversation.
pack_messages(ms, budget, protected) ==
  LET current == CurrentIndex(ms, protected)
      step(st, i) ==
        LET room == budget - st.used - PER_MESSAGE_OVERHEAD
        IN IF st.stopped THEN st
           ELSE IF i = current THEN PackCurrent(st, i, ms[i], room)
           ELSE PackHistory(st, i, ms[i], room)
  IN FoldLeft(step,
              [kept |-> {}, used |-> 0, truncated |-> {}, current_kept |-> FALSE,
               history_full |-> FALSE, stopped |-> FALSE],
              [k \in 1..Len(ms) |-> Len(ms) + 1 - k])

(******************* packing evidence and tool results ********************)
\* One item at a time: whole when it fits, else cut to the room when there is
\* room for a readable entry, else dropped.  trimmed is the budget of the cut text.
PackItem(st, item, room, trimmed) ==
  LET cut == IF ItemHeader + item.size <= room THEN Cut(item.size, FALSE, 0)
             ELSE IF room < MIN_ITEM_TOKENS THEN Cut(0, TRUE, item.size)
             ELSE truncate_text(item.size, Most(8, trimmed), "tail")
      cost == ItemHeader + cut.tokens
  IN IF (cut.truncated /\ cut.tokens = 0) \/ cost > room
     THEN [st EXCEPT !.dropped = Append(@, item.id)]
     ELSE [st EXCEPT !.items = Append(@, item.id), !.used = @ + cost]

EmptyPack == [items |-> <<>>, dropped |-> <<>>, used |-> 0]

\* The first item of each source, without the empty ones, best score first; the
\* sort is stable.
RankEvidence(items) ==
  LET first == {i \in DOMAIN items :
                  /\ items[i].size > 0
                  /\ \A j \in 1..(i - 1) : items[j].size > 0 => items[j].id # items[i].id}
      better(j, i) == LET a == items[j]
                          b == items[i]
                      IN \/ a.score > b.score
                         \/ a.score = b.score /\ a.rank < b.rank
                         \/ a.score = b.score /\ a.rank = b.rank /\ j < i
  IN InOrder(items, first, better)

\* The items in order, each into the room that is left.
PackItems(list, budget, overhead, parts) ==
  FoldLeft(LAMBDA st, item : PackItem(st, item, budget - st.used,
                                      (budget - st.used - overhead) \div parts),
           EmptyPack, list)

pack_evidence(items, budget) == PackItems(RankEvidence(items), budget, ItemHeader, 1)

\* Newest result first.
pack_tool_results(items, budget) == PackItems(Reverse(items), budget, 0, 2)

\* Tokens of packed items once they are joined and given their heading.
Rendered(pack) == IF pack.items = <<>> THEN 0
                  ELSE Header + pack.used + Gap * (Len(pack.items) - 1)

(* The demand is measured on the joined candidates, before any is dropped.  *)
render_items(items) ==
  IF items = <<>> THEN 0
  ELSE SumOf([i \in DOMAIN items |-> ItemHeader + items[i].size])
       + Gap * (Len(items) - 1)

(****************************** allocation ********************************)
dedupe_blocks(blocks) ==
  LET first == {i \in DOMAIN blocks :
                  \A j \in 1..(i - 1) : blocks[j].kind # blocks[i].kind}
  IN At(blocks, first)

is_empty(b) == ~is_hard(b.kind) /\ b.size = 0

Size(blocks, kind) == (CHOOSE b \in ToSet(blocks) : b.kind = kind).size

\* A hard block asks for its rendered size and is owed all of it.
Demands(blocks, ms, usable) ==
  LET kinds == {b.kind : b \in {c \in ToSet(blocks) : ~is_empty(c)}}
      full == message_overhead(ms) + Least(count_messages(ms), usable)
  IN [k \in kinds \cup {MESSAGES_KIND} |->
        IF k = MESSAGES_KIND THEN Least(full, usable)
        ELSE IF is_hard(k) THEN Size(blocks, k) + Header
        ELSE Least(Size(blocks, k), policy_for(k).max) + Header]

Floors(demands, ms, usable) ==
  [k \in DOMAIN demands |->
     IF k = MESSAGES_KIND
     THEN Least(message_overhead(ms) + MIN_MESSAGES_RESERVE, usable)
     ELSE IF is_hard(k) THEN demands[k]
     ELSE Least(policy_for(k).min, demands[k])]

\* One round of water-filling: the rest is shared by weight among the kinds
\* that still want some, and what a kind does not take flows back.
FillRound(st, demands) ==
  LET active == {k \in DOMAIN demands : st.alloc[k] < demands[k]}
      weights == Total([k \in active |-> policy_for(k).weight])
      grant == [k \in DOMAIN demands |->
                  IF k \notin active THEN 0
                  ELSE Least(demands[k] - st.alloc[k],
                             (st.remaining * policy_for(k).weight) \div weights)]
  IN IF st.remaining <= 0 \/ active = {} THEN st
     ELSE [alloc |-> [k \in DOMAIN demands |-> st.alloc[k] + grant[k]],
           remaining |-> st.remaining - Total(grant)]

Fill(floors, demands, remaining) ==
  FoldLeft(LAMBDA st, n : With(st, LAMBDA s : FillRound(s, demands)),
           [alloc |-> floors, remaining |-> remaining],
           [n \in 1..MAX_FILL_ROUNDS |-> n]).alloc

reclaim_sources(alloc, floors) ==
  {k \in DOMAIN alloc : k # MESSAGES_KIND /\ alloc[k] > floors[k] /\ ~is_hard(k)}

\* The source that gives first: droppable before elastic, smallest share first,
\* earlier block first.
FirstSource(sources, alloc, order) ==
  LET class(k) == IF policy_for(k).protection = "droppable" THEN 0 ELSE 1
      rank(k) == CHOOSE i \in DOMAIN order : order[i] = k
      before(a, b) == \/ class(a) < class(b)
                      \/ class(a) = class(b) /\ alloc[a] < alloc[b]
                      \/ class(a) = class(b) /\ alloc[a] = alloc[b] /\ rank(a) <= rank(b)
  IN CHOOSE k \in sources : \A o \in sources : before(k, o)

\* The current turn did not survive: take tokens back, at least a whole step
\* even when the source has less above its floor, and pack again.
ReclaimOnce(st, floors, order, ms, protected) ==
  LET sources == reclaim_sources(st.alloc, floors)
      k == FirstSource(sources, st.alloc, order)
      step == Most(RECLAIM_STEP, st.alloc[k] - floors[k])
      alloc == [st.alloc EXCEPT ![k] = @ - step, ![MESSAGES_KIND] = @ + step]
  IN IF st.packed.current_kept \/ protected = NoText \/ sources = {} THEN st
     ELSE [alloc |-> alloc,
           packed |-> pack_messages(ms, alloc[MESSAGES_KIND], protected)]

PackWithReclaim(alloc, floors, order, ms, protected) ==
  FoldLeft(LAMBDA st, n : ReclaimOnce(st, floors, order, ms, protected),
           [alloc |-> alloc,
            packed |-> pack_messages(ms, alloc[MESSAGES_KIND], protected)],
           [n \in 1..(Cardinality({k \in DOMAIN alloc : ~is_hard(k)})) |-> n])

\* The content one text block is placed with.
Placed(b, allocation) ==
  IF is_hard(b.kind) THEN Cut(b.size, FALSE, 0)
  ELSE truncate_text(b.size, Most(0, allocation - Header), policy_for(b.kind).truncation)

Infeasible(why) == [ok |-> FALSE, reason |-> why]

EvictedIdsBroken(ms, packed) ==  \* a message that was cut is not named
  At([i \in DOMAIN ms |-> ms[i].id], DOMAIN ms \ packed.kept)

\* The ids that left the prompt: dropped ones, then the truncated current turn.
EvictedIds(ms, packed) ==
  LET ids == [i \in DOMAIN ms |-> ms[i].id]
  IN At(ids, DOMAIN ms \ packed.kept) \o At(ids, packed.truncated)

SummaryRequestFor(evicted, version) ==
  IF evicted = <<>> THEN <<>>
  ELSE <<[from |-> Head(evicted), until |-> Last(evicted),
          count |-> Len(evicted), previous |-> version]>>

\* The second half of allocate: pack and place inside the allocations.
Place(req, blocks, usable, alloc, packed) ==
  LET share(k) == IF k \in DOMAIN alloc THEN Most(0, alloc[k] - Header) ELSE 0
      evidence == pack_evidence(req.evidence, share("retrieval_evidence"))
      tools == pack_tool_results(req.tools, share("tool_results"))
      texts == {b \in ToSet(blocks) : /\ ~is_empty(b) /\ b.kind # MESSAGES_KIND
                                      /\ b.kind \notin {"retrieval_evidence", "tool_results"}}
      sections == [k \in {b.kind : b \in texts} |->
                     Placed(CHOOSE b \in texts : b.kind = k, alloc[k])]
      actual == [k \in DOMAIN sections |->
                   IF sections[k].tokens = 0 THEN 0 ELSE sections[k].tokens + Header]
      has(k) == \E b \in ToSet(blocks) : b.kind = k /\ ~is_empty(b)
      used == req.scaffolding + Total(actual) + packed.used
              + (IF has("retrieval_evidence") THEN Rendered(evidence) ELSE 0)
              + (IF has("tool_results") THEN Rendered(tools) ELSE 0)
      evicted == EvictedIds(req.messages, packed)
  IN IF \E b \in texts : is_hard(b.kind) /\ b.size > 0 /\ b.size + Header > alloc[b.kind]
     THEN Infeasible("hard_block")
     ELSE IF used > usable THEN Infeasible("internal")
     ELSE [ok |-> TRUE, sections |-> sections, evidence |-> evidence, tools |-> tools,
           packed |-> packed, used |-> used, usable |-> usable, evicted |-> evicted,
           request |-> SummaryRequestFor(evicted, req.version)]

Usable(req) == req.window - req.max_output - req.margin

\* What the planner may spend: the blank lines between the sections come off.
ToSpendBroken(req, blocks) == Most(0, Usable(req))  \* they do not
ToSpend(req, blocks) == Most(0, Usable(req) - SECTION_JOIN_TOKENS * Len(blocks))

allocate(req) ==
  LET blocks == dedupe_blocks(req.blocks)
      usable == ToSpend(req, blocks)
      demands == Demands(blocks, req.messages, usable)
      floors == Floors(demands, req.messages, usable)
      reserved == req.scaffolding + Total(floors)
      order == [i \in DOMAIN blocks |-> blocks[i].kind]
      done == PackWithReclaim(Fill(floors, demands, usable - reserved), floors,
                              order, req.messages, req.protected)
  IN IF Usable(req) < MIN_USABLE_TOKENS THEN Infeasible("window")
     ELSE IF reserved > usable THEN Infeasible("floors")
     ELSE IF req.protected # NoText /\ ~done.packed.current_kept
     THEN Infeasible("current_turn")
     ELSE Place(req, blocks, usable, done.alloc, done.packed)
=============================================================================
