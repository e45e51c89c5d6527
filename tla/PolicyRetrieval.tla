--------------------------- MODULE PolicyRetrieval ---------------------------
(* One retrieval run (retrieval/pipeline.py): the knowledge bases it may     *)
(* read, the fusion and reranking of the channels, the choice of evidence    *)
(* (knowledge/policy_search.py), the ticket investigation (tickets/), the    *)
(* rail, the gate, and what of it the context engine puts into the prompt.   *)
(* The lexical and dense channels are given as orders of the chunks; a score *)
(* is a whole number, one part in a million of the source's.                 *)
EXTENDS Lists, SequencesExt

CONSTANTS
  Documents,   \* records by id: base, status, roles, authority, from, until (years; 0 is open)
  ChunkList,   \* the chunks of the index in order: [id, document, parent, size]
  Tickets,     \* records by id: roles
  Bases,       \* records by id: roles
  Requests     \* see SearchInit

IsList(x) == x \in Seq(Range(x))

\* As the tables and the index hold them: an id once, a chunk of a document that is
\* there; the channels and the model give lists, of anything, and a search of the
\* tickets lists each of them once.
ASSUME SearchAssumption ==
  /\ IsList(ChunkList) /\ \A j, k \in DOMAIN ChunkList : ChunkList[j].id = ChunkList[k].id => j = k
  /\ \A k \in DOMAIN ChunkList : ChunkList[k].document \in DOMAIN Documents
  /\ \A d \in DOMAIN Documents : Documents[d].authority \in Int /\ Documents[d].until \in Int
  /\ IsFiniteSet(DOMAIN Bases)
  /\ \A r \in Requests :
       /\ IsList(r.lexical) /\ IsList(r.dense) /\ IsList(r.ranking) /\ IsList(r.tickets)
       /\ r.top_k \in Nat /\ r.max_steps \in Int
       /\ \A j, k \in DOMAIN r.tickets : r.tickets[j] = r.tickets[k] => j = k

VARIABLES request, pc, evidence, kept, issues, context, steps

search_vars == <<request, pc, evidence, kept, issues, context, steps>>

evidence_per_document == 3
evidence_max_tokens == 320
Today == 2026

Chunk == [c \in {ChunkList[k].id : k \in DOMAIN ChunkList} |->
            ChunkList[CHOOSE k \in DOMAIN ChunkList : ChunkList[k].id = c]]
doc(c) == Documents[Chunk[c].document]

\* Nobody is named: everybody may read.
can_access(allowed) == allowed = {} \/ allowed \cap request.roles # {}

(********************************* router *********************************)
\* The bases the plan asks for, or all, as far as the caller may read them.
route_knowledge_bases ==
  {b \in DOMAIN Bases : /\ request.scopes = {} \/ b \in request.scopes
                        /\ can_access(Bases[b].roles)}

(*************************** fusion and reranking *************************)
ids(list) == {list[k] : k \in DOMAIN list}
only(list, keep) == At(list, {k \in DOMAIN list : list[k] \in keep})
leading(list, n) == SubSeq(list, 1, IF Len(list) < n THEN Len(list) ELSE n)
position(list, c) == CHOOSE k \in DOMAIN list : list[k] = c

\* What every list says of a chunk, added up.
reciprocal_rank_fusion(lists, c) ==
  SumOf([k \in DOMAIN lists |-> IF c \in ids(lists[k])
                                 THEN 1000000 \div (60 + position(lists[k], c)) ELSE 0])

\* The heuristics reward authority, currency and the root of a document.
bonus(c) ==
  (IF doc(c).authority >= 95 THEN 80000 ELSE 0)
  + (IF doc(c).status = "active" THEN 50000 ELSE 0)
  - (IF doc(c).until # 0 /\ doc(c).until < Today THEN 120000 ELSE 0)
  + (IF Chunk[c].parent = "none" THEN 20000 ELSE 0)

\* The model's ranking first, as often as it names a candidate; the rest after.
model_rerank(ordered, ranking) ==
  IF ranking = <<>> THEN ordered
  ELSE only(ranking, ids(ordered)) \o only(ordered, ids(ordered) \ ids(ranking))

\* Sorted by the fused score and then by score and bonus: where the second leaves
\* two equal, the first stands.
rerank_policy_chunks(lists, candidates, ranking) ==
  LET score == Computed([k \in DOMAIN candidates |-> reciprocal_rank_fusion(lists, candidates[k])])
      total == Computed([k \in DOMAIN candidates |-> score[k] + bonus(candidates[k])])
      before(j, k) == \/ total[j] > total[k]
                      \/ total[j] = total[k] /\ score[j] > score[k]
                      \/ total[j] = total[k] /\ score[j] = score[k] /\ j < k
  IN model_rerank(Computed(InOrder(candidates, DOMAIN candidates, before)), ranking)

\* The chunks of the active documents of the bases, whoever may read them.
hybrid_retrieve_chunks(bases, top_k) ==
  LET allowed == {c \in DOMAIN Chunk : doc(c).base \in bases /\ doc(c).status = "active"}
      lists == <<only(request.lexical, allowed), only(request.dense, allowed)>>
      candidates == lists[1] \o only(lists[2], allowed \ ids(lists[1]))
  IN leading(rerank_policy_chunks(lists, candidates, request.ranking), top_k)

(****************************** policy evidence ***************************)
passes_filters(d) ==
  \/ request.year = 0
  \/ ~(d.from # 0 /\ d.from > request.year) /\ ~(d.until # 0 /\ d.until < request.year)

eligible(d) == d.status = "active" /\ can_access(d.roles) /\ passes_filters(d)

\* A chunk with its siblings in reading order, until the block is full.
assemble_block(c) ==
  LET siblings == {k \in DOMAIN ChunkList : /\ ChunkList[k].document = Chunk[c].document
                                            /\ ChunkList[k].parent = Chunk[c].parent
                                            /\ ChunkList[k].id # c}
      size(k) == Chunk[c].size
                 + MapThenSumSet(LAMBDA j : ChunkList[j].size, {j \in siblings : j < k})
  IN {c} \cup {ChunkList[k].id : k \in {j \in siblings : size(j) < evidence_max_tokens}}

PolicyItem(c) == [type |-> "policy", source |-> Chunk[c].document, chunk |-> c,
                  parts |-> assemble_block(c)]

\* One evidence item for a chunk not yet taken, up to the share of its document.
add_candidate(taken, c) ==
  LET share == Cardinality({k \in DOMAIN taken : taken[k].source = Chunk[c].document})
  IN IF \/ \E k \in DOMAIN taken : taken[k].chunk = c
        \/ ~(doc(c).base \in route_knowledge_bases /\ eligible(doc(c)))
        \/ share >= evidence_per_document
     THEN taken ELSE Append(taken, PolicyItem(c))

fallback_basesBroken(taken) == {}  \* a bug: the joint ranking is all
\* The bases the joint ranking left without evidence are searched one by one.
fallback_bases(taken) ==
  route_knowledge_bases \ {Documents[taken[k].source].base : k \in DOMAIN taken}

add_candidates(taken, bases, top_k) ==
  FoldLeft(add_candidate, taken, hybrid_retrieve_chunks(bases, top_k))

joint_evidence == add_candidates(<<>>, route_knowledge_bases, request.top_k)

\* The bases that are left are a set: they are searched in any order.
retrieve_policy_evidence(order) ==
  FoldLeft(LAMBDA taken, b : add_candidates(taken, {b}, 3), joint_evidence, order)

version_conflicts ==
  \E d, e \in DOMAIN Documents :
    /\ {Documents[d].base, Documents[e].base} \subseteq route_knowledge_bases
    /\ Documents[d].title = Documents[e].title
    /\ can_access(Documents[d].roles) /\ can_access(Documents[e].roles)
    /\ Documents[d].status = "active" /\ Documents[e].status = "archived"

(****************************** ticket evidence ***************************)
\* Every ticket the caller may read has a score above zero: age alone gives one.
search_similar_tickets ==
  leading(only(request.tickets, {x \in DOMAIN Tickets : can_access(Tickets[x].roles)}), 3)

TicketItem(x) == [type |-> "ticket", source |-> x, chunk |-> x, parts |-> {x}]

\* Searches made: one that finds something ends the loop, one that does not is
\* repeated with another wording while the plan allows another step; the last one is
\* left out when no other wording is found.
investigation_steps ==
  IF search_similar_tickets # <<>> \/ request.max_steps < 0 THEN {0}
  ELSE {IF request.max_steps = 0 THEN 1 ELSE request.max_steps, request.max_steps + 1}

investigate_ticket ==
  IF request.max_steps < 0 THEN <<>>
  ELSE [k \in DOMAIN search_similar_tickets |-> TicketItem(search_similar_tickets[k])]

(********************************* the run ********************************)
asks_policy == request.task \in {"policy_query", "cross_kb_query", "mixed"}
asks_tickets == request.task \in {"ticket_investigation", "mixed"}

SearchInit ==
  /\ request \in Requests  \* roles, task, scopes, year, lexical, dense, ranking, top_k,
                           \* tickets, max_steps, flagged (texts the rail does not let pass)
  /\ pc = "policy"
  /\ evidence = <<>> /\ kept = <<>> /\ issues = {} /\ context = {} /\ steps = 0

SearchPolicy ==
  /\ pc = "policy" /\ pc' = "tickets"
  /\ IF asks_policy /\ route_knowledge_bases # {}
     THEN /\ \E order \in SetToSeqs(fallback_bases(joint_evidence)) :
               evidence' = retrieve_policy_evidence(order)
          /\ issues' = IF version_conflicts THEN {"versions"} ELSE {}
     ELSE UNCHANGED <<evidence, issues>>
  /\ UNCHANGED <<request, kept, context, steps>>

\* The rendered investigation joins the context here, before the rail.
SearchTickets ==
  /\ pc = "tickets" /\ pc' = "rail"
  /\ IF asks_tickets
     THEN /\ evidence' = evidence \o investigate_ticket
          /\ context' = UNION {investigate_ticket[k].parts : k \in DOMAIN investigate_ticket}
          /\ steps' \in investigation_steps
     ELSE UNCHANGED <<evidence, context, steps>>
  /\ UNCHANGED <<request, kept, issues>>

passes_rail(item) == item.parts \cap request.flagged = {}
apply_retrieval_rail ==
  /\ pc = "rail" /\ pc' = "gate"
  /\ kept' = At(evidence, {k \in DOMAIN evidence : passes_rail(evidence[k])})
  /\ issues' = issues \cup (IF kept' # evidence THEN {"quarantined"} ELSE {})
  /\ UNCHANGED <<request, evidence, context, steps>>

gate_evidence ==
  /\ pc = "gate" /\ pc' = "done"
  /\ LET policy == {k \in DOMAIN kept : kept[k].type = "policy"}
         tickets == (DOMAIN kept) \ policy
         refused == asks_policy /\ policy = {}
     IN /\ issues' = issues \cup (IF refused THEN {"no policy"}
                                  ELSE IF asks_tickets /\ tickets = {} THEN {"no ticket"} ELSE {})
        /\ context' = context \cup UNION {kept[k].parts : k \in policy}
  /\ UNCHANGED <<request, evidence, kept, steps>>

SearchNext == SearchPolicy \/ SearchTickets \/ apply_retrieval_rail \/ gate_evidence
SearchSpec == SearchInit /\ [][SearchNext]_search_vars

\* context/builder.py: the items, or, when there are none, the rendered context.
evidence_in_prompt ==
  IF kept # <<>> THEN UNION {kept[k].parts : k \in DOMAIN kept} ELSE context

(******************************* properties *******************************)
SearchTypeOK ==
  /\ pc \in {"policy", "tickets", "rail", "gate", "done"}
  /\ \A k \in DOMAIN evidence : evidence[k].type \in {"policy", "ticket"}
  /\ issues \subseteq {"versions", "quarantined", "no policy", "no ticket"}
  /\ steps \in 0..(IF request.max_steps < 0 THEN 0 ELSE request.max_steps + 1)

Items(type) == {evidence[k] : k \in {i \in DOMAIN evidence : evidence[i].type = type}}

OnlyEligible ==
  /\ \A e \in Items("policy") :
       LET d == Documents[e.source]
       IN d.base \in route_knowledge_bases /\ eligible(d)
          /\ \A c \in e.parts : Chunk[c].document = e.source
  /\ \A e \in Items("ticket") : can_access(Tickets[e.source].roles)

NoRepeats ==
  /\ \A j, k \in DOMAIN evidence :
       evidence[j].type = evidence[k].type /\ evidence[j].chunk = evidence[k].chunk => j = k
  /\ \A d \in DOMAIN Documents :
       Cardinality({k \in DOMAIN evidence : evidence[k].type = "policy" /\ evidence[k].source = d})
         <= evidence_per_document

\* A base whose best three chunks hold one the caller may be shown is represented.
EveryBaseCovered ==
  (asks_policy /\ pc # "policy") =>
    \A b \in route_knowledge_bases :
      (\E c \in ids(hybrid_retrieve_chunks({b}, 3)) : eligible(doc(c)))
        => \E e \in Items("policy") : Documents[e.source].base = b

\* When anything is kept, what the rail held back is not in the prompt.
QuarantineHolds ==
  (pc = "done" /\ kept # <<>>) => evidence_in_prompt \cap request.flagged = {}

\* Whatever the channels, the model's ranking and the roles: the evidence is of
\* active documents the caller may read and that were in force, no chunk comes
\* twice, no document takes more than its share, no base that has something to
\* show is left out, and, as long as the rail keeps anything, what it held back
\* stays out of the prompt.
\* (policy_search.py retrieve_policy_evidence, pipeline.py run_retrieval)
EvidenceIsSound == OnlyEligible /\ NoRepeats /\ EveryBaseCovered /\ QuarantineHolds
=============================================================================
