---------------------------- MODULE KnowledgeIndex ----------------------------
(* The knowledge store and what each replica keeps of it: the index cache   *)
(* (knowledge/ingest.py), the rows and their vectors                        *)
(* (persistence/knowledge_repository.py), the embedding cache               *)
(* (retrieval/cache.py), the provider's answer (retrieval/embedding.py) and *)
(* the dense search (retrieval/vector_store.py).  Threads of the replicas   *)
(* query and ingest at the same time; a build reads outside the lock.       *)
EXTENDS Integers, Sequences, FiniteSets

CONSTANTS
  Threads, ReplicaOf,  \* threads, and the replica each belongs to
  Writers, Readers,    \* the threads that may ingest, those that may query
  RoleSets,            \* the role sets of the callers
  Chunks,              \* a sequence: the chunks in the order of the index
  ResponseSizes,       \* bound: how many items an answer may hold
  Stable,              \* the chunks whose text no ingest changes
  TTL,                 \* index_cache_ttl_seconds, in ticks
  MaxCommits, MaxTicks,\* bounds: ingests and ticks
  MaxQueries           \* bound: queries and refreshes per reader

ASSUME BoundsAssumption == MaxCommits \in Nat /\ MaxTicks \in Nat
ASSUME ChunksAssumption == DOMAIN Chunks = 1..Len(Chunks) /\ Len(Chunks) \in Nat

VARIABLES
  db,          \* the rows: the commit that wrote them, and the vector of each chunk
  cache,       \* per replica, the cached index (a set of at most one)
  generation,  \* per replica, bumped by every invalidation
  embedded,    \* per replica, the embedding cache
  thread,      \* per thread, where it is and what it holds
  ticks,
  completed,   \* history: per replica, the last ingest that returned
  overlapped   \* history: two ingests were under way at once

knowledge_vars == <<db, cache, generation, embedded, thread, ticks, completed, overlapped>>

Replicas == {ReplicaOf[t] : t \in Threads}
NoVector == <<>>
Unscoped == "unscoped"
ChunkIds == {Chunks[k] : k \in DOMAIN Chunks}

\* The text of a chunk in the rows that a commit wrote.
text(c, commit) == <<c, IF c \in Stable THEN 0 ELSE commit>>

\* An index: the commit its documents and its chunks were read from (commit 0 is
\* the corpus in the code), and the roles it is scoped to.
Index(documents, chunks, scope) == [documents |-> documents, chunks |-> chunks, scope |-> scope]
NoIndex == Index(0, 0, "none")

IdleThread(queries) ==
  [pc |-> "idle", roles |-> Unscoped, caller |-> Unscoped, generation |-> 0, documents |-> 0,
   index |-> NoIndex, then |-> "idle", commit |-> 0, vectors |-> <<>>, hits |-> {},
   queries |-> queries]

KnowledgeInit ==
  /\ db = [commit |-> 0, vector |-> [c \in ChunkIds |-> NoVector]]
  /\ cache = [r \in Replicas |-> {}]
  /\ generation = [r \in Replicas |-> 0]
  /\ embedded = [r \in Replicas |-> <<>>]
  /\ thread = [t \in Threads |-> IdleThread(0)]
  /\ ticks = 0
  /\ completed = [r \in Replicas |-> 0]
  /\ overlapped = FALSE

Local(t) == ReplicaOf[t]
Step(t, from, changed) == thread[t].pc = from /\ thread' = [thread EXCEPT ![t] = changed]
Goto(t, pc) == [thread[t] EXCEPT !.pc = pc]
Ghosts == UNCHANGED <<completed, overlapped>>

\* Definitions named ...Broken stand for a plausible bug in the definition that
\* follows; no other definition uses them.

(***************************** embedding.py *******************************)
\* The answer to a request: pairs of a position and a vector, in another order
\* than asked; or some of them, the last ones here; or none, when it failed.
Responses(texts) ==
  LET item(k) == [index |-> k, vector |-> texts[k]]
      n == Len(texts)
  IN {[k \in 1..m |-> item(n + 1 - k)] : m \in {IF s < n THEN s ELSE n : s \in ResponseSizes}}

orderBroken(response, n) ==  \* by the place it stands at
  [k \in 1..n |-> IF k \in DOMAIN response THEN response[k].vector ELSE NoVector]
\* By the position an item names, not by the place it stands at.
order(response, n) ==
  [k \in 1..n |-> LET named == {i \in DOMAIN response : response[i].index = k}
                  IN IF named = {} THEN NoVector ELSE response[CHOOSE i \in named : TRUE].vector]

(******************************** cache.py ********************************)
\* The texts the cache has no entry for, in their order.
pending(store, texts) ==
  LET missing == {k \in DOMAIN texts : texts[k] \notin DOMAIN store}
      nth(k) == CHOOSE i \in missing : Cardinality({j \in missing : j < i}) = k - 1
  IN [k \in 1..Cardinality(missing) |-> texts[nth(k)]]

\* What was fetched joins the cache, failures too.
record(store, asked, fresh) ==
  [x \in DOMAIN store \cup {asked[k] : k \in DOMAIN asked} |->
     IF x \in DOMAIN store THEN store[x] ELSE fresh[CHOOSE k \in DOMAIN asked : asked[k] = x]]

\* The caches that embedding the texts may leave, one for each possible answer.
embed_with_cache(store, texts) ==
  LET asked == pending(store, texts)
  IN IF asked = <<>> THEN {store}
     ELSE {record(store, asked, order(response, Len(asked))) : response \in Responses(asked)}

(******************************** ingest.py *******************************)
Query(t, roles) ==
  /\ t \in Readers /\ thread[t].queries < MaxQueries
  /\ Step(t, "idle", [Goto(t, "lookup") EXCEPT !.roles = roles, !.caller = roles,
                                               !.queries = @ + 1])
  /\ UNCHANGED <<db, cache, generation, embedded, ticks>> /\ Ghosts

freshBroken(entry, roles) == ticks - entry.at < TTL  \* whoever it was built for
fresh(entry, roles) == ticks - entry.at < TTL /\ entry.index.scope = roles

\* Under the lock: the cached index, or the generation a build starts from.
build_seed_index(t) ==
  /\ LET entries == {e \in cache[Local(t)] : fresh(e, thread[t].roles)}
     IN IF entries # {}
        THEN Step(t, "lookup", [Goto(t, "serve") EXCEPT
                                  !.index = (CHOOSE e \in entries : TRUE).index])
        ELSE Step(t, "lookup", [Goto(t, "load") EXCEPT !.generation = generation[Local(t)]])
  /\ UNCHANGED <<db, cache, generation, embedded, ticks>> /\ Ghosts

\* An empty store is seeded first, by whoever finds it empty.
load_from_postgres(t) ==
  /\ IF db.commit = 0
     THEN Step(t, "load", [Goto(t, "seed") EXCEPT !.then = "documents"])
     ELSE Step(t, "load", Goto(t, "documents"))
  /\ UNCHANGED <<db, cache, generation, embedded, ticks>> /\ Ghosts

\* One connection, but each statement reads what is committed when it runs.
load_documents(t) ==
  /\ Step(t, "documents", [Goto(t, "chunks") EXCEPT !.documents = db.commit])
  /\ UNCHANGED <<db, cache, generation, embedded, ticks>> /\ Ghosts
load_chunks(t) ==
  /\ Step(t, "chunks", [Goto(t, "publish") EXCEPT
                          !.index = Index(thread[t].documents, db.commit, thread[t].roles)])
  /\ UNCHANGED <<db, cache, generation, embedded, ticks>> /\ Ghosts

\* No store, or a read that fails: the corpus in the code, never scoped.
load_failed(t) ==
  /\ thread[t].pc \in {"load", "documents", "chunks"}
  /\ thread' = [thread EXCEPT ![t] =
       IF @.roles # Unscoped THEN [@ EXCEPT !.pc = "lookup", !.roles = Unscoped]
       ELSE [@ EXCEPT !.pc = "publish", !.index = Index(0, 0, Unscoped)]]
  /\ UNCHANGED <<db, cache, generation, embedded, ticks>> /\ Ghosts

keepsBroken(t) == TRUE  \* whatever happened since the build began
\* A build that an invalidation overtook is served, not kept.
keeps(t) == generation[Local(t)] = thread[t].generation
publish(t) ==
  /\ Step(t, "publish", [Goto(t, "serve") EXCEPT !.generation = 0, !.documents = 0])
  /\ cache' = [cache EXCEPT ![Local(t)] =
       IF keeps(t) THEN {[index |-> thread[t].index, at |-> ticks]} ELSE @]
  /\ UNCHANGED <<db, generation, embedded, ticks>> /\ Ghosts

\* The operator's refresh: drop the index, then build the one for everybody.
refresh_knowledge_index(t) ==
  /\ t \in Readers /\ thread[t].queries < MaxQueries
  /\ Step(t, "idle", [Goto(t, "lookup") EXCEPT !.roles = Unscoped, !.caller = Unscoped,
                                               !.queries = @ + 1])
  /\ cache' = [cache EXCEPT ![Local(t)] = {}]
  /\ generation' = [generation EXCEPT ![Local(t)] = @ + 1]
  /\ UNCHANGED <<db, embedded, ticks>> /\ Ghosts

(************************ knowledge_repository.py *************************)
ingest_knowledge_index(t) ==
  /\ t \in Writers
  /\ Step(t, "idle", [Goto(t, "seed") EXCEPT !.then = "idle"])
  /\ UNCHANGED <<db, cache, generation, embedded, ticks>> /\ Ghosts

ingesting(t) == thread[t].pc \in {"embed", "vectors", "invalidate"}

\* A chunk whose text changed loses its vector in the transaction that changes it.
kept_vector(c, commit) ==
  IF text(c, commit) = text(c, db.commit) THEN db.vector[c] ELSE NoVector
seed(t) ==
  /\ db.commit < MaxCommits
  /\ Step(t, "seed", [Goto(t, "embed") EXCEPT !.commit = db.commit + 1])
  /\ db' = [commit |-> db.commit + 1, vector |-> [c \in ChunkIds |-> kept_vector(c, db.commit + 1)]]
  /\ overlapped' = (overlapped \/ \E u \in Threads \ {t} : ingesting(u))
  /\ UNCHANGED <<cache, generation, embedded, ticks, completed>>

\* After the commit, as far as the provider answers; the windows of the batch, and
\* the plan and the record of one, are one step.
persist_embeddings(t) ==
  LET texts == [k \in DOMAIN Chunks |-> text(Chunks[k], thread[t].commit)]
  IN \E store \in embed_with_cache(embedded[Local(t)], texts) :
       /\ embedded' = [embedded EXCEPT ![Local(t)] = store]
       /\ Step(t, "embed", [Goto(t, "vectors") EXCEPT
                              !.vectors = [k \in DOMAIN Chunks |-> store[texts[k]]]])
       /\ UNCHANGED <<db, cache, generation, ticks>> /\ Ghosts

update_vectors(t) ==
  /\ Step(t, "vectors", [Goto(t, "invalidate") EXCEPT !.vectors = <<>>])
  /\ db' = [db EXCEPT !.vector =
       [c \in ChunkIds |->
          LET k == CHOOSE i \in DOMAIN Chunks : Chunks[i] = c
          IN IF thread[t].vectors[k] # NoVector THEN thread[t].vectors[k] ELSE @[c]]]
  /\ UNCHANGED <<cache, generation, embedded, ticks>> /\ Ghosts

\* The embedding pass may fail as a whole; the write stands.
embedding_failed(t) ==
  /\ thread[t].pc \in {"embed", "vectors"}
  /\ thread' = [thread EXCEPT ![t] = [@ EXCEPT !.pc = "invalidate", !.vectors = <<>>]]
  /\ UNCHANGED <<db, cache, generation, embedded, ticks>> /\ Ghosts

\* Last of all, what was built from the rows before is dropped.
invalidate_index(t) ==
  /\ Step(t, "invalidate", [Goto(t, thread[t].then) EXCEPT !.commit = 0])
  /\ cache' = [cache EXCEPT ![Local(t)] = {}]
  /\ generation' = [generation EXCEPT ![Local(t)] = @ + 1]
  /\ completed' = [completed EXCEPT ![Local(t)] =
       IF thread[t].commit > @ THEN thread[t].commit ELSE @]
  /\ UNCHANGED <<db, embedded, ticks, overlapped>>

(***************************** vector_store.py ****************************)
Hit(c, content, vector) == [chunk |-> c, content |-> content, vector |-> vector]

\* The vectors of the rows when there are any, the index and the cache otherwise.
search_dense(t) ==
  /\ \/ /\ \E c \in ChunkIds : db.vector[c] # NoVector
        /\ Step(t, "serve", [IdleThread(thread[t].queries) EXCEPT !.pc = "ranked",
             !.hits = {Hit(c, text(c, db.commit), db.vector[c]) :
                         c \in {d \in ChunkIds : db.vector[d] # NoVector}}])
        /\ UNCHANGED embedded
     \/ LET texts == [k \in DOMAIN Chunks |-> text(Chunks[k], thread[t].index.chunks)]
        IN \E store \in embed_with_cache(embedded[Local(t)], texts) :
             /\ embedded' = [embedded EXCEPT ![Local(t)] = store]
             /\ Step(t, "serve", [IdleThread(thread[t].queries) EXCEPT !.pc = "ranked",
                  !.hits = {Hit(Chunks[k], texts[k], store[texts[k]]) :
                              k \in {i \in DOMAIN Chunks : store[texts[i]] # NoVector}}])
  /\ UNCHANGED <<db, cache, generation, ticks>> /\ Ghosts

answer(t) ==
  /\ Step(t, "ranked", IdleThread(thread[t].queries))
  /\ UNCHANGED <<db, cache, generation, embedded, ticks>> /\ Ghosts

CacheAges == /\ ticks < MaxTicks /\ ticks' = ticks + 1
        /\ UNCHANGED <<db, cache, generation, embedded, thread>> /\ Ghosts

KnowledgeNext ==
  \/ \E t \in Threads :
       \/ \E roles \in RoleSets : Query(t, roles)
       \/ build_seed_index(t) \/ load_from_postgres(t) \/ load_documents(t) \/ load_chunks(t)
       \/ load_failed(t) \/ publish(t) \/ refresh_knowledge_index(t)
       \/ ingest_knowledge_index(t) \/ seed(t) \/ persist_embeddings(t) \/ update_vectors(t)
       \/ embedding_failed(t) \/ invalidate_index(t) \/ search_dense(t) \/ answer(t)
  \/ CacheAges

KnowledgeSpec == KnowledgeInit /\ [][KnowledgeNext]_knowledge_vars

(******************************* properties *******************************)
KnowledgeTypeOK ==
  /\ db.commit \in 0..MaxCommits /\ DOMAIN db.vector = ChunkIds
  /\ \A r \in Replicas : Cardinality(cache[r]) <= 1 /\ generation[r] \in Nat
  /\ \A t \in Threads : thread[t].pc \in {"idle", "lookup", "load", "documents", "chunks",
       "publish", "serve", "ranked", "seed", "embed", "vectors", "invalidate"}
  /\ ticks \in 0..MaxTicks /\ overlapped \in BOOLEAN

\* The index a replica keeps holds every ingest that returned in that replica,
\* however the build and the ingest interleave; the corpus in the code is what is
\* kept when the store cannot be read.  (ingest.py _generation, _write_index)
NoStaleIndexKept ==
  \A r \in Replicas : \A e \in cache[r] :
    e.index.chunks # 0 => e.index.documents >= completed[r] /\ e.index.chunks >= completed[r]

\* A query is answered from an index scoped to the roles of its own caller, or
\* from one that is not scoped to anybody else and is filtered by document.
\* (ingest.py build_seed_index)
ServedToItsCaller ==
  \A t \in Threads : thread[t].pc = "serve" =>
    thread[t].index.scope \in {thread[t].caller, Unscoped}

\* As long as no two ingests overlap, a chunk is ranked by the vector of the text
\* it is shown with, whatever the order of the provider's answer, a cached
\* failure, or a query in the middle of an ingest.  (embedding.py _order,
\* knowledge_repository.py seed, cache.py)
RankedByItsOwnText ==
  ~overlapped => \A t \in Threads : \A hit \in thread[t].hits : hit.vector = hit.content
=============================================================================
