--------------------------- MODULE RetrievalProofs ---------------------------
(* Theorems about retrieval.  KnowledgeIndex, for any number of threads,      *)
(* replicas, ingests, queries and ticks, and any chunks and role sets: a      *)
(* replica keeps no index older than an ingest that returned in it, and a     *)
(* caller is served from an index that is scoped to that caller or to nobody. *)
(* PolicyRetrieval, for any index, channels, ranking and request: what the    *)
(* evidence of a run is made of.                                              *)
EXTENDS KnowledgeIndex, PolicyRetrieval, FoldLemmas

(***************************** the index: invariant ***********************)
ThreadFields == {"pc", "roles", "caller", "generation", "documents", "index", "then", "commit",
           "vectors", "hits", "queries"}

\* A thread is a record of these fields, and its counters are numbers.
Typed(x) ==
  /\ DOMAIN x = ThreadFields
  /\ x.generation \in Nat /\ x.documents \in Nat /\ x.commit \in Nat
  /\ x.index.documents \in Nat /\ x.index.chunks \in Nat
  /\ x.then \in {"idle", "documents"}

\* It is not ahead of the rows, nor of its replica's generation.
Behind(x, commit, gen) == x.commit <= commit /\ x.generation <= gen

\* A build that no invalidation has overtaken read the rows after the last ingest
\* that returned, or gave up and holds the corpus in the code.
Recent(x, gen, done) ==
  x.generation = gen =>
    /\ x.pc = "chunks" => x.documents >= done
    /\ x.pc = "publish" /\ x.index.chunks # 0 =>
         x.index.documents >= done /\ x.index.chunks >= done

\* What is looked for, kept or searched is scoped to the caller, or to nobody.
OwnScope(x) ==
  /\ x.roles \in {x.caller, Unscoped}
  /\ x.pc \in {"publish", "serve"} => x.index.scope \in {x.caller, Unscoped}

Good(x, commit, gen, done) ==
  Typed(x) /\ Behind(x, commit, gen) /\ Recent(x, gen, done) /\ OwnScope(x)

\* The rows and the counters of the replicas.
Counted ==
  /\ db.commit \in Nat
  /\ generation \in [Replicas -> Nat] /\ completed \in [Replicas -> Nat]
  /\ DOMAIN cache = Replicas /\ DOMAIN thread = Threads
  /\ \A r \in Replicas : completed[r] <= db.commit
  /\ \A r \in Replicas : \A e \in cache[r] :
       e.index.documents \in Nat /\ e.index.chunks \in Nat

ThreadsGood ==
  \A t \in Threads : Good(thread[t], db.commit, generation[Local(t)], completed[Local(t)])

IndexInv == Counted /\ NoStaleIndexKept /\ ThreadsGood

(********************************* lemmas *********************************)
\* A thread's replica is one of the replicas.
LEMMA LocalIsReplica == \A t \in Threads : Local(t) \in Replicas
  BY DEF Local, Replicas

\* An idle thread is in order, whatever the rows and the generation are.
LEMMA IdleGood ==
  ASSUME NEW n, NEW commit \in Nat, NEW gen \in Nat, NEW done \in Nat
  PROVE  Good(IdleThread(n), commit, gen, done)
  BY DEF Good, Typed, Behind, Recent, OwnScope, IdleThread, NoIndex, Index, ThreadFields, Unscoped

\* More rows disturb nobody.
LEMMA MoreRows ==
  ASSUME NEW x, NEW commit \in Nat, NEW later \in Nat, commit <= later,
         NEW gen, NEW done, Good(x, commit, gen, done)
  PROVE  Good(x, later, gen, done)
  BY DEF Good, Typed, Behind

\* An invalidation overtakes every build of its replica.
LEMMA Overtaken ==
  ASSUME NEW x, NEW commit, NEW gen \in Nat, NEW done, NEW newer, Good(x, commit, gen, done)
  PROVE  Good(x, commit, gen + 1, newer)
  BY DEF Good, Typed, Behind, Recent

\* A step of one thread that leaves the rows' commit, the caches and the counters alone.
LEMMA OneThread ==
  ASSUME IndexInv, NEW t \in Threads, NEW x,
         thread' = [thread EXCEPT ![t] = x],
         Good(x, db.commit, generation[Local(t)], completed[Local(t)]),
         db'.commit = db.commit, UNCHANGED <<cache, generation, completed>>
  PROVE  IndexInv'
  <1>1. Counted'
    BY DEF IndexInv, Counted
  <1>2. NoStaleIndexKept'
    BY DEF IndexInv, NoStaleIndexKept
  <1>3. ThreadsGood'
    BY DEF IndexInv, ThreadsGood, Counted, Local
  <1> QED
    BY <1>1, <1>2, <1>3 DEF IndexInv

\* A step of one thread that invalidates its replica's index after an ingest that
\* is not ahead of the rows.
LEMMA Invalidated ==
  ASSUME IndexInv, NEW t \in Threads, NEW x, NEW done \in Nat, done <= db.commit,
         thread' = [thread EXCEPT ![t] = x],
         Good(x, db.commit, generation[Local(t)] + 1, done),
         db' = db,
         cache' = [cache EXCEPT ![Local(t)] = {}],
         generation' = [generation EXCEPT ![Local(t)] = @ + 1],
         completed' = [completed EXCEPT ![Local(t)] = done]
  PROVE  IndexInv'
  <1>0. Local(t) \in Replicas
    BY LocalIsReplica
  <1>1. Counted'
    BY <1>0 DEF IndexInv, Counted
  <1>2. NoStaleIndexKept'
    BY <1>0 DEF IndexInv, NoStaleIndexKept, Counted
  <1>3. ASSUME NEW u \in Threads
        PROVE  Good(thread[u], db.commit, generation[Local(u)], completed[Local(u)])'
    <2>1. Local(u)' = Local(u) /\ Local(u) \in Replicas
      BY LocalIsReplica DEF Local
    <2>2. generation[Local(u)] \in Nat
      BY <2>1 DEF IndexInv, Counted
    <2>3. Good(thread[u], db.commit, generation[Local(u)], completed[Local(u)])
      BY DEF IndexInv, ThreadsGood
    <2>4. CASE u = t
      <3>1. thread'[u] = x /\ generation'[Local(u)] = generation[Local(t)] + 1
            /\ completed'[Local(u)] = done
        BY <1>0, <2>4 DEF IndexInv, Counted
      <3> QED
        BY <2>1, <2>4, <3>1
    <2>5. CASE u # t /\ Local(u) = Local(t)
      <3>1. thread'[u] = thread[u] /\ generation'[Local(u)] = generation[Local(u)] + 1
            /\ completed'[Local(u)] = done
        BY <1>0, <2>5 DEF IndexInv, Counted
      <3>2. Good(thread[u], db.commit, generation[Local(u)] + 1, done)
        BY <2>2, <2>3, Overtaken
      <3> QED
        BY <2>1, <3>1, <3>2
    <2>6. CASE u # t /\ Local(u) # Local(t)
      <3>1. thread'[u] = thread[u] /\ generation'[Local(u)] = generation[Local(u)]
            /\ completed'[Local(u)] = completed[Local(u)]
        BY <1>0, <2>1, <2>6 DEF IndexInv, Counted
      <3> QED
        BY <2>1, <2>3, <3>1
    <2> QED
      BY <2>4, <2>5, <2>6
  <1>4. ThreadsGood'
    BY <1>3 DEF ThreadsGood
  <1> QED
    BY <1>1, <1>2, <1>4 DEF IndexInv

\* At the start nothing is kept, and every thread is idle.
LEMMA IndexInit == KnowledgeInit => IndexInv
  <1> SUFFICES ASSUME KnowledgeInit PROVE IndexInv
    OBVIOUS
  <1>1. db.commit = 0
    BY DEF KnowledgeInit
  <1>2. Counted
    BY <1>1 DEF KnowledgeInit, Counted
  <1>3. NoStaleIndexKept
    BY DEF KnowledgeInit, NoStaleIndexKept
  <1>4. ThreadsGood
    BY <1>1, IdleGood, LocalIsReplica DEF KnowledgeInit, ThreadsGood
  <1> QED
    BY <1>2, <1>3, <1>4 DEF IndexInv

\* Every step of every thread keeps the invariant.
LEMMA IndexNext == IndexInv /\ [KnowledgeNext]_knowledge_vars => IndexInv'
  <1> SUFFICES ASSUME IndexInv, [KnowledgeNext]_knowledge_vars PROVE IndexInv'
    OBVIOUS
  <1>1. CASE CacheAges
    BY <1>1 DEF CacheAges, Ghosts, IndexInv, Counted, NoStaleIndexKept, ThreadsGood, Local
  <1>2. CASE UNCHANGED knowledge_vars
    BY <1>2 DEF knowledge_vars, IndexInv, Counted, NoStaleIndexKept, ThreadsGood, Local
  <1>3. ASSUME NEW t \in Threads,
               \/ \E roles \in RoleSets : Query(t, roles)
               \/ build_seed_index(t) \/ load_from_postgres(t) \/ load_documents(t)
               \/ load_chunks(t) \/ load_failed(t) \/ publish(t)
               \/ refresh_knowledge_index(t) \/ ingest_knowledge_index(t) \/ seed(t)
               \/ persist_embeddings(t) \/ update_vectors(t) \/ embedding_failed(t)
               \/ invalidate_index(t) \/ search_dense(t) \/ answer(t)
        PROVE  IndexInv'
    <2> DEFINE x == thread[t]
               r == Local(t)
               Fine(y) == Good(y, db.commit, generation[r], completed[r])
    <2>1. /\ r \in Replicas /\ db.commit \in Nat
          /\ generation[r] \in Nat /\ completed[r] \in Nat /\ completed[r] <= db.commit
      BY LocalIsReplica DEF IndexInv, Counted
    <2>2. Fine(x)
      BY DEF IndexInv, ThreadsGood
    <2>3. DOMAIN x = ThreadFields /\ x.generation \in Nat /\ x.documents \in Nat /\ x.commit \in Nat
          /\ x.generation <= generation[r] /\ x.commit <= db.commit
      BY <2>2 DEF Good, Typed, Behind
    <2>4. ASSUME NEW y, Fine(y), thread' = [thread EXCEPT ![t] = y],
                 db'.commit = db.commit, UNCHANGED <<cache, generation, completed>>
          PROVE  IndexInv'
      BY <2>4, OneThread
    <2>5. ASSUME NEW y, DOMAIN y = ThreadFields, y.generation = x.generation,
                 y.documents = x.documents, y.commit = x.commit, y.index = x.index,
                 y.then \in {"idle", "documents"}, y.roles = x.roles, y.caller = x.caller,
                 y.pc \notin {"chunks", "publish", "serve"}
          PROVE  Fine(y)
      BY <2>2, <2>5 DEF Good, Typed, Behind, Recent, OwnScope
    <2> HIDE DEF Fine
    <2>6. ASSUME NEW roles \in RoleSets, Query(t, roles) PROVE IndexInv'
      <3> DEFINE y == [x EXCEPT !.pc = "lookup", !.roles = roles, !.caller = roles,
                                !.queries = @ + 1]
      <3>1. Fine(y)
        BY <2>2, <2>3 DEF Fine, Good, Typed, Behind, Recent, OwnScope, ThreadFields
      <3>2. thread' = [thread EXCEPT ![t] = y]
        BY <2>3, <2>6 DEF Query, Step, Goto, ThreadFields
      <3> QED
        BY <2>4, <2>6, <3>1, <3>2 DEF Query, Ghosts
    <2>7. CASE build_seed_index(t)
      <3> DEFINE entries == {e \in cache[r] : fresh(e, x.roles)}
      <3>1. CASE entries # {}
        <4>1. PICK e : e \in cache[r] /\ e.index.scope = x.roles
                       /\ thread' = [thread EXCEPT ![t] = [[x EXCEPT !.pc = "serve"] EXCEPT !.index = e.index]]
          <5>1. (CHOOSE f \in entries : TRUE) \in entries
            BY <3>1
          <5> HIDE DEF entries
          <5>2. thread' = [thread EXCEPT ![t] = [[x EXCEPT !.pc = "serve"] EXCEPT
                             !.index = (CHOOSE f \in entries : TRUE).index]]
            BY <2>7, <3>1, Zenon DEF build_seed_index, Step, Goto, entries
          <5>3. /\ (CHOOSE f \in entries : TRUE) \in cache[r]
                /\ (CHOOSE f \in entries : TRUE).index.scope = x.roles
            BY <5>1, Zenon DEF entries, fresh
          <5> QED
            BY <5>2, <5>3, Zenon
        <4> DEFINE y == [[x EXCEPT !.pc = "serve"] EXCEPT !.index = e.index]
        <4>2. e.index.documents \in Nat /\ e.index.chunks \in Nat
          BY <2>1, <4>1 DEF IndexInv, Counted
        <4>3. Fine(y)
          BY <2>2, <2>3, <4>1, <4>2 DEF Fine, Good, Typed, Behind, Recent, OwnScope, ThreadFields
        <4> QED
          BY <2>4, <2>7, <4>1, <4>3 DEF build_seed_index, Ghosts
      <3>2. CASE entries = {}
        <4> DEFINE y == [[x EXCEPT !.pc = "load"] EXCEPT !.generation = generation[r]]
        <4>1. thread' = [thread EXCEPT ![t] = y]
          BY <2>7, <3>2 DEF build_seed_index, Step, Goto
        <4>2. Fine(y)
          BY <2>1, <2>2, <2>3 DEF Fine, Good, Typed, Behind, Recent, OwnScope, ThreadFields
        <4> QED
          BY <2>4, <2>7, <4>1, <4>2 DEF build_seed_index, Ghosts
      <3> QED
        BY <3>1, <3>2
    <2>8. CASE load_from_postgres(t)
      <3>1. PICK y : /\ thread' = [thread EXCEPT ![t] = y] /\ DOMAIN y = ThreadFields
                     /\ y.generation = x.generation /\ y.documents = x.documents
                     /\ y.commit = x.commit /\ y.index = x.index /\ y.roles = x.roles
                     /\ y.caller = x.caller /\ y.pc \in {"seed", "documents"}
                     /\ y.then \in {"idle", "documents"}
        <4>1. x.then \in {"idle", "documents"}
          BY <2>2 DEF Fine, Good, Typed
        <4> QED
          BY <2>3, <2>8, <4>1 DEF load_from_postgres, Step, Goto, ThreadFields
      <3>2. Fine(y)
        BY <2>5, <3>1
      <3> QED
        BY <2>4, <2>8, <3>1, <3>2 DEF load_from_postgres, Ghosts
    <2>9. CASE load_documents(t)
      <3> DEFINE y == [[x EXCEPT !.pc = "chunks"] EXCEPT !.documents = db.commit]
      <3>1. thread' = [thread EXCEPT ![t] = y]
        BY <2>9 DEF load_documents, Step, Goto
      <3>2. Fine(y)
        BY <2>1, <2>2, <2>3 DEF Fine, Good, Typed, Behind, Recent, OwnScope, ThreadFields
      <3> QED
        BY <2>4, <2>9, <3>1, <3>2 DEF load_documents, Ghosts
    <2>10. CASE load_chunks(t)
      <3> DEFINE y == [[x EXCEPT !.pc = "publish"] EXCEPT
                         !.index = Index(x.documents, db.commit, x.roles)]
      <3>1. thread' = [thread EXCEPT ![t] = y] /\ x.pc = "chunks"
        BY <2>10 DEF load_chunks, Step, Goto
      <3>2. Fine(y)
        BY <2>1, <2>2, <2>3, <3>1 DEF Fine, Good, Typed, Behind, Recent, OwnScope, ThreadFields, Index
      <3> QED
        BY <2>4, <2>10, <3>1, <3>2 DEF load_chunks, Ghosts
    <2>11. CASE load_failed(t)
      <3>1. CASE x.roles # Unscoped
        <4> DEFINE y == [x EXCEPT !.pc = "lookup", !.roles = Unscoped]
        <4>1. thread' = [thread EXCEPT ![t] = y]
          BY <2>11, <3>1 DEF load_failed
        <4>2. Fine(y)
          BY <2>2, <2>3 DEF Fine, Good, Typed, Behind, Recent, OwnScope, ThreadFields
        <4> QED
          BY <2>4, <2>11, <4>1, <4>2 DEF load_failed, Ghosts
      <3>2. CASE x.roles = Unscoped
        <4> DEFINE y == [x EXCEPT !.pc = "publish", !.index = Index(0, 0, Unscoped)]
        <4>1. thread' = [thread EXCEPT ![t] = y]
          BY <2>11, <3>2 DEF load_failed
        <4>2. Fine(y)
          BY <2>2, <2>3 DEF Fine, Good, Typed, Behind, Recent, OwnScope, ThreadFields, Index
        <4> QED
          BY <2>4, <2>11, <4>1, <4>2 DEF load_failed, Ghosts
      <3> QED
        BY <3>1, <3>2
    <2>12. CASE publish(t)
      <3> DEFINE y == [[x EXCEPT !.pc = "serve"] EXCEPT !.generation = 0, !.documents = 0]
      <3>1. /\ thread' = [thread EXCEPT ![t] = y] /\ x.pc = "publish"
            /\ cache' = [cache EXCEPT ![r] =
                 IF keeps(t) THEN {[index |-> x.index, at |-> ticks]} ELSE @]
            /\ UNCHANGED <<db, generation, completed>>
        BY <2>12 DEF publish, Step, Goto, Ghosts
      <3>2. Fine(y)
        BY <2>1, <2>2, <2>3, <3>1 DEF Fine, Good, Typed, Behind, Recent, OwnScope, ThreadFields
      <3>3. /\ x.index.documents \in Nat /\ x.index.chunks \in Nat
            /\ keeps(t) /\ x.index.chunks # 0 =>
                 x.index.documents >= completed[r] /\ x.index.chunks >= completed[r]
        BY <2>2, <3>1 DEF Fine, Good, Typed, Recent, keeps
      <3>4. Counted'
        BY <3>1, <3>3 DEF IndexInv, Counted
      <3>5. NoStaleIndexKept'
        BY <2>1, <3>1, <3>3 DEF IndexInv, Counted, NoStaleIndexKept
      <3>6. ThreadsGood'
        BY <3>1, <3>2 DEF Fine, IndexInv, ThreadsGood, Counted, Local
      <3> QED
        BY <3>4, <3>5, <3>6 DEF IndexInv
    <2>13. CASE refresh_knowledge_index(t)
      <3> DEFINE y == [x EXCEPT !.pc = "lookup", !.roles = Unscoped, !.caller = Unscoped,
                                !.queries = @ + 1]
      <3>1. thread' = [thread EXCEPT ![t] = y]
        BY <2>3, <2>13 DEF refresh_knowledge_index, Step, Goto, ThreadFields
      <3>2. Good(y, db.commit, generation[r] + 1, completed[r])
        BY <2>1, <2>2, <2>3 DEF Fine, Good, Typed, Behind, Recent, OwnScope, ThreadFields
      <3>3. completed' = [completed EXCEPT ![r] = completed[r]]
        BY <2>13 DEF refresh_knowledge_index, Ghosts, IndexInv, Counted
      <3> QED
        BY <2>1, <2>13, <3>1, <3>2, <3>3, Invalidated DEF refresh_knowledge_index
    <2>14. CASE ingest_knowledge_index(t)
      <3> DEFINE y == [[x EXCEPT !.pc = "seed"] EXCEPT !.then = "idle"]
      <3>1. thread' = [thread EXCEPT ![t] = y]
        BY <2>14 DEF ingest_knowledge_index, Step, Goto
      <3>2. Fine(y)
        BY <2>3, <2>5 DEF ThreadFields
      <3> QED
        BY <2>4, <2>14, <3>1, <3>2 DEF ingest_knowledge_index, Ghosts
    <2>15. CASE seed(t)
      <3> DEFINE y == [[x EXCEPT !.pc = "embed"] EXCEPT !.commit = db.commit + 1]
      <3>1. /\ thread' = [thread EXCEPT ![t] = y] /\ db'.commit = db.commit + 1
            /\ UNCHANGED <<cache, generation, completed>>
        BY <2>15 DEF seed, Step, Goto
      <3>2. Good(y, db.commit + 1, generation[r], completed[r])
        BY <2>1, <2>2, <2>3 DEF Fine, Good, Typed, Behind, Recent, OwnScope, ThreadFields
      <3>3. Counted'
        BY <2>1, <3>1 DEF IndexInv, Counted
      <3>4. NoStaleIndexKept'
        BY <3>1 DEF IndexInv, NoStaleIndexKept
      <3>5. ASSUME NEW u \in Threads
            PROVE  Good(thread[u], db.commit, generation[Local(u)], completed[Local(u)])'
        <4>1. CASE u = t
          BY <3>1, <3>2, <4>1 DEF IndexInv, Counted, Local
        <4>2. CASE u # t
          <5>1. Good(thread[u], db.commit + 1, generation[Local(u)], completed[Local(u)])
            BY <2>1, MoreRows DEF IndexInv, ThreadsGood
          <5>2. thread'[u] = thread[u]
            BY <3>1, <4>2 DEF IndexInv, Counted
          <5> QED
            BY <3>1, <5>1, <5>2 DEF Local
        <4> QED
          BY <4>1, <4>2
      <3>6. ThreadsGood'
        BY <3>5 DEF ThreadsGood
      <3> QED
        BY <3>3, <3>4, <3>6 DEF IndexInv
    <2>16. CASE persist_embeddings(t)
      <3>1. PICK v : thread' = [thread EXCEPT ![t] = [[x EXCEPT !.pc = "vectors"] EXCEPT !.vectors = v]]
        BY <2>16, Zenon DEF persist_embeddings, Step, Goto
      <3>2. UNCHANGED <<db, cache, generation, completed>>
        BY <2>16, Zenon DEF persist_embeddings, Ghosts
      <3> DEFINE y == [[x EXCEPT !.pc = "vectors"] EXCEPT !.vectors = v]
      <3>3. x.then \in {"idle", "documents"}
        BY <2>2 DEF Fine, Good, Typed
      <3>4. Fine(y)
        BY <2>3, <2>5, <3>3 DEF ThreadFields
      <3> QED
        BY <2>4, <3>1, <3>2, <3>4
    <2>17. CASE update_vectors(t)
      <3> DEFINE y == [[x EXCEPT !.pc = "invalidate"] EXCEPT !.vectors = <<>>]
      <3>1. thread' = [thread EXCEPT ![t] = y] /\ UNCHANGED <<cache, generation, completed>>
        BY <2>17, Zenon DEF update_vectors, Step, Goto, Ghosts
      <3>2. db'.commit = db.commit
        <4>1. PICK v : db' = [db EXCEPT !.vector = v]
          BY <2>17, Zenon DEF update_vectors
        <4> QED
          BY <4>1 DEF IndexInv, Counted
      <3>3. x.then \in {"idle", "documents"}
        BY <2>2 DEF Fine, Good, Typed
      <3>4. Fine(y)
        BY <2>3, <2>5, <3>3 DEF ThreadFields
      <3> QED
        BY <2>4, <3>1, <3>2, <3>4
    <2>18. CASE embedding_failed(t)
      <3> DEFINE y == [x EXCEPT !.pc = "invalidate", !.vectors = <<>>]
      <3>1. thread' = [thread EXCEPT ![t] = y]
        BY <2>18 DEF embedding_failed
      <3>2. x.then \in {"idle", "documents"}
        BY <2>2 DEF Fine, Good, Typed
      <3>3. Fine(y)
        BY <2>3, <2>5, <3>2 DEF ThreadFields
      <3> QED
        BY <2>4, <2>18, <3>1, <3>3 DEF embedding_failed, Ghosts
    <2>19. CASE invalidate_index(t)
      <3> DEFINE y == [[x EXCEPT !.pc = x.then] EXCEPT !.commit = 0]
                 done == IF x.commit > completed[r] THEN x.commit ELSE completed[r]
      <3>1. thread' = [thread EXCEPT ![t] = y]
        BY <2>19 DEF invalidate_index, Step, Goto
      <3>2. done \in Nat /\ done <= db.commit
        BY <2>1, <2>3
      <3>3. Good(y, db.commit, generation[r] + 1, done)
        BY <2>1, <2>2, <2>3 DEF Fine, Good, Typed, Behind, Recent, OwnScope, ThreadFields
      <3>4. completed' = [completed EXCEPT ![r] = done]
        BY <2>19 DEF invalidate_index
      <3> HIDE DEF done
      <3> QED
        BY <2>19, <3>1, <3>2, <3>3, <3>4, Invalidated DEF invalidate_index
    <2>20. CASE search_dense(t)
      <3>1. PICK h : thread' = [thread EXCEPT ![t] =
                       [IdleThread(x.queries) EXCEPT !.pc = "ranked", !.hits = h]]
        BY <2>20, Zenon DEF search_dense, Step
      <3>2. UNCHANGED <<db, cache, generation, completed>>
        BY <2>20, Zenon DEF search_dense, Ghosts
      <3> DEFINE y == [IdleThread(x.queries) EXCEPT !.pc = "ranked", !.hits = h]
      <3>3. Fine(y)
        BY <2>1 DEF Fine, Good, Typed, Behind, Recent, OwnScope, IdleThread, NoIndex, Index, ThreadFields,
                    Unscoped
      <3> QED
        BY <2>4, <3>1, <3>2, <3>3
    <2>21. CASE answer(t)
      <3>1. Fine(IdleThread(x.queries))
        BY <2>1, IdleGood DEF Fine
      <3> QED
        BY <2>4, <2>21, <3>1 DEF answer, Step, Ghosts
    <2> QED
      BY <1>3, <2>6, <2>7, <2>8, <2>9, <2>10, <2>11, <2>12, <2>13, <2>14, <2>15, <2>16,
         <2>17, <2>18, <2>19, <2>20, <2>21
  <1> QED
    BY <1>1, <1>2, <1>3 DEF KnowledgeNext

\* The invariant holds in every behaviour.
LEMMA IndexAlways == KnowledgeSpec => []IndexInv
  BY IndexInit, IndexNext, PTL DEF KnowledgeSpec

(******************************** theorems ********************************)
\* The index a replica keeps holds every ingest that returned in that replica,
\* whatever threads query, refresh, seed and ingest meanwhile, in however many
\* replicas (ingest.py _generation and _write_index, invalidate_index after the
\* commit).
THEOREM KeptIndexIsNotStale == KnowledgeSpec => []NoStaleIndexKept
  <1>1. IndexInv => NoStaleIndexKept
    BY DEF IndexInv
  <1> QED
    BY <1>1, IndexAlways, PTL

\* No caller is served from an index scoped to somebody else, for any role sets
\* (ingest.py build_seed_index).
THEOREM CallersAreServedTheirOwn == KnowledgeSpec => []ServedToItsCaller
  <1>1. IndexInv => ServedToItsCaller
    BY DEF IndexInv, ThreadsGood, Good, OwnScope, ServedToItsCaller
  <1> QED
    BY <1>1, IndexAlways, PTL

(************************ the vectors of the texts ************************)
\* The vector of a text, as the provider gives it, is the text; or there is none.
Own(v, x) == v \in {x, NoVector}
StoreOK(store) == \A x \in DOMAIN store : Own(store[x], x)

\* What a thread carries: the vectors of the rows it wrote, which no other ingest
\* has overtaken, and hits that were ranked by what they show.
Carried(y, commit, alone) ==
  /\ y.pc = "vectors" =>
       \A k \in DOMAIN Chunks : Own(y.vectors[k], text(Chunks[k], y.commit))
  /\ alone /\ y.pc \in {"embed", "vectors", "invalidate"} => y.commit = commit
  /\ alone => \A hit \in y.hits : hit.vector = hit.content

RowsOK == /\ DOMAIN db = {"commit", "vector"} /\ DOMAIN db.vector = ChunkIds
          /\ ~overlapped => \A c \in ChunkIds : Own(db.vector[c], text(c, db.commit))
StoresOK == DOMAIN embedded = Replicas /\ \A r \in Replicas : StoreOK(embedded[r])
ThreadsCarry == \A t \in Threads : Carried(thread[t], db.commit, ~overlapped)

VectorsInv == RowsOK /\ StoresOK /\ ThreadsCarry

\* An item of an answer names its text; what is put in order is the text's own.
LEMMA OrderIsOwn ==
  ASSUME NEW asked, NEW response \in Responses(asked), NEW k \in 1..Len(asked)
  PROVE  Own(order(response, Len(asked))[k], asked[k])
  <1> DEFINE named == {i \in DOMAIN response : response[i].index = k}
             chosen == CHOOSE i \in named : TRUE
  <1>1. \A i \in DOMAIN response : response[i].vector = asked[response[i].index]
    <2>1. PICK m : response = [i \in 1..m |-> [index |-> Len(asked) + 1 - i,
                                               vector |-> asked[Len(asked) + 1 - i]]]
      BY DEF Responses
    <2> QED
      BY <2>1
  <1>2. order(response, Len(asked))[k] = IF named = {} THEN NoVector ELSE response[chosen].vector
    BY DEF order
  <1>3. named # {} => chosen \in DOMAIN response /\ response[chosen].index = k
    <2>1. named # {} => chosen \in named
      BY Zenon
    <2> HIDE DEF chosen
    <2> QED
      BY <2>1
  <1> HIDE DEF chosen, named
  <1> QED
    BY <1>1, <1>2, <1>3 DEF Own

\* An array is as long as its positions say.
LEMMA ArrayLen ==
  ASSUME NEW m \in Nat, NEW X, NEW s \in [1..m -> X]
  PROVE  s \in Seq(X) /\ Len(s) = m
  OBVIOUS

\* The texts to fetch are some of the texts, and all that the cache lacks.
LEMMA PendingIs ==
  ASSUME NEW store, NEW n \in Nat, NEW texts, DOMAIN texts = 1..n
  PROVE  /\ DOMAIN pending(store, texts) = 1..Len(pending(store, texts))
         /\ \A k \in 1..n : texts[k] \notin DOMAIN store =>
              \E j \in DOMAIN pending(store, texts) : pending(store, texts)[j] = texts[k]
  <1> DEFINE U == {k \in DOMAIN texts : texts[k] \notin DOMAIN store}
             c(i) == Cardinality({j \in U : j < i})
             m == Cardinality(U)
             nth(k) == CHOOSE i \in U : c(i) = k - 1
             p == [k \in 1..m |-> texts[nth(k)]]
  <1>1. pending(store, texts) = p
    BY DEF pending
  <1>2. U \in SUBSET (1..n)
    OBVIOUS
  <1> HIDE DEF U
  <1>3. /\ m \in Nat /\ \A i \in U : c(i) \in Nat /\ c(i) < m
        /\ \A i, k \in U : c(i) = c(k) => i = k
        /\ \A k \in 1..m : \E i \in U : c(i) = k - 1
    <2>1. /\ Cardinality(U) \in Nat
          /\ \A i \in U : /\ Cardinality({j \in U : j < i}) \in Nat
                          /\ Cardinality({j \in U : j < i}) < Cardinality(U)
      BY <1>2, Ranks
    <2>2. \A i, k \in U : Cardinality({j \in U : j < i}) = Cardinality({j \in U : j < k}) => i = k
      BY <1>2, Ranks
    <2>3. \A k \in 1..Cardinality(U) : \E i \in U : Cardinality({j \in U : j < i}) = k - 1
      BY <1>2, Ranks
    <2> QED
      BY <2>1, <2>2, <2>3
  <1> HIDE DEF c, m
  <1>4. Len(p) = m
    <2>1. p = [k \in 1..m |-> p[k]]
      OBVIOUS
    <2> HIDE DEF p
    <2>2. p \in [1..m -> {p[k] : k \in 1..m}]
      BY <2>1
    <2>3. m \in Nat
      BY <1>3
    <2> QED
      BY <2>2, <2>3, ArrayLen
  <1>5. ASSUME NEW k \in U PROVE c(k) + 1 \in 1..m /\ p[c(k) + 1] = texts[k]
    <2>1. c(k) + 1 \in 1..m /\ (c(k) + 1) - 1 = c(k)
      BY <1>3
    <2>2. nth(c(k) + 1) \in U /\ c(nth(c(k) + 1)) = c(k)
      <3>1. \E i \in U : c(i) = (c(k) + 1) - 1
        BY <2>1
      <3>2. nth(c(k) + 1) \in U /\ c(nth(c(k) + 1)) = (c(k) + 1) - 1
        BY <3>1
      <3> HIDE DEF nth
      <3> QED
        BY <2>1, <3>2
    <2> HIDE DEF nth
    <2>3. nth(c(k) + 1) = k
      BY <1>3, <2>2
    <2> QED
      BY <2>1, <2>3
  <1> HIDE DEF p
  <1>6. DOMAIN p = 1..m
    BY DEF p
  <1>7. \A k \in 1..n : texts[k] \notin DOMAIN store => k \in U
    BY DEF U
  <1> QED
    BY <1>1, <1>4, <1>5, <1>6, <1>7

\* Whatever the provider answers, every text is in the cache afterwards, and what
\* is cached under a text is its own.
LEMMA EmbedIs ==
  ASSUME NEW store, StoreOK(store), NEW n \in Nat, NEW texts, DOMAIN texts = 1..n,
         NEW after \in embed_with_cache(store, texts)
  PROVE  StoreOK(after) /\ \A k \in 1..n : texts[k] \in DOMAIN after
  <1> DEFINE asked == pending(store, texts)
  <1>1. /\ DOMAIN asked = 1..Len(asked)
        /\ \A k \in 1..n : texts[k] \notin DOMAIN store => \E j \in DOMAIN asked : asked[j] = texts[k]
    BY PendingIs
  <1>2. embed_with_cache(store, texts) =
          IF asked = <<>> THEN {store}
          ELSE {record(store, asked, order(response, Len(asked))) : response \in Responses(asked)}
    BY DEF embed_with_cache
  <1> HIDE DEF asked
  <1>3. CASE asked = <<>>
    <2>1. after = store /\ DOMAIN asked = {}
      BY <1>2, <1>3
    <2> QED
      BY <1>1, <2>1
  <1>4. CASE asked # <<>>
    <2>1. PICK response \in Responses(asked) :
            after = record(store, asked, order(response, Len(asked)))
      BY <1>2, <1>4
    <2> DEFINE new == order(response, Len(asked))
               at(x) == CHOOSE k \in DOMAIN asked : asked[k] = x
    <2>2. after = [x \in DOMAIN store \cup {asked[k] : k \in DOMAIN asked} |->
                     IF x \in DOMAIN store THEN store[x] ELSE new[at(x)]]
      BY <2>1 DEF record
    <2>3. \A k \in DOMAIN asked : Own(new[k], asked[k])
      BY <1>1, OrderIsOwn
    <2>4. \A x \in {asked[k] : k \in DOMAIN asked} : at(x) \in DOMAIN asked /\ asked[at(x)] = x
      OBVIOUS
    <2> HIDE DEF new, at
    <2>5. ASSUME NEW x \in DOMAIN after PROVE Own(after[x], x)
      <3>1. CASE x \in DOMAIN store
        BY <2>2, <3>1 DEF StoreOK
      <3>2. CASE x \notin DOMAIN store
        <4>1. at(x) \in DOMAIN asked /\ asked[at(x)] = x /\ after[x] = new[at(x)]
          BY <2>2, <2>4, <3>2
        <4> QED
          BY <2>3, <4>1
      <3> QED
        BY <3>1, <3>2
    <2>6. \A k \in 1..n : texts[k] \in DOMAIN after
      BY <1>1, <2>2
    <2> QED
      BY <2>5, <2>6 DEF StoreOK
  <1> QED
    BY <1>3, <1>4

\* A thread that holds no vectors, and no ingest, carries what it did.
LEMMA QuietThread ==
  ASSUME NEW y, NEW x, NEW commit, NEW alone, Carried(x, commit, alone),
         y.pc \notin {"embed", "vectors", "invalidate"}, y.hits \in SUBSET x.hits
  PROVE  Carried(y, commit, alone)
  BY DEF Carried

\* Only thread t moves, and it is at y.
OnlyMoves(t, y) == /\ DOMAIN thread' = Threads /\ thread'[t] = y
               /\ \A u \in Threads \ {t} : thread'[u] = thread[u]

\* A step of one thread that writes neither rows nor vectors.
LEMMA OneCarries ==
  ASSUME VectorsInv, NEW t \in Threads, OnlyMoves(t, thread'[t]),
         Carried(thread'[t], db.commit, ~overlapped), UNCHANGED <<db, embedded, overlapped>>
  PROVE  VectorsInv'
  <1>1. RowsOK' /\ StoresOK'
    BY DEF VectorsInv, RowsOK, StoresOK, Own, StoreOK, text
  <1>2. ThreadsCarry'
    BY DEF VectorsInv, ThreadsCarry, OnlyMoves
  <1> QED
    BY <1>1, <1>2 DEF VectorsInv

LEMMA VectorsInit == KnowledgeInit => VectorsInv
  <1> SUFFICES ASSUME KnowledgeInit PROVE VectorsInv
    OBVIOUS
  <1>1. db = [commit |-> 0, vector |-> [c \in ChunkIds |-> NoVector]] /\ overlapped = FALSE
        /\ embedded = [r \in Replicas |-> <<>>] /\ thread = [t \in Threads |-> IdleThread(0)]
    BY DEF KnowledgeInit
  <1>2. RowsOK
    BY <1>1 DEF RowsOK, Own
  <1>3. StoresOK
    BY <1>1 DEF StoresOK, StoreOK
  <1>4. ThreadsCarry
    BY <1>1 DEF ThreadsCarry, Carried, IdleThread
  <1> QED
    BY <1>2, <1>3, <1>4 DEF VectorsInv

LEMMA VectorsNext ==
  ASSUME IndexInv, VectorsInv, [KnowledgeNext]_knowledge_vars
  PROVE  VectorsInv'
  <1>0. DOMAIN thread = Threads /\ RowsOK /\ StoresOK /\ ThreadsCarry
    BY DEF IndexInv, Counted, VectorsInv
  <1>1. CASE CacheAges \/ UNCHANGED knowledge_vars
    <2>1. UNCHANGED <<db, embedded, thread, overlapped>>
      BY <1>1 DEF CacheAges, Ghosts, knowledge_vars
    <2> QED
      BY <2>1, <1>0 DEF VectorsInv, RowsOK, StoresOK, ThreadsCarry, Own, StoreOK, Carried, text
  <1>2. ASSUME NEW t \in Threads,
               \/ \E roles \in RoleSets : Query(t, roles)
               \/ build_seed_index(t) \/ load_from_postgres(t) \/ load_documents(t)
               \/ load_chunks(t) \/ load_failed(t) \/ publish(t)
               \/ refresh_knowledge_index(t) \/ ingest_knowledge_index(t) \/ seed(t)
               \/ persist_embeddings(t) \/ update_vectors(t) \/ embedding_failed(t)
               \/ invalidate_index(t) \/ search_dense(t) \/ answer(t)
        PROVE  VectorsInv'
    <2> DEFINE x == thread[t]
               Fine(y) == Carried(y, db.commit, ~overlapped)
    <2>1. /\ DOMAIN x = ThreadFields /\ x.then \in {"idle", "documents"} /\ Fine(x)
          /\ Local(t) \in Replicas
      BY <1>0, LocalIsReplica DEF IndexInv, ThreadsGood, Good, Typed, ThreadsCarry
    <2>2. ASSUME OnlyMoves(t, thread'[t]), UNCHANGED <<db, embedded, overlapped>>,
                 thread'[t].pc \notin {"embed", "vectors", "invalidate"},
                 thread'[t].hits \in SUBSET x.hits
          PROVE  VectorsInv'
      <3>1. Fine(thread'[t])
        BY <2>1, <2>2, QuietThread
      <3> QED
        BY <2>2, <3>1, OneCarries
    <2> DEFINE Quiet == /\ OnlyMoves(t, thread'[t])
                        /\ thread'[t].pc \notin {"embed", "vectors", "invalidate"}
                        /\ thread'[t].hits \in SUBSET x.hits
    <2>3. ASSUME \/ \E roles \in RoleSets : Query(t, roles)
                 \/ build_seed_index(t) \/ load_from_postgres(t) \/ load_documents(t)
                 \/ load_chunks(t) \/ load_failed(t) \/ publish(t)
                 \/ refresh_knowledge_index(t) \/ ingest_knowledge_index(t)
                 \/ invalidate_index(t) \/ answer(t)
          PROVE  VectorsInv'
      <3>1. UNCHANGED <<db, embedded, overlapped>>
        BY <2>3 DEF Query, build_seed_index, load_from_postgres, load_documents, load_chunks,
                    load_failed, publish, refresh_knowledge_index, ingest_knowledge_index,
                    invalidate_index, answer, Ghosts
      <3>2. Quiet
        <4>1. CASE \E roles \in RoleSets : Query(t, roles)
          BY <1>0, <2>1, <4>1 DEF Query, Step, Goto, ThreadFields, OnlyMoves
        <4>2. CASE build_seed_index(t)
          <5>1. (\E i : thread' = [thread EXCEPT ![t] = [[x EXCEPT !.pc = "serve"] EXCEPT !.index = i]])
                \/ thread' = [thread EXCEPT ![t] = [[x EXCEPT !.pc = "load"] EXCEPT
                                                     !.generation = generation[Local(t)]]]
            BY <4>2, Zenon DEF build_seed_index, Step, Goto
          <5> QED
            BY <1>0, <2>1, <5>1 DEF ThreadFields, OnlyMoves
        <4>3. CASE load_from_postgres(t)
          <5>1. \/ thread' = [thread EXCEPT ![t] = [[x EXCEPT !.pc = "seed"] EXCEPT !.then = "documents"]]
                \/ thread' = [thread EXCEPT ![t] = [x EXCEPT !.pc = "documents"]]
            BY <4>3, Zenon DEF load_from_postgres, Step, Goto
          <5> QED
            BY <1>0, <2>1, <5>1 DEF ThreadFields, OnlyMoves
        <4>4. CASE load_documents(t)
          BY <1>0, <2>1, <4>4 DEF load_documents, Step, Goto, ThreadFields, OnlyMoves
        <4>5. CASE load_chunks(t)
          BY <1>0, <2>1, <4>5 DEF load_chunks, Step, Goto, ThreadFields, OnlyMoves
        <4>6. CASE load_failed(t)
          BY <1>0, <2>1, <4>6 DEF load_failed, Step, Goto, ThreadFields, OnlyMoves
        <4>7. CASE publish(t)
          BY <1>0, <2>1, <4>7 DEF publish, Step, Goto, ThreadFields, OnlyMoves
        <4>8. CASE refresh_knowledge_index(t)
          BY <1>0, <2>1, <4>8 DEF refresh_knowledge_index, Step, Goto, ThreadFields, OnlyMoves
        <4>9. CASE ingest_knowledge_index(t)
          BY <1>0, <2>1, <4>9 DEF ingest_knowledge_index, Step, Goto, ThreadFields, OnlyMoves
        <4>10. CASE invalidate_index(t)
          BY <1>0, <2>1, <4>10 DEF invalidate_index, Step, Goto, ThreadFields, OnlyMoves
        <4>11. CASE answer(t)
          BY <1>0, <2>1, <4>11 DEF answer, Step, Goto, ThreadFields, OnlyMoves, IdleThread
        <4> QED
          BY <2>3, <4>1, <4>2, <4>3, <4>4, <4>5, <4>6, <4>7, <4>8, <4>9, <4>10, <4>11
      <3> QED
        BY <2>2, <3>1, <3>2
    <2>4. CASE seed(t)
      <3>1. /\ thread' = [thread EXCEPT ![t] = [[x EXCEPT !.pc = "embed"] EXCEPT
                                                 !.commit = db.commit + 1]]
            /\ db' = [commit |-> db.commit + 1,
                      vector |-> [c \in ChunkIds |-> kept_vector(c, db.commit + 1)]]
            /\ overlapped' = (overlapped \/ \E u \in Threads \ {t} : ingesting(u))
            /\ embedded' = embedded
        BY <2>4 DEF seed, Step, Goto
      <3>2. OnlyMoves(t, thread'[t]) /\ thread'[t].pc = "embed" /\ thread'[t].hits = x.hits
            /\ thread'[t].commit = db.commit + 1
        BY <1>0, <2>1, <3>1 DEF ThreadFields, OnlyMoves
      <3>3. db'.commit = db.commit + 1 /\ DOMAIN db' = {"commit", "vector"}
            /\ DOMAIN db'.vector = ChunkIds
            /\ \A c \in ChunkIds : db'.vector[c] = kept_vector(c, db.commit + 1)
        BY <3>1
      <3>4. ~overlapped' => ~overlapped /\ \A u \in Threads \ {t} : ~ingesting(u)
        BY <3>1
      <3>5. RowsOK'
        <4>1. ASSUME NEW c \in ChunkIds, Own(db.vector[c], text(c, db.commit))
              PROVE  Own(kept_vector(c, db.commit + 1), text(c, db.commit + 1))
          BY <4>1 DEF Own, kept_vector
        <4>2. ~overlapped' => \A c \in ChunkIds :
                                Own(kept_vector(c, db.commit + 1), text(c, db.commit + 1))
          BY <1>0, <3>4, <4>1 DEF RowsOK
        <4> HIDE DEF x
        <4> QED
          BY <3>3, <4>2 DEF RowsOK, Own, text
      <3>6. StoresOK'
        BY <1>0, <3>1 DEF StoresOK, StoreOK, Own
      <3>7. ASSUME NEW u \in Threads PROVE Carried(thread'[u], db'.commit, ~overlapped')
        <4>1. CASE u = t
          BY <2>1, <3>2, <3>3, <3>4, <4>1 DEF Carried, Fine
        <4>2. CASE u # t
          <5>1. Carried(thread[u], db.commit, ~overlapped) /\ thread'[u] = thread[u]
            BY <1>0, <3>2, <4>2 DEF ThreadsCarry, OnlyMoves
          <5>2. ~overlapped' => thread[u].pc \notin {"embed", "vectors", "invalidate"}
            BY <3>4, <4>2 DEF ingesting
          <5> QED
            BY <3>4, <5>1, <5>2 DEF Carried
        <4> QED
          BY <4>1, <4>2
      <3>8. ThreadsCarry'
        BY <3>7 DEF ThreadsCarry
      <3> QED
        BY <3>5, <3>6, <3>8 DEF VectorsInv
    <2>5. CASE persist_embeddings(t)
      <3> DEFINE texts == [k \in DOMAIN Chunks |-> text(Chunks[k], x.commit)]
                 r == Local(t)
      <3>1. PICK store \in embed_with_cache(embedded[r], texts) :
              /\ embedded' = [embedded EXCEPT ![r] = store]
              /\ thread' = [thread EXCEPT ![t] = [[x EXCEPT !.pc = "vectors"] EXCEPT
                              !.vectors = [k \in DOMAIN Chunks |-> store[texts[k]]]]]
              /\ x.pc = "embed" /\ UNCHANGED <<db, overlapped>>
        BY <2>5, Zenon DEF persist_embeddings, Step, Goto, Ghosts
      <3>2. StoreOK(embedded[r]) /\ DOMAIN texts = 1..Len(Chunks) /\ Len(Chunks) \in Nat
        BY <1>0, <2>1, ChunksAssumption DEF StoresOK
      <3> HIDE DEF texts
      <3>3. StoreOK(store) /\ \A k \in 1..Len(Chunks) : texts[k] \in DOMAIN store
        BY <3>2, EmbedIs
      <3>4. RowsOK'
        BY <1>0, <3>1 DEF RowsOK, Own, text
      <3>5. StoresOK'
        BY <1>0, <2>1, <3>1, <3>3 DEF StoresOK
      <3>6. /\ OnlyMoves(t, thread'[t]) /\ thread'[t].pc = "vectors" /\ thread'[t].hits = x.hits
            /\ thread'[t].commit = x.commit
            /\ thread'[t].vectors = [k \in DOMAIN Chunks |-> store[texts[k]]]
        BY <1>0, <2>1, <3>1 DEF ThreadFields, OnlyMoves
      <3>7. \A k \in DOMAIN Chunks : Own(thread'[t].vectors[k], text(Chunks[k], x.commit))
        <4>1. \A k \in DOMAIN Chunks : texts[k] = text(Chunks[k], x.commit)
          BY DEF texts
        <4> QED
          BY <3>3, <3>6, <4>1, ChunksAssumption DEF StoreOK
      <3>8. Carried(thread'[t], db.commit, ~overlapped)
        BY <2>1, <3>1, <3>6, <3>7 DEF Carried, Fine
      <3>9. ThreadsCarry'
        BY <1>0, <3>1, <3>6, <3>8 DEF ThreadsCarry, OnlyMoves
      <3> QED
        BY <3>4, <3>5, <3>9 DEF VectorsInv
    <2>6. CASE update_vectors(t)
      <3> DEFINE v == [c \in ChunkIds |->
                         LET k == CHOOSE i \in DOMAIN Chunks : Chunks[i] = c
                         IN IF x.vectors[k] # NoVector THEN x.vectors[k] ELSE db.vector[c]]
      <3>1. /\ db' = [db EXCEPT !.vector = v] /\ x.pc = "vectors"
            /\ thread' = [thread EXCEPT ![t] = [[x EXCEPT !.pc = "invalidate"] EXCEPT
                                                 !.vectors = <<>>]]
            /\ embedded' = embedded /\ overlapped' = overlapped
        BY <2>6 DEF update_vectors, Step, Goto, Ghosts
      <3>2. /\ OnlyMoves(t, thread'[t]) /\ thread'[t].pc = "invalidate" /\ thread'[t].hits = x.hits
            /\ thread'[t].commit = x.commit
        BY <1>0, <2>1, <3>1 DEF ThreadFields, OnlyMoves
      <3>3. ASSUME ~overlapped, NEW c \in ChunkIds PROVE Own(v[c], text(c, db.commit))
        <4> DEFINE k == CHOOSE i \in DOMAIN Chunks : Chunks[i] = c
        <4>1. k \in DOMAIN Chunks /\ Chunks[k] = c
          BY DEF ChunkIds
        <4>2. v[c] = IF x.vectors[k] # NoVector THEN x.vectors[k] ELSE db.vector[c]
          OBVIOUS
        <4> HIDE DEF k, v
        <4>3. Own(x.vectors[k], text(c, db.commit))
          BY <2>1, <3>1, <3>3, <4>1 DEF Carried, Fine
        <4>4. Own(db.vector[c], text(c, db.commit))
          BY <1>0, <3>3 DEF RowsOK
        <4> QED
          BY <4>2, <4>3, <4>4 DEF Own
      <3>4. DOMAIN v = ChunkIds
        OBVIOUS
      <3> HIDE DEF v
      <3>5. db'.commit = db.commit /\ db'.vector = v /\ DOMAIN db' = {"commit", "vector"}
        BY <1>0, <3>1 DEF RowsOK
      <3>6. RowsOK'
        BY <3>1, <3>3, <3>4, <3>5 DEF RowsOK, Own, text
      <3>7. StoresOK'
        BY <1>0, <3>1 DEF StoresOK, StoreOK, Own
      <3>8. Carried(thread'[t], db.commit, ~overlapped)
        BY <2>1, <3>1, <3>2 DEF Carried, Fine
      <3>9. ThreadsCarry'
        BY <1>0, <3>1, <3>2, <3>5, <3>8 DEF ThreadsCarry, OnlyMoves
      <3> QED
        BY <3>6, <3>7, <3>9 DEF VectorsInv
    <2>7. CASE embedding_failed(t)
      <3>1. /\ OnlyMoves(t, thread'[t]) /\ thread'[t].pc = "invalidate" /\ thread'[t].hits = x.hits
            /\ thread'[t].commit = x.commit /\ x.pc \in {"embed", "vectors"}
            /\ UNCHANGED <<db, embedded, overlapped>>
        BY <1>0, <2>1, <2>7 DEF embedding_failed, ThreadFields, OnlyMoves, Ghosts
      <3>2. Fine(thread'[t])
        BY <2>1, <3>1 DEF Carried, Fine
      <3> QED
        BY <3>1, <3>2, OneCarries DEF Fine
    <2>8. CASE search_dense(t)
      <3> DEFINE texts == [k \in DOMAIN Chunks |-> text(Chunks[k], x.index.chunks)]
                 r == Local(t)
                 Row(c) == Hit(c, text(c, db.commit), db.vector[c])
                 Ranked(h) == [IdleThread(x.queries) EXCEPT !.pc = "ranked", !.hits = h]
                 rows == {Row(c) : c \in {d \in ChunkIds : db.vector[d] # NoVector}}
                 found(store) == {Hit(Chunks[k], texts[k], store[texts[k]]) :
                                    k \in {i \in DOMAIN Chunks : store[texts[i]] # NoVector}}
      <3>1. /\ UNCHANGED <<db, overlapped>>
            /\ \/ thread' = [thread EXCEPT ![t] = Ranked(rows)] /\ UNCHANGED embedded
               \/ \E store \in embed_with_cache(embedded[r], texts) :
                    /\ embedded' = [embedded EXCEPT ![r] = store]
                    /\ thread' = [thread EXCEPT ![t] = Ranked(found(store))]
        BY <2>8, Zenon DEF search_dense, Step, Ghosts
      <3>2. ASSUME NEW h, thread' = [thread EXCEPT ![t] = Ranked(h)]
            PROVE  OnlyMoves(t, thread'[t]) /\ thread'[t].pc = "ranked" /\ thread'[t].hits = h
        BY <1>0, <3>2 DEF IdleThread, OnlyMoves
      <3>3. RowsOK'
        BY <1>0, <3>1 DEF RowsOK, Own, text
      <3>4. ASSUME NEW h, thread' = [thread EXCEPT ![t] = Ranked(h)],
                   ~overlapped => \A hit \in h : hit.vector = hit.content
            PROVE  ThreadsCarry'
        <4>1. OnlyMoves(t, thread'[t]) /\ thread'[t].pc = "ranked" /\ thread'[t].hits = h
          BY <3>2, <3>4
        <4>2. Carried(thread'[t], db.commit, ~overlapped)
          BY <3>4, <4>1 DEF Carried
        <4> QED
          BY <1>0, <3>1, <4>1, <4>2 DEF ThreadsCarry, OnlyMoves
      <3> HIDE DEF Ranked, texts
      <3>5. CASE thread' = [thread EXCEPT ![t] = Ranked(rows)] /\ UNCHANGED embedded
        <4>1. ASSUME ~overlapped, NEW c \in ChunkIds, db.vector[c] # NoVector
              PROVE  Row(c).vector = Row(c).content
          BY <1>0, <4>1 DEF RowsOK, Own, Hit
        <4> HIDE DEF Row
        <4>2. ~overlapped => \A hit \in rows : hit.vector = hit.content
          BY <4>1
        <4>3. ThreadsCarry'
          BY <3>4, <3>5, <4>2
        <4>4. StoresOK'
          BY <1>0, <3>5 DEF StoresOK, StoreOK, Own
        <4> QED
          BY <3>3, <4>3, <4>4 DEF VectorsInv
      <3>6. ASSUME NEW store \in embed_with_cache(embedded[r], texts),
                   embedded' = [embedded EXCEPT ![r] = store],
                   thread' = [thread EXCEPT ![t] = Ranked(found(store))]
            PROVE  VectorsInv'
        <4>1. StoreOK(embedded[r]) /\ DOMAIN texts = 1..Len(Chunks) /\ Len(Chunks) \in Nat
          BY <1>0, <2>1, ChunksAssumption DEF StoresOK, texts
        <4>2. StoreOK(store) /\ \A k \in 1..Len(Chunks) : texts[k] \in DOMAIN store
          BY <4>1, EmbedIs
        <4>3. \A hit \in found(store) : hit.vector = hit.content
          BY <4>2, ChunksAssumption DEF StoreOK, Own, Hit
        <4>4. ThreadsCarry'
          BY <3>4, <3>6, <4>3
        <4>5. StoresOK'
          BY <1>0, <2>1, <3>6, <4>2 DEF StoresOK
        <4> QED
          BY <3>3, <4>4, <4>5 DEF VectorsInv
      <3> QED
        BY <3>1, <3>5, <3>6
    <2> QED
      BY <1>2, <2>3, <2>4, <2>5, <2>6, <2>7, <2>8
  <1> QED
    BY <1>0, <1>1, <1>2 DEF KnowledgeNext

\* A chunk is ranked by the vector of the text it is shown with, for any chunks,
\* threads and replicas, whatever the provider answers and however queries, seeds
\* and ingests interleave, as long as no two ingests overlap (embedding.py _order,
\* cache.py _plan and _record, knowledge_repository.py seed).
THEOREM RankedByOwnText == KnowledgeSpec => []RankedByItsOwnText
  <1>1. VectorsInv => RankedByItsOwnText
    BY DEF VectorsInv, ThreadsCarry, Carried, RankedByItsOwnText
  <1> QED
    BY <1>1, IndexAlways, VectorsInit, VectorsNext, PTL DEF KnowledgeSpec

(************************** the index: the types **************************)
Places == {"idle", "lookup", "load", "documents", "chunks", "publish", "serve", "ranked", "seed",
           "embed", "vectors", "invalidate"}

\* The type invariant, and the fields of the rows.
KnowledgeTyped ==
  /\ DOMAIN db = {"commit", "vector"} /\ db.commit \in 0..MaxCommits /\ DOMAIN db.vector = ChunkIds
  /\ DOMAIN cache = Replicas /\ \A r \in Replicas : Cardinality(cache[r]) <= 1
  /\ \A t \in Threads : thread[t].pc \in Places
  /\ ticks \in 0..MaxTicks /\ overlapped \in BOOLEAN

\* Only thread t moves, to one of the places.
Goes(t, places) ==
  (\A u \in Threads \ {t} : thread'[u] = thread[u]) /\ thread'[t].pc \in places

\* A replica keeps one index at most.
LEMMA KeptOnce ==
  ASSUME NEW r \in Replicas, DOMAIN cache = Replicas, \A s \in Replicas : Cardinality(cache[s]) <= 1,
         NEW left, \/ left = {} \/ left = cache[r] \/ \E e : left = {e},
         cache' = [cache EXCEPT ![r] = left]
  PROVE  DOMAIN cache' = Replicas /\ \A s \in Replicas : Cardinality(cache'[s]) <= 1
  <1>1. Cardinality(left) <= 1
    <2>1. CASE left = {} \/ left = cache[r]
      BY <2>1, FS_EmptySet
    <2>2. CASE \E e : left = {e}
      <3>1. Cardinality(left) = 1
        BY <2>2, FS_Singleton
      <3> QED
        BY <3>1
    <2> QED
      BY <2>1, <2>2
  <1> QED
    BY <1>1

\* A thread goes on, and leaves rows of the same commit.
LEMMA GoesOn ==
  ASSUME KnowledgeTyped, NEW t \in Threads, Goes(t, Places),
         UNCHANGED <<ticks, overlapped>>,
         DOMAIN db' = {"commit", "vector"}, db'.commit = db.commit, DOMAIN db'.vector = ChunkIds,
         DOMAIN cache' = Replicas, \A r \in Replicas : Cardinality(cache'[r]) <= 1
  PROVE  KnowledgeTyped'
  <1>1. \A u \in Threads : thread'[u].pc \in Places
    BY DEF KnowledgeTyped, Goes
  <1> QED
    BY <1>1 DEF KnowledgeTyped, ChunkIds, Replicas

LEMMA KnowledgeTypedInit == KnowledgeInit => KnowledgeTyped
  <1> SUFFICES ASSUME KnowledgeInit PROVE KnowledgeTyped
    OBVIOUS
  <1>1. /\ DOMAIN db = {"commit", "vector"} /\ db.commit = 0 /\ DOMAIN db.vector = ChunkIds
        /\ ticks = 0 /\ overlapped = FALSE
    BY DEF KnowledgeInit
  <1>2. DOMAIN cache = Replicas /\ \A r \in Replicas : Cardinality(cache[r]) <= 1
    BY FS_EmptySet DEF KnowledgeInit
  <1>3. \A t \in Threads : thread[t].pc \in Places
    BY DEF KnowledgeInit, IdleThread, Places
  <1>4. db.commit \in 0..MaxCommits /\ ticks \in 0..MaxTicks
    BY <1>1, BoundsAssumption
  <1>5. overlapped \in BOOLEAN
    BY <1>1
  <1> QED
    BY <1>1, <1>2, <1>3, <1>4, <1>5 DEF KnowledgeTyped

\* Every step of every thread keeps the types.
LEMMA KnowledgeTypedNext ==
  ASSUME KnowledgeTyped, IndexInv, [KnowledgeNext]_knowledge_vars
  PROVE  KnowledgeTyped'
  <1>1. CASE CacheAges
    <2>1. ticks' \in 0..MaxTicks
      BY <1>1, BoundsAssumption DEF CacheAges, KnowledgeTyped
    <2> QED
      BY <1>1, <2>1 DEF CacheAges, Ghosts, KnowledgeTyped, ChunkIds, Replicas
  <1>2. CASE UNCHANGED knowledge_vars
    BY <1>2 DEF knowledge_vars, KnowledgeTyped, ChunkIds, Replicas
  <1>3. ASSUME NEW t \in Threads,
               \/ \E roles \in RoleSets : Query(t, roles)
               \/ build_seed_index(t) \/ load_from_postgres(t) \/ load_documents(t)
               \/ load_chunks(t) \/ load_failed(t) \/ publish(t)
               \/ refresh_knowledge_index(t) \/ ingest_knowledge_index(t) \/ seed(t)
               \/ persist_embeddings(t) \/ update_vectors(t) \/ embedding_failed(t)
               \/ invalidate_index(t) \/ search_dense(t) \/ answer(t)
        PROVE  KnowledgeTyped'
    <2> DEFINE x == thread[t]
               r == Local(t)
    <2>1. /\ DOMAIN x = ThreadFields /\ x.then \in {"idle", "documents"}
          /\ DOMAIN thread = Threads /\ r \in Replicas
      BY LocalIsReplica DEF IndexInv, Counted, ThreadsGood, Good, Typed
    <2>2. /\ DOMAIN db = {"commit", "vector"} /\ DOMAIN db.vector = ChunkIds
          /\ DOMAIN cache = Replicas /\ \A s \in Replicas : Cardinality(cache[s]) <= 1
      BY DEF KnowledgeTyped
    <2>3. ASSUME Goes(t, Places),
                 UNCHANGED <<db, cache, ticks, overlapped>>
          PROVE  KnowledgeTyped'
      BY <2>1, <2>2, <2>3, GoesOn
    <2>4. ASSUME Goes(t, Places),
                 NEW left, \/ left = {} \/ left = cache[r] \/ \E e : left = {e},
                 cache' = [cache EXCEPT ![r] = left], UNCHANGED <<db, ticks, overlapped>>
          PROVE  KnowledgeTyped'
      <3>1. DOMAIN cache' = Replicas /\ \A s \in Replicas : Cardinality(cache'[s]) <= 1
        BY <2>1, <2>2, <2>4, KeptOnce
      <3> QED
        BY <2>1, <2>2, <2>4, <3>1, GoesOn
    <2>5. ASSUME NEW roles \in RoleSets, Query(t, roles) PROVE KnowledgeTyped'
      <3>1. Goes(t, {"lookup"})
        BY <2>1, <2>5 DEF Goes, Query, Step, Goto, ThreadFields
      <3> QED
        BY <2>3, <2>5, <3>1 DEF Query, Ghosts, Goes, Places
    <2>6. CASE build_seed_index(t)
      <3>1. Goes(t, {"serve", "load"})
        BY <2>1, <2>6 DEF Goes, build_seed_index, Step, Goto, ThreadFields
      <3> QED
        BY <2>3, <2>6, <3>1 DEF build_seed_index, Ghosts, Goes, Places
    <2>7. CASE load_from_postgres(t) \/ load_documents(t) \/ load_chunks(t)
      <3>1. Goes(t, Places)
        BY <2>1, <2>7 DEF Goes, load_from_postgres, load_documents, load_chunks, Step, Goto, ThreadFields, Places
      <3> QED
        BY <2>3, <2>7, <3>1 DEF load_from_postgres, load_documents, load_chunks, Ghosts
    <2>8. CASE load_failed(t)
      <3>1. Goes(t, {"lookup", "publish"})
        BY <2>1, <2>8 DEF Goes, load_failed, ThreadFields
      <3> QED
        BY <2>3, <2>8, <3>1 DEF load_failed, Ghosts, Goes, Places
    <2>9. CASE publish(t)
      <3>1. Goes(t, {"serve"})
        BY <2>1, <2>9 DEF Goes, publish, Step, Goto, ThreadFields
      <3>2. PICK left : /\ left = cache[r] \/ \E e : left = {e}
                        /\ cache' = [cache EXCEPT ![r] = left]
        BY <2>9 DEF publish
      <3> QED
        BY <2>4, <2>9, <3>1, <3>2 DEF publish, Ghosts, Goes, Places
    <2>10. CASE refresh_knowledge_index(t)
      <3>1. Goes(t, {"lookup"})
        BY <2>1, <2>10 DEF Goes, refresh_knowledge_index, Step, Goto, ThreadFields
      <3> QED
        BY <2>4, <2>10, <3>1 DEF refresh_knowledge_index, Ghosts, Goes, Places
    <2>11. CASE ingest_knowledge_index(t)
      <3>1. Goes(t, {"seed"})
        BY <2>1, <2>11 DEF Goes, ingest_knowledge_index, Step, Goto, ThreadFields
      <3> QED
        BY <2>3, <2>11, <3>1 DEF ingest_knowledge_index, Ghosts, Goes, Places
    <2>12. CASE seed(t)
      <3>1. Goes(t, {"embed"})
        <4>1. thread' = [thread EXCEPT ![t] = [[x EXCEPT !.pc = "embed"] EXCEPT !.commit = db.commit + 1]]
          BY <2>12 DEF seed, Step, Goto
        <4> QED
          BY <2>1, <4>1 DEF Goes, ThreadFields
      <3>2. \A u \in Threads : thread'[u].pc \in Places
        BY <2>1, <3>1 DEF KnowledgeTyped, Goes, Places
      <3>3. /\ DOMAIN db' = {"commit", "vector"} /\ db'.commit = db.commit + 1
            /\ DOMAIN db'.vector = ChunkIds
        BY <2>12 DEF seed
      <3>4. db'.commit \in 0..MaxCommits
        BY <2>12, <3>3, BoundsAssumption DEF seed, KnowledgeTyped
      <3>5. overlapped' \in BOOLEAN
        BY <2>12 DEF seed
      <3> QED
        BY <2>2, <2>12, <3>2, <3>3, <3>4, <3>5 DEF seed, KnowledgeTyped, ChunkIds, Replicas
    <2>13. CASE persist_embeddings(t)
      <3>1. Goes(t, {"vectors"})
        BY <2>1, <2>13 DEF Goes, persist_embeddings, Step, Goto, ThreadFields
      <3> QED
        BY <2>3, <2>13, <3>1 DEF persist_embeddings, Ghosts, Goes, Places
    <2>14. CASE update_vectors(t)
      <3>1. Goes(t, {"invalidate"})
        <4>1. thread' = [thread EXCEPT ![t] = [[x EXCEPT !.pc = "invalidate"] EXCEPT !.vectors = <<>>]]
          BY <2>14 DEF update_vectors, Step, Goto
        <4> QED
          BY <2>1, <4>1 DEF Goes, ThreadFields
      <3>2. DOMAIN db' = {"commit", "vector"} /\ db'.commit = db.commit /\ DOMAIN db'.vector = ChunkIds
        BY <2>2, <2>14 DEF update_vectors
      <3> QED
        BY <2>1, <2>2, <2>14, <3>1, <3>2, GoesOn DEF update_vectors, Ghosts, Goes, Places
    <2>15. CASE embedding_failed(t)
      <3>1. Goes(t, {"invalidate"})
        BY <2>1, <2>15 DEF Goes, embedding_failed, ThreadFields
      <3> QED
        BY <2>3, <2>15, <3>1 DEF embedding_failed, Ghosts, Goes, Places
    <2>16. CASE invalidate_index(t)
      <3>1. Goes(t, {"idle", "documents"})
        BY <2>1, <2>16 DEF Goes, invalidate_index, Step, Goto, ThreadFields
      <3> QED
        BY <2>4, <2>16, <3>1 DEF invalidate_index, Goes, Places
    <2>17. CASE search_dense(t) \/ answer(t)
      <3>1. Goes(t, {"ranked", "idle"})
        <4>1. \E y : thread' = [thread EXCEPT ![t] = y] /\ y.pc \in {"ranked", "idle"}
          <5>1. CASE answer(t)
            <6>1. IdleThread(x.queries).pc = "idle"
              BY DEF IdleThread
            <6>2. thread' = [thread EXCEPT ![t] = IdleThread(x.queries)]
              BY <5>1 DEF answer, Step
            <6> QED
              BY <6>1, <6>2
          <5>2. CASE search_dense(t)
            <6>1. \E hits : thread' = [thread EXCEPT ![t] =
                              [IdleThread(x.queries) EXCEPT !.pc = "ranked", !.hits = hits]]
              BY <5>2, Zenon DEF search_dense, Step
            <6>2. \A hits : [IdleThread(x.queries) EXCEPT !.pc = "ranked", !.hits = hits].pc = "ranked"
              BY DEF IdleThread
            <6> QED
              BY <6>1, <6>2
          <5> QED
            BY <2>17, <5>1, <5>2
        <4> QED
          BY <2>1, <4>1 DEF Goes
      <3> QED
        BY <2>3, <2>17, <3>1 DEF search_dense, answer, Ghosts, Goes, Places
    <2> QED
      BY <1>3, <2>5, <2>6, <2>7, <2>8, <2>9, <2>10, <2>11, <2>12, <2>13, <2>14, <2>15, <2>16, <2>17
  <1> QED
    BY <1>1, <1>2, <1>3 DEF KnowledgeNext

\* The rows, the indexes kept, the counters and the threads keep their types, and a
\* replica keeps one index at most (ingest.py _write_index, knowledge_repository.py).
THEOREM KnowledgeIsTyped == KnowledgeSpec => []KnowledgeTypeOK
  <1>1. KnowledgeTyped /\ IndexInv /\ [KnowledgeNext]_knowledge_vars => KnowledgeTyped'
    BY KnowledgeTypedNext
  <1>2. KnowledgeTyped /\ IndexInv => KnowledgeTypeOK
    BY DEF KnowledgeTyped, IndexInv, Counted, KnowledgeTypeOK, Places
  <1> QED
    BY <1>1, <1>2, KnowledgeTypedInit, IndexAlways, PTL DEF KnowledgeSpec

(*************************** what is retrieved ****************************)
\* Chunks the caller may be shown, and the items made of them; tickets likewise.
Shown == {c \in DOMAIN Chunk : doc(c).base \in route_knowledge_bases /\ eligible(doc(c))}
PolicyItems == {PolicyItem(c) : c \in Shown}
TicketsRead == {x \in DOMAIN Tickets : can_access(Tickets[x].roles)}
TicketItems == {TicketItem(x) : x \in TicketsRead}
Allowed(bases) == {c \in DOMAIN Chunk : doc(c).base \in bases /\ doc(c).status = "active"}

\* A chunk is the entry of the list with its id.
LEMMA ChunkIs ==
  /\ \A c \in DOMAIN Chunk : /\ \E k \in DOMAIN ChunkList : ChunkList[k].id = c /\ Chunk[c] = ChunkList[k]
                             /\ Chunk[c].document \in DOMAIN Documents
  /\ \A k \in DOMAIN ChunkList : /\ ChunkList[k].id \in DOMAIN Chunk
                                 /\ Chunk[ChunkList[k].id] = ChunkList[k]
  <1>1. ASSUME NEW k \in DOMAIN ChunkList
        PROVE  ChunkList[k].id \in DOMAIN Chunk /\ Chunk[ChunkList[k].id] = ChunkList[k]
    <2> DEFINE c == ChunkList[k].id
               m == CHOOSE i \in DOMAIN ChunkList : ChunkList[i].id = c
    <2>1. c \in DOMAIN Chunk /\ Chunk[c] = ChunkList[m]
      BY DEF Chunk
    <2>2. m \in DOMAIN ChunkList /\ ChunkList[m].id = c
      OBVIOUS
    <2>3. m = k
      BY <2>2, SearchAssumption
    <2> QED
      BY <2>1, <2>3
  <1>2. \A c \in DOMAIN Chunk : \E k \in DOMAIN ChunkList : ChunkList[k].id = c
    BY DEF Chunk
  <1>3. \A k \in DOMAIN ChunkList : ChunkList[k].document \in DOMAIN Documents
    BY SearchAssumption
  <1> QED
    BY <1>1, <1>2, <1>3

\* A block is of one document.
LEMMA BlockOfOneDocument ==
  ASSUME NEW c \in DOMAIN Chunk, NEW p \in assemble_block(c)
  PROVE  p \in DOMAIN Chunk /\ Chunk[p].document = Chunk[c].document
  <1>1. p = c \/ \E k \in DOMAIN ChunkList :
                   p = ChunkList[k].id /\ ChunkList[k].document = Chunk[c].document
    BY DEF assemble_block
  <1> QED
    BY <1>1, ChunkIs

\* only leaves a list of what it keeps, each of it from the list.
LEMMA OnlyKeeps ==
  ASSUME NEW list, IsList(list), NEW keep
  PROVE  /\ only(list, keep) \in Seq(keep) /\ IsList(only(list, keep))
         /\ ids(only(list, keep)) \subseteq ids(list)
  <1> DEFINE P == {k \in DOMAIN list : list[k] \in keep}
             a == At(list, P)
  <1>1. Len(list) \in Nat /\ DOMAIN list = 1..Len(list)
    BY DEF IsList
  <1>2. P \in SUBSET (1..Len(list))
    BY <1>1
  <1>3. Picked(list, P)
    <2> HIDE DEF P
    <2> QED
      BY <1>1, <1>2, AtPositions
  <1>4. /\ Cardinality(P) \in Nat /\ DOMAIN a = 1..Cardinality(P)
        /\ \A k \in 1..Cardinality(P) : a[k] \in keep /\ a[k] \in ids(list)
    BY <1>3 DEF Picked, ids
  <1>5. a = [k \in 1..Cardinality(P) |-> a[k]]
    BY DEF At, InOrder
  <1> HIDE DEF a, P
  <1>6. a \in [1..Cardinality(P) -> keep] /\ a \in [1..Cardinality(P) -> Range(a)]
    BY <1>4, <1>5 DEF Range
  <1>7. a \in Seq(keep) /\ a \in Seq(Range(a))
    BY <1>4, <1>6, ArrayIsSeq
  <1>8. \A x \in ids(a) : x \in ids(list)
    BY <1>4 DEF ids
  <1>9. only(list, keep) = a
    BY DEF only, a, P
  <1> QED
    BY <1>7, <1>8, <1>9 DEF IsList

LEMMA LeadingTyped ==
  ASSUME NEW S, NEW list \in Seq(S), NEW n \in Nat
  PROVE  /\ leading(list, n) \in Seq(S)
         /\ \A k \in DOMAIN leading(list, n) : k \in DOMAIN list /\ leading(list, n)[k] = list[k]
  <1> DEFINE m == IF Len(list) < n THEN Len(list) ELSE n
  <1>1. Len(list) \in Nat /\ m \in Nat /\ m <= Len(list) /\ DOMAIN list = 1..Len(list)
    OBVIOUS
  <1>2. \A i \in 1..m : list[i] \in S /\ i \in DOMAIN list
    BY <1>1
  <1> HIDE DEF m
  <1>3. /\ SubSeq(list, 1, m) \in Seq(S) /\ Len(SubSeq(list, 1, m)) = m
        /\ \A i \in 1..m : SubSeq(list, 1, m)[i] = list[i]
    BY <1>1, <1>2
  <1>4. leading(list, n) = SubSeq(list, 1, m)
    BY DEF leading, m
  <1>5. DOMAIN SubSeq(list, 1, m) = 1..m
    BY <1>3
  <1> QED
    BY <1>2, <1>3, <1>4, <1>5

\* The score of a chunk is a number.
LEMMA ScoreTyped ==
  ASSUME NEW l, NEW d, IsList(l), IsList(d), NEW c
  PROVE  reciprocal_rank_fusion(<<l, d>>, c) \in Int
  <1> DEFINE one(list) == IF c \in ids(list) THEN 1000000 \div (60 + position(list, c)) ELSE 0
             s == [k \in DOMAIN <<l, d>> |-> one(<<l, d>>[k])]
  <1>1. ASSUME NEW list, IsList(list) PROVE one(list) \in Int
    <2>1. Len(list) \in Nat /\ DOMAIN list = 1..Len(list)
      BY <1>1 DEF IsList
    <2>2. c \in ids(list) => position(list, c) \in Nat
      BY <2>1 DEF ids, position
    <2>3. \A p \in Nat : 1000000 \div (60 + p) \in Int
      OBVIOUS
    <2> QED
      BY <2>2, <2>3
  <1> HIDE DEF one
  <1>2. s = [k \in 1..2 |-> one(<<l, d>>[k])]
    OBVIOUS
  <1>3. \A k \in 1..2 : one(<<l, d>>[k]) \in Int
    BY <1>1
  <1>4. s \in Seq(Int)
    BY <1>2, <1>3
  <1>5. SumOf(s) \in Int
    <2> HIDE DEF s
    <2>1. Len(s) \in Nat
      BY <1>4
    <2> QED
      BY <1>4, <2>1, SumSteps
  <1> QED
    BY <1>5 DEF reciprocal_rank_fusion, one

LEMMA BonusTyped ==
  ASSUME NEW c \in DOMAIN Chunk
  PROVE  bonus(c) \in Int
  <1>1. doc(c).authority \in Int /\ doc(c).until \in Int
    BY ChunkIs, SearchAssumption DEF doc
  <1> QED
    BY <1>1 DEF bonus, Today

LEMMA ComputedIs ==
  ASSUME NEW v
  PROVE  Computed(v) = v
  BY DEF Computed

LEMMA SeqIsList ==
  ASSUME NEW S, NEW s \in Seq(S)
  PROVE  IsList(s) /\ ids(s) \subseteq S
  <1>1. Len(s) \in Nat /\ DOMAIN s = 1..Len(s) /\ s = [k \in 1..Len(s) |-> s[k]]
        /\ \A k \in DOMAIN s : s[k] \in S
    OBVIOUS
  <1>2. s \in [1..Len(s) -> Range(s)]
    BY <1>1 DEF Range
  <1>3. s \in Seq(Range(s))
    BY <1>1, <1>2, ArrayIsSeq
  <1> QED
    BY <1>1, <1>3 DEF IsList, ids

\* The candidates in the order of their scores are the candidates.
LEMMA RerankTyped ==
  ASSUME NEW S \in SUBSET (DOMAIN Chunk), NEW candidates \in Seq(S),
         NEW l, NEW d, IsList(l), IsList(d), NEW ranking, IsList(ranking)
  PROVE  rerank_policy_chunks(<<l, d>>, candidates, ranking) \in Seq(S)
  <1> DEFINE D == DOMAIN candidates
             score == Computed([k \in D |-> reciprocal_rank_fusion(<<l, d>>, candidates[k])])
             total == Computed([k \in D |-> score[k] + bonus(candidates[k])])
             before(j, k) == \/ total[j] > total[k]
                             \/ total[j] = total[k] /\ score[j] > score[k]
                             \/ total[j] = total[k] /\ score[j] = score[k] /\ j < k
             R == {p \in D \X D : before(p[1], p[2])}
             ordered == Computed(InOrder(candidates, D, before))
             n == Cardinality(D)
  <1>1. /\ Len(candidates) \in Nat /\ D = 1..Len(candidates) /\ IsFiniteSet(D) /\ n \in Nat
        /\ \A k \in D : k \in Nat /\ candidates[k] \in S /\ candidates[k] \in DOMAIN Chunk
    <2>1. Len(candidates) \in Nat /\ D = 1..Len(candidates) /\ \A k \in D : candidates[k] \in S
      OBVIOUS
    <2>2. IsFiniteSet(D) /\ n \in Nat
      BY <2>1, FS_Interval, FS_CardinalityType
    <2> QED
      BY <2>1, <2>2
  <1>2. \A k \in D : score[k] \in Int /\ total[k] \in Int
    <2>1. \A k \in D : score[k] \in Int
      BY ScoreTyped, ComputedIs
    <2>2. \A k \in D : bonus(candidates[k]) \in Int
      BY <1>1, BonusTyped
    <2> HIDE DEF score
    <2>3. total = [k \in D |-> score[k] + bonus(candidates[k])]
      BY ComputedIs
    <2> HIDE DEF total
    <2> QED
      BY <2>1, <2>2, <2>3
  <1> HIDE DEF score, total
  <1>3. InLine(D, R)
    <2>1. \A i, j \in D : <<i, j>> \in R <=> before(i, j)
      OBVIOUS
    <2>2. \A i, j \in D : /\ ~before(i, i)
                          /\ i # j => before(i, j) \/ before(j, i)
      BY <1>1, <1>2
    <2>3. \A i, j, k \in D : before(i, j) /\ before(j, k) => before(i, k)
      BY <1>1, <1>2
    <2> HIDE DEF R, before
    <2> QED
      BY <2>1, <2>2, <2>3 DEF InLine
  <1>4. \A i \in D : Before(D, R, i) = {j \in D : before(j, i)}
    BY DEF Before
  <1> HIDE DEF R, before, D
  <1>5. \A k \in 1..n : \E i \in D : Cardinality(Before(D, R, i)) = k - 1
    BY <1>1, <1>3, PlacesInLine
  <1>6. ordered = [k \in 1..n |->
                     candidates[CHOOSE i \in D : Cardinality({j \in D : before(j, i)}) = k - 1]]
    BY ComputedIs DEF InOrder
  <1>7. \A k \in 1..n : \E i \in D : Cardinality({j \in D : before(j, i)}) = k - 1
    BY <1>4, <1>5
  <1>8. ASSUME NEW k \in 1..n
        PROVE  candidates[CHOOSE i \in D : Cardinality({j \in D : before(j, i)}) = k - 1] \in S
    BY <1>1, <1>7
  <1>9. ordered \in Seq(S)
    <2>1. ordered \in [1..n -> S]
      BY <1>6, <1>8
    <2> HIDE DEF ordered
    <2> QED
      BY <1>1, <2>1
  <1>10. rerank_policy_chunks(<<l, d>>, candidates, ranking) = model_rerank(ordered, ranking)
    BY DEF rerank_policy_chunks, ordered, before, score, total, D
  <1> HIDE DEF ordered
  <1>11. model_rerank(ordered, ranking) \in Seq(S)
    <2>1. IsList(ordered) /\ ids(ordered) \subseteq S
      BY <1>9, SeqIsList
    <2> DEFINE a == only(ranking, ids(ordered))
               b == only(ordered, ids(ordered) \ ids(ranking))
    <2>2. a \in Seq(ids(ordered)) /\ b \in Seq(ids(ordered) \ ids(ranking))
      BY <2>1, OnlyKeeps
    <2> HIDE DEF a, b
    <2>3. a \in Seq(S) /\ b \in Seq(S)
      BY <2>1, <2>2
    <2>4. a \o b \in Seq(S)
      BY <2>3
    <2> QED
      BY <1>9, <2>4 DEF model_rerank, a, b
  <1> QED
    BY <1>10, <1>11

LEMMA RetrievedAllowed ==
  ASSUME request \in Requests, NEW bases, NEW n \in Nat
  PROVE  hybrid_retrieve_chunks(bases, n) \in Seq(Allowed(bases))
  <1> DEFINE A == Allowed(bases)
             l == only(request.lexical, A)
             d == only(request.dense, A)
             x == only(d, A \ ids(l))
  <1>1. IsList(request.lexical) /\ IsList(request.dense) /\ IsList(request.ranking)
    BY SearchAssumption
  <1>2. l \in Seq(A) /\ IsList(l) /\ IsList(d) /\ A \in SUBSET (DOMAIN Chunk)
    BY <1>1, OnlyKeeps DEF Allowed
  <1> HIDE DEF A, l, d
  <1>3. x \in Seq(A \ ids(l))
    BY <1>2, OnlyKeeps
  <1> HIDE DEF x
  <1>4. x \in Seq(A)
    BY <1>3
  <1>5. l \o x \in Seq(A)
    BY <1>2, <1>4
  <1>6. rerank_policy_chunks(<<l, d>>, l \o x, request.ranking) \in Seq(A)
    BY <1>1, <1>2, <1>5, RerankTyped
  <1>7. hybrid_retrieve_chunks(bases, n) = leading(rerank_policy_chunks(<<l, d>>, l \o x, request.ranking), n)
    BY DEF hybrid_retrieve_chunks, x, l, d, A, Allowed
  <1>8. leading(rerank_policy_chunks(<<l, d>>, l \o x, request.ranking), n) \in Seq(A)
    BY <1>6, LeadingTyped
  <1> QED
    BY <1>7, <1>8 DEF A

(*************************** choosing the evidence ************************)
AllDistinct(ev) == \A j, k \in DOMAIN ev : ev[j].chunk = ev[k].chunk => j = k
OfDocument(ev, d) == {k \in DOMAIN ev : ev[k].source = d}
Fair(ev) == \A d \in DOMAIN Documents : Cardinality(OfDocument(ev, d)) <= evidence_per_document
PolicyEvidence == {ev \in Seq(PolicyItems) : AllDistinct(ev) /\ Fair(ev)}

\* What ev holds, more holds too.
Lengthens(more, ev) == \A k \in DOMAIN ev : \E m \in DOMAIN more : more[m] = ev[k]
Represents(ev, d) == \E m \in DOMAIN ev : ev[m].source = d
Covers(ev, c) == c \in Shown => Represents(ev, Chunk[c].document)

LEMMA ItemOf ==
  ASSUME NEW e \in PolicyItems
  PROVE  e.chunk \in Shown /\ e = PolicyItem(e.chunk) /\ e.source = Chunk[e.chunk].document
         /\ e.type = "policy" /\ e.source \in DOMAIN Documents
  <1>1. PICK c \in Shown : e = PolicyItem(c)
    BY DEF PolicyItems
  <1>2. e.chunk = c /\ e.source = Chunk[c].document /\ e.type = "policy"
    BY <1>1 DEF PolicyItem
  <1>3. Chunk[c].document \in DOMAIN Documents
    BY ChunkIs DEF Shown
  <1> QED
    BY <1>1, <1>2, <1>3

LEMMA AddOne ==
  ASSUME NEW taken \in PolicyEvidence, NEW c \in DOMAIN Chunk
  PROVE  /\ add_candidate(taken, c) \in PolicyEvidence
         /\ Lengthens(add_candidate(taken, c), taken)
         /\ Covers(add_candidate(taken, c), c)
  <1> DEFINE n == Len(taken)
             d == Chunk[c].document
             new == Append(taken, PolicyItem(c))
             share == Cardinality(OfDocument(taken, d))
             seen == \E k \in DOMAIN taken : taken[k].chunk = c
  <1>1. /\ taken \in Seq(PolicyItems) /\ n \in Nat /\ DOMAIN taken = 1..n
        /\ \A k \in 1..n : taken[k] \in PolicyItems
    BY DEF PolicyEvidence
  <1>2. \A e \in DOMAIN Documents : /\ IsFiniteSet(OfDocument(taken, e))
                                    /\ Cardinality(OfDocument(taken, e)) \in Nat
                                    /\ Cardinality(OfDocument(taken, e)) <= 3
    <2>1. \A e : OfDocument(taken, e) \in SUBSET (1..n) /\ IsFiniteSet(1..n)
      BY <1>1, FS_Interval DEF OfDocument
    <2>2. \A e : IsFiniteSet(OfDocument(taken, e)) /\ Cardinality(OfDocument(taken, e)) \in Nat
      BY <2>1, FS_Subset, FS_CardinalityType
    <2> QED
      BY <2>2 DEF PolicyEvidence, Fair, evidence_per_document
  <1>3. Lengthens(taken, taken)
    BY DEF Lengthens
  <1>4. add_candidate(taken, c) = IF seen \/ c \notin Shown \/ share >= 3 THEN taken ELSE new
    BY DEF add_candidate, Shown, evidence_per_document, OfDocument
  <1>5. d \in DOMAIN Documents
    BY ChunkIs
  <1>6. CASE seen
    <2>1. PICK k \in 1..n : taken[k].chunk = c
      BY <1>1, <1>6
    <2>2. taken[k].source = d
      BY <1>1, <2>1, ItemOf
    <2> QED
      BY <1>1, <1>3, <1>4, <1>6, <2>1, <2>2 DEF Covers, Represents
  <1>7. CASE c \notin Shown
    BY <1>3, <1>4, <1>7 DEF Covers
  <1>8. CASE share >= 3
    <2>1. OfDocument(taken, d) # {}
      BY <1>2, <1>5, <1>8, FS_EmptySet
    <2>2. Represents(taken, d)
      BY <2>1 DEF OfDocument, Represents
    <2> QED
      BY <1>3, <1>4, <1>8, <2>2 DEF Covers
  <1>9. CASE ~seen /\ c \in Shown /\ ~(share >= 3)
    <2>1. PolicyItem(c) \in PolicyItems /\ PolicyItem(c).chunk = c /\ PolicyItem(c).source = d
      BY <1>9 DEF PolicyItems, PolicyItem
    <2>2. /\ new \in Seq(PolicyItems) /\ DOMAIN new = 1..(n+1) /\ new[n+1] = PolicyItem(c)
          /\ \A k \in 1..n : new[k] = taken[k]
      BY <1>1, <2>1
    <2> HIDE DEF new
    <2>3. AllDistinct(new)
      <3>1. \A j, k \in 1..n : taken[j].chunk = taken[k].chunk => j = k
        BY <1>1 DEF PolicyEvidence, AllDistinct
      <3>2. \A k \in 1..n : taken[k].chunk # c
        BY <1>1, <1>9
      <3>3. \A k \in 1..(n+1) : k \in 1..n \/ k = n + 1
        BY <1>1
      <3> QED
        BY <2>1, <2>2, <3>1, <3>2, <3>3 DEF AllDistinct
    <2>4. Fair(new)
      <3> SUFFICES ASSUME NEW e \in DOMAIN Documents PROVE Cardinality(OfDocument(new, e)) <= 3
        BY DEF Fair, evidence_per_document
      <3>1. \A k : k \in 1..(n+1) <=> k \in 1..n \/ k = n + 1
        BY <1>1
      <3>2. CASE e = d
        <4>1. OfDocument(new, e) = OfDocument(taken, e) \cup {n + 1}
          BY <1>1, <2>1, <2>2, <3>1, <3>2 DEF OfDocument
        <4> DEFINE O == OfDocument(taken, e)
        <4>2. IsFiniteSet(O) /\ Cardinality(O) \in Nat /\ ~(Cardinality(O) >= 3)
          BY <1>2, <1>9, <3>2
        <4>5. n + 1 \notin O
          BY <1>1 DEF OfDocument
        <4> HIDE DEF O
        <4>3. Cardinality(O \cup {n + 1}) = Cardinality(O) + 1
          BY <4>5, <4>2, FS_AddElement
        <4> QED
          BY <4>1, <4>2, <4>3 DEF O
      <3>3. CASE e # d
        <4>1. OfDocument(new, e) = OfDocument(taken, e)
          BY <1>1, <2>1, <2>2, <3>1, <3>3 DEF OfDocument
        <4> QED
          BY <1>2, <4>1
      <3> QED
        BY <3>2, <3>3
    <2>5. Lengthens(new, taken) /\ Represents(new, d)
      <3>1. \A k \in 1..n : k \in 1..(n+1)
        BY <1>1
      <3>2. n + 1 \in 1..(n+1)
        BY <1>1
      <3> QED
        BY <1>1, <2>1, <2>2, <3>1, <3>2 DEF Lengthens, Represents
    <2>6. add_candidate(taken, c) = new
      BY <1>4, <1>9
    <2> QED
      BY <2>2, <2>3, <2>4, <2>5, <2>6 DEF PolicyEvidence, Covers
  <1> QED
    BY <1>6, <1>7, <1>8, <1>9

LEMMA ExtendsKeeps ==
  ASSUME NEW a, NEW b, NEW c, Lengthens(b, a), Lengthens(c, b)
  PROVE  Lengthens(c, a) /\ \A d : Represents(b, d) => Represents(c, d)
  BY DEF Lengthens, Represents

\* The share of a run of add_candidate: whatever it starts with, it keeps, and every
\* chunk that may be shown has its document represented in the end.
LEMMA AddAll ==
  ASSUME request \in Requests, NEW taken \in PolicyEvidence, NEW bases, NEW top \in Nat
  PROVE  /\ add_candidates(taken, bases, top) \in PolicyEvidence
         /\ Lengthens(add_candidates(taken, bases, top), taken)
         /\ \A c \in ids(hybrid_retrieve_chunks(bases, top)) :
              /\ c \in Allowed(bases)
              /\ Covers(add_candidates(taken, bases, top), c)
  <1> DEFINE list == hybrid_retrieve_chunks(bases, top)
             n == Len(list)
             S == PolicyEvidence
             one(st, c) == add_candidate(st, c)
             G == [x \in S \X (1..n) |-> one(x[1], list[x[2]])]
             iter == CHOOSE iter : iter = [s \in SUBSET DOMAIN list |->
                       IF s = {} THEN taken ELSE one(iter[s \ {Max(s)}], list[Max(s)])]
  <1>1. /\ n \in Nat /\ DOMAIN list = 1..n
        /\ \A k \in 1..n : list[k] \in Allowed(bases) /\ list[k] \in DOMAIN Chunk
    <2>1. list \in Seq(Allowed(bases))
      BY RetrievedAllowed
    <2> HIDE DEF list
    <2> QED
      BY <2>1 DEF Allowed
  <1>2. add_candidates(taken, bases, top) = iter[DOMAIN list]
    BY DEF add_candidates, FoldLeft, MapThenFoldSet
  <1>3. ASSUME NEW st \in S, NEW k \in 1..n
        PROVE  one(st, list[k]) \in S /\ Lengthens(one(st, list[k]), st) /\ Covers(one(st, list[k]), list[k])
    BY <1>1, AddOne
  <1> HIDE DEF list, S, n, one
  <1>4. G \in [S \X (1..n) -> S]
    BY <1>3
  <1>5. taken \in S
    BY DEF S
  <1>6. PICK g \in [SUBSET (1..n) -> S] : Folds(g, n, taken, G)
    <2> HIDE DEF G
    <2> QED
      BY <1>1, <1>4, <1>5, FoldExists
  <1>7. ASSUME NEW s \in SUBSET (1..n), s # {}
        PROVE  g[s] = one(g[s \ {Max(s)}], list[Max(s)])
    <2>1. Max(s) \in 1..n /\ g[s \ {Max(s)}] \in S
      BY <1>1, <1>7, MaxOf
    <2>2. g[s] = G[<<g[s \ {Max(s)}], Max(s)>>]
      BY <1>6, <1>7 DEF Folds
    <2> QED
      BY <2>1, <2>2
  <1>8. g = [s \in SUBSET DOMAIN list |->
               IF s = {} THEN taken ELSE one(g[s \ {Max(s)}], list[Max(s)])]
    BY <1>1, <1>6, <1>7 DEF Folds
  <1>9. iter = [s \in SUBSET DOMAIN list |->
               IF s = {} THEN taken ELSE one(iter[s \ {Max(s)}], list[Max(s)])]
    BY <1>8
  <1> HIDE DEF iter
  <1>10. Follows(iter, n, taken, G, S)
    <2>1. ASSUME NEW s \in SUBSET (1..n), s # {}, iter[s \ {Max(s)}] \in S
          PROVE  iter[s] = G[<<iter[s \ {Max(s)}], Max(s)>>]
      <3>1. Max(s) \in 1..n
        BY <1>1, <2>1, MaxOf
      <3>2. iter[s] = one(iter[s \ {Max(s)}], list[Max(s)])
        BY <1>1, <1>9, <2>1
      <3> QED
        BY <2>1, <3>1, <3>2
    <2>2. iter[{}] = taken
      BY <1>1, <1>9
    <2> HIDE DEF G
    <2> QED
      BY <2>1, <2>2 DEF Follows
  <1> DEFINE T == {x \in S \X (0..n) : /\ Lengthens(x[1], taken)
                                       /\ \A i \in 1..x[2] : Covers(x[1], list[i])}
  <1>11. <<taken, 0>> \in T
    <2>1. 0 \in 0..n /\ 1..0 = {}
      BY <1>1
    <2>2. Lengthens(taken, taken)
      BY DEF Lengthens
    <2> QED
      BY <1>5, <2>1, <2>2
  <1>12. ASSUME NEW k \in 0..(n-1), NEW st \in S, <<st, k>> \in T
         PROVE  <<G[<<st, k+1>>], k+1>> \in T
    <2>1. k + 1 \in 1..n /\ k + 1 \in 0..n /\ \A i \in 1..(k+1) : i \in 1..k \/ i = k + 1
      BY <1>1
    <2> DEFINE new == one(st, list[k+1])
    <2>2. G[<<st, k+1>>] = new
      BY <2>1
    <2>3. new \in S /\ Lengthens(new, st) /\ Covers(new, list[k+1])
      BY <1>3, <2>1
    <2> HIDE DEF new
    <2>4. Lengthens(st, taken) /\ \A i \in 1..k : Covers(st, list[i])
      BY <1>12
    <2>5. Lengthens(new, taken) /\ \A d : Represents(st, d) => Represents(new, d)
      BY <2>3, <2>4, ExtendsKeeps
    <2>6. \A i \in 1..(k+1) : Covers(new, list[i])
      BY <2>1, <2>3, <2>4, <2>5 DEF Covers
    <2> QED
      BY <2>1, <2>2, <2>3, <2>5, <2>6
  <1>13. iter[1..n] \in S /\ <<iter[1..n], n>> \in T
    <2> HIDE DEF T, G
    <2>1. PassedOn(T, n, taken, G, S)
      BY <1>11, <1>12 DEF PassedOn
    <2> QED
      BY <1>1, <1>4, <1>5, <1>10, <2>1, FoldKeeps
  <1>14. Lengthens(iter[1..n], taken) /\ \A i \in 1..n : Covers(iter[1..n], list[i])
    BY <1>13
  <1>15. \A c \in ids(list) : \E i \in 1..n : c = list[i]
    BY <1>1 DEF ids
  <1> QED
    BY <1>1, <1>2, <1>13, <1>14, <1>15 DEF S, list

\* A base that has something to show has a document among the evidence.
HasEvidence(ev, b) == \E k \in DOMAIN ev : Documents[ev[k].source].base = b
BaseCovered(ev, b) ==
  (\E c \in ids(hybrid_retrieve_chunks({b}, 3)) : eligible(doc(c))) => HasEvidence(ev, b)

LEMMA AddBase ==
  ASSUME request \in Requests, NEW taken \in PolicyEvidence, NEW b \in route_knowledge_bases
  PROVE  /\ add_candidates(taken, {b}, 3) \in PolicyEvidence
         /\ Lengthens(add_candidates(taken, {b}, 3), taken)
         /\ BaseCovered(add_candidates(taken, {b}, 3), b)
  <1> DEFINE new == add_candidates(taken, {b}, 3)
  <1>1. /\ new \in PolicyEvidence /\ Lengthens(new, taken)
        /\ \A c \in ids(hybrid_retrieve_chunks({b}, 3)) : c \in Allowed({b}) /\ Covers(new, c)
    BY AddAll
  <1> HIDE DEF new
  <1>2. ASSUME NEW c \in ids(hybrid_retrieve_chunks({b}, 3)), eligible(doc(c))
        PROVE  HasEvidence(new, b)
    <2>1. c \in DOMAIN Chunk /\ doc(c).base = b
      BY <1>1 DEF Allowed
    <2>2. c \in Shown
      BY <1>2, <2>1 DEF Shown
    <2>3. PICK k \in DOMAIN new : new[k].source = Chunk[c].document
      BY <1>1, <2>2 DEF Covers, Represents
    <2> QED
      BY <2>1, <2>3 DEF HasEvidence, doc
  <1> QED
    BY <1>1, <1>2 DEF BaseCovered, new

LEMMA EmptyEvidence == <<>> \in PolicyEvidence
  <1>1. <<>> \in Seq(PolicyItems) /\ DOMAIN <<>> = {} /\ 0 <= 3
    OBVIOUS
  <1>2. \A d : OfDocument(<<>>, d) = {}
    BY <1>1 DEF OfDocument
  <1>3. Fair(<<>>)
    BY <1>1, <1>2, FS_EmptySet DEF Fair, evidence_per_document
  <1> QED
    BY <1>1, <1>3 DEF PolicyEvidence, AllDistinct

LEMMA JointEvidence ==
  ASSUME request \in Requests
  PROVE  joint_evidence \in PolicyEvidence
  <1>1. <<>> \in PolicyEvidence
    BY EmptyEvidence
  <1>2. request.top_k \in Nat
    BY SearchAssumption
  <1> QED
    BY <1>1, <1>2, AddAll DEF joint_evidence

\* An order of a finite set goes through all of it.
LEMMA OrderCovers ==
  ASSUME NEW S, IsFiniteSet(S), NEW turns \in SetToSeqs(S)
  PROVE  /\ turns \in Seq(S) /\ Len(turns) = Cardinality(S) /\ Cardinality(S) \in Nat
         /\ \A b \in S : \E k \in 1..Cardinality(S) : turns[k] = b
  <1> DEFINE n == Cardinality(S)
  <1>1. n \in Nat /\ IsFiniteSet(1..n) /\ Cardinality(1..n) = n
    <2>1. n \in Nat
      BY FS_CardinalityType
    <2> HIDE DEF n
    <2> QED
      BY <2>1, HowManyPositions
  <1>2. turns \in [1..n -> S] /\ \A i, j \in 1..n : i # j => turns[i] # turns[j]
    BY DEF SetToSeqs
  <1>3. turns \in Injection(1..n, S)
    BY <1>2 DEF Injection, IsInjective
  <1>4. turns \in Surjection(1..n, S)
    BY <1>1, <1>3, FS_Injection
  <1>5. turns \in Seq(S) /\ Len(turns) = n
    BY <1>1, <1>2, ArrayIsSeq
  <1> QED
    BY <1>1, <1>4, <1>5 DEF Surjection

\* Whatever the order of the bases that are left, every base is covered in the end.
LEMMA EvidenceCovers ==
  ASSUME request \in Requests, NEW turns \in SetToSeqs(fallback_bases(joint_evidence))
  PROVE  /\ retrieve_policy_evidence(turns) \in PolicyEvidence
         /\ \A b \in route_knowledge_bases : BaseCovered(retrieve_policy_evidence(turns), b)
  <1> DEFINE joint == joint_evidence
             left == fallback_bases(joint)
             n == Len(turns)
             S == PolicyEvidence
             one(st, b) == add_candidates(st, {b}, 3)
             G == [x \in S \X (1..n) |-> one(x[1], turns[x[2]])]
             iter == CHOOSE iter : iter = [s \in SUBSET DOMAIN turns |->
                       IF s = {} THEN joint ELSE one(iter[s \ {Max(s)}], turns[Max(s)])]
  <1>1. IsFiniteSet(left) /\ left \subseteq route_knowledge_bases
    <2>1. left \in SUBSET (DOMAIN Bases) /\ left \subseteq route_knowledge_bases
      BY DEF fallback_bases, route_knowledge_bases
    <2> HIDE DEF left
    <2> QED
      BY <2>1, FS_Subset, SearchAssumption
  <1>2. /\ n \in Nat /\ DOMAIN turns = 1..n /\ \A k \in 1..n : turns[k] \in route_knowledge_bases
        /\ \A b \in left : \E k \in 1..n : turns[k] = b
    <2> HIDE DEF left
    <2>1. turns \in SetToSeqs(left)
      BY DEF left
    <2>2. /\ turns \in Seq(left) /\ Len(turns) = Cardinality(left)
          /\ \A b \in left : \E k \in 1..Cardinality(left) : turns[k] = b
      BY <1>1, <2>1, OrderCovers
    <2> QED
      BY <1>1, <2>2
  <1>3. retrieve_policy_evidence(turns) = iter[DOMAIN turns]
    BY DEF retrieve_policy_evidence, FoldLeft, MapThenFoldSet
  <1>4. joint \in S
    BY JointEvidence
  <1>5. ASSUME NEW b \in route_knowledge_bases, b \notin left PROVE HasEvidence(joint, b)
    BY <1>5 DEF fallback_bases, HasEvidence
  <1>6. ASSUME NEW st \in S, NEW k \in 1..n
        PROVE  /\ one(st, turns[k]) \in S /\ Lengthens(one(st, turns[k]), st)
               /\ BaseCovered(one(st, turns[k]), turns[k])
    BY <1>2, AddBase
  <1> HIDE DEF joint, left, n, S, one
  <1>7. G \in [S \X (1..n) -> S]
    BY <1>6
  <1>8. PICK g \in [SUBSET (1..n) -> S] : Folds(g, n, joint, G)
    <2> HIDE DEF G
    <2> QED
      BY <1>2, <1>4, <1>7, FoldExists
  <1>9. ASSUME NEW s \in SUBSET (1..n), s # {}
        PROVE  g[s] = one(g[s \ {Max(s)}], turns[Max(s)])
    <2>1. Max(s) \in 1..n /\ g[s \ {Max(s)}] \in S
      BY <1>2, <1>9, MaxOf
    <2>2. g[s] = G[<<g[s \ {Max(s)}], Max(s)>>]
      BY <1>8, <1>9 DEF Folds
    <2> QED
      BY <2>1, <2>2
  <1>10. g = [s \in SUBSET DOMAIN turns |->
               IF s = {} THEN joint ELSE one(g[s \ {Max(s)}], turns[Max(s)])]
    BY <1>2, <1>8, <1>9 DEF Folds
  <1>11. iter = [s \in SUBSET DOMAIN turns |->
               IF s = {} THEN joint ELSE one(iter[s \ {Max(s)}], turns[Max(s)])]
    BY <1>10
  <1> HIDE DEF iter
  <1>12. Follows(iter, n, joint, G, S)
    <2>1. ASSUME NEW s \in SUBSET (1..n), s # {}, iter[s \ {Max(s)}] \in S
          PROVE  iter[s] = G[<<iter[s \ {Max(s)}], Max(s)>>]
      <3>1. Max(s) \in 1..n
        BY <1>2, <2>1, MaxOf
      <3>2. iter[s] = one(iter[s \ {Max(s)}], turns[Max(s)])
        BY <1>2, <1>11, <2>1
      <3> QED
        BY <2>1, <3>1, <3>2
    <2>2. iter[{}] = joint
      BY <1>2, <1>11
    <2> HIDE DEF G
    <2> QED
      BY <2>1, <2>2 DEF Follows
  <1> DEFINE T == {x \in S \X (0..n) : /\ Lengthens(x[1], joint)
                                       /\ \A i \in 1..x[2] : BaseCovered(x[1], turns[i])}
  <1>13. <<joint, 0>> \in T
    <2>1. 0 \in 0..n /\ 1..0 = {}
      BY <1>2
    <2>2. Lengthens(joint, joint)
      BY DEF Lengthens
    <2> QED
      BY <1>4, <2>1, <2>2
  <1>14. ASSUME NEW k \in 0..(n-1), NEW st \in S, <<st, k>> \in T
         PROVE  <<G[<<st, k+1>>], k+1>> \in T
    <2>1. k + 1 \in 1..n /\ k + 1 \in 0..n /\ \A i \in 1..(k+1) : i \in 1..k \/ i = k + 1
      BY <1>2
    <2> DEFINE new == one(st, turns[k+1])
    <2>2. G[<<st, k+1>>] = new
      BY <2>1
    <2>3. new \in S /\ Lengthens(new, st) /\ BaseCovered(new, turns[k+1])
      BY <1>6, <2>1
    <2> HIDE DEF new
    <2>4. Lengthens(st, joint) /\ \A i \in 1..k : BaseCovered(st, turns[i])
      BY <1>14
    <2>5. Lengthens(new, joint)
      BY <2>3, <2>4, ExtendsKeeps
    <2>6. \A b : HasEvidence(st, b) => HasEvidence(new, b)
      BY <2>3 DEF HasEvidence, Lengthens
    <2>7. \A i \in 1..(k+1) : BaseCovered(new, turns[i])
      BY <2>1, <2>3, <2>4, <2>6 DEF BaseCovered
    <2> QED
      BY <2>1, <2>2, <2>3, <2>5, <2>7
  <1>15. iter[1..n] \in S /\ <<iter[1..n], n>> \in T
    <2> HIDE DEF T, G
    <2>1. PassedOn(T, n, joint, G, S)
      BY <1>13, <1>14 DEF PassedOn
    <2> QED
      BY <1>2, <1>4, <1>7, <1>12, <2>1, FoldKeeps
  <1>16. Lengthens(iter[1..n], joint) /\ \A i \in 1..n : BaseCovered(iter[1..n], turns[i])
    BY <1>15
  <1>17. ASSUME NEW b \in route_knowledge_bases PROVE BaseCovered(iter[1..n], b)
    <2>1. CASE b \in left
      BY <1>2, <1>16, <2>1
    <2>2. CASE b \notin left
      <3>1. HasEvidence(joint, b)
        BY <1>5, <2>2
      <3> QED
        BY <1>16, <3>1 DEF HasEvidence, Lengthens, BaseCovered
    <2> QED
      BY <2>1, <2>2
  <1> QED
    BY <1>2, <1>3, <1>15, <1>17 DEF S

(*************************** the tickets found ****************************)
LEMMA OnlyDistinct ==
  ASSUME NEW list, IsList(list), NEW keep,
         \A j, k \in DOMAIN list : list[j] = list[k] => j = k
  PROVE  \A j, k \in DOMAIN only(list, keep) : only(list, keep)[j] = only(list, keep)[k] => j = k
  <1> DEFINE P == {k \in DOMAIN list : list[k] \in keep}
             n == Cardinality(P)
  <1>1. Len(list) \in Nat /\ DOMAIN list = 1..Len(list)
    BY DEF IsList
  <1>2. P \in SUBSET (1..Len(list))
    BY <1>1
  <1>3. Picked(list, P)
    <2> HIDE DEF P
    <2> QED
      BY <1>1, <1>2, AtPositions
  <1>4. only(list, keep) = At(list, P)
    BY DEF only
  <1> HIDE DEF P
  <1>5. ASSUME NEW j \in 1..n, NEW k \in 1..n, At(list, P)[j] = At(list, P)[k] PROVE j = k
    <2>1. Nth(P, j) \in P /\ Nth(P, k) \in P /\ list[Nth(P, j)] = list[Nth(P, k)]
      BY <1>3, <1>5 DEF Picked
    <2>2. Nth(P, j) = Nth(P, k) /\ Nth(P, j) \in Nat
      <3> DEFINE a == Nth(P, j)
                 b == Nth(P, k)
      <3>1. a \in DOMAIN list /\ b \in DOMAIN list /\ list[a] = list[b]
        BY <1>1, <1>2, <2>1
      <3>2. a = b
        <4> HIDE DEF a, b
        <4> QED
          BY <3>1
      <3> QED
        BY <1>1, <3>1, <3>2
    <2>3. j < k => Nth(P, j) < Nth(P, k)
      BY <1>3 DEF Picked
    <2>4. k < j => Nth(P, k) < Nth(P, j)
      BY <1>3 DEF Picked
    <2>5. j \in Int /\ k \in Int
      BY <1>3 DEF Picked
    <2> QED
      BY <2>2, <2>3, <2>4, <2>5
  <1> QED
    BY <1>3, <1>4, <1>5 DEF Picked

LEMMA TicketsFound ==
  ASSUME request \in Requests
  PROVE  /\ investigate_ticket \in Seq(TicketItems)
         /\ \A j, k \in DOMAIN investigate_ticket :
              investigate_ticket[j].chunk = investigate_ticket[k].chunk => j = k
  <1> DEFINE all == only(request.tickets, TicketsRead)
             found == leading(all, 3)
             items == [k \in DOMAIN found |-> TicketItem(found[k])]
  <1>1. IsList(request.tickets)
        /\ \A j, k \in DOMAIN request.tickets : request.tickets[j] = request.tickets[k] => j = k
    BY SearchAssumption
  <1>2. all \in Seq(TicketsRead) /\ \A j, k \in DOMAIN all : all[j] = all[k] => j = k
    BY <1>1, OnlyKeeps, OnlyDistinct
  <1> HIDE DEF all
  <1>3. /\ found \in Seq(TicketsRead)
        /\ \A k \in DOMAIN found : k \in DOMAIN all /\ found[k] = all[k]
    BY <1>2, LeadingTyped
  <1>4. search_similar_tickets = found
    BY DEF search_similar_tickets, TicketsRead, all
  <1> HIDE DEF found
  <1>5. /\ Len(found) \in Nat /\ DOMAIN found = 1..Len(found)
        /\ \A k \in 1..Len(found) : found[k] \in TicketsRead
    BY <1>3
  <1>6. \A x \in TicketsRead : TicketItem(x) \in TicketItems /\ TicketItem(x).chunk = x
    BY DEF TicketItems, TicketItem
  <1>7. /\ items \in [1..Len(found) -> TicketItems]
        /\ \A k \in 1..Len(found) : items[k].chunk = found[k]
    BY <1>5, <1>6
  <1>8. investigate_ticket = IF request.max_steps < 0 THEN <<>> ELSE items
    BY <1>4 DEF investigate_ticket
  <1> HIDE DEF items
  <1>9. items \in Seq(TicketItems) /\ DOMAIN items = 1..Len(found)
    BY <1>5, <1>7
  <1>10. \A j, k \in DOMAIN items : items[j].chunk = items[k].chunk => j = k
    BY <1>2, <1>3, <1>5, <1>7, <1>9
  <1>11. <<>> \in Seq(TicketItems) /\ DOMAIN <<>> = {}
    OBVIOUS
  <1> QED
    BY <1>8, <1>9, <1>10, <1>11

(********************** the invariant of a search run *********************)
Evidence == PolicyItems \cup TicketItems
SearchInv ==
  /\ request \in Requests
  /\ pc \in {"policy", "tickets", "rail", "gate", "done"}
  /\ evidence \in Seq(Evidence)
  /\ pc = "policy" => evidence = <<>>
  /\ pc = "tickets" => evidence \in PolicyEvidence
  /\ NoRepeats
  /\ EveryBaseCovered
  /\ kept \in Seq({e \in Evidence : passes_rail(e)})
  /\ issues \subseteq {"versions", "quarantined", "no policy", "no ticket"}
  /\ steps \in 0..(IF request.max_steps < 0 THEN 0 ELSE request.max_steps + 1)

LEMMA TicketOf ==
  ASSUME NEW e \in TicketItems
  PROVE  e.source \in TicketsRead /\ e.type = "ticket"
  BY DEF TicketItems, TicketItem

\* What the request decides stays as it is.
LEMMA SameRequest ==
  ASSUME request' = request
  PROVE  /\ Shown' = Shown /\ TicketsRead' = TicketsRead /\ Evidence' = Evidence
         /\ PolicyItems' = PolicyItems /\ PolicyEvidence' = PolicyEvidence
         /\ route_knowledge_bases' = route_knowledge_bases /\ asks_policy' = asks_policy
         /\ \A d : eligible(d)' = eligible(d)
         /\ \A b : hybrid_retrieve_chunks({b}, 3)' = hybrid_retrieve_chunks({b}, 3)
         /\ \A e : passes_rail(e)' = passes_rail(e)
  <1>1. route_knowledge_bases' = route_knowledge_bases
    BY DEF route_knowledge_bases, can_access
  <1>2. \A d : eligible(d)' = eligible(d)
    BY DEF eligible, can_access, passes_filters
  <1>3. Shown' = Shown /\ TicketsRead' = TicketsRead
    BY <1>1, <1>2 DEF Shown, TicketsRead, can_access
  <1>4. PolicyItems' = PolicyItems /\ TicketItems' = TicketItems
    BY <1>3 DEF PolicyItems, TicketItems
  <1>5. PolicyEvidence' = PolicyEvidence /\ Evidence' = Evidence
    BY <1>4 DEF PolicyEvidence, Evidence
  <1>6. \A b : hybrid_retrieve_chunks({b}, 3)' = hybrid_retrieve_chunks({b}, 3)
    BY DEF hybrid_retrieve_chunks
  <1>7. asks_policy' = asks_policy /\ \A e : passes_rail(e)' = passes_rail(e)
    BY DEF asks_policy, passes_rail
  <1> QED
    BY <1>1, <1>2, <1>3, <1>4, <1>5, <1>6, <1>7

\* An item of policy evidence in the words of the properties.
LEMMA PolicyNoRepeats ==
  ASSUME NEW ev \in PolicyEvidence
  PROVE  /\ \A j, k \in DOMAIN ev : ev[j].type = ev[k].type /\ ev[j].chunk = ev[k].chunk => j = k
         /\ \A k \in DOMAIN ev : ev[k] \in PolicyItems /\ ev[k].type = "policy"
         /\ \A d \in DOMAIN Documents :
              Cardinality({k \in DOMAIN ev : ev[k].type = "policy" /\ ev[k].source = d})
                <= evidence_per_document
  <1>1. \A k \in DOMAIN ev : ev[k] \in PolicyItems /\ ev[k].type = "policy"
    <2>1. \A k \in DOMAIN ev : ev[k] \in PolicyItems
      BY DEF PolicyEvidence
    <2> QED
      BY <2>1, ItemOf
  <1>2. \A d : {k \in DOMAIN ev : ev[k].type = "policy" /\ ev[k].source = d} = OfDocument(ev, d)
    BY <1>1 DEF OfDocument
  <1> QED
    BY <1>1, <1>2 DEF PolicyEvidence, AllDistinct, Fair

LEMMA FoundTyped ==
  ASSUME SearchInv
  PROVE  /\ Len(evidence) \in Nat /\ DOMAIN evidence = 1..Len(evidence)
         /\ \A k \in DOMAIN evidence : evidence[k] \in Evidence
         /\ \A k \in DOMAIN kept : kept[k] \in Evidence /\ passes_rail(kept[k])
  <1> DEFINE Passing == {e \in Evidence : passes_rail(e)}
  <1>1. evidence \in Seq(Evidence) /\ kept \in Seq(Passing)
    BY DEF SearchInv
  <1>2. \A e \in Passing : e \in Evidence /\ passes_rail(e)
    OBVIOUS
  <1> HIDE DEF Passing
  <1>3. \A k \in DOMAIN kept : kept[k] \in Passing
    BY <1>1
  <1> QED
    BY <1>1, <1>2, <1>3

LEMMA SearchInitInv == SearchInit => SearchInv
  <1> SUFFICES ASSUME SearchInit PROVE SearchInv
    OBVIOUS
  <1>1. /\ request \in Requests /\ pc = "policy" /\ evidence = <<>> /\ kept = <<>>
        /\ issues = {} /\ steps = 0
    BY DEF SearchInit
  <1>2. DOMAIN <<>> = {} /\ \A T : <<>> \in Seq(T)
    OBVIOUS
  <1>3. NoRepeats
    <2>1. 0 <= 3
      OBVIOUS
    <2>2. \A d : {k \in DOMAIN evidence : evidence[k].type = "policy" /\ evidence[k].source = d} = {}
      BY <1>1, <1>2
    <2>3. \A d : Cardinality({k \in DOMAIN evidence : evidence[k].type = "policy"
                                                     /\ evidence[k].source = d}) <= 3
      BY <2>1, <2>2, FS_EmptySet
    <2> QED
      BY <1>1, <1>2, <2>3 DEF NoRepeats, evidence_per_document
  <1>4. EveryBaseCovered
    BY <1>1 DEF EveryBaseCovered
  <1>5. steps \in 0..(IF request.max_steps < 0 THEN 0 ELSE request.max_steps + 1)
    <2>1. request.max_steps \in Int
      BY <1>1, SearchAssumption
    <2> QED
      BY <1>1, <2>1
  <1> QED
    BY <1>1, <1>2, <1>3, <1>4, <1>5 DEF SearchInv

\* What covers the bases covers them while the request stays and no item goes.
LEMMA CoveredStays ==
  ASSUME EveryBaseCovered, request' = request, pc' # "policy" => pc # "policy",
         \A e \in Items("policy") : e \in Items("policy")'
  PROVE  EveryBaseCovered'
  <1>1. /\ asks_policy' = asks_policy /\ route_knowledge_bases' = route_knowledge_bases
        /\ \A d : eligible(d)' = eligible(d)
        /\ \A b : hybrid_retrieve_chunks({b}, 3)' = hybrid_retrieve_chunks({b}, 3)
    BY SameRequest
  <1>2. ASSUME asks_policy, pc' # "policy", NEW b \in route_knowledge_bases,
               NEW c \in ids(hybrid_retrieve_chunks({b}, 3)), eligible(doc(c))
        PROVE  \E e \in Items("policy")' : Documents[e.source].base = b
    <2>1. PICK e \in Items("policy") : Documents[e.source].base = b
      BY <1>2 DEF EveryBaseCovered
    <2> QED
      BY <2>1
  <1> QED
    BY <1>1, <1>2 DEF EveryBaseCovered

\* The search of the bases.
LEMMA SearchPolicyInv ==
  ASSUME SearchInv, SearchPolicy
  PROVE  SearchInv'
  <1>1. /\ request \in Requests /\ request' = request /\ pc = "policy" /\ pc' = "tickets"
        /\ kept' = kept /\ steps' = steps /\ evidence = <<>>
    BY DEF SearchInv, SearchPolicy
  <1>2. /\ \A d : eligible(d)' = eligible(d) /\ route_knowledge_bases' = route_knowledge_bases
        /\ PolicyEvidence' = PolicyEvidence /\ Evidence' = Evidence /\ asks_policy' = asks_policy
        /\ \A b : hybrid_retrieve_chunks({b}, 3)' = hybrid_retrieve_chunks({b}, 3)
        /\ \A e : passes_rail(e)' = passes_rail(e)
    BY <1>1, SameRequest
  <1>3. issues' \subseteq {"versions", "quarantined", "no policy", "no ticket"}
    BY DEF SearchInv, SearchPolicy
  <1>4. steps' \in 0..(IF request'.max_steps < 0 THEN 0 ELSE request'.max_steps + 1)
    BY <1>1 DEF SearchInv
  <1>5. kept' \in Seq({e \in Evidence' : passes_rail(e)'})
    <2>1. {e \in Evidence' : passes_rail(e)'} = {e \in Evidence : passes_rail(e)}
      BY <1>2
    <2> QED
      BY <1>1, <2>1 DEF SearchInv
  <1>6. /\ evidence' \in PolicyEvidence
        /\ asks_policy => \A b \in route_knowledge_bases : BaseCovered(evidence', b)
    <2>1. CASE asks_policy /\ route_knowledge_bases # {}
      <3>1. PICK turns \in SetToSeqs(fallback_bases(joint_evidence)) :
              evidence' = retrieve_policy_evidence(turns)
        BY <2>1 DEF SearchPolicy
      <3> QED
        BY <1>1, <3>1, EvidenceCovers
    <2>2. CASE ~(asks_policy /\ route_knowledge_bases # {})
      <3>1. evidence' = <<>>
        BY <1>1, <2>2 DEF SearchPolicy
      <3>2. <<>> \in PolicyEvidence
        BY EmptyEvidence
      <3> QED
        BY <2>2, <3>1, <3>2
    <2> QED
      BY <2>1, <2>2
  <1>7. evidence' \in Seq(Evidence)
    BY <1>6 DEF PolicyEvidence, Evidence
  <1>8. NoRepeats'
    BY <1>6, PolicyNoRepeats DEF NoRepeats
  <1>9. EveryBaseCovered'
    <2>1. ASSUME asks_policy, NEW b \in route_knowledge_bases,
                 \E c \in ids(hybrid_retrieve_chunks({b}, 3)) : eligible(doc(c))
          PROVE  \E e \in Items("policy")' : Documents[e.source].base = b
      <3>1. PICK k \in DOMAIN evidence' : Documents[evidence'[k].source].base = b
        BY <1>6, <2>1 DEF BaseCovered, HasEvidence
      <3>2. evidence'[k].type = "policy"
        BY <1>6, PolicyNoRepeats
      <3> QED
        BY <3>1, <3>2 DEF Items
    <2> QED
      BY <1>2, <2>1 DEF EveryBaseCovered
  <1> QED
    BY <1>1, <1>2, <1>3, <1>4, <1>5, <1>6, <1>7, <1>8, <1>9 DEF SearchInv

\* The items of the tickets come after those of the policies.
LEMMA SearchTicketsInv ==
  ASSUME SearchInv, SearchTickets
  PROVE  SearchInv'
  <1> DEFINE inv == investigate_ticket
             n == Len(evidence)
             m == Len(inv)
  <1>1. /\ request \in Requests /\ request' = request /\ pc = "tickets" /\ pc' = "rail"
        /\ kept' = kept /\ issues' = issues /\ evidence \in PolicyEvidence
        /\ request.max_steps \in Int
    BY SearchAssumption DEF SearchInv, SearchTickets
  <1>2. /\ \A d : eligible(d)' = eligible(d) /\ route_knowledge_bases' = route_knowledge_bases
        /\ Evidence' = Evidence /\ asks_policy' = asks_policy
        /\ \A b : hybrid_retrieve_chunks({b}, 3)' = hybrid_retrieve_chunks({b}, 3)
        /\ \A e : passes_rail(e)' = passes_rail(e)
    BY <1>1, SameRequest
  <1>3. steps' \in 0..(IF request'.max_steps < 0 THEN 0 ELSE request'.max_steps + 1)
    <2> DEFINE most == request.max_steps
    <2>1. steps \in 0..(IF most < 0 THEN 0 ELSE most + 1)
      BY DEF SearchInv
    <2>2. \/ steps' = steps \/ steps' = 0
          \/ most >= 0 /\ steps' \in {IF most = 0 THEN 1 ELSE most, most + 1}
      BY <1>1 DEF SearchTickets, investigation_steps
    <2>3. request'.max_steps = most /\ most \in Int
      BY <1>1
    <2> HIDE DEF most
    <2> QED
      BY <2>1, <2>2, <2>3
  <1>4. kept' \in Seq({e \in Evidence' : passes_rail(e)'})
    <2>1. {e \in Evidence' : passes_rail(e)'} = {e \in Evidence : passes_rail(e)}
      BY <1>2
    <2> QED
      BY <1>1, <2>1 DEF SearchInv
  <1>5. /\ inv \in Seq(TicketItems) /\ \A j, k \in DOMAIN inv : inv[j].chunk = inv[k].chunk => j = k
    BY <1>1, TicketsFound
  <1> HIDE DEF inv
  <1>6. /\ n \in Nat /\ DOMAIN evidence = 1..n /\ m \in Nat /\ DOMAIN inv = 1..m
        /\ \A k \in 1..n : evidence[k] \in PolicyItems /\ evidence[k].type = "policy"
        /\ \A k \in 1..m : inv[k] \in TicketItems /\ inv[k].type = "ticket"
    <2>1. evidence \in Seq(PolicyItems)
      BY <1>1 DEF PolicyEvidence
    <2>2. \A k \in 1..n : evidence[k].type = "policy"
      BY <1>1, <2>1, PolicyNoRepeats
    <2>3. \A k \in DOMAIN inv : inv[k] \in TicketItems
      BY <1>5
    <2>4. \A k \in DOMAIN inv : inv[k].type = "ticket"
      BY <2>3, TicketOf
    <2> QED
      BY <1>5, <2>1, <2>2, <2>3, <2>4
  <1>7. CASE ~asks_tickets
    <2>1. evidence' = evidence
      BY <1>7 DEF SearchTickets
    <2>2. NoRepeats' /\ EveryBaseCovered'
      <3>1. EveryBaseCovered'
        <4>1. EveryBaseCovered
          BY DEF SearchInv
        <4>2. \A e \in Items("policy") : e \in Items("policy")'
          BY <2>1 DEF Items
        <4> QED
          BY <1>1, <4>1, <4>2, CoveredStays
      <3> QED
        BY <2>1, <3>1 DEF SearchInv, NoRepeats
    <2>3. evidence' \in Seq(Evidence')
      BY <1>2, <2>1 DEF SearchInv
    <2> QED
      BY <1>1, <1>3, <1>4, <2>2, <2>3 DEF SearchInv
  <1>8. CASE asks_tickets
    <2>1. evidence' = evidence \o inv
      BY <1>8 DEF SearchTickets, inv
    <2>2. /\ evidence' \in Seq(Evidence) /\ DOMAIN evidence' = 1..(n+m)
          /\ \A k \in 1..n : evidence'[k] = evidence[k]
          /\ \A k \in (n+1)..(n+m) : evidence'[k] = inv[k-n] /\ k - n \in 1..m
      <3>1. TicketItems \subseteq Evidence /\ evidence \in Seq(Evidence)
        BY DEF Evidence, SearchInv
      <3>2. inv \in Seq(Evidence)
        BY <1>5, <3>1
      <3> HIDE DEF Evidence
      <3> QED
        BY <1>6, <2>1, <3>1, <3>2
    <2>3. \A k \in DOMAIN evidence' :
            \/ k \in 1..n /\ evidence'[k].type = "policy"
            \/ k \in (n+1)..(n+m) /\ evidence'[k].type = "ticket"
      <3>1. \A k \in 1..(n+m) : k \in 1..n \/ k \in (n+1)..(n+m)
        BY <1>6
      <3>2. \A k \in 1..n : evidence'[k].type = "policy"
        BY <1>6, <2>2
      <3>3. \A k \in (n+1)..(n+m) : evidence'[k].type = "ticket"
        BY <1>6, <2>2
      <3> QED
        BY <2>2, <3>1, <3>2, <3>3
    <2>4. ASSUME NEW j \in DOMAIN evidence', NEW k \in DOMAIN evidence',
                 evidence'[j].type = evidence'[k].type, evidence'[j].chunk = evidence'[k].chunk
          PROVE  j = k
      <3>1. CASE j \in 1..n /\ k \in 1..n
        <4>1. /\ j \in DOMAIN evidence /\ k \in DOMAIN evidence
              /\ evidence[j].type = evidence[k].type /\ evidence[j].chunk = evidence[k].chunk
          BY <1>6, <2>2, <2>4, <3>1
        <4> QED
          BY <1>1, <4>1, PolicyNoRepeats
      <3>2. CASE j \in (n+1)..(n+m) /\ k \in (n+1)..(n+m)
        <4>2. /\ j - n \in DOMAIN inv /\ k - n \in DOMAIN inv
              /\ inv[j-n].chunk = inv[k-n].chunk
          BY <1>6, <2>2, <2>4, <3>2
        <4>1. j - n = k - n
          BY <1>5, <4>2
        <4> QED
          BY <1>6, <3>2, <4>1
      <3> QED
        BY <2>3, <2>4, <3>1, <3>2
    <2>5. ASSUME NEW d \in DOMAIN Documents
          PROVE  Cardinality({k \in DOMAIN evidence' : evidence'[k].type = "policy"
                                                     /\ evidence'[k].source = d})
                   <= evidence_per_document
      <3>1. {k \in DOMAIN evidence' : evidence'[k].type = "policy" /\ evidence'[k].source = d}
              = {k \in DOMAIN evidence : evidence[k].type = "policy" /\ evidence[k].source = d}
        <4>1. \A k \in 1..n : k \in 1..(n+m)
          BY <1>6
        <4> QED
          BY <1>6, <2>2, <2>3, <4>1
      <3> QED
        BY <1>1, <3>1, PolicyNoRepeats
    <2>6. NoRepeats'
      BY <2>4, <2>5 DEF NoRepeats
    <2>7. \A e \in Items("policy") : e \in Items("policy")'
      <3>1. \A k \in 1..n : k \in 1..(n+m)
        BY <1>6
      <3> QED
        BY <1>6, <2>2, <3>1 DEF Items
    <2>8. EveryBaseCovered'
      <3>1. EveryBaseCovered
        BY DEF SearchInv
      <3> QED
        BY <1>1, <2>7, <3>1, CoveredStays
    <2> QED
      BY <1>1, <1>2, <1>3, <1>4, <2>2, <2>6, <2>8 DEF SearchInv
  <1> QED
    BY <1>7, <1>8

\* What is kept has passed the rail.
LEMMA RailInv ==
  ASSUME SearchInv, apply_retrieval_rail
  PROVE  SearchInv'
  <1> DEFINE P == {k \in DOMAIN evidence : passes_rail(evidence[k])}
             Passing == {e \in Evidence : passes_rail(e)}
  <1>1. /\ request \in Requests /\ request' = request /\ pc = "rail" /\ pc' = "gate"
        /\ evidence' = evidence /\ steps' = steps /\ kept' = At(evidence, P)
    BY DEF SearchInv, apply_retrieval_rail
  <1>2. /\ \A d : eligible(d)' = eligible(d) /\ route_knowledge_bases' = route_knowledge_bases
        /\ Evidence' = Evidence /\ asks_policy' = asks_policy
        /\ \A b : hybrid_retrieve_chunks({b}, 3)' = hybrid_retrieve_chunks({b}, 3)
        /\ \A e : passes_rail(e)' = passes_rail(e)
    BY <1>1, SameRequest
  <1>3. At(evidence, P) \in Seq(Passing)
    <2>1. /\ Len(evidence) \in Nat /\ DOMAIN evidence = 1..Len(evidence)
          /\ \A k \in DOMAIN evidence : evidence[k] \in Evidence
      BY FoundTyped
    <2>2. P \in SUBSET (1..Len(evidence)) /\ \A k \in P : evidence[k] \in Passing
      BY <2>1
    <2> HIDE DEF P, Passing
    <2>3. Picked(evidence, P)
      BY <2>1, <2>2, AtPositions
    <2>4. /\ Cardinality(P) \in Nat /\ \A k \in 1..Cardinality(P) : At(evidence, P)[k] \in Passing
      BY <2>2, <2>3 DEF Picked
    <2>5. At(evidence, P) = [k \in 1..Cardinality(P) |-> At(evidence, P)[k]]
      BY DEF At, InOrder
    <2>6. At(evidence, P) \in [1..Cardinality(P) -> Passing]
      <3> HIDE DEF At
      <3> QED
        BY <2>4, <2>5
    <2> QED
      BY <2>4, <2>6, ArrayIsSeq
  <1>4. kept' \in Seq({e \in Evidence' : passes_rail(e)'})
    <2>1. {e \in Evidence' : passes_rail(e)'} = Passing
      BY <1>2
    <2> QED
      BY <1>1, <1>3, <2>1
  <1>5. issues' \subseteq {"versions", "quarantined", "no policy", "no ticket"}
    BY DEF SearchInv, apply_retrieval_rail
  <1>6. steps' \in 0..(IF request'.max_steps < 0 THEN 0 ELSE request'.max_steps + 1)
    BY <1>1 DEF SearchInv
  <1>7. NoRepeats'
    BY <1>1 DEF SearchInv, NoRepeats
  <1>8. EveryBaseCovered'
    <2>1. EveryBaseCovered
      BY DEF SearchInv
    <2>2. \A e \in Items("policy") : e \in Items("policy")'
      BY <1>1 DEF Items
    <2> QED
      BY <1>1, <2>1, <2>2, CoveredStays
  <1>9. evidence' \in Seq(Evidence')
    BY <1>1, <1>2 DEF SearchInv
  <1> QED
    BY <1>1, <1>4, <1>5, <1>6, <1>7, <1>8, <1>9 DEF SearchInv

\* The gate, and a step that changes nothing, leave the evidence alone.
LEMMA RestInv ==
  ASSUME SearchInv, gate_evidence \/ UNCHANGED search_vars
  PROVE  SearchInv'
  <1>1. /\ request \in Requests /\ request' = request /\ evidence' = evidence /\ kept' = kept
        /\ steps' = steps /\ pc' \in {"policy", "tickets", "rail", "gate", "done"}
        /\ pc' = pc \/ (pc = "gate" /\ pc' = "done")
    <2>1. request \in Requests /\ pc \in {"policy", "tickets", "rail", "gate", "done"}
      BY DEF SearchInv
    <2> QED
      BY <2>1 DEF gate_evidence, search_vars
  <1>2. /\ \A d : eligible(d)' = eligible(d) /\ route_knowledge_bases' = route_knowledge_bases
        /\ Evidence' = Evidence /\ asks_policy' = asks_policy /\ PolicyEvidence' = PolicyEvidence
        /\ \A b : hybrid_retrieve_chunks({b}, 3)' = hybrid_retrieve_chunks({b}, 3)
        /\ \A e : passes_rail(e)' = passes_rail(e)
    BY <1>1, SameRequest
  <1>3. issues' \subseteq {"versions", "quarantined", "no policy", "no ticket"}
    BY DEF SearchInv, gate_evidence, search_vars
  <1>4. steps' \in 0..(IF request'.max_steps < 0 THEN 0 ELSE request'.max_steps + 1)
    BY <1>1 DEF SearchInv
  <1>5. kept' \in Seq({e \in Evidence' : passes_rail(e)'})
    <2>1. {e \in Evidence' : passes_rail(e)'} = {e \in Evidence : passes_rail(e)}
      BY <1>2
    <2> QED
      BY <1>1, <2>1 DEF SearchInv
  <1>6. NoRepeats'
    BY <1>1 DEF SearchInv, NoRepeats
  <1>7. EveryBaseCovered'
    <2>1. EveryBaseCovered
      BY DEF SearchInv
    <2>2. \A e \in Items("policy") : e \in Items("policy")'
      BY <1>1 DEF Items
    <2> QED
      BY <1>1, <2>1, <2>2, CoveredStays
  <1>8. /\ evidence' \in Seq(Evidence') /\ (pc' = "policy" => evidence' = <<>>)
        /\ (pc' = "tickets" => evidence' \in PolicyEvidence')
    BY <1>1, <1>2 DEF SearchInv
  <1> QED
    BY <1>1, <1>3, <1>4, <1>5, <1>6, <1>7, <1>8 DEF SearchInv

LEMMA SearchKeepsInv == SearchSpec => []SearchInv
  <1>1. SearchInv /\ [SearchNext]_search_vars => SearchInv'
    BY SearchPolicyInv, SearchTicketsInv, RailInv, RestInv DEF SearchNext
  <1> QED
    BY <1>1, SearchInitInv, PTL DEF SearchSpec

\* The evidence of every run, for any index, channels, ranking and roles: of active
\* documents the caller may read and that were in force, no chunk twice, no document
\* over its share, no base left out that has something to show; and what the rail
\* held back stays out of the prompt (policy_search.py, pipeline.py run_retrieval).
THEOREM EvidenceSound == SearchSpec => []EvidenceIsSound
  <1>1. ASSUME SearchInv PROVE OnlyEligible
    <2>1. ASSUME NEW e \in Items("policy")
          PROVE  /\ Documents[e.source].base \in route_knowledge_bases /\ eligible(Documents[e.source])
                 /\ \A c \in e.parts : Chunk[c].document = e.source
      <3>1. e \in Evidence /\ e.type = "policy"
        BY <1>1, FoundTyped DEF Items
      <3>2. e \in PolicyItems
        BY <3>1, TicketOf DEF Evidence
      <3>3. e.chunk \in Shown /\ e = PolicyItem(e.chunk) /\ e.source = Chunk[e.chunk].document
        BY <3>2, ItemOf
      <3>4. e.parts = assemble_block(e.chunk)
        BY <3>3 DEF PolicyItem
      <3>5. \A c \in e.parts : Chunk[c].document = e.source
        BY <3>3, <3>4, BlockOfOneDocument DEF Shown
      <3> QED
        BY <3>3, <3>5 DEF Shown, doc
    <2>2. ASSUME NEW e \in Items("ticket") PROVE can_access(Tickets[e.source].roles)
      <3>1. e \in Evidence /\ e.type = "ticket"
        BY <1>1, FoundTyped DEF Items
      <3>2. e \in TicketItems
        BY <3>1, ItemOf DEF Evidence
      <3> QED
        BY <3>2, TicketOf DEF TicketsRead
    <2> QED
      BY <2>1, <2>2 DEF OnlyEligible
  <1>2. ASSUME SearchInv PROVE QuarantineHolds
    <2>1. \A k \in DOMAIN kept : kept[k].parts \cap request.flagged = {}
      BY <1>2, FoundTyped DEF passes_rail
    <2> QED
      BY <2>1 DEF QuarantineHolds, evidence_in_prompt
  <1>3. SearchInv => NoRepeats /\ EveryBaseCovered
    BY DEF SearchInv
  <1>4. SearchInv => EvidenceIsSound
    BY <1>1, <1>2, <1>3 DEF EvidenceIsSound
  <1> QED
    BY <1>4, SearchKeepsInv, PTL

\* Every variable of a run keeps its type (pipeline.py run_retrieval).
THEOREM SearchTyped == SearchSpec => []SearchTypeOK
  <1>1. ASSUME SearchInv PROVE SearchTypeOK
    <2>1. \A k \in DOMAIN evidence : evidence[k] \in Evidence
      BY <1>1, FoundTyped
    <2>2. \A e \in Evidence : e.type \in {"policy", "ticket"}
      BY ItemOf, TicketOf DEF Evidence
    <2> QED
      BY <1>1, <2>1, <2>2 DEF SearchInv, SearchTypeOK
  <1> QED
    BY <1>1, SearchKeepsInv, PTL
=============================================================================
