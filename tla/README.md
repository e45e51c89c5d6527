# Sky-chat: a formal model

TLA+ specifications of the parts of Sky-chat that have to survive crashes,
retries, timeouts and two services writing one row, and of the agent's own core:
its tool loop, intent routing, high-risk workflow, context budget, knowledge
index and retrieval; TLC configurations that check them on small instances; and
theorems, checked by TLAPS, that hold for every value of the constants. Paths are relative to `src/`;
`agent-service/app/` is written `app/`, `java-service/src/main/java/com/skychat/`
is written `java/`.

Contents: 1 the system, 2 the modules and how they correspond to the code,
3 runs, bounds and fairness, 4 proofs, 5 what does not hold, 6 what is not
modelled, 7 plan.

## 1. The system

Three programs: `front-service` (the web client), `java-service` (accounts,
conversations, tickets, approvals, the stream to the client) and
`agent-service` (a LangGraph agent that calls tools). The two services share a
PostgreSQL database: the table `approval_task` is written by both
(`java-service/src/main/resources/schema.sql:69`).

| Component | State | Operations | Talks to | What makes it correct |
|---|---|---|---|---|
| Effect ledger, `app/core/effect_ledger.py` + four statements of `postgres_repository.py` | row of `effect_ledger` per effect; per process a cache and an `asyncio.Lock` per key | `run_once`, takeover of an expired lease | called by the tool loop, confirmed writes, approved actions; wraps the tool adapter | a write is not carried out twice at once, nor again after a success; a crashed attempt does not block it for ever |
| Ticket adapter and retry policy, `app/tools/adapters/ticket.py`, `app/tools/resilience.py` | none (the idempotency key is derived from the effect key) | `execute` | HTTP to the Java tool controller | never a made-up success; a write is not resent once it may have landed |
| Tool delivery, `java/controller/InternalToolController.java`, `java/service/ToolIdempotencyService.java` | row of `agent_tool_idempotency` per key | `invokeTool`: replay, execute, record; sweep | called by the adapter, on a thread pool | a repeated delivery is answered from the record |
| Approvals, `app/persistence/approval_store.py`, `app/services/approval_resume.py`, `app/services/resume_reconciler.py`, `app/graph/runner.py`, `app/api/routes/approvals.py`, `workflows.py`; `java/service/Approval*.java`, `WorkflowResumeClient.java`, `java/controller/ApprovalController.java` | row of `approval_task`; the LangGraph thread; an in-process guard in Java | decide, claim, resume, mark, reconcile, in both services | Java to agent over HTTP, both to the shared row | the first decision stands; the run is taken on with it; every decision is delivered or found undeliverable; a recorded success was applied |
| Run events, `java/service/RunEventStore.java`, `ChatStreamService.java`, `RunController.java` | per run a buffer of events, a sink, a status | append, complete, fail, cancel, replay, evict | agent stream in, SSE out | a client that reconnects sees each event once, or is told what is missing |
| Agent gateway, `java/service/AgentGatewayClient.java`, `AgentCircuitBreaker.java` | breaker state | allow, record | in front of the agent's stream | one probe at a time; the breaker closes again |
| Tool layer, `app/tools/catalog.py`, `calling.py`, `failures.py`, `resilience.py`, `app/core/guardrails.py`, `app/registry/rbac.py` | breaker per tool: failures, time of opening | tiers, permissions, rails, retry, failure codes and advice, assembly of streamed calls | in front of every tool | a call is whole, allowed and screened; a failure is told apart from an unknown effect; a dependency that is down is left alone |
| Tool loop, `app/graph/nodes/tools.py` | per turn: rounds, budget, fingerprints, pending writes | ask the model, run a batch, echo, fall back to rules, confirm | model, tool layer, effect ledger, user | no write without a confirmation of that very call; no call twice; the budget holds; the conversation stays well-formed |
| Intent routing, `app/intent/resolver.py`, `rules.yaml`, `semantic.py`, `app/graph/root.py` | none | rules, examples, model, risk policy, confidence gate, edge | first node of a turn | a shape that needs approval is never routed around it |
| High-risk workflow, `app/graph/nodes/service_workflow.py`, `app/registry/*` | the state of the run, `approval_task`, the ledger row | validate, prepare approval, gate, execute, verify | approvals, ledger, ticket service | what is carried out is what was approved, by somebody who may; what is told happened |
| Accounts, `java/service/InvitationService.java`, `UserAdminService.java` | rows of `user_invitation`, `users` | invite, accept, revoke; roles, enable and disable | administrators' requests, concurrently | one live invitation per address; no account from a dead one; an administrator remains |
| Login and rate limits, `java/service/AuthService.java`, `java/service/ratelimit/` | counters per bucket, in memory or Redis | login, count, reset | every request | lockout after the configured failures |
| Tickets, `java/service/TicketService.java` | tickets, links, comments, activity | create, transition, merge, link | requests and the agent's tools | legal transitions, no cycle of links |
| Context engine, `app/context/budget.py`, `builder.py`, `summary.py`, `truncate.py`, `policy.py`; `java/service/ChatStreamService.java`, `ConversationContextService.java`, `ConversationSummaryService.java` | messages and summary rows of a conversation; per turn a prompt plan | store the question, build the envelope, allocate, pack, summarise, store the answer and the summary | Java to agent and back, every chat turn | the prompt fits the window; the question is in it; what was left out is named, and summarised as exactly that |
| Knowledge index, `app/knowledge/ingest.py`, `app/persistence/knowledge_repository.py`, `app/retrieval/cache.py`, `embedding.py`, `vector_store.py` | rows and vectors; per replica an index and an embedding cache | query, refresh, ingest, embed, search | threads of every replica, the embedding provider | no index older than an ingest that returned; no index of another caller; a chunk ranked by its own text |
| Retrieval run, `app/retrieval/pipeline.py`, `app/knowledge/policy_search.py`, `app/tickets/*` | state of one request | route, fuse, rerank, assemble evidence, investigate, rail, gate | index, ticket search, context engine | evidence is readable, in force, not repeated, of every base; quarantined text stays out |
| Conversation administration, observability | rows, counters | create, rename, list, delete; count | requests | single rows |
| Web client | view state | send, reconnect, render | SSE from Java | counterpart of run events |

### The hard behaviours

*Concurrency.* Tasks of one event loop interleave at every `await`; processes
interleave at every statement; requests of the Java service run on a thread
pool. *Failure.* Any await may end in a cancellation (deadline, idle timeout,
client gone), any statement may fail before or after it committed, any process
may die. *Models.* A model may ask for anything, in any
order, twice, or break off in the middle of a call; its ranking may repeat and
invent. *Delivery.* A request outlives its sender; an answer may be lost; the
same key or decision is delivered again by replays and by two reconcilers.
*Budgets.* Tokens, calls and rounds are shared by parts that do not know of each
other. *Caches.* What is built outside a lock may be out of date when it is
published. *Time.* Leases, claim timeouts, deadlines and retention windows are
measured on different clocks. `PROJECT.json` lists the hazards at their lines.

## 2. The modules

| Module | Models | Composition |
|---|---|---|
| `EffectLedger` | `run_once` and its table, one effect key | |
| `WriteOnce` | what the ledger promises, without rows, caches, leases, crashes | implemented by `EffectLedger` (`PromiseKept`) |
| `ToolDelivery` | the controller and its idempotency record, one key | |
| `WriteDelivery` | one write from `run_once` to the record | `INSTANCE`s `EffectLedger` and `ToolDelivery`, supplies `execute()` and the network |
| `ApprovalResume` | one approval in both services | |
| `ToolCatalog` | what the tool layer decides without state | |
| `ToolLoop` | the tool loop of the turns of one process, with the breaker they share | extends `ToolCatalog` |
| `IntentRouting` | one message to one route, pure operators | |
| `ServiceWorkflow` | one run from the message to the verified action | extends `ToolCatalog`, `IntentRouting` |
| `ContextBudget` | the planner: one request to one prompt plan, pure operators | |
| `ContextEngine` | the turns of one conversation, both services | extends `ContextBudget` |
| `KnowledgeIndex` | store, index caches and embedding caches of several replicas | |
| `PolicyRetrieval` | one retrieval run | |
| `Lists` | picking and adding up elements of a sequence, pure operators | extended by `ContextBudget`, `PolicyRetrieval`, `FoldLemmas` |
| `EffectLedgerProofs`, `WriteDeliveryProofs`, `ApprovalResumeProofs`, `ToolLoopProofs`, `ContextEngineProofs` | theorems (section 4) | each extends its module; `WriteDeliveryProofs` takes the ledger's theorems by `INSTANCE` |
| `RetrievalProofs` | theorems about the index and the retrieval run | extends `KnowledgeIndex`, `PolicyRetrieval` |
| `AgentServiceProofs` | theorems about the high-risk workflow and about the composition | extends `MCAgentService` and the proofs of its components |
| `FoldLemmas` | lemmas about folds and positions of a sequence | extended by `ToolLoopProofs`, `ContextEngineProofs`, `RetrievalProofs` |
| `MCAgentService` | all of the agent's components in one run | extends `MCToolLoop`, `ServiceWorkflow`, `ContextEngine`, `KnowledgeIndex`, `PolicyRetrieval` |
| other `MC*` | instances for TLC | extend their module |

`MCAgentService` runs one component per behaviour: its variable `part` names it,
the others rest in an initial state. That is why the state machines it extends
have names of their own (`WorkflowInit`, `KnowledgeNext`, ...). The components it holds share no state within a step, so
nothing is lost, and one run checks their properties under one configuration;
that a behaviour of `MCAgentService` is a behaviour of every component is a theorem
(`EveryComponentRuns`). What turns of one process do to each other through the
breaker is a part of its own, `process`: every step of it is a step of `ToolLoop`
with two turns at work, of which it keeps those that read and are not answered. The
places where they do meet are modelled where they meet: the ledger row and the
ticket service in `ServiceWorkflow`, the write path in `WriteDelivery`.

### EffectLedger

One effect key; keys share nothing. `row` is the row of `effect_ledger`,
`cache[r]` is `EffectLedger._records`, `lock[r]` the `asyncio.Lock`, `pc[c]`
the await at which a call is suspended. An action is the code between two
awaits: `Acquire` (the lock, and the decision if the cache has a record),
`Lookup` (`get_effect` and the decision), `TakeOver`/`LoseTakeOver`
(`claim_stale_effect`), `Begin` (`begin_effect`), `Return` (`execute` ends),
`Finish` (`finish_effect`). `Decide` is the synchronous stretch between the
record found and the next await, in which the `started` record is put into the
cache *before* its statement is awaited. `Interrupt` is the one failing path of
every await: a cancellation and a failed statement leave the same state, and the
statement may have committed (`Committed`) or not. `Crash` loses a process's
memory and keeps the row.

Time is kept as ages that saturate, so that no bound on the length of a
behaviour is needed. The database's clock ages the row; a replica that reads it
adds its `Skew`; `_claim` uses that sum, `claim_stale_effect` uses the
database's clock alone, as the code does. `Capped` callers run under
`asyncio.wait_for` (the tool loop, `app/graph/nodes/tools.py:597`); the others
(`_execute_confirmed`, `execute_approved_action`) have no cap.

Abstracted: attempts, provider key, error text, the response (a succeeded row
always has one). Assumed: `durable_persistence` (a failed statement raises), a
database, leases enabled. `lease_seconds()` puts the lease at twice the longest
call or more; the assumption used is the weaker `Deadline < Lease`.

### ToolDelivery and WriteDelivery

`ToolDelivery` is the server: `Replay`, `Miss` and `LookupFails` are the three
ends of `replay()`, `Commit` and `Refuse` those of the ticket service, `Record`
and `RecordFails` those of `record()`. `WriteDelivery` conjoins the ledger's
actions with the server's and decides what `execute()` returns: an answer
(`Answered`), a failure because nothing was sent (`NotLanded`), a failure made
up when no answer came (`LostReply`), or the failure of an output rail
(`RailBlocks`). A request whose sender was cancelled goes on. The faults of a
behaviour are chosen in `Init` from `Scenarios`, so that one run can check
properties that hold for some combinations of faults.

### ApprovalResume

One approval. `row` is the row both services write, `thread` the LangGraph
thread: running, paused at its interrupt, advanced past it by a run that failed
or died under way, finished. A *handler* is a task of the agent service. A `resolve` handler runs
`resolve_approval` (a click on the agent's own endpoint, or a tick of
`ResumeReconciler`): claim, precheck, run, mark, then for an applied decision
the read (`Load`) and full-row write (`Save`) of `set_result`. An `http`
handler serves Java's request to `/v1/workflows/{turn}/resume`: it prechecks
twice, runs and marks, and claims nothing. A *Java caller* is a controller
request or the reconciler thread: decide, re-read, guard, send, classify the
answer, mark. A handler takes a checkpoint of an advanced thread as valid or as
stale, for which one it is depends on LangGraph's store (external). A run that is
taken on goes to its end: `resume_graph` has a branch for a second interrupt
(`app/graph/runner.py:261-296`), but the graph that `root.py` builds leads from each
of its two interrupts to the answer without another one, so the outcome
`interrupted` of a resume is not modelled.

Abstracted: the expiry of a claim is not timed. A `running` claim is claimable
when no handler owns it, or, in the scenario `slow`, at any time. Not in the
module: creating the row and replaying it from the chat stream, the SSE form of
resume, policy (self approval, roles), the decision trail, escalation.

Where the code's comments and the model differ, the model follows the code. In
particular the comments of the Java service that the agent deduplicates on
`resume_request_id` (`ApprovalResumeGuard.java:11-14`,
`WorkflowResumeClient.java:144-145`) have no counterpart in the agent service,
and the endpoint never answers `already_resumed`.

### ToolCatalog and ToolLoop

`ToolCatalog` translates tables and pure functions: the catalog entries of the
ticket tools (permission, tier, whether a number is promised), the role table,
the two rails, the failure codes by what they count as, the retry rule and its
waits, the adapter's code for each way an attempt may end, the result contract,
and the assembly of a streamed decision. The provider sends a call whole, or first
its name and its id and then its arguments in pieces, with an index or without one;
the stream may end after any line, and a line may be skipped because it is not JSON
(`app/tools/calling.py:454`). The arguments are a text cut in three: all parts are
the call as it was meant, no part is a call without arguments (`calling.py:319-321`),
the first and the last with a gap between them may still parse (`"cut"`), anything
else does not. A line without an index opens a slot of its own. An attempt ends as
`connect` (nothing was sent), `lost`, `busy`, `garbled`, `answered`,
`numberless`, `flagged` or refused; `MayApply` and `MustApply` say what that
means on the server: of a `lost` one nobody knows.

In `ToolLoop` a turn is a record. `model_turn` streams a batch and takes what the
decoder makes of it (`Decisions`), and is `NoModel` or `OutOfRounds` otherwise.
`run_one` is `guarded` and the start of `run_one` up to its first await: the fingerprint is claimed *before* it. `InTurn` gives the
schedule of `run_round` (`ahead`): the reads of a model's batch side by side, the
rest in order after them; what the rules chose, one after the other as listed.
`Returns`, `Raises` (`tools.py:639-650`) and `DeadlineFires` end a call; a call that
raises leaves the breaker alone, which counts transport errors only, and those the
adapters catch. `EndRound` zips outcomes with calls the
way line 771 does. `Fallback` is the rule-based selection with what is left of
the budget. `confirm_writes`, `execute_confirmed` and `ReplayConfirm` are the
confirmation node, which runs again from its top after a crash, with the effect
ledger between it and the tool. `ledger` holds the recorded successes, `attempts`
what the row says of each attempt at a write: `started` after a deadline or a crash
between the effect and `finish_effect`, `stale` once its lease has run out
(`LeaseRunsOut`), `failed`, `succeeded`. `ReplayConfirm` is a crash between two
writes or in the middle of one; a row that was `failed` when the attempt began stays
so, since `begin_effect` leaves the status of a row that is there (`begun_row`). The
node appends to the results it found (`operator.add` in `app/graph/state.py`), and a
crash loses what it had appended: `found` is how many there were when it began.

### IntentRouting and ServiceWorkflow

A message is what the rules see of it: the rules its text matches, those its
context matches, the nearest example and what the model would say. The rule table
is `rules.yaml`, with its priorities, risks and confidences.

`ServiceWorkflow` is the graph of one run: `guardian_input`, `Orchestrate`, the
edge of `root.py`, then either `RunWorkflow` (knowledge, or the tool loop) or the
nodes of the high-risk workflow. `execute_approved_action` reads the approval,
which may fail, decides which action is run, asks for system authority and the
permission, and hands over to the ledger (`run_once`, `invoke`, `finish_effect`).
An action that is not wired is registered as a change ticket (`RecordOnly`).
`Redeliver` is a crash anywhere in this stretch followed by the reconciler's new
delivery; `Deploy` puts another release, with another table of actions, in its
place while the run is parked; `Tick` lets approvals and leases age. The ledger
row is that of `EffectLedger` seen from one caller.

### ContextBudget and ContextEngine

A text is its token count, and counting is additive; that is exact for the
fallback counter up to rounding and a simplification for the tokenizers. `allocate`
is translated stage by stage: demands, floors, water-filling with integer shares,
packing of messages from the newest, reclaiming for the question of the turn,
packing of evidence and tool results, placing, and the summary request.
`ContextEngine` adds what goes into a request and what is done with a plan: `Ask`,
`BuildEnvelope`, `Complete`, `ReadLatest`, `insertIfVersionFree` are the Java
service, `assemble_context`, `summarize_context`, `SkipSummary` the agent. Turns
of one conversation overlap at every one of these steps.

### KnowledgeIndex

`db` is the rows (the number of the commit that wrote them) and the vector of
each chunk; a text is the pair of its chunk and the commit that changed it, and a
vector is the text it was computed from, so that "its own vector" can be said.
A query walks `lookup`, `load`, `documents`, `chunks`, `publish`, `serve`: the
lock is held in `lookup` and `publish` only, and each of the two statements reads
what is committed when it runs. An ingest walks `seed`, `embed`, `vectors`,
`invalidate`; a build that finds the store empty seeds it itself. The provider's
answer may be in another order, partial or absent.

### PolicyRetrieval

One run with its steps in order: bases, fusion, reranking, evidence with its
filters and shares, the second pass for bases that got nothing, tickets, the
rail, the gate, and what of it reaches the prompt (`evidence_in_prompt`, which is
`_evidence_candidates` of the context builder). The channels' results and the
model's ranking are inputs.

### Sensitivity

A definition named `...Broken` (or `ClaimableForever`, `StaleNeverBroken`)
stands for a plausible bug in the definition that follows it; no specification
uses them. With the broken form in its place, the property named beside it in
`PROJECT.json` is violated: the lock not awaited, the lock released before the
effect, a success not short-circuited, a lease not renewed, a takeover of a live
row, a compare-and-set without its comparison, a fingerprint claimed after the await,
a cut message not named as evicted, a build kept although it was overtaken, a
provider's answer taken by its place, and so on.

## 3. Runs, bounds, fairness

| Run | Instance | Shows |
|---|---|---|
| `EffectLedgerOneReplica` | 1 process, 1 capped and 1 uncapped caller, lease 2, deadline 1, clock 1 ahead; 12,234 states | `NoConcurrentExecution`, `NoRunAfterSuccess`, refinement of `WriteOnce`, and `CrashedAttemptResolved` under fairness |
| `EffectLedgerTwoReplicas` | 2 processes with different clocks, 3 capped callers; 582,912 states | `TypeOK`, `OneRunPerReplica`, `LeaseCoversRun`, `TakeoverExcludesLive` |
| `EffectLedgerConcurrentStart` | the same | **violated**: `NoConcurrentExecution` across processes |
| `EffectLedgerWedged` | as one replica | **violated**: `BeliefIsRevised` |
| `WriteDelivery` | 2 capped callers, 2 requests, 3 sets of faults; 1,145,163 states | `TypeOK`, `AppliedAtMostOnce`, `SuccessIsReal` |
| `WriteDeliveryLostReply` | the same, answers may be lost | **violated**: `FailureIsKnown` |
| `ApprovalResume` | 2 Java callers, 2 handlers, 2 attempts; the agent alone, and both with every fault; 391,298 states | `TypeOK`, `RunFollowsDecision`, `SuccessIsApplied`, `ClaimExclusive`, `DecisionStands` |
| `ApprovalResumeSettles` | 1 Java caller, 2 handlers, the same faults; 174,540 states | `DecisionIsSettled` under fairness |
| `ApprovalResumeSuccess` | 2 Java callers, no faults | **violated**: `SuccessIsTerminal` |
| `ApprovalResumeParked` | 1 Java caller, the graph may raise | **violated**: `RetryableStaysRetryable` |
| `AgentService` | the six instances below; 721,713 states | the 23 properties below |
| `ToolLoopReplies` | 1 turn, 7 batches, 6 ways a call ends | **violated**: `ReplyAnswersItsCall` |

`AgentService` in detail:

| Part | Instance | Properties |
|---|---|---|
| tools | 1 turn, 7 batches of at most 2 calls, decoded from every order of their lines, with and without indices, broken off anywhere, with a line skipped; 6 ways a call ends, and an exception; confirmation on and off | `OnlyConfirmedWrites`, `DistinctCalls`, `AppliedOnce`, `BudgetRespected`, `HistoryAnswered`, `OnlyLostReplyMisleads`, `NoTornCalls` |
| process | 2 turns of one process, two reads side by side and then other ones, a service that does not answer, up to the first cooldown | `DownDependencyContained` |
| context | 2 turns of one conversation, texts of 20 and 900 tokens, 3 states of the graph, a window of 1600 | `PromptFitsWindow`, `FoldOverrunBounded`, `CurrentTurnSent`, `EvictionExact`, `DroppedIsPrefix`, `SummaryRangeExact` |
| workflow | 12 messages, 3 role sets, 3 deciders, 2 releases, 6 answers of the ticket service | `GatedShapesAskFirst`, `EffectAsApproved`, `ToldWhatHappened`, `OneTicketPerDelivery` |
| index | 1 thread that ingests, 1 that queries and refreshes, 2 role sets, 2 chunks | `NoStaleIndexKept`, `ServedToItsCaller`, `RankedByItsOwnText` |
| search | 4 documents, 9 chunks, 2 tickets, 2 bases; every combination of roles, task, scope, year, channel orders, model ranking, cut and flagged texts | `EvidenceIsSound` |

`EveryTypeOK` is the type invariant of whichever part runs.

*Bounds.* Two callers of one process are what a lock can get wrong, a third in
another process what a lease can. `Lease = 2` and `Deadline = 1` are the
smallest values with an age below, at and above the lease and a call below and
at its deadline; ages beyond the lease are alike (`Older`). Two requests are
one left behind by a dead sender and its replay. `applied` and `runs` stop at 2,
one more than promised. `MaxAttempts = 2` allows a failure and a retry; the
counter saturates there, and reconcilers stop, as they do at the configured
value. Two handlers and two Java callers give every pair of the four kinds of
actor. Of `AgentService`:
`MaxRounds = 2` and `MaxToolCalls = 3` let a second round meet a spent budget and
cut a batch; the instance goes into a second round only after messages that
arrived whole, and lets time pass only once a breaker counts (`OneTurn`), since what
a damaged message does is over with its round; `TokenBudget = 2` with
`TurnTokens = {1, 3}` has a turn above it;
`Threshold = 1`, `Cooldown = 1`, `MaxTime = 1` open a breaker and let it cool
down (`DownDependencyContained` is about the time before that and about a service
that never answers, since one answer ends the silence: the `process` part keeps to
both); `MaxReplays = 1` is one crash of the confirmation node, and one redelivery
of an approval. `MaxMessages = 3` and a window of 1600 are one message more than
fits; a text of 900 tokens is cut, one of 20 is not; `Header = 6`, `Marker = 12`,
`ItemHeader = 30` and `Gap = 1` are what the renderers produce, and the other
sizes are chosen so that items are kept, cut and dropped. `ApprovalTTL = 1`,
`Lease = 1` and `MaxClock = 2` have an age on either side. `MaxCommits = 2`,
`MaxQueries = 2` and `TTL = 1` are one ingest during a build and one after it.
The actions of a release besides the one that is deployed are those of the
repository's tests: they are what a next release may hold. Symmetry (turns of a
process, turns of a conversation, role sets) is used for invariants and action properties only.
`CHECK_DEADLOCK FALSE` appears where the system may stop: a settled approval is
at rest, a turn ends.

*Fairness.* `EffectLedger`: a call that was admitted is driven by the event
loop and its awaits end (`httpx` and the database have timeouts), `asyncio.Lock`
serves waiters in order (strong fairness of `Acquire`), replays keep coming,
time passes. Replays are an assumption about the environment: an undelivered
resume is repeated by a timer, but only while attempts are left. No fairness is
put on what may fail. `ApprovalResume`: tasks and threads go on, the agent's
reconciler ticks, the run reaches its interrupt. The liveness properties hold
under `Calm`: crashes and cancellations stop eventually. They need not stop for
any safety property. The modules of `AgentService` state no fairness: everything
checked about them is safety.

*The violations* are disagreements between the code and its own documents;
`PROJECT.json` quotes both sides.

1. `EffectLedgerConcurrentStart`: both processes read no row, both upsert, both
   execute. The takeover is a compare-and-set, the first start is not.
2. `EffectLedgerWedged`: a `failed` row, a retry cached as `started`, and
   `begin_effect` interrupted. The cache is believed for the life of the
   process; the row is not `started`, so no takeover matches.
3. `WriteDeliveryLostReply`: the server commits, the answer is lost, the row
   says `failed`. The failure table passes it on: the code of such a failure is
   listed as one of which the dependency never received the request, without side
   effect and to be tried again (`app/tools/failures.py:97-110`).
4. `ApprovalResumeSuccess`: a decision is queued and Java's reconciler reads the
   row; the agent's own handler claims it, runs the graph to its end and records
   `succeeded`; then Java delivers what it read, the endpoint finds the run finished
   and answers 409 `STALE_APPROVAL`, and Java's unguarded update sets the row back to
   `stale`. `mark_resume_result` guards its own update against this duplicate.
5. `ApprovalResumeParked`: the graph raises, the agent records `failed` and
   answers 409 `RESUME_FAILED`, Java takes every 409 for a lost checkpoint and
   parks the approval as `stale`.
6. `ToolLoopReplies`: the model asks for a write before a read. The outcomes come
   back reads first, and are zipped with the calls in the order they were asked
   for: each call id is answered with the result of the other.

## 4. Proofs

`EffectLedgerProofs`, for every `Callers`, `Replicas`, `Home`, `Capped`,
`Lease`, `Deadline` and `Skew` that satisfy `LedgerAssumption` (callers live in
replicas, clocks differ by integers, `Deadline < Lease`, `NoCaller` is no
caller).

| Theorem | Statement |
|---|---|
| `TypeCorrect` | `Spec => []TypeOK` |
| `LockWorks` | `Spec => []OneRunPerReplica` |
| `LeaseCovers` | `Spec => []LeaseCoversRun` |
| `TakeoverIsSafe` | `Spec => TakeoverExcludesLive` |
| `SuccessIsNotRepeated` | one replica: `Spec => []NoRunAfterSuccess` |
| `LedgerImplementsWriteOnce` | one replica: `Spec => PromiseKept` |
| `ExecutesOnceAtATime` | one replica: `Spec => []NoConcurrentExecution` |

The argument has three layers. *Discipline*: types, `LockInv` (whoever is past
the lock holds it) and `OutcomeInv` (whoever is about to write a verdict finds
it in the cache, which is where `finish_effect` takes it from). `TypeOK` alone
is not inductive: `Finish` copies a status from the cache, and only `OutcomeInv`
says that it is a verdict. Two callers of one replica in the critical part would
both hold one lock, which is `OneRunPerReplica`. *Lease*: `LeaseInv` adds
`DeadlineInv` (a capped call is no older than the deadline) to `LeaseCoversRun`.
A running capped call has a row no older than the deadline, which is below the
lease, and `claim_stale_effect` matches only rows older than the lease; the clock
of the replica never enters, which is why skew does not matter. *Success*, with
one replica: whoever runs found a row without a success and holds the only lock,
and nobody else can write one; the refinement maps the owner to the caller in
the critical part and `done` to a succeeded row, and goes action by action.
`OneReplica` says that all callers live in one process. Without it three of the
statements are false (`EffectLedgerConcurrentStart`); one process is how the
repository's own instructions start the agent (`README.md:52`).

`WriteDeliveryProofs`, for any callers, requests, replicas and sets of faults:

| Theorem | Statement |
|---|---|
| `DeliveryUsesTheLedger` | `Spec => LF!Spec`: a behaviour of the composition is one of `EffectLedger` |
| `DeliveryTyped` | `Spec => []TypeOK` |
| `SuccessIsNeverFabricated` | `Spec => []SuccessIsReal` |
| `WrittenAtMostOnce` | one process, every call capped: `Spec => []AppliedAtMostOnce` |

`DeliveryUsesTheLedger` is what makes the rest short: each step of the
composition is a step of the ledger or leaves it alone, so every theorem of
`EffectLedgerProofs` holds here. `SuccessIsReal` is inductive once types are
known. `AtMostOnceInv` is `OnceInv` (one request at work, it is the one its
sender waits for, and a committed write is on record or about to be) with a
reason why a second sender never gets that far, of which there is one for each
set of faults. If only the agent fails (`CoverInv`), no failure is ever on
record, so a row is begun once, and the row is as young as any request at work,
so the lease covers it. If only the service refuses (`WaitInv`), a request at
work has a sender that waits, which holds the lock. With both kinds of fault the
write may be carried out twice (section 5), so neither part can be dropped.
`CappedProcess` is the hypothesis: with two processes, or a call without a
deadline, the statement is false. The run satisfies it, and so do the calls of
the tool loop; the confirmed and the approved writes have no deadline.

`ApprovalResumeProofs`, for any handlers, Java callers, attempts and faults:

| Theorem | Statement |
|---|---|
| `ApprovalTyped` | `Spec => []TypeOK` |
| `RunsFollowTheDecision` | `Spec => []RunFollowsDecision` |
| `RecordedSuccessIsReal` | `Spec => []SuccessIsApplied` |
| `DecisionsStand` | `Spec => DecisionStands` |
| `ClaimsAreExclusive` | `Spec => []ClaimExclusive` |

`DeliveryInv` says what each actor may rely on at each of its stages: a handler
that brings a decision to the graph brings the one on record, a handler that
writes the whole row back has read that decision, and an outcome that is reported
is one of a graph that was run. It survives the steps of the *others* because a
decision is never changed and a run never taken back (`Progress`,
`OthersStayInOrder`): every action is shown to make progress, and the actor that
moved to be in order. `ClaimInv`, for the agent service by itself, adds that at
most one handler owns the claim and that the row shows it.

`ToolLoopProofs`, for every set of batches, users, agents, settings and answers,
any number of turns and any limits:

| Theorem | Statement |
|---|---|
| `LoopIsTyped` | `Spec => []TypeOK` |
| `WritesAreConfirmed` | `Spec => []OnlyConfirmedWrites` |
| `CallsAreDistinct` | `Spec => []DistinctCalls` |
| `WritesAreAppliedOnce` | `Spec => []AppliedOnce` |
| `BudgetIsRespected` | `Spec => []BudgetRespected` |
| `OnlyLostRepliesMislead` | `Spec => []OnlyLostReplyMisleads` |
| `CallsAreNotTorn` | `Spec => []NoTornCalls` |
| `HistoryIsAnswered` | `Spec => []HistoryAnswered`, if the ids in one message differ (`IdsApart`) |
| `DownDependencyIsContained` | `Spec => []DownDependencyContained`, for finitely many turns and batches of a bounded length |

`LoopInv` has one conjunct per concern of a turn. A call that was sent, carried
out or put aside has its fingerprint claimed (`Claimed`); claimed once
(`Distinct`); and a call put aside runs nowhere else until the confirmation node
runs it (`Aside`) - the part that is hard, because the node may be replayed: the
results up to `found` are of other calls, those after it are lost with the crash.
`Recorded` ties the attempts at a write to the rows of the ledger: one that succeeded
has its row there, one that another follows is failed or stale, and nothing like any
of them is on its way; it is kept because `execute_confirmed` asks for both
(`ledger_holds`, `in_progress`) before it begins. `Budgeted` counts calls begun, put
aside, not yet begun and left. `Honest` says of each result what
`OnlyLostReplyMisleads` says: with confirmation on a write only runs in the
confirmation node, which has no output rail, and every code but that of a lost reply
is listed as one of unknown effect. `CallsAreNotTorn` is about the decoder (`RunsOf`):
whatever the order of the lines, whatever the provider numbers and wherever the
stream ends, each slot belongs to one call, holds a part of it in its order
(`Owned`), no two named slots belong to the same one, and what parses is all of it,
none of it, or all but a gap. `HistoryIsAnswered` needs `AnsweredInv` besides: between
two rounds the replies answer each echoed call once; in a round the calls that
run are those still without a reply, unless the budget cut the batch, and then
nothing is left of it and `stop_reason` ends the loop before the model is asked
again. Replies are told apart by round and id. Its hypothesis is about the
provider of the model: a message in which two calls share an id gets two replies
under it whatever the code does; the ids the code makes up when there are none
carry the position (`turn_from_fragments`). The run's messages satisfy it.

`DownDependencyIsContained` relates all turns of the process to the breaker they
share. The bound it states is `Threshold - 1 + Concurrency`, where `Concurrency` is
the number of turns times the widest batch: a breaker that counts failures when
they *return* cannot refuse what is on its way already. The bound alone is not
inductive, since a failure that returns makes room for another call. `DownInv`
counts both: of a tool that has answered nothing yet, as many calls were begun as
failed and are on their way (`Ways`), the failures of a closed breaker are below the
threshold, and no more than `Concurrency` are on their way. The last is where the
schedule enters (`SideBySide`): a batch of the model may be on its way as a whole,
of what the rules chose only the first that is not done. Calls the breaker does
not guard are confirmed writes, which are never begun here (`AskedAside`), so the
count is not spoiled by them. A step of one turn changes one way; `Ways` of the
other turns are the frame. The two hypotheses only make the bound a number: a
process has finitely many turns, and a model's answer is cut at a length.

`AgentServiceProofs`, for every set of messages, role sets, deciders and
releases, every lifetime of approvals and leases, any number of redeliveries:

| Theorem | Statement |
|---|---|
| `WorkflowIsTyped` | `WorkflowSpec => []WorkflowTypeOK` |
| `EffectsAreApproved` | `WorkflowSpec => []EffectAsApproved` |
| `TicketsAreBounded` | `WorkflowSpec => []OneTicketPerDelivery` |
| `EventsAreTrue` | answers are of the kinds the adapter tells apart: `WorkflowSpec => []ToldWhatHappened` |
| `GatedShapesAreGated` | messages match rules of the table only: `WorkflowSpec => []GatedShapesAskFirst` |
| `EveryComponentRuns` | `MCSpec => Spec /\ WorkflowSpec /\ ContextSpec /\ KnowledgeSpec /\ SearchSpec` |
| `EveryTypeKept` | `MCSpec => []EveryTypeOK` |

Four invariants, one for each of the four properties. `ApprovalInv`: there is one approval, of the
requester, for the pending action; it is approved only by somebody who may;
nothing is started before; an action that runs is the one on record. The last is
why a crash, a new release and an unreadable approval do no harm: whichever of
the record and the state `action_to_run` takes, they agree, and a started effect
keeps its action. `TicketInv` counts: the nodes before the request carry
one ticket less than the deliveries allow, and one `execute` of an unkeyed write
carries out at most one, because an attempt that may have landed is not repeated
(`LandedOnce`, which rests on `is_safe_to_retry`). `TruthInv` ties the write
results in the state to the world, and both to what was told. `GateInv` follows a
gated candidate: its risk is high whatever the confidence gate does to it
(`GatedIsHigh`), so the edge leads to `collect_slots` (`GatedRoute`), and no
step leaves that branch except through a decision or a refusal. The messages and
answers of the run satisfy the two hypotheses. `WorkflowTypeOK` leans on
`ApprovalInv` for the pending action; the rest of the types (`OthersTyped`) is
inductive beside it.

`EveryComponentRuns` is the reason why the composition loses nothing: its initial
states are initial for every component, and each of its steps is a step of one
component and a stutter of the others. `EveryTypeKept` follows from it and from
the five type theorems, and so would every other theorem of this section about
the behaviours of `MCSpec`.

`RetrievalProofs`, for any threads, replicas, chunks, role sets, ingests and
ticks, and for any documents, tickets, bases and requests:

| Theorem | Statement |
|---|---|
| `KeptIndexIsNotStale` | `KnowledgeSpec => []NoStaleIndexKept` |
| `CallersAreServedTheirOwn` | `KnowledgeSpec => []ServedToItsCaller` |
| `RankedByOwnText` | `KnowledgeSpec => []RankedByItsOwnText` |
| `KnowledgeIsTyped` | `KnowledgeSpec => []KnowledgeTypeOK` |
| `EvidenceSound` | `SearchSpec => []EvidenceIsSound` |
| `SearchTyped` | `SearchSpec => []SearchTypeOK` |

`NoStaleIndexKept` is not inductive: a build in flight may publish anything.
`IndexInv` adds what makes `_generation` work: a build whose generation is still
its replica's has read the rows after the last ingest that returned in this
replica (`Recent`), no build is ahead of its replica's generation, so that an
invalidation overtakes all of them for good (`Behind`, lemma `Overtaken`), and no
ingest is ahead of the rows. An ingest moves `completed` only in the step that
invalidates. `RankedByItsOwnText` needs `VectorsInv` besides: what an embedding
cache holds under a text is that text's vector or none (`EmbedIs`, from `OrderIsOwn`
and `PendingIs`), the same is true of every row while no two ingests overlap, and
an ingest that is under way wrote the rows that are there, so the vectors it
brings are theirs. `ChunksAssumption` says that `Chunks` is a sequence,
`BoundsAssumption` that the two bounds of the model are numbers.

`EvidenceIsSound` has four parts, and each is about several steps of the run. What
is in the evidence (`OnlyEligible`) was put there from a ranking that knows nothing
of roles or dates, by two passes and the ticket search: `Shown` is what the filters
let through, `PolicyItems` the items that can be made of it, and every list is
shown to be of those. `NoRepeats` (no chunk twice, no document over its share) is
`PolicyEvidence`, the loop invariant of `add_candidates`: one more candidate either
is refused or keeps it, so the fold over the ranking does (`FoldKeeps`), and so
does the second pass, which is a fold of folds over the bases that got nothing -
in whatever order the set is walked. `EveryBaseCovered` is the hard one. The
second pass looks at a base only if the first left it out, and items added for one
base must not take away what another has: evidence only grows (`Lengthens`), and
after the turn of a base it is covered or has no readable chunk among those looked
at. That later steps leave this alone needs that tickets are no policy items.
`QuarantineHolds` follows from `kept`, which holds items that pass the rail only.
`SearchAssumption` says what the data are: ids of chunks differ, a chunk belongs to
a document, the tickets of a search are not repeated, `Bases` is finite. Nothing is
assumed about the rankings: they may repeat, and name what does not exist.

`ContextEngineProofs`, for every window, policy size, history, graph state and
token count, and any number of overlapping turns:

| Theorem | Statement |
|---|---|
| `ContextInvariant` | `ContextSpec => []ContextInv` |
| `ContextTypeCorrect` | `ContextSpec => []ContextTypeOK` |
| `PromptFits` | `ContextSpec => []PromptFitsWindow` |
| `FoldOverrun` | `ContextSpec => []FoldOverrunBounded` |
| `CurrentTurn` | `ContextSpec => []CurrentTurnSent` |
| `PrefixDropped` | `ContextSpec => []DroppedIsPrefix` |
| `Eviction` | `ContextSpec => []EvictionExact` |
| `SummaryRange` | `ContextSpec => []SummaryRangeExact` |

*The planner.* `AllocateIs` says what an accepted plan is, from one lemma per
stage. `PackedTo` is the loop invariant of `_pack_messages`: going from the newest
message, what was left out so far is an end of what was looked at, the question
apart. A prompt is fitted twice, once by the planner, which counts texts, and
once by the renderer, which adds a blank line of two tokens to every section:
`allocate` takes two tokens off for each block. That this is enough needs that
there are no more sections than blocks, the two item lists being rendered only
if their block is there (`ListsBesideTexts`), and that a kind has one block
(`DedupedKinds`, `KindsCounted`). Nothing is needed about the shares themselves:
water-filling and reclaiming may produce any allocation, because the plan is
refused when what was packed does not fit. *The turns.* `ContextInv` keeps the
plan of a turn true of its candidates. The candidates are an envelope and, when
it lacks it, the question, which is looked up in a history other turns go on
writing: `CandidatesStay` is the frame of all eight actions. *The report.* An
eviction names the positions left out and the position cut, and ids are distinct,
so both counts agree. `SummaryRange` shows that the length test of
`summarise_request` is enough: the ids at the ends of the evicted list are those
of two positions between which all that was lost lies - except when the question
was cut and something newer than it was dropped, and then more was lost than
there are messages up to the question, so that the test fails.

*Induction over data.* The packing loops and the stream decoder are folds over
sequences. The library's induction theorems take an operator and cannot be
instantiated, so `FoldLemmas` derives what is needed from the fact that a set of
numbers has a least one (`LeastOf`, `Induction`): that the function `FoldLeft`
chooses exists (`FoldExists`), and that what holds at the start and is passed on
from one position to the next holds of the result (`FoldKeeps`). A loop invariant
is a set of pairs of a state and a position.

*The invariants before the proofs.* TLC checked each inductive invariant on the
instance of its run: `DeliveryInv` and `ClaimInv` in 391,298 states, `AtMostOnceInv`
in 1,145,163, `ContextInv` in 10,828 (the conversation part of `AgentService`) and,
with `MaxMessages = 5`, in 11,455; `LoopInv`, `AnsweredInv`, `DownInv`, `IndexInv`,
`VectorsInv` and `SearchInv` in the 721,713 states of `AgentService`, and `DownInv`
again with `Cooldown = 2` and `MaxTime = 2` in the 47,457 states of two turns that
only read from a service that is never heard of.

*What the proofs changed.* The confirmation node used to keep, after a crash, the
results it had appended; `LoopInv` was not inductive with them, and the code does
not keep them. The number of results a turn had found was added. `ItemHeader` is a
positive number, the absent name is `"none"` rather than the empty string, and
positions of a sequence are chosen by their rank (`InOrder`, `pending`), since the
provers see nothing of `SelectSeq`. `DownInv` failed for what the rules choose:
the model ran it as it runs a batch of the model, reads side by side, while the
code awaits one call after the other (`app/graph/nodes/tools.py:859`); the schedule
now tells the two apart (`ahead`), and with it the bound counts one way for them.
In `PolicyRetrieval` the two passes share one operator (`add_candidates`), as they
share one function in the code.

Not proved, model-checked only: liveness, `CrashedAttemptResolved` and
`DecisionIsSettled`, which is out of the prover's reach. Every invariant and
action property of a passing run is stated by a theorem. Some theorems have a
hypothesis the run does not need to name, because its instance satisfies it: one
process (`SuccessIsNotRepeated`, `ExecutesOnceAtATime`,
`LedgerImplementsWriteOnce`), every call capped (`WrittenAtMostOnce`), the agent
service by itself (within `ClaimExclusive`), ids that differ (`HistoryIsAnswered`).
What the modules' recursive definitions compute for *every* input is proved only
as far as `FoldLemmas` carries it.

## 5. What does not hold

Besides the violations of section 3, TLC shows, and the properties therefore do
not claim:

* At most once, if a failure *and* a crash happen: a retry over a `failed` row
  leaves the status `failed` while it runs (`begin_effect`), so after a crash it
  is claimable at once, while the first request may still be on its way.
* At most once, for callers without a deadline: a call that is slow enough is
  taken over and both send.
* At most once, when the record of the server could not be written or read, was
  swept, when the server died between its commit and its record, or when two
  deliveries of one key overlap on the server. `ToolIdempotencyService` says the
  last itself (lines 29-32). What remains in all of these is `SuccessIsReal`.
* At most once, with two processes at the first start.
* "Exactly once" (`resolve_approval`) holds of the agent service by itself
  (`ClaimExclusive`); an `http` handler claims nothing, so a run may be taken on
  by a resolve handler and an http handler at the same time.
* A replay that comes after the retention window of the server's record finds
  nothing and applies the write again.
* A decision that comes between `create_approval` and `update_checkpoint_refs`
  finds no references and is parked as `stale`.

The tool loop:

* "No change was made, try again", of a write whose reply was lost: the adapter turns
  every broken connection and every timeout into `TICKET_SERVICE_UNAVAILABLE`
  (`app/tools/adapters/ticket.py:180-185`), also when the request had landed, and
  `app/tools/failures.py:107-110` advises on that code as if nothing had been sent.
  `OnlyLostReplyMisleads` says that this is the only case; what then keeps a second
  attempt harmless is the record of the server (`AppliedAtMostOnce`).
* A call of which no arguments came is run without any (`app/tools/calling.py:319-321`):
  a stream that ends after the name, or a provider that gives no index to the lines
  of a call. A `ticket_create` of this kind makes its ticket from the user's message;
  with confirmation on it is shown to the user first. A line that is not JSON is
  skipped (`calling.py:454`), and what is left of the arguments may still parse.
  `NoTornCalls` allows these two and nothing else. All arguments with a gap are one
  value (`"cut"`) in the model.
* `AppliedOnce` is about what the ledger knows. A row that was `failed` stays `failed`
  while the write is tried again (`begin_effect`), so a crash under the retry leaves a
  row that says nothing happened, although it may have; it is claimed at once.
* `HistoryAnswered` counts replies; that they answer the right call is what
  `ToolLoopReplies` refutes.
* A stop for too many rounds is never recorded (`STOP_ROUNDS` is not assigned),
  so such a turn is told apart from a finished one only by its count.
* The advice for an unavailable tool is to try again; the same call is then
  refused as a duplicate.
* `_execute_confirmed` speaks of the same gates; the breaker, the rails, the
  agent's allow-list and the deadline are not among them. An exception in it is
  a success to the breaker in the end, because its result carries no code; one of the
  transport is counted as a failure first.
* An output rail that withholds the answer of a write reports that nothing was
  executed. With confirmation on this cannot happen to a write
  (`OnlyLostReplyMisleads` says so for that setting only).
* After its cooldown a breaker lets every caller through, and a success of an
  old call closes a breaker that was opened meanwhile: `DownDependencyContained`
  holds within one cooldown.

Routing and the high-risk workflow:

* The risk of a rule is lost when an example or the model proposes the same
  intent: a merge recognised by example is a medium risk and goes to the tool
  loop, where its tier (`approval`) refuses it. `GatedShapesAskFirst` therefore
  speaks of the shapes the policy itself raises, and of rules.
* A candidate below the last threshold becomes a general question but keeps its
  risk, so it may still end at an approval; a high risk that needs clarification
  is not clarified first.
* An older message of the context may match a rule of higher precedence and
  route the turn.
* `OneTicketPerDelivery` allows one ticket for each redelivery: the change ticket
  carries no key. With one delivery there is one.
* The check that the approved and the pending action agree cannot fail as long
  as both come from `prepare_approval`.

The context engine:

* The prompt may exceed the window once a summary is folded in: up to
  600 tokens and a heading come on top, which is more than the margin
  (`FoldOverrunBounded` is the bound that holds).
* What is dropped is a prefix only when the question is the newest message
  (`DroppedIsPrefix`); a cut question is evicted *and* sent, and may leave a hole,
  in which case the summary is refused.
* `reclaim` takes at least 24 tokens from a source, also when it has less above
  its floor.
* A summary's own material is cut at its end although the newest messages are
  there, the fallback summary does not contain the previous one, messages older
  than the 40 of the envelope are in no summary, and of two overlapping turns the
  one that covers less may be stored last.
* A message the guard redacted is redacted as the question; the envelope still
  holds the text that was stored.

Knowledge and retrieval:

* `RankedByItsOwnText` excludes overlapping ingests: the slower one writes the
  vectors of its own texts onto the rows of the other.
* `load_index` reads documents and chunks in two statements, so an index may hold
  documents of one commit and chunks of the next; both are recent enough.
* A failed embedding is cached for the life of the process: the vector stays
  empty until a restart.
* With the store unreadable, an index asked for by a role is kept unscoped, and
  the next caller with roles builds it again; one slot for all role sets is
  rebuilt by every change of caller.
* Another replica learns of an ingest, and of a revoked right, when its entry
  has outlived its TTL: `NoStaleIndexKept` is about the replica of the ingest.
* A build that finds the store empty seeds it, also when the first ingest is
  on its way.
* When the rail quarantines *everything*, the prompt falls back on the rendered
  context, which holds the unscreened tickets: `EvidenceIsSound` claims the
  quarantine for runs in which something is kept.
* Access and validity are checked after the ranking was cut; the second pass
  looks at three chunks of a base. A base whose readable chunks are further down
  is not represented.
* Every readable ticket has a score above zero, so the repeated searches of the
  investigation never help; their number is taken from the model unchecked.

## 6. Not modelled

Run events, the gateway's breaker, accounts and tickets are planned (section 7).
Login lockout and rate limits are sliding windows over real time; candidates after
those. Of the modelled components, these parts are left out: the patterns of rules
and rails (a text is what they see of it), prompts and the parsing of a model's
JSON, lexical scoring and query planning (their results are inputs), parsing and
chunking of documents, the wording of answers, the individual ticket operations,
HTTP clients, creation and deletion of conversations. Tokens, filters, audit and
observability hold no state that an interleaving could disturb. The web client is
view state; its reconnect is the counterpart of run events.

Details that are left out where the rest of the function is modelled, none of which a
property depends on:

* `PolicyRetrieval.bonus` has neither the bonus for phrases the query shares with a
  chunk nor the one for a root in the name of a chunk (`app/retrieval/rerank.py:41-44`);
  they change scores, and the properties hold for every order of the ranking.
* `passes_rail` is the rail switched on; switched off or in its log-only setting
  (`app/core/guardrails.py:157`, `165`) it keeps everything.
* `KnowledgeIndex` takes the plan, the call of the provider and the record of
  `embed_with_cache` as one step, and the chunks that lack a vector as one window
  instead of batches (`app/persistence/knowledge_repository.py:250`). While ingests do
  not overlap, which is what `RankedByItsOwnText` is about, no text changes between
  these steps.
* `ServiceWorkflow` assumes that high-risk actions without an implementation are
  registered as change tickets (`high_risk_records_change_ticket`, on by default).
* `ConversationSummaryService.truncate` and the branch of `ChatStreamService` that
  stores a partial answer are not in `ContextEngine`.
* The branch of `resume_graph` for a second interrupt (section 2).

## 7. Plan

Done: the write path (`EffectLedger`, `WriteOnce`, `ToolDelivery`,
`WriteDelivery`), the approval path (`ApprovalResume`), the agent's core
(`ToolCatalog`, `ToolLoop`, `IntentRouting`, `ServiceWorkflow`, `ContextBudget`,
`ContextEngine`, `KnowledgeIndex`, `PolicyRetrieval`), and the proofs about all of
them. Next, in this order:

1. `RunEvents`: append, cancel, complete, replay with a cursor, truncation and
   eviction, two requests with one run id, and the client's reconnect. Abstract
   specification: a log of which every reader sees a gapless suffix or is told
   of the gap. Two readers, four events, a cap of two.
2. `Accounts`: invitation create, accept, revoke with crashes, and the
   last-administrator check, two administrators acting at once; the gateway's
   breaker; tickets.
