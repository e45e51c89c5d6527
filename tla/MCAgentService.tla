---------------------------- MODULE MCAgentService ----------------------------
(* The components of the agent service that share no state within a step,   *)
(* checked side by side: a behaviour runs the component its part names,     *)
(* while the others rest in an initial state.                               *)
EXTENDS MCToolLoop, ServiceWorkflow, ContextEngine, KnowledgeIndex, PolicyRetrieval

CONSTANTS c1, c2,  \* two turns of one conversation
          k1, k2,  \* a thread that ingests and one that queries
          r1, r2   \* two role sets

VARIABLE part

MCSymmetry == Permutations({u1, u2}) \cup Permutations({c1, c2}) \cup Permutations({r1, r2})

(****************************** the tool loop *****************************)
\* One turn at work, under every kind of batch and answer; it goes into a second
\* round only while all messages arrived whole, and time passes once a breaker
\* counts, while it may still be asked.
WholeSoFar(u) ==
  \A call \in ToSet(u.calls) \cup {r.call : r \in ToSet(u.results)} : call.args \notin {"none", "cut"}
OneTurn ==
  /\ \/ \E t \in Turns : (\A s \in Turns \ {t} : turn[s] = Started) /\ TurnNext(t)
     \/ /\ \E tool \in DOMAIN TOOLS : breaker[tool].failures > 0
        /\ \A t \in Turns : turn[t].pc \in {"ask", "batch"}
        /\ Tick
  /\ \A t \in Turns : turn'[t].rounds = 2 => WholeSoFar(turn'[t])
\* All turns at work, while a service that reads ask does not answer (one answer
\* would end what DownDependencyContained is about); the second round asks what
\* the first did not, since a repeated call is refused whatever the breaker says.
ServiceDown ==
  /\ clock < Cooldown
  /\ \A t \in Turns :
       /\ turn[t].pc \in {"ask", "batch"} /\ turn[t].mode # "rules"
       /\ \A i \in DOMAIN turn[t].calls :
            LET call == turn[t].calls[i]
            IN call.tool = "ticket_list" /\ call.args \in (IF turn[t].rounds = 1 THEN {"y", "z"} ELSE {"x"})
       /\ \A k \in DOMAIN turn[t].results :
            turn[t].results[k].answer \in {"none", "lost"} /\ turn[t].results[k].code # "UNCLASSIFIED"

(**************************** the context engine **************************)
MCTexts == [short |-> 20, long |-> 900]
Item(id, rank, size, score) == [id |-> id, rank |-> rank, size |-> size, score |-> score]
Finding(id, size, ok) == [id |-> id, size |-> size, eligible |-> ok, expired |-> FALSE]
Agent(profile, approved, slots, tools, found, documents, knowledge) ==
  [profile |-> profile, approval |-> approved, slots |-> slots, tools |-> tools,
   evidence |-> found, documents |-> documents, knowledge |-> knowledge]
MCAgentStates ==
  {Agent(300, 10, 30, <<Finding("a", 90, TRUE), Finding("b", 300, TRUE), Finding("a", 40, TRUE)>>,
         <<Item("p", 16, 120, 2), Item("q", 17, 200, 3), Item("p", 16, 50, 3), Item("r", 18, 90, 3)>>,
         <<>>, 0),
   Agent(60, 700, 0, <<Finding("a", 90, FALSE)>>, <<>>, <<Item("d", 4, 250, 1)>>, 0),
   Agent(0, 10, 0, <<>>, <<>>, <<>>, 400)}

(**************************** the service workflow ************************)
Said(words, before, semantic, llm, blocked) ==
  [text |-> words, context |-> before, semantic |-> semantic, llm |-> llm, blocked |-> blocked]
Like(rule, confidence) == {[rule |-> rule, confidence |-> confidence]}
Proposal(domain, operation, confidence) ==
  {[domain |-> domain, operation |-> operation, agent |-> "", confidence |-> confidence]}
MCMessages ==
  {Said({"ticket_merge", "ticket_status"}, {}, {}, {}, FALSE),
   Said({"vpn_request", "it_service"}, {}, {}, {}, FALSE),
   Said({"vpn_request"}, {"vpn_policy"}, {}, {}, FALSE),
   Said({"finance_service"}, {}, {}, {}, FALSE),
   Said({"approval_decision"}, {}, {}, {}, FALSE),
   Said({"ticket_status"}, {}, {}, {}, FALSE),
   Said({"platform_capabilities"}, {}, {}, {}, FALSE),
   Said({}, {}, {}, {}, FALSE),
   Said({}, {}, {}, {}, TRUE),
   Said({}, {}, Like("finance_service", 70), {}, FALSE),
   Said({}, {}, Like("finance_service", 55), {}, FALSE),
   Said({}, {}, Like("vpn_request", 70), Proposal("network", "submit", 80), FALSE)}
Person(id, held) == [id |-> id, roles |-> held]
MCDeciders == {Person("requester", {"approver"}), Person("approver", {"approver"}),
               Person("colleague", {"employee"})}
\* What another release may carry: the actions the tests of the repository wire.
Pilot ==
  [intents |-> [ticket_merge |-> "ticket_merge", vpn_request |-> "test_system_write",
                finance_service |-> "test_pending_write"],
   actions |-> [ticket_merge |-> WriteAction(TRUE, FALSE, "requester"),
                test_system_write |-> WriteAction(FALSE, TRUE, "system"),
                test_pending_write |-> WriteAction(FALSE, TRUE, "requester")]]
MCReleases == {DeployedActions, Pilot}
MCUserRoles == {{"it_staff"}, {"employee"}, {"auditor"}}

(**************************** the knowledge index *************************)
MCReplicaOf == [t \in {k1, k2} |-> "agent-1"]
MCChunks == <<"c1", "c2">>

(******************************** retrieval *******************************)
Document(base, title, status, readers, authority, from, until) ==
  [base |-> base, title |-> title, status |-> status, roles |-> readers,
   authority |-> authority, from |-> from, until |-> until]
MCDocuments ==
  [vpn |-> Document("it", "vpn", "active", {}, 90, 2025, 0),
   vpn_old |-> Document("it", "vpn", "archived", {}, 90, 2023, 2024),
   admin |-> Document("it", "admin", "active", {"it_staff"}, 95, 0, 0),
   travel |-> Document("finance", "travel", "active", {}, 80, 0, 2025)]
Piece(id, document, parent, size) ==
  [id |-> id, document |-> document, parent |-> parent, size |-> size]
MCChunkList ==
  <<Piece("v0", "vpn", "none", 200), Piece("v1", "vpn", "v0", 100), Piece("v2", "vpn", "v0", 150),
    Piece("v3", "vpn", "v0", 150), Piece("o0", "vpn_old", "none", 50), Piece("a0", "admin", "none", 50),
    Piece("a1", "admin", "a0", 50), Piece("a2", "admin", "a0", 50), Piece("t0", "travel", "none", 50)>>
Orders == {<<"v0", "v1", "v2", "v3", "a0", "t0">>, <<"a0", "a1", "a2", "v1", "o0">>,
           <<"t0", "v3", "a1", "v2", "v1", "v0">>}
MCRequests ==
  [roles : {{}, {"employee"}, {"it_staff"}}, task : {"policy_query", "ticket_investigation", "mixed"},
   scopes : {{}, {"it"}}, year : {0, 2024}, lexical : Orders, dense : {<<>>, <<"t0", "a2", "v3">>},
   ranking : {<<>>, <<"v3", "v3", "a1", "zz">>}, top_k : {2, 8},
   tickets : {<<"k2", "k1">>}, max_steps : {2}, flagged : {{}, {"v2", "k1"}}]

MCTickets == [k1 |-> [roles |-> {}], k2 |-> [roles |-> {"it_staff"}]]
MCBases == [it |-> [roles |-> {}], finance |-> [roles |-> {"employee", "it_staff"}]]

(******************************** one of them *****************************)
SomeMessage == CHOOSE m \in MCMessages : TRUE
SomeRequest == CHOOSE r \in MCRequests : TRUE
NoTools == Init /\ settings.confirm
NoFlow == /\ WorkflowInit /\ message = SomeMessage
          /\ roles = {"employee"} /\ release = DeployedActions
NoSearch == SearchInit /\ request = SomeRequest

MCInit ==
  /\ ContextInit /\ KnowledgeInit
  /\ \/ part = "tools"    /\ Init    /\ NoFlow       /\ NoSearch
     \/ part = "workflow" /\ NoTools /\ WorkflowInit /\ NoSearch
     \/ part = "search"   /\ NoTools /\ NoFlow       /\ SearchInit
     \/ part \in {"process", "context", "index"} /\ NoTools /\ NoFlow /\ NoSearch

MCNext ==
  /\ UNCHANGED part
  /\ \/ /\ \/ part = "tools"   /\ OneTurn
           \/ part = "process" /\ Next /\ ServiceDown'
        /\ UNCHANGED <<workflow_vars, context_vars, knowledge_vars, search_vars>>
     \/ /\ part = "workflow" /\ WorkflowNext
        /\ UNCHANGED <<vars, context_vars, knowledge_vars, search_vars>>
     \/ /\ part = "context" /\ ContextNext
        /\ UNCHANGED <<vars, workflow_vars, knowledge_vars, search_vars>>
     \/ /\ part = "index" /\ KnowledgeNext
        /\ UNCHANGED <<vars, workflow_vars, context_vars, search_vars>>
     \/ /\ part = "search" /\ SearchNext
        /\ UNCHANGED <<vars, workflow_vars, context_vars, knowledge_vars>>

MCSpec ==
  MCInit /\ [][MCNext]_<<part, vars, workflow_vars, context_vars, knowledge_vars, search_vars>>

(******************************* properties *******************************)
\* Every variable keeps its type.
EveryTypeOK == TypeOK /\ WorkflowTypeOK /\ ContextTypeOK /\ KnowledgeTypeOK /\ SearchTypeOK
=============================================================================
