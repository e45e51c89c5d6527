---------------------------- MODULE IntentRouting ----------------------------
(* How one message becomes a route: the rule table (intent/rules.yaml), the *)
(* choice between rule, example and model (intent/resolver.py), the policy  *)
(* that sets the risk, and the edge out of the orchestrator (graph/root.py).*)
(* Confidences are percentages.  A message is what the rules see of it: the *)
(* rules whose pattern its text matches, those the last six messages and    *)
(* the summary match, the nearest example, and what the model would say.    *)
EXTENDS Integers, FiniteSets

Rule(priority, domain, operation, agent, risk, confidence) ==
  [priority |-> priority, domain |-> domain, operation |-> operation, agent |-> agent,
   risk |-> risk, confidence |-> confidence]

RULES ==
  [platform_capabilities |-> Rule(10, "platform", "query", "knowledge", "low", 99),
   approval_policy       |-> Rule(20, "approval", "query", "knowledge", "low", 97),
   ticket_investigation  |-> Rule(25, "knowledge", "investigate", "knowledge", "low", 95),
   vpn_policy            |-> Rule(30, "network", "query", "knowledge", "low", 97),
   finance_policy        |-> Rule(31, "finance", "query", "knowledge", "low", 97),
   hr_policy             |-> Rule(32, "hr", "query", "knowledge", "low", 97),
   leave_query           |-> Rule(50, "hr", "query", "hr", "low", 98),
   reimbursement_query   |-> Rule(51, "finance", "query", "finance", "low", 98),
   vpn_query             |-> Rule(52, "network", "query", "network", "low", 96),
   ticket_merge          |-> Rule(54, "it", "submit", "it", "high", 93),
   ticket_status         |-> Rule(55, "it", "query", "it", "low", 92),
   approval_decision     |-> Rule(60, "approval", "approve", "approval", "high", 96),
   vpn_request           |-> Rule(70, "network", "submit", "network", "high", 95),
   incident_report       |-> Rule(75, "it", "submit", "it", "medium", 90),
   it_service            |-> Rule(80, "it", "submit", "it", "medium", 95),
   hr_service            |-> Rule(90, "hr", "submit", "hr", "medium", 95),
   finance_service       |-> Rule(91, "finance", "submit", "finance", "high", 95),
   knowledge_general     |-> Rule(100, "knowledge", "query", "knowledge", "low", 85)]

HIGH_CONFIDENCE == 85
CLARIFY_THRESHOLD == 60

Candidate(intent, rule, risk, confidence) ==
  [intent |-> intent, domain |-> rule.domain, operation |-> rule.operation,
   agent |-> rule.agent, risk |-> risk, confidence |-> confidence,
   action |-> IF intent = "platform_capabilities" THEN "capabilities"
              ELSE IF rule.operation = "investigate" THEN "query" ELSE rule.operation]

\* A pattern found in the text, or else in the text of the context.
rule_candidates(message) ==
  LET matched == message.text \cup message.context
      first == {r \in matched : \A q \in matched : RULES[r].priority <= RULES[q].priority}
  IN {Candidate(r, RULES[r], RULES[r].risk, RULES[r].confidence) : r \in first}

\* The nearest example: its rule, without the risk that rule declares.
classify(message) ==
  {Candidate(s.rule, RULES[s.rule], "low", s.confidence) : s \in message.semantic}

agent_for_domain(domain, operation) ==
  IF operation \in {"query", "investigate"}
  THEN IF domain \in {"network", "finance", "hr", "it"} THEN domain ELSE "knowledge"
  ELSE domain

llm_candidate(message) ==
  {Candidate("unlisted", [l EXCEPT !.agent = agent_for_domain(l.domain, l.operation)],
             "low", l.confidence) : l \in message.llm}

FallbackCandidate ==
  Candidate("unlisted", Rule(100, "knowledge", "query", "knowledge", "low", 40), "low", 40)

\* A confident rule decides; then the stronger of rule and example; a candidate
\* that is not confident gives way to the model's, when a model is asked.
select(message) ==
  LET rule == rule_candidates(message)
      semantic == classify(message)
      stronger == \E s \in semantic : \A r \in rule : s.confidence > r.confidence
      better == IF stronger THEN semantic ELSE rule
      sure(C) == \E c \in C : c.confidence >= HIGH_CONFIDENCE
      chosen == CASE sure(rule) -> rule
                  [] ~sure(rule) /\ ~sure(better) /\ llm_candidate(message) # {}
                       -> llm_candidate(message)
                  [] OTHER -> better
  IN IF chosen = {} THEN FallbackCandidate ELSE CHOOSE c \in chosen : TRUE

RISK_ORDER == [low |-> 0, medium |-> 1, high |-> 2]

\* (...Broken: a plausible bug in the definition that follows.)
policy_floorBroken(operation, domain, risk) ==  \* finance is forgotten
  CASE operation = "approve" \/ (operation = "submit" /\ domain = "network") -> "high"
    [] operation = "submit" /\ domain \in {"it", "hr"} -> "medium"
    [] OTHER -> "low"
policy_floor(operation, domain, risk) ==
  CASE operation = "approve" -> "high"
    [] operation = "submit" ->
         (CASE domain \in {"network", "finance"} -> "high"
            [] domain \in {"it", "hr"} -> "medium"
            [] OTHER -> risk)
    [] OTHER -> "low"

\* The floor of the shape; what the rule declares may only raise it.
policy_risk(candidate) ==
  LET floor == policy_floor(candidate.operation, candidate.domain, candidate.risk)
  IN IF RISK_ORDER[candidate.risk] > RISK_ORDER[floor] THEN candidate.risk ELSE floor

\* Below the first threshold the user is asked; below the second the message is
\* a general question, and keeps the risk its candidate had.
confidence_gate(candidate) ==
  LET sure == candidate.confidence >= HIGH_CONFIDENCE
      fair == candidate.confidence >= CLARIFY_THRESHOLD
  IN IF sure \/ fair
     THEN [resolution |-> candidate, clarify |-> ~sure]
     ELSE [resolution |-> [candidate EXCEPT !.domain = "knowledge", !.operation = "query",
                             !.intent = "unlisted", !.agent = "knowledge", !.action = "query"],
           clarify |-> FALSE]

\* What becomes of the selected candidate: the policy sets its risk, then the gate.
resolve_intent(selected) ==
  confidence_gate([selected EXCEPT !.risk = policy_risk(selected)])

\* What the orchestrator writes into the state of the graph for a resolution.
orchestrate(r) ==
  LET agent == IF r.clarify THEN "knowledge" ELSE r.resolution.agent
  IN [intent |-> r.resolution.intent, risk |-> r.resolution.risk, agent |-> agent,
      action |-> IF r.clarify THEN "clarify" ELSE r.resolution.action,
      route |-> IF agent = "knowledge" THEN "knowledge" ELSE "service"]

\* The entry node of the workflow a routed message goes to.
route_domain(routed) ==
  CASE routed.risk = "high" -> "collect_slots"
    [] routed.route = "knowledge" /\ routed.risk # "high" -> "retrieve_knowledge"
    [] OTHER -> "execute_tools"
=============================================================================
