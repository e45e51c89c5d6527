----------------------------- MODULE ToolCatalog -----------------------------
(* What the tool layer decides without keeping state: the catalog          *)
(* (tools/catalog.py), the permissions (registry/rbac.py), the rails        *)
(* (core/guardrails.py), the failure tables (tools/failures.py), the retry  *)
(* rule (tools/resilience.py), the ticket adapter (adapters/ticket.py) and  *)
(* the assembly of a streamed decision (tools/calling.py).                  *)
EXTENDS Integers, Sequences, FiniteSets, SequencesExt

\* Definitions named ...Broken stand for a plausible bug in the definition that
\* follows; no other definition uses them.

(***************************** catalog.py *********************************)
ToolSpec(permission, writes, policy, needs) ==
  [permission |-> permission, writes |-> writes, policy |-> policy, needs_number |-> needs]

TOOLS ==
  [ticket_create  |-> ToolSpec("ticket:create", TRUE, "confirm", TRUE),
   ticket_list    |-> ToolSpec("ticket:read", FALSE, "direct", FALSE),
   ticket_get     |-> ToolSpec("ticket:read", FALSE, "direct", FALSE),
   ticket_comment |-> ToolSpec("ticket:comment", TRUE, "confirm", TRUE),
   ticket_merge   |-> ToolSpec("ticket:merge", TRUE, "approval", TRUE)]

known(tool) == tool \in DOMAIN TOOLS
writes(tool) == known(tool) /\ TOOLS[tool].writes
approval_gated(tool) == TOOLS[tool].policy = "approval"
direct_tools == {tool \in DOMAIN TOOLS : ~approval_gated(tool)}

(******************************* rbac.py **********************************)
ROLE_PERMISSIONS ==
  LET desk == {"service:request", "ticket:read", "ticket:create", "ticket:comment"}
      staff == desk \cup {"ticket:merge"}
  IN [employee |-> desk \cup {"knowledge:read"}, it_user |-> desk, it_staff |-> staff,
      network_user |-> desk, network_admin |-> staff, hr_user |-> desk, hr_staff |-> staff,
      finance_user |-> desk, approver |-> desk \cup {"approval:read", "approval:create"},
      auditor |-> {"knowledge:read", "ticket:read"}]

granted_permissions(roles) ==
  IF "admin" \in roles
  THEN UNION {ROLE_PERMISSIONS[r] : r \in DOMAIN ROLE_PERMISSIONS}
       \cup {TOOLS[tool].permission : tool \in DOMAIN TOOLS}
  ELSE IF roles = {} THEN {"knowledge:read"}
  ELSE UNION {ROLE_PERMISSIONS[r] : r \in roles \cap DOMAIN ROLE_PERMISSIONS}

authorize_tool(roles, tool) == TOOLS[tool].permission \in granted_permissions(roles)

(****************************** failures.py *******************************)
\* The dependency itself failed: these count towards the breaker.
TRANSPORT_CODES ==
  {"TOOL_PROVIDER_UNAVAILABLE", "TOOL_PROVIDER_ERROR", "TICKET_SERVICE_UNAVAILABLE",
   "TICKET_SERVICE_ERROR", "TOOL_CALL_TIMEOUT", "RESULT_UNKNOWN", "INVALID_INTERNAL_CALLER"}

\* A different value would work.
ARGUMENT_CODES ==
  {"MERGE_TARGETS_MISSING", "TOOL_REQUEST_REJECTED", "TOOL_TARGET_NOT_FOUND",
   "TICKET_NOT_FOUND", "SPLIT_COMMENT_NOT_FOUND", "INVALID_TICKET_TYPE",
   "INVALID_TICKET_STATUS", "INVALID_LINK_TYPE", "INVALID_REQUEST",
   "TOOL_ARGUMENTS_MISSING", "MERGE_SELF", "LINK_SELF", "MERGE_CYCLE"}

\* A permission would work.
PERMISSION_CODES ==
  {"RBAC_DENIED", "APPROVAL_GATED", "FORBIDDEN_TICKET_ACTION", "INTERNAL_NOTE_FORBIDDEN"}

counts_towards_breaker(code) == code \in TRANSPORT_CODES
needs_user_input(code) == code \in ARGUMENT_CODES \cup PERMISSION_CODES

\* Advice: the tool cannot be used here, choose another one.
CHANGE_TOOL_CODES ==
  {"TOOL_UNKNOWN", "AGENT_TOOL_NOT_ALLOWED", "APPROVAL_GATED", "TOOL_NOT_IMPLEMENTED"}

\* Advice: what became of the effect is not known.  Every code with an entry of
\* its own that is not here says that nothing happened.
UNKNOWN_EFFECT_CODES ==
  {"TOOL_PROVIDER_ERROR", "TICKET_SERVICE_ERROR", "TOOL_CALL_TIMEOUT", "RESULT_UNKNOWN",
   "RESULT_SCHEMA_VIOLATION", "UNCLASSIFIED"}

(***************************** guardrails.py ******************************)
\* An argument the schema does not declare, or a text that gives instructions.
screen_tool_input(tool, args) == args \notin {"undeclared", "injection"}

\* What came back is bounded and screened like a retrieved document.
screen_tool_output(answer) == answer # "flagged"

(***************************** resilience.py ******************************)
\* One attempt ends in: connect - nothing was sent; lost - sent, no answer read;
\* busy - 429 or 5xx; or an answer.
is_connection_failure(answer) == answer = "connect"
is_transient(answer) == answer \in {"connect", "lost", "busy"}
is_safe_to_retryBroken(answer, w) == is_transient(answer)  \* a write like a read
is_safe_to_retry(answer, w) == IF w THEN is_connection_failure(answer) ELSE is_transient(answer)

\* Tenths of a second.
RetryPolicy(w) == [max_attempts |-> IF w THEN 2 ELSE 3, initial |-> 2, factor |-> 3,
                   cap |-> 20, budget |-> 80]
backoff_for(policy, attempt) ==
  LET raw == policy.initial * policy.factor ^ (attempt - 1)
  IN IF raw < policy.cap THEN raw ELSE policy.cap

\* How many attempts are made when attempt n ends in script[n]: the first one that
\* must not be repeated, has no successor, or whose wait is beyond the budget.
call_with_retry(script, w) ==
  LET policy == RetryPolicy(w)
      waited[n \in 0..policy.max_attempts] ==
        IF n = 0 THEN 0 ELSE waited[n - 1] + backoff_for(policy, n)
      ends(n) == \/ ~is_safe_to_retry(script[n], w)
                 \/ n = policy.max_attempts
                 \/ waited[n] > policy.budget
  IN CHOOSE n \in 1..policy.max_attempts : ends(n) /\ \A m \in 1..(n - 1) : ~ends(m)

(**************************** adapters/ticket.py **************************)
\* The code the adapter puts on the last answer; "none" is a success.
adapter_code(answer, w) ==
  CASE answer \in {"connect", "lost"} -> "TICKET_SERVICE_UNAVAILABLE"
    [] answer = "busy"         -> IF w THEN "TICKET_SERVICE_ERROR" ELSE "TICKET_SERVICE_UNAVAILABLE"
    [] answer = "unauthorised" -> "INVALID_INTERNAL_CALLER"
    [] answer = "missing"      -> "TOOL_TARGET_NOT_FOUND"
    [] answer = "rejected"     -> "TOOL_REQUEST_REJECTED"
    [] answer = "garbled"      -> "TICKET_SERVICE_ERROR"
    [] answer = "refused"      -> "TICKET_NOT_FOUND"
    [] OTHER                   -> "none"

apply_result_contractBroken(tool, code, answer) ==  \* classified as a rejection
  IF code = "none" /\ TOOLS[tool].needs_number /\ answer = "numberless"
  THEN "TOOL_REQUEST_REJECTED" ELSE code

\* A success without the number the tool promised is rewritten into a failure.
apply_result_contract(tool, code, answer) ==
  IF code = "none" /\ TOOLS[tool].needs_number /\ answer = "numberless"
  THEN "RESULT_SCHEMA_VIOLATION" ELSE code

\* Requests that reached the service, and whether it carried one out.
Delivered(script, n) == Cardinality({m \in 1..n : script[m] # "connect"})
MayApply(answer) == answer \in {"lost", "busy", "garbled", "answered", "numberless", "flagged"}
MustApply(answer) == answer \in {"answered", "numberless", "flagged"}

execute(tool, script) ==
  LET w == writes(tool)
      n == call_with_retry(script, w)
  IN [code |-> adapter_code(script[n], w), answer |-> script[n], attempts |-> n,
      delivered |-> Delivered(script, n)]

(******************************* calling.py *******************************)
\* A line of the stream: to which call it belongs (0: the provider gives no index),
\* what it names, the parts of the arguments it brings, and whether it is JSON.
Fragment(index, id, tool, args, read) ==
  [index |-> index, id |-> id, tool |-> tool, args |-> args, read |-> read]

\* The text of the arguments, cut in three.
Parts(args) == <<<<args, 1>>, <<args, 2>>, <<args, 3>>>>

\* Calls in the order in which their numbers appear in arrival.  A provider names a
\* call before it sends any of its arguments, or sends it whole.
Fragments(calls, arrival, read, split, indexed) ==
  [k \in DOMAIN arrival |->
     LET i == arrival[k]
         before == {j \in 1..(k - 1) : arrival[j] = i}
         index == IF indexed THEN i ELSE 0
     IN IF before = {}
        THEN Fragment(index, calls[i].id, calls[i].tool,
                      IF split THEN <<>> ELSE Parts(calls[i].args), k \in read)
        ELSE Fragment(index, "none", "none", <<<<calls[i].args, Cardinality(before)>>>>, k \in read)]

\* m lines for each of n calls, the first lines in the order of the calls.
Arrivals(n, m) ==
  {a \in [1..(m * n) -> 1..n] :
     /\ \A i \in 1..n : Cardinality({k \in DOMAIN a : a[k] = i}) = m
     /\ \A k \in DOMAIN a : a[k] = 1 \/ \E l \in 1..(k - 1) : a[l] \in {a[k] - 1, a[k]}}

\* The stream breaks off anywhere, and one line on the way may not be JSON.
LinesRead(n) == {(1..m) \ skipped : m \in 0..n, skipped \in {{}} \cup {{k} : k \in 1..n}}

Slot(id, tool, args) == [id |-> id, tool |-> tool, args |-> args]

\* A line without an index opens a slot of its own.
slot_for(slots, f) == IF f.index = 0 THEN Cardinality(DOMAIN slots) + 1 ELSE f.index

\* Slots by index: the name and the id once, the arguments in pieces.
collect_fragments(stream) ==
  FoldLeft(LAMBDA slots, f :
             LET at == slot_for(slots, f)
                 old == IF at \in DOMAIN slots THEN slots[at] ELSE Slot("none", "none", <<>>)
                 new == Slot(IF f.id # "none" THEN f.id ELSE old.id,
                             IF f.tool # "none" THEN f.tool ELSE old.tool, old.args \o f.args)
             IN IF ~f.read THEN slots
                ELSE [i \in DOMAIN slots \cup {at} |-> IF i = at THEN new ELSE slots[i]],
           <<>>, stream)

\* What a JSON parser takes for an object: all parts, or all but a middle one that
\* lay inside a text.
whole(args) == args # <<>> /\ args = Parts(args[1][1])
holed(args) == args # <<>> /\ args = <<<<args[1][1], 1>>, <<args[1][1], 3>>>>

\* A slot without a name, or whose arguments do not parse, is not a call; one that
\* has a name and no arguments at all is a call without arguments.
parsableBroken(slot) == TRUE  \* what arrived is taken for the call
parsable(slot) == slot.args = <<>> \/ whole(slot.args) \/ holed(slot.args)
arguments(slot) ==
  CASE slot.args = <<>>  -> "none"
    [] whole(slot.args) -> slot.args[1][1]
    [] holed(slot.args) -> "cut"
    [] OTHER            -> "partial"

turn_from_fragments(slots) ==
  LET usable == {i \in DOMAIN slots : slots[i].tool # "none" /\ parsable(slots[i])}
      call(i) == [id |-> slots[i].id, tool |-> slots[i].tool, args |-> arguments(slots[i])]
  IN [k \in 1..Cardinality(usable) |->
        call(CHOOSE i \in usable : Cardinality({j \in usable : j < i}) = k - 1)]

\* What the stream of these calls may be decoded to.
Decoded(calls) ==
  LET n == Len(calls)
      of(m, indexed) ==
        {turn_from_fragments(collect_fragments(Fragments(calls, arrival, read, m > 1, indexed))) :
           arrival \in Arrivals(n, m), read \in LinesRead(m * n)}
  IN UNION {of(m, indexed) : m \in {1, 4}, indexed \in BOOLEAN}
=============================================================================
