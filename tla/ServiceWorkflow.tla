--------------------------- MODULE ServiceWorkflow ---------------------------
(* One turn through the graph (graph/root.py): the input rail, the route,   *)
(* and for a high-risk route the approval, the approved action and its      *)
(* check (graph/nodes/service_workflow.py, tools/actions.py).  The decision *)
(* is taken by another process while the run is parked; the process may die *)
(* while the approved action runs, and the decision is then delivered again;*)
(* a new release may change the table of actions in between.                *)
EXTENDS ToolCatalog, IntentRouting

CONSTANTS
  Messages,      \* what the rules see of a message (IntentRouting)
  UserRoles,     \* the possible role sets of the requester
  Deciders,      \* records [id, roles]: who may try to decide
  Releases,      \* the action tables a deployment may carry
  Answers,       \* how the ticket service may answer (ToolCatalog)
  ApprovalTTL,   \* system_action_approval_ttl_seconds, in ticks
  Lease,         \* effect lease, in ticks
  MaxClock,      \* bound: ticks
  MaxRedeliveries \* bound: deliveries of one decision after the first

ASSUME WorkflowAssumption == MaxClock \in Nat /\ MaxRedeliveries \in Nat

VARIABLES
  message, roles,   \* the request
  node,             \* the node of the graph that runs next
  state,            \* AgentState: status, route, pending action, writes
  approval,         \* the row of the approval store
  release,          \* the action table of the running process
  effect,           \* the row of the effect ledger
  world,            \* what the ticket service carried out
  told,             \* what the events of the run told the user
  now, replays

workflow_vars ==
  <<message, roles, node, state, approval, release, effect, world, told, now, replays>>

Requester == "requester"

(****************************** tools/actions.py **************************)
WriteAction(external, ticket, authority) ==
  [external |-> external, ticket |-> ticket, authority |-> authority]

\* The table of the deployed release: one action, carried out by the ticket service.
DeployedActions ==
  [intents |-> [ticket_merge |-> "ticket_merge"],
   actions |-> [ticket_merge |-> WriteAction(TRUE, FALSE, "requester")]]

NO_ACTION_INTENTS == {"approval_decision"}

\* The action an intent needs; the empty name when there is none.
resolve(table, intent) ==
  IF intent \in (DOMAIN table.intents) \ NO_ACTION_INTENTS THEN table.intents[intent] ELSE ""

\* An approval that can be read authorises the system to act, once, in time.
evaluate_system_authority(name, authority, row) ==
  \/ authority # "system"
  \/ \E task \in row :
       /\ task.status = "approved"
       /\ task.decided_by \notin {"", Requester} /\ task.user_id = Requester
       /\ task.action \in {"", name}
       /\ ~task.consumed
       /\ now - task.created_at <= ApprovalTTL

(***************************** registry, approvals ************************)
agent_permission(agent) ==
  CASE agent = "knowledge" -> "knowledge:read"
    [] agent = "approval" -> "approval:read"
    [] OTHER -> "service:request"
authorize_agent(agent) == agent_permission(agent) \in granted_permissions(roles)

\* A tool that is not in the catalog is judged by the permission of the agent.
authorize_write(agent, tool) ==
  IF known(tool) THEN authorize_tool(roles, tool) ELSE authorize_agent(agent)

approver_roles_for(agent) ==
  CASE agent = "network" -> {"network_admin", "approver"}
    [] agent = "finance" -> {"approver", "auditor"}
    [] agent = "it" -> {"it_staff", "approver"}
    [] agent = "hr" -> {"hr_staff", "approver"}
    [] OTHER -> {"approver"}

may_decide(decider, task) ==
  /\ decider.id # task.user_id
  /\ "admin" \in decider.roles \/ decider.roles \cap task.required # {}

(********************************* the state ******************************)
Nowhere == [intent |-> "", risk |-> "", agent |-> "", action |-> "", route |-> ""]

WorkflowInit ==
  /\ message \in Messages
  /\ roles \in UserRoles
  /\ node = "guardian_input"
  /\ state = [status |-> "processing", routed |-> Nowhere, pending |-> "", writes |-> <<>>,
              registered |-> FALSE]
  /\ approval = {}
  /\ release \in Releases
  /\ effect = [status |-> "none", action |-> "", at |-> 0]
  /\ world = [merged |-> FALSE, tickets |-> 0]
  /\ told = {}
  /\ now = 0 /\ replays = 0

Fail == [state EXCEPT !.status = "failed"]
OutsideUnchanged == UNCHANGED <<message, roles, release, now, replays>>
RowsUnchanged == UNCHANGED <<approval, effect, world>>

(************************** guardian, orchestrator ************************)
guardian_input ==
  /\ node = "guardian_input"
  /\ IF message.blocked
     THEN node' = "guardian_output" /\ state' = Fail
     ELSE node' = "orchestrate" /\ UNCHANGED state
  /\ UNCHANGED told /\ RowsUnchanged /\ OutsideUnchanged

Orchestrate ==
  /\ node = "orchestrate"
  /\ \E selected \in {select(message)} : \E r \in {resolve_intent(selected)} :
       \E routed \in {orchestrate(r)} :
         /\ state' = [state EXCEPT !.routed = routed, !.status = "running"]
         /\ node' = route_domain(routed)
  /\ UNCHANGED told /\ RowsUnchanged /\ OutsideUnchanged

\* The knowledge workflow, and the service workflow, whose loop is ToolLoop.
RunWorkflow ==
  /\ node \in {"retrieve_knowledge", "execute_tools"}
  /\ node' = "generate_answer"
  /\ UNCHANGED <<state, told>> /\ RowsUnchanged /\ OutsideUnchanged

(**************************** the high-risk workflow **********************)
\* collect_slots, validate_permissions and its edge, prepare_read_only_tools.
validate_permissions ==
  /\ node = "collect_slots"
  /\ IF authorize_agent(state.routed.agent)
     THEN node' = "prepare_approval" /\ UNCHANGED state
     ELSE node' = "generate_answer" /\ state' = Fail
  /\ UNCHANGED told /\ RowsUnchanged /\ OutsideUnchanged

prepare_approval ==
  /\ node = "prepare_approval"
  /\ LET action == resolve(release, state.routed.intent)
     IN /\ approval' = {[status |-> "pending", action |-> action, user_id |-> Requester,
                         required |-> approver_roles_for(state.routed.agent),
                         decided_by |-> "", consumed |-> FALSE, created_at |-> now]}
        /\ state' = [state EXCEPT !.pending = action, !.status = "waiting_approval"]
  /\ node' = "approval_gate"
  /\ UNCHANGED <<effect, world, told>> /\ OutsideUnchanged

\* Another process: somebody decides the approval in the store.
decide(decider, status) ==
  /\ \E task \in approval :
       /\ task.status = "pending" /\ may_decide(decider, task)
       /\ approval' = {[task EXCEPT !.status = status, !.decided_by = decider.id]}
  /\ UNCHANGED <<node, state, effect, world, told>> /\ OutsideUnchanged

\* The parked run is woken with the decision.
approval_gate ==
  /\ node = "approval_gate"
  /\ \E task \in approval :
       \/ /\ task.status = "approved"
          /\ node' = "execute_approved_action"
          /\ state' = [state EXCEPT !.status = "resuming"]
       \/ /\ task.status = "rejected"
          /\ node' = "generate_answer"
          /\ state' = Fail
  /\ UNCHANGED told /\ RowsUnchanged /\ OutsideUnchanged

(************************ execute_approved_action *************************)
\* A store that cannot be read answers like one that has no row.
Readable == {{}, approval}
approved_action(row) == IF \E task \in row : task.action # "" THEN (CHOOSE t \in row : TRUE).action ELSE ""

\* The approved work is registered without an idempotency key: every request
\* that arrives may become a ticket of its own.
record_change_ticket(answer) ==
  LET result == execute("ticket_create", [n \in 1..3 |-> answer])
      least == IF MustApply(answer) THEN 1 ELSE 0
      most == IF MayApply(answer) THEN result.delivered ELSE 0
  IN [carried |-> least..most, numbered |-> result.code = "none" /\ answer # "numberless"]

\* No action is wired: the ticket is the outcome, and the run says so.
RecordOnly(answer) ==
  LET ticket == record_change_ticket(answer)
  IN /\ \E n \in ticket.carried : world' = [world EXCEPT !.tickets = @ + n]
     /\ told' = told \cup {IF ticket.numbered THEN "registered" ELSE "unregistered"}
     /\ node' = "verify_result"
     /\ UNCHANGED <<state, effect>>

\* The ledger lets one caller through: a finished effect answers for itself, a
\* running one that has not outlived its lease refuses, the rest is started anew.
run_once(action) ==
  LET live == effect.status = "started" /\ now - effect.at < Lease
  IN /\ CASE effect.status = "succeeded" ->
               /\ state' = [state EXCEPT !.writes = <<TRUE>>]
               /\ node' = "verify_result" /\ UNCHANGED effect
          [] live ->
               /\ state' = [state EXCEPT !.writes = <<FALSE>>]
               /\ node' = "verify_result" /\ UNCHANGED effect
          [] OTHER ->
               /\ effect' = [status |-> "started", action |-> action, at |-> now]
               /\ node' = "invoke" /\ UNCHANGED state
     /\ UNCHANGED <<world, told>>

may_execute(name, row) ==
  /\ evaluate_system_authority(name, release.actions[name].authority, row)
  /\ release.actions[name].authority = "system" \/ authorize_write(state.routed.agent, name)

action_to_runBroken(row) == resolve(release, state.routed.intent)  \* resolved anew
\* The approval of record names the action; the state only stands in for it.
action_to_run(row) == IF approved_action(row) # "" THEN approved_action(row) ELSE state.pending

execute_approved_action ==
  /\ node = "execute_approved_action"
  /\ \E row \in Readable, answer \in Answers :
       LET approved == approved_action(row)
           mismatch == approved # "" /\ state.pending # "" /\ approved # state.pending
           name == action_to_run(row)
       IN \/ /\ mismatch \/ (name \in DOMAIN release.actions /\ ~may_execute(name, row))
             /\ state' = Fail /\ node' = "verify_result"
             /\ told' = told \cup {"refused"}
             /\ UNCHANGED <<effect, world>>
          \/ /\ ~mismatch /\ name \notin DOMAIN release.actions
             /\ RecordOnly(answer)
          \/ /\ ~mismatch /\ name \in DOMAIN release.actions /\ may_execute(name, row)
             /\ run_once(name)
  /\ UNCHANGED approval /\ OutsideUnchanged

\* The effect itself: the ticket of the approved work, where the action asks for
\* one, then the external call, which is keyed and so carried out at most once.
invoke(answer, reply) ==
  /\ node = "invoke"
  /\ LET action == release.actions[effect.action]
         ticket == record_change_ticket(reply)
         call == execute(effect.action, [n \in 1..3 |-> answer])
         ok == action.external /\ call.code = "none" /\ screen_tool_output(answer)
         carried == call.delivered > 0 /\ MayApply(answer)
         mergers == IF ~action.external THEN {FALSE}
                    ELSE IF MustApply(answer) THEN {TRUE} ELSE {carried, FALSE}
         registered == IF action.ticket THEN ticket.carried ELSE {0}
     IN /\ \E done \in mergers, n \in registered :
             world' = [world EXCEPT !.merged = @ \/ done, !.tickets = @ + n]
        /\ state' = [state EXCEPT !.writes = <<ok>>,
                       !.registered = ~action.external /\ action.ticket /\ ticket.numbered]
  /\ node' = "finish_effect"
  /\ UNCHANGED <<approval, effect, told>> /\ OutsideUnchanged

finish_effect ==
  /\ node = "finish_effect"
  /\ effect' = [effect EXCEPT !.status = IF state.writes = <<TRUE>> THEN "succeeded" ELSE "failed"]
  /\ node' = "verify_result"
  /\ told' = told \cup (IF state.registered THEN {"registered"} ELSE {})
  /\ UNCHANGED <<approval, state, world>> /\ OutsideUnchanged

verifiedBroken(results) == IF results = <<>> THEN "nothing_to_do" ELSE "write_done"
verified(results) ==
  IF FALSE \in {results[k] : k \in DOMAIN results} THEN "write_failed"
  ELSE IF results # <<>> THEN "write_done" ELSE "nothing_to_do"

verify_result ==
  /\ node = "verify_result"
  /\ told' = told \cup {verified(state.writes)}
  /\ node' = "generate_answer"
  /\ UNCHANGED state /\ RowsUnchanged /\ OutsideUnchanged

(***************************** the end of the run *************************)
generate_answer ==
  /\ node = "generate_answer"
  /\ told' = told \cup {IF state.status = "failed" THEN "terminated"
                        ELSE IF state.routed.action \in {"capabilities", "clarify"}
                             THEN state.routed.action ELSE "answer"}
  /\ node' = "guardian_output"
  /\ UNCHANGED state /\ RowsUnchanged /\ OutsideUnchanged

guardian_output ==
  /\ node = "guardian_output"
  /\ state' = [state EXCEPT !.status = IF @ = "failed" THEN "failed" ELSE "completed"]
  /\ node' = "end"
  /\ UNCHANGED told /\ RowsUnchanged /\ OutsideUnchanged

\* The caller of the resume notes that the approval was used.
mark_resume_result ==
  /\ node = "end" /\ \E task \in approval : ~task.consumed
  /\ approval' = {[task EXCEPT !.consumed = TRUE] : task \in approval}
  /\ UNCHANGED <<node, state, told, effect, world>> /\ OutsideUnchanged

(******************************** the outside *****************************)
\* The process dies while the approved action runs; the reconciler delivers the
\* decision again, to the checkpoint the approval names.
Redeliver ==
  /\ node \in {"execute_approved_action", "invoke", "finish_effect", "verify_result",
               "generate_answer", "guardian_output"}
  /\ \E task \in approval : task.status = "approved"
  /\ replays < MaxRedeliveries /\ replays' = replays + 1
  /\ node' = "approval_gate"
  /\ state' = [state EXCEPT !.status = "waiting_approval", !.writes = <<>>, !.registered = FALSE]
  /\ RowsUnchanged
  /\ UNCHANGED <<message, roles, release, told, now>>

\* A run that was parked, or died, continues under another table.
Deploy ==
  /\ node = "approval_gate"
  /\ release' \in Releases \ {release}
  /\ UNCHANGED <<message, roles, node, state, approval, effect, world, told, now, replays>>

TimePasses ==
  /\ node = "approval_gate" /\ now < MaxClock
  /\ now' = now + 1
  /\ UNCHANGED <<message, roles, node, state, approval, release, effect, world, told, replays>>

SomebodyDecides == \E d \in Deciders, s \in {"approved", "rejected"} : decide(d, s)
Invoke == \E answer, reply \in Answers : invoke(answer, reply)

WorkflowNext ==
  \/ guardian_input \/ Orchestrate \/ RunWorkflow
  \/ validate_permissions \/ prepare_approval \/ SomebodyDecides \/ approval_gate
  \/ execute_approved_action \/ Invoke \/ finish_effect \/ verify_result
  \/ generate_answer \/ guardian_output \/ mark_resume_result
  \/ Redeliver \/ Deploy \/ TimePasses

WorkflowSpec == WorkflowInit /\ [][WorkflowNext]_workflow_vars

(******************************* properties *******************************)
WorkflowTypeOK ==
  /\ message \in Messages /\ roles \in UserRoles
  /\ state.status \in {"processing", "running", "waiting_approval", "resuming", "failed", "completed"}
  /\ state.writes \in {<<>>, <<TRUE>>, <<FALSE>>}
  /\ Cardinality(approval) <= 1
  /\ release \in Releases
  /\ effect.status \in {"none", "started", "succeeded", "failed"}
  /\ world \in [merged : BOOLEAN, tickets : Nat]
  /\ now \in 0..MaxClock /\ replays \in 0..MaxRedeliveries

\* A shape that needs approval: an approval decision, a submission to the network
\* or to finance, or a rule that declares its action dangerous.
Gated(candidate) ==
  \/ candidate.operation = "approve"
  \/ candidate.operation = "submit" /\ candidate.domain \in {"network", "finance"}
  \/ candidate.risk = "high"

\* However sure the resolver is of it, and whatever it does to the candidate later,
\* a message of a shape that needs approval never reaches the knowledge workflow
\* or the tool loop, and its run gets past the gate only with a decision, or is
\* refused for lack of the right to ask.  (resolver.py _policy_risk, root.py route_domain)
GatedShapesAskFirst ==
  /\ Gated(select(message)) => node \notin {"retrieve_knowledge", "execute_tools"}
  /\ (Gated(select(message)) /\ ~message.blocked /\ node \in {"invoke", "generate_answer", "end"})
       => \/ \E task \in approval : task.status # "pending"
          \/ ~authorize_agent(state.routed.agent)

\* An effect is only ever started for an approved approval, decided by somebody
\* who is not the requester and holds a role the request asks for, and it is the
\* action the approval was created for: whatever was deployed, replayed or
\* unreadable in between.  (service_workflow.py execute_approved_action)
EffectAsApproved ==
  effect.status # "none" =>
    \E task \in approval :
      /\ task.status = "approved" /\ task.action = effect.action
      /\ \E d \in Deciders : /\ d.id = task.decided_by /\ d.id # Requester
                             /\ d.roles \cap (task.required \cup {"admin"}) # {}

\* The events of the run never claim what did not happen: a write that "was
\* carried out" was, and a registered change ticket exists.  (verify_result)
ToldWhatHappened ==
  /\ "write_done" \in told => world.merged
  /\ "registered" \in told => world.tickets > 0

\* A delivery of the decision registers at most one change ticket, and with no
\* replay there is at most one: the tickets carry no key, so each replay may add
\* one of its own.  (_record_change_ticket)
OneTicketPerDelivery == world.tickets <= 1 + replays
=============================================================================
