------------------------ MODULE AgentServiceProofs ------------------------
(* Theorems about ServiceWorkflow, for every set of messages, role sets,     *)
(* deciders and releases, every lifetime of an approval and of a lease, and  *)
(* any number of redeliveries; and about the components of the agent service *)
(* side by side, as MCAgentService puts them.                                *)
EXTENDS MCAgentService, ToolLoopProofs, ContextEngineProofs, RetrievalProofs

(**************************** effects and approvals ***********************)
\* Nodes before an approval is asked for, and nodes that carry the action out.
Early == {"guardian_input", "orchestrate", "retrieve_knowledge", "execute_tools",
          "collect_slots", "prepare_approval"}
Running == {"invoke", "finish_effect"}
Acting == {"execute_approved_action"} \cup Running

\* The records keep their fields.
Shapes ==
  /\ DOMAIN state = {"status", "routed", "pending", "writes", "registered"}
  /\ DOMAIN effect = {"status", "action", "at"}
  /\ \A task \in approval :
       DOMAIN task = {"status", "action", "user_id", "required", "decided_by", "consumed",
                      "created_at"}

\* There is at most one approval, of the requester, for the pending action.
OneApproval ==
  /\ \A s, t \in approval : s = t
  /\ \A task \in approval : task.user_id = Requester /\ task.action = state.pending

\* An approval is approved by somebody who may.
Authorised(task) ==
  \E d \in Deciders : /\ d.id = task.decided_by /\ d.id # Requester
                      /\ d.roles \cap (task.required \cup {"admin"}) # {}
ApprovedByOther == \A task \in approval : task.status = "approved" => Authorised(task)

\* Nothing is approved or started early, and whoever acts was approved.
Gate ==
  /\ node \in Early => approval = {} /\ effect.status = "none"
  /\ node \in Acting => \E task \in approval : task.status = "approved"
  /\ node \in Running => effect.status = "started"

StartedAsApproved ==
  effect.status # "none" =>
    \E task \in approval : task.status = "approved" /\ task.action = effect.action

ApprovalInv == Shapes /\ OneApproval /\ ApprovedByOther /\ Gate /\ StartedAsApproved

\* Nothing is asked for at the start.
LEMMA ApprovalInit == WorkflowInit => ApprovalInv
  <1> SUFFICES ASSUME WorkflowInit PROVE ApprovalInv
    OBVIOUS
  <1>1. /\ DOMAIN state = {"status", "routed", "pending", "writes", "registered"}
        /\ DOMAIN effect = {"status", "action", "at"} /\ effect.status = "none"
        /\ approval = {} /\ node = "guardian_input"
    BY DEF WorkflowInit
  <1> QED
    BY <1>1 DEF ApprovalInv, Shapes, OneApproval, ApprovedByOther, Gate, StartedAsApproved,
                Early, Acting, Running

\* The action that is run is the one the approval names, also when the approval
\* cannot be read.
LEMMA ActionOfRecord ==
  ASSUME OneApproval, NEW row \in Readable, NEW task \in approval
  PROVE  action_to_run(row) = task.action
  <1>1. CASE approved_action(row) = ""
    BY <1>1 DEF action_to_run, OneApproval
  <1>2. CASE approved_action(row) # ""
    <2>1. row = approval
      BY <1>2 DEF Readable, approved_action
    <2>2. (CHOOSE t \in row : TRUE) = task
      BY <2>1 DEF OneApproval
    <2> QED
      BY <1>2, <2>2 DEF action_to_run, approved_action
  <1> QED
    BY <1>1, <1>2

\* Steps that leave the approval, the effect and the pending action alone.
LEMMA ApprovalQuiet ==
  ASSUME ApprovalInv, UNCHANGED <<approval, effect>>, state'.pending = state.pending,
         DOMAIN state' = DOMAIN state, node' \in Early => node \in Early,
         node' \in Acting => \E task \in approval : task.status = "approved",
         node' \in Running => effect.status = "started"
  PROVE  ApprovalInv'
  BY DEF ApprovalInv, Shapes, OneApproval, ApprovedByOther, Authorised, Gate, StartedAsApproved

\* Every step keeps the invariant about the approval and the effect.
LEMMA ApprovalNext == ApprovalInv /\ [WorkflowNext]_workflow_vars => ApprovalInv'
  <1> SUFFICES ASSUME ApprovalInv, [WorkflowNext]_workflow_vars PROVE ApprovalInv'
    OBVIOUS
  <1>0. DOMAIN state = {"status", "routed", "pending", "writes", "registered"}
    BY DEF ApprovalInv, Shapes
  <1>1. CASE guardian_input
    BY <1>0, <1>1, ApprovalQuiet DEF guardian_input, Fail, RowsUnchanged, Early, Acting, Running
  <1>2. CASE Orchestrate
    <2>1. node' \in {"collect_slots", "retrieve_knowledge", "execute_tools"}
      BY <1>2 DEF Orchestrate, route_domain
    <2> QED
      BY <1>0, <1>2, <2>1, ApprovalQuiet DEF Orchestrate, RowsUnchanged, Early, Acting, Running
  <1>3. CASE RunWorkflow
    BY <1>3, ApprovalQuiet DEF RunWorkflow, RowsUnchanged, Early, Acting, Running
  <1>4. CASE validate_permissions
    BY <1>0, <1>4, ApprovalQuiet DEF validate_permissions, Fail, RowsUnchanged, Early, Acting, Running
  <1>5. CASE prepare_approval
    <2>1. effect.status = "none" /\ effect' = effect /\ node' = "approval_gate"
      BY <1>5 DEF prepare_approval, ApprovalInv, Gate, Early
    <2>2. PICK task : /\ approval' = {task} /\ task.status = "pending"
                      /\ task.user_id = Requester /\ task.action = state'.pending
                      /\ DOMAIN task = {"status", "action", "user_id", "required", "decided_by",
                                        "consumed", "created_at"}
                      /\ DOMAIN state' = DOMAIN state
      BY <1>0, <1>5 DEF prepare_approval
    <2> QED
      BY <2>1, <2>2 DEF ApprovalInv, Shapes, OneApproval, ApprovedByOther, Gate,
                        StartedAsApproved, Early, Acting, Running
  <1>6. CASE SomebodyDecides
    <2>1. PICK d \in Deciders, s \in {"approved", "rejected"} : decide(d, s)
      BY <1>6 DEF SomebodyDecides
    <2>2. PICK task \in approval :
            /\ task.status = "pending" /\ may_decide(d, task)
            /\ approval' = {[task EXCEPT !.status = s, !.decided_by = d.id]}
      BY <2>1 DEF decide
    <2> DEFINE new == [task EXCEPT !.status = s, !.decided_by = d.id]
    <2>3. /\ UNCHANGED <<node, state, effect>>
          /\ approval' = {new}
      BY <2>1, <2>2 DEF decide
    <2>4. /\ DOMAIN new = DOMAIN task /\ new.status = s /\ new.decided_by = d.id
          /\ new.user_id = task.user_id /\ new.action = task.action
          /\ new.required = task.required
      BY DEF ApprovalInv, Shapes
    <2>5. effect.status = "none"
      BY <2>2 DEF ApprovalInv, OneApproval, StartedAsApproved
    <2>6. Authorised(new)
      BY <2>2, <2>4 DEF may_decide, Authorised, ApprovalInv, OneApproval
    <2>7. node \notin Early /\ node \notin Acting
      BY <2>2 DEF ApprovalInv, OneApproval, Gate, Acting, Running
    <2> HIDE DEF new
    <2> QED
      BY <2>3, <2>4, <2>5, <2>6, <2>7
         DEF ApprovalInv, Shapes, OneApproval, ApprovedByOther, Authorised, Gate, StartedAsApproved
  <1>7. CASE approval_gate
    BY <1>0, <1>7, ApprovalQuiet DEF approval_gate, Fail, RowsUnchanged, Early, Acting, Running
  <1>8. CASE execute_approved_action
    <2>1. PICK row \in Readable, reply \in Answers :
            LET approved == approved_action(row)
                mismatch == approved # "" /\ state.pending # "" /\ approved # state.pending
                name == action_to_run(row)
            IN \/ /\ mismatch \/ (name \in DOMAIN release.actions /\ ~may_execute(name, row))
                  /\ state' = Fail /\ node' = "verify_result"
                  /\ told' = told \cup {"refused"}
                  /\ UNCHANGED <<effect, world>>
               \/ /\ ~mismatch /\ name \notin DOMAIN release.actions
                  /\ RecordOnly(reply)
               \/ /\ ~mismatch /\ name \in DOMAIN release.actions /\ may_execute(name, row)
                  /\ run_once(name)
      BY <1>8 DEF execute_approved_action
    <2>2. node \in Acting /\ approval' = approval
      BY <1>8 DEF execute_approved_action, Acting, Running
    <2>3. PICK task \in approval : task.status = "approved"
      BY <2>2 DEF ApprovalInv, Gate
    <2>4. action_to_run(row) = task.action
      BY <2>3, ActionOfRecord DEF ApprovalInv
    <2>5. CASE state' = Fail /\ node' = "verify_result" /\ UNCHANGED effect
      BY <1>0, <2>2, <2>5, ApprovalQuiet DEF Fail, Early, Acting, Running
    <2>6. CASE RecordOnly(reply)
      BY <2>2, <2>6, ApprovalQuiet DEF RecordOnly, Early, Acting, Running
    <2>7. CASE run_once(action_to_run(row))
      <3>1. \/ /\ node' = "verify_result" /\ effect' = effect
               /\ state'.pending = state.pending /\ DOMAIN state' = DOMAIN state
            \/ /\ effect' = [status |-> "started", action |-> task.action, at |-> now]
               /\ node' = "invoke" /\ state' = state
        BY <1>0, <2>4, <2>7 DEF run_once
      <3>2. CASE effect' = effect
        BY <2>2, <2>3, <3>1, <3>2, ApprovalQuiet DEF Early, Acting, Running
      <3>3. CASE /\ effect' = [status |-> "started", action |-> task.action, at |-> now]
                 /\ node' = "invoke" /\ state' = state
        BY <2>2, <2>3, <3>3 DEF ApprovalInv, Shapes, OneApproval, ApprovedByOther, Authorised,
                                Gate, StartedAsApproved, Early, Acting, Running
      <3> QED
        BY <3>1, <3>2, <3>3
    <2> QED
      BY <2>1, <2>5, <2>6, <2>7
  <1>9. CASE Invoke
    <2>1. PICK reply \in Answers, other \in Answers : invoke(reply, other)
      BY <1>9 DEF Invoke
    <2>2. /\ node = "invoke" /\ node' = "finish_effect" /\ UNCHANGED <<approval, effect>>
          /\ state'.pending = state.pending /\ DOMAIN state' = DOMAIN state
      BY <1>0, <2>1 DEF invoke
    <2> QED
      BY <2>2, ApprovalQuiet DEF ApprovalInv, Gate, Early, Acting, Running
  <1>10. CASE finish_effect
    <2>1. /\ effect'.action = effect.action /\ DOMAIN effect' = DOMAIN effect
          /\ UNCHANGED <<approval, state>> /\ node' = "verify_result" /\ node = "finish_effect"
      BY <1>10 DEF finish_effect, ApprovalInv, Shapes
    <2> QED
      BY <2>1 DEF ApprovalInv, Shapes, OneApproval, ApprovedByOther, Authorised, Gate,
                  StartedAsApproved, Early, Acting, Running
  <1>11. CASE verify_result
    BY <1>11, ApprovalQuiet DEF verify_result, RowsUnchanged, Early, Acting, Running
  <1>12. CASE generate_answer
    BY <1>12, ApprovalQuiet DEF generate_answer, RowsUnchanged, Early, Acting, Running
  <1>13. CASE guardian_output
    BY <1>0, <1>13, ApprovalQuiet DEF guardian_output, RowsUnchanged, Early, Acting, Running
  <1>14. CASE mark_resume_result
    <2>1. approval' = {[task EXCEPT !.consumed = TRUE] : task \in approval}
      BY <1>14 DEF mark_resume_result
    <2> DEFINE Used(task, used) ==
          /\ DOMAIN used = DOMAIN task
          /\ used.status = task.status /\ used.action = task.action
          /\ used.user_id = task.user_id /\ used.decided_by = task.decided_by
          /\ used.required = task.required
    <2>2. \A task \in approval : Used(task, [task EXCEPT !.consumed = TRUE])
      BY DEF ApprovalInv, Shapes
    <2>3. /\ \A used \in approval' : \E task \in approval : Used(task, used)
          /\ \A task \in approval : \E used \in approval' : Used(task, used)
      <3>1. ASSUME NEW used \in approval' PROVE \E task \in approval : Used(task, used)
        <4>1. PICK task \in approval : used = [task EXCEPT !.consumed = TRUE]
          BY <2>1
        <4>2. Used(task, used)
          BY <2>2, <4>1
        <4> QED
          BY <4>2
      <3>2. ASSUME NEW task \in approval PROVE \E used \in approval' : Used(task, used)
        <4>1. [task EXCEPT !.consumed = TRUE] \in approval'
          BY <2>1
        <4>2. Used(task, [task EXCEPT !.consumed = TRUE])
          BY <2>2
        <4> HIDE DEF Used
        <4> QED
          BY <4>1, <4>2
      <3> QED
        BY <3>1, <3>2
    <2>4. UNCHANGED <<node, state, effect>> /\ node = "end"
      BY <1>14 DEF mark_resume_result
    <2>5. Shapes' /\ Gate'
      BY <2>3, <2>4 DEF ApprovalInv, Shapes, Gate, Early, Acting, Running
    <2>6. OneApproval'
      <3>1. ASSUME NEW s \in approval', NEW u \in approval' PROVE s = u
        <4>1. PICK a \in approval : s = [a EXCEPT !.consumed = TRUE]
          BY <2>1
        <4>2. PICK b \in approval : u = [b EXCEPT !.consumed = TRUE]
          BY <2>1
        <4>3. a = b
          BY DEF ApprovalInv, OneApproval
        <4> QED
          BY <4>1, <4>2, <4>3
      <3>2. \A used \in approval' : used.user_id = Requester /\ used.action = state'.pending
        BY <2>3, <2>4 DEF ApprovalInv, OneApproval
      <3> QED
        BY <3>1, <3>2 DEF OneApproval
    <2>7. ApprovedByOther'
      BY <2>3 DEF ApprovalInv, ApprovedByOther, Authorised
    <2>8. StartedAsApproved'
      BY <2>3, <2>4 DEF ApprovalInv, StartedAsApproved
    <2> QED
      BY <2>5, <2>6, <2>7, <2>8 DEF ApprovalInv
  <1>15. CASE Redeliver
    BY <1>0, <1>15, ApprovalQuiet DEF Redeliver, RowsUnchanged, Early, Acting, Running
  <1>16. CASE Deploy
    BY <1>16, ApprovalQuiet DEF Deploy, Early, Acting, Running
  <1>17. CASE TimePasses
    BY <1>17, ApprovalQuiet DEF TimePasses, Early, Acting, Running
  <1>18. CASE UNCHANGED workflow_vars
    BY <1>18, ApprovalQuiet DEF workflow_vars, ApprovalInv, Gate
  <1> QED
    BY <1>1, <1>2, <1>3, <1>4, <1>5, <1>6, <1>7, <1>8, <1>9, <1>10, <1>11, <1>12, <1>13,
       <1>14, <1>15, <1>16, <1>17, <1>18 DEF WorkflowNext

\* The invariant about the approval holds in every behaviour.
LEMMA ApprovalAlways == WorkflowSpec => []ApprovalInv
  BY ApprovalInit, ApprovalNext, PTL DEF WorkflowSpec

\* No effect without an approval, no approval by the requester or by somebody
\* without the role, and no other action than the approved one - for every table
\* of actions a release may carry, every redelivery and every unreadable approval
\* (service_workflow.py execute_approved_action).
THEOREM EffectsAreApproved == WorkflowSpec => []EffectAsApproved
  <1>1. ApprovalInv => EffectAsApproved
    BY DEF ApprovalInv, StartedAsApproved, ApprovedByOther, Authorised, EffectAsApproved
  <1> QED
    BY <1>1, ApprovalAlways, PTL

(******************************* the change ticket ************************)
\* The loop ends with one of the attempts.
LEMMA AttemptInRange ==
  ASSUME NEW script, NEW w \in BOOLEAN
  PROVE  call_with_retry(script, w) \in 1..3
  <1> DEFINE policy == RetryPolicy(w)
             waited[n \in 0..policy.max_attempts] ==
               IF n = 0 THEN 0 ELSE waited[n - 1] + backoff_for(policy, n)
             ends(n) == \/ ~is_safe_to_retry(script[n], w)
                        \/ n = policy.max_attempts
                        \/ waited[n] > policy.budget
             last(n) == ends(n) /\ \A m \in 1..(n - 1) : ~ends(m)
  <1>1. call_with_retry(script, w) = CHOOSE n \in 1..policy.max_attempts : last(n)
    BY DEF call_with_retry
  <1>2. policy.max_attempts \in {2, 3}
    BY DEF RetryPolicy
  <1>3. ends(policy.max_attempts)
    OBVIOUS
  <1> HIDE DEF ends
  <1>4. \E n \in 1..policy.max_attempts : last(n)
    <2>1. CASE ends(1)
      BY <1>2, <2>1
    <2>2. CASE ~ends(1) /\ ends(2)
      BY <1>2, <2>2
    <2>3. CASE ~ends(1) /\ ~ends(2)
      BY <1>2, <1>3, <2>3
    <2> QED
      BY <2>1, <2>2, <2>3
  <1> QED
    BY <1>1, <1>2, <1>4

\* A write whose first attempt may have landed is not attempted again.
LEMMA LandedOnce ==
  ASSUME NEW reply, reply # "connect"
  PROVE  call_with_retry([n \in 1..3 |-> reply], TRUE) = 1
  <1> DEFINE script == [n \in 1..3 |-> reply]
             policy == RetryPolicy(TRUE)
             waited[n \in 0..policy.max_attempts] ==
               IF n = 0 THEN 0 ELSE waited[n - 1] + backoff_for(policy, n)
             ends(n) == \/ ~is_safe_to_retry(script[n], TRUE)
                        \/ n = policy.max_attempts
                        \/ waited[n] > policy.budget
             last(n) == ends(n) /\ \A m \in 1..(n - 1) : ~ends(m)
  <1>1. call_with_retry(script, TRUE) = CHOOSE n \in 1..policy.max_attempts : last(n)
    BY DEF call_with_retry
  <1>2. policy.max_attempts = 2
    BY DEF RetryPolicy
  <1>3. ends(1)
    <2>1. script[1] = reply
      OBVIOUS
    <2> QED
      BY <2>1 DEF is_safe_to_retry, is_connection_failure
  <1> HIDE DEF ends
  <1>4. last(1) /\ ~last(2)
    BY <1>3
  <1>5. \A n \in 1..policy.max_attempts : last(n) <=> n = 1
    BY <1>2, <1>4
  <1> HIDE DEF last, policy, script
  <1>6. 1 \in 1..policy.max_attempts
    BY <1>2
  <1>7. (CHOOSE n \in 1..policy.max_attempts : last(n)) = 1
    BY <1>5, <1>6
  <1> QED
    BY <1>1, <1>7 DEF script

\* One request for the change ticket carries out at most one.
LEMMA TicketCarried ==
  ASSUME NEW reply, NEW n \in record_change_ticket(reply).carried
  PROVE  n \in {0, 1}
  <1> DEFINE result == execute("ticket_create", [k \in 1..3 |-> reply])
  <1>1. n \in (IF MustApply(reply) THEN 1 ELSE 0)..(IF MayApply(reply) THEN result.delivered ELSE 0)
    BY DEF record_change_ticket
  <1>2. CASE ~MayApply(reply)
    BY <1>1, <1>2
  <1>3. CASE MayApply(reply)
    <2>1. reply # "connect"
      BY <1>3 DEF MayApply
    <2>2. writes("ticket_create") = TRUE
      BY DEF writes, known, TOOLS, ToolSpec
    <2>3. result.delivered = Delivered([k \in 1..3 |-> reply], 1)
      BY <2>1, <2>2, LandedOnce DEF execute
    <2>4. {m \in 1..1 : [k \in 1..3 |-> reply][m] # "connect"} = {1}
      BY <2>1
    <2>5. result.delivered = 1
      BY <2>3, <2>4, FS_Singleton DEF Delivered
    <2> HIDE DEF result
    <2> QED
      BY <1>1, <1>3, <2>5
  <1> QED
    BY <1>2, <1>3

\* Nodes that come before the request for the ticket.
Unregistered == Early \cup {"approval_gate", "execute_approved_action", "invoke"}

TicketInv ==
  /\ DOMAIN world = {"merged", "tickets"}
  /\ world.tickets \in Nat /\ replays \in Nat
  /\ node \in Unregistered => world.tickets <= replays
  /\ world.tickets <= 1 + replays

\* Steps that ask for no change ticket keep its count.
LEMMA TicketQuiet ==
  ASSUME TicketInv, UNCHANGED <<world, replays>>, node' \in Unregistered => node \in Unregistered
  PROVE  TicketInv'
  BY DEF TicketInv

\* Every step keeps the count of change tickets within the deliveries.
LEMMA TicketNext == TicketInv /\ [WorkflowNext]_workflow_vars => TicketInv'
  <1> SUFFICES ASSUME TicketInv, [WorkflowNext]_workflow_vars PROVE TicketInv'
    OBVIOUS
  <1>1. CASE guardian_input \/ Orchestrate \/ validate_permissions \/ prepare_approval
    BY <1>1, TicketQuiet DEF guardian_input, Orchestrate, validate_permissions, prepare_approval,
                             RowsUnchanged, OutsideUnchanged, Unregistered, Early
  <1>2. CASE RunWorkflow \/ verify_result \/ generate_answer \/ guardian_output
    BY <1>2, TicketQuiet DEF RunWorkflow, verify_result, generate_answer, guardian_output,
                             RowsUnchanged, OutsideUnchanged, Unregistered, Early
  <1>3. CASE SomebodyDecides
    BY <1>3, TicketQuiet DEF SomebodyDecides, decide, OutsideUnchanged
  <1>4. CASE approval_gate
    BY <1>4, TicketQuiet DEF approval_gate, RowsUnchanged, OutsideUnchanged, Unregistered
  <1>5. CASE execute_approved_action
    <2>1. PICK row \in Readable, reply \in Answers :
            \/ node' = "verify_result" /\ UNCHANGED world
            \/ RecordOnly(reply)
            \/ run_once(action_to_run(row))
      BY <1>5 DEF execute_approved_action
    <2>2. node = "execute_approved_action" /\ replays' = replays
      BY <1>5 DEF execute_approved_action, OutsideUnchanged
    <2>3. CASE node' = "verify_result" /\ UNCHANGED world
      BY <2>2, <2>3, TicketQuiet DEF Unregistered, Early
    <2>4. CASE RecordOnly(reply)
      <3>1. PICK n \in record_change_ticket(reply).carried :
              world' = [world EXCEPT !.tickets = @ + n]
        BY <2>4 DEF RecordOnly
      <3>2. n \in {0, 1}
        BY <3>1, TicketCarried
      <3>3. node' = "verify_result"
        BY <2>4 DEF RecordOnly
      <3> QED
        BY <2>2, <3>1, <3>2, <3>3 DEF TicketInv, Unregistered, Early
    <2>5. CASE run_once(action_to_run(row))
      <3>1. UNCHANGED world
        BY <2>5 DEF run_once
      <3> QED
        BY <2>2, <3>1, TicketQuiet DEF Unregistered
    <2> QED
      BY <2>1, <2>3, <2>4, <2>5
  <1>6. CASE Invoke
    <2>1. PICK reply \in Answers, other \in Answers : invoke(reply, other)
      BY <1>6 DEF Invoke
    <2>2. node = "invoke" /\ node' = "finish_effect" /\ replays' = replays
      BY <2>1 DEF invoke, OutsideUnchanged
    <2>3. PICK done \in BOOLEAN, n \in record_change_ticket(other).carried \cup {0} :
            world' = [world EXCEPT !.merged = @ \/ done, !.tickets = @ + n]
      BY <2>1 DEF invoke
    <2>4. n \in {0, 1}
      BY TicketCarried
    <2>5. DOMAIN world' = DOMAIN world /\ world'.tickets = world.tickets + n
      BY <2>3 DEF TicketInv
    <2> QED
      BY <2>2, <2>4, <2>5 DEF TicketInv, Unregistered, Early
  <1>7. CASE finish_effect
    BY <1>7, TicketQuiet DEF finish_effect, OutsideUnchanged, Unregistered, Early
  <1>8. CASE mark_resume_result
    BY <1>8, TicketQuiet DEF mark_resume_result, OutsideUnchanged
  <1>9. CASE Redeliver
    BY <1>9 DEF Redeliver, RowsUnchanged, TicketInv
  <1>10. CASE Deploy \/ TimePasses \/ UNCHANGED workflow_vars
    BY <1>10, TicketQuiet DEF Deploy, TimePasses, workflow_vars
  <1> QED
    BY <1>1, <1>2, <1>3, <1>4, <1>5, <1>6, <1>7, <1>8, <1>9, <1>10 DEF WorkflowNext

\* Every delivery of a decision registers at most one change ticket: the adapter
\* does not resend what may have landed (service_workflow.py _record_change_ticket,
\* resilience.py is_safe_to_retry).
THEOREM TicketsAreBounded == WorkflowSpec => []OneTicketPerDelivery
  <1>1. ASSUME WorkflowInit PROVE TicketInv
    <2>1. /\ DOMAIN world = {"merged", "tickets"} /\ world.tickets = 0 /\ replays = 0
      BY <1>1 DEF WorkflowInit
    <2> QED
      BY <2>1 DEF TicketInv
  <1>2. TicketInv => OneTicketPerDelivery
    BY DEF TicketInv, OneTicketPerDelivery
  <1> QED
    BY <1>1, <1>2, TicketNext, PTL DEF WorkflowSpec

(***************************** what the user is told **********************)
\* How a request to the ticket service ends (ToolCatalog).
AnswerKinds == {"connect", "lost", "busy", "unauthorised", "missing", "rejected", "garbled",
                "refused", "answered", "numberless", "flagged"}

\* A call that is reported as a success was carried out.
LEMMA SuccessWasCarriedOut ==
  ASSUME NEW reply \in AnswerKinds, NEW tool,
         execute(tool, [n \in 1..3 |-> reply]).code = "none"
  PROVE  MustApply(reply)
  <1> DEFINE script == [n \in 1..3 |-> reply]
             n == call_with_retry(script, writes(tool))
  <1>1. writes(tool) \in BOOLEAN
    BY DEF writes, known, TOOLS, ToolSpec
  <1>2. n \in 1..3
    BY <1>1, AttemptInRange
  <1>3. execute(tool, script).code = adapter_code(script[n], writes(tool))
    BY DEF execute
  <1> HIDE DEF n
  <1>4. adapter_code(reply, writes(tool)) = "none"
    BY <1>2, <1>3
  <1> QED
    BY <1>4 DEF adapter_code, MustApply, AnswerKinds

\* A ticket with a number is a ticket.
LEMMA NumberedExists ==
  ASSUME NEW reply \in AnswerKinds, NEW n \in record_change_ticket(reply).carried,
         record_change_ticket(reply).numbered
  PROVE  n = 1
  <1>1. MustApply(reply)
    BY SuccessWasCarriedOut DEF record_change_ticket
  <1>2. n \in {0, 1}
    BY TicketCarried
  <1>3. \E most : n \in 1..most
    BY <1>1 DEF record_change_ticket
  <1> QED
    BY <1>2, <1>3

Succeeded == state.writes = <<TRUE>>
WorldTyped ==
  DOMAIN world = {"merged", "tickets"} /\ world.tickets \in Nat
WritesTyped == state.writes \in {<<>>, <<TRUE>>, <<FALSE>>}
MergeTold ==
  Succeeded \/ effect.status = "succeeded" \/ "write_done" \in told => world.merged = TRUE
TicketTold == state.registered = TRUE \/ "registered" \in told => world.tickets > 0
TruthInv == WorldTyped /\ WritesTyped /\ MergeTold /\ TicketTold

\* A write that was carried out is told from none and from one that was not.
LEMMA OneWrite == <<>> # <<TRUE>> /\ <<FALSE>> # <<TRUE>>
  <1>1. Len(<<>>) = 0 /\ Len(<<TRUE>>) = 1
    OBVIOUS
  <1>2. <<FALSE>>[1] = FALSE /\ <<TRUE>>[1] = TRUE
    OBVIOUS
  <1> QED
    BY <1>1, <1>2

\* A step that leaves alone what the events are about.
LEMMA TruthQuiet ==
  ASSUME TruthInv, UNCHANGED <<world, effect>>,
         state'.writes = state.writes \/ state'.writes = <<>>,
         state'.registered = state.registered \/ state'.registered = FALSE,
         told' \cap {"write_done", "registered"} \subseteq told
  PROVE  TruthInv'
  <1>1. Succeeded' => Succeeded
    BY OneWrite DEF Succeeded
  <1>2. WorldTyped' /\ WritesTyped'
    BY DEF TruthInv, WorldTyped, WritesTyped
  <1> QED
    BY <1>1, <1>2 DEF TruthInv, MergeTold, TicketTold

\* Every step keeps what was told true.
LEMMA TruthNext ==
  ASSUME Answers \subseteq AnswerKinds, TruthInv, Shapes, [WorkflowNext]_workflow_vars
  PROVE  TruthInv'
  <1>0. DOMAIN state = {"status", "routed", "pending", "writes", "registered"}
    BY DEF Shapes
  <1>1. CASE guardian_input \/ Orchestrate \/ validate_permissions \/ guardian_output
    BY <1>0, <1>1, TruthQuiet DEF guardian_input, Orchestrate, validate_permissions,
                                  guardian_output, Fail, RowsUnchanged
  <1>2. CASE RunWorkflow \/ approval_gate
    BY <1>0, <1>2, TruthQuiet DEF RunWorkflow, approval_gate, Fail, RowsUnchanged
  <1>3. CASE prepare_approval
    BY <1>0, <1>3, TruthQuiet DEF prepare_approval
  <1>4. CASE SomebodyDecides \/ mark_resume_result
    BY <1>4, TruthQuiet DEF SomebodyDecides, decide, mark_resume_result
  <1>5. CASE execute_approved_action
    <2>1. PICK row \in Readable, reply \in Answers :
            \/ state' = Fail /\ told' = told \cup {"refused"} /\ UNCHANGED <<effect, world>>
            \/ RecordOnly(reply)
            \/ run_once(action_to_run(row))
      BY <1>5 DEF execute_approved_action
    <2>2. CASE state' = Fail /\ told' = told \cup {"refused"} /\ UNCHANGED <<effect, world>>
      BY <1>0, <2>2, TruthQuiet DEF Fail
    <2>3. CASE RecordOnly(reply)
      <3>1. PICK n \in record_change_ticket(reply).carried :
              world' = [world EXCEPT !.tickets = @ + n]
        BY <2>3 DEF RecordOnly
      <3> DEFINE numbered == record_change_ticket(reply).numbered
      <3>2. n \in {0, 1} /\ (numbered => n = 1)
        BY TicketCarried, NumberedExists
      <3>3. /\ UNCHANGED <<state, effect>>
            /\ told' = told \cup {IF numbered THEN "registered" ELSE "unregistered"}
        BY <2>3 DEF RecordOnly
      <3>4. /\ world'.merged = world.merged /\ world'.tickets = world.tickets + n
            /\ DOMAIN world' = DOMAIN world
        BY <3>1 DEF TruthInv, WorldTyped
      <3> HIDE DEF numbered
      <3>5. WorldTyped'
        BY <3>2, <3>4 DEF TruthInv, WorldTyped
      <3>8. WritesTyped'
        BY <3>3 DEF TruthInv, WritesTyped
      <3>6. MergeTold'
        BY <3>3, <3>4 DEF TruthInv, MergeTold, Succeeded
      <3>7. TicketTold'
        BY <3>2, <3>3, <3>4 DEF TruthInv, WorldTyped, TicketTold
      <3> QED
        BY <3>5, <3>6, <3>7, <3>8 DEF TruthInv
    <2>4. CASE run_once(action_to_run(row))
      <3>1. UNCHANGED <<world, told>>
        BY <2>4 DEF run_once
      <3>2. \/ /\ effect.status = "succeeded" /\ effect' = effect
               /\ state' = [state EXCEPT !.writes = <<TRUE>>]
            \/ effect' = effect /\ state' = [state EXCEPT !.writes = <<FALSE>>]
            \/ /\ effect' = [status |-> "started", action |-> action_to_run(row), at |-> now]
               /\ state' = state
        BY <2>4 DEF run_once
      <3>3. CASE /\ effect.status = "succeeded" /\ effect' = effect
                 /\ state' = [state EXCEPT !.writes = <<TRUE>>]
        <4>1. state'.writes = <<TRUE>> /\ state'.registered = state.registered
          BY <1>0, <3>3
        <4>2. WritesTyped'
          BY <4>1 DEF WritesTyped
        <4> QED
          BY <3>1, <3>3, <4>1, <4>2 DEF TruthInv, WorldTyped, MergeTold, TicketTold
      <3>4. CASE effect' = effect /\ state' = [state EXCEPT !.writes = <<FALSE>>]
        <4>1. state'.writes = <<FALSE>> /\ state'.registered = state.registered
          BY <1>0, <3>4
        <4>2. ~Succeeded' /\ WritesTyped'
          BY <4>1, OneWrite DEF Succeeded, WritesTyped
        <4> QED
          BY <3>1, <3>4, <4>1, <4>2 DEF TruthInv, WorldTyped, MergeTold, TicketTold
      <3>5. CASE /\ effect' = [status |-> "started", action |-> action_to_run(row), at |-> now]
                 /\ state' = state
        <4>1. effect'.status # "succeeded"
          BY <3>5
        <4> QED
          BY <3>1, <3>5, <4>1 DEF TruthInv, WorldTyped, WritesTyped, MergeTold, TicketTold, Succeeded
      <3> QED
        BY <3>2, <3>3, <3>4, <3>5
    <2> QED
      BY <2>1, <2>2, <2>3, <2>4
  <1>6. CASE Invoke
    <2>1. PICK reply \in Answers, other \in Answers : invoke(reply, other)
      BY <1>6 DEF Invoke
    <2> DEFINE action == release.actions[effect.action]
               ticket == record_change_ticket(other)
               call == execute(effect.action, [n \in 1..3 |-> reply])
               ok == action.external /\ call.code = "none" /\ screen_tool_output(reply)
    <2>2. /\ state'.writes = <<ok>> /\ UNCHANGED <<effect, told>>
          /\ state'.registered = (~action.external /\ action.ticket /\ ticket.numbered)
      BY <1>0, <2>1 DEF invoke
    <2>3. Succeeded' => ok
      <3>1. <<ok>>[1] = ok /\ <<TRUE>>[1] = TRUE
        OBVIOUS
      <3> QED
        BY <2>2, <3>1 DEF Succeeded
    <2>4. WritesTyped'
      <3>1. ok \in BOOLEAN
        OBVIOUS
      <3> HIDE DEF ok
      <3> QED
        BY <2>2, <3>1 DEF WritesTyped
    <2>5. PICK done \in BOOLEAN, n \in ticket.carried \cup {0} :
            /\ world' = [world EXCEPT !.merged = @ \/ done, !.tickets = @ + n]
            /\ action.external /\ MustApply(reply) => done
            /\ action.ticket => n \in ticket.carried
      BY <2>1 DEF invoke
    <2>6. ok => done
      BY <2>5, SuccessWasCarriedOut
    <2>7. n \in {0, 1} /\ (action.ticket /\ ticket.numbered => n = 1)
      BY <2>5, TicketCarried, NumberedExists
    <2>8. /\ world.merged = TRUE \/ done => world'.merged = TRUE
          /\ world'.tickets = world.tickets + n /\ DOMAIN world' = DOMAIN world
      BY <2>5 DEF TruthInv, WorldTyped
    <2>9. state'.registered = TRUE => n = 1
      BY <2>2, <2>7
    <2> HIDE DEF ticket, action, ok
    <2>10. WorldTyped'
      BY <2>7, <2>8 DEF TruthInv, WorldTyped
    <2>11. MergeTold'
      BY <2>2, <2>3, <2>6, <2>8 DEF TruthInv, MergeTold
    <2>12. TicketTold'
      BY <2>2, <2>7, <2>8, <2>9 DEF TruthInv, WorldTyped, TicketTold
    <2> QED
      BY <2>4, <2>10, <2>11, <2>12 DEF TruthInv
  <1>7. CASE finish_effect
    <2>1. /\ UNCHANGED <<state, world>>
          /\ told' = told \cup (IF state.registered THEN {"registered"} ELSE {})
          /\ effect'.status = "succeeded" => Succeeded
      BY <1>7 DEF finish_effect, Shapes, Succeeded
    <2>2. "registered" \in told' => state.registered = TRUE \/ "registered" \in told
      BY <2>1
    <2>3. "write_done" \in told' => "write_done" \in told
      BY <2>1
    <2> QED
      BY <2>1, <2>2, <2>3 DEF TruthInv, WorldTyped, WritesTyped, MergeTold, TicketTold, Succeeded
  <1>8. CASE verify_result
    <2>1. UNCHANGED <<state, world, effect>> /\ told' = told \cup {verified(state.writes)}
      BY <1>8 DEF verify_result, RowsUnchanged
    <2>2. verified(state.writes) = "write_done" => Succeeded
      <3>1. CASE state.writes = <<>>
        BY <3>1 DEF verified
      <3>2. CASE state.writes = <<FALSE>>
        <4>1. 1 \in DOMAIN state.writes /\ state.writes[1] = FALSE
          BY <3>2
        <4>2. FALSE \in {state.writes[k] : k \in DOMAIN state.writes}
          BY <4>1
        <4> QED
          BY <4>2 DEF verified
      <3> QED
        BY <3>1, <3>2 DEF TruthInv, WritesTyped, Succeeded
    <2>3. verified(state.writes) # "registered"
      BY DEF verified
    <2> QED
      BY <2>1, <2>2, <2>3 DEF TruthInv, WorldTyped, WritesTyped, MergeTold, TicketTold, Succeeded
  <1>9. CASE generate_answer
    <2>1. UNCHANGED <<state, world, effect>>
      BY <1>9 DEF generate_answer, RowsUnchanged
    <2>2. told' \cap {"write_done", "registered"} \subseteq told
      BY <1>9 DEF generate_answer
    <2> QED
      BY <2>1, <2>2, TruthQuiet
  <1>10. CASE Redeliver
    BY <1>0, <1>10, TruthQuiet DEF Redeliver, RowsUnchanged
  <1>11. CASE Deploy \/ TimePasses \/ UNCHANGED workflow_vars
    BY <1>11, TruthQuiet DEF Deploy, TimePasses, workflow_vars
  <1> QED
    BY <1>1, <1>2, <1>3, <1>4, <1>5, <1>6, <1>7, <1>8, <1>9, <1>10, <1>11 DEF WorkflowNext

\* When the ticket service answers in one of the ways of the catalog, the events
\* of a run claim no write that was not carried out and no change ticket that does
\* not exist, after any failures, redeliveries and releases
\* (service_workflow.py verify_result, resilience.py, adapters/ticket.py).
THEOREM EventsAreTrue ==
  ASSUME Answers \subseteq AnswerKinds
  PROVE  WorkflowSpec => []ToldWhatHappened
  <1>1. ASSUME WorkflowInit PROVE TruthInv
    <2>1. /\ DOMAIN world = {"merged", "tickets"} /\ world.tickets = 0
          /\ state.writes = <<>> /\ state.registered = FALSE /\ effect.status = "none"
          /\ told = {}
      BY <1>1 DEF WorkflowInit
    <2>2. ~Succeeded
      BY <2>1, OneWrite DEF Succeeded
    <2> QED
      BY <2>1, <2>2 DEF TruthInv, WorldTyped, WritesTyped, MergeTold, TicketTold
  <1>2. TruthInv /\ ApprovalInv /\ [WorkflowNext]_workflow_vars => TruthInv'
    BY TruthNext DEF ApprovalInv
  <1>3. TruthInv => ToldWhatHappened
    BY DEF TruthInv, MergeTold, TicketTold, ToldWhatHappened
  <1> QED
    BY <1>1, <1>2, <1>3, ApprovalAlways, PTL DEF WorkflowSpec

(******************************* the approval gate ************************)
Levels == {"low", "medium", "high"}
RuleIds == DOMAIN RULES

\* Every rule declares one of the three risks.
LEMMA RulesDeclareRisk == \A r \in RuleIds : RULES[r].risk \in Levels
  BY DEF RuleIds, RULES, Rule, Levels

IsCandidate(c) ==
  /\ DOMAIN c = {"intent", "domain", "operation", "agent", "risk", "confidence", "action"}
  /\ c.risk \in Levels

\* Whoever proposes the intent - rule, example, model or nobody - the risk is one
\* the policy can compare.
LEMMA SelectedIsCandidate ==
  ASSUME NEW m, m.text \subseteq RuleIds, m.context \subseteq RuleIds
  PROVE  IsCandidate(select(m))
  <1>1. ASSUME NEW intent, NEW rule, NEW risk \in Levels, NEW confidence
        PROVE  IsCandidate(Candidate(intent, rule, risk, confidence))
    BY <1>1 DEF IsCandidate, Candidate
  <1>2. \A c \in rule_candidates(m) : IsCandidate(c)
    <2>1. ASSUME NEW c \in rule_candidates(m) PROVE IsCandidate(c)
      <3>1. PICK r \in RuleIds : c = Candidate(r, RULES[r], RULES[r].risk, RULES[r].confidence)
        BY DEF rule_candidates
      <3> QED
        BY <1>1, <3>1, RulesDeclareRisk
    <2> QED
      BY <2>1
  <1>3. "low" \in Levels
    BY DEF Levels
  <1>4. \A c \in classify(m) : IsCandidate(c)
    BY <1>1, <1>3 DEF classify
  <1>5. \A c \in llm_candidate(m) : IsCandidate(c)
    BY <1>1, <1>3 DEF llm_candidate
  <1>6. IsCandidate(FallbackCandidate)
    BY <1>1, <1>3 DEF FallbackCandidate
  <1> DEFINE rule == rule_candidates(m)
             semantic == classify(m)
             stronger == \E s \in semantic : \A r \in rule : s.confidence > r.confidence
             better == IF stronger THEN semantic ELSE rule
             sure(C) == \E c \in C : c.confidence >= HIGH_CONFIDENCE
             chosen == CASE sure(rule) -> rule
                         [] ~sure(rule) /\ ~sure(better) /\ llm_candidate(m) # {}
                              -> llm_candidate(m)
                         [] OTHER -> better
  <1>7. select(m) = IF chosen = {} THEN FallbackCandidate ELSE CHOOSE c \in chosen : TRUE
    BY DEF select
  <1> HIDE DEF sure, stronger
  <1>8. chosen \in {rule, semantic, llm_candidate(m)}
    OBVIOUS
  <1> HIDE DEF chosen, rule, semantic
  <1>9. \A c \in chosen : IsCandidate(c)
    BY <1>2, <1>4, <1>5, <1>8 DEF rule, semantic
  <1>10. chosen # {} => (CHOOSE c \in chosen : TRUE) \in chosen
    OBVIOUS
  <1> QED
    BY <1>6, <1>7, <1>9, <1>10

\* A gated shape is a high risk, whatever the candidate declares.
LEMMA GatedIsHigh ==
  ASSUME NEW c, IsCandidate(c), Gated(c)
  PROVE  policy_risk(c) = "high"
  <1>1. c.risk \in Levels
    BY DEF IsCandidate
  <1>2. RISK_ORDER["low"] = 0 /\ RISK_ORDER["medium"] = 1 /\ RISK_ORDER["high"] = 2
    BY DEF RISK_ORDER
  <1>3. CASE c.operation = "approve" \/ (c.operation = "submit" /\ c.domain \in {"network", "finance"})
    <2>1. policy_floor(c.operation, c.domain, c.risk) = "high"
      BY <1>3 DEF policy_floor
    <2> QED
      BY <1>1, <1>2, <2>1 DEF policy_risk, Levels
  <1>4. CASE c.risk = "high"
    <2>1. policy_floor(c.operation, c.domain, c.risk) \in Levels
      BY <1>4 DEF policy_floor, Levels
    <2> QED
      BY <1>2, <1>4, <2>1 DEF policy_risk, Levels
  <1> QED
    BY <1>3, <1>4 DEF Gated

\* A gated shape is routed to the high-risk workflow, however sure the resolver is.
LEMMA GatedRoute ==
  ASSUME NEW m, m.text \subseteq RuleIds, m.context \subseteq RuleIds, Gated(select(m))
  PROVE  route_domain(orchestrate(resolve_intent(select(m)))) = "collect_slots"
  <1> DEFINE selected == select(m)
             priced == [selected EXCEPT !.risk = policy_risk(selected)]
  <1>1. IsCandidate(selected)
    BY SelectedIsCandidate
  <1>2. policy_risk(selected) = "high"
    BY <1>1, GatedIsHigh
  <1>3. priced.risk = "high" /\ DOMAIN priced = DOMAIN selected
    BY <1>1, <1>2 DEF IsCandidate
  <1>4. resolve_intent(selected) = confidence_gate(priced)
    BY DEF resolve_intent
  <1> HIDE DEF priced
  <1>5. confidence_gate(priced).resolution.risk = "high"
    <2>1. \/ confidence_gate(priced).resolution = priced
          \/ confidence_gate(priced).resolution =
               [priced EXCEPT !.domain = "knowledge", !.operation = "query",
                              !.intent = "unlisted", !.agent = "knowledge", !.action = "query"]
      BY DEF confidence_gate
    <2> QED
      BY <1>1, <1>3, <2>1 DEF IsCandidate
  <1>6. orchestrate(resolve_intent(selected)).risk = "high"
    BY <1>4, <1>5 DEF orchestrate
  <1> QED
    BY <1>6 DEF route_domain

\* Nodes behind the approval gate.
Past == {"execute_approved_action", "invoke", "finish_effect", "verify_result",
         "generate_answer", "guardian_output", "end"}
Decided == \E task \in approval : task.status # "pending"

GateInv ==
  /\ message \in Messages
  /\ Gated(select(message)) => node \notin {"retrieve_knowledge", "execute_tools"}
  /\ Gated(select(message)) /\ ~message.blocked /\ node \in Past
       => Decided \/ ~authorize_agent(state.routed.agent)

\* Steps that do not get past the gate, and leave a decision and the agent alone.
LEMMA GateQuiet ==
  ASSUME GateInv, UNCHANGED <<message, roles>>, state'.routed = state.routed,
         Decided => Decided',
         node' \in Past => node \in Past \/ Decided' \/ message.blocked,
         node' \notin {"retrieve_knowledge", "execute_tools"}
  PROVE  GateInv'
  <1>1. authorize_agent(state.routed.agent)' <=> authorize_agent(state.routed.agent)
    BY DEF authorize_agent
  <1>2. select(message)' = select(message) /\ message'.blocked = message.blocked
    OBVIOUS
  <1> QED
    BY <1>1, <1>2 DEF GateInv

\* Every step keeps gated shapes on the way to an approval.
LEMMA GateNext ==
  ASSUME \A m \in Messages : m.text \subseteq RuleIds /\ m.context \subseteq RuleIds,
         GateInv, ApprovalInv, [WorkflowNext]_workflow_vars
  PROVE  GateInv'
  <1>0. DOMAIN state = {"status", "routed", "pending", "writes", "registered"}
    BY DEF ApprovalInv, Shapes
  <1>1. CASE guardian_input
    <2>1. UNCHANGED <<message, roles, approval>> /\ state'.routed = state.routed
      BY <1>0, <1>1 DEF guardian_input, Fail, RowsUnchanged, OutsideUnchanged
    <2>2. (node' = "guardian_output" /\ message.blocked) \/ node' = "orchestrate"
      BY <1>1 DEF guardian_input
    <2> QED
      BY <2>1, <2>2, GateQuiet DEF Decided, Past
  <1>2. CASE Orchestrate
    <2>1. /\ UNCHANGED <<message, roles>>
          /\ node' = route_domain(orchestrate(resolve_intent(select(message))))
      BY <1>2 DEF Orchestrate, OutsideUnchanged
    <2>2. Gated(select(message)) => node' = "collect_slots"
      BY <2>1, GatedRoute DEF GateInv
    <2>3. node' \notin Past
      BY <2>1 DEF route_domain, Past
    <2>4. select(message)' = select(message)
      BY <2>1
    <2> QED
      BY <2>1, <2>2, <2>3, <2>4 DEF GateInv
  <1>3. CASE RunWorkflow
    <2>1. UNCHANGED <<message>> /\ node' = "generate_answer"
      BY <1>3 DEF RunWorkflow, OutsideUnchanged
    <2>2. ~Gated(select(message)) /\ select(message)' = select(message)
      BY <1>3, <2>1 DEF RunWorkflow, GateInv
    <2> QED
      BY <2>1, <2>2 DEF GateInv
  <1>4. CASE validate_permissions
    <2>1. UNCHANGED <<message, roles>> /\ state'.routed = state.routed
      BY <1>0, <1>4 DEF validate_permissions, Fail, OutsideUnchanged
    <2>2. \/ node' = "prepare_approval"
          \/ node' = "generate_answer" /\ ~authorize_agent(state.routed.agent)
      BY <1>4 DEF validate_permissions
    <2>3. authorize_agent(state.routed.agent)' <=> authorize_agent(state.routed.agent)
      BY <2>1 DEF authorize_agent
    <2> QED
      BY <2>1, <2>2, <2>3 DEF GateInv, Past
  <1>5. CASE prepare_approval
    <2>1. UNCHANGED <<message>> /\ node' = "approval_gate"
      BY <1>5 DEF prepare_approval, OutsideUnchanged
    <2> QED
      BY <2>1 DEF GateInv, Past
  <1>6. CASE SomebodyDecides
    <2>1. PICK d \in Deciders, s \in {"approved", "rejected"} : decide(d, s)
      BY <1>6 DEF SomebodyDecides
    <2>2. PICK task \in approval : approval' = {[task EXCEPT !.status = s, !.decided_by = d.id]}
      BY <2>1 DEF decide
    <2>3. [task EXCEPT !.status = s, !.decided_by = d.id].status = s
      BY DEF ApprovalInv, Shapes
    <2>4. Decided'
      BY <2>2, <2>3 DEF Decided
    <2>5. UNCHANGED <<message, roles, node, state>>
      BY <2>1 DEF decide, OutsideUnchanged
    <2> QED
      BY <2>4, <2>5 DEF GateInv
  <1>7. CASE approval_gate
    <2>1. /\ UNCHANGED <<message, roles, approval>> /\ state'.routed = state.routed
          /\ node' \in {"execute_approved_action", "generate_answer"} /\ Decided
      BY <1>0, <1>7 DEF approval_gate, Fail, RowsUnchanged, OutsideUnchanged, Decided
    <2>2. Decided'
      BY <2>1 DEF Decided
    <2> QED
      BY <2>1, <2>2, GateQuiet
  <1>8. CASE execute_approved_action
    <2>1. UNCHANGED <<message, roles, approval>> /\ node \in Past
      BY <1>8 DEF execute_approved_action, OutsideUnchanged, Past
    <2>2. node' \in {"verify_result", "invoke"} /\ state'.routed = state.routed
      <3>1. PICK row \in Readable, reply \in Answers :
              \/ state' = Fail /\ node' = "verify_result"
              \/ RecordOnly(reply)
              \/ run_once(action_to_run(row))
        BY <1>8 DEF execute_approved_action
      <3>2. CASE state' = Fail /\ node' = "verify_result"
        BY <1>0, <3>2 DEF Fail
      <3>3. CASE RecordOnly(reply)
        BY <3>3 DEF RecordOnly
      <3>4. CASE run_once(action_to_run(row))
        BY <1>0, <3>4 DEF run_once
      <3> QED
        BY <3>1, <3>2, <3>3, <3>4
    <2> QED
      BY <2>1, <2>2, GateQuiet DEF Decided
  <1>9. CASE Invoke
    <2>1. PICK reply \in Answers, other \in Answers : invoke(reply, other)
      BY <1>9 DEF Invoke
    <2>2. /\ UNCHANGED <<message, roles, approval>> /\ state'.routed = state.routed
          /\ node = "invoke" /\ node' = "finish_effect"
      BY <1>0, <2>1 DEF invoke, OutsideUnchanged
    <2> QED
      BY <2>2, GateQuiet DEF Decided, Past
  <1>10. CASE finish_effect \/ verify_result \/ generate_answer
    <2>1. UNCHANGED <<message, roles, approval, state>> /\ node \in Past
      BY <1>10 DEF finish_effect, verify_result, generate_answer, RowsUnchanged,
                   OutsideUnchanged, Past
    <2>2. node' \in {"verify_result", "generate_answer", "guardian_output"}
      BY <1>10 DEF finish_effect, verify_result, generate_answer
    <2> QED
      BY <2>1, <2>2, GateQuiet DEF Decided
  <1>11. CASE guardian_output
    <2>1. /\ UNCHANGED <<message, roles, approval>> /\ state'.routed = state.routed
          /\ node = "guardian_output" /\ node' = "end"
      BY <1>0, <1>11 DEF guardian_output, RowsUnchanged, OutsideUnchanged
    <2> QED
      BY <2>1, GateQuiet DEF Decided, Past
  <1>12. CASE mark_resume_result
    <2>1. UNCHANGED <<message, roles, node, state>> /\ node = "end"
      BY <1>12 DEF mark_resume_result, OutsideUnchanged
    <2>2. Decided => Decided'
      <3>1. ASSUME NEW task \in approval, task.status # "pending" PROVE Decided'
        <4>1. [task EXCEPT !.consumed = TRUE] \in approval'
          BY <1>12 DEF mark_resume_result
        <4>2. [task EXCEPT !.consumed = TRUE].status = task.status
          BY DEF ApprovalInv, Shapes
        <4> QED
          BY <3>1, <4>1, <4>2 DEF Decided
      <3> QED
        BY <3>1 DEF Decided
    <2> QED
      BY <2>1, <2>2, GateQuiet
  <1>13. CASE Redeliver
    <2>1. /\ UNCHANGED <<message, roles, approval>> /\ state'.routed = state.routed
          /\ node' = "approval_gate"
      BY <1>0, <1>13 DEF Redeliver, RowsUnchanged
    <2> QED
      BY <2>1, GateQuiet DEF Decided, Past
  <1>14. CASE Deploy \/ TimePasses
    <2>1. UNCHANGED <<message, roles, approval, state, node>> /\ node = "approval_gate"
      BY <1>14 DEF Deploy, TimePasses
    <2> QED
      BY <2>1, GateQuiet DEF Decided
  <1>15. CASE UNCHANGED workflow_vars
    <2>1. UNCHANGED <<message, roles, approval, state, node>>
      BY <1>15 DEF workflow_vars
    <2>2. authorize_agent(state.routed.agent)' <=> authorize_agent(state.routed.agent)
      BY <2>1 DEF authorize_agent
    <2>3. Decided' <=> Decided
      BY <2>1 DEF Decided
    <2> QED
      BY <2>1, <2>2, <2>3 DEF GateInv
  <1> QED
    BY <1>1, <1>2, <1>3, <1>4, <1>5, <1>6, <1>7, <1>8, <1>9, <1>10, <1>11, <1>12, <1>13,
       <1>14, <1>15 DEF WorkflowNext

\* A message of a shape that needs approval never reaches the tools or the
\* knowledge workflow, and its run gets past the gate only with a decision or for
\* lack of the right to ask - for every message the rules can see
\* (resolver.py _policy_risk, root.py route_domain).
THEOREM GatedShapesAreGated ==
  ASSUME \A m \in Messages : m.text \subseteq RuleIds /\ m.context \subseteq RuleIds
  PROVE  WorkflowSpec => []GatedShapesAskFirst
  <1>1. WorkflowInit => GateInv
    BY DEF WorkflowInit, GateInv, Past
  <1>2. GateInv /\ ApprovalInv /\ [WorkflowNext]_workflow_vars => GateInv'
    BY GateNext
  <1>3. GateInv => GatedShapesAskFirst
    BY DEF GateInv, GatedShapesAskFirst, Past, Decided
  <1> QED
    BY <1>1, <1>2, <1>3, ApprovalAlways, PTL DEF WorkflowSpec

(********************************* the types ******************************)
Statuses == {"processing", "running", "waiting_approval", "resuming", "failed", "completed"}
EffectStatuses == {"none", "started", "succeeded", "failed"}
WorldType == [merged : BOOLEAN, tickets : Nat]

\* The type invariant but for the approval, whose count comes from OneApproval.
OthersTyped ==
  /\ message \in Messages /\ roles \in UserRoles /\ release \in Releases
  /\ state.status \in Statuses /\ WritesTyped
  /\ effect.status \in EffectStatuses
  /\ world \in WorldType
  /\ now \in 0..MaxClock /\ replays \in 0..MaxRedeliveries

\* A step that sets nothing but the status, clears the writes, or leaves the state.
LEMMA OthersQuiet ==
  ASSUME OthersTyped, UNCHANGED <<message, roles, release, effect, world, now, replays>>,
         state'.status \in Statuses, state'.writes \in {state.writes, <<>>}
  PROVE  OthersTyped'
  BY DEF OthersTyped, WritesTyped

\* A request for the change ticket leaves a world.
LEMMA MoreTickets ==
  ASSUME NEW w \in WorldType, NEW reply, NEW n \in record_change_ticket(reply).carried \cup {0}
  PROVE  [w EXCEPT !.tickets = @ + n] \in WorldType
  <1>1. n \in {0, 1}
    BY TicketCarried
  <1> QED
    BY <1>1 DEF WorldType

LEMMA WorkflowTypedInit == WorkflowInit => OthersTyped
  <1> SUFFICES ASSUME WorkflowInit PROVE OthersTyped
    OBVIOUS
  <1>1. state.status = "processing" /\ state.writes = <<>> /\ effect.status = "none"
    BY DEF WorkflowInit
  <1>2. world \in WorldType
    BY DEF WorkflowInit, WorldType
  <1>3. message \in Messages /\ roles \in UserRoles /\ release \in Releases /\ now = 0 /\ replays = 0
    BY DEF WorkflowInit
  <1> QED
    BY <1>1, <1>2, <1>3, WorkflowAssumption DEF OthersTyped, WritesTyped, Statuses, EffectStatuses

\* Every step of the workflow keeps the types.
LEMMA WorkflowTypedNext ==
  ASSUME OthersTyped, Shapes, [WorkflowNext]_workflow_vars
  PROVE  OthersTyped'
  <1>0. DOMAIN state = {"status", "routed", "pending", "writes", "registered"}
        /\ DOMAIN effect = {"status", "action", "at"}
        /\ state.status \in Statuses
    BY DEF Shapes, OthersTyped
  <1>1. CASE guardian_input \/ Orchestrate \/ validate_permissions \/ guardian_output
    BY <1>0, <1>1, OthersQuiet DEF guardian_input, Orchestrate, validate_permissions,
         guardian_output, Fail, RowsUnchanged, OutsideUnchanged, Statuses
  <1>2. CASE RunWorkflow \/ approval_gate \/ prepare_approval
    BY <1>0, <1>2, OthersQuiet DEF RunWorkflow, approval_gate, prepare_approval, Fail,
         RowsUnchanged, OutsideUnchanged, Statuses
  <1>3. CASE SomebodyDecides \/ mark_resume_result \/ verify_result \/ generate_answer
    BY <1>0, <1>3, OthersQuiet DEF SomebodyDecides, decide, mark_resume_result, verify_result,
         generate_answer, RowsUnchanged, OutsideUnchanged
  <1>4. CASE execute_approved_action
    <2>1. PICK row \in Readable, reply \in Answers :
            \/ state' = Fail /\ UNCHANGED <<effect, world>>
            \/ RecordOnly(reply)
            \/ run_once(action_to_run(row))
      BY <1>4 DEF execute_approved_action
    <2>2. UNCHANGED <<message, roles, release, now, replays>>
      BY <1>4 DEF execute_approved_action, OutsideUnchanged
    <2>3. CASE state' = Fail /\ UNCHANGED <<effect, world>>
      BY <1>0, <2>2, <2>3, OthersQuiet DEF Fail, Statuses
    <2>4. CASE RecordOnly(reply)
      <3>1. PICK n \in record_change_ticket(reply).carried :
              world' = [world EXCEPT !.tickets = @ + n]
        BY <2>4 DEF RecordOnly
      <3>2. UNCHANGED <<state, effect>>
        BY <2>4 DEF RecordOnly
      <3>3. world' \in WorldType
        BY <3>1, MoreTickets DEF OthersTyped
      <3> QED
        BY <2>2, <3>2, <3>3 DEF OthersTyped, WritesTyped
    <2>5. CASE run_once(action_to_run(row))
      <3>1. UNCHANGED world
        BY <2>5 DEF run_once
      <3>2. \/ effect' = effect /\ state' = [state EXCEPT !.writes = <<TRUE>>]
            \/ effect' = effect /\ state' = [state EXCEPT !.writes = <<FALSE>>]
            \/ /\ effect' = [status |-> "started", action |-> action_to_run(row), at |-> now]
               /\ state' = state
        BY <2>5 DEF run_once
      <3>3. effect'.status \in EffectStatuses
        <4>1. CASE effect' = effect
          BY <4>1 DEF OthersTyped
        <4>2. CASE effect' = [status |-> "started", action |-> action_to_run(row), at |-> now]
          <5>1. effect'.status = "started"
            BY <4>2
          <5> QED
            BY <5>1 DEF EffectStatuses
        <4> QED
          BY <3>2, <4>1, <4>2
      <3>4. state'.status = state.status /\ state'.writes \in {state.writes, <<TRUE>>, <<FALSE>>}
        BY <1>0, <3>2
      <3> QED
        BY <2>2, <3>1, <3>3, <3>4 DEF OthersTyped, WritesTyped
    <2> QED
      BY <2>1, <2>3, <2>4, <2>5
  <1>5. CASE Invoke
    <2>1. PICK reply \in Answers, other \in Answers : invoke(reply, other)
      BY <1>5 DEF Invoke
    <2> DEFINE action == release.actions[effect.action]
               ok == /\ action.external
                     /\ execute(effect.action, [n \in 1..3 |-> reply]).code = "none"
                     /\ screen_tool_output(reply)
    <2>2. UNCHANGED <<message, roles, release, now, replays, effect>>
      BY <2>1 DEF invoke, OutsideUnchanged
    <2>3. state'.writes = <<ok>> /\ state'.status = state.status
      BY <1>0, <2>1 DEF invoke
    <2>4. WritesTyped'
      <3>1. ok \in BOOLEAN
        OBVIOUS
      <3> HIDE DEF ok
      <3> QED
        BY <2>3, <3>1 DEF WritesTyped
    <2>5. PICK done \in BOOLEAN, n \in record_change_ticket(other).carried \cup {0} :
            world' = [world EXCEPT !.merged = @ \/ done, !.tickets = @ + n]
      BY <2>1 DEF invoke
    <2>6. world' \in WorldType
      <3> DEFINE merged == world.merged \/ done
      <3>1. merged \in BOOLEAN
        OBVIOUS
      <3>2. world' = [[world EXCEPT !.merged = merged] EXCEPT !.tickets = @ + n]
        BY <2>5
      <3> HIDE DEF merged
      <3>3. [world EXCEPT !.merged = merged] \in WorldType
        BY <3>1 DEF OthersTyped, WorldType
      <3> QED
        BY <3>2, <3>3, MoreTickets
    <2> QED
      BY <2>2, <2>3, <2>4, <2>6 DEF OthersTyped
  <1>6. CASE finish_effect
    <2>1. UNCHANGED <<message, roles, release, now, replays, state, world>>
      BY <1>6 DEF finish_effect, OutsideUnchanged
    <2>2. effect'.status \in EffectStatuses
      BY <1>0, <1>6 DEF finish_effect, EffectStatuses
    <2> QED
      BY <2>1, <2>2 DEF OthersTyped, WritesTyped
  <1>7. CASE Redeliver
    <2>1. UNCHANGED <<message, roles, release, now, effect, world>>
      BY <1>7 DEF Redeliver, RowsUnchanged
    <2>2. replays' \in 0..MaxRedeliveries
      BY <1>7, WorkflowAssumption DEF Redeliver, OthersTyped
    <2>3. state'.status = "waiting_approval" /\ state'.writes = <<>>
      BY <1>0, <1>7 DEF Redeliver
    <2> QED
      BY <2>1, <2>2, <2>3 DEF OthersTyped, WritesTyped, Statuses
  <1>8. CASE Deploy
    BY <1>8 DEF Deploy, OthersTyped, WritesTyped
  <1>9. CASE TimePasses
    <2>1. now' \in 0..MaxClock
      BY <1>9, WorkflowAssumption DEF TimePasses, OthersTyped
    <2> QED
      BY <1>9, <2>1 DEF TimePasses, OthersTyped, WritesTyped
  <1>10. CASE UNCHANGED workflow_vars
    BY <1>10 DEF workflow_vars, OthersTyped, WritesTyped
  <1> QED
    BY <1>1, <1>2, <1>3, <1>4, <1>5, <1>6, <1>7, <1>8, <1>9, <1>10 DEF WorkflowNext

LEMMA AtMostOneApproval ==
  ASSUME OneApproval
  PROVE  Cardinality(approval) <= 1
  <1>1. CASE approval = {}
    BY <1>1, FS_EmptySet
  <1>2. ASSUME NEW task \in approval PROVE Cardinality(approval) <= 1
    <2>1. approval = {task}
      BY DEF OneApproval
    <2> QED
      BY <2>1, FS_Singleton
  <1> QED
    BY <1>1, <1>2

\* The state of a run, the rows and the world keep their types, and a run has at
\* most one approval (graph/state.py AgentState, persistence/approval_store.py).
THEOREM WorkflowIsTyped == WorkflowSpec => []WorkflowTypeOK
  <1>1. OthersTyped /\ ApprovalInv /\ [WorkflowNext]_workflow_vars => OthersTyped'
    BY WorkflowTypedNext DEF ApprovalInv
  <1>2. OthersTyped /\ ApprovalInv => WorkflowTypeOK
    BY AtMostOneApproval
    DEF OthersTyped, WritesTyped, ApprovalInv, WorkflowTypeOK, Statuses, EffectStatuses, WorldType
  <1> QED
    BY <1>1, <1>2, WorkflowTypedInit, ApprovalAlways, PTL DEF WorkflowSpec

(************************ the components side by side *********************)
\* A behaviour of the components side by side is a behaviour of each of them, so
\* what is proved of a component holds where it rests beside the others.
THEOREM EveryComponentRuns ==
  MCSpec => Spec /\ WorkflowSpec /\ ContextSpec /\ KnowledgeSpec /\ SearchSpec
  <1>1. MCInit => Init /\ WorkflowInit /\ ContextInit /\ KnowledgeInit /\ SearchInit
    BY DEF MCInit, NoTools, NoFlow, NoSearch
  <1>2. [MCNext]_<<part, vars, workflow_vars, context_vars, knowledge_vars, search_vars>>
        => /\ [Next]_vars /\ [WorkflowNext]_workflow_vars /\ [ContextNext]_context_vars
           /\ [KnowledgeNext]_knowledge_vars /\ [SearchNext]_search_vars
    BY DEF MCNext, OneTurn, Next
  <1> QED
    BY <1>1, <1>2, PTL DEF MCSpec, Spec, WorkflowSpec, ContextSpec, KnowledgeSpec, SearchSpec

\* Every variable of every component keeps its type, in every run of any of them.
THEOREM EveryTypeKept == MCSpec => []EveryTypeOK
  <1>1. TypeOK /\ WorkflowTypeOK /\ ContextTypeOK /\ KnowledgeTypeOK /\ SearchTypeOK => EveryTypeOK
    BY DEF EveryTypeOK
  <1> QED
    BY <1>1, EveryComponentRuns, LoopIsTyped, WorkflowIsTyped, ContextTypeCorrect,
       KnowledgeIsTyped, SearchTyped, PTL
=============================================================================
