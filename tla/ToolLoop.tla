------------------------------ MODULE ToolLoop ------------------------------
(* The tool loop of the agent (graph/nodes/tools.py): a turn asks the model  *)
(* for calls, runs the reads of a batch side by side and the rest in order,  *)
(* hands the results back and asks again; confirm-tier writes wait for the   *)
(* user in a node of their own.  The turns of one process share a circuit    *)
(* breaker for each tool (tools/resilience.py).                              *)
EXTENDS ToolCatalog

CONSTANTS Turns,       \* the turns of one process
          Roles,       \* roles of the user
          AgentTools,  \* the catalog entry of the selected agent
          Batches,     \* what the model may ask for in one turn
          RuleTools,   \* what the rules select when there is no model
          Scripts,     \* how the attempts of one call may end
          MaxRounds, MaxToolCalls, TokenBudget, TurnTokens,
          Threshold, Cooldown,
          MaxTime,     \* bound: clock
          MaxReplays   \* bound: crashes of the confirmation node

AskedCall == [id : STRING, tool : STRING, args : STRING]
ASSUME LoopAssumption == /\ MaxRounds \in Nat \ {0} /\ MaxToolCalls \in Nat \ {0}
                         /\ Threshold \in Nat \ {0} /\ Cooldown \in Nat
                         /\ Batches \subseteq Seq(AskedCall)
                         /\ RuleTools \in Seq(STRING)
                         /\ Scripts \subseteq [1..RetryPolicy(FALSE).max_attempts -> STRING]
                         /\ MaxTime \in Nat

VARIABLES settings, \* the rollout switches, fixed while the process runs
          turn,     \* one record per turn
          breaker,  \* failures and the time of the last opening, per tool
          clock,
          ledger,   \* per turn, the writes the effect ledger holds as succeeded
          seen_down \* per tool: calls begun, and whether one ended in anything but a
                    \* failure of the dependency

vars == <<settings, turn, breaker, clock, ledger, seen_down>>

NoCall == [tool |-> "none", args |-> "none", id |-> "none"]
Result(call, code, answer) == [call |-> call, code |-> code, answer |-> answer]
NoResult == Result(NoCall, "none", "none")
Started == [pc |-> "ask", mode |-> "rule-based", stop |-> "none", rounds |-> 0,
            budget |-> MaxToolCalls, tokens |-> 0, withdrawn |-> {}, seen |-> {},
            calls |-> <<>>, state |-> <<>>, outcome |-> <<>>, results |-> <<>>,
            asked |-> {}, replies |-> {}, pending |-> <<>>, found |-> 0, shown |-> {},
            verdict |-> "none", begun |-> 0, attempts |-> <<>>, replays |-> 0]

Init == /\ settings \in [confirm : BOOLEAN]
        /\ turn = [t \in Turns |-> Started]
        /\ breaker = [tool \in DOMAIN TOOLS |-> [failures |-> 0, opened_at |-> 0]]
        /\ clock = 0
        /\ ledger = [t \in Turns |-> {}]
        /\ seen_down = [tool \in DOMAIN TOOLS |-> [begun |-> 0, answered |-> FALSE]]

(******************************* breaker **********************************)
is_openBroken(tool) == FALSE  \* the breaker is not asked
is_open(tool) == /\ breaker[tool].failures >= Threshold
                 /\ clock - breaker[tool].opened_at < Cooldown

record_success(b) == [b EXCEPT !.failures = 0, !.opened_at = 0]
record_failure(b) ==
  [failures |-> b.failures + 1,
   opened_at |-> IF b.failures + 1 >= Threshold THEN clock ELSE b.opened_at]

\* One table decides: only a failure of the dependency counts.
record_breaker(tool, code) ==
  breaker' = [breaker EXCEPT ![tool] = IF code # "none" /\ counts_towards_breaker(code)
                                       THEN record_failure(@) ELSE record_success(@)]

(************************** asking the model ******************************)
allowed_tools_for == {tool \in direct_tools \cap AgentTools : authorize_tool(Roles, tool)}
candidates(t) == allowed_tools_for \ turn[t].withdrawn

Loops(t) == turn[t].pc = "ask" /\ candidates(t) # {} /\ turn[t].rounds < MaxRounds

TakeBroken(n, calls) == calls  \* the whole message is run
Take(n, calls) == SubSeq(calls, 1, IF n < Len(calls) THEN n ELSE Len(calls))

\* A round: the whole message is echoed, the batch is what the budget allows.
Decide(u, calls, tokens) ==
  IF tokens > TokenBudget THEN [u EXCEPT !.pc = "over", !.tokens = tokens, !.stop = "TOKEN_BUDGET"]
  ELSE IF calls = <<>> THEN [u EXCEPT !.pc = "over", !.tokens = tokens, !.mode = "model"]
  ELSE LET batch == Take(u.budget, calls)
       IN [u EXCEPT !.pc = "batch", !.tokens = tokens, !.mode = "model",
                    !.rounds = @ + 1, !.budget = @ - Len(batch), !.calls = batch,
                    !.state = [i \in DOMAIN batch |-> "new"],
                    !.outcome = [i \in DOMAIN batch |-> NoResult],
                    !.asked = @ \cup {<<u.rounds + 1, calls[i].id>> : i \in DOMAIN calls}]

\* The decision is streamed, and may arrive as less than the model asked for.
Decisions == UNION {Decoded(calls) : calls \in Batches}
model_turn(t) ==
  /\ Loops(t)
  /\ \E calls \in Decisions, cost \in TurnTokens :
       turn' = [turn EXCEPT ![t] = Decide(turn[t], calls, turn[t].tokens + cost)]
  /\ UNCHANGED <<settings, breaker, clock, ledger, seen_down>>

NoModel(t) ==
  /\ Loops(t)
  /\ turn' = [turn EXCEPT ![t].pc = "over", ![t].stop = "NO_MODEL"]
  /\ UNCHANGED <<settings, breaker, clock, ledger, seen_down>>

OutOfRounds(t) ==
  /\ turn[t].pc = "ask" /\ ~Loops(t)
  /\ turn' = [turn EXCEPT ![t].pc = "over"]
  /\ UNCHANGED <<settings, breaker, clock, ledger, seen_down>>

(*************************** running one call *****************************)
\* Reads side by side first, then the writes in the order of the request; one
\* unknown name puts the whole batch in sequence.
reads(calls) == IF \A i \in DOMAIN calls : known(calls[i].tool)
                THEN {i \in DOMAIN calls : ~writes(calls[i].tool)} ELSE {}

ahead(calls, j, i) == IF (j \in reads(calls)) = (i \in reads(calls)) THEN j < i
                     ELSE j \in reads(calls)
run_round_order(calls) == SetToSortSeq(DOMAIN calls, LAMBDA j, i : ahead(calls, j, i))

\* What the rules chose runs one after the other, in the order it was chosen.
InTurn(u, i) ==
  \A j \in DOMAIN u.calls :
    IF u.mode = "rules" THEN j < i => u.state[j] = "done"
    ELSE ahead(u.calls, j, i) =>
           IF i \in reads(u.calls) THEN u.state[j] # "new" ELSE u.state[j] = "done"

\* The gates before anything is claimed.
gate(call) ==
  CASE ~known(call.tool)                   -> "TOOL_UNKNOWN"
    [] known(call.tool) /\ approval_gated(call.tool) -> "APPROVAL_GATED"
    [] OTHER -> IF call.tool \notin AgentTools THEN "AGENT_TOOL_NOT_ALLOWED"
                ELSE IF ~authorize_tool(Roles, call.tool) THEN "RBAC_DENIED"
                ELSE IF is_open(call.tool) THEN "TOOL_CIRCUIT_OPEN" ELSE "none"

fingerprint(call) == <<call.tool, call.args>>
repeats(u, call) == fingerprint(call) \in u.seen
claimedBroken(u, call) == u.seen  \* claimed only after the await
claimed(u, call) == u.seen \cup {fingerprint(call)}

asks_firstBroken(call) == FALSE  \* the tier is not looked at
asks_first(call) == settings.confirm /\ writes(call.tool) /\ TOOLS[call.tool].policy = "confirm"

Report(u, i, code, answer) ==
  LET result == Result(u.calls[i], code, answer)
  IN [u EXCEPT !.state[i] = "done", !.outcome[i] = result, !.results = Append(@, result)]

\* guarded and the start of run_one, up to its first await: a refusal, a call put
\* aside for the user, or a call on its way.
run_one(t, i) ==
  LET u == turn[t]
      call == u.calls[i]
      refused == gate(call)
      taken == [u EXCEPT !.seen = claimed(u, call)]
      goes == [taken EXCEPT !.state[i] = "sent", !.begun = @ + 1]
  IN /\ u.pc = "batch" /\ i \in DOMAIN u.calls /\ u.state[i] = "new" /\ InTurn(u, i)
     /\ turn' = [turn EXCEPT ![t] =
          IF refused # "none" THEN Report(u, i, refused, "none")
          ELSE IF repeats(u, call) THEN Report(u, i, "DUPLICATE_CALL_REFUSED", "none")
          ELSE IF ~screen_tool_input(call.tool, call.args)
               THEN Report(taken, i, "GUARDRAIL_REFUSED", "none")
          ELSE IF asks_first(call)
               THEN [Report(taken, i, "CONFIRMATION_REQUIRED", "none") EXCEPT !.pending = Append(@, call)]
          ELSE goes]
     /\ seen_down' = IF turn'[t].state[i] = "sent"
                     THEN [seen_down EXCEPT ![call.tool].begun = @ + 1] ELSE seen_down
     /\ UNCHANGED <<settings, breaker, clock, ledger>>

\* The ledger records a write before anything is said about its result.
ledger_holdsBroken(t, call) == FALSE  \* the replay does not look
ledger_holds(t, call) == \E row \in ledger[t] : row.call = fingerprint(call)
recorded(t, call) == (CHOOSE row \in ledger[t] : row.call = fingerprint(call)).answer
record_effect(t, call, r) ==
  ledger' = IF writes(call.tool) /\ r.code = "none"
            THEN [ledger EXCEPT ![t] = @ \cup {[call |-> fingerprint(call), answer |-> r.answer]}]
            ELSE ledger

\* What the ledger's row says of each attempt at a write: "started" under a live
\* lease, "stale" once the lease has run out, "failed" or "succeeded".
Attempt(u, call, row) ==
  IF writes(call.tool) /\ row # "none"
  THEN [u EXCEPT !.attempts = Append(@, [call |-> fingerprint(call), row |-> row])] ELSE u
row_of(r) == IF r.code = "none" THEN "succeeded" ELSE "failed"
attempted(u, call, row) ==
  \E a \in DOMAIN u.attempts : u.attempts[a].call = fingerprint(call) /\ u.attempts[a].row = row
\* begin_effect leaves the status of a row that is already there.
begun_row(u, call) == IF attempted(u, call, "failed") THEN "failed" ELSE "started"
in_progress(u, call) == attempted(u, call, "started")

\* A write raises before anything is attempted, or after it, and then the row may
\* not have been finished.
Raised(u, call) == {[answer |-> "lost", row |-> row] : row \in {"failed", begun_row(u, call)}}
                   \cup IF writes(call.tool) THEN {[answer |-> "none", row |-> "none"]} ELSE {}

\* The call comes back: the output rail, the result contract, the breaker.
Returns(t, i) ==
  /\ turn[t].pc = "batch" /\ i \in DOMAIN turn[t].calls /\ turn[t].state[i] = "sent"
  /\ \E script \in Scripts :
       LET call == turn[t].calls[i]
           r == execute(call.tool, script)
           code == apply_result_contract(call.tool, r.code, r.answer)
           u == Attempt(turn[t], call, row_of(r))
       IN /\ record_effect(t, call, r)
          /\ IF ~screen_tool_output(r.answer)
             THEN /\ turn' = [turn EXCEPT ![t] = Report(u, i, "GUARDRAIL_REFUSED", r.answer)]
                  /\ UNCHANGED breaker
             ELSE /\ turn' = [turn EXCEPT ![t] = Report(u, i, code, r.answer)]
                  /\ record_breaker(call.tool, code)
          /\ seen_down' = [seen_down EXCEPT ![call.tool].answered =
                             @ \/ code \notin TRANSPORT_CODES]
  /\ UNCHANGED <<settings, clock>>

\* The call raises: it is a failed call without a code, and the breaker, which
\* counts only transport errors, leaves it out.
Raises(t, i) ==
  /\ turn[t].pc = "batch" /\ i \in DOMAIN turn[t].calls /\ turn[t].state[i] = "sent"
  /\ LET call == turn[t].calls[i]
     IN /\ \E end \in Raised(turn[t], call) :
             turn' = [turn EXCEPT ![t] = Report(Attempt(turn[t], call, end.row), i, "UNCLASSIFIED", end.answer)]
        /\ seen_down' = [seen_down EXCEPT ![call.tool].answered = TRUE]
  /\ UNCHANGED <<settings, breaker, clock, ledger>>

\* asyncio.wait_for fires: the call is over, the effect of a write is not, and its
\* row is left to its lease.
DeadlineFires(t, i) ==
  /\ turn[t].pc = "batch" /\ i \in DOMAIN turn[t].calls /\ turn[t].state[i] = "sent"
  /\ LET call == turn[t].calls[i]
         code == IF writes(call.tool) THEN "RESULT_UNKNOWN" ELSE "TOOL_CALL_TIMEOUT"
     IN /\ turn' = [turn EXCEPT ![t] =
             Report(Attempt(turn[t], call, begun_row(turn[t], call)), i, code, "lost")]
        /\ breaker' = [breaker EXCEPT ![call.tool] = record_failure(@)]
  /\ UNCHANGED <<settings, clock, ledger, seen_down>>

(***************************** end of a round *****************************)
\* zip(batch, await run_round(batch)): the outcomes come in the order of the run.
paired(u) ==
  LET order == run_round_order(u.calls)
  IN {[id |-> <<u.rounds, u.calls[k].id>>, result |-> u.outcome[order[k]]] : k \in DOMAIN u.calls}

wrote_successfully(u) ==
  \E k \in DOMAIN u.results : u.results[k].code = "none" /\ writes(u.results[k].call.tool)

stop_reasonBroken(u) ==  \* a spent budget does not stop the loop
  IF u.pending # <<>> THEN "CONFIRMATION_PENDING"
  ELSE IF wrote_successfully(u) THEN "WRITE_SUCCEEDED" ELSE "none"
stop_reason(u) ==
  CASE u.pending # <<>>      -> "CONFIRMATION_PENDING"
    [] u.pending = <<>> /\ u.budget <= 0 -> "TOOL_CALL_BUDGET"
    [] OTHER                 -> IF wrote_successfully(u) THEN "WRITE_SUCCEEDED" ELSE "none"

\* Replies go back, tools that cannot be used here are withdrawn, and the loop
\* goes on unless there is a reason to stop.
EndRound(t) ==
  LET u == turn[t]
      unusable == {u.outcome[i].call.tool : i \in {j \in DOMAIN u.calls : u.outcome[j].code \in CHANGE_TOOL_CODES}}
      reason == stop_reason(u)
  IN /\ u.pc = "batch" /\ u.mode = "model" /\ \A i \in DOMAIN u.calls : u.state[i] = "done"
     /\ turn' = [turn EXCEPT ![t].replies = @ \cup paired(u),
                             ![t].withdrawn = @ \cup unusable,
                             ![t].stop = reason,
                             ![t].pc = IF reason = "none" THEN "ask" ELSE "over",
                             ![t].calls = <<>>, ![t].state = <<>>, ![t].outcome = <<>>]
     /\ UNCHANGED <<settings, breaker, clock, ledger, seen_down>>

(************************* after the loop *********************************)
fallback_allowed(u) == u.stop \in {"none", "NO_MODEL"}

\* Without a model the rules choose, one call after another.
Fallback(t) ==
  LET u == turn[t]
      names == IF candidates(t) = {} THEN <<>> ELSE Take(u.budget, RuleTools)
      calls == [i \in DOMAIN names |-> [id |-> "rule", tool |-> names[i], args |-> "rule"]]
  IN /\ u.pc = "over" /\ u.mode = "rule-based" /\ fallback_allowed(u)
     /\ turn' = [turn EXCEPT ![t].pc = "batch", ![t].mode = "rules", ![t].rounds = 1,
                             ![t].stop = IF @ = "none" THEN "RULE_BASED" ELSE @,
                             ![t].budget = @ - Len(calls), ![t].calls = calls,
                             ![t].state = [i \in DOMAIN calls |-> "new"],
                             ![t].outcome = [i \in DOMAIN calls |-> NoResult]]
     /\ UNCHANGED <<settings, breaker, clock, ledger, seen_down>>

\* The first failure the user can do something about, unless something worked.
clarification_for(results) ==
  LET asking == {k \in DOMAIN results : needs_user_input(results[k].code)}
  IN IF \E k \in DOMAIN results : results[k].code = "none" THEN {} ELSE asking

\* route_after_tools: writes that were put aside go to the confirmation node.
LeaveLoop(t) ==
  LET u == turn[t]
      finished == \/ u.pc = "over" /\ ~(u.mode = "rule-based" /\ fallback_allowed(u))
                  \/ u.pc = "batch" /\ u.mode = "rules" /\ \A i \in DOMAIN u.calls : u.state[i] = "done"
      question == clarification_for(u.results)
  IN /\ finished
     /\ turn' = [turn EXCEPT ![t] =
          IF u.pending # <<>>
          THEN [u EXCEPT !.pc = "confirm", !.calls = <<>>, !.state = <<>>, !.outcome = <<>>]
          ELSE [Started EXCEPT !.pc = IF question # {} THEN "clarify" ELSE "answer"]]
     /\ UNCHANGED <<settings, breaker, clock, ledger, seen_down>>

(*********************** the confirmation node ****************************)
\* interrupt: the user sees every call and answers once for all of them.
confirm_writes(t, verdict) ==
  LET u == turn[t]
      aside == [i \in DOMAIN u.pending |-> "new"]
  IN /\ u.pc = "confirm" /\ u.verdict = "none"
     /\ turn' = [turn EXCEPT ![t].pc = "execute", ![t].verdict = verdict,
                             ![t].found = Len(u.results),
                             ![t].shown = {fingerprint(u.pending[i]) : i \in DOMAIN u.pending},
                             ![t].calls = u.pending, ![t].state = aside,
                             ![t].outcome = [i \in DOMAIN u.pending |-> NoResult]]
     /\ UNCHANGED <<settings, breaker, clock, ledger, seen_down>>

\* One pending call after the other: a rejected one is reported, an approved one
\* goes through the ledger - without the breaker, the rails or a deadline.
Concludes(t, i, u, code, answer) ==
  /\ turn' = [turn EXCEPT ![t] = Report(u, i, code, answer)]
  /\ record_breaker(turn[t].calls[i].tool, code)

execute_confirmed(t, i) ==
  LET u == turn[t]
      call == u.calls[i]
  IN /\ u.pc = "execute" /\ i \in DOMAIN u.calls /\ u.state[i] = "new"
     /\ \A j \in 1..(i - 1) : u.state[j] = "done"
     /\ IF u.verdict # "approved" \/ ~authorize_tool(Roles, call.tool)
        THEN /\ turn' = [turn EXCEPT ![t] = Report(u, i, IF u.verdict = "approved" THEN "RBAC_DENIED"
                                                         ELSE "CONFIRMATION_REJECTED", "none")]
             /\ UNCHANGED <<breaker, ledger>>
        ELSE IF ledger_holds(t, call)
        THEN /\ Concludes(t, i, u, apply_result_contract(call.tool, "none", recorded(t, call)),
                         recorded(t, call))
             /\ UNCHANGED ledger
        ELSE IF in_progress(u, call)
        THEN Concludes(t, i, u, "EFFECT_IN_PROGRESS", "none") /\ UNCHANGED ledger
        ELSE \/ \E script \in Scripts :
                  LET r == execute(call.tool, script)
                  IN /\ Concludes(t, i, Attempt(u, call, row_of(r)),
                                 apply_result_contract(call.tool, r.code, r.answer), r.answer)
                     /\ record_effect(t, call, r)
             \/ /\ \E end \in Raised(u, call) :
                     Concludes(t, i, Attempt(u, call, end.row), "UNCLASSIFIED", end.answer)
                /\ UNCHANGED ledger
     /\ UNCHANGED <<settings, clock, seen_down>>

\* The call the node would run next.
runs_next(t, i) ==
  LET u == turn[t]
      call == u.calls[i]
  IN /\ u.state[i] = "new" /\ \A j \in 1..(i - 1) : u.state[j] = "done"
     /\ u.verdict = "approved" /\ authorize_tool(Roles, call.tool)
     /\ ~ledger_holds(t, call) /\ ~in_progress(u, call)

\* The process dies, between two calls or under one: the node runs again from its
\* top, with the answer it had and the results it found.
ReplayConfirm(t) ==
  LET u == turn[t]
      again(v) == [v EXCEPT !.state = [i \in DOMAIN u.calls |-> "new"],
                            !.results = SubSeq(@, 1, u.found),
                            !.replays = @ + 1]
  IN /\ u.pc = "execute" /\ u.replays < MaxReplays
     /\ \/ turn' = [turn EXCEPT ![t] = again(u)]
        \/ \E i \in {j \in DOMAIN u.calls : runs_next(t, j)} :
             turn' = [turn EXCEPT ![t] = again(Attempt(u, u.calls[i], begun_row(u, u.calls[i])))]
     /\ UNCHANGED <<settings, breaker, clock, ledger, seen_down>>

\* The lease of a row that nobody finished runs out.
LeaseRunsOut(t) ==
  LET late(a) == [call |-> a.call, row |-> IF a.row = "started" THEN "stale" ELSE a.row]
  IN /\ turn[t].pc = "execute"
     /\ turn' = [turn EXCEPT ![t].attempts = [k \in DOMAIN @ |-> late(@[k])]]
     /\ UNCHANGED <<settings, breaker, clock, ledger, seen_down>>

LeaveConfirm(t) ==
  /\ turn[t].pc = "execute" /\ \A i \in DOMAIN turn[t].calls : turn[t].state[i] = "done"
  /\ turn' = [turn EXCEPT ![t] = [Started EXCEPT !.pc = "answer"]]
  /\ UNCHANGED <<settings, breaker, clock, ledger, seen_down>>

Tick == /\ clock < MaxTime
        /\ clock' = clock + 1
        /\ UNCHANGED <<settings, turn, breaker, ledger, seen_down>>

Positions == 1..MaxToolCalls
TurnNext(t) ==
  \/ model_turn(t) \/ NoModel(t) \/ OutOfRounds(t)
  \/ EndRound(t) \/ Fallback(t) \/ LeaveLoop(t)
  \/ \E i \in Positions : run_one(t, i) \/ Returns(t, i) \/ Raises(t, i) \/ DeadlineFires(t, i)
  \/ \E verdict \in {"approved", "rejected"} : confirm_writes(t, verdict)
  \/ \E i \in Positions : execute_confirmed(t, i)
  \/ ReplayConfirm(t) \/ LeaseRunsOut(t) \/ LeaveConfirm(t)
Next == (\E t \in Turns : TurnNext(t)) \/ Tick

Spec == Init /\ [][Next]_vars

(***************************** properties *********************************)
TypeOK ==
  /\ settings.confirm \in BOOLEAN /\ clock \in 0..MaxTime
  /\ \A tool \in DOMAIN TOOLS : /\ breaker[tool].failures \in Nat
                               /\ breaker[tool].opened_at \in 0..clock
  /\ \A t \in Turns :
       /\ turn[t].pc \in {"ask", "batch", "over", "confirm", "execute", "clarify", "answer"}
       /\ turn[t].mode \in {"rule-based", "model", "rules"}
       /\ turn[t].rounds \in 0..MaxRounds /\ turn[t].budget \in 0..MaxToolCalls

Executed(u) == {k \in DOMAIN u.results : u.results[k].answer # "none"}
Sent(u) == {i \in DOMAIN u.state : u.state[i] = "sent"}

\* While confirmation is on, no write leaves the process that the user was not
\* shown, under exactly those arguments, and did not approve - whatever the model
\* asked for, in whatever batch, and after any replay of the node.
OnlyConfirmedWrites ==
  settings.confirm => \A t \in Turns :
    LET u == turn[t]
        out == {u.results[k].call : k \in Executed(u)} \cup {u.calls[i] : i \in Sent(u)}
    IN \A call \in out : writes(call.tool) => /\ u.verdict = "approved"
                                             /\ fingerprint(call) \in u.shown

\* A model that repeats itself does not run the same call twice, not even when the
\* two are asked for side by side.
DistinctCalls ==
  \A t \in Turns :
    LET u == turn[t]
    IN /\ \A i, j \in Sent(u) : fingerprint(u.calls[i]) = fingerprint(u.calls[j]) => i = j
       /\ \A k \in Executed(u) : \A l \in Executed(u) \ {k} :
            fingerprint(u.results[k].call) # fingerprint(u.results[l].call)
       /\ \A i \in Sent(u), k \in Executed(u) :
            fingerprint(u.calls[i]) # fingerprint(u.results[k].call)

\* A write is attempted again only after an attempt that the ledger has as failed,
\* or whose lease ran out: not after one it has as succeeded, nor beside one that
\* may still be under way, whenever the process died.
AppliedOnce ==
  \A t \in Turns : \A a, b \in DOMAIN turn[t].attempts :
    a < b /\ turn[t].attempts[a].call = turn[t].attempts[b].call
      => turn[t].attempts[a].row \in {"failed", "stale"}

\* Rounds, truncated batches and the rule-based fallback together never begin
\* more calls than the turn was given.
BudgetRespected ==
  \A t \in Turns : turn[t].begun + Len(turn[t].pending) <= MaxToolCalls

\* When the model is asked again, every call of the echoed messages has its reply,
\* and only one: a chat API rejects the conversation otherwise.
HistoryAnswered ==
  \A t \in Turns : turn[t].pc = "ask" =>
    /\ {r.id : r \in turn[t].replies} = turn[t].asked
    /\ Cardinality(turn[t].replies) = Cardinality(turn[t].asked)

\* The reply a call gets is the result of that call.
ReplyAnswersItsCall ==
  \A t \in Turns : turn[t].pc = "ask" =>
    \A r \in turn[t].replies : r.result.call.id = r.id[2]

\* While a dependency answers nothing, all turns together begin no more calls
\* than the threshold and what was already side by side on the way.  (Confirmed
\* writes do not ask the breaker and are not counted.)
WidestBatch == Max({1} \cup {Len(calls) : calls \in Batches})
Concurrency == Cardinality(Turns) * WidestBatch
DownDependencyContained ==
  \A tool \in DOMAIN TOOLS :
    clock < Cooldown /\ ~seen_down[tool].answered
      => seen_down[tool].begun <= Threshold - 1 + Concurrency

\* With confirmation on, the model is told that nothing happened, of a write that
\* may have been carried out, in one case only: the reply of the service was lost.
OnlyLostReplyMisleads ==
  settings.confirm => \A t \in Turns : \A k \in DOMAIN turn[t].results :
    LET r == turn[t].results[k]
    IN writes(r.call.tool) /\ MayApply(r.answer) /\ r.code \notin UNKNOWN_EFFECT_CODES \cup {"none"}
         => r.answer = "lost"

\* Every call that is run is one the model asked for - with all of its arguments,
\* with none of them (the stream ended after the name, or the provider numbers
\* nothing), or with a gap where a line was not JSON; never with arguments that
\* broke off or with those of another call, however the stream arrived.
NoTornCalls ==
  \A t \in Turns : turn[t].mode = "model" =>
    \A i \in DOMAIN turn[t].calls :
      \E calls \in Batches : \E call \in ToSet(calls) :
        LET run == turn[t].calls[i]
        IN run.id = call.id /\ run.tool = call.tool /\ run.args \in {call.args, "none", "cut"}
=============================================================================
