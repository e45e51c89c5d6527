---------------------------- MODULE ContextEngine ----------------------------
(* The turns of one conversation, from the user message stored by the       *)
(* java-service to the prompt assembled by the agent (context/builder.py),  *)
(* the rolling summary of what was evicted (context/summary.py) and the     *)
(* summary row written back (ConversationSummaryService.java).  Turns of    *)
(* one conversation may overlap.                                            *)
EXTENDS ContextBudget

CONSTANTS ChatTurns,    \* the turns of the conversation
          MaxMessages,  \* bound: stored messages
          RecentLimit,  \* messages the java-service hands over
          Texts,        \* what a user may type: text |-> tokens
          AnswerSizes,  \* tokens of an answer
          AgentStates,  \* what the graph adds: profile, approval, slots, tools, evidence
          SummarySizes, \* tokens of a summary text before it is cut
          Window, MaxOutput, SafetyMargin, Scaffolding, PolicySize, TenantSize

\* The text rendered from the knowledge base has a name of its own.
KNOWLEDGE_CONTEXT == "knowledge_context"
ItemIds == STRING \cup {KNOWLEDGE_CONTEXT}
EvidenceItem == [id : ItemIds, size : Nat, score : Int, rank : Int]
ToolItem == [id : ItemIds, size : Nat, eligible : BOOLEAN, expired : BOOLEAN]
AgentState == [profile : Nat, approval : Nat, slots : Nat, knowledge : Nat,
               tools : Seq(ToolItem), evidence : Seq(EvidenceItem), documents : Seq(EvidenceItem)]

\* A user message is not blank, so it is never taken for the absence of one.
ASSUME ContextAssumption ==
  /\ RecentLimit \in Nat
  /\ Texts \in [DOMAIN Texts -> Nat] /\ NoText \notin DOMAIN Texts
  /\ AnswerSizes \subseteq Nat /\ SummarySizes \subseteq Nat
  /\ AgentStates \subseteq AgentState
  /\ Window \in Nat /\ MaxOutput \in Nat /\ SafetyMargin \in Nat
  /\ Scaffolding \in Nat /\ PolicySize \in Nat /\ TenantSize \in Nat

VARIABLES history,   \* the stored messages, oldest first
          summaries, \* the summary rows, by version
          chat       \* one record per turn

context_vars == <<history, summaries, chat>>

MAX_SUMMARY_TOKENS == 600
CURRENT_TURN_ID == 0

\* The guard replaced what the agent calls the current message.
Redacted == "redacted"

IdleTurn == [pc |-> "idle", text |-> NoText, own |-> 0, env |-> <<>>, previous |-> 0,
             plan |-> Infeasible("none"), delta |-> <<>>, sent |-> 0, latest |-> 0]

Message(id, role, text, size) == [id |-> id, role |-> role, text |-> text, size |-> size]

ContextInit == /\ history = <<>>
               /\ summaries = <<>>
               /\ chat = [t \in ChatTurns |-> IdleTurn]

(*********************** the java-service: ask ****************************)
\* The user message is stored before the envelope is built.
Ask(t) ==
  /\ chat[t].pc = "idle" /\ Len(history) < MaxMessages
  /\ \E text \in DOMAIN Texts, redacted \in BOOLEAN :
       /\ history' = Append(history, Message(Len(history) + 1, "user", text, Texts[text]))
       /\ chat' = [chat EXCEPT ![t].pc = "stored", ![t].own = Len(history) + 1,
                               ![t].text = IF redacted THEN Redacted ELSE text]
  /\ UNCHANGED summaries

\* ConversationContextService.build: the latest rows, whatever other turns add.
BuildEnvelope(t) ==
  /\ chat[t].pc = "stored"
  /\ LET n == Len(history)
     IN chat' = [chat EXCEPT ![t].pc = "built", ![t].previous = Len(summaries),
                             ![t].env = SubSeq(history, Most(1, n - RecentLimit + 1), n)]
  /\ UNCHANGED <<history, summaries>>

(************************ the agent: assemble *****************************)
current_turn_size(t) == Texts[history[chat[t].own].text]

\* The envelope usually holds the current turn already; add it when it does not.
ensure_current_turn(messages, t) ==
  IF \E i \in DOMAIN messages : messages[i].role = "user" /\ messages[i].text = chat[t].text
  THEN messages
  ELSE Append(messages, Message(CURRENT_TURN_ID, "user", chat[t].text, current_turn_size(t)))

Candidates(t) == ensure_current_turn(chat[t].env, t)

\* The newest result of a call that is neither expired nor ineligible; a later
\* result takes the place of the earlier one.
eligible_tool_results(results) ==
  LET usable == {i \in DOMAIN results : results[i].eligible /\ ~results[i].expired}
      newest(id) == Max({i \in usable : results[i].id = id})
      first(id) == Min({i \in usable : results[i].id = id})
      latest == [i \in DOMAIN results |-> IF i \in usable THEN results[newest(results[i].id)]
                                          ELSE results[i]]
  IN At(latest, {first(results[i].id) : i \in usable})

\* Structured evidence, else the retrieved documents, else the rendered text.
evidence_candidates(a) ==
  CASE a.evidence # <<>>  -> a.evidence
    [] a.documents # <<>> -> a.documents
    [] OTHER              -> IF a.knowledge = 0 THEN <<>>
                             ELSE <<[id |-> KNOWLEDGE_CONTEXT, size |-> a.knowledge,
                                     score |-> 0, rank |-> 0]>>

Block(kind, size) == [kind |-> kind, size |-> size]

blocks_from_state(a) == <<Block("system_policy", PolicySize), Block("tenant_profile", TenantSize),
                           Block("user_profile", a.profile), Block("approval_state", a.approval)>>

\* The kinds whose content comes from the graph, declared only with content; the
\* placeholder summary of the envelope is replaced by the row, when there is one.
graph_state_blocks(a, tools, evidence) ==
  LET declared == <<Block("task_slots", a.slots),
                    Block("tool_results", render_items(tools)),
                    Block("retrieval_evidence", render_items(evidence))>>
  IN At(declared, {i \in DOMAIN declared : declared[i].size > 0})

summary_block(t) ==
  IF chat[t].previous = 0 THEN <<>>
  ELSE <<Block("conversation_summary", summaries[chat[t].previous].size)>>

Request(t, a) ==
  LET tools == eligible_tool_results(a.tools)
      evidence == evidence_candidates(a)
  IN [window |-> Window, max_output |-> MaxOutput, margin |-> SafetyMargin,
      scaffolding |-> Scaffolding, messages |-> Candidates(t), protected |-> chat[t].text,
      evidence |-> evidence, tools |-> tools, version |-> chat[t].previous,
      blocks |-> blocks_from_state(a) \o graph_state_blocks(a, tools, evidence)
                 \o summary_block(t)]

\* The prompt as it is rendered: headings and the blank lines between sections.
Section(tokens) == IF tokens = 0 THEN 0 ELSE tokens + Header + SECTION_JOIN_TOKENS
RenderedPrompt(plan) ==
  LET joined(pack) == IF pack.items = <<>> THEN 0 ELSE Rendered(pack) + SECTION_JOIN_TOKENS
  IN Scaffolding + Total([k \in DOMAIN plan.sections |-> Section(plan.sections[k].tokens)])
     + joined(plan.evidence) + joined(plan.tools) + plan.packed.used

\* A refusal ends the turn with an error event and no stored answer.
assemble_context(t) ==
  /\ chat[t].pc = "built"
  /\ \E a \in AgentStates :
       LET plan == allocate(Request(t, a))
       IN chat' = [chat EXCEPT
                     ![t].pc = IF plan.ok THEN "planned" ELSE "refused",
                     ![t].plan = plan,
                     ![t].sent = IF plan.ok THEN RenderedPrompt(plan) ELSE 0]
  /\ UNCHANGED <<history, summaries>>

(************************* the rolling summary ****************************)
\* The inclusive slice between two ids, empty when it cannot be cut.
messages_between(messages, from, until) ==
  LET at(id) == {i \in DOMAIN messages : messages[i].id = id}
  IN IF at(from) = {} \/ at(until) = {} THEN <<>>
     ELSE SubSeq(messages, Min(at(from)), Min(at(until)))

Refusal == [from |-> 0, until |-> 0, text |-> 0, reason |-> "evicted_range_not_contiguous"]

\* The slice must hold as many messages as the planner evicted.
CanCutBroken(request, messages) == TRUE
CanCut(request, messages) ==
  Len(messages_between(messages, request.from, request.until)) = request.count

summary_textBroken(size) == size  \* the cap is not applied
summary_text(size) == truncate_text(size, MAX_SUMMARY_TOKENS, "tail").tokens

summarise_request(request, messages, size, reason) ==
  IF ~CanCut(request, messages) THEN Refusal
  ELSE [from |-> request.from, until |-> request.until,
        text |-> summary_text(size), reason |-> reason]

\* The summary takes the place of the section the plan made room for, or comes
\* on top of the plan when there was none.
Folded(t, delta) ==
  LET plan == chat[t].plan
      placed == IF "conversation_summary" \in DOMAIN plan.sections
                THEN plan.sections["conversation_summary"].tokens ELSE 0
  IN chat[t].sent - Section(placed) + Section(delta.text)

summarize_context(t) ==
  /\ chat[t].pc = "planned" /\ chat[t].plan.request # <<>>
  /\ \E size \in SummarySizes, reason \in {"none", "model_summary_failed"} :
       LET delta == summarise_request(Head(chat[t].plan.request), Candidates(t), size, reason)
       IN chat' = [chat EXCEPT ![t].pc = "answering", ![t].delta = <<delta>>,
                               ![t].sent = IF delta.text = 0 THEN @ ELSE Folded(t, delta)]
  /\ UNCHANGED <<history, summaries>>

\* Nothing was evicted, summaries are off, or the summary stage raised.
SkipSummary(t) ==
  /\ chat[t].pc = "planned"
  /\ chat' = [chat EXCEPT ![t].pc = "answering"]
  /\ UNCHANGED <<history, summaries>>

(******************* the java-service: end of the turn ********************)
\* The answer is stored first, then the summary the report carries.
Complete(t) ==
  /\ chat[t].pc = "answering" /\ Len(history) < MaxMessages
  /\ \E size \in AnswerSizes :
       history' = Append(history, Message(Len(history) + 1, "assistant", NoText, size))
  /\ chat' = [chat EXCEPT ![t] =
                IF chat[t].delta = <<>> \/ Head(chat[t].delta).text = 0
                THEN [IdleTurn EXCEPT !.pc = "done"]
                ELSE [IdleTurn EXCEPT !.pc = "persisting", !.delta = chat[t].delta,
                                  !.previous = chat[t].previous]]
  /\ UNCHANGED summaries

\* persistRolling reads the latest row, and skips a range that is covered.
ReadLatest(t) ==
  /\ chat[t].pc = "persisting"
  /\ LET n == Len(summaries)
         covered == n > 0 /\ summaries[n].until = Head(chat[t].delta).until
     IN chat' = [chat EXCEPT ![t] =
                   IF covered THEN [IdleTurn EXCEPT !.pc = "done"]
                   ELSE [chat[t] EXCEPT !.pc = "writing", !.latest = n]]
  /\ UNCHANGED <<history, summaries>>

\* insertIfVersionFree: the writer that comes second loses.
insertIfVersionFree(t) ==
  /\ chat[t].pc = "writing"
  /\ LET d == Head(chat[t].delta)
         row == [from |-> d.from, until |-> d.until, size |-> d.text,
                 builds_on |-> chat[t].previous, by |-> t]
     IN summaries' = IF Len(summaries) = chat[t].latest
                     THEN Append(summaries, row) ELSE summaries
  /\ chat' = [chat EXCEPT ![t] = [IdleTurn EXCEPT !.pc = "done"]]
  /\ UNCHANGED history

ContextNext ==
  \E t \in ChatTurns :
    \/ Ask(t)
    \/ BuildEnvelope(t)
    \/ assemble_context(t)
    \/ summarize_context(t)
    \/ SkipSummary(t)
    \/ Complete(t)
    \/ ReadLatest(t)
    \/ insertIfVersionFree(t)

ContextSpec == ContextInit /\ [][ContextNext]_context_vars

(***************************** properties *********************************)
ContextTypeOK ==
  /\ \A i \in DOMAIN history : /\ history[i].id = i
                               /\ history[i].role \in {"user", "assistant"}
                               /\ history[i].size \in Nat
  /\ \A v \in DOMAIN summaries : summaries[v].by \in ChatTurns /\ summaries[v].size \in Nat
  /\ \A t \in ChatTurns :
       /\ chat[t].pc \in {"idle", "stored", "built", "planned", "refused", "answering",
                          "persisting", "writing", "done"}
       /\ chat[t].own \in 0..Len(history) /\ chat[t].sent \in Nat

Planned(t) == chat[t].plan.ok
Kept(t) == {Candidates(t)[i].id : i \in chat[t].plan.packed.kept}
Evicted(t) == ToSet(chat[t].plan.evicted)
CutShort(t) == {Candidates(t)[i].id : i \in chat[t].plan.packed.truncated}

\* I1 of the planner: what is rendered before a summary comes on top, with the
\* reply and the margin, fits the window of the model - every heading, blank line
\* and excerpt counted.
PromptFitsWindow ==
  \A t \in ChatTurns : chat[t].pc = "planned" => chat[t].sent + MaxOutput + SafetyMargin <= Window

\* The summary is folded in after the budget was spent: how far that can take
\* the prompt over its budget is bounded by the summary's own cap.
FoldOverrunBounded ==
  \A t \in ChatTurns : Planned(t) =>
    chat[t].sent + MaxOutput + SafetyMargin <= Window + Section(MAX_SUMMARY_TOKENS)

\* The question of the turn is in every prompt that is sent, whole or with a
\* visible cut, also when another turn's message is newer.
CurrentTurnSent ==
  \A t \in ChatTurns : Planned(t) =>
    \E i \in chat[t].plan.packed.kept : Candidates(t)[i].text = chat[t].text

\* I4: every candidate message is sent whole or named as evicted, never both,
\* never neither.
EvictionExact ==
  \A t \in ChatTurns : Planned(t) =>
    /\ Kept(t) \cup Evicted(t) = {m.id : m \in ToSet(Candidates(t))}
    /\ Kept(t) \cap Evicted(t) = CutShort(t)
    /\ Cardinality(Evicted(t)) = Len(chat[t].plan.evicted)

\* When the question is the newest message, what is dropped is a prefix of the
\* conversation: no hole in the middle of what the model reads.
DroppedIsPrefix ==
  \A t \in ChatTurns : Planned(t) /\ CurrentIndex(Candidates(t), chat[t].text) = Len(Candidates(t))
    => \A i \in chat[t].plan.packed.kept : i..Len(Candidates(t)) \subseteq chat[t].plan.packed.kept

\* A summary that was accepted covers exactly what the prompt lost: no message in
\* its range was sent whole, and no evicted message is outside its range.
SummaryRangeExact ==
  \A t \in ChatTurns :
    chat[t].pc = "answering" /\ chat[t].delta # <<>> /\ Head(chat[t].delta) # Refusal =>
      LET d == Head(chat[t].delta)
      IN Evicted(t) = {m.id : m \in ToSet(messages_between(Candidates(t), d.from, d.until))}

=============================================================================
