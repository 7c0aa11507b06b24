------------------------------- MODULE TurnLoop -------------------------------
(***************************************************************************)
(* One turn of the Coordinator as a graph of three nodes: the intent router *)
(* hands over to the model, asks back or plans calls itself; the model's    *)
(* reply is corrected (a delegation it claims but does not make, tasks of   *)
(* one specialist, single delegations that can run side by side); the tools *)
(* run, and their results go back to the model.  What the model is sent is  *)
(* a window of the session.  Interrupts, errors of the model service and    *)
(* the log are in SessionTurns; who may call what is in ToolPolicy.         *)
(***************************************************************************)
EXTENDS Naturals, Sequences, FiniteSets

Seqs == INSTANCE SequencesExt

CONSTANTS
  TlSteps,      \* max_tool_steps
  TlKeep,       \* context_keep_recent_user_turns
  TlMessages,   \* context_max_messages
  TlChars,      \* context_max_chars, in units of a short message
  TlRoom,       \* how many objectives fit into the 4000 characters of one task
  TlSingles     \* bound on the single delegations in a reply

ASSUME TlAssumption ==
  /\ TlSteps \in Nat \ {0} /\ TlKeep \in Nat \ {0} /\ TlMessages \in Nat \ {0}
  /\ TlChars \in Nat /\ TlRoom \in Nat \ {0} /\ TlSingles \in Nat

\* subagent, specialists: delegate_subagent and delegate_specialists; search: web_search;
\* other: any other tool, which may require approval.
TlTool == {"subagent", "specialists", "search", "other"}
Delegation == {"subagent", "specialists"}

\* Two of the three SPECIALIST_ANALYST_IDS, and the analyst of everything else.
Specialist == {"profit", "erp"}
Analyst == Specialist \cup {"analyst"}

VARIABLES
  tlTurn,       \* the state of the graph
  tlMessages,   \* its messages, the system prompt left out
  tlPending,    \* pending_calls
  tlAsked,      \* history: the tasks the last reply asked for, if they can run
  tlSubmitted   \* history: the tasks submitted for it

tlVars == <<tlTurn, tlMessages, tlPending, tlAsked, tlSubmitted>>

\* search, data: what the question asks for; short: intent_short_circuit; failed: a call
\* of this reply failed; waiting: one awaits approval; hops: nodes run so far.
TlTurnRec ==
  [at : {"begin", "intent", "model", "tools", "results", "done"}, visible : SUBSET TlTool,
   search : BOOLEAN, data : BOOLEAN, direct : BOOLEAN, short : BOOLEAN, failed : BOOLEAN,
   waiting : BOOLEAN, steps : 0..TlSteps, hops : Nat,
   status : {"completed", "budget_exceeded", "waiting_approval", "failed", "cut"}]

TlNoTurn ==
  [at |-> "begin", visible |-> {}, search |-> FALSE, data |-> FALSE, direct |-> FALSE,
   short |-> FALSE, failed |-> FALSE, waiting |-> FALSE, steps |-> 0, hops |-> 0,
   status |-> "completed"]

\* A task: the objectives of one agent, numbered; none, if the model left it out or empty.
Task(agent, what) == [agent |-> agent, what |-> what]
TlCall(tool, tasks, back) == [tool |-> tool, tasks |-> tasks, back |-> back]

\* call: the message that issued the call, which its result refers to as well.
Message(role, call, tool, size) == [role |-> role, call |-> call, tool |-> tool, size |-> size]
User(size) == Message("user", 0, "", size)
Reply(id) == Message("assistant", id, "", 1)
Result(id, tool) == Message("tool", id, tool, 1)

TlTypeOK ==
  /\ tlTurn \in TlTurnRec
  /\ \A i \in DOMAIN tlMessages : tlMessages[i].role \in {"user", "assistant", "tool"}
  /\ \A i \in DOMAIN tlPending : tlPending[i].tool \in TlTool
  /\ tlAsked \subseteq Analyst \X Nat
  /\ \A i \in DOMAIN tlSubmitted : tlSubmitted[i] \in Analyst \X Nat

TlInit ==
  /\ tlTurn = TlNoTurn
  /\ tlMessages = <<>> /\ tlPending = <<>>
  /\ tlAsked = {} /\ tlSubmitted = <<>>

---------------------------------------------------------------------------
(* The context window *)

\* The members of s that pass the test, in their order: SelectSeq, of which the prover knows
\* nothing.
Those(s, Test(_)) == Seqs!FlattenSeq([i \in DOMAIN s |-> IF Test(s[i]) THEN <<s[i]>> ELSE <<>>])

UserAt(s) == {i \in DOMAIN s : s[i].role = "user"}

\* Variant of DropOldest that drops the message alone.
DropOldest_One(s) == IF Len(s) <= 1 THEN s ELSE Tail(s)

\* _drop_oldest_exchange: from a question up to the next, a reply with its results, or one
\* message.
DropOldest(s) ==
  LET ends == {j \in 2..(Len(s) + 1) :
                 \/ j = Len(s) + 1
                 \/ s[1].role = "user" /\ s[j].role = "user"
                 \/ s[1].role = "assistant" /\ s[j].role # "tool"
                 \/ s[1].role = "tool"} IN
  IF Len(s) <= 1 THEN s ELSE SubSeq(s, CHOOSE j \in ends : \A k \in ends : j <= k, Len(s))

\* The exchanges of the last TlKeep questions.
Recent(s) ==
  IF Cardinality(UserAt(s)) <= TlKeep THEN s
  ELSE SubSeq(s, CHOOSE u \in UserAt(s) : Cardinality({v \in UserAt(s) : v >= u}) = TlKeep, Len(s))

\* The system prompt, which is always sent, is left out of the sum.
OverLimit(s) ==
  Len(s) > TlMessages \/ Seqs!FoldLeft(LAMBDA n, message : n + message.size, 0, s) > TlChars

\* What is left after n exchanges were dropped.
Rests(s) ==
  LET rest[n \in 0..Len(s)] == IF n = 0 THEN Recent(s) ELSE DropOldest(rest[n - 1]) IN rest

\* _apply_context_window: exchanges are dropped as long as the rest is too long and has
\* more than one question.
Window(s) ==
  LET rest == Rests(s)
      enough == {n \in 0..Len(s) : ~ OverLimit(rest[n]) \/ Cardinality(UserAt(rest[n])) <= 1} IN
  rest[CHOOSE n \in enough : \A k \in enough : n <= k]

---------------------------------------------------------------------------
(* The calls of a reply *)

\* _canonicalize_delegation_arguments: the tasks of one specialist become one, in the
\* order of the first, as far as they fit; those without an objective go to the end.
Fitting(what) == {o \in what : Cardinality({p \in what : p < o}) < TlRoom}

Merge(tasks) ==
  LET good == Those(tasks, LAMBDA task : task.what # {})
      first == {i \in DOMAIN good : \A j \in 1..(i - 1) : good[j].agent # good[i].agent}
      merged == [k \in 1..Cardinality(first) |->
                   LET i == CHOOSE i \in first : Cardinality({j \in first : j <= i}) = k IN
                   Task(good[i].agent,
                        Fitting(UNION {good[j].what : j \in {j \in DOMAIN good :
                                                              good[j].agent = good[i].agent}}))] IN
  merged \o Those(tasks, LAMBDA task : task.what = {})

Canonical(calls) ==
  [i \in DOMAIN calls |-> IF calls[i].tool = "specialists"
                          THEN [calls[i] EXCEPT !.tasks = Merge(@)] ELSE calls[i]]

\* A single delegation to a specialist that is waited for.
Single(call) ==
  call.tool = "subagent" /\ ~ call.back /\ call.tasks[1].agent \in Specialist

AtMost(n, max) == IF n < max THEN n ELSE max

\* Variant of Batches that takes two of every three.
Batches_Two(singles) ==
  [b \in 1..((Len(singles) + 2) \div 3) |->
     TlCall("specialists",
            [k \in 1..AtMost(Len(singles) - 3 * (b - 1), 2) |-> singles[3 * (b - 1) + k].tasks[1]],
            FALSE)]

\* They run side by side, three at most in one call.
Batches(singles) ==
  [b \in 1..((Len(singles) + 2) \div 3) |->
     TlCall("specialists",
            [k \in 1..AtMost(Len(singles) - 3 * (b - 1), 3) |-> singles[3 * (b - 1) + k].tasks[1]],
            FALSE)]

Singles(calls) == Those(calls, Single)
Batched(calls) == "specialists" \in tlTurn.visible /\ Len(Singles(calls)) >= 2

\* _normalize_specialist_delegations: the batches take the place of the first.
Normalized(calls) ==
  IF ~ Batched(calls) THEN calls
  ELSE Seqs!FlattenSeq([i \in DOMAIN calls |->
         IF ~ Single(calls[i]) THEN <<calls[i]>>
         ELSE IF \E j \in 1..(i - 1) : Single(calls[j]) THEN <<>> ELSE Batches(Singles(calls))])

\* A delegation whose objective is missing cannot be batched (KeyError); one whose
\* objective is empty can.
Unbatchable(calls) ==
  Batched(calls) /\ \E i \in DOMAIN calls : Single(calls[i]) /\ calls[i].tasks[1].what = {}

\* What the arguments models of the two tools accept.
Valid(call) ==
  /\ \A i \in DOMAIN call.tasks : call.tasks[i].what # {}
  /\ call.tool = "specialists"
       => Len(call.tasks) \in 1..3 /\ \A i \in DOMAIN call.tasks : call.tasks[i].agent \in Specialist

TasksOf(call) == UNION {{<<call.tasks[i].agent, o>> : o \in call.tasks[i].what} : i \in DOMAIN call.tasks}
TasksIn(calls) == UNION {TasksOf(calls[i]) : i \in DOMAIN calls}

---------------------------------------------------------------------------
(* The graph *)

\* Node n was run; LangGraph gives up when the next one would be beyond the limit.
After(turn) ==
  LET t == [turn EXCEPT !.hops = @ + 1] IN
  IF t.at # "done" /\ t.hops = 2 * TlSteps + 4 THEN [t EXCEPT !.at = "done", !.status = "cut"] ELSE t

\* The turn is over: its messages are gone.
Finish(turn) ==
  /\ tlTurn' = turn
  /\ tlMessages' = <<>> /\ tlPending' = <<>>
  /\ tlAsked' = {} /\ tlSubmitted' = <<>>

\* A reply with calls, unless the turn was cut.
Respond(turn, calls, asked) ==
  IF turn.at = "done" THEN Finish(turn)
  ELSE /\ tlTurn' = turn
       /\ tlMessages' = Append(tlMessages, Reply(Len(tlMessages) + 1))
       /\ tlPending' = calls
       /\ tlAsked' = asked /\ tlSubmitted' = <<>>

\* What the log may hold: an answered question, one answered with the results of two calls,
\* and one whose call has no result, because its approval is pending or was lost.
Plain(size) == <<User(size), Reply(0)>>
Tools(from) == <<User(1), Reply(from + 2), Result(from + 2, "other"),
                 Result(from + 2, "specialists"), Reply(0)>>
Open(from) == <<User(1), Reply(from + 2)>>

\* The approval is decided, or the call made up for, at once or after later questions.
Decided ==
  {later \o <<Result(2, "other")>> : later \in {Open(0), Open(0) \o Plain(1), Open(0) \o Plain(1) \o Plain(1)}}
History == {<<>>, Open(0) \o Plain(1), Open(0) \o Plain(1) \o <<Result(2, "other"), Reply(0)>>,
            Plain(1) \o Tools(2), Plain(3) \o Plain(1) \o Plain(1)}

\* _execute_turn: the restored messages, then the question.
TlBegin ==
  /\ tlTurn.at = "begin"
  /\ \E visible \in {TlTool, TlTool \ {"specialists"}, {"other"}}, search, data \in BOOLEAN :
       tlTurn' = [tlTurn EXCEPT !.at = "intent", !.visible = visible,
                                !.search = search, !.data = data]
  /\ \E history \in History, size \in {1, 3} : tlMessages' = Append(history, User(size))
  /\ UNCHANGED <<tlPending, tlAsked, tlSubmitted>>

\* No question is added, and the intent router is passed over.
GoOn(histories, steps) ==
  /\ tlTurn.at = "begin"
  /\ \E visible \in {TlTool, TlTool \ {"specialists"}, {"other"}}, search, data \in BOOLEAN :
       tlTurn' = After([tlTurn EXCEPT !.at = "model", !.visible = visible, !.search = search,
                                      !.data = data, !.steps = steps])
  /\ tlMessages' \in histories
  /\ UNCHANGED <<tlPending, tlAsked, tlSubmitted>>

\* decide_approval goes on with the result, which is in the log after whatever was asked
\* while the approval was pending.
TlDecided == GoOn(Decided, 1)

\* A resume goes on with what was interrupted; _fill_missing_tool_results makes up for calls
\* of the last reply that has any.
TlResume == GoOn(Decided \cup {Append(history, User(1)) : history \in History}, 0)

\* _intent_node hands over to the model.
ToModel ==
  /\ tlTurn.at = "intent"
  /\ tlTurn' = After([tlTurn EXCEPT !.at = "model"])
  /\ UNCHANGED <<tlMessages, tlPending, tlAsked, tlSubmitted>>

\* No question for the router: none is configured, the turn is bypassed or another
\* agent's, or the session shows an image.
IntentOff == ToModel

\* direct_answer: the model gets no tools.
IntentDirect ==
  /\ tlTurn.at = "intent"
  /\ tlTurn' = After([tlTurn EXCEPT !.at = "model", !.direct = TRUE])
  /\ UNCHANGED <<tlMessages, tlPending, tlAsked, tlSubmitted>>

\* clarify: a question about a required field of a visible tool ends the turn.
IntentClarify ==
  /\ tlTurn.at = "intent" /\ tlTurn.visible # {}
  /\ Finish(After([tlTurn EXCEPT !.at = "done"]))

Together(agents) ==
  LET order == Those(<<"profit", "erp">>, LAMBDA a : a \in agents) IN
  TlCall("specialists", [i \in DOMAIN order |-> Task(order[i], {0})], FALSE)

\* HardIntentMatcher.match: the question names one business domain or several.
HardMatch ==
  {<<TlCall("subagent", <<Task(a, {0})>>, FALSE)>> : a \in Specialist} \cup {<<Together(Specialist)>>}

\* Plans of the small model, _validate_model_route.
SmallPlan ==
  {<<TlCall("other", <<>>, FALSE)>>, <<TlCall("subagent", <<Task("analyst", {1})>>, TRUE)>>,
   <<TlCall("specialists", <<Task("analyst", {1})>>, FALSE)>>,
   <<TlCall("subagent", <<Task("erp", {1})>>, FALSE), TlCall("subagent", <<Task("profit", {2})>>, FALSE)>>}

\* Arguments that the plan fills in without being told: an optional one of a business tool
\* must occur in the question or the history.
Accepted(plan, grounded) ==
  \A i \in DOMAIN plan : Valid(plan[i]) /\ (grounded \/ plan[i].tool \in Delegation)

AllVisible(plan) == \A i \in DOMAIN plan : plan[i].tool \in tlTurn.visible

\* The router is disabled, or no rule matches and the small model abstains, fails, or
\* answers with something else than a decision or a plan of visible tools.
IntentFallback == ToModel

\* A plan that the arguments models or the question do not bear out.
IntentRejected ==
  /\ tlTurn.at = "intent"
  /\ \E plan \in HardMatch \cup SmallPlan, grounded \in BOOLEAN :
       AllVisible(plan) /\ ~ Accepted(plan, grounded)
  /\ ToModel

\* tool_plan: the calls run before the model sees the question; delegations may end the
\* turn without it.
IntentPlan ==
  /\ tlTurn.at = "intent"
  /\ \E plan \in HardMatch \cup SmallPlan :
       LET calls == Normalized(Canonical(plan)) IN
       /\ AllVisible(plan) /\ \E grounded \in BOOLEAN : Accepted(plan, grounded)
       /\ Respond(After([tlTurn EXCEPT !.at = "tools",
                           !.short = \A i \in DOMAIN calls : calls[i].tool \in Delegation]),
                  calls, TasksIn(plan))

---------------------------------------------------------------------------
(* The model *)

Schemas == IF tlTurn.direct THEN {} ELSE tlTurn.visible

\* Results of one of these tools since the last question.
Tried(tools) ==
  \E i \in DOMAIN tlMessages : /\ tlMessages[i].role = "tool" /\ tlMessages[i].tool \in tools
                               /\ \A u \in UserAt(tlMessages) : u < i

\* Replies of the model: single delegations, before or after a call of another kind.
Distinct(calls) ==
  [i \in DOMAIN calls |->
     [calls[i] EXCEPT !.tasks = [k \in DOMAIN @ |->
        IF @[k].what = {} THEN @[k] ELSE Task(@[k].agent, {3 * i + k})]]]
OtherCalls ==
  {<<TlCall("other", <<>>, FALSE)>>,
   <<TlCall("subagent", <<Task("profit", {1})>>, TRUE)>>,
   <<TlCall("subagent", <<Task("erp", {})>>, FALSE)>>,
   <<TlCall("specialists", <<Task("profit", {1}), Task("erp", {1}), Task("profit", {1})>>, FALSE)>>,
   <<TlCall("specialists", <<Task("analyst", {1})>>, FALSE)>>}
SingleCalls(n) == [i \in 1..n |-> TlCall("subagent", <<Task("profit", {1})>>, FALSE)]
ModelReply ==
  {Distinct(SingleCalls(n)) : n \in 0..TlSingles}
    \cup {Distinct(calls \o SingleCalls(n)) : calls \in OtherCalls, n \in {0, 1}}
    \cup {Distinct(SingleCalls(2) \o calls) : calls \in OtherCalls}

\* _recover_web_search: the question asks for a search that was not made.
RecoverSearch(calls) ==
  IF calls = <<>> /\ "search" \in Schemas /\ tlTurn.search /\ ~ Tried({"search"})
  THEN <<TlCall("search", <<>>, FALSE)>> ELSE calls

\* _recover_claimed_delegation: a question about data, or a reply that claims a delegation,
\* while none was made.  The specialists are those that fit the question and that the user
\* may ask; there may be none.
RecoverDelegation(calls) ==
  IF calls # <<>> \/ Tried(Delegation) THEN {calls}
  ELSE (IF tlTurn.data /\ "specialists" \notin Schemas /\ "subagent" \in Schemas THEN {} ELSE {calls})
         \cup (IF "specialists" \in Schemas THEN {<<Together(agents)>> : agents \in SUBSET Specialist \ {{}}}
               ELSE IF "subagent" \in Schemas
                    THEN {<<TlCall("subagent", <<Task("analyst", {0})>>, FALSE)>>} ELSE {})

\* The limits on tokens and time may end the turn at any call of the model.
OverBudget == tlTurn.at = "model" /\ Finish(After([tlTurn EXCEPT !.at = "done", !.status = "budget_exceeded"]))

\* _model_node
Model ==
  /\ tlTurn.at = "model"
  /\ \E given \in UNION {RecoverDelegation(RecoverSearch(reply)) : reply \in ModelReply} :
       LET canonical == Canonical(given)
           shown == Those(Normalized(canonical), LAMBDA call : call.tool \in Schemas)
           asked == Those(given, LAMBDA call : call.tool \in Schemas) IN
       \/ /\ Unbatchable(canonical)
          /\ Finish(After([tlTurn EXCEPT !.at = "done", !.status = "failed"]))
       \/ IF shown = <<>> \/ tlTurn.steps >= TlSteps
          THEN Finish(After([tlTurn EXCEPT !.at = "done"]))
          ELSE Respond(After([tlTurn EXCEPT !.at = "tools"]), shown, TasksIn(asked))

---------------------------------------------------------------------------
(* The tools *)

\* delegate and delegate_specialists: every task is submitted before the first is waited
\* for; one that is refused fails the call and leaves those before it submitted.
Submitted(call, n) ==
  LET some == SubSeq(call.tasks, 1, AtMost(n, Len(call.tasks))) IN
  Seqs!FlattenSeq([i \in DOMAIN some |-> Seqs!SetToSeq({some[i].agent} \X some[i].what)])

\* _tools_node, call after call: waiting are those that require approval and have no result
\* yet, bad those that the registry refuses, whose arguments are invalid, or that fail, some
\* after they have submitted n tasks.
RunTools ==
  /\ tlTurn.at = "tools"
  /\ \E waiting, bad \in SUBSET DOMAIN tlPending, n \in 0..1 :
       LET done == Those([i \in DOMAIN tlPending |-> i], LAMBDA i : i \notin waiting) IN
       /\ waiting \cap bad = {} /\ (bad = {} => n = 0)
       /\ \A i \in waiting : tlPending[i].tool = "other"
       /\ \A i \in DOMAIN tlPending : ~ Valid(tlPending[i]) => i \in bad
       /\ tlMessages' = tlMessages \o
            [k \in DOMAIN done |-> Result(tlMessages[Len(tlMessages)].call, tlPending[done[k]].tool)]
       /\ tlSubmitted' = Seqs!FlattenSeq([i \in DOMAIN tlPending |->
            IF i \notin bad THEN Submitted(tlPending[i], 3)
            ELSE IF Valid(tlPending[i]) THEN Submitted(tlPending[i], n) ELSE <<>>])
       /\ tlTurn' = [tlTurn EXCEPT !.at = "results", !.failed = bad # {}, !.waiting = waiting # {}]
  /\ tlPending' = <<>>
  /\ UNCHANGED tlAsked

\* The last call is done: wait for the approval, end with the answers of the sub-agents if
\* the calls were planned by the intent router and none failed, or ask the model.
AfterTools ==
  LET t == [tlTurn EXCEPT !.steps = @ + 1] IN
  /\ tlTurn.at = "results"
  /\ IF t.waiting THEN Finish(After([t EXCEPT !.at = "done", !.status = "waiting_approval"]))
     ELSE IF t.short /\ ~ t.failed THEN Finish(After([t EXCEPT !.at = "done"]))
     ELSE /\ tlTurn' = After([t EXCEPT !.at = "model", !.short = FALSE, !.failed = FALSE])
          /\ tlAsked' = {} /\ tlSubmitted' = <<>>
          /\ UNCHANGED <<tlMessages, tlPending>>

TlNext ==
  \/ TlBegin \/ TlDecided \/ TlResume
  \/ IntentOff \/ IntentFallback \/ IntentRejected
  \/ IntentDirect \/ IntentClarify \/ IntentPlan
  \/ Model \/ OverBudget
  \/ RunTools \/ AfterTools

TlSpec == TlInit /\ [][TlNext]_tlVars

---------------------------------------------------------------------------
(* Properties *)

\* However tasks are merged, batched and refused: a task that a reply asks for is submitted
\* at most once, and exactly once when no call of the reply failed
\* (_canonicalize_delegation_arguments, _normalize_specialist_delegations, delegate).
DelegatedOnce ==
  /\ \A i, j \in DOMAIN tlSubmitted : tlSubmitted[i] = tlSubmitted[j] => i = j
  /\ tlTurn.at = "results" /\ ~ tlTurn.failed
       => {tlSubmitted[i] : i \in DOMAIN tlSubmitted} = tlAsked

\* Message i of s is the result of a call after which another question was asked first.
Late(s, i) == \E j \in 1..i : s[j] = Reply(s[i].call) /\ \E k \in j..i : s[k].role = "user"

\* What the model is sent starts with a question, holds the current one, has no result
\* without its call, unless the result came after a later question, and keeps to the limits
\* unless the current exchange alone exceeds them (_apply_context_window,
\* _drop_oldest_exchange).
WindowWhole ==
  LET w == Window(tlMessages)
      cut == Len(tlMessages) - Len(w) IN
  tlTurn.at = "model"
    => /\ w # <<>> /\ w[1].role = "user"
       /\ \A i \in DOMAIN w : w[i].role = "tool" =>
            Late(tlMessages, cut + i) \/ \E j \in 1..i : w[j] = Reply(w[i].call)
       /\ Cardinality(UserAt(w)) \in 1..TlKeep
       /\ OverLimit(w) => Cardinality(UserAt(w)) = 1
=============================================================================
