------------------------------ MODULE ToolPolicy ------------------------------
(***************************************************************************)
(* Which tools an agent may call: its allowlist, the capabilities that are  *)
(* switched on and connected, and the rules of the user, as they are when   *)
(* a turn starts or a task is submitted.  All of them may change while the  *)
(* turn goes on, and a decided approval builds the set of tools anew.       *)
(* A worker runs the tasks with the agents, capabilities and connections    *)
(* that it loaded when it started; only the rules of the user are read      *)
(* every time.  One user, one session of the Coordinator, one specialist.   *)
(***************************************************************************)
EXTENDS Naturals, FiniteSets

CONSTANTS
  TpEdits,     \* bound on changes of the configuration
  TpTurns,     \* bound on turns
  TpExternal   \* whether tasks are run by a worker, as in production, or by the API itself

ASSUME TpAssumption == TpEdits \in Nat /\ TpTurns \in Nat /\ TpExternal \in BOOLEAN

\* delegate: delegate_subagent, recall: the memory, knowledge and web tools, query: the
\* data query tools, notify: the tools that require approval, remote: those of MCP.
TpTool == {"delegate", "recall", "query", "notify", "remote"}
TpAgent == {"coordinator", "specialist"}
TpApproval == {"notify"}
TpSystem == {"delegate", "recall"}   \* SYSTEM_DEFAULT_TOOL_NAMES

\* Those an administrator adds and takes away: one of every kind.
TpToggled == {"delegate", "query", "notify"}

VARIABLES
  tpAgents,   \* AgentRegistry._agents: enabled and allowed_tools
  tpStored,   \* ops_agent_definitions
  tpOn,       \* whether the catalog has the data tools enabled
  tpLinked,   \* whether the tenant has a connection for them
  tpKnown,    \* the tools in the ToolRegistry
  tpWorker,   \* the worker's agents, capabilities, connections and tools
  tpRules,    \* what the access rules say of the user
  tpCreated,  \* the tools that session.created of each agent's session recorded, if any
  tpTurn,     \* the turn of each agent's session
  tpTask,     \* the record of the sub-agent
  tpRan,      \* the last tool that was executed, and by whom
  tpCount     \* changes and turns so far

tpVars == <<tpAgents, tpStored, tpOn, tpLinked, tpKnown, tpWorker, tpRules, tpCreated, tpTurn,
            tpTask, tpRan, tpCount>>
tpConfig == <<tpAgents, tpStored, tpOn, tpLinked, tpKnown, tpWorker, tpRules>>

TpAgentRows == [TpAgent -> [enabled : BOOLEAN, tools : SUBSET TpTool]]
TpCopies == [agents : TpAgentRows, on : BOOLEAN, linked : BOOLEAN, known : SUBSET TpTool]
TpTurnRec ==
  [pc : {"none", "run", "approval", "decided"}, tools : SUBSET TpTool,
   granted : SUBSET TpTool,   \* history: what the user might use then, and at submission
   rebuilt : BOOLEAN]         \* whether an approval built the tools anew
TpNoTurn == [pc |-> "none", tools |-> {}, granted |-> {}, rebuilt |-> FALSE]

TpTypeOK ==
  /\ tpAgents \in TpAgentRows /\ tpStored \in TpAgentRows
  /\ tpOn \in BOOLEAN /\ tpLinked \in BOOLEAN /\ tpKnown \in SUBSET TpTool
  /\ tpWorker \in TpCopies
  /\ tpRules \in [limited : BOOLEAN, enabled : BOOLEAN, tools : SUBSET TpTool]
  /\ tpCreated \in [TpAgent -> {{}} \cup {{ts} : ts \in SUBSET TpTool}]
  /\ tpTurn \in [TpAgent -> TpTurnRec]
  /\ tpTask \in [pc : {"none", "queued", "run"}, tools : SUBSET TpTool, granted : SUBSET TpTool]
  /\ tpRan \in [agent : TpAgent, tool : TpTool \cup {"none"}]
  /\ tpCount \in [edits : 0..TpEdits, turns : 0..TpTurns]

TpNoTask == [pc |-> "none", tools |-> {}, granted |-> {}]
TpNothing == [agent |-> "coordinator", tool |-> "none"]

\* What the API process has of agents, capabilities, connections and tools.
TpApi == [agents |-> tpAgents, on |-> tpOn, linked |-> tpLinked, known |-> tpKnown]

\* What the process has that runs a turn of agent a.
Host(a) == IF a = "specialist" /\ TpExternal THEN tpWorker ELSE TpApi

\* A row written before data queries were taken from the Coordinator may still list them.
TpInit ==
  /\ \E legacy \in SUBSET {"query"} :
       tpStored = [a \in TpAgent |->
                     [enabled |-> TRUE,
                      tools |-> IF a = "coordinator" THEN {"delegate", "recall", "notify"} \cup legacy
                                ELSE {"query"}]]
  /\ tpAgents = tpStored
  /\ tpOn = TRUE /\ tpLinked = TRUE
  /\ tpKnown = TpTool
  /\ tpWorker = TpApi
  /\ tpRules = [limited |-> FALSE, enabled |-> TRUE, tools |-> {}]
  /\ tpCreated = [a \in TpAgent |-> {}]
  /\ tpTurn = [a \in TpAgent |-> TpNoTurn]
  /\ tpTask = TpNoTask /\ tpRan = TpNothing
  /\ tpCount = [edits |-> 0, turns |-> 0]

---------------------------------------------------------------------------
(* What is allowed *)

\* effective_access
Granted ==
  IF ~ tpRules.limited THEN TpTool
  ELSE IF tpRules.enabled THEN TpSystem \cup tpRules.tools ELSE {}

\* active_data_query_tools
DataTools(copy) == IF copy.on /\ copy.linked THEN {"query"} ELSE {}

\* Tools that are registered and not switched off, in a process with that copy.
Offered(copy) == copy.known \ ({"query"} \ DataTools(copy))
Usable(copy) == Granted \cap Offered(copy)

\* Variant of AgentTools: the Coordinator gets what its row lists.
AgentTools_Listed(copy, a) ==
  LET listed == copy.agents[a].tools IN
  Offered(copy) \cap IF a = "coordinator" THEN listed \cup TpApproval \cup {"recall", "delegate"}
               ELSE listed \ TpSystem

\* resolve_agent_tool_allowlist, of an agent with a strict list, as the built-in ones have:
\* the Coordinator delegates, recalls and notifies, and never queries data itself.
AgentTools(copy, a) ==
  LET listed == copy.agents[a].tools IN
  Offered(copy) \cap IF a = "coordinator"
               THEN (listed \cup TpApproval \cup {"recall", "delegate"}) \ {"query"}
               ELSE listed \ TpSystem

\* _agent_allowed_tools
AllowedTools(a, granted) ==
  IF Host(a).agents[a].enabled THEN AgentTools(Host(a), a) \cap granted ELSE {}

\* _merge_session_tool_snapshot: what the session had when it was created, and the tools
\* every session has.
Merged(a, tools) ==
  IF tpCreated[a] = {} THEN tools ELSE tools \cap (TpSystem \cup UNION tpCreated[a])

---------------------------------------------------------------------------
(* Configuration *)

TpEdit ==
  /\ tpCount.edits < TpEdits
  /\ tpCount' = [tpCount EXCEPT !.edits = @ + 1]
  /\ UNCHANGED <<tpCreated, tpTurn, tpTask>> /\ tpRan' = TpNothing

\* patch_agent: only tools that exist, no data tools for the Coordinator, no delegation
\* for the others.
PatchTools(a, t) ==
  LET tools == IF t \in tpAgents[a].tools THEN tpAgents[a].tools \ {t} ELSE tpAgents[a].tools \cup {t} IN
  /\ TpEdit
  /\ tools \subseteq tpKnown
  /\ IF a = "coordinator" THEN "query" \notin tools ELSE "delegate" \notin tools
  /\ tpAgents' = [tpAgents EXCEPT ![a].tools = tools]
  /\ UNCHANGED <<tpStored, tpOn, tpLinked, tpKnown, tpWorker, tpRules>>

PatchEnabled(a) ==
  /\ TpEdit
  /\ tpAgents' = [tpAgents EXCEPT ![a].enabled = ~ @]
  /\ UNCHANGED <<tpStored, tpOn, tpLinked, tpKnown, tpWorker, tpRules>>

\* AgentRegistry.save: every agent, after the change in memory.
SaveAgents ==
  /\ tpStored # tpAgents /\ tpStored' = tpAgents
  /\ tpRan' = TpNothing
  /\ UNCHANGED <<tpAgents, tpOn, tpLinked, tpKnown, tpWorker, tpRules, tpCreated, tpTurn, tpTask,
                 tpCount>>

\* patch_tool_capability
PatchCapability ==
  /\ TpEdit /\ tpOn' = ~ tpOn
  /\ UNCHANGED <<tpAgents, tpStored, tpLinked, tpKnown, tpWorker, tpRules>>

\* A connection for the data tools comes or goes.
LinkTools ==
  /\ TpEdit /\ tpLinked' = ~ tpLinked
  /\ UNCHANGED <<tpAgents, tpStored, tpOn, tpKnown, tpWorker, tpRules>>

\* The groups of the user change, or the user is disabled.
ChangeRules ==
  /\ TpEdit
  /\ \E rules \in [limited : {TRUE}, enabled : {TRUE}, tools : SUBSET {"query", "notify"}]
                    \cup {[limited |-> TRUE, enabled |-> FALSE, tools |-> {}]} : tpRules' = rules
  /\ UNCHANGED <<tpAgents, tpStored, tpOn, tpLinked, tpKnown, tpWorker>>

\* _migrate_coordinator_override: the Coordinator gets the tools that are newer than its row.
Migrated(rows) == [rows EXCEPT !["coordinator"].tools = @ \cup {"recall"}]

TpStarts ==
  /\ tpCount.edits < TpEdits
  /\ tpCount' = [tpCount EXCEPT !.edits = @ + 1]
  /\ tpRan' = TpNothing
  /\ UNCHANGED <<tpStored, tpOn, tpLinked, tpRules, tpCreated>>

\* A turn of the process is lost, unless it waits for a decision.
Ended(turn) == IF turn.pc = "approval" THEN turn ELSE TpNoTurn

\* The process that ran the task is gone: it is queued again.
Requeued == IF tpTask.pc = "run" THEN [tpTask EXCEPT !.pc = "queued"] ELSE tpTask

\* A new API process: the agents as stored, and the MCP servers that start.
TpRestart ==
  /\ TpStarts
  /\ tpAgents' = Migrated(tpStored)
  /\ tpKnown' \in {TpTool, TpTool \ {"remote"}}
  /\ tpTurn' = [a \in TpAgent |-> IF a = "specialist" /\ TpExternal THEN tpTurn[a]
                                  ELSE Ended(tpTurn[a])]
  /\ tpTask' = IF TpExternal THEN tpTask ELSE Requeued
  /\ UNCHANGED tpWorker

\* A new worker: as stored are also the capabilities and the connections.
WorkerRestart ==
  /\ TpExternal /\ TpStarts
  /\ \E known \in {TpTool, TpTool \ {"remote"}} :
       tpWorker' = [agents |-> Migrated(tpStored), on |-> tpOn, linked |-> tpLinked, known |-> known]
  /\ tpTurn' = [tpTurn EXCEPT !["specialist"] = Ended(@)]
  /\ tpTask' = Requeued
  /\ UNCHANGED <<tpAgents, tpKnown>>

---------------------------------------------------------------------------
(* Turns *)

\* run and _execute_turn, with the tools the route or the task passes.
Begin(a, passed, granted) ==
  LET tools == Merged(a, passed \cap AllowedTools(a, Granted)) IN
  /\ tpTurn[a].pc = "none" /\ Host(a).agents[a].enabled
  /\ tpTurn' = [tpTurn EXCEPT ![a] = [pc |-> "run", tools |-> tools, granted |-> granted,
                                      rebuilt |-> FALSE]]
  /\ tpCreated' = IF tpCreated[a] = {} THEN [tpCreated EXCEPT ![a] = {tools}] ELSE tpCreated

\* query_agent_runtime
TpQuery ==
  /\ ~ tpRules.limited \/ tpRules.enabled
  /\ tpCount.turns < TpTurns
  /\ Begin("coordinator", Granted, Usable(TpApi))
  /\ tpCount' = [tpCount EXCEPT !.turns = @ + 1]
  /\ UNCHANGED <<tpConfig, tpTask>> /\ tpRan' = TpNothing

\* SubagentManager.submit: the tools that the model asks for, or all that the specialist
\* has, without those that require approval.
SubmitTask(asked) ==
  LET base == AgentTools(TpApi, "specialist") \cap Granted
      tools == (IF asked = {} THEN base ELSE asked) \ TpApproval IN
  /\ tpTurn["coordinator"].pc = "run" /\ "delegate" \in tpTurn["coordinator"].tools \cap tpKnown
  /\ tpTask.pc = "none" /\ tpAgents["specialist"].enabled
  /\ asked \subseteq base /\ asked \cap TpApproval = {}
  /\ tpRules.limited => "query" \in tools
  /\ tpTask' = [pc |-> "queued", tools |-> tools, granted |-> Usable(TpApi)]
  /\ tpRan' = [agent |-> "coordinator", tool |-> "delegate"]
  /\ UNCHANGED <<tpConfig, tpCreated, tpTurn, tpCount>>

\* LangGraphSubagent._run_agent: what the task may use, of what the specialist has in the
\* process that runs it; a tool that was switched off since that started is used still.
RunTask ==
  /\ tpTask.pc = "queued"
  /\ Begin("specialist", tpTask.tools, tpTask.granted \cap Usable(Host("specialist")))
  /\ tpTask' = [tpTask EXCEPT !.pc = "run"]
  /\ UNCHANGED <<tpConfig, tpCount>> /\ tpRan' = TpNothing

\* The agent is disabled there: the task fails.
FailTask ==
  /\ tpTask.pc = "queued" /\ ~ Host("specialist").agents["specialist"].enabled
  /\ tpTask' = TpNoTask
  /\ UNCHANGED <<tpConfig, tpCreated, tpTurn, tpCount>> /\ tpRan' = TpNothing

\* _tools_node and ToolExecutor: a call that the context of the turn shows, and that needs
\* no approval; delegation is SubmitTask.
RunTool(a, t) ==
  /\ tpTurn[a].pc = "run" /\ t \in (tpTurn[a].tools \cap Host(a).known) \ (TpApproval \cup {"delegate"})
  /\ tpRan' = [agent |-> a, tool |-> t]
  /\ UNCHANGED <<tpConfig, tpCreated, tpTurn, tpTask, tpCount>>

AskApproval(a, t) ==
  /\ tpTurn[a].pc = "run" /\ t \in tpTurn[a].tools \cap Host(a).known \cap TpApproval
  /\ tpTurn' = [tpTurn EXCEPT ![a].pc = "approval"]
  /\ UNCHANGED <<tpConfig, tpCreated, tpTask, tpCount>> /\ tpRan' = TpNothing

\* decide_approval: the call is executed whatever the rules say by now ...
RunApproved(a) ==
  /\ tpTurn[a].pc = "approval"
  /\ tpTurn' = [tpTurn EXCEPT ![a].pc = "decided"]
  /\ \/ UNCHANGED tpRan
     \/ Host(a).known \cap TpApproval # {} /\ tpRan' = [agent |-> a, tool |-> "notify"]
  /\ UNCHANGED <<tpConfig, tpCreated, tpTask, tpCount>>

\* ... and the turn goes on with the tools of the agent, the rules of the user left out.
Rebuild(a) ==
  /\ tpTurn[a].pc = "decided"
  /\ tpTurn' = [tpTurn EXCEPT ![a] = [@ EXCEPT !.pc = "run", !.tools = AllowedTools(a, TpTool),
                                               !.rebuilt = TRUE]]
  /\ UNCHANGED <<tpConfig, tpCreated, tpTask, tpCount>> /\ tpRan' = TpNothing

EndOfTurn(a) ==
  /\ tpTurn[a].pc = "run"
  /\ tpTurn' = [tpTurn EXCEPT ![a] = TpNoTurn]
  /\ tpTask' = IF a = "specialist" THEN TpNoTask ELSE tpTask
  /\ tpRan' = TpNothing
  /\ UNCHANGED <<tpConfig, tpCreated, tpCount>>

TpNext ==
  \/ \E a \in TpAgent, t \in TpToggled : PatchTools(a, t)
  \/ \E a \in TpAgent : PatchEnabled(a)
  \/ SaveAgents \/ PatchCapability \/ LinkTools \/ ChangeRules \/ TpRestart \/ WorkerRestart
  \/ TpQuery \/ RunTask \/ FailTask
  \/ \E asked \in SUBSET {"query", "remote"} : SubmitTask(asked)
  \/ \E a \in TpAgent : RunApproved(a) \/ Rebuild(a) \/ EndOfTurn(a)
  \/ \E a \in TpAgent, t \in TpTool : RunTool(a, t) \/ AskApproval(a, t)

TpSpec == TpInit /\ [][TpNext]_tpVars

---------------------------------------------------------------------------
(* Properties *)

\* However rows, capabilities, connections and rules change meanwhile: the Coordinator
\* never queries data itself, and a tool that runs was granted to the user when its turn
\* began, and switched on in the process that runs the turn; for a sub-agent it was also
\* granted, and switched on in the API, when the task was submitted.  Except where a decided
\* approval has built the tools of the turn anew (resolve_agent_tool_allowlist,
\* _resolved_tools, _merge_session_tool_snapshot).
CallsAllowed ==
  LET a == tpRan.agent IN
  tpRan.tool # "none"
    => /\ a = "coordinator" => tpRan.tool # "query"
       /\ tpTurn[a].rebuilt \/ tpRan.tool \in tpTurn[a].granted
=============================================================================
