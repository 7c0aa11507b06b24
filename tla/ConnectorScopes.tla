---------------------------- MODULE ConnectorScopes ----------------------------
(***************************************************************************)
(* What a data tool may read: the boundary of its connection, the scope the *)
(* tool is bound with, and the scope a session captured, which a sub-agent  *)
(* inherits from its parent when it is delegated.  One tool with one        *)
(* dimension of resources (store names, sids), two sessions, and the admin  *)
(* requests that move the connections and the binding meanwhile.  The       *)
(* parent runs in the API process, the sub-agent in the same or in a worker *)
(* that has read connections and binding when it started.                   *)
(***************************************************************************)
EXTENDS Naturals, FiniteSets, FiniteSetsExt

CONSTANTS
  ScConns,     \* connections are 1..ScConns, of one type; 1 has the default id
  ScRes,       \* resources of the dimension
  ScAll,       \* "*"
  ScKinds,     \* the kinds of tool: one that reads the "list" of what it may, or "one" resource
  ScEdits,     \* bound on admin requests
  ScWorker,    \* whether sub-agents run in a worker
  ScRestarts   \* bound on restarts of a process

ASSUME ScAssumption ==
  ScConns \in Nat \ {0} /\ ScAll \notin ScRes /\ ScKinds \subseteq {"list", "one"} /\ ScEdits \in Nat
  /\ ScWorker \in BOOLEAN /\ ScRestarts \in Nat

ScConn == 1..ScConns
ScScope == {{ScAll}} \cup SUBSET ScRes   \* a list with "*" says no more than "*"

VARIABLES
  scConn,     \* ConnectionRegistry._connections: boundary and whether enabled
  scSel,      \* the selection of the tool in ToolBindingRegistry, with its scope
  scEdits,
  scStored,   \* ops_tool_bindings; ops_connections is what the API process has
  scCopy,     \* both, as the worker read them
  scRestarts,
  scCreated,  \* what session.created of the parent captured
  scTurn,     \* the turn of each session: its scope and its tool call
  scFrom,     \* the scope of the parent when it delegated
  scRead,     \* the resources the last tool call of the sub-agent read, if any
  scLeft,     \* the resources that boundary, binding and scope had left it
  scKind      \* the kind of the tool

scTables == <<scStored, scCopy, scRestarts>>
scVars == <<scConn, scSel, scEdits, scTables, scCreated, scTurn, scFrom, scRead, scLeft, scKind>>

ScSession == {"parent", "child"}
ScCapture == [ids : SUBSET ScConn, scope : ScScope]
ScTurnRec == [pc : {"none", "run", "checked", "resolved"}, ids : SUBSET ScConn, scope : ScScope,
              bound : ScScope]
ScNoTurn == [pc |-> "none", ids |-> {}, scope |-> {}, bound |-> {}]

ScConnections == [ScConn -> [live : {"none", "ready", "off", "gone"}, bound : ScScope]]
\* own: whether the selection has a scope, or follows the boundary of the connection.
ScSelection == [conn : ScConn \cup {0}, own : BOOLEAN, scope : ScScope]

ScTypeOK ==
  /\ scConn \in ScConnections /\ scSel \in ScSelection
  /\ scStored \in ScSelection
  /\ scCopy.conn \in ScConnections /\ scCopy.sel \in ScSelection
  /\ scRestarts \in 0..ScRestarts
  /\ scEdits \in 0..ScEdits
  /\ scCreated \in {{}} \cup {{c} : c \in ScCapture}
  /\ scTurn \in [ScSession -> ScTurnRec]
  /\ scFrom \in ScScope /\ scRead \in ScScope /\ scLeft \in ScScope /\ scKind \in ScKinds

ScInit ==
  /\ scConn = [c \in ScConn |-> [live |-> "none", bound |-> {}]]
  /\ scSel = [conn |-> 0, own |-> FALSE, scope |-> {}]
  /\ scStored = scSel /\ scCopy = [conn |-> scConn, sel |-> scSel]
  /\ scEdits = 0 /\ scRestarts = 0
  /\ scCreated = {}
  /\ scTurn = [s \in ScSession |-> ScNoTurn]
  /\ scFrom = {} /\ scRead = {} /\ scLeft = {} /\ scKind \in ScKinds

---------------------------------------------------------------------------
(* ConnectionRegistry and ToolBindingRegistry, as a process has them *)

Api == [conn |-> scConn, sel |-> scSel]
ViewOf(s) == IF s = "child" /\ ScWorker THEN scCopy ELSE Api

Visible(v) == {c \in ScConn : v.conn[c].live \in {"ready", "off"}}
ReadyConns(v) == {c \in ScConn : v.conn[c].live = "ready"}

\* resolve_connection: the selected connection and no other, or else the default, or else
\* the first; as a set, empty if the code refuses.
Resolved(v) ==
  IF v.sel.conn # 0 THEN {v.sel.conn} \cap ReadyConns(v)
  ELSE {c \in ReadyConns(v) : \A d \in ReadyConns(v) : c <= d}

\* selected_resource_scopes
SelectedScope(v) ==
  IF v.sel.own THEN v.sel.scope ELSE UNION {v.conn[c].bound : c \in Resolved(v)}

\* execution_scope, for the one tool: none if it has no connection.
LiveScope(v) == IF Resolved(v) = {} THEN {} ELSE SelectedScope(v)

\* What both scopes allow, where "*" is everything.
Meet(a, b) == IF ScAll \in a THEN b ELSE IF ScAll \in b THEN a ELSE a \cap b
Join(a, b) == IF ScAll \in a \cup b THEN {ScAll} ELSE a \cup b
Within(a, b) == ScAll \in b \/ a \subseteq b

---------------------------------------------------------------------------
(* Admin requests *)

Edits == scEdits < ScEdits /\ scEdits' = scEdits + 1

\* PUT /v1/connections/{type} makes the default connection, or changes it.
PutConnection(bound) ==
  /\ Edits
  /\ scConn' = [scConn EXCEPT ![1] =
                  [live |-> IF 1 \in Visible(Api) THEN @.live ELSE "ready", bound |-> bound]]
  /\ UNCHANGED <<scSel, scTables, scCreated, scTurn, scFrom, scRead, scLeft>>

\* POST /v1/connections makes another one.
CreateConnection(c, live, bound) ==
  /\ Edits /\ c # 1 /\ scConn[c].live = "none"
  /\ scConn' = [scConn EXCEPT ![c] = [live |-> live, bound |-> bound]]
  /\ UNCHANGED <<scSel, scTables, scCreated, scTurn, scFrom, scRead, scLeft>>

\* PATCH /v1/connections/{id}: the binding keeps the scope it has.
PatchConnection(c, live, bound) ==
  /\ Edits /\ c \in Visible(Api)
  /\ scConn' = [scConn EXCEPT ![c] = [live |-> live, bound |-> bound]]
  /\ UNCHANGED <<scSel, scTables, scCreated, scTurn, scFrom, scRead, scLeft>>

\* DELETE /v1/connections/{id}, refused while a tool selects it.
DeleteConnection(c) ==
  /\ Edits /\ c \in Visible(Api) /\ scSel.conn # c
  /\ scConn' = [scConn EXCEPT ![c] = [live |-> "gone", bound |-> {}]]
  /\ UNCHANGED <<scSel, scTables, scCreated, scTurn, scFrom, scRead, scLeft>>

\* PUT /v1/tools/{name}/connection (select): within the boundary, all of it if no scope is
\* asked for.
BindTool(c, requested) ==
  LET values == IF requested = {} THEN scConn[c].bound ELSE requested IN
  /\ Edits /\ c \in ReadyConns(Api)
  /\ Within(values, scConn[c].bound)
  /\ scSel' = [conn |-> c, own |-> TRUE, scope |-> values] /\ scStored' = scSel'
  /\ UNCHANGED <<scConn, scCopy, scRestarts, scCreated, scTurn, scFrom, scRead, scLeft>>

---------------------------------------------------------------------------
(* Sessions *)

\* _live_connector_scope
LiveCapture == [ids |-> Resolved(Api), scope |-> LiveScope(Api)]

\* A turn of the parent: what its session captured when it was created, and what is live.
StartTurn ==
  LET live == LiveCapture
      base == IF scCreated = {} THEN live ELSE CHOOSE c \in scCreated : TRUE IN
  /\ scTurn["parent"].pc = "none"
  /\ scCreated' = {base}
  /\ scTurn' = [scTurn EXCEPT !["parent"] =
                  [ScNoTurn EXCEPT !.pc = "run", !.ids = base.ids \cup live.ids,
                                 !.scope = Join(base.scope, live.scope)]]
  /\ UNCHANGED <<scConn, scSel, scEdits, scTables, scFrom, scRead, scLeft>>

EndTurn ==
  /\ scTurn["parent"].pc = "run"
  /\ scTurn' = [scTurn EXCEPT !["parent"] = ScNoTurn]
  /\ UNCHANGED <<scConn, scSel, scEdits, scTables, scCreated, scFrom, scRead, scLeft>>

\* _resolved_connection_scope: no id asks for all connections, no scope for their boundary.
AskedIds == IF scTurn["parent"].ids = {} THEN Visible(Api) ELSE scTurn["parent"].ids
Boundary == UNION {scConn[c].bound : c \in AskedIds}
AskedScope == IF scTurn["parent"].scope = {} THEN Boundary ELSE scTurn["parent"].scope

\* Variant of InheritedScope: the child gets the scope its tool is bound with.
InheritedScope_Bound == LiveScope(Api)

\* _scope_for_allowed_tools: the scope of the tool met with the inherited one.  If nothing
\* is left, the record names no scope.
InheritedScope == IF LiveScope(Api) = {} THEN {} ELSE Meet(AskedScope, LiveScope(Api))

\* The parent delegates: submit, with the connections and the scope of its turn.
Delegate ==
  LET ids == AskedIds \cap Resolved(Api) IN
  /\ scTurn["parent"].pc = "run" /\ scTurn["child"].pc = "none"
  /\ AskedIds \subseteq Visible(Api)
  /\ Within(AskedScope, Boundary)
  /\ Resolved(Api) = {} \/ ids # {}
  /\ scTurn' = [scTurn EXCEPT !["child"] =
                  [ScNoTurn EXCEPT !.pc = "run", !.ids = ids,
                                 !.scope = IF Resolved(Api) = {} THEN {} ELSE InheritedScope]]
  /\ scFrom' = scTurn["parent"].scope /\ scRead' = {}
  /\ UNCHANGED <<scConn, scSel, scEdits, scTables, scCreated, scLeft>>

---------------------------------------------------------------------------
(* A call of the tool *)

\* ConnectorAccessGuard
CheckTool(s) ==
  /\ scTurn[s].pc = "run"
  /\ Resolved(ViewOf(s)) # {} /\ Resolved(ViewOf(s)) \subseteq scTurn[s].ids
  /\ scTurn' = [scTurn EXCEPT ![s].pc = "checked"]
  /\ scRead' = IF s = "child" THEN {} ELSE scRead
  /\ UNCHANGED <<scConn, scSel, scEdits, scTables, scCreated, scFrom, scLeft>>

\* execute_tool resolves the connection again.
ResolveTool(s) ==
  /\ scTurn[s].pc = "checked"
  /\ scTurn' = [scTurn EXCEPT ![s] =
                  IF Resolved(ViewOf(s)) = {} THEN [@ EXCEPT !.pc = "run"]
                  ELSE [@ EXCEPT !.pc = "resolved",
                                 !.bound = UNION {ViewOf(s).conn[c].bound : c \in Resolved(ViewOf(s))}]]
  /\ UNCHANGED <<scConn, scSel, scEdits, scTables, scCreated, scFrom, scRead, scLeft>>

\* scoped_tool_resources: the boundary met with the binding of now, then with the scope of
\* the session if it names one.  A binding of "*" under a boundary that is not allows nothing.
ToolResources(s) ==
  LET current == IF ScAll \in scTurn[s].bound THEN SelectedScope(ViewOf(s))
                 ELSE scTurn[s].bound \cap SelectedScope(ViewOf(s))
  IN IF scTurn[s].scope = {} THEN current ELSE Meet(current, scTurn[s].scope)

\* The callback of s reads these resources.
Read(s, resources) ==
  /\ scTurn[s].pc = "resolved"
  /\ scTurn' = [scTurn EXCEPT ![s].pc = "run", ![s].bound = {}]
  /\ scRead' = IF s = "parent" THEN scRead ELSE resources
  /\ scLeft' = IF s = "parent" THEN scLeft ELSE ToolResources(s)
  /\ UNCHANGED <<scConn, scSel, scEdits, scTables, scCreated, scFrom>>

\* lingxing_profit_query and amazon_finance_query read all they may; they take an empty
\* list for no restriction.
ReadResources(s) ==
  /\ scKind = "list"
  /\ Read(s, IF ToolResources(s) = {} THEN {ScAll} ELSE ToolResources(s))

\* profit_report_query reads the resource it is asked for, or the only one; without a
\* restriction any, which is what "*" stands for (resolve_tool_resource).
ReadResource(s) ==
  LET allowed == ToolResources(s) IN
  /\ scKind = "one"
  /\ \E resource \in allowed : (ScAll \in allowed => resource = ScAll) /\ Read(s, {resource})

---------------------------------------------------------------------------
(* Restarts *)

\* seed_default_bindings: while no tool is bound, the tool is bound to one of the
\* connections, whether it is enabled or not, within its boundary.
Seeded ==
  IF scStored.conn # 0 \/ Visible(Api) = {} THEN {scStored}
  ELSE {[conn |-> c, own |-> scConn[c].bound # {}, scope |-> scConn[c].bound] : c \in Visible(Api)}

\* The worker reads what is stored.  Its task is claimed again, with the record it had.
RestartWorker ==
  /\ scRestarts < ScRestarts /\ scRestarts' = scRestarts + 1
  /\ ScWorker
  /\ \E sel \in Seeded : scStored' = sel /\ scCopy' = [conn |-> scConn, sel |-> sel]
  /\ scTurn' = [scTurn EXCEPT !["child"] =
                  IF @.pc = "none" THEN @ ELSE [@ EXCEPT !.pc = "run", !.bound = {}]]
  /\ UNCHANGED <<scConn, scSel, scEdits, scCreated, scFrom, scRead, scLeft>>

\* The API process likewise; the turns that it ran are over.
RestartApi ==
  /\ scRestarts < ScRestarts /\ scRestarts' = scRestarts + 1
  /\ \E sel \in Seeded : scStored' = sel /\ scSel' = sel
  /\ scTurn' = [s \in ScSession |-> IF s = "child" /\ ScWorker THEN scTurn[s] ELSE ScNoTurn]
  /\ UNCHANGED <<scConn, scCopy, scEdits, scCreated, scFrom, scRead, scLeft>>

ScNext ==
  /\ UNCHANGED scKind
  /\ \/ \E bound \in ScScope : PutConnection(bound)
     \/ \E c \in ScConn, bound \in ScScope :
          \/ BindTool(c, bound)
          \/ \E live \in {"ready", "off"} : CreateConnection(c, live, bound) \/ PatchConnection(c, live, bound)
     \/ \E c \in ScConn : DeleteConnection(c)
     \/ StartTurn \/ EndTurn \/ Delegate
     \/ RestartWorker \/ RestartApi
     \/ \E s \in ScSession : CheckTool(s) \/ ResolveTool(s) \/ ReadResources(s) \/ ReadResource(s)

ScSpec == ScInit /\ [][ScNext]_scVars

---------------------------------------------------------------------------
(* Properties *)

\* A sub-agent whose record names a scope reads nothing outside what its parent was
\* allowed when it delegated, however connections and binding move before the delegation,
\* after it and during the call, and whatever the worker missed of it
\* (_scope_for_allowed_tools, scoped_tool_resources).  Only a tool that reads a list, and
\* that boundary, binding and scope have left nothing, reads everything.
RecordedScopeHolds ==
  scFrom # {} /\ scTurn["child"].scope # {} =>
    Within(scRead, scFrom) \/ (scKind = "list" /\ scLeft = {})

\* "Scope can only be narrowed, delegation cannot widen it": a sub-agent of a parent with
\* a scope reads nothing outside it.
ScopeOnlyNarrows == scFrom # {} => Within(scRead, scFrom)
=============================================================================
