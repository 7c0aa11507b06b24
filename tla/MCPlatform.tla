----------------------------- MODULE MCPlatform -----------------------------
(***************************************************************************)
(* The services of the platform that share no state, checked in one run:   *)
(* a behaviour is a behaviour of one of them, chosen at the start.          *)
(***************************************************************************)
EXTENDS MemoryIndex, Accounts, AccessControl, StreamSlots,
        ModelRouting, ConnectorCircuit, ConnectorScopes, ToolPolicy,
        SkillCatalog, SessionData, KnowledgeSpaces, TurnLoop, Attachments, McpClient

CONSTANTS a1, a2   \* model ids

\* The id of the second model begins with that of the first.
OneBegins == {<<a1, a2>>}

VARIABLE service   \* the one that runs

platformVars == <<service, memVars, accVars, acVars, strVars, modVars, cirVars,
                  scVars, tpVars, skVars, sdVars, knVars, tlVars, atVars, mcpVars>>

Service == {"memory", "accounts", "access", "streams", "models", "circuit",
            "scopes", "tools", "skills", "results", "knowledge", "turns", "attachments", "mcp"}

PlatformTypeOK ==
  /\ service \in Service
  /\ service = "memory" => MemTypeOK
  /\ service = "accounts" => AccTypeOK
  /\ service = "access" => AcTypeOK
  /\ service = "streams" => StrTypeOK
  /\ service = "models" => ModTypeOK
  /\ service = "circuit" => CirTypeOK
  /\ service = "scopes" => ScTypeOK
  /\ service = "tools" => TpTypeOK
  /\ service = "skills" => SkTypeOK
  /\ service = "results" => SdTypeOK
  /\ service = "knowledge" => KnTypeOK
  /\ service = "turns" => TlTypeOK
  /\ service = "attachments" => AtTypeOK
  /\ service = "mcp" => McpTypeOK

\* The initial states that differ only matter while the service runs that they belong to.
PlatformInit ==
  /\ service \in Service
  /\ MemInit
  /\ AccInit
  /\ AcInit
  /\ StrInit
  /\ ModInit
  /\ CirInit
  /\ ScInit
  /\ TpInit
  /\ SkInit
  /\ SdInit
  /\ KnInit
  /\ TlInit
  /\ AtInit
  /\ McpInit
  /\ service # "tools" => "query" \notin tpStored["coordinator"].tools
  /\ service # "scopes" => scKind = "one"

\* Service s takes a step, and the others do not.
Only(s) ==
  /\ UNCHANGED service
  /\ IF s = "memory" THEN TRUE ELSE UNCHANGED memVars
  /\ IF s = "accounts" THEN TRUE ELSE UNCHANGED accVars
  /\ IF s = "access" THEN TRUE ELSE UNCHANGED acVars
  /\ IF s = "streams" THEN TRUE ELSE UNCHANGED strVars
  /\ IF s = "models" THEN TRUE ELSE UNCHANGED modVars
  /\ IF s = "circuit" THEN TRUE ELSE UNCHANGED cirVars
  /\ IF s = "scopes" THEN TRUE ELSE UNCHANGED scVars
  /\ IF s = "tools" THEN TRUE ELSE UNCHANGED tpVars
  /\ IF s = "skills" THEN TRUE ELSE UNCHANGED skVars
  /\ IF s = "results" THEN TRUE ELSE UNCHANGED sdVars
  /\ IF s = "knowledge" THEN TRUE ELSE UNCHANGED knVars
  /\ IF s = "turns" THEN TRUE ELSE UNCHANGED tlVars
  /\ IF s = "attachments" THEN TRUE ELSE UNCHANGED atVars
  /\ IF s = "mcp" THEN TRUE ELSE UNCHANGED mcpVars

\* What tells two states of the run apart: the service and its own state, as the others never
\* leave theirs.
OwnState ==
  <<service,
    CASE service = "memory" -> memVars
      [] service = "accounts" -> accVars
      [] service = "access" -> acVars
      [] service = "streams" -> strVars
      [] service = "models" -> modVars
      [] service = "circuit" -> cirVars
      [] service = "scopes" -> scVars
      [] service = "tools" -> tpVars
      [] service = "skills" -> skVars
      [] service = "results" -> sdVars
      [] service = "knowledge" -> knVars
      [] service = "turns" -> tlVars
      [] service = "attachments" -> atVars
      [] service = "mcp" -> mcpVars>>

PlatformNext ==
  \/ service = "memory" /\ MemNext /\ Only("memory")
  \/ service = "accounts" /\ AccNext /\ Only("accounts")
  \/ service = "access" /\ AcNext /\ Only("access")
  \/ service = "streams" /\ StrNext /\ Only("streams")
  \/ service = "models" /\ ModNext /\ Only("models")
  \/ service = "circuit" /\ CirNext /\ Only("circuit")
  \/ service = "scopes" /\ ScNext /\ Only("scopes")
  \/ service = "tools" /\ TpNext /\ Only("tools")
  \/ service = "skills" /\ SkNext /\ Only("skills")
  \/ service = "results" /\ SdNext /\ Only("results")
  \/ service = "knowledge" /\ KnNext /\ Only("knowledge")
  \/ service = "turns" /\ TlNext /\ Only("turns")
  \/ service = "attachments" /\ AtNext /\ Only("attachments")
  \/ service = "mcp" /\ McpNext /\ Only("mcp")

\* The fairness of MemoryIndex and StreamSlots, while they run.  That of the requests of
\* MemoryIndex is stated for all of them at once, which is the same while no two overlap;
\* PointsConverge asks nothing of the others.
PlatformFairness ==
  /\ WF_memVars(service = "memory" /\ \E c \in MemRequest : MemStep(c))
  /\ WF_memVars(service = "memory" /\ (MemStep(MemWorker) \/ Maintain \/ Fetch \/ Retry))
  /\ \A r \in StrRequest : WF_strVars(service = "streams" /\ StrStep(r))

PlatformSpec == PlatformInit /\ [][PlatformNext]_platformVars /\ PlatformFairness
=============================================================================
