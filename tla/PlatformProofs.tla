--------------------------- MODULE PlatformProofs ---------------------------
(***************************************************************************)
(* Proofs about the run that checks the services together: in every        *)
(* behaviour of PlatformSpec each service behaves as its own specification *)
(* says, so that what is proved of the services holds of the platform.     *)
(***************************************************************************)
EXTENDS MCPlatform, AccountsProofs, RuntimeProofs, StoresProofs, TurnLoopProofs

---------------------------------------------------------------------------
(* The platform and its services *)

\* A step of the platform is a step of one service, and the others stutter.
LEMMA ServiceSteps ==
  ASSUME [PlatformNext]_platformVars
  PROVE  /\ service' = service
         /\ [MemNext]_memVars /\ [AccNext]_accVars /\ [AcNext]_acVars /\ [StrNext]_strVars
         /\ [ModNext]_modVars /\ [CirNext]_cirVars /\ [ScNext]_scVars /\ [TpNext]_tpVars
         /\ [SkNext]_skVars /\ [SdNext]_sdVars /\ [KnNext]_knVars /\ [TlNext]_tlVars
         /\ [AtNext]_atVars /\ [McpNext]_mcpVars
PROOF
<1>1. CASE UNCHANGED platformVars
  BY <1>1 DEF platformVars
<1>2. CASE service = "memory" /\ MemNext /\ Only("memory")
  BY <1>2 DEF Only
<1>3. CASE service = "accounts" /\ AccNext /\ Only("accounts")
  BY <1>3 DEF Only
<1>4. CASE service = "access" /\ AcNext /\ Only("access")
  BY <1>4 DEF Only
<1>5. CASE service = "streams" /\ StrNext /\ Only("streams")
  BY <1>5 DEF Only
<1>6. CASE service = "models" /\ ModNext /\ Only("models")
  BY <1>6 DEF Only
<1>7. CASE service = "circuit" /\ CirNext /\ Only("circuit")
  BY <1>7 DEF Only
<1>8. CASE service = "scopes" /\ ScNext /\ Only("scopes")
  BY <1>8 DEF Only
<1>9. CASE service = "tools" /\ TpNext /\ Only("tools")
  BY <1>9 DEF Only
<1>10. CASE service = "skills" /\ SkNext /\ Only("skills")
  BY <1>10 DEF Only
<1>11. CASE service = "results" /\ SdNext /\ Only("results")
  BY <1>11 DEF Only
<1>12. CASE service = "knowledge" /\ KnNext /\ Only("knowledge")
  BY <1>12 DEF Only
<1>13. CASE service = "turns" /\ TlNext /\ Only("turns")
  BY <1>13 DEF Only
<1>14. CASE service = "attachments" /\ AtNext /\ Only("attachments")
  BY <1>14 DEF Only
<1>15. CASE service = "mcp" /\ McpNext /\ Only("mcp")
  BY <1>15 DEF Only
<1> QED
  BY <1>1, <1>2, <1>3, <1>4, <1>5, <1>6, <1>7, <1>8, <1>9, <1>10, <1>11, <1>12, <1>13,
     <1>14, <1>15 DEF PlatformNext

\* Every behaviour of the platform is one of each service: of all that it says without
\* fairness, for the two that state fairness.
THEOREM ServicesRun ==
  PlatformSpec =>
    /\ AccSpec /\ AcSpec /\ ModSpec /\ CirSpec /\ ScSpec /\ TpSpec
    /\ SkSpec /\ SdSpec /\ KnSpec /\ TlSpec /\ AtSpec /\ McpSpec
    /\ MemInit /\ [][MemNext]_memVars
    /\ StrInit /\ [][StrNext]_strVars
PROOF
<1>1. PlatformInit =>
        /\ MemInit /\ AccInit /\ AcInit /\ StrInit /\ ModInit /\ CirInit /\ ScInit /\ TpInit
        /\ SkInit /\ SdInit /\ KnInit /\ TlInit /\ AtInit /\ McpInit
  BY DEF PlatformInit
<1>2. PlatformSpec => AccSpec /\ AcSpec /\ ModSpec /\ CirSpec
  BY <1>1, ServiceSteps, PTL DEF PlatformSpec, AccSpec, AcSpec, ModSpec, CirSpec
<1>3. PlatformSpec => ScSpec /\ TpSpec /\ SkSpec /\ SdSpec
  BY <1>1, ServiceSteps, PTL DEF PlatformSpec, ScSpec, TpSpec, SkSpec, SdSpec
<1>4. PlatformSpec => KnSpec /\ TlSpec /\ AtSpec /\ McpSpec
  BY <1>1, ServiceSteps, PTL DEF PlatformSpec, KnSpec, TlSpec, AtSpec, McpSpec
<1>5. PlatformSpec => MemInit /\ [][MemNext]_memVars /\ StrInit /\ [][StrNext]_strVars
  BY <1>1, ServiceSteps, PTL DEF PlatformSpec
<1> QED  BY <1>2, <1>3, <1>4, <1>5, PTL

---------------------------------------------------------------------------
(* Types *)

\* One service is chosen, for good.
LEMMA ServiceChosen == PlatformSpec => [](service \in Service)
PROOF
<1>1. PlatformInit => service \in Service
  BY DEF PlatformInit
<1>2. service \in Service /\ [PlatformNext]_platformVars => (service \in Service)'
  BY ServiceSteps
<1> QED  BY <1>1, <1>2, PTL DEF PlatformSpec

\* The state of every service has its type, for every value of the constants: whatever
\* overlaps, fails, restarts and is configured.
THEOREM PlatformTyped == PlatformSpec => []PlatformTypeOK
PROOF
<1>1. Chain => AccTypeOK
  BY DEF Chain, Typed
<1>2. Tables => AcTypeOK
  BY DEF Tables
<1>3. StrIInv => StrTypeOK
  BY DEF StrIInv
<1>4. CirFresh => CirTypeOK
  BY DEF CirFresh
<1>5. ScIInv => ScTypeOK
  BY DEF ScIInv
<1>6. TpIInv => TpTypeOK
  BY DEF TpIInv
<1>7. AtIInv => AtTypeOK
  BY DEF AtIInv
<1>8. PlatformSpec => []AccTypeOK /\ []AcTypeOK
  BY ServicesRun, ChainInit, ChainStep, AlwaysTables, <1>1, <1>2, PTL DEF AccSpec
<1>9. PlatformSpec => []StrTypeOK
  BY ServicesRun, InitSlots, SlotsStep, <1>3, PTL
<1>10. PlatformSpec => []CirTypeOK /\ []ScTypeOK
  BY ServicesRun, InitFresh, FreshStep, InitNarrowed, NarrowedStep, <1>4, <1>5, PTL DEF CirSpec, ScSpec
<1>11. PlatformSpec => []TpTypeOK /\ []AtTypeOK
  BY ServicesRun, InitAllowed, AllowedStep, InitImages, ImagesStep, <1>6, <1>7, PTL DEF TpSpec, AtSpec
<1>12. PlatformSpec => []MemTypeOK
  BY ServicesRun, InitMemTyping, MemTypingStep, InitMemHistory, MemHistoryStep, MemTypes, PTL
<1>13. PlatformSpec => []ModTypeOK /\ []SkTypeOK /\ []SdTypeOK
  BY ServicesRun, ModelsTyped, SkillsTyped, ResultsTyped, PTL
<1>14. PlatformSpec => []KnTypeOK /\ []TlTypeOK /\ []McpTypeOK
  BY ServicesRun, SpacesTyped, GraphTyped, McpClientTyped, PTL
<1>15. ( /\ service \in Service
         /\ AccTypeOK /\ AcTypeOK /\ StrTypeOK /\ CirTypeOK /\ ScTypeOK /\ TpTypeOK /\ AtTypeOK
         /\ MemTypeOK /\ ModTypeOK /\ SkTypeOK /\ SdTypeOK /\ KnTypeOK /\ TlTypeOK /\ McpTypeOK )
       => PlatformTypeOK
  BY DEF PlatformTypeOK
<1> QED
  BY ServiceChosen, <1>8, <1>9, <1>10, <1>11, <1>12, <1>13, <1>14, <1>15, PTL

---------------------------------------------------------------------------
(* What the services promise *)

\* The promises of the services, whatever overlaps, fails, restarts and is configured.  Of
\* accounts and access: a refresh token is rotated once, sessions of an older password end,
\* an enabled administrator remains, a tool has one rule, a deleted group or user leaves
\* nothing to a new one.
THEOREM AccountsKeep ==
  PlatformSpec =>
    /\ []RotatedOnce /\ []OldSessionsEnd /\ AdminRemains
    /\ []OneRulePerTool /\ []NothingInherited
PROOF
<1>1. PlatformSpec => []RotatedOnce /\ []OldSessionsEnd /\ AdminRemains
  BY ServicesRun, TokensRotateOnce, OldPasswordsEnd, AnAdminStays, PTL
<1>2. PlatformSpec => []OneRulePerTool /\ []NothingInherited
  BY ServicesRun, ToolsHaveOneRule, NothingDangles, PTL
<1> QED  BY <1>1, <1>2, PTL

\* Of what runs beside the turns: nothing is held for a request that is over; a circuit keeps
\* to its limits and a client is as new as its execution; the tools of a turn are allowed and
\* a recorded scope holds; a call reaches its MCP server once at most.
THEOREM RuntimeKeeps ==
  PlatformSpec =>
    /\ []NothingHeld /\ []CircuitHolds /\ []ClientFresh /\ []CallsAllowed
    /\ []RecordedScopeHolds /\ SentOnceBeforeStop
PROOF
<1>1. PlatformSpec => []NothingHeld
  BY ServicesRun, InitSlots, SlotsStep, SlotsReturn, PTL
<1>2. PlatformSpec => []CircuitHolds /\ []ClientFresh /\ []CallsAllowed
  BY ServicesRun, CircuitLimits, ClientsFresh, ToolsAllowed, PTL
<1>3. PlatformSpec => []RecordedScopeHolds /\ SentOnceBeforeStop
  BY ServicesRun, ScopesHold, CallsSentOnce, PTL
<1> QED  BY <1>1, <1>2, <1>3, PTL

\* Of the stores and of a turn: the router follows the files and a turn reaches its model;
\* what was forgotten stays so and a confirmation supersedes the others; shipped skills stay;
\* images and results resolve; a space names a database that exists; the context window is
\* whole, and a task is delegated once.
THEOREM PlatformKeeps ==
  PlatformSpec =>
    /\ []RouterCurrent /\ []ResolvedRuns /\ []ErasedForGood /\ ReplacedAtOnce /\ BuiltinStays
    /\ []ImagesResolve /\ []ResultsResolve /\ []SpacesConnected /\ []WindowWhole
    /\ TlRoom >= 2 => []DelegatedOnce
PROOF
<1>1. PlatformSpec => []RouterCurrent /\ []ResolvedRuns
  BY ServicesRun, RouterFollowsFiles, TurnsReachTheirModel, PTL
<1>2. PlatformSpec => []ErasedForGood /\ ReplacedAtOnce
  BY ServicesRun, ForgottenSafely, ConfirmedSafely, PTL
<1>3. PlatformSpec => BuiltinStays /\ []ImagesResolve /\ []ResultsResolve
  BY ServicesRun, ShippedSkillsStay, ImagesKept, ResultsKept, PTL
<1>4. PlatformSpec => []SpacesConnected /\ []WindowWhole
  BY ServicesRun, SpacesNamed, WindowStaysWhole, PTL
<1>5. ASSUME TlRoom >= 2 PROVE PlatformSpec => []DelegatedOnce
  <2>1. TlSpec => []DelegatedOnce
    BY <1>5, DelegatesOnce
  <2> QED  BY ServicesRun, <2>1, PTL
<1>6. PlatformSpec =>
        /\ []RouterCurrent /\ []ResolvedRuns /\ []ErasedForGood /\ ReplacedAtOnce /\ BuiltinStays
        /\ []ImagesResolve /\ []ResultsResolve /\ []SpacesConnected /\ []WindowWhole
  BY <1>1, <1>2, <1>3, <1>4, PTL
<1> QED  BY <1>5, <1>6
=============================================================================
