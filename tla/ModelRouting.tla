----------------------------- MODULE ModelRouting -----------------------------
(***************************************************************************)
(* Model configuration and model calls: the registry in memory, its file    *)
(* and the separate file of keys, the router built from the registry, and   *)
(* a turn that resolves a model, later routes to an adapter and calls it.   *)
(***************************************************************************)
EXTENDS Naturals, FiniteSets

CONSTANTS
  ModId,        \* model ids
  ModAdmins,    \* bound on requests that change the configuration, in order
  NoMod,
  ModBegins,    \* pairs of ids: the second begins with the first
  ModRetries,   \* MODEL_MAX_RETRIES
  ModCrashes    \* bound on restarts

ModAdmin == 1..ModAdmins

ASSUME ModAssumption ==
  /\ NoMod \notin ModId
  /\ ModAdmins \in Nat /\ ModRetries \in Nat /\ ModCrashes \in Nat
  /\ ModBegins \subseteq ModId \X ModId

VARIABLES
  modMem,      \* ModelRegistry._models
  modFile,     \* model_definitions.json, where no model has a key
  modSecret,   \* models with a key in model_secrets.json
  modRouter,   \* ModelRouter.adapters
  modAdmin,    \* how far each change has come
  modRead,     \* what a change that reloads the registry has read from the files
  modOverlap,  \* whether the last change to begin found another under way
  modTurn,     \* a turn of the agent
  modCrashed

modVars == <<modMem, modFile, modSecret, modRouter, modAdmin, modRead, modOverlap, modTurn, modCrashed>>

ModRow == [here : BOOLEAN, enabled : BOOLEAN, default : BOOLEAN, image : BOOLEAN, key : BOOLEAN]
NoModel == [here |-> FALSE, enabled |-> FALSE, default |-> FALSE, image |-> FALSE, key |-> FALSE]
NoModels == [m \in ModId |-> NoModel]

ModAdapter == [kind : {"none", "nokey", "live"}, image : BOOLEAN]

\* calm: since the model was resolved nothing was being configured, nor left behind by
\* changes that overlapped.
ModTurns == [pc : {"idle", "resolved", "calling", "unrouted", "done"}, model : ModId \cup {NoMod},
             adapter : ModId \cup {NoMod}, image : BOOLEAN, calls : 0..(ModRetries + 1),
             calm : BOOLEAN]
NoTurn == [pc |-> "idle", model |-> NoMod, adapter |-> NoMod, image |-> FALSE, calls |-> 0,
           calm |-> TRUE]

ModTypeOK ==
  /\ modMem \in [ModId -> ModRow] /\ modFile \in [ModId -> ModRow]
  /\ modSecret \subseteq ModId
  /\ modRouter \in [ModId -> ModAdapter]
  /\ modAdmin \in [ModAdmin -> {"idle", "save", "reload", "assign", "swap", "done"}]
  /\ modRead \in [ModAdmin -> [ModId -> ModRow]]
  /\ modOverlap \in BOOLEAN
  /\ modTurn \in ModTurns
  /\ modCrashed \in 0..ModCrashes

ModInit ==
  /\ modMem = NoModels /\ modFile = NoModels
  /\ modSecret = {}
  /\ modRouter = [m \in ModId |-> [kind |-> "none", image |-> FALSE]]
  /\ modAdmin = [a \in ModAdmin |-> "idle"]
  /\ modRead = [a \in ModAdmin |-> NoModels]
  /\ modOverlap = FALSE
  /\ modTurn = NoTurn
  /\ modCrashed = 0

---------------------------------------------------------------------------
(* The registry *)

Enabled(ms) == {m \in ModId : ms[m].here /\ ms[m].enabled}
Callable(ms) == {m \in Enabled(ms) : ms[m].key}
DefaultOf(ms) == {m \in Enabled(ms) : ms[m].default}

MadeDefault(ms, chosen) == [m \in ModId |-> [ms[m] EXCEPT !.default = ms[m].here /\ m = chosen]]

\* _ensure_default: one of several defaults, or of all enabled models, in the order
\* of a dictionary.
EnsuredDefault(ms) ==
  IF Enabled(ms) = {} \/ Cardinality(DefaultOf(ms)) = 1 THEN {ms}
  ELSE {MadeDefault(ms, m) : m \in IF DefaultOf(ms) = {} THEN Enabled(ms) ELSE DefaultOf(ms)}

\* _clear_default
Cleared(ms) == [m \in ModId |-> [ms[m] EXCEPT !.default = FALSE]]

\* reload: the file, with the keys of the other file.
Loaded == [m \in ModId |-> [modFile[m] EXCEPT !.key = modFile[m].here /\ m \in modSecret]]

\* create_model_router_from_registry and build_adapter_for_model
RouterOf(ms) ==
  [m \in ModId |->
     IF m \notin Enabled(ms) THEN [kind |-> "none", image |-> FALSE]
     ELSE [kind |-> IF ms[m].key THEN "live" ELSE "nokey", image |-> ms[m].image]]

NothingConfigured == \A a \in ModAdmin : modAdmin[a] \in {"idle", "done"}

\* The routes run in a pool of threads, and neither they nor the registry take a lock.
AdminBegins(a) ==
  /\ modAdmin[a] = "idle" /\ \A b \in 1..(a - 1) : modAdmin[b] # "idle"
  /\ modAdmin' = [modAdmin EXCEPT ![a] = "save"]
  /\ modOverlap' = ~ NothingConfigured
  /\ modTurn' = [modTurn EXCEPT !.calm = FALSE]

\* _validate_activation
MayBe(row) == row.enabled => row.key

\* create_configuration_model
CreateModel(a, m, row) ==
  /\ ~ modMem[m].here /\ row.here /\ MayBe(row)
  /\ AdminBegins(a)
  /\ modMem' \in EnsuredDefault([(IF row.default THEN Cleared(modMem) ELSE modMem) EXCEPT ![m] = row])
  /\ modSecret' = IF row.key THEN modSecret \cup {m} ELSE modSecret
  /\ UNCHANGED <<modFile, modRouter, modRead, modCrashed>>

\* patch_configuration_model: a key is added or stays, other fields change freely.
UpdateModel(a, m, row) ==
  /\ modMem[m].here /\ row.here /\ MayBe(row)
  /\ modMem[m].key => row.key
  /\ AdminBegins(a)
  /\ modMem' \in EnsuredDefault([(IF row.default THEN Cleared(modMem) ELSE modMem) EXCEPT ![m] = row])
  /\ modSecret' = IF row.key THEN modSecret \cup {m} ELSE modSecret
  /\ UNCHANGED <<modFile, modRouter, modRead, modCrashed>>

\* delete_configuration_model
DeleteModel(a, m) ==
  /\ modMem[m].here
  /\ AdminBegins(a)
  /\ modMem' \in EnsuredDefault([modMem EXCEPT ![m] = NoModel])
  /\ modSecret' = modSecret \ {m}
  /\ UNCHANGED <<modFile, modRouter, modRead, modCrashed>>

\* save
SaveModels(a) ==
  /\ modAdmin[a] = "save"
  /\ modFile' = [m \in ModId |-> [modMem[m] EXCEPT !.key = FALSE]]
  /\ modAdmin' = [modAdmin EXCEPT ![a] = "reload"]
  /\ UNCHANGED <<modMem, modSecret, modRouter, modRead, modOverlap, modTurn, modCrashed>>

\* _reload_model_router: reload reads the files, without a lock, ...
ReadModels(a) ==
  /\ modAdmin[a] = "reload"
  /\ \E ms \in EnsuredDefault(Loaded) : modRead' = [modRead EXCEPT ![a] = ms]
  /\ modAdmin' = [modAdmin EXCEPT ![a] = "assign"]
  /\ UNCHANGED <<modMem, modFile, modSecret, modRouter, modOverlap, modTurn, modCrashed>>

\* ... then replaces the registry by what it has read, ...
AssignModels(a) ==
  /\ modAdmin[a] = "assign"
  /\ modMem' = modRead[a]
  /\ modRead' = [modRead EXCEPT ![a] = NoModels]
  /\ modAdmin' = [modAdmin EXCEPT ![a] = "swap"]
  /\ UNCHANGED <<modFile, modSecret, modRouter, modOverlap, modTurn, modCrashed>>

\* Variant of SwapRouter: adapters that exist are kept.
SwapRouter_Keeps(a) ==
  /\ modAdmin[a] = "swap"
  /\ modRouter' = [m \in ModId |-> IF modRouter[m].kind # "none" THEN modRouter[m] ELSE RouterOf(modMem)[m]]
  /\ modAdmin' = [modAdmin EXCEPT ![a] = "done"]
  /\ UNCHANGED <<modMem, modFile, modSecret, modRead, modOverlap, modTurn, modCrashed>>

\* ... and a new router from the registry.
SwapRouter(a) ==
  /\ modAdmin[a] = "swap"
  /\ modRouter' = RouterOf(modMem)
  /\ modAdmin' = [modAdmin EXCEPT ![a] = "done"]
  /\ UNCHANGED <<modMem, modFile, modSecret, modRead, modOverlap, modTurn, modCrashed>>

\* The process ends at any point and starts again from the files.
RestartModels ==
  /\ modCrashed < ModCrashes /\ modCrashed' = modCrashed + 1
  /\ modMem' \in EnsuredDefault(Loaded)
  /\ modRouter' = RouterOf(modMem')
  /\ modAdmin' = [a \in ModAdmin |-> IF modAdmin[a] = "idle" THEN "idle" ELSE "done"]
  /\ modRead' = [a \in ModAdmin |-> NoModels]
  /\ modOverlap' = FALSE
  /\ modTurn' = NoTurn
  /\ UNCHANGED <<modFile, modSecret>>

---------------------------------------------------------------------------
(* A turn *)

\* The default model if it can be called, else any that can; Variant: an enabled one.
FallbackModel_Enabled == IF DefaultOf(modMem) # {} THEN DefaultOf(modMem) ELSE Enabled(modMem)

\* resolve_model_id without an id.
FallbackModel ==
  LET ready == Callable(modMem) IN
  IF ready \cap DefaultOf(modMem) # {} THEN ready \cap DefaultOf(modMem) ELSE ready

\* _resolve_model_id: the model of the request or of the session, or the fallback.
ResolveModel(m, image) ==
  /\ modTurn.pc = "idle"
  /\ m \in Callable(modMem) \cup FallbackModel
  /\ modTurn' = [NoTurn EXCEPT !.pc = "resolved", !.model = m, !.image = image, 
                                  !.calm = NothingConfigured /\ ~ modOverlap]
  /\ UNCHANGED <<modMem, modFile, modSecret, modRouter, modAdmin, modRead, modOverlap, modCrashed>>

\* The adapters that ModelRouter.route may choose: with an image the first one that
\* takes images, of this model or of one whose id begins with the id of this model.
Routes(m, image) ==
  LET seeing == {n \in ModId : /\ n = m \/ <<m, n>> \in ModBegins
                               /\ modRouter[n].kind # "none" /\ modRouter[n].image} IN
  IF image THEN seeing ELSE {m}

\* route: no adapter any more, none for images, or one that has no key.
RouteTurn ==
  /\ modTurn.pc = "resolved"
  /\ LET routes == Routes(modTurn.model, modTurn.image)
         failed == [modTurn EXCEPT !.pc = "unrouted"] IN
     modTurn' \in IF routes = {} THEN {failed}
                  ELSE {IF modRouter[n].kind # "live" THEN failed
                        ELSE [modTurn EXCEPT !.pc = "calling", !.adapter = n] : n \in routes}
  /\ UNCHANGED <<modMem, modFile, modSecret, modRouter, modAdmin, modRead, modOverlap, modCrashed>>

\* invoke_*_with_backoff: an answer, an error for good, or one that is retried while
\* retries are left.
CallModel ==
  /\ modTurn.pc = "calling"
  /\ \/ modTurn' = [modTurn EXCEPT !.pc = "done", !.calls = modTurn.calls + 1]
     \/ /\ modTurn.calls < ModRetries
        /\ modTurn' = [modTurn EXCEPT !.calls = modTurn.calls + 1]
  /\ UNCHANGED <<modMem, modFile, modSecret, modRouter, modAdmin, modRead, modOverlap, modCrashed>>

\* The next turn, or the next call of the model with the id resolved before.
NextTurn ==
  /\ modTurn.pc \in {"unrouted", "done"}
  /\ modTurn' \in {NoTurn} \cup
       (IF modTurn.pc = "done" THEN {[modTurn EXCEPT !.pc = "resolved", !.adapter = NoMod, !.calls = 0]} ELSE {})
  /\ UNCHANGED <<modMem, modFile, modSecret, modRouter, modAdmin, modRead, modOverlap, modCrashed>>

ModNext ==
  \/ \E a \in ModAdmin :
       \/ /\ modAdmin[a] = "idle"
          /\ \/ \E m \in ModId, row \in ModRow : CreateModel(a, m, row) \/ UpdateModel(a, m, row)
             \/ \E m \in ModId : DeleteModel(a, m)
       \/ SaveModels(a) \/ ReadModels(a) \/ AssignModels(a) \/ SwapRouter(a)
  \/ RestartModels
  \/ \E m \in ModId, image \in BOOLEAN : ResolveModel(m, image)
  \/ RouteTurn \/ CallModel \/ NextTurn

ModSpec == ModInit /\ [][ModNext]_modVars

---------------------------------------------------------------------------
(* Properties *)

\* A saved configuration is in force at once (README.md): after each change, and after a
\* restart at any point of one, the router has what the files say, and one enabled model
\* is the default (_reload_model_router, _ensure_default).  Changes that overlap may leave
\* an older registry and router in force; the next change that is made alone, or the next
\* restart, sets them right whatever they were.
RouterCurrent ==
  NothingConfigured /\ ~ modOverlap
    => /\ modMem \in EnsuredDefault(Loaded)
       /\ modRouter = RouterOf(modMem)
       /\ Enabled(modMem) # {} => Cardinality(DefaultOf(modMem)) = 1

\* The enabled models that take images and whose id begins with that of model m.
Likes(m) == {n \in Enabled(modMem) : <<m, n>> \in ModBegins /\ modMem[n].image}

\* A turn whose model was resolved while nothing was being configured reaches the provider
\* of that model (resolve_model_id against route).  With an image it may reach another
\* that takes images, but only one whose id begins with the id of the model; and it
\* fails only if the model takes no images or such another one has no key.
ResolvedRuns ==
  modTurn.calm
    => /\ modTurn.pc = "unrouted"
            => /\ modTurn.image
               /\ \/ ~ modMem[modTurn.model].image
                  \/ \E n \in Likes(modTurn.model) : ~ modMem[n].key
       /\ \/ modTurn.adapter \in {NoMod, modTurn.model}
          \/ modTurn.image /\ modTurn.adapter \in Likes(modTurn.model)
=============================================================================
