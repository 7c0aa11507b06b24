--------------------------- MODULE ConnectorCircuit ---------------------------
(***************************************************************************)
(* Executions over one connection of ConnectorRuntime: the lock, circuit    *)
(* breaker and retries in its state object, the cache of its client, and an *)
(* update of the connection that drops both while executions hold them.     *)
(***************************************************************************)
EXTENDS Naturals, FiniteSets

CONSTANTS
  CirExec,       \* threads that execute a tool over the connection
  NoExec,
  CirThreshold,  \* failure_threshold
  CirRetries,    \* max_retries
  CirUpdates,    \* bound on updates of the connection
  CirStates      \* bound on state objects, one more after each invalidate

ASSUME CirAssumption ==
  /\ NoExec \notin CirExec
  /\ CirThreshold \in Nat \ {0} /\ CirRetries \in Nat
  /\ CirUpdates \in Nat /\ CirStates \in Nat \ {0}

VARIABLES
  cirConfig,   \* version of the definition in the ConnectionRegistry
  cirSecret,   \* version of the credentials in the secret store
  cirClient,   \* the values behind the cached client
  cirCurrent,  \* the state object in _states, 0 if none
  cirMade,     \* state objects made
  cirState,    \* the state objects
  cirExec,     \* the executions
  cirStale     \* whether the update has still to invalidate

cirVars == <<cirConfig, cirSecret, cirClient, cirCurrent, cirMade, cirState, cirExec, cirStale>>

\* The values of a client, by version.  NoClient stands for none.
CirValues == [config : 0..CirUpdates, secret : 0..CirUpdates] \cup {[config |-> 0]}
NoClient == [config |-> 0]

\* failures stops counting at the threshold.  row: failed calls in a row since the last
\* success or cooldown; half: whether it has cooled down since the last success.
CirStateRec == [failures : 0..CirThreshold, open : BOOLEAN, owner : CirExec \cup {NoExec},
                row : 0..(CirThreshold + CirRetries + 1), half : BOOLEAN]
FreshState == [failures |-> 0, open |-> FALSE, owner |-> NoExec, row |-> 0, half |-> FALSE]

\* since: the version of the credentials when the execution began.
CirExecRec == [pc : {"idle", "state", "lock", "call"}, state : 0..CirStates, config : 0..CirUpdates,
               since : 0..CirUpdates, client : CirValues, attempt : 0..CirRetries]
NoExecution == [pc |-> "idle", state |-> 0, config |-> 0, since |-> 0, client |-> NoClient,
                attempt |-> 0]

CirTypeOK ==
  /\ cirConfig \in 0..CirUpdates /\ cirSecret \in 0..CirUpdates
  /\ cirClient \in CirValues
  /\ cirCurrent \in 0..CirStates /\ cirMade \in 0..CirStates
  /\ cirState \in [1..CirStates -> CirStateRec]
  /\ cirExec \in [CirExec -> CirExecRec]
  /\ cirStale \in BOOLEAN

CirInit ==
  /\ cirConfig = 0 /\ cirSecret = 0 /\ cirClient = NoClient
  /\ cirCurrent = 0 /\ cirMade = 0
  /\ cirState = [n \in 1..CirStates |-> FreshState]
  /\ cirExec = [e \in CirExec |-> NoExecution]
  /\ cirStale = FALSE

StateOf(e) == cirState[cirExec[e].state]

---------------------------------------------------------------------------
(* Execution *)

\* resolve_connection: the definition as it is now.
ResolveConnection(e) ==
  /\ cirExec[e].pc = "idle"
  /\ cirExec' = [cirExec EXCEPT ![e] = [NoExecution EXCEPT !.pc = "state", !.config = cirConfig,
                                                           !.since = cirSecret]]
  /\ UNCHANGED <<cirConfig, cirSecret, cirClient, cirCurrent, cirMade, cirState, cirStale>>

\* _state
GetState(e) ==
  /\ cirExec[e].pc = "state"
  /\ \/ cirCurrent # 0 /\ UNCHANGED <<cirCurrent, cirMade>>
     \/ /\ cirCurrent = 0 /\ cirMade < CirStates
        /\ cirMade' = cirMade + 1 /\ cirCurrent' = cirMade + 1
  /\ cirExec' = [cirExec EXCEPT ![e].pc = "lock", ![e].state = cirCurrent']
  /\ UNCHANGED <<cirConfig, cirSecret, cirClient, cirState, cirStale>>

\* Variant of Enter: whether the circuit is open is not looked at under the lock.
Enter_Unchecked(e, client) ==
  /\ cirExec[e].pc = "lock" /\ StateOf(e).owner = NoExec
  /\ cirState' = [cirState EXCEPT ![cirExec[e].state].owner = e]
  /\ cirClient' = client
  /\ cirExec' = [cirExec EXCEPT ![e].pc = "call", ![e].client = client]
  /\ UNCHANGED <<cirConfig, cirSecret, cirCurrent, cirMade, cirStale>>

\* Under the lock: refused while the circuit is open, else the client, from the cache if
\* it has the same values.
Enter(e, client) ==
  /\ cirExec[e].pc = "lock" /\ StateOf(e).owner = NoExec
  /\ IF StateOf(e).open
       THEN /\ cirExec' = [cirExec EXCEPT ![e] = NoExecution]
            /\ UNCHANGED <<cirState, cirClient>>
       ELSE /\ cirState' = [cirState EXCEPT ![cirExec[e].state].owner = e]
            /\ cirClient' = client
            /\ cirExec' = [cirExec EXCEPT ![e].pc = "call", ![e].client = client]
  /\ UNCHANGED <<cirConfig, cirSecret, cirCurrent, cirMade, cirStale>>

\* Variant of Client: a cached client is taken whatever its values.
Client_Cached(e) ==
  IF cirClient # NoClient THEN cirClient ELSE [config |-> cirExec[e].config, secret |-> cirSecret]

\* _client and _fingerprint: the definition read before with the credentials of now; a
\* cached client with other values is replaced.
Client(e) == [config |-> cirExec[e].config, secret |-> cirSecret]

\* The operation succeeds.
CallSucceeds(e) ==
  /\ cirExec[e].pc = "call"
  /\ cirState' = [cirState EXCEPT ![cirExec[e].state] = FreshState]
  /\ cirExec' = [cirExec EXCEPT ![e] = NoExecution]
  /\ UNCHANGED <<cirConfig, cirSecret, cirClient, cirCurrent, cirMade, cirStale>>

\* It fails: retried if that may help, and if the tool allows it (a message to DingTalk
\* is not sent again), also when this failure has opened the circuit.
CallFails(e, retried) ==
  /\ cirExec[e].pc = "call"
  /\ retried => cirExec[e].attempt < CirRetries
  /\ LET s == StateOf(e)
         failures == IF s.failures < CirThreshold THEN s.failures + 1 ELSE CirThreshold IN
     cirState' = [cirState EXCEPT ![cirExec[e].state] =
                    [s EXCEPT !.failures = failures, !.open = failures = CirThreshold \/ s.open,
                              !.owner = IF retried THEN e ELSE NoExec,
                              !.row = IF s.row > CirThreshold + CirRetries THEN s.row ELSE s.row + 1]]
  /\ cirExec' = [cirExec EXCEPT ![e] =
                   IF retried THEN [cirExec[e] EXCEPT !.attempt = cirExec[e].attempt + 1] ELSE NoExecution]
  /\ UNCHANGED <<cirConfig, cirSecret, cirClient, cirCurrent, cirMade, cirStale>>

\* circuit_cooldown_seconds pass; the failures are not forgotten.
CoolDown(n) ==
  /\ cirState[n].open
  /\ cirState' = [cirState EXCEPT ![n].open = FALSE, ![n].row = 0, ![n].half = TRUE]
  /\ UNCHANGED <<cirConfig, cirSecret, cirClient, cirCurrent, cirMade, cirExec, cirStale>>

---------------------------------------------------------------------------
(* PATCH of the connection *)

\* upsert puts the credentials first, ...
UpdateSecret ==
  /\ cirSecret = cirConfig /\ ~ cirStale /\ cirSecret < CirUpdates
  /\ cirSecret' = cirSecret + 1
  /\ UNCHANGED <<cirConfig, cirClient, cirCurrent, cirMade, cirState, cirExec, cirStale>>

\* ... then the definition.
UpdateConfig ==
  /\ cirConfig < cirSecret
  /\ cirConfig' = cirSecret
  /\ cirStale' = TRUE
  /\ UNCHANGED <<cirSecret, cirClient, cirCurrent, cirMade, cirState, cirExec>>

\* invalidate: executions under way keep their client and their state object.
Invalidate ==
  /\ cirStale /\ cirStale' = FALSE
  /\ cirClient' = NoClient /\ cirCurrent' = 0
  /\ UNCHANGED <<cirConfig, cirSecret, cirMade, cirState, cirExec>>

CirStep(e) ==
  \/ GetState(e) \/ Enter(e, Client(e)) \/ CallSucceeds(e)
  \/ \E retried \in BOOLEAN : CallFails(e, retried)

CirNext ==
  \/ \E e \in CirExec : ResolveConnection(e) \/ CirStep(e)
  \/ \E n \in 1..CirStates : CoolDown(n)
  \/ UpdateSecret \/ UpdateConfig \/ Invalidate

CirSpec == CirInit /\ [][CirNext]_cirVars

---------------------------------------------------------------------------
(* Properties *)

\* However many threads wait for the connection, a service that fails is called at most
\* threshold + retries times before the circuit keeps them out, and at most once with its
\* retries after each cooldown (_execute_connection).
CircuitHolds ==
  \A n \in 1..CirStates :
    cirState[n].row <= IF cirState[n].half THEN 1 + CirRetries ELSE CirThreshold + CirRetries

\* No call uses a client with an older definition or older credentials than were saved
\* when the execution began, although executions that overlap an update fill the cache
\* again after invalidate (_client).
ClientFresh ==
  \A e \in CirExec :
    cirExec[e].pc = "call" => /\ cirExec[e].client.config >= cirExec[e].config
                              /\ cirExec[e].client.secret >= cirExec[e].since
=============================================================================
