---------------------------- MODULE RuntimeProofs ----------------------------
(***************************************************************************)
(* What holds, for any number of threads, connections, sessions and         *)
(* requests, of the services around the agent runtime: the executions over  *)
(* a connection, the scopes and the tools of a turn, the slots of streams,  *)
(* the calls of an MCP server.                                              *)
(***************************************************************************)
EXTENDS ConnectorCircuit, ConnectorScopes, ToolPolicy, StreamSlots, McpClient, FiniteSetTheorems,
        TLAPS

---------------------------------------------------------------------------
(* Executions over a connection *)

\* An execution that has asked for its state object has one, ...
CirBound == \A e \in CirExec : cirExec[e].pc \in {"lock", "call"} => cirExec[e].state \in 1..CirStates

\* ... and the credentials have only moved on since it began.
CirSince == \A e \in CirExec : cirExec[e].pc # "idle" => cirExec[e].since <= cirSecret

CirFresh == CirTypeOK /\ CirBound /\ CirSince /\ ClientFresh

\* An execution that calls owns its state object, and no other one.
CirOwned ==
  \A n \in 1..CirStates, e \in CirExec :
    cirState[n].owner = e <=> cirExec[e].pc = "call" /\ cirExec[e].state = n

\* The failures in a row after which the circuit opens: all of the threshold, or one after
\* a cooldown, which does not forget the failures.
Tolerated(s) == IF s.half THEN 1 ELSE CirThreshold

\* While the circuit is closed the count has not reached the threshold, or stands there
\* with no failure since the cooldown; once it is open only the owner goes on, for the
\* attempts it has left.
StateCounted(s, exec) ==
  /\ s.open => s.failures = CirThreshold
  /\ ~ s.open => IF s.half THEN s.row = 0 /\ s.failures = CirThreshold
                 ELSE s.row = s.failures /\ s.row < CirThreshold
  /\ s.row <= Tolerated(s) + CirRetries
  /\ \A e \in CirExec : s.open /\ s.owner = e => s.row < Tolerated(s) + exec[e].attempt

CirCounted == \A n \in 1..CirStates : StateCounted(cirState[n], cirExec)

CirIInv == CirFresh /\ CirOwned /\ CirCounted

\* Each step of an execution changes its own record, and the state object it has at most.
LEMMA ExecutionStep ==
  ASSUME CirFresh, NEW e \in CirExec, ResolveConnection(e) \/ CirStep(e)
  PROVE  /\ cirExec' \in [CirExec -> CirExecRec]
         /\ \A d \in CirExec \ {e} : cirExec'[d] = cirExec[d]
         /\ cirConfig' = cirConfig /\ cirSecret' = cirSecret
PROOF
<1> USE CirAssumption
<1>0. e \in CirExec /\ cirExec[e] \in CirExecRec /\ cirExec \in [CirExec -> CirExecRec]
  BY DEF CirFresh, CirTypeOK
<1>e. NoExecution \in CirExecRec
  BY DEF NoExecution, CirExecRec, CirValues, NoClient
<1>1. CASE ResolveConnection(e)
  <2>1. [NoExecution EXCEPT !.pc = "state", !.config = cirConfig, !.since = cirSecret] \in CirExecRec
    BY <1>e DEF CirFresh, CirTypeOK, CirExecRec, NoExecution
  <2> QED  BY <1>0, <1>1, <2>1 DEF ResolveConnection
<1>2. CASE GetState(e)
  <2>1. cirCurrent' \in 0..CirStates
    BY <1>2 DEF GetState, CirFresh, CirTypeOK
  <2>2. [cirExec[e] EXCEPT !.pc = "lock", !.state = cirCurrent'] \in CirExecRec
    BY <1>0, <2>1 DEF CirExecRec
  <2>3. cirExec' = [cirExec EXCEPT ![e] = [cirExec[e] EXCEPT !.pc = "lock", !.state = cirCurrent']]
    BY <1>0, <1>2 DEF GetState, CirExecRec
  <2> QED  BY <1>0, <1>2, <2>2, <2>3 DEF GetState
<1>3. CASE Enter(e, Client(e))
  <2>1. Client(e) \in CirValues
    BY <1>0 DEF Client, CirValues, CirExecRec, CirFresh, CirTypeOK
  <2>2. [cirExec[e] EXCEPT !.pc = "call", !.client = Client(e)] \in CirExecRec
    BY <1>0, <2>1 DEF CirExecRec
  <2>3. \/ cirExec' = [cirExec EXCEPT ![e] = [cirExec[e] EXCEPT !.pc = "call", !.client = Client(e)]]
        \/ cirExec' = [cirExec EXCEPT ![e] = NoExecution]
    BY <1>0, <1>3 DEF Enter, CirExecRec
  <2> QED  BY <1>0, <1>e, <1>3, <2>2, <2>3 DEF Enter
<1>4. CASE CallSucceeds(e)
  BY <1>0, <1>e, <1>4 DEF CallSucceeds
<1>5. ASSUME NEW retried \in BOOLEAN, CallFails(e, retried)
      PROVE  /\ cirExec' \in [CirExec -> CirExecRec]
             /\ \A d \in CirExec \ {e} : cirExec'[d] = cirExec[d]
             /\ cirConfig' = cirConfig /\ cirSecret' = cirSecret
  <2>1. retried => [cirExec[e] EXCEPT !.attempt = cirExec[e].attempt + 1] \in CirExecRec
    BY <1>0, <1>5 DEF CallFails, CirExecRec
  <2> QED  BY <1>0, <1>e, <1>5, <2>1 DEF CallFails
<1> QED  BY <1>1, <1>2, <1>3, <1>4, <1>5 DEF CirStep

\* What a step leaves of the state objects: a success or a failure writes the one of the
\* execution, and entering takes its lock.
LEMMA StateObjects ==
  ASSUME CirFresh, NEW e \in CirExec, CirStep(e)
  PROVE  cirState' \in [1..CirStates -> CirStateRec]
PROOF
<1> USE CirAssumption
<1>0. cirExec[e] \in CirExecRec /\ cirState \in [1..CirStates -> CirStateRec]
  BY DEF CirFresh, CirTypeOK
<1> DEFINE n == cirExec[e].state
<1>1. CASE GetState(e)
  BY <1>0, <1>1 DEF GetState
<1>2. CASE Enter(e, Client(e))
  <2>1. n \in 1..CirStates
    BY <1>2 DEF Enter, CirFresh, CirBound
  <2>2. cirState[n] \in CirStateRec
    BY <1>0, <2>1
  <2>3. [cirState[n] EXCEPT !.owner = e] \in CirStateRec
    BY <2>2 DEF CirStateRec
  <2>4. cirState' = cirState \/ cirState' = [cirState EXCEPT ![n] = [cirState[n] EXCEPT !.owner = e]]
    BY <1>0, <1>2, <2>1, <2>2 DEF Enter, CirStateRec
  <2> QED  BY <1>0, <2>1, <2>3, <2>4
<1>3. CASE CallSucceeds(e)
  <2>1. FreshState \in CirStateRec
    BY DEF FreshState, CirStateRec
  <2> QED  BY <1>0, <1>3, <2>1 DEF CallSucceeds
<1>4. ASSUME NEW retried \in BOOLEAN, CallFails(e, retried)
      PROVE  cirState' \in [1..CirStates -> CirStateRec]
  <2>1. n \in 1..CirStates
    BY <1>4 DEF CallFails, CirFresh, CirBound
  <2>2. cirState[n] \in CirStateRec
    BY <1>0, <2>1
  <2> DEFINE s == cirState[n]
             failures == IF s.failures < CirThreshold THEN s.failures + 1 ELSE CirThreshold
             owner == IF retried THEN e ELSE NoExec
             row == IF s.row > CirThreshold + CirRetries THEN s.row ELSE s.row + 1
  <2>3. /\ failures \in 0..CirThreshold /\ s.open \in BOOLEAN
        /\ row \in 0..(CirThreshold + CirRetries + 1) /\ owner \in CirExec \cup {NoExec}
    BY <2>2 DEF CirStateRec
  <2>4. [s EXCEPT !.failures = failures, !.open = failures = CirThreshold \/ s.open,
                  !.owner = owner, !.row = row] \in CirStateRec
    <3> HIDE DEF s, failures, owner, row
    <3>1. s \in CirStateRec
      BY <2>2 DEF s
    <3> QED  BY <2>3, <3>1 DEF CirStateRec
  <2>5. cirState' = [cirState EXCEPT ![n] =
                       [s EXCEPT !.failures = failures, !.open = failures = CirThreshold \/ s.open,
                                 !.owner = owner, !.row = row]]
    BY <1>4 DEF CallFails, StateOf
  <2> QED  BY <1>0, <2>1, <2>4, <2>5
<1> QED  BY <1>1, <1>2, <1>3, <1>4 DEF CirStep

LEMMA InitFresh == CirInit => CirFresh
PROOF
<1> USE CirAssumption
<1>1. FreshState \in CirStateRec /\ NoExecution \in CirExecRec /\ NoClient \in CirValues
  BY DEF FreshState, CirStateRec, NoExecution, CirExecRec, CirValues, NoClient
<1>2. CirInit => CirTypeOK
  <2>1. 0 \in 0..CirUpdates /\ 0 \in 0..CirStates
    OBVIOUS
  <2> QED  BY <1>1, <2>1 DEF CirInit, CirTypeOK
<1>3. CirInit => \A e \in CirExec : cirExec[e].pc = "idle"
  BY DEF CirInit, NoExecution
<1> QED  BY <1>2, <1>3 DEF CirFresh, CirBound, CirSince, ClientFresh

\* The values of a client are those of its execution and of the credentials of then.
LEMMA FreshStep == CirFresh /\ [CirNext]_cirVars => CirFresh'
PROOF
<1> USE CirAssumption
<1> SUFFICES ASSUME CirFresh, [CirNext]_cirVars PROVE CirFresh'
  OBVIOUS
<1>t. CirTypeOK
  BY DEF CirFresh
<1>1. ASSUME NEW e \in CirExec, ResolveConnection(e) \/ CirStep(e)
      PROVE  CirFresh'
  <2>0. /\ cirExec' \in [CirExec -> CirExecRec]
        /\ \A d \in CirExec \ {e} : cirExec'[d] = cirExec[d]
        /\ cirConfig' = cirConfig /\ cirSecret' = cirSecret
    BY <1>1, ExecutionStep
  <2>1. cirState' \in [1..CirStates -> CirStateRec]
    BY <1>t, <1>1, StateObjects DEF ResolveConnection, CirTypeOK
  <2>2. /\ cirClient' \in CirValues /\ cirCurrent' \in 0..CirStates
        /\ cirMade' \in 0..CirStates /\ cirStale' \in BOOLEAN
    <3>1. Client(e) \in CirValues
      BY <1>t DEF Client, CirValues, CirTypeOK, CirExecRec
    <3>2. CASE GetState(e)
      BY <1>t, <3>2 DEF GetState, CirTypeOK
    <3>3. CASE Enter(e, Client(e))
      BY <1>t, <3>1, <3>3 DEF Enter, CirTypeOK
    <3>4. CASE ResolveConnection(e) \/ CallSucceeds(e) \/ \E retried \in BOOLEAN : CallFails(e, retried)
      BY <1>t, <3>4 DEF ResolveConnection, CallSucceeds, CallFails, CirTypeOK
    <3> QED  BY <1>1, <3>2, <3>3, <3>4 DEF CirStep
  <2>3. cirExec[e] \in CirExecRec
    BY <1>t DEF CirTypeOK
  <2>4. /\ cirExec'[e].pc \in {"lock", "call"} => cirExec'[e].state \in 1..CirStates
        /\ cirExec'[e].pc # "idle" => cirExec'[e].since <= cirSecret'
        /\ cirExec'[e].pc = "call" => /\ cirExec'[e].client.config >= cirExec'[e].config
                                      /\ cirExec'[e].client.secret >= cirExec'[e].since
    <3>1. CASE ResolveConnection(e)
      BY <1>t, <3>1 DEF ResolveConnection, NoExecution, CirTypeOK
    <3>2. CASE GetState(e)
      <4>1. cirCurrent' \in 1..CirStates
        BY <1>t, <3>2 DEF GetState, CirTypeOK
      <4>2. cirExec'[e].pc = "lock" /\ cirExec'[e].state = cirCurrent' /\ cirExec'[e].since = cirExec[e].since
        BY <1>t, <2>3, <3>2 DEF GetState, CirTypeOK, CirExecRec
      <4> QED  BY <3>2, <4>1, <4>2, <2>0 DEF GetState, CirFresh, CirSince
    <3>3. CASE Enter(e, Client(e))
      <4>1. CASE StateOf(e).open
        BY <1>t, <3>3, <4>1 DEF Enter, CirTypeOK, NoExecution
      <4>2. CASE ~ StateOf(e).open
        <5>1. /\ cirExec'[e].pc = "call" /\ cirExec'[e].client = Client(e)
              /\ cirExec'[e].state = cirExec[e].state /\ cirExec'[e].since = cirExec[e].since
              /\ cirExec'[e].config = cirExec[e].config
          BY <1>t, <2>3, <3>3, <4>2 DEF Enter, CirTypeOK, CirExecRec
        <5>2. Client(e).config = cirExec[e].config /\ Client(e).secret = cirSecret
          BY DEF Client
        <5>3. cirExec[e].since <= cirSecret /\ cirExec[e].state \in 1..CirStates
          BY <3>3 DEF Enter, CirFresh, CirSince, CirBound
        <5> QED  BY <2>0, <2>3, <5>1, <5>2, <5>3 DEF CirExecRec
      <4> QED  BY <4>1, <4>2
    <3>4. CASE CallSucceeds(e)
      BY <1>t, <3>4 DEF CallSucceeds, CirTypeOK, NoExecution
    <3>5. ASSUME NEW retried \in BOOLEAN, CallFails(e, retried)
          PROVE  /\ cirExec'[e].pc \in {"lock", "call"} => cirExec'[e].state \in 1..CirStates
                 /\ cirExec'[e].pc # "idle" => cirExec'[e].since <= cirSecret'
                 /\ cirExec'[e].pc = "call" => /\ cirExec'[e].client.config >= cirExec'[e].config
                                               /\ cirExec'[e].client.secret >= cirExec'[e].since
      <4>1. CASE retried
        <5>1. /\ cirExec'[e].pc = cirExec[e].pc /\ cirExec'[e].client = cirExec[e].client
              /\ cirExec'[e].state = cirExec[e].state /\ cirExec'[e].since = cirExec[e].since
              /\ cirExec'[e].config = cirExec[e].config
          BY <1>t, <2>3, <3>5, <4>1 DEF CallFails, CirTypeOK, CirExecRec
        <5> QED  BY <2>0, <3>5, <5>1 DEF CallFails, CirFresh, CirBound, CirSince, ClientFresh
      <4>2. CASE ~ retried
        BY <1>t, <3>5, <4>2 DEF CallFails, CirTypeOK, NoExecution
      <4> QED  BY <4>1, <4>2
    <3> QED  BY <1>1, <3>1, <3>2, <3>3, <3>4, <3>5 DEF CirStep
  <2>5. CirTypeOK'
    BY <1>t, <2>0, <2>1, <2>2 DEF CirTypeOK
  <2>6. CirBound' /\ CirSince' /\ ClientFresh'
    BY <2>0, <2>4 DEF CirFresh, CirBound, CirSince, ClientFresh
  <2> QED  BY <2>5, <2>6 DEF CirFresh
<1>2. ASSUME NEW n \in 1..CirStates, CoolDown(n) PROVE CirFresh'
  <2>1. cirState[n] \in CirStateRec
    BY <1>t DEF CirTypeOK
  <2>2. [cirState[n] EXCEPT !.open = FALSE, !.row = 0, !.half = TRUE] \in CirStateRec
    <3>1. 0 \in 0..(CirThreshold + CirRetries + 1)
      OBVIOUS
    <3> QED  BY <2>1, <3>1 DEF CirStateRec
  <2>3. cirState' = [cirState EXCEPT ![n] = [cirState[n] EXCEPT !.open = FALSE, !.row = 0, !.half = TRUE]]
    BY <1>t, <1>2 DEF CoolDown, CirTypeOK
  <2> QED
    BY <1>t, <1>2, <2>2, <2>3 DEF CoolDown, CirFresh, CirTypeOK, CirBound, CirSince, ClientFresh
<1>3. CASE UpdateSecret
  <2>1. cirSecret' \in 0..CirUpdates /\ cirSecret <= cirSecret'
    BY <1>t, <1>3 DEF UpdateSecret, CirTypeOK
  <2>2. \A e \in CirExec : cirExec[e].since \in 0..CirUpdates
    BY <1>t DEF CirTypeOK, CirExecRec
  <2>3. CirSince'
    BY <1>t, <1>3, <2>1, <2>2 DEF UpdateSecret, CirFresh, CirSince, CirTypeOK
  <2> QED  BY <1>t, <1>3, <2>1, <2>3 DEF UpdateSecret, CirFresh, CirTypeOK, CirBound, ClientFresh
<1>4. CASE UpdateConfig
  BY <1>t, <1>4 DEF UpdateConfig, CirFresh, CirTypeOK, CirBound, CirSince, ClientFresh
<1>5. CASE Invalidate
  <2>1. NoClient \in CirValues /\ 0 \in 0..CirStates
    BY DEF NoClient, CirValues
  <2>2. CirTypeOK'
    BY <1>t, <1>5, <2>1 DEF Invalidate, CirTypeOK
  <2> QED  BY <1>5, <2>2 DEF Invalidate, CirFresh, CirBound, CirSince, ClientFresh
<1>6. CASE UNCHANGED cirVars
  BY <1>t, <1>6 DEF cirVars, CirFresh, CirTypeOK, CirBound, CirSince, ClientFresh
<1> QED  BY <1>1, <1>2, <1>3, <1>4, <1>5, <1>6 DEF CirNext

\* However executions overlap an update of the connection and fill the cache again, no call
\* uses an older definition or older credentials than were saved when the execution began.
THEOREM ClientsFresh == CirSpec => []ClientFresh
PROOF
<1>1. CirFresh => ClientFresh
  BY DEF CirFresh
<1> QED  BY InitFresh, FreshStep, <1>1, PTL DEF CirSpec

LEMMA InitCounted == CirInit => CirIInv
PROOF
<1> USE CirAssumption
<1> SUFFICES ASSUME CirInit PROVE CirOwned /\ CirCounted
  BY InitFresh DEF CirIInv
<1>1. \A e \in CirExec : cirExec[e].pc = "idle" /\ e # NoExec
  BY DEF CirInit, NoExecution
<1>2. \A n \in 1..CirStates :
        /\ cirState[n].owner = NoExec /\ ~ cirState[n].open /\ ~ cirState[n].half
        /\ cirState[n].row = 0 /\ cirState[n].failures = 0
  BY DEF CirInit, FreshState
<1> QED  BY <1>1, <1>2 DEF CirOwned, CirCounted, StateCounted, Tolerated

\* A failure opens the circuit when the count is at the threshold; from then on each further
\* one takes one of the attempts that its execution has left.
LEMMA CallFailsCounted ==
  ASSUME CirIInv, NEW e \in CirExec, NEW retried \in BOOLEAN, CallFails(e, retried)
  PROVE  (CirOwned /\ CirCounted)'
PROOF
<1> USE CirAssumption
<1>t. CirTypeOK
  BY DEF CirIInv, CirFresh
<1> DEFINE n == cirExec[e].state
           s == cirState[n]
           x == cirState'[n]
<1>1. /\ n \in 1..CirStates /\ s \in CirStateRec /\ cirExec[e] \in CirExecRec
      /\ cirExec[e].pc = "call" /\ s.owner = e /\ e # NoExec
  BY <1>t DEF CallFails, CirTypeOK, CirIInv, CirFresh, CirBound, CirOwned
<1>2. /\ x.failures = IF s.failures < CirThreshold THEN s.failures + 1 ELSE CirThreshold
      /\ x.open <=> x.failures = CirThreshold \/ s.open
      /\ x.owner = IF retried THEN e ELSE NoExec
      /\ x.row = IF s.row > CirThreshold + CirRetries THEN s.row ELSE s.row + 1
      /\ x.half = s.half
  BY <1>t, <1>1 DEF CallFails, StateOf, CirTypeOK, CirStateRec
<1>3. \A m \in 1..CirStates \ {n} : cirState'[m] = cirState[m]
  BY <1>t DEF CallFails, CirTypeOK
<1>4. /\ retried => /\ cirExec'[e].pc = "call" /\ cirExec'[e].state = n
                    /\ cirExec'[e].attempt = cirExec[e].attempt + 1 /\ cirExec[e].attempt < CirRetries
      /\ ~ retried => cirExec'[e].pc = "idle"
      /\ \A d \in CirExec \ {e} : cirExec'[d] = cirExec[d]
  BY <1>t, <1>1 DEF CallFails, CirTypeOK, CirExecRec, NoExecution
<1>5. /\ s.open => s.failures = CirThreshold
      /\ ~ s.open => IF s.half THEN s.row = 0 /\ s.failures = CirThreshold
                     ELSE s.row = s.failures /\ s.row < CirThreshold
      /\ s.open => s.row < Tolerated(s) + cirExec[e].attempt
  BY <1>1 DEF CirIInv, CirCounted, StateCounted
<1>6. CirOwned'
  <2>1. ASSUME NEW m \in 1..CirStates, NEW d \in CirExec
        PROVE  cirState'[m].owner = d <=> cirExec'[d].pc = "call" /\ cirExec'[d].state = m
    <3> HIDE DEF n, s, x
    <3>1. cirState[m].owner = d <=> cirExec[d].pc = "call" /\ cirExec[d].state = m
      BY DEF CirIInv, CirOwned
    <3>2. cirState[n].owner = d <=> d = e
      BY <1>1 DEF s
    <3> QED  BY <1>1, <1>2, <1>3, <1>4, <3>1, <3>2 DEF n, x
  <2> QED  BY <2>1 DEF CirOwned
<1>7. ASSUME NEW m \in 1..CirStates \ {n}
      PROVE  /\ cirState'[m] = cirState[m]
             /\ \A d \in CirExec : cirState'[m].owner = d => cirExec'[d] = cirExec[d]
  <2>1. cirState[m].owner # e
    BY <1>1 DEF CirIInv, CirOwned
  <2> QED  BY <1>3, <1>4, <2>1
<1>8. StateCounted(x, cirExec')
  <2>1. /\ s.failures \in 0..CirThreshold /\ s.row \in Nat /\ s.half \in BOOLEAN
        /\ s.open \in BOOLEAN /\ cirExec[e].attempt \in 0..CirRetries
    BY <1>1 DEF CirStateRec, CirExecRec
  <2>2. Tolerated(x) = Tolerated(s) /\ Tolerated(s) \in 1..CirThreshold
    BY <1>2 DEF Tolerated
  <2>3. s.row < Tolerated(s) + cirExec[e].attempt
    BY <1>5, <2>1, <2>2 DEF Tolerated
  <2>4. x.row = s.row + 1
    BY <1>2, <2>1, <2>2, <2>3
  <2>5. x.row <= Tolerated(x) + CirRetries
    BY <2>1, <2>2, <2>3, <2>4
  <2>6. \A d \in CirExec : x.owner = d => x.row < Tolerated(x) + cirExec'[d].attempt
    BY <1>1, <1>2, <1>4, <2>1, <2>2, <2>3, <2>4
  <2>7. /\ x.open => x.failures = CirThreshold
        /\ ~ x.open => IF x.half THEN x.row = 0 /\ x.failures = CirThreshold
                       ELSE x.row = x.failures /\ x.row < CirThreshold
    BY <1>2, <1>5, <2>1, <2>4
  <2> QED  BY <2>5, <2>6, <2>7 DEF StateCounted
<1>9. CirCounted'
  <2>1. ASSUME NEW m \in 1..CirStates
        PROVE  StateCounted(cirState'[m], cirExec')
    <3>1. CASE m = n
      BY <1>8, <3>1
    <3>2. CASE m # n
      BY <1>7, <3>2 DEF CirIInv, CirCounted, StateCounted
    <3> QED  BY <3>1, <3>2
  <2> QED  BY <2>1 DEF CirCounted
<1> QED  BY <1>6, <1>9

LEMMA CountedStep == CirIInv /\ [CirNext]_cirVars => CirIInv'
PROOF
<1> USE CirAssumption
<1> SUFFICES ASSUME CirIInv, [CirNext]_cirVars PROVE (CirOwned /\ CirCounted)'
  BY FreshStep DEF CirIInv
<1>t. CirTypeOK
  BY DEF CirIInv, CirFresh
<1>1. ASSUME NEW e \in CirExec, ResolveConnection(e) \/ GetState(e)
      PROVE  (CirOwned /\ CirCounted)'
  <2>1. /\ cirState' = cirState
        /\ cirExec[e].pc # "call" /\ cirExec'[e].pc # "call"
        /\ \A d \in CirExec \ {e} : cirExec'[d] = cirExec[d]
    BY <1>t, <1>1, ZenonT(40) DEF ResolveConnection, GetState, CirTypeOK, CirExecRec, NoExecution
  <2>2. \A n \in 1..CirStates : cirState[n].owner # e
    BY <2>1 DEF CirIInv, CirOwned
  <2>3. CirOwned'
    BY <2>1, <2>2 DEF CirIInv, CirOwned
  <2>4. CirCounted'
    BY <2>1, <2>2 DEF CirIInv, CirCounted, StateCounted, Tolerated
  <2> QED  BY <2>3, <2>4
<1>2. ASSUME NEW e \in CirExec, Enter(e, Client(e))
      PROVE  (CirOwned /\ CirCounted)'
  <2> DEFINE n == cirExec[e].state
  <2>0. /\ n \in 1..CirStates /\ cirExec[e].pc = "lock" /\ cirState[n].owner = NoExec
        /\ e # NoExec /\ cirExec[e] \in CirExecRec /\ cirState[n] \in CirStateRec
    BY <1>t, <1>2 DEF Enter, StateOf, CirTypeOK, CirIInv, CirFresh, CirBound
  <2>1. \A d \in CirExec \ {e} : cirExec'[d] = cirExec[d]
    BY <1>t, <1>2 DEF Enter, CirTypeOK
  <2>2. \A m \in 1..CirStates : cirState[m].owner # e
    BY <2>0 DEF CirIInv, CirOwned
  <2>3. CASE cirState[n].open
    <3>1. cirState' = cirState /\ cirExec'[e].pc = "idle"
      BY <1>t, <1>2, <2>3 DEF Enter, StateOf, CirTypeOK, NoExecution
    <3>2. CirOwned'
      BY <2>1, <2>2, <3>1 DEF CirIInv, CirOwned
    <3>3. CirCounted'
      BY <2>1, <2>2, <3>1 DEF CirIInv, CirCounted, StateCounted, Tolerated
    <3> QED  BY <3>2, <3>3
  <2>4. CASE ~ cirState[n].open
    <3>1. /\ cirExec'[e].pc = "call" /\ cirExec'[e].state = n
      BY <1>t, <1>2, <2>0, <2>4 DEF Enter, StateOf, CirTypeOK, CirExecRec
    <3>2. \A m \in 1..CirStates \ {n} : cirState'[m] = cirState[m]
      BY <1>t, <1>2, <2>4 DEF Enter, StateOf, CirTypeOK
    <3>3. /\ cirState'[n].owner = e /\ ~ cirState'[n].open
          /\ cirState'[n].row = cirState[n].row /\ cirState'[n].half = cirState[n].half
          /\ cirState'[n].failures = cirState[n].failures
      <4>1. cirState'[n] = [cirState[n] EXCEPT !.owner = e]
        BY <1>t, <1>2, <2>0, <2>4 DEF Enter, StateOf, CirTypeOK
      <4> QED  BY <2>0, <2>4, <4>1 DEF CirStateRec
    <3>4. CirOwned'
      <4>1. ASSUME NEW m \in 1..CirStates, NEW d \in CirExec
            PROVE  cirState'[m].owner = d <=> cirExec'[d].pc = "call" /\ cirExec'[d].state = m
        <5>1. cirState[m].owner = d <=> cirExec[d].pc = "call" /\ cirExec[d].state = m
          BY DEF CirIInv, CirOwned
        <5>2. d # e => ~ (cirExec[d].pc = "call" /\ cirExec[d].state = n)
          BY <2>0 DEF CirIInv, CirOwned
        <5> HIDE DEF n
        <5> QED  BY <2>0, <2>1, <2>2, <3>1, <3>2, <3>3, <5>1, <5>2
      <4> QED  BY <4>1 DEF CirOwned
    <3>5. CirCounted'
      <4>1. ASSUME NEW m \in 1..CirStates
            PROVE  StateCounted(cirState'[m], cirExec')
        <5>1. CASE m = n
          BY <2>0, <2>4, <3>3, <5>1 DEF CirIInv, CirCounted, StateCounted, Tolerated
        <5>2. CASE m # n
          <6>1. \A d \in CirExec : cirState'[m].owner = d => cirExec'[d] = cirExec[d]
            BY <2>1, <2>2, <3>2, <5>2
          <6> QED  BY <3>2, <5>2, <6>1 DEF CirIInv, CirCounted, StateCounted
        <5> QED  BY <5>1, <5>2
      <4> QED  BY <4>1 DEF CirCounted
    <3> QED  BY <3>4, <3>5
  <2> QED  BY <2>3, <2>4
<1>3. ASSUME NEW e \in CirExec, CallSucceeds(e)
      PROVE  (CirOwned /\ CirCounted)'
  <2> DEFINE n == cirExec[e].state
  <2>0. n \in 1..CirStates /\ cirState[n].owner = e /\ e # NoExec
    BY <1>t, <1>3 DEF CallSucceeds, CirIInv, CirFresh, CirBound, CirOwned
  <2>1. /\ cirExec'[e].pc = "idle" /\ \A d \in CirExec \ {e} : cirExec'[d] = cirExec[d]
        /\ \A m \in 1..CirStates \ {n} : cirState'[m] = cirState[m]
        /\ cirState'[n] = FreshState
    BY <1>t, <1>3, <2>0 DEF CallSucceeds, CirTypeOK, NoExecution
  <2>2. \A m \in 1..CirStates \ {n} : cirState[m].owner # e
    BY <2>0 DEF CirIInv, CirOwned
  <2>3. CirOwned'
    <3>1. ASSUME NEW m \in 1..CirStates, NEW d \in CirExec
          PROVE  cirState'[m].owner = d <=> cirExec'[d].pc = "call" /\ cirExec'[d].state = m
      <4>1. cirState[m].owner = d <=> cirExec[d].pc = "call" /\ cirExec[d].state = m
        BY DEF CirIInv, CirOwned
      <4>2. d # e => ~ (cirExec[d].pc = "call" /\ cirExec[d].state = n)
        BY <2>0 DEF CirIInv, CirOwned
      <4> HIDE DEF n
      <4> QED  BY <2>0, <2>1, <2>2, <4>1, <4>2 DEF FreshState
    <3> QED  BY <3>1 DEF CirOwned
  <2>4. CirCounted'
    <3>1. ASSUME NEW m \in 1..CirStates
          PROVE  StateCounted(cirState'[m], cirExec')
      <4>1. CASE m = n
        BY <2>1, <4>1 DEF FreshState, StateCounted, Tolerated
      <4>2. CASE m # n
        <5>1. \A d \in CirExec : cirState'[m].owner = d => cirExec'[d] = cirExec[d]
          BY <2>1, <2>2, <4>2
        <5> QED  BY <2>1, <4>2, <5>1 DEF CirIInv, CirCounted, StateCounted
      <4> QED  BY <4>1, <4>2
    <3> QED  BY <3>1 DEF CirCounted
  <2> QED  BY <2>3, <2>4
<1>4. ASSUME NEW n \in 1..CirStates, CoolDown(n)
      PROVE  (CirOwned /\ CirCounted)'
  <2>1. /\ \A m \in 1..CirStates \ {n} : cirState'[m] = cirState[m]
        /\ cirState[n] \in CirStateRec /\ cirState[n].open
    BY <1>t, <1>4 DEF CoolDown, CirTypeOK
  <2>2. /\ ~ cirState'[n].open /\ cirState'[n].row = 0 /\ cirState'[n].half
        /\ cirState'[n].owner = cirState[n].owner /\ cirState'[n].failures = cirState[n].failures
    BY <1>t, <1>4, <2>1 DEF CoolDown, CirTypeOK, CirStateRec
  <2>3. cirExec' = cirExec /\ \A m \in 1..CirStates : cirState'[m].owner = cirState[m].owner
    BY <1>4, <2>1, <2>2 DEF CoolDown
  <2>4. CirOwned'
    BY <2>3 DEF CirIInv, CirOwned
  <2>5. cirState[n].failures = CirThreshold
    BY <2>1 DEF CirIInv, CirCounted, StateCounted
  <2>6. StateCounted(cirState'[n], cirExec')
    BY <2>2, <2>5 DEF StateCounted, Tolerated
  <2>7. CirCounted'
    BY <2>1, <2>3, <2>6 DEF CirIInv, CirCounted, StateCounted, Tolerated
  <2> QED  BY <2>4, <2>7
<1>5. CASE UpdateSecret \/ UpdateConfig \/ Invalidate \/ UNCHANGED cirVars
  <2>1. UNCHANGED <<cirState, cirExec>>
    BY <1>5 DEF UpdateSecret, UpdateConfig, Invalidate, cirVars
  <2> QED  BY <2>1 DEF CirIInv, CirOwned, CirCounted, StateCounted, Tolerated
<1> QED  BY <1>1, <1>2, <1>3, <1>4, <1>5, CallFailsCounted DEF CirNext, CirStep

\* However many threads wait for the lock of a connection, a service that fails is called
\* threshold + retries times at most before the circuit keeps them out, and once with its
\* retries after each cooldown.
THEOREM CircuitLimits == CirSpec => []CircuitHolds
PROOF
<1>1. CirIInv => CircuitHolds
  BY DEF CirIInv, CirCounted, StateCounted, Tolerated, CircuitHolds
<1> QED  BY InitCounted, CountedStep, <1>1, PTL DEF CirSpec

---------------------------------------------------------------------------
(* Scopes of the data tools *)

\* A connection resolves to one, or to none.
LEMMA ResolvedOne ==
  ASSUME NEW v, v.conn \in ScConnections, v.sel \in ScSelection
  PROVE  /\ Resolved(v) \in SUBSET ScConn
         /\ \A c, d \in Resolved(v) : c = d
PROOF
<1>1. ScConn \subseteq Nat /\ ReadyConns(v) \subseteq ScConn
  BY ScAssumption DEF ScConn, ReadyConns
<1>2. CASE v.sel.conn # 0
  BY <1>1, <1>2 DEF Resolved, ScSelection
<1>3. CASE v.sel.conn = 0
  <2>1. \A c, d \in ReadyConns(v) :
          (\A e \in ReadyConns(v) : c <= e) /\ (\A e \in ReadyConns(v) : d <= e) => c = d
    <3> SUFFICES ASSUME NEW c \in ReadyConns(v), NEW d \in ReadyConns(v), c <= d, d <= c
                 PROVE  c = d
      OBVIOUS
    <3>1. c \in Nat /\ d \in Nat
      BY <1>1
    <3> QED  BY <3>1
  <2> QED  BY <1>1, <1>3, <2>1 DEF Resolved
<1> QED  BY <1>2, <1>3

\* A scope without "*" lists resources.
LEMMA ScopeListed == ASSUME NEW a \in ScScope, ScAll \notin a PROVE a \subseteq ScRes
PROOF BY DEF ScScope

LEMMA MeetScope == ASSUME NEW a \in ScScope, NEW b \in ScScope PROVE Meet(a, b) \in ScScope
PROOF
<1>1. ScAll \notin a => a \cap b \subseteq ScRes
  BY ScopeListed
<1> QED  BY <1>1 DEF Meet, ScScope

LEMMA JoinScope == ASSUME NEW a \in ScScope, NEW b \in ScScope PROVE Join(a, b) \in ScScope
PROOF
<1>1. ScAll \notin a \cup b => a \cup b \subseteq ScRes
  BY ScopeListed
<1> QED  BY <1>1 DEF Join, ScScope

\* What is met with a scope stays within whatever that scope is within.
LEMMA MeetWithin ==
  ASSUME NEW a, NEW b, NEW from, Within(b, from)
  PROVE  Within(Meet(a, b), from)
PROOF BY DEF Meet, Within

LEMMA MeetFirst == ASSUME NEW a, NEW b PROVE Within(Meet(a, b), a)
PROOF BY DEF Meet, Within

\* The boundary and the scope a view binds the tool with are scopes.
LEMMA ViewScopes ==
  ASSUME NEW v, v.conn \in ScConnections, v.sel \in ScSelection
  PROVE  /\ UNION {v.conn[c].bound : c \in Resolved(v)} \in ScScope
         /\ SelectedScope(v) \in ScScope /\ LiveScope(v) \in ScScope
PROOF
<1>0. {} \in ScScope
  BY DEF ScScope
<1>1. \A c \in ScConn : v.conn[c].bound \in ScScope
  BY DEF ScConnections
<1>r. Resolved(v) \subseteq ScConn /\ \A c, d \in Resolved(v) : c = d
  BY ResolvedOne
<1>2. UNION {v.conn[c].bound : c \in Resolved(v)} \in ScScope
  <2>1. CASE Resolved(v) = {}
    <3>1. UNION {v.conn[c].bound : c \in Resolved(v)} = {}
      BY <2>1
    <3> QED  BY <1>0, <3>1
  <2>2. ASSUME NEW d \in Resolved(v) PROVE UNION {v.conn[c].bound : c \in Resolved(v)} \in ScScope
    <3>1. \A c \in Resolved(v) : c = d
      BY <2>2, <1>r
    <3>2. UNION {v.conn[c].bound : c \in Resolved(v)} = v.conn[d].bound
      BY <2>2, <3>1
    <3> QED  BY <1>1, <1>r, <2>2, <3>2
  <2> QED  BY <2>1, <2>2
<1>3. SelectedScope(v) \in ScScope
  BY <1>2 DEF SelectedScope, ScSelection
<1> QED  BY <1>0, <1>2, <1>3 DEF LiveScope

\* What both processes have of the registries.
LEMMA Views ==
  ASSUME ScTypeOK
  PROVE  /\ Api.conn \in ScConnections /\ Api.sel \in ScSelection
         /\ \A s \in ScSession : ViewOf(s).conn \in ScConnections /\ ViewOf(s).sel \in ScSelection
PROOF BY DEF ScTypeOK, Api, ViewOf

\* The record of a delegated task names a scope within that of its parent, or none.
ChildNarrowed ==
  scFrom # {} /\ scTurn["child"].scope # {} => Within(scTurn["child"].scope, scFrom)

ScIInv == ScTypeOK /\ ChildNarrowed /\ RecordedScopeHolds

LEMMA InitNarrowed == ScInit => ScIInv
PROOF
<1> USE ScAssumption
<1> SUFFICES ASSUME ScInit PROVE ScIInv
  OBVIOUS
<1>1. {} \in ScScope /\ ScNoTurn \in ScTurnRec
  BY DEF ScScope, ScNoTurn, ScTurnRec
<1>2. scConn \in ScConnections /\ scSel \in ScSelection
  BY <1>1 DEF ScInit, ScConnections, ScSelection
<1>3. ScTypeOK
  BY <1>1, <1>2 DEF ScInit, ScTypeOK
<1> QED  BY <1>3 DEF ScInit, ScIInv, ChildNarrowed, RecordedScopeHolds

\* An admin request leaves registries that are well formed.
LEMMA ScopeAdminStep ==
  ASSUME ScTypeOK,
         \/ \E bound \in ScScope : PutConnection(bound)
         \/ \E c \in ScConn, bound \in ScScope :
              \/ BindTool(c, bound)
              \/ \E live \in {"ready", "off"} : CreateConnection(c, live, bound) \/ PatchConnection(c, live, bound)
         \/ \E c \in ScConn : DeleteConnection(c)
  PROVE  /\ scConn' \in ScConnections /\ scSel' \in ScSelection /\ scStored' \in ScSelection
         /\ scEdits' \in 0..ScEdits
         /\ UNCHANGED <<scCopy, scRestarts, scCreated, scTurn, scFrom, scRead, scLeft>>
PROOF
<1> USE ScAssumption
<1> DEFINE Done == /\ scConn' \in ScConnections /\ scSel' \in ScSelection /\ scStored' \in ScSelection
                   /\ scEdits' \in 0..ScEdits
                   /\ UNCHANGED <<scCopy, scRestarts, scCreated, scTurn, scFrom, scRead, scLeft>>
<1>0. /\ scConn \in ScConnections /\ scSel \in ScSelection /\ scStored \in ScSelection
      /\ Edits => scEdits' \in 0..ScEdits
      /\ {} \in ScScope /\ 1 \in ScConn
  BY DEF ScTypeOK, Edits, ScScope, ScConn
<1>1. ASSUME NEW bound \in ScScope, PutConnection(bound) PROVE Done
  <2>1. scConn[1].live \in {"none", "ready", "off", "gone"}
    BY <1>0 DEF ScConnections
  <2>2. scConn' \in ScConnections
    BY <1>0, <1>1, <2>1 DEF PutConnection, ScConnections
  <2> QED  BY <1>0, <1>1, <2>2 DEF PutConnection, scTables
<1>2. ASSUME NEW c \in ScConn, NEW bound \in ScScope, BindTool(c, bound) PROVE Done
  <2>1. scConn[c].bound \in ScScope
    BY <1>0 DEF ScConnections
  <2>2. scSel' \in ScSelection
    BY <1>2, <2>1 DEF BindTool, ScSelection
  <2> QED  BY <1>0, <1>2, <2>2 DEF BindTool
<1>3. ASSUME NEW c \in ScConn, NEW bound \in ScScope, NEW live \in {"ready", "off"},
             CreateConnection(c, live, bound) \/ PatchConnection(c, live, bound)
      PROVE  Done
  <2>1. scConn' \in ScConnections
    BY <1>0, <1>3 DEF CreateConnection, PatchConnection, ScConnections
  <2> QED  BY <1>0, <1>3, <2>1 DEF CreateConnection, PatchConnection, scTables
<1>4. ASSUME NEW c \in ScConn, DeleteConnection(c) PROVE Done
  <2>1. scConn' \in ScConnections
    BY <1>0, <1>4 DEF DeleteConnection, ScConnections
  <2> QED  BY <1>0, <1>4, <2>1 DEF DeleteConnection, scTables
<1> QED  BY <1>1, <1>2, <1>3, <1>4

\* What the parent asks for and what its child inherits are scopes.
LEMMA Inherited ==
  ASSUME ScTypeOK
  PROVE  InheritedScope \in ScScope
PROOF
<1>0. {} \in ScScope /\ LiveScope(Api) \in ScScope /\ scTurn["parent"].scope \in ScScope
  BY Views, ViewScopes DEF ScTypeOK, ScSession, ScTurnRec, ScScope
<1>1. ScAll \notin AskedScope => AskedScope \subseteq ScRes
  <2>1. \A c \in AskedIds : scConn[c].bound \in ScScope
    BY DEF ScTypeOK, ScConnections, AskedIds, Visible, Api, ScSession, ScTurnRec
  <2>2. ScAll \notin Boundary => Boundary \subseteq ScRes
    <3> SUFFICES ASSUME ScAll \notin Boundary, NEW c \in AskedIds PROVE scConn[c].bound \subseteq ScRes
      BY DEF Boundary
    <3> QED  BY <2>1, ScopeListed DEF Boundary
  <2> QED  BY <1>0, <2>2, ScopeListed DEF AskedScope
<1>2. CASE ScAll \in AskedScope \/ LiveScope(Api) = {}
  BY <1>0, <1>2 DEF InheritedScope, Meet
<1>3. CASE ScAll \notin AskedScope /\ LiveScope(Api) # {}
  BY <1>1, <1>3 DEF InheritedScope, Meet, ScScope
<1> QED  BY <1>2, <1>3

\* A turn of the parent, and a delegation, which hands down no more than the parent has.
LEMMA ParentStep ==
  ASSUME ScIInv, StartTurn \/ EndTurn \/ Delegate, UNCHANGED scKind
  PROVE  ScIInv'
PROOF
<1> USE ScAssumption
<1>t. ScTypeOK
  BY DEF ScIInv
<1>0. /\ scTurn \in [ScSession -> ScTurnRec] /\ ScNoTurn \in ScTurnRec /\ {} \in ScScope
      /\ "parent" \in ScSession /\ "child" \in ScSession
  BY <1>t DEF ScTypeOK, ScTurnRec, ScNoTurn, ScScope, ScSession
<1>1. CASE StartTurn
  <2> DEFINE base == IF scCreated = {} THEN LiveCapture ELSE CHOOSE c \in scCreated : TRUE
             turn == [ScNoTurn EXCEPT !.pc = "run", !.ids = base.ids \cup LiveCapture.ids,
                                      !.scope = Join(base.scope, LiveCapture.scope)]
  <2>1. LiveCapture \in ScCapture
    BY <1>t, Views, ViewScopes, ResolvedOne DEF LiveCapture, ScCapture
  <2>2. base \in ScCapture
    BY <1>t, <2>1 DEF ScTypeOK
  <2>3. turn \in ScTurnRec
    <3>1. base.ids \cup LiveCapture.ids \in SUBSET ScConn
      BY <2>1, <2>2 DEF ScCapture
    <3>2. Join(base.scope, LiveCapture.scope) \in ScScope
      BY <2>1, <2>2, JoinScope DEF ScCapture
    <3> HIDE DEF base
    <3> QED  BY <1>0, <3>1, <3>2 DEF ScNoTurn, ScTurnRec
  <2>4. scCreated' = {base} /\ scTurn' = [scTurn EXCEPT !["parent"] = turn]
    BY <1>1 DEF StartTurn
  <2> HIDE DEF base, turn
  <2>5. ScTypeOK'
    BY <1>t, <1>0, <1>1, <2>2, <2>3, <2>4 DEF StartTurn, ScTypeOK, scTables
  <2>6. scTurn'["child"] = scTurn["child"] /\ UNCHANGED <<scFrom, scRead, scLeft>>
    BY <1>0, <1>1, <2>4 DEF StartTurn
  <2> QED  BY <2>5, <2>6 DEF ScIInv, ChildNarrowed, RecordedScopeHolds
<1>2. CASE EndTurn
  <2>1. ScTypeOK'
    BY <1>t, <1>0, <1>2 DEF EndTurn, ScTypeOK, scTables
  <2>2. scTurn'["child"] = scTurn["child"] /\ UNCHANGED <<scFrom, scRead, scLeft>>
    BY <1>0, <1>2 DEF EndTurn
  <2> QED  BY <2>1, <2>2 DEF ScIInv, ChildNarrowed, RecordedScopeHolds
<1>3. CASE Delegate
  <2> DEFINE ids == AskedIds \cap Resolved(Api)
             scope == IF Resolved(Api) = {} THEN {} ELSE InheritedScope
             turn == [ScNoTurn EXCEPT !.pc = "run", !.ids = ids, !.scope = scope]
  <2>1. ids \in SUBSET ScConn /\ scope \in ScScope
    BY <1>t, <1>0, Views, ResolvedOne, Inherited
  <2>2. turn \in ScTurnRec /\ turn.scope = scope
    <3> HIDE DEF ids, scope
    <3> QED  BY <1>0, <2>1 DEF ScNoTurn, ScTurnRec
  <2>3. scTurn' = [scTurn EXCEPT !["child"] = turn]
    BY <1>3 DEF Delegate
  <2>4. scFrom' = scTurn["parent"].scope /\ scRead' = {} /\ scFrom' \in ScScope
    BY <1>0, <1>3 DEF Delegate, ScTurnRec
  <2>5. scFrom' # {} => Within(scope, scFrom')
    BY <2>4, MeetFirst DEF InheritedScope, AskedScope, Within
  <2> HIDE DEF turn, scope, ids
  <2>6. ScTypeOK'
    BY <1>t, <1>0, <1>3, <2>2, <2>3, <2>4 DEF Delegate, ScTypeOK, scTables
  <2>7. scTurn'["child"].scope = scope
    BY <1>0, <2>2, <2>3
  <2> QED  BY <2>4, <2>5, <2>6, <2>7 DEF ScIInv, ChildNarrowed, RecordedScopeHolds, Within
<1> QED  BY <1>1, <1>2, <1>3

\* A call reads what the boundary, the binding and the scope of the session all allow.
LEMMA AllowedResources ==
  ASSUME ScTypeOK, NEW s \in ScSession
  PROVE  /\ ToolResources(s) \in ScScope
         /\ scTurn[s].scope # {} => \A from : Within(scTurn[s].scope, from) => Within(ToolResources(s), from)
PROOF
<1> DEFINE current == IF ScAll \in scTurn[s].bound THEN SelectedScope(ViewOf(s))
                      ELSE scTurn[s].bound \cap SelectedScope(ViewOf(s))
<1>1. SelectedScope(ViewOf(s)) \in ScScope /\ scTurn[s].bound \in ScScope /\ scTurn[s].scope \in ScScope
  BY Views, ViewScopes DEF ScTypeOK, ScTurnRec
<1>2. current \in ScScope
  <2>1. ScAll \notin scTurn[s].bound => scTurn[s].bound \subseteq ScRes
    BY <1>1, ScopeListed
  <2> QED  BY <1>1, <2>1 DEF ScScope
<1>3. ToolResources(s) = IF scTurn[s].scope = {} THEN current ELSE Meet(current, scTurn[s].scope)
  BY DEF ToolResources
<1> HIDE DEF current
<1>4. ToolResources(s) \in ScScope
  BY <1>1, <1>2, <1>3, MeetScope
<1>5. ASSUME scTurn[s].scope # {}, NEW from, Within(scTurn[s].scope, from)
      PROVE  Within(ToolResources(s), from)
  BY <1>3, <1>5, MeetWithin
<1> QED  BY <1>4, <1>5

\* A tool that reads with nothing allowed is refused, or reads everything.
LEMMA CallStep ==
  ASSUME ScIInv, NEW s \in ScSession,
         CheckTool(s) \/ ResolveTool(s) \/ ReadResources(s) \/ ReadResource(s), UNCHANGED scKind
  PROVE  ScIInv'
PROOF
<1> USE ScAssumption
<1>t. ScTypeOK
  BY DEF ScIInv
<1>0. /\ scTurn \in [ScSession -> ScTurnRec] /\ scTurn[s] \in ScTurnRec /\ {} \in ScScope
      /\ "child" \in ScSession
  BY <1>t DEF ScTypeOK, ScScope, ScSession
<1>1. CASE CheckTool(s)
  <2>1. [scTurn[s] EXCEPT !.pc = "checked"] \in ScTurnRec
    BY <1>0 DEF ScTurnRec
  <2>2. scTurn' = [scTurn EXCEPT ![s] = [scTurn[s] EXCEPT !.pc = "checked"]]
    BY <1>0, <1>1 DEF CheckTool
  <2>3. scTurn'["child"].scope = scTurn["child"].scope
    BY <1>0, <2>2 DEF ScTurnRec
  <2>4. ScTypeOK'
    BY <1>t, <1>0, <1>1, <2>1, <2>2 DEF CheckTool, ScTypeOK, scTables
  <2> QED  BY <1>1, <2>3, <2>4 DEF CheckTool, ScIInv, ChildNarrowed, RecordedScopeHolds, Within
<1>2. CASE ResolveTool(s)
  <2> DEFINE bound == UNION {ViewOf(s).conn[c].bound : c \in Resolved(ViewOf(s))}
             turn == IF Resolved(ViewOf(s)) = {} THEN [scTurn[s] EXCEPT !.pc = "run"]
                     ELSE [scTurn[s] EXCEPT !.pc = "resolved", !.bound = bound]
  <2>1. bound \in ScScope
    BY <1>t, Views, ViewScopes
  <2>2. turn \in ScTurnRec /\ turn.scope = scTurn[s].scope
    <3> HIDE DEF bound
    <3> QED  BY <1>0, <2>1 DEF ScTurnRec
  <2>3. scTurn' = [scTurn EXCEPT ![s] = turn]
    BY <1>2 DEF ResolveTool
  <2> HIDE DEF turn
  <2>4. scTurn'["child"].scope = scTurn["child"].scope
    BY <1>0, <2>2, <2>3
  <2>5. ScTypeOK'
    BY <1>t, <1>0, <1>2, <2>2, <2>3 DEF ResolveTool, ScTypeOK, scTables
  <2> QED  BY <1>2, <2>4, <2>5 DEF ResolveTool, ScIInv, ChildNarrowed, RecordedScopeHolds
<1>3. ASSUME NEW resources \in ScScope, Read(s, resources),
             \/ \A from : scTurn[s].scope # {} /\ Within(scTurn[s].scope, from) => Within(resources, from)
             \/ scKind = "list" /\ ToolResources(s) = {}
      PROVE  ScIInv'
  <2>1. [scTurn[s] EXCEPT !.pc = "run", !.bound = {}] \in ScTurnRec
    BY <1>0 DEF ScTurnRec
  <2>2. scTurn' = [scTurn EXCEPT ![s] = [scTurn[s] EXCEPT !.pc = "run", !.bound = {}]]
    BY <1>0, <1>3 DEF Read
  <2>3. scTurn'["child"].scope = scTurn["child"].scope
    BY <1>0, <2>2 DEF ScTurnRec
  <2>4. ScTypeOK'
    BY <1>t, <1>0, <1>3, <2>1, <2>2, AllowedResources DEF Read, ScTypeOK, scTables
  <2>5. /\ scFrom' = scFrom /\ scRead' = IF s = "parent" THEN scRead ELSE resources
        /\ scLeft' = IF s = "parent" THEN scLeft ELSE ToolResources(s)
    BY <1>3 DEF Read
  <2>6. s = "parent" \/ s = "child"
    BY DEF ScSession
  <2> QED  BY <1>3, <2>3, <2>4, <2>5, <2>6 DEF ScIInv, ChildNarrowed, RecordedScopeHolds
<1>4. CASE ReadResources(s)
  <2>1. {ScAll} \in ScScope /\ scKind = "list"
    BY <1>4 DEF ScScope, ReadResources
  <2>2. CASE ToolResources(s) = {}
    BY <1>3, <1>4, <2>1, <2>2 DEF ReadResources
  <2>3. CASE ToolResources(s) # {}
    BY <1>t, <1>3, <1>4, <2>3, AllowedResources DEF ReadResources
  <2> QED BY <2>2, <2>3
<1>5. CASE ReadResource(s)
  <2>1. PICK resource \in ToolResources(s) :
          (ScAll \in ToolResources(s) => resource = ScAll) /\ Read(s, {resource})
    BY <1>5 DEF ReadResource
  <2>2. {resource} \in ScScope
    <3>1. ToolResources(s) \in ScScope
      BY <1>t, AllowedResources
    <3> QED  BY <2>1, <3>1, ScopeListed DEF ScScope
  <2>3. \A from : Within(ToolResources(s), from) => Within({resource}, from)
    BY <2>1 DEF Within
  <2> QED  BY <1>t, <1>3, <2>1, <2>2, <2>3, AllowedResources
<1> QED  BY <1>1, <1>2, <1>4, <1>5

\* A restart reads what is stored; a task that is claimed again keeps its record.
LEMMA ScopeRestartStep ==
  ASSUME ScIInv, RestartWorker \/ RestartApi, UNCHANGED scKind
  PROVE  ScIInv'
PROOF
<1> USE ScAssumption
<1>t. ScTypeOK
  BY DEF ScIInv
<1>0. /\ scTurn \in [ScSession -> ScTurnRec] /\ ScNoTurn \in ScTurnRec /\ {} \in ScScope
      /\ "child" \in ScSession
  BY <1>t DEF ScTypeOK, ScTurnRec, ScNoTurn, ScScope, ScSession
<1>1. Seeded \subseteq ScSelection
  <2>1. \A c \in Visible(Api) : c \in ScConn /\ scConn[c].bound \in ScScope
    BY <1>t DEF Visible, ScTypeOK, ScConnections
  <2>2. ASSUME NEW c \in Visible(Api)
        PROVE  [conn |-> c, own |-> scConn[c].bound # {}, scope |-> scConn[c].bound] \in ScSelection
    <3> DEFINE own == scConn[c].bound # {}
    <3>1. own \in BOOLEAN
      OBVIOUS
    <3> HIDE DEF own
    <3>2. [conn |-> c, own |-> own, scope |-> scConn[c].bound] \in ScSelection
      BY <2>1, <3>1 DEF ScSelection
    <3> QED  BY <3>2 DEF own
  <2> QED  BY <1>t, <2>2 DEF Seeded, ScTypeOK
<1>2. CASE RestartWorker
  <2> DEFINE child == IF scTurn["child"].pc = "none" THEN scTurn["child"]
                      ELSE [scTurn["child"] EXCEPT !.pc = "run", !.bound = {}]
  <2>1. child \in ScTurnRec /\ child.scope = scTurn["child"].scope
    BY <1>0 DEF ScTurnRec
  <2>2. scTurn' = [scTurn EXCEPT !["child"] = child]
    BY <1>2 DEF RestartWorker
  <2> HIDE DEF child
  <2>3. scTurn'["child"].scope = scTurn["child"].scope
    BY <1>0, <2>1, <2>2
  <2>4. scStored' \in ScSelection /\ scCopy'.conn \in ScConnections /\ scCopy'.sel \in ScSelection
    BY <1>t, <1>1, <1>2 DEF RestartWorker, ScTypeOK
  <2>5. ScTypeOK'
    BY <1>t, <1>0, <1>2, <2>1, <2>2, <2>4 DEF RestartWorker, ScTypeOK
  <2> QED  BY <1>2, <2>3, <2>5 DEF RestartWorker, ScIInv, ChildNarrowed, RecordedScopeHolds
<1>3. CASE RestartApi
  <2>1. scTurn'["child"].scope \in {{}, scTurn["child"].scope}
    BY <1>0, <1>3 DEF RestartApi, ScNoTurn
  <2>2. ScTypeOK'
    BY <1>t, <1>0, <1>1, <1>3 DEF RestartApi, ScTypeOK
  <2> QED  BY <1>3, <2>1, <2>2 DEF RestartApi, ScIInv, ChildNarrowed, RecordedScopeHolds
<1> QED  BY <1>2, <1>3

LEMMA NarrowedStep == ScIInv /\ [ScNext]_scVars => ScIInv'
PROOF
<1> SUFFICES ASSUME ScIInv, [ScNext]_scVars PROVE ScIInv'
  OBVIOUS
<1>1. ASSUME \/ \E bound \in ScScope : PutConnection(bound)
             \/ \E c \in ScConn, bound \in ScScope :
                  \/ BindTool(c, bound)
                  \/ \E live \in {"ready", "off"} :
                       CreateConnection(c, live, bound) \/ PatchConnection(c, live, bound)
             \/ \E c \in ScConn : DeleteConnection(c),
             UNCHANGED scKind
      PROVE  ScIInv'
  <2>1. /\ scConn' \in ScConnections /\ scSel' \in ScSelection /\ scStored' \in ScSelection
        /\ scEdits' \in 0..ScEdits
        /\ UNCHANGED <<scCopy, scRestarts, scCreated, scTurn, scFrom, scRead, scLeft, scKind>>
    BY <1>1, ScopeAdminStep DEF ScIInv
  <2> QED  BY <2>1 DEF ScIInv, ScTypeOK, ChildNarrowed, RecordedScopeHolds
<1>2. CASE UNCHANGED scVars
  BY <1>2 DEF scVars, scTables, ScIInv, ScTypeOK, ChildNarrowed, RecordedScopeHolds
<1> QED  BY <1>1, <1>2, ParentStep, CallStep, ScopeRestartStep DEF ScNext

\* However connections and binding move before a delegation, after it and during the calls,
\* and whatever the worker missed of it, a sub-agent whose record names a scope reads
\* nothing outside what its parent was allowed; but a tool that reads a list reads everything
\* when nothing is left of it.
THEOREM ScopesHold == ScSpec => []RecordedScopeHolds
PROOF
<1>1. ScIInv => RecordedScopeHolds
  BY DEF ScIInv
<1>2. ScIInv /\ [ScNext]_scVars => ScIInv'
  BY NarrowedStep
<1> QED  BY InitNarrowed, <1>1, <1>2, PTL DEF ScSpec

---------------------------------------------------------------------------
(* Tools of a turn *)

\* The tools of a turn, unless an approval has built them anew, were granted when it began;
\* one that waits for a decision has asked for a tool it has; and none of the
\* Coordinator's queries data.
TurnAllowed(a, turn) ==
  /\ turn.rebuilt \/ turn.tools \subseteq turn.granted
  /\ turn.pc = "approval" => "notify" \in turn.tools
  /\ a = "coordinator" => "query" \notin turn.tools

TurnsAllowed == \A a \in TpAgent : TurnAllowed(a, tpTurn[a])
TaskAllowed == tpTask.tools \subseteq tpTask.granted

TpIInv == TpTypeOK /\ TurnsAllowed /\ TaskAllowed /\ CallsAllowed

LEMMA NoTurnAllowed == TpNoTurn \in TpTurnRec /\ \A a \in TpAgent : TurnAllowed(a, TpNoTurn)
PROOF BY DEF TpNoTurn, TpTurnRec, TurnAllowed

LEMMA InitAllowed == TpInit => TpIInv
PROOF
<1> USE TpAssumption
<1> SUFFICES ASSUME TpInit PROVE TpIInv
  OBVIOUS
<1>1. tpStored \in TpAgentRows
  <2>1. PICK legacy \in SUBSET {"query"} :
          tpStored = [a \in TpAgent |->
                        [enabled |-> TRUE,
                         tools |-> IF a = "coordinator" THEN {"delegate", "recall", "notify"} \cup legacy
                                   ELSE {"query"}]]
    BY DEF TpInit
  <2>2. \A a \in TpAgent : (IF a = "coordinator" THEN {"delegate", "recall", "notify"} \cup legacy
                            ELSE {"query"}) \in SUBSET TpTool
    BY DEF TpTool
  <2> QED  BY <2>1, <2>2 DEF TpAgentRows
<1>2. tpWorker \in TpCopies
  BY <1>1 DEF TpInit, TpApi, TpCopies
<1>3. TpTypeOK
  BY <1>1, <1>2, NoTurnAllowed DEF TpInit, TpTypeOK, TpNoTask, TpNothing, TpAgent, TpTool
<1> QED  BY <1>3, NoTurnAllowed
     DEF TpInit, TpIInv, TurnsAllowed, TaskAllowed, CallsAllowed, TpNoTask, TpNothing

\* What an agent gets in a process is offered there, and the Coordinator never gets the data
\* tools.
LEMMA AgentToolsOffered ==
  ASSUME TpTypeOK, NEW a \in TpAgent, NEW copy \in TpCopies
  PROVE  /\ AgentTools(copy, a) \subseteq Offered(copy) /\ Offered(copy) \subseteq TpTool
         /\ a = "coordinator" => "query" \notin AgentTools(copy, a)
         /\ Granted \subseteq TpTool
PROOF BY DEF AgentTools, Offered, TpCopies, TpTypeOK, Granted, TpSystem, TpTool

\* The processes that run turns.
LEMMA HostsHaveCopies ==
  ASSUME TpTypeOK
  PROVE  TpApi \in TpCopies /\ \A a \in TpAgent : Host(a) \in TpCopies
PROOF BY DEF TpApi, TpCopies, Host, TpTypeOK

\* A turn begins with tools that the caller passes, the agent gets and the user may use.
LEMMA ToolBegins ==
  ASSUME TpTypeOK, NEW a \in TpAgent, NEW passed \in SUBSET TpTool, NEW granted \in SUBSET TpTool,
         passed \cap AgentTools(Host(a), a) \cap Granted \subseteq granted,
         Begin(a, passed, granted), TurnsAllowed
  PROVE  /\ tpTurn' \in [TpAgent -> TpTurnRec] /\ TurnsAllowed'
         /\ tpCreated' \in [TpAgent -> {{}} \cup {{ts} : ts \in SUBSET TpTool}]
PROOF
<1> DEFINE tools == Merged(a, passed \cap AllowedTools(a, Granted))
           turn == [pc |-> "run", tools |-> tools, granted |-> granted, rebuilt |-> FALSE]
<1>1. tools \subseteq passed \cap AgentTools(Host(a), a) \cap Granted
  BY DEF Merged, AllowedTools
<1>2. tools \in SUBSET TpTool /\ tools \subseteq granted /\ (a = "coordinator" => "query" \notin tools)
  BY <1>1, AgentToolsOffered, HostsHaveCopies
<1>3. /\ tpTurn' = [tpTurn EXCEPT ![a] = turn]
      /\ tpCreated' = IF tpCreated[a] = {} THEN [tpCreated EXCEPT ![a] = {tools}] ELSE tpCreated
  BY DEF Begin
<1> HIDE DEF tools
<1>4. turn \in TpTurnRec /\ TurnAllowed(a, turn)
  BY <1>2 DEF TpTurnRec, TurnAllowed
<1> HIDE DEF turn
<1>5. tpTurn' \in [TpAgent -> TpTurnRec]
  BY <1>3, <1>4 DEF TpTypeOK
<1>6. TurnsAllowed'
  BY <1>3, <1>4 DEF TpTypeOK, TurnsAllowed, TurnAllowed
<1>7. tpCreated' \in [TpAgent -> {{}} \cup {{ts} : ts \in SUBSET TpTool}]
  BY <1>2, <1>3 DEF TpTypeOK
<1> QED  BY <1>5, <1>6, <1>7

\* A change of the configuration leaves turns and task as they are.
LEMMA ConfigStep ==
  ASSUME TpTypeOK,
         \/ \E a \in TpAgent, t \in TpToggled : PatchTools(a, t)
         \/ \E a \in TpAgent : PatchEnabled(a)
         \/ SaveAgents \/ PatchCapability \/ LinkTools \/ ChangeRules
  PROVE  TpTypeOK' /\ UNCHANGED <<tpTurn, tpTask>> /\ tpRan' = TpNothing
PROOF
<1> USE TpAssumption
<1>0. /\ TpNothing \in [agent : TpAgent, tool : TpTool \cup {"none"}]
      /\ tpCount \in [edits : 0..TpEdits, turns : 0..TpTurns] /\ tpAgents \in TpAgentRows
  BY DEF TpNothing, TpAgent, TpTypeOK
<1>1. TpEdit => tpCount' \in [edits : 0..TpEdits, turns : 0..TpTurns]
  BY <1>0 DEF TpEdit
<1>2. ASSUME NEW a \in TpAgent, NEW t \in TpToggled, PatchTools(a, t)
      PROVE  TpTypeOK' /\ UNCHANGED <<tpTurn, tpTask>> /\ tpRan' = TpNothing
  <2> DEFINE tools == IF t \in tpAgents[a].tools THEN tpAgents[a].tools \ {t}
                      ELSE tpAgents[a].tools \cup {t}
  <2>1. tools \subseteq TpTool
    BY <1>2 DEF PatchTools, TpTypeOK
  <2>2. [tpAgents[a] EXCEPT !.tools = tools] \in [enabled : BOOLEAN, tools : SUBSET TpTool]
    <3> HIDE DEF tools
    <3> QED  BY <1>0, <2>1 DEF TpAgentRows
  <2>3. tpAgents' = [tpAgents EXCEPT ![a] = [tpAgents[a] EXCEPT !.tools = tools]]
    BY <1>0, <1>2 DEF PatchTools, TpAgentRows
  <2> HIDE DEF tools
  <2>4. tpAgents' \in TpAgentRows
    BY <1>0, <2>2, <2>3 DEF TpAgentRows
  <2> QED  BY <1>0, <1>1, <1>2, <2>4 DEF PatchTools, TpEdit, TpTypeOK
<1>3. ASSUME NEW a \in TpAgent, PatchEnabled(a)
      PROVE  TpTypeOK' /\ UNCHANGED <<tpTurn, tpTask>> /\ tpRan' = TpNothing
  <2>1. tpAgents' \in TpAgentRows
    BY <1>0, <1>3 DEF PatchEnabled, TpAgentRows
  <2> QED  BY <1>0, <1>1, <1>3, <2>1 DEF PatchEnabled, TpEdit, TpTypeOK
<1>4. CASE SaveAgents
  BY <1>0, <1>4 DEF SaveAgents, TpTypeOK
<1>5. CASE PatchCapability \/ LinkTools
  BY <1>0, <1>1, <1>5 DEF PatchCapability, LinkTools, TpEdit, TpTypeOK
<1>6. CASE ChangeRules
  <2>1. tpRules' \in [limited : BOOLEAN, enabled : BOOLEAN, tools : SUBSET TpTool]
    <3>1. PICK rules \in [limited : {TRUE}, enabled : {TRUE}, tools : SUBSET {"query", "notify"}]
                           \cup {[limited |-> TRUE, enabled |-> FALSE, tools |-> {}]} : tpRules' = rules
      BY <1>6 DEF ChangeRules
    <3>2. SUBSET {"query", "notify"} \subseteq SUBSET TpTool /\ {} \in SUBSET TpTool
      BY DEF TpTool
    <3>3. [limited : {TRUE}, enabled : {TRUE}, tools : SUBSET {"query", "notify"}]
            \subseteq [limited : BOOLEAN, enabled : BOOLEAN, tools : SUBSET TpTool]
      BY <3>2
    <3>4. [limited |-> TRUE, enabled |-> FALSE, tools |-> {}]
            \in [limited : BOOLEAN, enabled : BOOLEAN, tools : SUBSET TpTool]
      BY <3>2
    <3> QED  BY <3>1, <3>3, <3>4
  <2> QED  BY <1>0, <1>1, <1>6, <2>1 DEF ChangeRules, TpEdit, TpTypeOK
<1> QED  BY <1>2, <1>3, <1>4, <1>5, <1>6

\* A new process: turns that wait for an approval, and the task, are not lost.
LEMMA ProcessStep == ASSUME TpIInv, TpRestart \/ WorkerRestart PROVE TpIInv'
PROOF
<1> USE TpAssumption
<1>0. TpTypeOK /\ TpNothing \in [agent : TpAgent, tool : TpTool \cup {"none"}]
  BY DEF TpIInv, TpNothing, TpAgent
<1>1. Migrated(tpStored) \in TpAgentRows
  <2>1. tpStored \in TpAgentRows /\ tpStored["coordinator"] \in [enabled : BOOLEAN, tools : SUBSET TpTool]
    BY <1>0 DEF TpTypeOK, TpAgentRows, TpAgent
  <2>2. [tpStored["coordinator"] EXCEPT !.tools = tpStored["coordinator"].tools \cup {"recall"}]
          \in [enabled : BOOLEAN, tools : SUBSET TpTool]
    BY <2>1 DEF TpTool
  <2>3. Migrated(tpStored) =
          [tpStored EXCEPT !["coordinator"] =
             [tpStored["coordinator"] EXCEPT !.tools = tpStored["coordinator"].tools \cup {"recall"}]]
    BY <2>1 DEF Migrated, TpAgentRows
  <2> QED  BY <2>1, <2>2, <2>3 DEF TpAgentRows
<1>2. \A a \in TpAgent : Ended(tpTurn[a]) \in TpTurnRec /\ TurnAllowed(a, Ended(tpTurn[a]))
  BY <1>0, NoTurnAllowed DEF TpIInv, TurnsAllowed, TpTypeOK, Ended
<1>3. /\ Requeued \in [pc : {"none", "queued", "run"}, tools : SUBSET TpTool, granted : SUBSET TpTool]
      /\ Requeued.tools \subseteq Requeued.granted
  BY <1>0 DEF TpTypeOK, TpIInv, TaskAllowed, Requeued
<1>4. CASE TpRestart
  <2>1. \A a \in TpAgent : tpTurn'[a] = tpTurn[a] \/ tpTurn'[a] = Ended(tpTurn[a])
    BY <1>4 DEF TpRestart
  <2>2. tpTurn' \in [TpAgent -> TpTurnRec] /\ TurnsAllowed'
    <3>1. \A a \in TpAgent : tpTurn'[a] \in TpTurnRec /\ TurnAllowed(a, tpTurn'[a])
      BY <1>0, <1>2, <2>1 DEF TpIInv, TurnsAllowed, TpTypeOK
    <3> QED  BY <1>4, <3>1 DEF TpRestart, TurnsAllowed, TurnAllowed
  <2>3. /\ tpTask' \in [pc : {"none", "queued", "run"}, tools : SUBSET TpTool, granted : SUBSET TpTool]
        /\ TaskAllowed'
    BY <1>0, <1>3, <1>4 DEF TpRestart, TpTypeOK, TpIInv, TaskAllowed
  <2>4. TpTypeOK'
    <3>1. tpCount' \in [edits : 0..TpEdits, turns : 0..TpTurns] /\ tpKnown' \in SUBSET TpTool
      BY <1>0, <1>4 DEF TpRestart, TpStarts, TpTypeOK
    <3> QED  BY <1>0, <1>1, <1>4, <2>2, <2>3, <3>1 DEF TpRestart, TpStarts, TpTypeOK
  <2> QED  BY <1>4, <2>2, <2>3, <2>4 DEF TpRestart, TpStarts, TpIInv, CallsAllowed, TpNothing
<1>5. CASE WorkerRestart
  <2>1. tpTurn' = [tpTurn EXCEPT !["specialist"] = Ended(tpTurn["specialist"])]
    BY <1>5 DEF WorkerRestart
  <2>2. tpTurn' \in [TpAgent -> TpTurnRec] /\ TurnsAllowed'
    BY <1>0, <1>2, <2>1 DEF TpIInv, TurnsAllowed, TurnAllowed, TpTypeOK
  <2>3. /\ tpTask' \in [pc : {"none", "queued", "run"}, tools : SUBSET TpTool, granted : SUBSET TpTool]
        /\ TaskAllowed'
    BY <1>3, <1>5 DEF WorkerRestart, TaskAllowed
  <2>4. tpWorker' \in TpCopies
    BY <1>0, <1>1, <1>5 DEF WorkerRestart, TpCopies, TpTypeOK
  <2>5. TpTypeOK'
    BY <1>0, <1>5, <2>2, <2>3, <2>4 DEF WorkerRestart, TpStarts, TpTypeOK
  <2> QED  BY <1>5, <2>2, <2>3, <2>5 DEF WorkerRestart, TpStarts, TpIInv, CallsAllowed, TpNothing
<1> QED  BY <1>4, <1>5

\* A query of the user, and a task that is submitted, run or fails.
LEMMA TaskStep ==
  ASSUME TpIInv,
         TpQuery \/ RunTask \/ FailTask \/ \E asked \in SUBSET {"query", "remote"} : SubmitTask(asked)
  PROVE  TpIInv'
PROOF
<1> USE TpAssumption
<1>0. /\ TpTypeOK /\ TurnsAllowed /\ TaskAllowed
      /\ TpNothing \in [agent : TpAgent, tool : TpTool \cup {"none"}]
      /\ "coordinator" \in TpAgent /\ "specialist" \in TpAgent
      /\ tpTask \in [pc : {"none", "queued", "run"}, tools : SUBSET TpTool, granted : SUBSET TpTool]
  BY DEF TpIInv, TpNothing, TpAgent, TpTypeOK
<1>1. /\ Granted \in SUBSET TpTool /\ TpApi \in TpCopies /\ Host("specialist") \in TpCopies
      /\ \A copy \in TpCopies, a \in TpAgent :
           Usable(copy) \in SUBSET TpTool /\ AgentTools(copy, a) \cap Granted \subseteq Usable(copy)
  BY <1>0, AgentToolsOffered, HostsHaveCopies DEF Usable
<1>2. CASE TpQuery
  <2>1. /\ tpTurn' \in [TpAgent -> TpTurnRec] /\ TurnsAllowed'
        /\ tpCreated' \in [TpAgent -> {{}} \cup {{ts} : ts \in SUBSET TpTool}]
    <3>1. Begin("coordinator", Granted, Usable(TpApi))
      BY <1>2 DEF TpQuery
    <3>2. Host("coordinator") = TpApi
      BY DEF Host
    <3>3. Granted \cap AgentTools(TpApi, "coordinator") \cap Granted \subseteq Usable(TpApi)
      BY <1>0, <1>1
    <3> QED  BY <1>0, <1>1, <3>1, <3>2, <3>3, ToolBegins
  <2>2. tpCount' \in [edits : 0..TpEdits, turns : 0..TpTurns]
    BY <1>0, <1>2 DEF TpQuery, TpTypeOK
  <2>3. TpTypeOK'
    BY <1>0, <1>2, <2>1, <2>2 DEF TpQuery, tpConfig, TpTypeOK
  <2> QED  BY <1>0, <1>2, <2>1, <2>3 DEF TpQuery, TpIInv, TaskAllowed, CallsAllowed, TpNothing
<1>3. CASE RunTask
  <2>1. /\ tpTurn' \in [TpAgent -> TpTurnRec] /\ TurnsAllowed'
        /\ tpCreated' \in [TpAgent -> {{}} \cup {{ts} : ts \in SUBSET TpTool}]
    <3> DEFINE host == Host("specialist")
    <3>1. Begin("specialist", tpTask.tools, tpTask.granted \cap Usable(host))
      BY <1>3 DEF RunTask
    <3>2. /\ tpTask.tools \cap AgentTools(host, "specialist") \cap Granted
               \subseteq tpTask.granted \cap Usable(host)
          /\ tpTask.tools \in SUBSET TpTool /\ tpTask.granted \cap Usable(host) \in SUBSET TpTool
      BY <1>0, <1>1 DEF TaskAllowed
    <3> QED  BY <1>0, <3>1, <3>2, ToolBegins
  <2>2. /\ tpTask' \in [pc : {"none", "queued", "run"}, tools : SUBSET TpTool, granted : SUBSET TpTool]
        /\ TaskAllowed'
    BY <1>0, <1>3 DEF RunTask, TaskAllowed
  <2>3. TpTypeOK'
    BY <1>0, <1>3, <2>1, <2>2 DEF RunTask, tpConfig, TpTypeOK
  <2> QED  BY <1>3, <2>1, <2>2, <2>3 DEF RunTask, TpIInv, CallsAllowed, TpNothing
<1>4. CASE FailTask
  <2>1. TpTypeOK'
    BY <1>0, <1>4 DEF FailTask, tpConfig, TpTypeOK, TpNoTask
  <2> QED  BY <1>0, <1>4, <2>1 DEF FailTask, TpIInv, TurnsAllowed, TaskAllowed, CallsAllowed, TpNoTask, TpNothing
<1>5. ASSUME NEW asked \in SUBSET {"query", "remote"}, SubmitTask(asked) PROVE TpIInv'
  <2> DEFINE base == AgentTools(TpApi, "specialist") \cap Granted
             tools == (IF asked = {} THEN base ELSE asked) \ TpApproval
  <2>1. tools \subseteq Usable(TpApi)
    BY <1>0, <1>1, <1>5 DEF SubmitTask
  <2>2. tpTask' = [pc |-> "queued", tools |-> tools, granted |-> Usable(TpApi)]
    BY <1>5 DEF SubmitTask
  <2> HIDE DEF tools
  <2>3. /\ tpTask' \in [pc : {"none", "queued", "run"}, tools : SUBSET TpTool, granted : SUBSET TpTool]
        /\ TaskAllowed'
    <3>1. Usable(TpApi) \in SUBSET TpTool
      BY <1>0, <1>1
    <3> QED  BY <2>1, <2>2, <3>1 DEF TaskAllowed
  <2>4. /\ tpRan' = [agent |-> "coordinator", tool |-> "delegate"] /\ tpTurn' = tpTurn
        /\ "delegate" \in tpTurn["coordinator"].tools
    BY <1>5 DEF SubmitTask
  <2>5. TpTypeOK'
    BY <1>0, <1>5, <2>3 DEF SubmitTask, tpConfig, TpTypeOK, TpTool
  <2> QED  BY <1>0, <2>3, <2>4, <2>5 DEF TpIInv, TurnsAllowed, TurnAllowed, CallsAllowed
<1> QED  BY <1>2, <1>3, <1>4, <1>5

\* A turn calls a tool, waits for a decision, goes on after it with its tools built anew, ends.
LEMMA TurnStep ==
  ASSUME TpIInv, NEW a \in TpAgent,
         \/ RunApproved(a) \/ Rebuild(a) \/ EndOfTurn(a)
         \/ \E t \in TpTool : RunTool(a, t) \/ AskApproval(a, t)
  PROVE  TpIInv'
PROOF
<1> USE TpAssumption
<1>0. /\ TpTypeOK /\ TurnsAllowed /\ TaskAllowed /\ TurnAllowed(a, tpTurn[a])
      /\ TpNothing \in [agent : TpAgent, tool : TpTool \cup {"none"}]
      /\ tpTurn \in [TpAgent -> TpTurnRec] /\ tpTurn[a] \in TpTurnRec
  BY DEF TpIInv, TpNothing, TpAgent, TpTypeOK, TurnsAllowed
<1>1. ASSUME NEW turn \in TpTurnRec, TurnAllowed(a, turn), tpTurn' = [tpTurn EXCEPT ![a] = turn]
      PROVE  tpTurn' \in [TpAgent -> TpTurnRec] /\ TurnsAllowed'
  BY <1>0, <1>1 DEF TurnsAllowed, TurnAllowed
<1>2. CASE RunApproved(a)
  <2> DEFINE turn == [tpTurn[a] EXCEPT !.pc = "decided"]
  <2>1. turn \in TpTurnRec /\ TurnAllowed(a, turn) /\ turn.rebuilt = tpTurn[a].rebuilt
        /\ turn.granted = tpTurn[a].granted
    BY <1>0 DEF TpTurnRec, TurnAllowed
  <2>2. tpTurn' = [tpTurn EXCEPT ![a] = turn]
    BY <1>0, <1>2 DEF RunApproved
  <2> HIDE DEF turn
  <2>3. tpTurn' \in [TpAgent -> TpTurnRec] /\ TurnsAllowed'
    BY <1>1, <2>1, <2>2
  <2>4. \A b \in TpAgent : tpTurn'[b].rebuilt = tpTurn[b].rebuilt /\ tpTurn'[b].granted = tpTurn[b].granted
    BY <1>0, <2>1, <2>2
  <2>5. tpRan' = tpRan \/ tpRan' = [agent |-> a, tool |-> "notify"]
    BY <1>2 DEF RunApproved
  <2>6. TpTypeOK'
    <3>1. "notify" \in TpTool /\ tpRan \in [agent : TpAgent, tool : TpTool \cup {"none"}]
      BY <1>0 DEF TpTypeOK, TpTool
    <3>2. tpRan' \in [agent : TpAgent, tool : TpTool \cup {"none"}]
      BY <2>5, <3>1
    <3>3. UNCHANGED <<tpAgents, tpStored, tpOn, tpLinked, tpKnown, tpWorker, tpRules, tpCreated,
                      tpTask, tpCount>>
      BY <1>2 DEF RunApproved, tpConfig
    <3> QED  BY <1>0, <2>3, <3>2, <3>3 DEF TpTypeOK
  <2>7. CallsAllowed'
    <3>1. CASE tpRan' = tpRan
      BY <1>0, <2>4, <3>1 DEF TpIInv, CallsAllowed, TpTypeOK
    <3>2. CASE tpRan' = [agent |-> a, tool |-> "notify"]
      <4>1. "notify" \in tpTurn[a].tools
        BY <1>0, <1>2 DEF RunApproved, TurnAllowed
      <4> QED  BY <1>0, <2>4, <3>2, <4>1 DEF CallsAllowed, TurnAllowed
    <3> QED  BY <2>5, <3>1, <3>2
  <2> QED  BY <1>0, <1>2, <2>3, <2>6, <2>7 DEF RunApproved, TpIInv, TaskAllowed
<1>3. CASE Rebuild(a)
  <2> DEFINE tools == AllowedTools(a, TpTool)
             turn == [tpTurn[a] EXCEPT !.pc = "run", !.tools = tools, !.rebuilt = TRUE]
  <2>1. tools \in SUBSET TpTool /\ (a = "coordinator" => "query" \notin tools)
    BY <1>0, AgentToolsOffered, HostsHaveCopies DEF AllowedTools
  <2>2. tpTurn' = [tpTurn EXCEPT ![a] = turn]
    BY <1>0, <1>3 DEF Rebuild
  <2> HIDE DEF tools
  <2>3. turn \in TpTurnRec /\ TurnAllowed(a, turn)
    BY <1>0, <2>1 DEF TpTurnRec, TurnAllowed
  <2> HIDE DEF turn
  <2>4. tpTurn' \in [TpAgent -> TpTurnRec] /\ TurnsAllowed'
    BY <1>1, <2>2, <2>3
  <2>5. TpTypeOK'
    BY <1>0, <1>3, <2>4 DEF Rebuild, tpConfig, TpTypeOK
  <2> QED  BY <1>0, <1>3, <2>4, <2>5 DEF Rebuild, TpIInv, TaskAllowed, CallsAllowed, TpNothing
<1>4. CASE EndOfTurn(a)
  <2>1. tpTurn' \in [TpAgent -> TpTurnRec] /\ TurnsAllowed'
    BY <1>1, <1>4, NoTurnAllowed DEF EndOfTurn
  <2>2. TpTypeOK' /\ TaskAllowed'
    BY <1>0, <1>4, <2>1 DEF EndOfTurn, tpConfig, TpTypeOK, TpNoTask, TaskAllowed
  <2> QED  BY <1>4, <2>1, <2>2 DEF EndOfTurn, TpIInv, CallsAllowed, TpNothing
<1>5. ASSUME NEW t \in TpTool, RunTool(a, t) PROVE TpIInv'
  <2>1. /\ tpRan' = [agent |-> a, tool |-> t] /\ tpTurn' = tpTurn /\ tpTask' = tpTask
        /\ t \in tpTurn[a].tools
    BY <1>5 DEF RunTool
  <2>2. TpTypeOK'
    BY <1>0, <1>5, <2>1, SMTT(20) DEF RunTool, tpConfig, TpTypeOK
  <2> QED  BY <1>0, <2>1, <2>2 DEF TpIInv, TurnsAllowed, TurnAllowed, TaskAllowed, CallsAllowed
<1>6. ASSUME NEW t \in TpTool, AskApproval(a, t) PROVE TpIInv'
  <2> DEFINE turn == [tpTurn[a] EXCEPT !.pc = "approval"]
  <2>1. t = "notify" /\ t \in tpTurn[a].tools
    BY <1>6 DEF AskApproval, TpApproval
  <2>2. turn \in TpTurnRec /\ TurnAllowed(a, turn)
    BY <1>0, <2>1 DEF TpTurnRec, TurnAllowed
  <2>3. tpTurn' = [tpTurn EXCEPT ![a] = turn]
    BY <1>0, <1>6 DEF AskApproval
  <2> HIDE DEF turn
  <2>4. tpTurn' \in [TpAgent -> TpTurnRec] /\ TurnsAllowed'
    BY <1>1, <2>2, <2>3
  <2>5. TpTypeOK'
    BY <1>0, <1>6, <2>4 DEF AskApproval, tpConfig, TpTypeOK
  <2> QED  BY <1>0, <1>6, <2>4, <2>5 DEF AskApproval, TpIInv, TaskAllowed, CallsAllowed, TpNothing
<1> QED  BY <1>2, <1>3, <1>4, <1>5, <1>6

LEMMA AllowedStep == TpIInv /\ [TpNext]_tpVars => TpIInv'
PROOF
<1> SUFFICES ASSUME TpIInv, [TpNext]_tpVars PROVE TpIInv'
  OBVIOUS
<1>1. ASSUME \/ \E a \in TpAgent, t \in TpToggled : PatchTools(a, t)
             \/ \E a \in TpAgent : PatchEnabled(a)
             \/ SaveAgents \/ PatchCapability \/ LinkTools \/ ChangeRules
      PROVE  TpIInv'
  <2>1. TpTypeOK' /\ UNCHANGED <<tpTurn, tpTask>> /\ tpRan' = TpNothing
    BY <1>1, ConfigStep DEF TpIInv
  <2> QED  BY <2>1 DEF TpIInv, TurnsAllowed, TurnAllowed, TaskAllowed, CallsAllowed, TpNothing
<1>2. CASE UNCHANGED tpVars
  BY <1>2 DEF tpVars, TpIInv, TpTypeOK, TurnsAllowed, TurnAllowed, TaskAllowed, CallsAllowed
<1> QED  BY <1>1, <1>2, ProcessStep, TaskStep, TurnStep DEF TpNext

\* However rows, capabilities, connections and rules change meanwhile, the Coordinator never
\* queries data itself, and a tool that runs was granted when its turn began and switched on
\* in the process that runs it, for a sub-agent also when the task was submitted; unless a
\* decided approval has built the tools of the turn anew.
THEOREM ToolsAllowed == TpSpec => []CallsAllowed
PROOF
<1>1. TpIInv => CallsAllowed
  BY DEF TpIInv
<1> QED  BY InitAllowed, AllowedStep, <1>1, PTL DEF TpSpec

---------------------------------------------------------------------------
(* Slots of streams *)

\* A worker has a slot from its start until its wrapper gives it back, ...
HasSlot == {"cached", "begin", "turn", "notify", "forward", "final", "slot"}
Holders == {r \in StrRequest : strReq[r].pc \in HasSlot}
SlotsCounted == strFree + Cardinality(Holders) = StrSlots

\* ... a query its lease until the finally block of its worker, ...
Leasing == {"leased", "cached", "begin", "turn", "notify", "final"}
LeasesHeld ==
  \A s \in StrSession : strLease[s] # NoStr
    => strReq[strLease[s]].pc \in Leasing /\ Session(strLease[s]) = s

\* ... and the hub knows a session only while one of its turns runs.
TurnsKnown == \A s \in strInflight : \E r \in StrRequest : strReq[r].pc = "turn" /\ Session(r) = s
SubscribersKnown == \A s \in StrSession : strSubs[s] # {} => s \in strInflight

\* A request that is served names its session.
SessionsNamed == \A r \in StrRequest : strReq[r].pc \notin {"idle", "done"} => Session(r) \in StrSession

StrIInv == /\ StrTypeOK /\ SlotsCounted /\ LeasesHeld /\ TurnsKnown /\ SubscribersKnown
           /\ SessionsNamed

LEMMA HoldersFinite ==
  /\ IsFiniteSet(Holders) /\ Cardinality(Holders) \in Nat
  /\ IsFiniteSet(StrRequest)
PROOF
<1>1. IsFiniteSet(StrRequest)
  BY StrAssumption, FS_Interval DEF StrRequest
<1>2. Holders \subseteq StrRequest
  BY DEF Holders
<1> QED  BY <1>1, <1>2, FS_Subset, FS_CardinalityType

\* A request takes a slot, gives it back, or does neither, and the others stay as they are.
LEMMA SlotTaken ==
  ASSUME StrIInv, NEW r \in StrRequest, \A d \in StrRequest \ {r} : strReq'[d].pc = strReq[d].pc,
         strReq[r].pc \notin HasSlot, strReq'[r].pc \in HasSlot, strFree > 0, strFree' = strFree - 1
  PROVE  SlotsCounted' /\ strFree' \in 0..StrSlots
PROOF
<1>1. Holders' = Holders \cup {r} /\ r \notin Holders
  BY DEF Holders
<1>2. Cardinality(Holders') = Cardinality(Holders) + 1
  BY <1>1, HoldersFinite, FS_AddElement
<1> QED  BY <1>2, HoldersFinite, StrAssumption DEF StrIInv, StrTypeOK, SlotsCounted

LEMMA SlotGiven ==
  ASSUME StrIInv, NEW r \in StrRequest, \A d \in StrRequest \ {r} : strReq'[d].pc = strReq[d].pc,
         strReq[r].pc \in HasSlot, strReq'[r].pc \notin HasSlot, strFree' = strFree + 1
  PROVE  SlotsCounted' /\ strFree' \in 0..StrSlots
PROOF
<1>1. Holders' = Holders \ {r} /\ r \in Holders
  BY DEF Holders
<1>2. Cardinality(Holders') = Cardinality(Holders) - 1
  BY <1>1, HoldersFinite, FS_RemoveElement
<1>3. Cardinality(Holders') \in Nat
  <2>1. IsFiniteSet(Holders')
    BY <1>1, HoldersFinite, FS_RemoveElement
  <2> QED  BY <2>1, FS_CardinalityType
<1> QED  BY <1>2, <1>3, HoldersFinite, StrAssumption DEF StrIInv, StrTypeOK, SlotsCounted

LEMMA SlotKept ==
  ASSUME StrIInv, NEW r \in StrRequest, \A d \in StrRequest \ {r} : strReq'[d].pc = strReq[d].pc,
         strReq[r].pc \in HasSlot <=> strReq'[r].pc \in HasSlot, strFree' = strFree
  PROVE  SlotsCounted' /\ strFree' \in 0..StrSlots
PROOF
<1>1. Holders' = Holders
  BY DEF Holders
<1> QED  BY <1>1 DEF StrIInv, StrTypeOK, SlotsCounted

\* How the record of a request moves on.
LEMMA StreamMoves ==
  ASSUME StrTypeOK, NEW r \in StrRequest, NEW pc \in StrPc, NEW sse \in {"open", "ended", "refused"},
         strReq' = [strReq EXCEPT ![r].pc = pc] \/ strReq' = [strReq EXCEPT ![r].pc = pc, ![r].sse = sse]
  PROVE  /\ strReq' \in [StrRequest -> StrRec] /\ strReq'[r].pc = pc
         /\ strReq'[r].session = strReq[r].session
         /\ \A d \in StrRequest \ {r} : strReq'[d] = strReq[d]
PROOF
<1>0. strReq \in [StrRequest -> StrRec] /\ strReq[r] \in StrRec
  BY DEF StrTypeOK
<1>1. PICK x \in {[strReq[r] EXCEPT !.pc = pc], [strReq[r] EXCEPT !.pc = pc, !.sse = sse]} :
        strReq' = [strReq EXCEPT ![r] = x]
  BY <1>0
<1>2. x \in StrRec /\ x.pc = pc /\ x.session = strReq[r].session
  BY <1>0 DEF StrRec
<1> QED  BY <1>0, <1>1, <1>2

\* A step that runs no turn to its end and gives up no lease keeps what the tables say.
LEMMA TablesKept ==
  ASSUME StrIInv, NEW r \in StrRequest,
         \A d \in StrRequest \ {r} : strReq'[d].pc = strReq[d].pc /\ strReq'[d].session = strReq[d].session,
         strReq'[r].session = strReq[r].session,
         strReq[r].pc # "turn", strReq[r].pc \in Leasing => strReq'[r].pc \in Leasing,
         strReq[r].pc \in {"idle", "done"} => strReq'[r].pc = "done",
         UNCHANGED <<strLease, strInflight>>,
         \A s \in StrSession : strSubs'[s] \subseteq strSubs[s]
  PROVE  LeasesHeld' /\ TurnsKnown' /\ SubscribersKnown' /\ SessionsNamed'
PROOF
<1>0. \A d \in StrRequest : strReq'[d].session = strReq[d].session
  OBVIOUS
<1>1. LeasesHeld'
  <2> SUFFICES ASSUME NEW s \in StrSession, strLease[s] # NoStr
               PROVE  strReq'[strLease[s]].pc \in Leasing /\ strReq'[strLease[s]].session = s
    BY DEF LeasesHeld, Session
  <2>1. strLease[s] \in StrRequest
    BY DEF StrIInv, StrTypeOK
  <2>2. strReq[strLease[s]].pc \in Leasing /\ strReq[strLease[s]].session = s
    BY DEF StrIInv, LeasesHeld, Session
  <2> QED  BY <1>0, <2>1, <2>2
<1>2. TurnsKnown'
  <2> SUFFICES ASSUME NEW s \in strInflight
               PROVE  \E d \in StrRequest : strReq'[d].pc = "turn" /\ strReq'[d].session = s
    BY DEF TurnsKnown, Session
  <2>1. PICK d \in StrRequest : strReq[d].pc = "turn" /\ strReq[d].session = s
    BY DEF StrIInv, TurnsKnown, Session
  <2> QED  BY <1>0, <2>1
<1>3. SubscribersKnown'
  BY DEF StrIInv, SubscribersKnown
<1>4. SessionsNamed'
  BY <1>0 DEF StrIInv, SessionsNamed, Session
<1> QED  BY <1>1, <1>2, <1>3, <1>4

LEMMA InitSlots == StrInit => StrIInv
PROOF
<1> USE StrAssumption
<1> SUFFICES ASSUME StrInit PROVE StrIInv
  OBVIOUS
<1>1. NoRec \in StrRec /\ NoRec.pc = "idle"
  BY DEF NoRec, StrRec, StrPc
<1>2. \A r \in StrRequest : strReq[r] = NoRec
  BY DEF StrInit
<1>3. StrTypeOK
  BY <1>1 DEF StrInit, StrTypeOK
<1>4. Holders = {}
  BY <1>1, <1>2 DEF Holders, HasSlot
<1>5. SlotsCounted
  BY <1>4, FS_EmptySet DEF StrInit, SlotsCounted
<1> QED  BY <1>1, <1>2, <1>3, <1>5
     DEF StrInit, StrIInv, LeasesHeld, TurnsKnown, SubscribersKnown, SessionsNamed

\* A query: its lease, its slot, a result or a turn, and the finally block.
LEMMA QueryStep ==
  ASSUME StrIInv, NEW r \in StrRequest,
         \/ \E s \in StrSession : StreamQuery(r, s)
         \/ StartQuery(r) \/ LookUpResult(r) \/ Finally(r)
  PROVE  StrIInv'
PROOF
<1> USE StrAssumption
<1>0. /\ StrTypeOK /\ strReq \in [StrRequest -> StrRec] /\ strReq[r] \in StrRec
      /\ strLease \in [StrSession -> StrRequest \cup {NoStr}] /\ r # NoStr
  BY DEF StrIInv, StrTypeOK
<1>1. ASSUME NEW s \in StrSession, StreamQuery(r, s), strLease[s] = NoStr,
             strLease' = [strLease EXCEPT ![s] = r],
             strReq' = [strReq EXCEPT ![r].pc = "leased", ![r].session = s]
      PROVE  StrIInv'
  <2> DEFINE x == [strReq[r] EXCEPT !.pc = "leased", !.session = s]
  <2>1. x \in StrRec /\ x.pc = "leased" /\ x.session = s
    BY <1>0 DEF StrRec, StrPc
  <2>2. strReq' = [strReq EXCEPT ![r] = x]
    BY <1>0, <1>1
  <2> HIDE DEF x
  <2>3. /\ strReq' \in [StrRequest -> StrRec] /\ strReq'[r] = x
        /\ \A d \in StrRequest \ {r} : strReq'[d] = strReq[d]
    BY <1>0, <2>1, <2>2
  <2>4. strReq[r].pc = "idle" /\ UNCHANGED <<strFree, strInflight, strSubs, strOpen>>
    BY <1>1 DEF StreamQuery, StrArrives, StrAt
  <2>5. SlotsCounted' /\ strFree' \in 0..StrSlots
    BY <2>1, <2>3, <2>4, SlotKept DEF HasSlot
  <2>6. LeasesHeld'
    <3> SUFFICES ASSUME NEW t \in StrSession, strLease'[t] # NoStr
                 PROVE  strReq'[strLease'[t]].pc \in Leasing /\ strReq'[strLease'[t]].session = t
      BY DEF LeasesHeld, Session
    <3>1. CASE t = s
      BY <1>0, <1>1, <2>1, <2>3, <3>1 DEF Leasing
    <3>2. CASE t # s
      <4>1. strLease'[t] = strLease[t] /\ strLease[t] \in StrRequest
        BY <1>0, <1>1, <3>2
      <4>2. strReq[strLease[t]].pc \in Leasing /\ strReq[strLease[t]].session = t
        BY <4>1 DEF StrIInv, LeasesHeld, Session
      <4> QED  BY <2>3, <2>4, <4>1, <4>2 DEF Leasing
    <3> QED  BY <3>1, <3>2
  <2>7. TurnsKnown' /\ SubscribersKnown'
    BY <2>3, <2>4 DEF StrIInv, TurnsKnown, SubscribersKnown, Session
  <2>8. SessionsNamed'
    BY <2>1, <2>3 DEF StrIInv, SessionsNamed, Session
  <2>9. StrTypeOK'
    BY <1>0, <1>1, <2>3, <2>4, <2>5 DEF StrTypeOK
  <2> QED  BY <2>5, <2>6, <2>7, <2>8, <2>9 DEF StrIInv
<1>2. ASSUME NEW s \in StrSession, StreamQuery(r, s), StrOver(r, "refused"), UNCHANGED strLease
      PROVE  StrIInv'
  <2>1. strReq[r].pc = "idle" /\ UNCHANGED <<strFree, strInflight, strSubs, strOpen>>
    BY <1>2 DEF StreamQuery, StrArrives, StrAt
  <2>2. /\ strReq' \in [StrRequest -> StrRec] /\ strReq'[r].pc = "done"
        /\ strReq'[r].session = strReq[r].session
        /\ \A d \in StrRequest \ {r} : strReq'[d] = strReq[d]
    BY <1>0, <1>2, StreamMoves DEF StrOver, StrPc
  <2>3. SlotsCounted' /\ strFree' \in 0..StrSlots
    BY <2>1, <2>2, SlotKept DEF HasSlot
  <2>4. LeasesHeld' /\ TurnsKnown' /\ SubscribersKnown' /\ SessionsNamed'
    BY <1>2, <2>1, <2>2, TablesKept DEF Leasing
  <2>5. StrTypeOK'
    BY <1>0, <1>2, <2>1, <2>2, <2>3 DEF StrTypeOK
  <2> QED  BY <2>3, <2>4, <2>5 DEF StrIInv
<1>3. ASSUME StrAt(r, "leased"), StartWorker(r, "cached"),
             UNCHANGED <<strLease, strInflight, strSubs, strOpen>>
      PROVE  StrIInv'
  <2>1. /\ strReq' \in [StrRequest -> StrRec] /\ strReq'[r].pc = "cached"
        /\ strReq'[r].session = strReq[r].session
        /\ \A d \in StrRequest \ {r} : strReq'[d] = strReq[d]
    BY <1>0, <1>3, StreamMoves DEF StartWorker, StrPc
  <2>2. SlotsCounted' /\ strFree' \in 0..StrSlots
    BY <1>3, <2>1, SlotTaken DEF HasSlot, StrAt, StartWorker
  <2>3. LeasesHeld' /\ TurnsKnown' /\ SubscribersKnown' /\ SessionsNamed'
    BY <1>3, <2>1, TablesKept DEF Leasing, StrAt
  <2>4. StrTypeOK'
    BY <1>0, <1>3, <2>1, <2>2 DEF StrTypeOK
  <2> QED  BY <2>2, <2>3, <2>4 DEF StrIInv
<1>4. ASSUME StrAt(r, "leased"), Refused(r), strLease' = [strLease EXCEPT ![Session(r)] = NoStr],
             UNCHANGED <<strInflight, strSubs, strOpen>>
      PROVE  StrIInv'
  <2>1. /\ strReq' \in [StrRequest -> StrRec] /\ strReq'[r].pc = "done"
        /\ strReq'[r].session = strReq[r].session
        /\ \A d \in StrRequest \ {r} : strReq'[d] = strReq[d]
    BY <1>0, <1>4, StreamMoves DEF Refused, StrOver, StrPc
  <2>2. SlotsCounted' /\ strFree' \in 0..StrSlots
    BY <1>4, <2>1, SlotKept DEF HasSlot, StrAt, Refused
  <2>3. LeasesHeld'
    <3> SUFFICES ASSUME NEW t \in StrSession, strLease'[t] # NoStr
                 PROVE  strReq'[strLease'[t]].pc \in Leasing /\ strReq'[strLease'[t]].session = t
      BY DEF LeasesHeld, Session
    <3>1. strLease'[t] = strLease[t] /\ strLease[t] \in StrRequest /\ t # Session(r)
      BY <1>0, <1>4
    <3>2. strReq[strLease[t]].pc \in Leasing /\ strReq[strLease[t]].session = t
      BY <3>1 DEF StrIInv, LeasesHeld, Session
    <3> QED  BY <2>1, <3>1, <3>2 DEF Session
  <2>4. TurnsKnown' /\ SubscribersKnown' /\ SessionsNamed'
    BY <1>4, <2>1 DEF StrIInv, TurnsKnown, SubscribersKnown, SessionsNamed, Session, StrAt
  <2>5. StrTypeOK'
    BY <1>0, <1>4, <2>1, <2>2 DEF StrTypeOK
  <2> QED  BY <2>2, <2>3, <2>4, <2>5 DEF StrIInv
<1>5. CASE LookUpResult(r)
  <2>1. PICK pc \in {"begin", "final"} : StrGoto(r, pc)
    BY <1>5 DEF LookUpResult
  <2>2. /\ strReq' \in [StrRequest -> StrRec] /\ strReq'[r].pc = pc
        /\ strReq'[r].session = strReq[r].session
        /\ \A d \in StrRequest \ {r} : strReq'[d] = strReq[d]
    BY <1>0, <2>1, StreamMoves DEF StrGoto, StrPc
  <2>3. strReq[r].pc = "cached" /\ UNCHANGED <<strFree, strLease, strInflight, strSubs, strOpen>>
    BY <1>5 DEF LookUpResult, StrAt
  <2>4. SlotsCounted' /\ strFree' \in 0..StrSlots
    BY <2>2, <2>3, SlotKept DEF HasSlot
  <2>5. LeasesHeld' /\ TurnsKnown' /\ SubscribersKnown' /\ SessionsNamed'
    BY <2>2, <2>3, TablesKept DEF Leasing
  <2>6. StrTypeOK'
    BY <1>0, <2>2, <2>3, <2>4 DEF StrTypeOK
  <2> QED  BY <2>4, <2>5, <2>6 DEF StrIInv
<1>6. CASE Finally(r)
  <2>1. /\ strReq' \in [StrRequest -> StrRec] /\ strReq'[r].pc = "slot"
        /\ strReq'[r].session = strReq[r].session
        /\ \A d \in StrRequest \ {r} : strReq'[d] = strReq[d]
    BY <1>0, <1>6, StreamMoves DEF Finally, StrPc
  <2>2. strReq[r].pc = "final" /\ UNCHANGED <<strFree, strInflight, strSubs, strOpen>>
    BY <1>6 DEF Finally, StrAt
  <2>3. SlotsCounted' /\ strFree' \in 0..StrSlots
    BY <2>1, <2>2, SlotKept DEF HasSlot
  <2>4. LeasesHeld'
    <3> SUFFICES ASSUME NEW t \in StrSession, strLease'[t] # NoStr
                 PROVE  strReq'[strLease'[t]].pc \in Leasing /\ strReq'[strLease'[t]].session = t
      BY DEF LeasesHeld, Session
    <3>1. strLease'[t] = strLease[t] /\ strLease[t] \in StrRequest /\ strLease[t] # r
      BY <1>0, <1>6 DEF Finally
    <3>2. strReq[strLease[t]].pc \in Leasing /\ strReq[strLease[t]].session = t
      BY <3>1 DEF StrIInv, LeasesHeld, Session
    <3> QED  BY <2>1, <3>1, <3>2
  <2>5. TurnsKnown' /\ SubscribersKnown' /\ SessionsNamed'
    BY <2>1, <2>2 DEF StrIInv, TurnsKnown, SubscribersKnown, SessionsNamed, Session
  <2>6. StrTypeOK'
    BY <1>0, <1>6, <2>1, <2>2, <2>3 DEF Finally, StrTypeOK
  <2> QED  BY <2>3, <2>4, <2>5, <2>6 DEF StrIInv
<1>7. CASE StartQuery(r)
  BY <1>3, <1>4, <1>7 DEF StartQuery
<1>8. ASSUME NEW s \in StrSession, StreamQuery(r, s) PROVE StrIInv'
  BY <1>1, <1>2, <1>8 DEF StreamQuery
<1> QED  BY <1>5, <1>6, <1>7, <1>8

\* A turn in the hub, and the slot given back.
LEMMA HubStep ==
  ASSUME StrIInv, NEW r \in StrRequest,
         \/ BeginTurn(r) \/ HubNotify(r) \/ ReleaseSlot(r)
         \/ \E closed \in BOOLEAN : HubEnd(r, closed)
  PROVE  StrIInv'
PROOF
<1> USE StrAssumption
<1>0. /\ StrTypeOK /\ strReq \in [StrRequest -> StrRec] /\ strReq[r] \in StrRec
      /\ strSubs \in [StrSession -> SUBSET StrRequest]
      /\ strReq[r].pc \notin {"idle", "done"} => Session(r) \in StrSession
  BY DEF StrIInv, StrTypeOK, SessionsNamed
<1>1. CASE BeginTurn(r)
  <2>1. /\ strReq' \in [StrRequest -> StrRec] /\ strReq'[r].pc = "turn"
        /\ strReq'[r].session = strReq[r].session
        /\ \A d \in StrRequest \ {r} : strReq'[d] = strReq[d]
    BY <1>0, <1>1, StreamMoves DEF BeginTurn, StrGoto, StrPc
  <2>2. /\ strReq[r].pc = "begin" /\ Session(r) \in StrSession
        /\ strInflight' = strInflight \cup {Session(r)} /\ strOpen' = strOpen \cup {Session(r)}
        /\ UNCHANGED <<strFree, strLease, strSubs>>
    BY <1>0, <1>1 DEF BeginTurn, StrAt
  <2>3. SlotsCounted' /\ strFree' \in 0..StrSlots
    BY <2>1, <2>2, SlotKept DEF HasSlot
  <2>4. LeasesHeld'
    <3> SUFFICES ASSUME NEW t \in StrSession, strLease[t] # NoStr
                 PROVE  strReq'[strLease[t]].pc \in Leasing /\ strReq'[strLease[t]].session = t
      BY <2>2 DEF LeasesHeld, Session
    <3>1. strLease[t] \in StrRequest
      BY <1>0 DEF StrTypeOK
    <3>2. strReq[strLease[t]].pc \in Leasing /\ strReq[strLease[t]].session = t
      BY DEF StrIInv, LeasesHeld, Session
    <3> QED  BY <2>1, <3>1, <3>2 DEF Leasing
  <2>5. TurnsKnown' /\ SubscribersKnown' /\ SessionsNamed'
    <3>1. TurnsKnown'
      <4> SUFFICES ASSUME NEW t \in strInflight \cup {Session(r)}
                   PROVE  \E d \in StrRequest : strReq'[d].pc = "turn" /\ strReq'[d].session = t
        BY <2>2 DEF TurnsKnown, Session
      <4>1. CASE t = Session(r)
        BY <2>1, <4>1 DEF Session
      <4>2. CASE t \in strInflight
        BY <2>1, <4>2 DEF StrIInv, TurnsKnown, Session
      <4> QED  BY <4>1, <4>2
    <3>2. SubscribersKnown' /\ SessionsNamed'
      BY <2>1, <2>2 DEF StrIInv, SubscribersKnown, SessionsNamed, Session
    <3> QED  BY <3>1, <3>2
  <2>6. StrTypeOK'
    BY <1>0, <2>1, <2>2, <2>3 DEF StrTypeOK
  <2> QED  BY <2>3, <2>4, <2>5, <2>6 DEF StrIInv
<1>2. ASSUME NEW closed \in BOOLEAN, HubEnd(r, closed) PROVE StrIInv'
  <2> DEFINE x == [strReq[r] EXCEPT !.pc = "notify", !.notify = strSubs[Session(r)]]
  <2>1. /\ strReq[r].pc = "turn" /\ Session(r) \in StrSession /\ UNCHANGED <<strFree, strLease>>
        /\ strInflight' = strInflight \ {Session(r)}
        /\ strSubs' = [strSubs EXCEPT ![Session(r)] = {}]
        /\ strOpen' = IF closed THEN strOpen \ {Session(r)} ELSE strOpen
    BY <1>0, <1>2 DEF HubEnd, StrAt
  <2>2. x \in StrRec /\ x.pc = "notify" /\ x.session = strReq[r].session
    <3>1. strSubs[Session(r)] \in SUBSET StrRequest
      BY <1>0, <2>1
    <3> QED  BY <1>0, <3>1 DEF StrRec, StrPc
  <2>3. strReq' = [strReq EXCEPT ![r] = x]
    BY <1>0, <1>2 DEF HubEnd
  <2> HIDE DEF x
  <2>4. /\ strReq' \in [StrRequest -> StrRec] /\ strReq'[r] = x
        /\ \A d \in StrRequest \ {r} : strReq'[d] = strReq[d]
    BY <1>0, <2>2, <2>3
  <2>5. SlotsCounted' /\ strFree' \in 0..StrSlots
    BY <2>1, <2>2, <2>4, SlotKept DEF HasSlot
  <2>6. LeasesHeld'
    <3> SUFFICES ASSUME NEW t \in StrSession, strLease[t] # NoStr
                 PROVE  strReq'[strLease[t]].pc \in Leasing /\ strReq'[strLease[t]].session = t
      BY <2>1 DEF LeasesHeld, Session
    <3>1. strLease[t] \in StrRequest
      BY <1>0 DEF StrTypeOK
    <3>2. strReq[strLease[t]].pc \in Leasing /\ strReq[strLease[t]].session = t
      BY DEF StrIInv, LeasesHeld, Session
    <3> QED  BY <2>2, <2>4, <3>1, <3>2 DEF Leasing
  <2>7. TurnsKnown'
    <3> SUFFICES ASSUME NEW t \in strInflight, t # Session(r)
                 PROVE  \E d \in StrRequest : strReq'[d].pc = "turn" /\ strReq'[d].session = t
      BY <2>1 DEF TurnsKnown, Session
    <3>1. PICK d \in StrRequest : strReq[d].pc = "turn" /\ Session(d) = t
      BY DEF StrIInv, TurnsKnown
    <3> QED  BY <2>4, <3>1 DEF Session
  <2>8. SubscribersKnown' /\ SessionsNamed'
    BY <1>0, <2>1, <2>2, <2>4 DEF StrIInv, SubscribersKnown, SessionsNamed, Session
  <2>9. StrTypeOK'
    BY <1>0, <2>1, <2>4, <2>5 DEF StrTypeOK
  <2> QED  BY <2>5, <2>6, <2>7, <2>8, <2>9 DEF StrIInv
<1>3. CASE HubNotify(r)
  <2>1. strReq[r].pc = "notify" /\ UNCHANGED <<strFree, strLease, strInflight, strSubs, strOpen>>
    BY <1>3 DEF HubNotify, StrAt
  <2>2. /\ [strReq[r] EXCEPT !.pc = "final", !.notify = {}] \in StrRec
        /\ \A d \in StrRequest : [strReq[d] EXCEPT !.told = TRUE] \in StrRec
    BY <1>0 DEF StrRec, StrPc
  <2>3. /\ strReq' \in [StrRequest -> StrRec]
        /\ strReq'[r].pc = "final" /\ strReq'[r].session = strReq[r].session
        /\ \A d \in StrRequest \ {r} :
             strReq'[d].pc = strReq[d].pc /\ strReq'[d].session = strReq[d].session
    BY <1>0, <1>3, <2>2 DEF HubNotify, StrRec
  <2>4. SlotsCounted' /\ strFree' \in 0..StrSlots
    BY <2>1, <2>3, SlotKept DEF HasSlot
  <2>5. LeasesHeld' /\ TurnsKnown' /\ SubscribersKnown' /\ SessionsNamed'
    BY <2>1, <2>3, TablesKept DEF Leasing
  <2>6. StrTypeOK'
    BY <1>0, <2>1, <2>3, <2>4 DEF StrTypeOK
  <2> QED  BY <2>4, <2>5, <2>6 DEF StrIInv
<1>4. CASE ReleaseSlot(r)
  <2>1. /\ strReq[r].pc = "slot" /\ strFree' = strFree + 1
        /\ UNCHANGED <<strLease, strInflight, strSubs, strOpen>>
    BY <1>4 DEF ReleaseSlot, StrAt
  <2>2. /\ strReq' \in [StrRequest -> StrRec] /\ strReq'[r].pc = "done"
        /\ strReq'[r].session = strReq[r].session
        /\ \A d \in StrRequest \ {r} : strReq'[d] = strReq[d]
    BY <1>0, <1>4, StreamMoves DEF ReleaseSlot, StrGoto, StrPc
  <2>3. SlotsCounted' /\ strFree' \in 0..StrSlots
    BY <2>1, <2>2, SlotGiven DEF HasSlot
  <2>4. LeasesHeld' /\ TurnsKnown' /\ SubscribersKnown' /\ SessionsNamed'
    BY <2>1, <2>2, TablesKept DEF Leasing
  <2>5. StrTypeOK'
    BY <1>0, <2>1, <2>2, <2>3 DEF StrTypeOK
  <2> QED  BY <2>3, <2>4, <2>5 DEF StrIInv
<1> QED  BY <1>1, <1>2, <1>3, <1>4

\* A resume: attached to the turn that runs, or with a run of its own.
LEMMA ResumeStep ==
  ASSUME StrIInv, NEW r \in StrRequest,
         \/ \E s \in StrSession : ResumeStream(r, s)
         \/ StartAttach(r) \/ ForwardEnd(r) \/ LookAtLog(r) \/ StartResume(r)
  PROVE  StrIInv'
PROOF
<1> USE StrAssumption
<1>0. /\ StrTypeOK /\ strReq \in [StrRequest -> StrRec] /\ strReq[r] \in StrRec
      /\ strSubs \in [StrSession -> SUBSET StrRequest]
  BY DEF StrIInv, StrTypeOK
<1>1. ASSUME NEW s \in StrSession, ResumeStream(r, s) PROVE StrIInv'
  <2>1. /\ strReq[r].pc = "idle" /\ UNCHANGED <<strFree, strLease, strInflight, strOpen>>
        /\ strSubs' = IF s \in strInflight THEN [strSubs EXCEPT ![s] = strSubs[s] \cup {r}] ELSE strSubs
    BY <1>1 DEF ResumeStream, StrArrives, StrAt
  <2>2. PICK pc \in {"subscribed", "look"} :
          strReq' = [strReq EXCEPT ![r].pc = pc, ![r].session = s]
    BY <1>1 DEF ResumeStream
  <2>3. /\ strReq' \in [StrRequest -> StrRec]
        /\ strReq'[r].pc = pc /\ strReq'[r].session = s
        /\ \A d \in StrRequest \ {r} : strReq'[d] = strReq[d]
    <3> DEFINE x == [strReq[r] EXCEPT !.pc = pc, !.session = s]
    <3>1. x \in StrRec /\ x.pc = pc /\ x.session = s
      BY <1>0 DEF StrRec, StrPc
    <3>2. strReq' = [strReq EXCEPT ![r] = x]
      BY <1>0, <2>2
    <3> HIDE DEF x
    <3> QED  BY <1>0, <3>1, <3>2
  <2>4. SlotsCounted' /\ strFree' \in 0..StrSlots
    BY <2>1, <2>3, SlotKept DEF HasSlot
  <2>5. LeasesHeld'
    <3> SUFFICES ASSUME NEW t \in StrSession, strLease[t] # NoStr
                 PROVE  strReq'[strLease[t]].pc \in Leasing /\ strReq'[strLease[t]].session = t
      BY <2>1 DEF LeasesHeld, Session
    <3>1. strLease[t] \in StrRequest
      BY <1>0 DEF StrTypeOK
    <3>2. strReq[strLease[t]].pc \in Leasing /\ strReq[strLease[t]].session = t
      BY DEF StrIInv, LeasesHeld, Session
    <3> QED  BY <2>1, <2>3, <3>1, <3>2 DEF Leasing
  <2>6. TurnsKnown'
    <3> SUFFICES ASSUME NEW t \in strInflight
                 PROVE  \E d \in StrRequest : strReq'[d].pc = "turn" /\ strReq'[d].session = t
      BY <2>1 DEF TurnsKnown, Session
    <3>1. PICK d \in StrRequest : strReq[d].pc = "turn" /\ Session(d) = t
      BY DEF StrIInv, TurnsKnown
    <3> QED  BY <2>1, <2>3, <3>1 DEF Session
  <2>7. SubscribersKnown' /\ SessionsNamed'
    BY <1>0, <2>1, <2>3 DEF StrIInv, SubscribersKnown, SessionsNamed, Session
  <2>8. StrTypeOK'
    BY <1>0, <2>1, <2>3, <2>4 DEF StrTypeOK
  <2> QED  BY <2>4, <2>5, <2>6, <2>7, <2>8 DEF StrIInv
<1>u. /\ \A s \in StrSession : Unsubscribed(r)[s] \subseteq strSubs[s]
      /\ Unsubscribed(r) \in [StrSession -> SUBSET StrRequest]
  BY <1>0 DEF Unsubscribed
<1> DEFINE To(pc) == /\ strReq' \in [StrRequest -> StrRec] /\ strReq'[r].pc = pc
                     /\ strReq'[r].session = strReq[r].session
                     /\ \A d \in StrRequest \ {r} : strReq'[d] = strReq[d]
<1>p. {"begin", "forward", "final", "done", "resume"} \subseteq StrPc
  BY DEF StrPc
<1>m. /\ \A pc \in StrPc : StrGoto(r, pc) \/ StartWorker(r, pc) => To(pc)
      /\ \A sse \in {"ended", "refused"} : StrOver(r, sse) => To("done")
      /\ Refused(r) => To("done")
  BY <1>0, <1>p, StreamMoves DEF StrGoto, StartWorker, StrOver, Refused
<1>2. ASSUME strReq[r].pc \in {"subscribed", "resume"}, strReq'[r].pc \in {"begin", "forward"},
             To(strReq'[r].pc), strFree > 0, strFree' = strFree - 1,
             UNCHANGED <<strLease, strInflight, strSubs, strOpen>>
      PROVE  StrIInv'
  <2>1. SlotsCounted' /\ strFree' \in 0..StrSlots
    BY <1>2, SlotTaken DEF HasSlot
  <2>2. LeasesHeld' /\ TurnsKnown' /\ SubscribersKnown' /\ SessionsNamed'
    BY <1>2, TablesKept DEF Leasing
  <2>3. StrTypeOK'
    BY <1>0, <1>2, <2>1 DEF StrTypeOK
  <2> QED  BY <2>1, <2>2, <2>3 DEF StrIInv
<1>3. ASSUME \/ strReq[r].pc \in {"look", "resume", "subscribed"} /\ strReq'[r].pc \in {"resume", "done"}
             \/ strReq[r].pc = "forward" /\ strReq'[r].pc = "final",
             To(strReq'[r].pc), UNCHANGED <<strFree, strLease, strInflight, strOpen>>,
             strSubs' = strSubs \/ strSubs' = Unsubscribed(r)
      PROVE  StrIInv'
  <2>1. SlotsCounted' /\ strFree' \in 0..StrSlots
    BY <1>3, SlotKept DEF HasSlot
  <2>2. LeasesHeld' /\ TurnsKnown' /\ SubscribersKnown' /\ SessionsNamed'
    BY <1>u, <1>3, TablesKept DEF Leasing
  <2>3. StrTypeOK'
    BY <1>0, <1>u, <1>3, <2>1 DEF StrTypeOK
  <2> QED  BY <2>1, <2>2, <2>3 DEF StrIInv
<1>4. CASE StartAttach(r)
  <2>1. strReq[r].pc = "subscribed" /\ UNCHANGED <<strLease, strInflight, strOpen>>
    BY <1>4 DEF StartAttach, StrAt
  <2>2. CASE StartWorker(r, "forward") /\ UNCHANGED strSubs
    BY <1>m, <1>p, <1>2, <2>1, <2>2 DEF StartWorker
  <2>3. CASE Refused(r) /\ strSubs' = IF strFree = 0 THEN Unsubscribed(r) ELSE strSubs
    BY <1>m, <1>3, <2>1, <2>3 DEF Refused
  <2> QED  BY <1>4, <2>2, <2>3 DEF StartAttach
<1>5. CASE ForwardEnd(r)
  BY <1>m, <1>p, <1>3, <1>5 DEF ForwardEnd, StrAt
<1>6. CASE LookAtLog(r)
  <2>1. To("resume") \/ To("done")
    BY <1>m, <1>p, <1>6 DEF LookAtLog
  <2> QED  BY <1>3, <1>6, <2>1 DEF LookAtLog, StrAt
<1>7. CASE StartResume(r)
  <2>1. strReq[r].pc = "resume" /\ UNCHANGED <<strLease, strInflight, strSubs, strOpen>>
    BY <1>7 DEF StartResume, StrAt
  <2>2. CASE StartWorker(r, "begin")
    BY <1>m, <1>p, <1>2, <2>1, <2>2 DEF StartWorker
  <2>3. CASE Refused(r)
    BY <1>m, <1>3, <2>1, <2>3 DEF Refused
  <2> QED  BY <1>7, <2>2, <2>3 DEF StartResume
<1> QED  BY <1>1, <1>4, <1>5, <1>6, <1>7

LEMMA SlotsStep == StrIInv /\ [StrNext]_strVars => StrIInv'
PROOF
<1> SUFFICES ASSUME StrIInv, [StrNext]_strVars PROVE StrIInv'
  OBVIOUS
<1>1. CASE UNCHANGED strVars
  BY <1>1 DEF strVars, StrIInv, StrTypeOK, SlotsCounted, Holders, LeasesHeld, TurnsKnown,
              SubscribersKnown, SessionsNamed, Session
<1>2. CASE StrNext
  BY <1>2, QueryStep, HubStep, ResumeStep DEF StrNext, StrStep
<1> QED  BY <1>1, <1>2

\* What is held belongs to a request that is being served.
LEMMA SlotsReturn == StrIInv => NothingHeld
PROOF
<1>1. ASSUME StrIInv, \A r \in StrRequest : StrAt(r, "idle") \/ StrAt(r, "done")
      PROVE  /\ strFree = StrSlots /\ strInflight = {}
             /\ \A s \in StrSession : strLease[s] = NoStr /\ strSubs[s] = {}
  <2>1. Holders = {}
    BY <1>1 DEF Holders, HasSlot, StrAt
  <2>2. strFree = StrSlots
    BY <1>1, <2>1, FS_EmptySet, StrAssumption DEF StrIInv, StrTypeOK, SlotsCounted
  <2>3. strInflight = {}
    BY <1>1 DEF StrIInv, TurnsKnown, StrAt
  <2>4. \A s \in StrSession : strLease[s] = NoStr
    BY <1>1 DEF StrIInv, StrTypeOK, LeasesHeld, Leasing, StrAt
  <2>5. \A s \in StrSession : strSubs[s] = {}
    BY <1>1, <2>3 DEF StrIInv, SubscribersKnown
  <2> QED  BY <2>2, <2>3, <2>4, <2>5
<1> QED  BY <1>1 DEF NothingHeld

\* Whatever was refused, overlapped, interrupted or attached late: when no request is being
\* served, every slot is free, no session is leased, and the hub knows no turn and no
\* subscriber.
THEOREM NothingLeaks == StrSpec => []NothingHeld
BY InitSlots, SlotsStep, SlotsReturn, PTL DEF StrSpec

---------------------------------------------------------------------------
(* Calls of an MCP server *)

McpTyped ==
  /\ mcpLoop \in BOOLEAN
  /\ mcpQueue \in Seq(McpCall \cup {McpNone})
  /\ mcpServe \in [at : {"none", "open", "failed", "idle", "call", "end"}, call : McpCall \cup {McpNone}]
  /\ mcpJob \in [McpCall -> {"none", "sent", "put"}]
  /\ mcpCaller \in [McpCall -> {"idle", "wait", "ok", "error"}]
  /\ mcpRan \in [McpCall -> {0, 1}]

\* A thread that has not called has no coroutine on the loop.
IdleIsNew == \A c \in McpCall : mcpCaller[c] = "idle" => mcpJob[c] = "none"

\* What was sent was put into the queue before, and what is queued was not sent yet.
SentWasPut == \A c \in McpCall : mcpRan[c] = 1 => mcpJob[c] = "put"

QueuedOnce ==
  /\ \A i \in 1..Len(mcpQueue) : mcpQueue[i] \in McpCall =>
       mcpJob[mcpQueue[i]] = "put" /\ mcpRan[mcpQueue[i]] = 0
  /\ \A i, j \in 1..Len(mcpQueue) :
       mcpQueue[i] \in McpCall /\ mcpQueue[i] = mcpQueue[j] => i = j

\* The call at hand was sent, and so was every call with a result.
AnswersAreSent ==
  /\ mcpServe.at = "call" => mcpServe.call \in McpCall /\ mcpRan[mcpServe.call] = 1
  /\ \A c \in McpCall : mcpCaller[c] = "ok" => mcpRan[c] = 1

StoppedLoop == mcpMain = "down" => ~ mcpLoop

McpIInv == McpTyped /\ IdleIsNew /\ SentWasPut /\ QueuedOnce /\ AnswersAreSent /\ StoppedLoop

\* What one step may do to a call.
SendsOnce ==
  \A c \in McpCall :
    /\ mcpRan'[c] # mcpRan[c] => mcpRan[c] = 0 /\ mcpMain # "down"
    /\ mcpCaller'[c] = "ok" => mcpRan[c] = 1

\* Nothing was called yet.
LEMMA InitMcp == McpInit => McpIInv
<1> SUFFICES ASSUME McpInit PROVE McpIInv
  OBVIOUS
<1>1. mcpQueue \in Seq(McpCall \cup {McpNone}) /\ Len(mcpQueue) = 0
  BY DEF McpInit
<1>2. McpTyped
  BY <1>1 DEF McpInit, McpTyped
<1>3. QueuedOnce
  BY <1>1 DEF QueuedOnce
<1> QED BY <1>2, <1>3 DEF McpInit, McpIInv, IdleIsNew, SentWasPut, AnswersAreSent, StoppedLoop

\* A step of the main thread or of the session that leaves the calls alone.
LEMMA ControlStep ==
  ASSUME McpIInv, StartServer \/ SessionOpens \/ RegisterTools \/ StartFails \/ StopLoop
  PROVE  McpIInv' /\ SendsOnce
<1> USE DEF McpIInv, McpTyped, IdleIsNew, SentWasPut, QueuedOnce, AnswersAreSent, StoppedLoop, SendsOnce
<1>1. CASE StartServer
  BY <1>1 DEF StartServer, Serving
<1>2. CASE SessionOpens
  BY <1>2 DEF SessionOpens, Serving
<1>3. CASE RegisterTools
  BY <1>3 DEF RegisterTools
<1>4. CASE StartFails
  BY <1>4 DEF StartFails
<1>5. CASE StopLoop
  BY <1>5 DEF StopLoop
<1> QED BY <1>1, <1>2, <1>3, <1>4, <1>5

\* A step that empties the queue.
LEMMA EmptyQueueStep ==
  ASSUME McpIInv, CloseAll \/ SessionBreaks
  PROVE  McpIInv' /\ SendsOnce
<1> USE DEF McpIInv, McpTyped, IdleIsNew, SentWasPut, QueuedOnce, AnswersAreSent, StoppedLoop, SendsOnce
<1>1. CASE CloseAll
  BY <1>1 DEF CloseAll
<1>2. CASE SessionBreaks
  BY <1>2 DEF SessionBreaks, Serving, Answered
<1> QED BY <1>1, <1>2

\* The queue with one more job.
LEMMA AppendJob ==
  ASSUME NEW job \in McpCall \cup {McpNone}, NEW queue \in Seq(McpCall \cup {McpNone})
  PROVE  /\ Append(queue, job) \in Seq(McpCall \cup {McpNone})
         /\ Len(Append(queue, job)) = Len(queue) + 1
         /\ \A i \in 1..(Len(queue) + 1) :
              Append(queue, job)[i] = IF i = Len(queue) + 1 THEN job ELSE queue[i]
OBVIOUS

\* A step that puts a job into the queue: a call that was not there, or the end.
LEMMA AppendStep ==
  ASSUME McpIInv, StopServer \/ \E c \in McpCall : PutCall(c)
  PROVE  McpIInv' /\ SendsOnce
<1> USE DEF McpIInv, McpTyped, IdleIsNew, SentWasPut, QueuedOnce, AnswersAreSent, StoppedLoop, SendsOnce
<1>1. CASE StopServer
  <2>1. mcpQueue' = Append(mcpQueue, McpNone)
    BY <1>1 DEF StopServer
  <2>2. QueuedOnce'
    BY <1>1, <2>1, AppendJob, McpAssumption DEF StopServer
  <2> QED BY <1>1, <2>1, <2>2, AppendJob DEF StopServer
<1>2. ASSUME NEW c \in McpCall, PutCall(c)
      PROVE  McpIInv' /\ SendsOnce
  <2>1. mcpJob' = [mcpJob EXCEPT ![c] = "put"] /\ mcpRan[c] = 0
    BY <1>2 DEF PutCall
  <2>2. CASE mcpClosed
    BY <1>2, <2>1, <2>2 DEF PutCall, Answered
  <2>3. CASE ~ mcpClosed
    <3>1. mcpQueue' = Append(mcpQueue, c) /\ mcpRan' = mcpRan
      BY <1>2, <2>3 DEF PutCall
    <3>2. \A i \in 1..Len(mcpQueue) : mcpQueue[i] # c
      BY <1>2 DEF PutCall
    <3>3. QueuedOnce'
      BY <2>1, <3>1, <3>2, AppendJob
    <3> QED BY <1>2, <2>1, <2>3, <3>1, <3>3, AppendJob DEF PutCall
  <2> QED BY <2>2, <2>3
<1> QED BY <1>1, <1>2

\* A step of a calling thread.
LEMMA CallerStep ==
  ASSUME McpIInv, NEW c \in McpCall, SubmitCall(c) \/ GiveUp(c)
  PROVE  McpIInv' /\ SendsOnce
<1> USE DEF McpIInv, McpTyped, IdleIsNew, SentWasPut, QueuedOnce, AnswersAreSent, StoppedLoop, SendsOnce
<1>1. CASE SubmitCall(c)
  BY <1>1 DEF SubmitCall
<1>2. CASE GiveUp(c)
  BY <1>2 DEF GiveUp
<1> QED BY <1>1, <1>2

\* A step of _serve: the call it takes leaves the queue for good.
LEMMA ServeStep ==
  ASSUME McpIInv, TakeJob \/ EndCall
  PROVE  McpIInv' /\ SendsOnce
<1> USE DEF McpIInv, McpTyped, IdleIsNew, SentWasPut, QueuedOnce, AnswersAreSent, StoppedLoop, SendsOnce
<1>1. CASE TakeJob
  <2>1. /\ mcpQueue' = Tail(mcpQueue) /\ Len(mcpQueue) \in Nat \ {0}
        /\ Len(mcpQueue') = Len(mcpQueue) - 1
        /\ mcpQueue' \in Seq(McpCall \cup {McpNone})
        /\ \A i \in 1..Len(mcpQueue') : mcpQueue'[i] = mcpQueue[i + 1]
        /\ Head(mcpQueue) = mcpQueue[1] /\ Head(mcpQueue) \in McpCall \cup {McpNone}
    BY <1>1 DEF TakeJob
  <2>2. CASE Head(mcpQueue) = McpNone
    BY <1>1, <2>1, <2>2 DEF TakeJob, Serving
  <2>3. CASE Head(mcpQueue) # McpNone
    <3> DEFINE c == Head(mcpQueue)
    <3>1. c \in McpCall /\ mcpRan[c] = 0 /\ mcpJob[c] = "put"
      BY <2>1, <2>3
    <3>2. /\ mcpRan' = [mcpRan EXCEPT ![c] = 1] /\ mcpMain # "down"
          /\ mcpServe' = [at |-> "call", call |-> c]
          /\ UNCHANGED <<mcpMain, mcpLoop, mcpJob, mcpCaller>>
      BY <1>1, <2>3, <3>1 DEF TakeJob, Serving
    <3>3. \A i \in 1..Len(mcpQueue') : mcpQueue'[i] # c
      BY <2>1, <3>1
    <3>4. QueuedOnce'
      BY <2>1, <3>1, <3>2, <3>3
    <3> QED BY <2>1, <3>1, <3>2, <3>4
  <2> QED BY <2>2, <2>3
<1>2. CASE EndCall
  BY <1>2 DEF EndCall, Serving, Answered
<1> QED BY <1>1, <1>2

\* Every step keeps the invariant and sends a call at most once.
LEMMA McpStep ==
  ASSUME McpIInv, [McpNext]_mcpVars
  PROVE  McpIInv' /\ SendsOnce
<1>1. CASE McpNext
  BY <1>1, ControlStep, EmptyQueueStep, AppendStep, CallerStep, ServeStep DEF McpNext
<1>2. CASE UNCHANGED mcpVars
  BY <1>2 DEF mcpVars, McpIInv, McpTyped, IdleIsNew, SentWasPut, QueuedOnce, AnswersAreSent, StoppedLoop, SendsOnce
<1> QED BY <1>1, <1>2

\* Each call reaches the server at most once and never after stop() has returned, and a
\* result belongs to a call that was sent, for every set of calls, whatever times out
\* and whenever the session breaks (MCPClientManager.call, _serve, stop).
THEOREM CallsSentOnce == McpSpec => SentOnceBeforeStop
<1>1. McpInit => McpIInv
  BY InitMcp
<1>2. McpIInv /\ [McpNext]_mcpVars => McpIInv'
  BY McpStep
<1>3. McpIInv /\ [McpNext]_mcpVars => [SendsOnce]_mcpVars
  BY McpStep
<1>4. McpSpec => []McpIInv
  BY <1>1, <1>2, PTL DEF McpSpec
<1>5. McpSpec => [][SendsOnce]_mcpVars
  BY <1>3, <1>4, PTL DEF McpSpec
<1> QED BY <1>5 DEF SentOnceBeforeStop, SendsOnce

\* What McpIInv does not say of the types.
McpRest ==
  /\ mcpMain \in {"boot", "start", "up", "close", "down"} /\ mcpClosed \in BOOLEAN
  /\ mcpTools \in [known : BOOLEAN, state : {"none", "ready", "error"}]

LEMMA InitMcpRest == McpInit => McpRest
PROOF
<1> SUFFICES ASSUME McpInit PROVE McpRest
  OBVIOUS
<1>1. mcpMain = "boot" /\ mcpClosed = FALSE /\ mcpTools = [known |-> FALSE, state |-> "none"]
  BY DEF McpInit
<1>2. FALSE \in BOOLEAN /\ [known |-> FALSE, state |-> "none"] \in [known : BOOLEAN, state : {"none", "ready", "error"}]
  OBVIOUS
<1> QED  BY <1>1, <1>2 DEF McpRest

LEMMA McpRestStep == McpRest /\ [McpNext]_mcpVars => McpRest'
PROOF
<1> SUFFICES ASSUME McpRest, [McpNext]_mcpVars PROVE McpRest'
  OBVIOUS
<1>1. CASE StartServer \/ StopServer \/ StopLoop
  BY <1>1 DEF McpRest, StartServer, StopServer, StopLoop
<1>2. CASE RegisterTools
  BY <1>2 DEF McpRest, RegisterTools
<1>3. CASE StartFails
  BY <1>3 DEF McpRest, StartFails
<1>4. CASE CloseAll
  BY <1>4 DEF McpRest, CloseAll
<1>5. CASE SessionOpens \/ TakeJob \/ EndCall \/ SessionBreaks
  BY <1>5 DEF McpRest, SessionOpens, TakeJob, EndCall, SessionBreaks
<1>6. ASSUME NEW c \in McpCall, SubmitCall(c) \/ PutCall(c) \/ GiveUp(c) PROVE McpRest'
  BY <1>6 DEF McpRest, SubmitCall, PutCall, GiveUp
<1>7. CASE UNCHANGED mcpVars
  BY <1>7 DEF McpRest, mcpVars
<1> QED  BY <1>1, <1>2, <1>3, <1>4, <1>5, <1>6, <1>7 DEF McpNext

LEMMA McpTypes == McpIInv /\ McpRest => McpTypeOK
PROOF
<1> SUFFICES ASSUME McpIInv, McpRest PROVE McpTypeOK
  OBVIOUS
<1>1. mcpQueue \in Seq(McpCall \cup {McpNone})
  BY DEF McpIInv, McpTyped
<1>2. \A i \in DOMAIN mcpQueue : mcpQueue[i] \in McpCall \cup {McpNone}
  BY <1>1
<1>3. mcpRan \in [McpCall -> Nat]
  BY DEF McpIInv, McpTyped
<1> QED  BY <1>2, <1>3 DEF McpIInv, McpTyped, McpRest, McpTypeOK

\* The threads, the queue, the session and the calls have their types.
THEOREM McpClientTyped == McpSpec => []McpTypeOK
PROOF
<1>1. McpIInv /\ [McpNext]_mcpVars => McpIInv'
  BY McpStep
<1> QED  BY InitMcp, InitMcpRest, McpRestStep, McpTypes, <1>1, PTL DEF McpSpec
=============================================================================
