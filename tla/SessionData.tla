----------------------------- MODULE SessionData -----------------------------
(***************************************************************************)
(* The full results of tools, which the ResultStore keeps and the log of    *)
(* the session refers to, while turns go on and sessions are deleted.       *)
(* There is one session of a user, and the session of a sub-agent that it   *)
(* delegates to.                                                            *)
(***************************************************************************)
EXTENDS Naturals, Sequences

CONSTANTS
  SdRefs,     \* bound on results of a session
  SdFaults    \* bound on crashes and failed calls

ASSUME SdAssumption == SdRefs \in Nat /\ SdFaults \in Nat

SdSession == {"parent", "child"}

VARIABLES
  sdLog,      \* agent_session_events
  sdResults,  \* agent_tool_results
  sdTurn,     \* the turn of each session
  sdTask,     \* the record of the sub-agent, which nothing deletes
  sdDelete,   \* what a request to delete the session has still to delete
  sdTainted,  \* history: sessions deleted during a turn, or not to the end
  sdFaults

sdVars == <<sdLog, sdResults, sdTurn, sdTask, sdDelete, sdTainted, sdFaults>>

SdLogRec == [here : BOOLEAN, refs : SUBSET (1..SdRefs)]
NoLog == [here |-> FALSE, refs |-> {}]
NoSdTurn == [pc |-> "none", made |-> 0]

SdTypeOK ==
  /\ sdLog \in [SdSession -> SdLogRec]
  /\ sdResults \in [SdSession -> SUBSET (1..SdRefs)]
  /\ sdTurn \in [SdSession -> [pc : {"none", "message", "run", "append"},
                               made : 0..SdRefs]]
  /\ sdTask \in {"none", "active", "ended"}
  /\ \A k \in 1..Len(sdDelete) : sdDelete[k] \in [part : {"events", "results"}, of : SdSession]
  /\ sdTainted \subseteq SdSession
  /\ sdFaults \in 0..SdFaults

SdInit ==
  /\ sdLog = [s \in SdSession |-> NoLog] /\ sdResults = [s \in SdSession |-> {}]
  /\ sdTurn = [s \in SdSession |-> NoSdTurn]
  /\ sdTask = "none" /\ sdDelete = <<>> /\ sdTainted = {} /\ sdFaults = 0

---------------------------------------------------------------------------
(* Turns *)

Deleting(s) == \E k \in 1..Len(sdDelete) : sdDelete[k].of = s

\* A query, or the task of the sub-agent.
StartSession(s) ==
  /\ sdTurn[s].pc = "none"
  /\ s = "child" => sdTask = "active"
  /\ sdTurn' = [sdTurn EXCEPT ![s].pc = "message"]
  /\ sdTainted' = IF Deleting(s) THEN sdTainted \cup {s} ELSE sdTainted
  /\ UNCHANGED <<sdLog, sdResults, sdTask, sdDelete, sdFaults>>

\* session.created and user.message
AddMessage(s) ==
  /\ sdTurn[s].pc = "message"
  /\ sdTurn' = [sdTurn EXCEPT ![s].pc = "run"]
  /\ sdLog' = [sdLog EXCEPT ![s].here = TRUE]
  /\ UNCHANGED <<sdResults, sdTask, sdDelete, sdTainted, sdFaults>>

PutResult(s, ref) == sdResults' = [sdResults EXCEPT ![s] = @ \cup {ref}]

\* A tool returns rows: materialize_tool_output stores them under a new reference ...
Materialize(s) ==
  /\ sdTurn[s].pc = "run" /\ sdTurn[s].made < SdRefs
  /\ LET ref == sdTurn[s].made + 1 IN
     /\ PutResult(s, ref)
     /\ sdTurn' = [sdTurn EXCEPT ![s].pc = "append", ![s].made = ref]
  /\ UNCHANGED <<sdLog, sdTask, sdDelete, sdTainted, sdFaults>>

\* ... and then tool.completed records it.
AppendResult(s) ==
  /\ sdTurn[s].pc = "append"
  /\ sdLog' = [sdLog EXCEPT ![s].here = TRUE, ![s].refs = @ \cup {sdTurn[s].made}]
  /\ sdTurn' = [sdTurn EXCEPT ![s].pc = "run"]
  /\ UNCHANGED <<sdResults, sdTask, sdDelete, sdTainted, sdFaults>>

DelegateOnce ==
  /\ sdTurn["parent"].pc = "run" /\ sdTask = "none"
  /\ sdTask' = "active"
  /\ UNCHANGED <<sdLog, sdResults, sdTurn, sdDelete, sdTainted, sdFaults>>

Stopped(s) == [sdTurn EXCEPT ![s] = [pc |-> "none", made |-> @.made]]

\* The turn completes, is interrupted or cancelled.
EndSession(s) ==
  /\ sdTurn[s].pc = "run" /\ sdTurn' = Stopped(s)
  /\ sdTask' = IF s = "child" THEN "ended" ELSE sdTask
  /\ UNCHANGED <<sdLog, sdResults, sdDelete, sdTainted, sdFaults>>

\* A store fails, or the process dies: a result may have no event.
BreakTurn(s) ==
  /\ sdTurn[s].pc # "none" /\ sdFaults < SdFaults
  /\ sdFaults' = sdFaults + 1 /\ sdTurn' = Stopped(s)
  /\ UNCHANGED <<sdLog, sdResults, sdTask, sdDelete, sdTainted>>

---------------------------------------------------------------------------
(* Deletion *)

\* Variant of Parts: the results go first.
Parts_ResultsFirst ==
  LET of(s) == <<[part |-> "results", of |-> s], [part |-> "events", of |-> s]>> IN
  of("parent") \o IF sdTask = "none" THEN <<>> ELSE of("child")

\* What delete_agent_session deletes, in its order: the session, and those of the tasks
\* it finds.
Parts ==
  LET of(s) == <<[part |-> "events", of |-> s], [part |-> "results", of |-> s]>> IN
  of("parent") \o IF sdTask = "none" THEN <<>> ELSE of("child")

\* The tasks are told to stop: a queued one may end at once, and one that runs goes on.
DeleteSession ==
  /\ sdDelete = <<>> /\ sdLog["parent"].here
  /\ sdDelete' = Parts
  /\ sdTainted' = sdTainted \cup {s \in SdSession : sdTurn[s].pc # "none"}
                            \cup (IF sdTask = "active" \/ sdTurn["parent"].pc # "none"
                                  THEN {"child"} ELSE {})
  /\ \/ UNCHANGED sdTask
     \/ sdTask = "active" /\ sdTurn["child"].pc = "none" /\ sdTask' = "ended"
  /\ UNCHANGED <<sdLog, sdResults, sdTurn, sdFaults>>

DeletePart ==
  /\ sdDelete # <<>>
  /\ LET next == Head(sdDelete) IN
     IF next.part = "events"
     THEN sdLog' = [sdLog EXCEPT ![next.of] = NoLog] /\ UNCHANGED sdResults
     ELSE sdResults' = [sdResults EXCEPT ![next.of] = {}] /\ UNCHANGED sdLog
  /\ sdDelete' = Tail(sdDelete)
  /\ UNCHANGED <<sdTurn, sdTask, sdTainted, sdFaults>>

\* A failed call or a crash.  The log is gone, so a second request finds no session.
BreakDelete ==
  /\ sdDelete # <<>> /\ sdFaults < SdFaults
  /\ sdFaults' = sdFaults + 1
  /\ sdTainted' = sdTainted \cup {s \in SdSession : Deleting(s)}
  /\ sdDelete' = <<>>
  /\ UNCHANGED <<sdLog, sdResults, sdTurn, sdTask>>

SdNext ==
  \/ \E s \in SdSession :
       \/ StartSession(s) \/ AddMessage(s) \/ Materialize(s) \/ AppendResult(s)
       \/ EndSession(s) \/ BreakTurn(s)
  \/ DelegateOnce \/ DeleteSession \/ DeletePart \/ BreakDelete

SdSpec == SdInit /\ [][SdNext]_sdVars

---------------------------------------------------------------------------
(* Properties *)

\* Unless a session is deleted while it runs, or not to the end, what its log refers to
\* can be read at any moment, and when its log is gone so are its results
\* (materialize_tool_output, delete_agent_session).
ResultsResolve ==
  \A s \in SdSession \ sdTainted :
    /\ sdLog[s].refs \subseteq sdResults[s]
    /\ ~ sdLog[s].here /\ sdTurn[s].pc = "none" /\ ~ Deleting(s) => sdResults[s] = {}
=============================================================================
