------------------------------- MODULE McpClient -------------------------------
(***************************************************************************)
(* MCPClientManager and one MCP server: threads hand their calls to a task   *)
(* on an event loop of its own, which serves them one at a time over the    *)
(* session.  A caller gives up after a while, its call does not.  The        *)
(* session may break, and stop() waits for the task only so long before it  *)
(* stops the loop.                                                          *)
(***************************************************************************)
EXTENDS Naturals, Sequences

CONSTANTS
  McpCall,   \* calls of tools of the server
  McpNone    \* what stop() puts into the queue

ASSUME McpAssumption == McpNone \notin McpCall

VARIABLES
  mcpMain,    \* the thread that calls start() and stop()
  mcpLoop,    \* whether the event loop runs
  mcpServe,   \* _serve: where it is, and the call it has
  mcpQueue,   \* its queue
  mcpClosed,  \* whether _close_all has forgotten the queue
  mcpTools,   \* whether tools of the server are registered, and its status
  mcpJob,     \* the coroutine of each call
  mcpCaller,  \* the thread of each call
  mcpRan      \* history: how often each call was sent to the server

mcpVars == <<mcpMain, mcpLoop, mcpServe, mcpQueue, mcpClosed, mcpTools, mcpJob, mcpCaller, mcpRan>>

McpTypeOK ==
  /\ mcpMain \in {"boot", "start", "up", "close", "down"}
  /\ mcpLoop \in BOOLEAN /\ mcpClosed \in BOOLEAN
  /\ mcpServe \in [at : {"none", "open", "failed", "idle", "call", "end"}, call : McpCall \cup {McpNone}]
  /\ \A i \in DOMAIN mcpQueue : mcpQueue[i] \in McpCall \cup {McpNone}
  /\ mcpTools \in [known : BOOLEAN, state : {"none", "ready", "error"}]
  /\ mcpJob \in [McpCall -> {"none", "sent", "put"}]
  /\ mcpCaller \in [McpCall -> {"idle", "wait", "ok", "error"}]
  /\ mcpRan \in [McpCall -> Nat]

McpInit ==
  /\ mcpMain = "boot" /\ mcpLoop = FALSE
  /\ mcpServe = [at |-> "none", call |-> McpNone]
  /\ mcpQueue = <<>> /\ mcpClosed = FALSE
  /\ mcpTools = [known |-> FALSE, state |-> "none"]
  /\ mcpJob = [c \in McpCall |-> "none"]
  /\ mcpCaller = [c \in McpCall |-> "idle"]
  /\ mcpRan = [c \in McpCall |-> 0]

Serving(at, call) == mcpServe' = [at |-> at, call |-> call]

\* A future is set: its caller sees it, unless it has given up.
Answered(calls, answer) ==
  mcpCaller' = [c \in McpCall |-> IF c \in calls /\ mcpCaller[c] = "wait" THEN answer ELSE mcpCaller[c]]

---------------------------------------------------------------------------
(* start and stop *)

\* start: the loop runs and connects.
StartServer ==
  /\ mcpMain = "boot" /\ mcpMain' = "start"
  /\ mcpLoop' = TRUE
  /\ Serving("open", McpNone)
  /\ UNCHANGED <<mcpQueue, mcpClosed, mcpTools, mcpJob, mcpCaller, mcpRan>>

\* _serve: the session is open and its tools are listed.
SessionOpens ==
  /\ mcpLoop /\ mcpServe.at = "open"
  /\ Serving("idle", McpNone)
  /\ UNCHANGED <<mcpMain, mcpLoop, mcpQueue, mcpClosed, mcpTools, mcpJob, mcpCaller, mcpRan>>

\* _register_tools: a name that is taken stops it, and those before it stay registered.
RegisterTools ==
  /\ mcpMain = "start" /\ mcpServe.at \in {"idle", "call", "end"}
  /\ \E known \in BOOLEAN :
       \/ mcpTools' = [known |-> known, state |-> "ready"] /\ mcpMain' = "up"
       \/ mcpTools' = [known |-> known, state |-> "error"] /\ mcpMain' = "up"
  /\ UNCHANGED <<mcpLoop, mcpServe, mcpQueue, mcpClosed, mcpJob, mcpCaller, mcpRan>>

\* The server did not connect, or not in time: it goes on trying.
StartFails ==
  /\ mcpMain = "start" /\ mcpMain' = "up"
  /\ mcpTools' = [known |-> FALSE, state |-> "error"]
  /\ UNCHANGED <<mcpLoop, mcpServe, mcpQueue, mcpClosed, mcpJob, mcpCaller, mcpRan>>

\* stop, also after a start that failed (fail_on_startup_error).
StopServer ==
  /\ mcpMain = "up" /\ mcpMain' = "close"
  /\ mcpQueue' = Append(mcpQueue, McpNone)
  /\ UNCHANGED <<mcpLoop, mcpServe, mcpClosed, mcpTools, mcpJob, mcpCaller, mcpRan>>

\* _close_all has waited for the task.
CloseAll ==
  /\ mcpMain = "close" /\ mcpLoop /\ ~ mcpClosed /\ mcpServe.at \in {"failed", "end"}
  /\ mcpClosed' = TRUE /\ mcpQueue' = <<>>
  /\ UNCHANGED <<mcpMain, mcpLoop, mcpServe, mcpTools, mcpJob, mcpCaller, mcpRan>>

\* Variant of StopLoop that leaves the loop running when _close_all takes too long.
StopLoop_InTime ==
  /\ mcpMain = "close" /\ mcpMain' = "down"
  /\ mcpLoop' = ~ mcpClosed
  /\ UNCHANGED <<mcpServe, mcpQueue, mcpClosed, mcpTools, mcpJob, mcpCaller, mcpRan>>

\* The loop is stopped, after _close_all or when that takes longer than 10 seconds.
StopLoop ==
  /\ mcpMain = "close" /\ mcpMain' = "down"
  /\ mcpLoop' = FALSE
  /\ UNCHANGED <<mcpServe, mcpQueue, mcpClosed, mcpTools, mcpJob, mcpCaller, mcpRan>>

---------------------------------------------------------------------------
(* Calls *)

\* call: the coroutine is handed to the loop; there is none after stop().
SubmitCall(c) ==
  /\ mcpTools.known /\ mcpCaller[c] = "idle"
  /\ IF mcpMain = "down" THEN mcpCaller' = [mcpCaller EXCEPT ![c] = "error"] /\ UNCHANGED mcpJob
     ELSE mcpCaller' = [mcpCaller EXCEPT ![c] = "wait"] /\ mcpJob' = [mcpJob EXCEPT ![c] = "sent"]
  /\ UNCHANGED <<mcpMain, mcpLoop, mcpServe, mcpQueue, mcpClosed, mcpTools, mcpRan>>

\* _call, whether or not its caller still waits.
PutCall(c) ==
  /\ mcpLoop /\ mcpJob[c] = "sent"
  /\ mcpJob' = [mcpJob EXCEPT ![c] = "put"]
  /\ IF mcpClosed THEN Answered({c}, "error") /\ UNCHANGED mcpQueue
     ELSE mcpQueue' = Append(mcpQueue, c) /\ UNCHANGED mcpCaller
  /\ UNCHANGED <<mcpMain, mcpLoop, mcpServe, mcpClosed, mcpTools, mcpRan>>

\* future.result(timeout): the job stays where it is.
GiveUp(c) ==
  /\ mcpCaller[c] = "wait"
  /\ mcpCaller' = [mcpCaller EXCEPT ![c] = "error"]
  /\ UNCHANGED <<mcpMain, mcpLoop, mcpServe, mcpQueue, mcpClosed, mcpTools, mcpJob, mcpRan>>

---------------------------------------------------------------------------
(* _serve *)

\* The next job is sent to the server, or the task ends.
TakeJob ==
  /\ mcpLoop /\ mcpServe.at = "idle" /\ mcpQueue # <<>>
  /\ mcpQueue' = Tail(mcpQueue)
  /\ IF Head(mcpQueue) = McpNone THEN Serving("end", McpNone) /\ UNCHANGED mcpRan
     ELSE /\ Serving("call", Head(mcpQueue))
          /\ mcpRan' = [mcpRan EXCEPT ![Head(mcpQueue)] = @ + 1]
  /\ UNCHANGED <<mcpMain, mcpLoop, mcpClosed, mcpTools, mcpJob, mcpCaller>>

\* call_tool returns, raises or times out.
EndCall ==
  /\ mcpLoop /\ mcpServe.at = "call"
  /\ Serving("idle", McpNone)
  /\ \E answer \in {"ok", "error"} : Answered({mcpServe.call}, answer)
  /\ UNCHANGED <<mcpMain, mcpLoop, mcpQueue, mcpClosed, mcpTools, mcpJob, mcpRan>>

\* The session breaks, before it is open or later: what is queued gets the error, a call at
\* hand is left to its timeout, and nobody serves the calls that come later.
SessionBreaks ==
  /\ mcpLoop /\ mcpServe.at \in {"open", "idle", "call"}
  /\ Serving(IF mcpServe.at = "open" THEN "failed" ELSE "end", McpNone)
  /\ Answered({mcpQueue[i] : i \in DOMAIN mcpQueue}, "error")
  /\ mcpQueue' = <<>>
  /\ UNCHANGED <<mcpMain, mcpLoop, mcpClosed, mcpTools, mcpJob, mcpRan>>

McpNext ==
  \/ StartServer \/ SessionOpens \/ RegisterTools \/ StartFails
  \/ StopServer \/ CloseAll \/ StopLoop
  \/ \E c \in McpCall : SubmitCall(c) \/ PutCall(c) \/ GiveUp(c)
  \/ TakeJob \/ EndCall \/ SessionBreaks

McpSpec == McpInit /\ [][McpNext]_mcpVars

---------------------------------------------------------------------------
(* Properties *)

\* However callers give up, the session breaks and stop() runs out of time: a call reaches
\* the server at most once and never after stop() has returned, and a caller that gets a
\* result is one whose call was sent (_serve, _call, stop).
SentOnceBeforeStop ==
  [][\A c \in McpCall :
       /\ mcpRan'[c] # mcpRan[c] => mcpRan[c] = 0 /\ mcpMain # "down"
       /\ mcpCaller'[c] = "ok" => mcpRan[c] = 1]_mcpVars
=============================================================================
