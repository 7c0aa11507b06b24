-------------------------- MODULE InlineSubagents --------------------------
(***************************************************************************)
(* The development backend (subagent_queue_backend = "inline"): submit      *)
(* schedules one coroutine per task on the event loop of the only API       *)
(* process, a semaphore lets WorkerCount of them run, and cancel sets the   *)
(* coroutine's flag in memory before it touches the record.  There are no   *)
(* workers, no leases and no retry.                                         *)
(***************************************************************************)
EXTENDS SubagentTasks

CONSTANT WorkerCount   \* settings.subagent_worker_count

ASSUME InlineAssumption ==
  /\ WorkerCount \in Nat \ {0}
  /\ Executor = Task      \* the coroutine of each task
  /\ IsFiniteSet(Api) /\ Cardinality(Api) = 1

VARIABLE closed           \* SubagentManager._closed

vars == <<taskVars, closed>>

InlineInit == Init /\ closed = FALSE

\* _cancellations holds a flag from scheduling until the done callback.
Registered(t) == exec[t].pc # "idle"

Submit(p) ==
  /\ \/ ~closed /\ \E t \in Task : SubmitCheck(p, t)
     \/ SubmitCreate(p)
  /\ UNCHANGED closed

\* subagent.started is appended and the coroutine scheduled.
Dispatch(t) ==
  /\ AnnounceStarted(t)
  /\ exec' = [exec EXCEPT ![t] = [IdleExec EXCEPT !.pc = "wait", !.task = t]]
  /\ UNCHANGED closed

\* Variant of Acquire in which waiting coroutines count as running.
Acquire_CountsWaiting(t) ==
  /\ exec[t].pc = "wait"
  /\ Cardinality({u \in Task : exec[u].pc # "idle"}) < WorkerCount
  /\ exec' = [exec EXCEPT ![t].pc = "prepare"]
  /\ UNCHANGED <<row, checking, unannounced, caller, announced, abandons, closed>>

\* The coroutine enters the semaphore.
Acquire(t) ==
  /\ exec[t].pc = "wait"
  /\ Cardinality({u \in Task : exec[u].pc \notin {"idle", "wait"}}) < WorkerCount
  /\ exec' = [exec EXCEPT ![t].pc = "prepare"]
  /\ UNCHANGED <<row, checking, unannounced, caller, announced, abandons, closed>>

Coroutine(t) == Acquire(t) \/ (GraphStep(t) /\ UNCHANGED closed)

\* cancel sets the flag between its first and its second read.
CancelSignal(c) ==
  LET t == caller[c].task IN
  /\ caller[c].pc = "signal"
  /\ caller' = [caller EXCEPT ![c].pc = "reread"]
  /\ exec' = IF Registered(t) THEN [exec EXCEPT ![t].cancel = TRUE] ELSE exec
  /\ UNCHANGED <<row, checking, unannounced, announced, abandons, closed>>

ContinueCancel(c) == CancelSignal(c) \/ (CancelStep(c) /\ UNCHANGED closed)

Cancel(c) ==
  \/ \E t \in Task : CancelRequest(c, t, "signal") /\ UNCHANGED closed
  \/ ContinueCancel(c)

\* shutdown closes the manager and sets every flag ...
Shutdown ==
  /\ ~closed
  /\ abandons < MaxAbandons
  /\ abandons' = abandons + 1
  /\ closed' = TRUE
  /\ exec' = [t \in Task |-> IF Registered(t) THEN [exec[t] EXCEPT !.cancel = TRUE]
                             ELSE exec[t]]
  /\ UNCHANGED <<row, checking, unannounced, caller, announced>>

\* ... and after two seconds the loop stops with whatever still runs; request
\* threads die with the process, and the next process starts with no flags.
StopLoop ==
  /\ closed
  /\ closed' = FALSE
  /\ checking' = [p \in Api |-> None]
  /\ unannounced' = {}
  /\ exec' = [t \in Task |-> IdleExec]
  /\ caller' = [c \in Caller |-> IF caller[c].pc = "idle" THEN caller[c]
                                 ELSE [caller[c] EXCEPT !.pc = "done"]]
  /\ UNCHANGED <<row, announced, abandons>>

Lose(t) == (LoseSubmit(t) \/ Abandon(t)) /\ UNCHANGED closed

Next ==
  \/ \E p \in Api : Submit(p)
  \/ \E t \in Task : Dispatch(t) \/ Coroutine(t) \/ Lose(t)
  \/ \E c \in Caller : Cancel(c)
  \/ Shutdown
  \/ StopLoop

Spec == InlineInit /\ [][Next]_vars

(* The event loop runs every scheduled coroutine, the semaphore admits in   *)
(* order, and request threads go on with what they started.                 *)
Fairness ==
  /\ \A t \in Task : WF_vars(Dispatch(t)) /\ SF_vars(Coroutine(t))
  /\ \A c \in Caller : WF_vars(ContinueCancel(c))
  /\ \A p \in Api : WF_vars(SubmitCreate(p) /\ UNCHANGED closed)

FairSpec == Spec /\ Fairness

---------------------------------------------------------------------------
(* Properties *)

Lifecycle == INSTANCE SubagentLifecycle WITH
  Outcome  <- AgentOutcome,
  Limit    <- ParallelLimit,
  Attempts <- MaxAttempts,
  status   <- [t \in Task |-> row[t].status],
  attempt  <- [t \in Task |-> IF row[t].status = "running" \/ "running" \in announced[t]
                              THEN 1 ELSE 0]

\* As long as nobody cancels, every step is a step of the documented status
\* machine or leaves the statuses alone, through shutdowns and failed calls.
FollowsLifecycle ==
  Lifecycle!Init /\ [][(Uncancelled)' => Lifecycle!Step]_vars

\* A flag set before the agent starts decides the task: whatever the call and
\* the coroutine write over each other, the task ends in cancelled or not at all.
EarlyCancelDecides ==
  \A t \in Task :
    [](exec[t].cancel /\ exec[t].pc \in {"wait", "prepare", "mark", "running", "route"}
         => [](row[t].status \notin Terminal \ {"cancelled"}))

\* Unless it is cancelled, or a crash or shutdown takes its coroutine away,
\* every submitted task ends for good.
EveryTaskSettles ==
  \A t \in Task :
    row[t].status # "absent" ~> ([]Settled(t) \/ ~Uncancelled \/ abandons > 0)

\* A requested cancel is concluded: docs/INTERNAL_ARCHITECTURE.md section 13,
\* "queued|running -> cancel_requested -> cancelled".
CancelConcludes ==
  \A t \in Task : row[t].status = "cancel_requested" ~> Settled(t)
============================================================================
