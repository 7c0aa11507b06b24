--------------------------- MODULE SubagentTasks ---------------------------
(***************************************************************************)
(* The sub-agent task record and the three parties that write it through   *)
(* PostgresRuntimeGovernanceStore, one transaction at a time:              *)
(*   - API processes that submit tasks for one parent session              *)
(*     (SubagentManager.submit),                                           *)
(*   - executors that drive a task through the prepare / agent / finalize  *)
(*     graph (LangGraphSubagent),                                          *)
(*   - request threads that cancel a task (SubagentManager.cancel).        *)
(*                                                                         *)
(* update_task replaces the whole record by task id with no check of what  *)
(* it replaces, so every party keeps the copy it read and later writes a   *)
(* record derived from it.  Each action below is one store transaction or  *)
(* one event append together with the local code around it.                *)
(*                                                                         *)
(* SubagentQueue (executors are worker processes that hold leases) and     *)
(* InlineSubagents (executors are coroutines of the API process) build     *)
(* their next-state relations from these actions.                          *)
(***************************************************************************)
EXTENDS Naturals, FiniteSets

CONSTANTS
  Task,           \* task ids, all delegated by one parent session
  Executor,       \* worker processes, or coroutines
  Caller,         \* cancel calls: each element cancels at most one task
  Api,            \* API processes, each with its own _submission_lock
  None,           \* no task, no worker
  AgentOutcome,   \* statuses an agent run may end with
  ParallelLimit,  \* settings.intent_routing_parallel_limit
  MaxAttempts,    \* settings.subagent_max_attempts
  MaxAbandons     \* bound on crashes, restarts and failed store calls

Terminal == {"completed", "failed", "cancelled", "timed_out",
             "waiting_approval", "budget_exceeded"}
Active   == {"queued", "running", "cancel_requested"}

ASSUME NoneAssumption == None \notin Task \cup Executor
ASSUME OutcomeAssumption == AgentOutcome \subseteq Terminal
ASSUME BoundsAssumption ==
  /\ ParallelLimit \in Nat \ {0}
  /\ MaxAttempts \in Nat \ {0}
  /\ MaxAbandons \in Nat

VARIABLES
  row,          \* the stored record of each task
  checking,     \* per API process: the task being created under its lock
  unannounced,  \* tasks created whose subagent.started is not yet appended
  exec,         \* per executor: where it is, its copy of the record, its flag
  caller,       \* per cancel call: where it is and the copy it read
  announced,    \* per task: the kinds of event its parent session holds
  abandons      \* crashes so far (bounds the model)

taskVars == <<row, checking, unannounced, exec, caller, announced, abandons>>

---------------------------------------------------------------------------
(* Records *)

Row == [status  : {"absent"} \cup Active \cup Terminal,
        worker  : Executor \cup {None},
        lease   : {"none", "live", "expired"},
        attempt : 0..MaxAttempts]

NoRow == [status |-> "absent", worker |-> None, lease |-> "none", attempt |-> 0]

QueuedRow == [NoRow EXCEPT !.status = "queued"]

\* Variant of Released that keeps the lease.
Released_KeepsLease(r, s) == [r EXCEPT !.status = s, !.worker = None]

\* A copy of r that ends the task in status s: nobody owns it any more.
Released(r, s) == [r EXCEPT !.status = s, !.worker = None, !.lease = "none"]

EventKind == {"started", "running", "cancel_requested"} \cup Terminal

Stage == {"idle", "claim", "load", "wait", "prepare", "mark", "running",
          "route", "agent", "save", "finish"}

ExecRecord == [pc : Stage, task : Task \cup {None}, rec : Row,
               cancel : BOOLEAN, beat : {"off", "due", "ended"}]

IdleExec == [pc |-> "idle", task |-> None, rec |-> NoRow,
             cancel |-> FALSE, beat |-> "off"]

CallStage == {"idle", "signal", "reread", "overwrite", "verify", "announce",
              "force", "done"}

CallRecord == [pc : CallStage, task : Task \cup {None}, snap : Row]

IdleCall == [pc |-> "idle", task |-> None, snap |-> NoRow]

TypeOK ==
  /\ row \in [Task -> Row]
  /\ checking \in [Api -> Task \cup {None}]
  /\ unannounced \subseteq Task
  /\ exec \in [Executor -> ExecRecord]
  /\ \A e \in Executor : exec[e].task = None => exec[e].pc \in {"idle", "claim"}
  /\ caller \in [Caller -> CallRecord]
  /\ \A c \in Caller : caller[c].task = None => caller[c].pc = "idle"
  /\ announced \in [Task -> SUBSET EventKind]
  /\ abandons \in 0..MaxAbandons

Init ==
  /\ row = [t \in Task |-> NoRow]
  /\ checking = [p \in Api |-> None]
  /\ unannounced = {}
  /\ exec = [e \in Executor |-> IdleExec]
  /\ caller = [c \in Caller |-> IdleCall]
  /\ announced = [t \in Task |-> {}]
  /\ abandons = 0

---------------------------------------------------------------------------
(* SubagentManager.submit *)

ActiveTasks == {t \in Task : row[t].status \in Active}

\* Variant of SubmitCheck that lets one task too many through.
SubmitCheck_OffByOne(p, t) ==
  /\ checking[p] = None
  /\ row[t].status = "absent"
  /\ \A q \in Api : checking[q] # t
  /\ Cardinality(ActiveTasks) <= ParallelLimit
  /\ checking' = [checking EXCEPT ![p] = t]
  /\ UNCHANGED <<row, unannounced, exec, caller, announced, abandons>>

\* Under the process's _submission_lock: the active tasks of the parent are
\* counted, then the rest of the request is resolved.  t is the fresh uuid.
SubmitCheck(p, t) ==
  /\ checking[p] = None
  /\ row[t].status = "absent"
  /\ \A q \in Api : checking[q] # t
  /\ Cardinality(ActiveTasks) < ParallelLimit
  /\ checking' = [checking EXCEPT ![p] = t]
  /\ UNCHANGED <<row, unannounced, exec, caller, announced, abandons>>

\* Still under the lock: create_task inserts the queued record.
SubmitCreate(p) ==
  /\ checking[p] # None
  /\ row' = [row EXCEPT ![checking[p]] = QueuedRow]
  /\ unannounced' = unannounced \cup {checking[p]}
  /\ checking' = [checking EXCEPT ![p] = None]
  /\ UNCHANGED <<exec, caller, announced, abandons>>

\* After the lock is released: subagent.started is appended.
AnnounceStarted(t) ==
  /\ t \in unannounced
  /\ unannounced' = unannounced \ {t}
  /\ announced' = [announced EXCEPT ![t] = @ \cup {"started"}]
  /\ UNCHANGED <<row, checking, caller, abandons>>

\* The API process dies, or the append fails, between the insert and the event.
LoseSubmit(t) ==
  /\ t \in unannounced
  /\ abandons < MaxAbandons
  /\ abandons' = abandons + 1
  /\ unannounced' = unannounced \ {t}
  /\ UNCHANGED <<row, checking, exec, caller, announced>>

---------------------------------------------------------------------------
(* LangGraphSubagent: prepare -> (agent) -> finalize *)

\* _prepare reads the stored record.  A terminal one is passed on unchanged
\* (skip_finalize); otherwise the copy to write is made, cancelling if the
\* flag is set or the record asks for it.
Prepare(e) ==
  LET r          == row[exec[e].task]
      cancelling == exec[e].cancel \/ r.status = "cancel_requested"
  IN
  /\ exec[e].pc = "prepare"
  /\ \/ /\ r.status \in Terminal
        /\ exec' = [exec EXCEPT ![e].rec = r, ![e].pc = "route"]
     \/ /\ r.status \notin Terminal
        /\ exec' = [exec EXCEPT
             ![e].rec    = [r EXCEPT !.status = IF cancelling
                                                THEN "cancel_requested"
                                                ELSE "running"],
             ![e].cancel = cancelling,
             ![e].pc     = "mark"]
  /\ UNCHANGED <<row, checking, unannounced, caller, announced, abandons>>

\* _prepare writes that copy over whatever the row holds by now.
Mark(e) ==
  /\ exec[e].pc = "mark"
  /\ row' = [row EXCEPT ![exec[e].task] = exec[e].rec]
  /\ exec' = [exec EXCEPT ![e].pc = IF exec[e].rec.status = "running"
                                    THEN "running" ELSE "route"]
  /\ UNCHANGED <<checking, unannounced, caller, announced, abandons>>

\* _prepare appends subagent.running.
AnnounceRunning(e) ==
  /\ exec[e].pc = "running"
  /\ announced' = [announced EXCEPT ![exec[e].task] = @ \cup {"running"}]
  /\ exec' = [exec EXCEPT ![e].pc = "route"]
  /\ UNCHANGED <<row, checking, unannounced, caller, abandons>>

\* skip_finalize: the graph passes a record that was terminal when read.
Skips(e) == exec[e].rec.status \in Terminal

\* _finalize: nothing is left to do for a skipped task; otherwise the copy that
\* _prepare made becomes the record to write.
Finalizing(e, s) ==
  IF Skips(e) THEN IdleExec
  ELSE [exec[e] EXCEPT !.rec = Released(exec[e].rec, s), !.pc = "save"]

\* _route_after_prepare looks at the flag only: a task that turned out to be
\* terminal still runs its agent when nobody set the flag.
RouteToAgent(e) ==
  /\ exec[e].pc = "route"
  /\ ~exec[e].cancel
  /\ exec' = [exec EXCEPT ![e].pc = "agent"]
  /\ UNCHANGED <<row, checking, unannounced, caller, announced, abandons>>

\* Variant of RouteToFinalize that takes a missing response for a failure.
RouteToFinalize_Failed(e) ==
  /\ exec[e].pc = "route"
  /\ exec[e].cancel
  /\ exec' = [exec EXCEPT ![e] = Finalizing(e, "failed")]
  /\ UNCHANGED <<row, checking, unannounced, caller, announced, abandons>>

\* _finalize without a response: the copy becomes cancelled.
RouteToFinalize(e) ==
  /\ exec[e].pc = "route"
  /\ exec[e].cancel
  /\ exec' = [exec EXCEPT ![e] = Finalizing(e, "cancelled")]
  /\ UNCHANGED <<row, checking, unannounced, caller, announced, abandons>>

\* _run_agent ends and _finalize maps the outcome; a raised exception and an
\* unknown status both give "failed", and the flag overrides any outcome.
AgentReturn(e, outcome) ==
  /\ exec[e].pc = "agent"
  /\ exec' = [exec EXCEPT ![e] =
                 Finalizing(e, IF exec[e].cancel THEN "cancelled" ELSE outcome)]
  /\ UNCHANGED <<row, checking, unannounced, caller, announced, abandons>>

\* _finalize writes the record it derived from the copy _prepare made.
Save(e) ==
  /\ exec[e].pc = "save"
  /\ row' = [row EXCEPT ![exec[e].task] = exec[e].rec]
  /\ exec' = [exec EXCEPT ![e].pc = "finish"]
  /\ UNCHANGED <<checking, unannounced, caller, announced, abandons>>

\* _finalize appends subagent.finished and the graph ends.
AnnounceFinished(e) ==
  /\ exec[e].pc = "finish"
  /\ announced' = [announced EXCEPT ![exec[e].task] =
                     @ \cup {exec[e].rec.status}]
  /\ exec' = [exec EXCEPT ![e] = IdleExec]
  /\ UNCHANGED <<row, checking, unannounced, caller, abandons>>

GraphStep(e) ==
  \/ Prepare(e) \/ Mark(e) \/ AnnounceRunning(e)
  \/ RouteToAgent(e) \/ RouteToFinalize(e)
  \/ \E outcome \in AgentOutcome : AgentReturn(e, outcome)
  \/ Save(e) \/ AnnounceFinished(e)

\* The executor dies and restarts, or a store call of the graph raises: what
\* it held in memory is gone and the record stays as it is.
Abandon(e) ==
  /\ exec[e].pc # "idle"
  /\ abandons < MaxAbandons
  /\ abandons' = abandons + 1
  /\ exec' = [exec EXCEPT ![e] = IdleExec]
  /\ UNCHANGED <<row, checking, unannounced, caller, announced>>

---------------------------------------------------------------------------
(* SubagentManager.cancel.  A call that finds the task terminal at its      *)
(* first read returns without a write and is not an action.                 *)

\* First read: the task is active; the request is announced unless another
\* call already was.  next is the backend's following stage.
CancelRequest(c, t, next) ==
  /\ caller[c].pc = "idle"
  /\ row[t].status \in Active
  /\ announced' = IF row[t].status = "cancel_requested" THEN announced
                  ELSE [announced EXCEPT ![t] = @ \cup {"cancel_requested"}]
  /\ caller' = [caller EXCEPT ![c] = [IdleCall EXCEPT !.pc = next, !.task = t]]
  /\ UNCHANGED <<row, checking, unannounced, exec, abandons>>

Return(c) == [caller EXCEPT ![c].pc = "done", ![c].snap = NoRow]

\* Variant of CancelReread that trusts the first read's status check.
CancelReread_Unchecked(c) ==
  LET latest == row[caller[c].task] IN
  /\ caller[c].pc = "reread"
  /\ caller' = [caller EXCEPT
                  ![c].snap = latest,
                  ![c].pc = IF latest.status = "queued"
                            THEN "overwrite" ELSE "force"]
  /\ UNCHANGED <<row, checking, unannounced, exec, announced, abandons>>

\* Second read: `latest`.
CancelReread(c) ==
  LET latest == row[caller[c].task] IN
  /\ caller[c].pc = "reread"
  /\ caller' = IF latest.status \in Terminal THEN Return(c)
               ELSE [caller EXCEPT
                       ![c].snap = latest,
                       ![c].pc = IF latest.status = "queued"
                                 THEN "overwrite" ELSE "force"]
  /\ UNCHANGED <<row, checking, unannounced, exec, announced, abandons>>

\* `latest` was queued: cancelled is written over whatever the row holds.
CancelOverwrite(c) ==
  /\ caller[c].pc = "overwrite"
  /\ row' = [row EXCEPT ![caller[c].task] = Released(caller[c].snap, "cancelled")]
  /\ caller' = [caller EXCEPT ![c].pc = "verify", ![c].snap = NoRow]
  /\ UNCHANGED <<checking, unannounced, exec, announced, abandons>>

\* Third read: `verified`.
CancelVerify(c) ==
  LET verified == row[caller[c].task] IN
  /\ caller[c].pc = "verify"
  /\ \/ /\ verified.status = "cancelled"
        /\ caller' = [caller EXCEPT ![c].pc = "announce"]
     \/ /\ verified.status \in Terminal \ {"cancelled"}
        /\ caller' = Return(c)
     \/ /\ verified.status \notin Terminal
        /\ caller' = [caller EXCEPT ![c].snap = verified, ![c].pc = "force"]
  /\ UNCHANGED <<row, checking, unannounced, exec, announced, abandons>>

\* subagent.finished(cancelled), and the call returns.
CancelAnnounce(c) ==
  /\ caller[c].pc = "announce"
  /\ announced' = [announced EXCEPT ![caller[c].task] = @ \cup {"cancelled"}]
  /\ caller' = Return(c)
  /\ UNCHANGED <<row, checking, unannounced, exec, abandons>>

\* Variant of CancelForce that also clears the owner and the lease.
CancelForce_Released(c) ==
  /\ caller[c].pc = "force"
  /\ row' = [row EXCEPT ![caller[c].task] =
               Released(caller[c].snap, "cancel_requested")]
  /\ caller' = Return(c)
  /\ UNCHANGED <<checking, unannounced, exec, announced, abandons>>

\* The last copy read is written back as cancel_requested.
CancelForce(c) ==
  /\ caller[c].pc = "force"
  /\ row' = [row EXCEPT ![caller[c].task] =
               [caller[c].snap EXCEPT !.status = "cancel_requested"]]
  /\ caller' = Return(c)
  /\ UNCHANGED <<checking, unannounced, exec, announced, abandons>>

CancelStep(c) ==
  \/ CancelReread(c) \/ CancelOverwrite(c) \/ CancelVerify(c)
  \/ CancelAnnounce(c) \/ CancelForce(c)

---------------------------------------------------------------------------
(* Vocabulary of the properties *)

Executing(e, t) == exec[e].task = t /\ exec[e].pc \notin {"idle", "claim"}

MidCancel(c, t) == caller[c].task = t /\ caller[c].pc \notin {"idle", "done"}

Settled(t) == row[t].status \in Terminal

\* Somebody holds a copy of task t that was active when it was read, and may
\* write a record derived from it.
StaleCopy(t) ==
  \/ \E e \in Executor :
       Executing(e, t) /\ (exec[e].rec.status \in Active \/ exec[e].pc = "save")
  \/ \E c \in Caller :
       MidCancel(c, t) /\ caller[c].snap.status \in Active

\* No cancel call was made so far.
Uncancelled == \A c \in Caller : caller[c].pc = "idle"

\* The record of an ended task is changed only by a party that read it while
\* it was active: claim, requeue and cancel calls that read it later do not.
EndedUnlessStale ==
  [][\A t \in Task : Settled(t) /\ ~StaleCopy(t) => row'[t] = row[t]]_taskVars
============================================================================
