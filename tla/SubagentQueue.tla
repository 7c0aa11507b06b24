--------------------------- MODULE SubagentQueue ---------------------------
(***************************************************************************)
(* The production backend (subagent_queue_backend = "db"): submit only      *)
(* inserts a queued record, and worker processes claim records under a      *)
(* lease that a heartbeat thread renews (SubagentQueueWorker).              *)
(*                                                                         *)
(* A lease is "live" or "expired"; ExpireLease is the passing of            *)
(* subagent_lease_seconds without a renewal.  With Stalls = FALSE no         *)
(* process is delayed for as long as a lease (30 s; a renewal is due every  *)
(* 10 s) and no renewal fails: a lease expires only when nobody who holds a *)
(* copy of the task is still running.  With Stalls = TRUE a lease may       *)
(* expire at any time, and an error of the database may end the heartbeat.  *)
(***************************************************************************)
EXTENDS SubagentTasks

CONSTANT Stalls

ASSUME StallsAssumption == Stalls \in BOOLEAN

vars == taskVars

\* Variants of Recovered: no limit on attempts; the attempt counter reset.
Recovered_NoLimit(r) ==
  IF r.status = "cancel_requested" THEN Released(r, "cancelled")
  ELSE Released(r, "queued")

Recovered_Reset(r) ==
  IF r.status = "cancel_requested" THEN Released(r, "cancelled")
  ELSE IF r.attempt >= MaxAttempts THEN Released(r, "failed")
  ELSE [Released(r, "queued") EXCEPT !.attempt = 0]

\* The record requeue_expired_leases writes for an expired one.
Recovered(r) ==
  IF r.status = "cancel_requested" THEN Released(r, "cancelled")
  ELSE IF r.attempt >= MaxAttempts THEN Released(r, "failed")
  ELSE Released(r, "queued")

\* Variant of Expired that forgets records whose cancel was requested.
Expired_RunningOnly(r) == r.status = "running" /\ r.lease = "expired"

Expired(r) == r.status \in {"running", "cancel_requested"} /\ r.lease = "expired"

\* First call of the worker loop: every expired record is recovered in one
\* transaction.  No event is appended for a task it ends.
RequeueExpiredLeases(w) ==
  /\ exec[w].pc = "idle"
  /\ row' = [t \in Task |-> IF Expired(row[t]) THEN Recovered(row[t]) ELSE row[t]]
  /\ exec' = [exec EXCEPT ![w].pc = "claim"]
  /\ UNCHANGED <<checking, unannounced, caller, announced, abandons>>

\* Variant of Claim that also takes running records.
Claim_Running(w, t) ==
  /\ exec[w].pc = "claim"
  /\ row[t].status \in {"queued", "running"}
  /\ row[t].attempt < MaxAttempts
  /\ row' = [row EXCEPT ![t].status = "running", ![t].worker = w,
                        ![t].lease = "live", ![t].attempt = @ + 1]
  /\ exec' = [exec EXCEPT ![w] = [IdleExec EXCEPT !.pc = "load", !.task = t,
                                                  !.beat = "due"]]
  /\ UNCHANGED <<checking, unannounced, caller, announced, abandons>>

\* claim_next_task; the heartbeat thread starts.  SKIP LOCKED may pass over an
\* older record that another transaction holds, so any queued one is possible.
Claim(w, t) ==
  /\ exec[w].pc = "claim"
  /\ row[t].status = "queued"
  /\ row' = [row EXCEPT ![t].status = "running", ![t].worker = w,
                        ![t].lease = "live", ![t].attempt = @ + 1]
  /\ exec' = [exec EXCEPT ![w] = [IdleExec EXCEPT !.pc = "load", !.task = t,
                                                  !.beat = "due"]]
  /\ UNCHANGED <<checking, unannounced, caller, announced, abandons>>

ClaimNothing(w) ==
  /\ exec[w].pc = "claim"
  /\ \A t \in Task : row[t].status # "queued"
  /\ exec' = [exec EXCEPT ![w] = IdleExec]
  /\ UNCHANGED <<row, checking, unannounced, caller, announced, abandons>>

\* _process reads the record once more before it invokes the graph.
Load(w) ==
  /\ exec[w].pc = "load"
  /\ exec' = [exec EXCEPT
       ![w].cancel = @ \/ row[exec[w].task].status = "cancel_requested",
       ![w].pc = "prepare"]
  /\ UNCHANGED <<row, checking, unannounced, caller, announced, abandons>>

\* Variant of Heartbeat that stops without setting the flag.
Heartbeat_Silent(w) ==
  LET t == exec[w].task
      r == row[t]
  IN
  /\ exec[w].beat = "due"
  /\ \/ /\ r.worker # w
        /\ exec' = [exec EXCEPT ![w].beat = "off"]
        /\ UNCHANGED row
     \/ /\ r.worker = w
        /\ r.status \in {"running", "cancel_requested"}
        /\ row' = [row EXCEPT ![t].lease = "live"]
        /\ exec' = [exec EXCEPT
             ![w].cancel = @ \/ r.status = "cancel_requested"]
  /\ UNCHANGED <<checking, unannounced, caller, announced, abandons>>

\* One round of the heartbeat thread: renew_lease, then the flag.
Heartbeat(w) ==
  LET t == exec[w].task
      r == row[t]
  IN
  /\ exec[w].beat = "due"
  /\ \/ /\ r.worker # w
        /\ exec' = [exec EXCEPT ![w].cancel = TRUE, ![w].beat = "off"]
        /\ UNCHANGED row
     \/ /\ r.worker = w
        /\ r.status \in {"running", "cancel_requested"}
        /\ row' = [row EXCEPT ![t].lease = "live"]
        /\ exec' = [exec EXCEPT
             ![w].cancel = @ \/ r.status = "cancel_requested"]
  /\ UNCHANGED <<checking, unannounced, caller, announced, abandons>>

\* renew_lease raises: nothing in the thread catches it, so no heartbeat follows and the
\* flag is never set.
HeartbeatFails(w) ==
  /\ Stalls /\ exec[w].beat = "due"
  /\ abandons < MaxAbandons
  /\ abandons' = abandons + 1
  /\ exec' = [exec EXCEPT ![w].beat = "ended"]
  /\ UNCHANGED <<row, checking, unannounced, caller, announced>>

\* Somebody who read task t while its lease ran is still at work on it.
Attended(t) ==
  \/ \E w \in Executor : Executing(w, t) /\ row[t].worker = w
  \/ \E c \in Caller : MidCancel(c, t)

\* lease_expires_at passes.
ExpireLease(t) ==
  /\ row[t].lease = "live"
  /\ Stalls \/ ~Attended(t)
  /\ row' = [row EXCEPT ![t].lease = "expired"]
  /\ UNCHANGED <<checking, unannounced, exec, caller, announced, abandons>>

WorkerStep(w) ==
  \/ RequeueExpiredLeases(w)
  \/ \E t \in Task : Claim(w, t)
  \/ ClaimNothing(w)
  \/ Load(w)
  \/ GraphStep(w)

SubmitStep(p) == (\E t \in Task : SubmitCheck(p, t)) \/ SubmitCreate(p)

FinishSubmit(t) == AnnounceStarted(t) /\ UNCHANGED exec

Cancel(c) ==
  \/ \E t \in Task : CancelRequest(c, t, "reread")
  \/ CancelStep(c)

Next ==
  \/ \E p \in Api : SubmitStep(p)
  \/ \E t \in Task : FinishSubmit(t) \/ LoseSubmit(t) \/ ExpireLease(t)
  \/ \E w \in Executor : WorkerStep(w) \/ Heartbeat(w) \/ HeartbeatFails(w) \/ Abandon(w)
  \/ \E c \in Caller : Cancel(c)

Spec == Init /\ [][Next]_vars

(* Workers poll in a loop, heartbeats are due periodically, time passes, and *)
(* a request thread that started a cancel or a submit goes on.  Nobody is    *)
(* obliged to submit, to cancel or to crash.                                 *)
Fairness ==
  /\ \A w \in Executor : WF_vars(WorkerStep(w)) /\ WF_vars(Heartbeat(w))
  /\ \A t \in Task : WF_vars(ExpireLease(t)) /\ WF_vars(FinishSubmit(t))
  /\ \A c \in Caller : WF_vars(CancelStep(c))
  /\ \A p \in Api : WF_vars(SubmitCreate(p))

FairSpec == Spec /\ Fairness

(* Only heartbeats are due: an agent may run for ever.                       *)
BeatSpec == Spec /\ \A w \in Executor : WF_vars(Heartbeat(w))

---------------------------------------------------------------------------
(* Properties *)

Lifecycle == INSTANCE SubagentLifecycle WITH
  Outcome  <- AgentOutcome,
  Limit    <- ParallelLimit,
  Attempts <- MaxAttempts,
  status   <- [t \in Task |-> row[t].status],
  attempt  <- [t \in Task |-> row[t].attempt]

\* As long as nobody cancels, every step of the queue is a step of the
\* documented status machine or leaves statuses and attempts alone, through
\* crashes while heartbeats are on time: an ended task stays ended, a task goes back to
\* queued only from running and with an attempt left, and the parent never has
\* more than ParallelLimit active tasks.
FollowsLifecycle ==
  Lifecycle!Init /\ [][~Stalls /\ (Uncancelled)' => Lifecycle!Step]_vars

\* No task is claimed more often than subagent_max_attempts counts, and a
\* queued task always has an attempt left: requeue_expired_leases fails the
\* others whichever stale copy was written back before.
AttemptsBounded ==
  \A t \in Task :
    /\ row[t].attempt <= MaxAttempts
    /\ row[t].status = "queued" => row[t].attempt < MaxAttempts

\* Queued and ended tasks have no owner and no lease, and an owner always
\* comes with a lease: no write-back of a stale copy leaves half of the pair,
\* on which renew_lease and requeue_expired_leases both rely.
OwnedOnlyWhileActive ==
  \A t \in Task :
    /\ row[t].worker = None <=> row[t].lease = "none"
    /\ row[t].status \in {"absent", "queued"} \cup Terminal
         => row[t].worker = None

\* While heartbeats are on time, one task is never in the hands of two
\* workers, whatever cancels and crashes do: the child session has one writer.
SingleExecutor ==
  ~Stalls => \A t \in Task : \A v, w \in Executor :
               Executing(v, t) /\ Executing(w, t) => v = w

\* While heartbeats are on time, a task that is running or being cancelled has
\* a lease, so requeue_expired_leases, which skips records without one, can
\* recover it after any crash.
Recoverable ==
  ~Stalls => \A t \in Task :
               row[t].status \in {"running", "cancel_requested"}
                 => row[t].lease # "none"

\* While heartbeats are on time, no stale copy gives a task that is queued or
\* running an attempt back: the retry budget is used up by every claim.
AttemptsNotRewound ==
  [][~Stalls => \A t \in Task :
       row'[t].status \in {"queued", "running"}
         => row'[t].attempt >= row[t].attempt]_vars

\* An ended task is never in another status again: section 13 of
\* docs/INTERNAL_ARCHITECTURE.md has no arrow out of the final statuses.
EndedIsFinal ==
  [][\A t \in Task : Settled(t) => row'[t].status = row[t].status]_vars

\* While heartbeats are on time every submitted task ends for good, through
\* crashes of its workers and cancel calls at any point.
EveryTaskSettles ==
  \A t \in Task : row[t].status # "absent" ~> []Settled(t)

\* A worker whose task was given to another learns of it although its agent may
\* never return: its heartbeat sets the flag, unless the worker's own write took
\* the record back.  Only a worker whose heartbeat ended in an error of the database
\* is never told.
UsurpedWorkerIsTold ==
  \A w \in Executor : \A t \in Task :
    (Executing(w, t) /\ row[t].worker # w)
      ~> \/ exec[w].cancel \/ ~Executing(w, t) \/ row[t].worker = w
         \/ exec[w].beat = "ended"
============================================================================
