------------------------- MODULE SubagentLifecycle -------------------------
(***************************************************************************)
(* What the sub-agent queue promises for one parent session: the status     *)
(* machine of docs/INTERNAL_ARCHITECTURE.md section 13, with the bound on   *)
(* attempts that requeue_expired_leases enforces and the bound on active    *)
(* tasks that _enforce_parallel_limit enforces.  There are no workers, no   *)
(* leases and no copies of a record here; SubagentQueue and InlineSubagents *)
(* are compared with it.                                                    *)
(***************************************************************************)
EXTENDS Naturals, FiniteSets

CONSTANTS Task, Outcome, Limit, Attempts

VARIABLES status, attempt

Pending == {"queued", "running", "cancel_requested"}

Become(t, s) == status' = [status EXCEPT ![t] = s]

Init ==
  /\ status = [t \in Task |-> "absent"]
  /\ attempt = [t \in Task |-> 0]

Submit(t) ==
  /\ status[t] = "absent"
  /\ Cardinality({u \in Task : status[u] \in Pending}) < Limit
  /\ Become(t, "queued")
  /\ UNCHANGED attempt

Start(t) ==
  /\ status[t] = "queued"
  /\ attempt[t] < Attempts
  /\ Become(t, "running")
  /\ attempt' = [attempt EXCEPT ![t] = @ + 1]

Finish(t, s) ==
  /\ status[t] = "running"
  /\ Become(t, s)
  /\ UNCHANGED attempt

\* The leases of some running tasks end without a result.
LoseWorkers(lost) ==
  /\ \A t \in lost : status[t] = "running"
  /\ status' = [t \in Task |-> IF t \notin lost THEN status[t]
                              ELSE IF attempt[t] < Attempts THEN "queued"
                              ELSE "failed"]
  /\ UNCHANGED attempt

AskCancel(t) ==
  /\ status[t] \in {"queued", "running"}
  /\ Become(t, "cancel_requested")
  /\ UNCHANGED attempt

\* Directly from queued or running (docs/ENGINEERING_RULES.md, section 5), or
\* by way of cancel_requested.
ConcludeCancel(t) ==
  /\ status[t] \in Pending
  /\ Become(t, "cancelled")
  /\ UNCHANGED attempt

Next ==
  \/ \E t \in Task : \/ Submit(t) \/ Start(t) \/ AskCancel(t) \/ ConcludeCancel(t)
                     \/ \E s \in Outcome : Finish(t, s)
  \/ \E lost \in SUBSET Task : LoseWorkers(lost)

Step == Next \/ UNCHANGED <<status, attempt>>

Spec == Init /\ [][Next]_<<status, attempt>>
============================================================================
