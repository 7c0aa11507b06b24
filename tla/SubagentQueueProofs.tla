------------------------ MODULE SubagentQueueProofs ------------------------
(***************************************************************************)
(* Proofs about SubagentQueue for any number of tasks, workers, cancel      *)
(* calls and API processes: records keep their form and their attempts      *)
(* their bound, and, while heartbeats are on time, a task is in the hands   *)
(* of one worker and can be recovered from any crash (SingleExecutor and    *)
(* Recoverable).                                                            *)
(***************************************************************************)
EXTENDS SubagentQueue, FiniteSetTheorems, TLAPS

---------------------------------------------------------------------------
(* Well-formed records and copies *)

\* A record has an owner exactly when it has a lease.
Paired(r) == r.worker = None <=> r.lease = "none"

GoodRow(r) ==
  /\ r \in Row
  /\ Paired(r)
  /\ r.status = "queued" => r.attempt < MaxAttempts
  /\ r.status \notin {"running", "cancel_requested"} => r.worker = None

\* What _prepare is about to write is active, what _finalize is about to
\* write is released.
GoodExec(x) ==
  /\ x \in ExecRecord
  /\ x.task = None => x.pc \in {"idle", "claim"} /\ x.beat = "off"
  /\ Paired(x.rec)
  /\ x.pc = "mark" => x.rec.status \in {"running", "cancel_requested"}
  /\ x.pc \in {"save", "finish"} => x.rec.status \in Terminal /\ x.rec.worker = None

GoodCall(x) ==
  /\ x \in CallRecord
  /\ x.task = None => x.pc = "idle"
  /\ Paired(x.snap)

GoodRows  == row = [t \in Task |-> row[t]] /\ \A t \in Task : GoodRow(row[t])
GoodExecs == exec = [e \in Executor |-> exec[e]] /\ \A e \in Executor : GoodExec(exec[e])
GoodCalls == caller = [c \in Caller |-> caller[c]] /\ \A c \in Caller : GoodCall(caller[c])

GoodRest ==
  /\ checking \in [Api -> Task \cup {None}]
  /\ unannounced \subseteq Task
  /\ announced \in [Task -> SUBSET EventKind]
  /\ abandons \in 0..MaxAbandons

WellFormed == GoodRows /\ GoodExecs /\ GoodCalls /\ GoodRest

\* A function that is changed at one argument keeps a property of its values.
LEMMA RowsKept ==
  ASSUME GoodRows, NEW t \in Task, NEW r, GoodRow(r), row' = [row EXCEPT ![t] = r]
  PROVE  GoodRows'
BY DEF GoodRows

LEMMA ExecsKept ==
  ASSUME GoodExecs, NEW e \in Executor, NEW x, GoodExec(x),
         exec' = [exec EXCEPT ![e] = x]
  PROVE  GoodExecs'
BY DEF GoodExecs

LEMMA CallsKept ==
  ASSUME GoodCalls, NEW c \in Caller, NEW x, GoodCall(x),
         caller' = [caller EXCEPT ![c] = x]
  PROVE  GoodCalls'
BY DEF GoodCalls

LEMMA ReleasedGood ==
  ASSUME NEW r \in Row, NEW s \in Terminal \cup {"queued"},
         s = "queued" => r.attempt < MaxAttempts
  PROVE  /\ Released(r, s) \in Row
         /\ Released(r, s).status = s
         /\ Released(r, s).worker = None
         /\ GoodRow(Released(r, s))
BY NoneAssumption DEF Released, GoodRow, Paired, Row, Terminal, Active

LEMMA IdleGood == GoodExec(IdleExec)
BY NoneAssumption, BoundsAssumption
   DEF GoodExec, IdleExec, NoRow, ExecRecord, Row, Stage, Paired

LEMMA WellFormedStep == WellFormed /\ [Next]_vars => WellFormed'
<1> SUFFICES ASSUME WellFormed, [Next]_vars PROVE WellFormed'
  OBVIOUS
<1> USE DEF WellFormed
<1>u1. UNCHANGED row => GoodRows'
  BY DEF GoodRows
<1>u2. UNCHANGED exec => GoodExecs'
  BY DEF GoodExecs
<1>u3. UNCHANGED caller => GoodCalls'
  BY DEF GoodCalls
<1>u4. UNCHANGED <<checking, unannounced, announced, abandons>> => GoodRest'
  BY DEF GoodRest
<1>1. ASSUME NEW p \in Api, NEW t \in Task, SubmitCheck(p, t)
      PROVE  WellFormed'
  <2>1. GoodRest'
    BY <1>1 DEF SubmitCheck, GoodRest
  <2>2. QED
    BY <1>1, <1>u1, <1>u2, <1>u3, <2>1 DEF SubmitCheck
<1>2. ASSUME NEW p \in Api, SubmitCreate(p)
      PROVE  WellFormed'
  <2>1. GoodRow(QueuedRow)
    BY NoneAssumption, BoundsAssumption
       DEF GoodRow, QueuedRow, NoRow, Row, Active, Terminal, Paired
  <2>2. checking[p] \in Task /\ GoodRest'
    BY <1>2 DEF SubmitCreate, GoodRest
  <2>3. GoodRows'
    BY <1>2, <2>1, <2>2, RowsKept DEF SubmitCreate
  <2>4. QED
    BY <1>2, <1>u2, <1>u3, <2>2, <2>3 DEF SubmitCreate
<1>3. ASSUME NEW t \in Task, FinishSubmit(t)
      PROVE  WellFormed'
  <2>1. GoodRest'
    BY <1>3 DEF FinishSubmit, AnnounceStarted, GoodRest, EventKind
  <2>2. QED
    BY <1>3, <1>u1, <1>u2, <1>u3, <2>1 DEF FinishSubmit, AnnounceStarted
<1>4. ASSUME NEW t \in Task, LoseSubmit(t)
      PROVE  WellFormed'
  <2>1. GoodRest'
    BY <1>4, BoundsAssumption DEF LoseSubmit, GoodRest
  <2>2. QED
    BY <1>4, <1>u1, <1>u2, <1>u3, <2>1 DEF LoseSubmit
<1>5. ASSUME NEW t \in Task, ExpireLease(t)
      PROVE  WellFormed'
  <2>1. GoodRow([row[t] EXCEPT !.lease = "expired"])
    BY <1>5 DEF ExpireLease, GoodRows, GoodRow, Row, Paired
  <2>2. row' = [row EXCEPT ![t] = [row[t] EXCEPT !.lease = "expired"]]
    BY <1>5 DEF ExpireLease
  <2>3. GoodRows'
    BY <2>1, <2>2, RowsKept
  <2>4. QED
    BY <1>5, <1>u2, <1>u3, <1>u4, <2>3 DEF ExpireLease
<1>6. ASSUME NEW w \in Executor, RequeueExpiredLeases(w)
      PROVE  WellFormed'
  <2>1. \A t \in Task : GoodRow(Recovered(row[t]))
    <3> SUFFICES ASSUME NEW t \in Task PROVE GoodRow(Recovered(row[t]))
      OBVIOUS
    <3>1. row[t] \in Row
      BY DEF GoodRows, GoodRow
    <3>2. row[t].attempt \in 0..MaxAttempts
      BY <3>1 DEF Row
    <3>3. CASE row[t].status = "cancel_requested"
      BY <3>1, <3>3, ReleasedGood DEF Recovered, Terminal
    <3>4. CASE row[t].status # "cancel_requested" /\ row[t].attempt >= MaxAttempts
      BY <3>1, <3>4, ReleasedGood DEF Recovered, Terminal
    <3>5. CASE row[t].status # "cancel_requested" /\ ~(row[t].attempt >= MaxAttempts)
      <4>1. row[t].attempt < MaxAttempts
        BY <3>2, <3>5, BoundsAssumption
      <4>2. GoodRow(Released(row[t], "queued"))
        BY <3>1, <4>1, ReleasedGood
      <4>3. QED
        BY <3>5, <4>2 DEF Recovered
    <3>6. QED
      BY <3>3, <3>4, <3>5
  <2>2. GoodRows'
    BY <1>6, <2>1 DEF RequeueExpiredLeases, GoodRows
  <2>3. GoodExec([exec[w] EXCEPT !.pc = "claim"])
    BY <1>6 DEF RequeueExpiredLeases, GoodExecs, GoodExec, ExecRecord, Stage
  <2>4. GoodExecs'
    BY <1>6, <2>3, ExecsKept DEF RequeueExpiredLeases
  <2>5. QED
    BY <1>6, <1>u3, <1>u4, <2>2, <2>4 DEF RequeueExpiredLeases
<1>7. ASSUME NEW w \in Executor, NEW t \in Task, Claim(w, t)
      PROVE  WellFormed'
  <2> DEFINE claimed == [row[t] EXCEPT !.status = "running", !.worker = w,
                                       !.lease = "live", !.attempt = @ + 1]
             taken   == [IdleExec EXCEPT !.pc = "load", !.task = t, !.beat = "due"]
  <2>1. GoodRow(claimed)
    BY <1>7, NoneAssumption, BoundsAssumption
       DEF Claim, GoodRows, GoodRow, Row, Paired, Active
  <2>2. GoodExec(taken)
    BY IdleGood, NoneAssumption
       DEF GoodExec, IdleExec, NoRow, ExecRecord, Stage
  <2>3. GoodRows'
    BY <1>7, <2>1, RowsKept, ZenonT(40) DEF Claim
  <2>4. GoodExecs'
    BY <1>7, <2>2, ExecsKept DEF Claim
  <2>5. QED
    BY <1>7, <1>u3, <1>u4, <2>3, <2>4 DEF Claim
<1>8. ASSUME NEW w \in Executor, ClaimNothing(w)
      PROVE  WellFormed'
  <2>1. GoodExecs'
    BY <1>8, IdleGood, ExecsKept DEF ClaimNothing
  <2>2. QED
    BY <1>8, <1>u1, <1>u3, <1>u4, <2>1 DEF ClaimNothing
<1>9. ASSUME NEW w \in Executor, Load(w)
      PROVE  WellFormed'
  <2> DEFINE next == [exec[w] EXCEPT
                        !.cancel = @ \/ row[exec[w].task].status = "cancel_requested",
                        !.pc = "prepare"]
  <2>1. GoodExec(next)
    BY <1>9 DEF Load, GoodExecs, GoodExec, ExecRecord, Stage
  <2>2. GoodExecs'
    BY <1>9, <2>1, ExecsKept DEF Load
  <2>3. QED
    BY <1>9, <1>u1, <1>u3, <1>u4, <2>2 DEF Load
<1>10. ASSUME NEW w \in Executor, Prepare(w)
       PROVE  WellFormed'
  <2> DEFINE r == row[exec[w].task]
             cancelling == exec[w].cancel \/ r.status = "cancel_requested"
             copy == [r EXCEPT !.status = IF cancelling THEN "cancel_requested"
                                          ELSE "running"]
             passed == [exec[w] EXCEPT !.rec = r, !.pc = "route"]
             marked == [exec[w] EXCEPT !.rec = copy, !.cancel = cancelling,
                                       !.pc = "mark"]
  <2>1. exec[w].task \in Task /\ GoodExec(exec[w])
    BY <1>10 DEF Prepare, GoodExecs, GoodExec, ExecRecord
  <2>2. r \in Row /\ Paired(r)
    BY <2>1 DEF GoodRows, GoodRow
  <2>3. copy \in Row /\ Paired(copy) /\ copy.status \in {"running", "cancel_requested"}
    <3> HIDE DEF r, cancelling
    <3>1. CASE cancelling
      BY <2>2, <3>1 DEF Row, Paired, Active
    <3>2. CASE ~cancelling
      BY <2>2, <3>2 DEF Row, Paired, Active
    <3>3. QED
      BY <3>1, <3>2
  <2>4. GoodExec(passed)
    <3> DEFINE x == exec[w]
    <3>1. x \in ExecRecord /\ x.task \in Task
      BY <2>1 DEF GoodExec
    <3> HIDE DEF r, x
    <3>2. [x EXCEPT !.rec = r, !.pc = "route"] \in ExecRecord
      BY <2>2, <3>1 DEF ExecRecord, Stage
    <3>3. GoodExec([x EXCEPT !.rec = r, !.pc = "route"])
      BY <2>2, <3>1, <3>2, NoneAssumption DEF GoodExec, ExecRecord
    <3>4. QED
      BY <3>3 DEF x
  <2>5. GoodExec(marked)
    <3>1. cancelling \in BOOLEAN
      BY <2>1 DEF GoodExec, ExecRecord
    <3> DEFINE x == exec[w]
    <3>2. x \in ExecRecord /\ x.task \in Task
      BY <2>1 DEF GoodExec
    <3> HIDE DEF copy, cancelling, x
    <3>3. [x EXCEPT !.rec = copy, !.cancel = cancelling, !.pc = "mark"] \in ExecRecord
      BY <2>3, <3>1, <3>2 DEF ExecRecord, Stage
    <3>4. GoodExec([x EXCEPT !.rec = copy, !.cancel = cancelling, !.pc = "mark"])
      BY <2>3, <3>2, <3>3, NoneAssumption DEF GoodExec, ExecRecord
    <3>5. QED
      BY <3>4 DEF x
  <2>6. \/ exec' = [exec EXCEPT ![w] = passed]
        \/ exec' = [exec EXCEPT ![w] = marked]
    BY <1>10 DEF Prepare
  <2>7. GoodExecs'
    BY <2>4, <2>5, <2>6, ExecsKept
  <2>8. QED
    BY <1>10, <1>u1, <1>u3, <1>u4, <2>7 DEF Prepare
<1>11. ASSUME NEW w \in Executor, Mark(w)
       PROVE  WellFormed'
  <2> DEFINE next == [exec[w] EXCEPT !.pc = IF exec[w].rec.status = "running"
                                            THEN "running" ELSE "route"]
  <2>1. exec[w].task \in Task /\ GoodRow(exec[w].rec) /\ GoodExec(next)
    BY <1>11 DEF Mark, GoodExecs, GoodExec, GoodRow, ExecRecord, Stage
  <2>2. GoodRows'
    BY <1>11, <2>1, RowsKept DEF Mark
  <2>3. GoodExecs'
    BY <1>11, <2>1, ExecsKept DEF Mark
  <2>4. QED
    BY <1>11, <1>u3, <1>u4, <2>2, <2>3 DEF Mark
<1>12. ASSUME NEW w \in Executor, AnnounceRunning(w)
       PROVE  WellFormed'
  <2>1. GoodExec([exec[w] EXCEPT !.pc = "route"])
    BY <1>12 DEF AnnounceRunning, GoodExecs, GoodExec, ExecRecord, Stage
  <2>2. GoodExecs'
    BY <1>12, <2>1, ExecsKept DEF AnnounceRunning
  <2>3. GoodRest'
    BY <1>12 DEF AnnounceRunning, GoodRest, EventKind
  <2>4. QED
    BY <1>12, <1>u1, <1>u3, <2>2, <2>3 DEF AnnounceRunning
<1>13. ASSUME NEW w \in Executor, RouteToAgent(w)
       PROVE  WellFormed'
  <2>1. GoodExec([exec[w] EXCEPT !.pc = "agent"])
    BY <1>13 DEF RouteToAgent, GoodExecs, GoodExec, ExecRecord, Stage
  <2>2. GoodExecs'
    BY <1>13, <2>1, ExecsKept DEF RouteToAgent
  <2>3. QED
    BY <1>13, <1>u1, <1>u3, <1>u4, <2>2 DEF RouteToAgent
<1>f. ASSUME NEW w \in Executor, exec[w].pc \in {"route", "agent"}, NEW s \in Terminal
      PROVE  GoodExec([exec[w] EXCEPT !.rec = Released(exec[w].rec, s), !.pc = "save"])
  <2>1. GoodExec(exec[w]) /\ exec[w].rec \in Row
    BY DEF GoodExecs, GoodExec, ExecRecord
  <2>2. /\ Released(exec[w].rec, s) \in Row
        /\ Released(exec[w].rec, s).status = s
        /\ Released(exec[w].rec, s).worker = None
        /\ Paired(Released(exec[w].rec, s))
    BY <2>1, ReleasedGood DEF GoodRow, Terminal
  <2>3. QED
    BY <1>f, <2>1, <2>2 DEF GoodExec, ExecRecord, Stage
<1>14. ASSUME NEW w \in Executor, RouteToFinalize(w)
       PROVE  WellFormed'
  <2> DEFINE saved == [exec[w] EXCEPT !.rec = Released(exec[w].rec, "cancelled"), !.pc = "save"]
  <2>1. GoodExec(saved)
    BY <1>14, <1>f DEF RouteToFinalize, Terminal
  <2>2. exec' = [exec EXCEPT ![w] = IdleExec] \/ exec' = [exec EXCEPT ![w] = saved]
    BY <1>14 DEF RouteToFinalize, Finalizing
  <2> HIDE DEF saved
  <2>3. GoodExecs'
    BY <2>1, <2>2, IdleGood, ExecsKept
  <2>4. QED
    BY <1>14, <1>u1, <1>u3, <1>u4, <2>3 DEF RouteToFinalize
<1>15. ASSUME NEW w \in Executor, NEW outcome \in AgentOutcome,
              AgentReturn(w, outcome)
       PROVE  WellFormed'
  <2> DEFINE final == IF exec[w].cancel THEN "cancelled" ELSE outcome
             saved == [exec[w] EXCEPT !.rec = Released(exec[w].rec, final), !.pc = "save"]
  <2>1. final \in Terminal
    BY OutcomeAssumption DEF Terminal
  <2>2. exec' = [exec EXCEPT ![w] = IdleExec] \/ exec' = [exec EXCEPT ![w] = saved]
    BY <1>15 DEF AgentReturn, Finalizing
  <2>3. GoodExecs'
    <3> HIDE DEF final
    <3>1. GoodExec(saved)
      BY <1>15, <2>1, <1>f DEF AgentReturn
    <3> HIDE DEF saved
    <3>2. QED
      BY <2>2, <3>1, IdleGood, ExecsKept
  <2>4. QED
    BY <1>15, <1>u1, <1>u3, <1>u4, <2>3 DEF AgentReturn
<1>16. ASSUME NEW w \in Executor, Save(w)
       PROVE  WellFormed'
  <2>1. exec[w].task \in Task /\ GoodRow(exec[w].rec)
        /\ GoodExec([exec[w] EXCEPT !.pc = "finish"])
    BY <1>16 DEF Save, GoodExecs, GoodExec, GoodRow, ExecRecord, Stage, Terminal
  <2>2. GoodRows'
    BY <1>16, <2>1, RowsKept DEF Save
  <2>3. GoodExecs'
    BY <1>16, <2>1, ExecsKept DEF Save
  <2>4. QED
    BY <1>16, <1>u3, <1>u4, <2>2, <2>3 DEF Save
<1>17. ASSUME NEW w \in Executor, AnnounceFinished(w)
       PROVE  WellFormed'
  <2>1. exec[w].task \in Task /\ exec[w].rec.status \in Terminal
    BY <1>17 DEF AnnounceFinished, GoodExecs, GoodExec, ExecRecord
  <2>2. GoodExecs'
    BY <1>17, IdleGood, ExecsKept DEF AnnounceFinished
  <2>3. GoodRest'
    BY <1>17, <2>1 DEF AnnounceFinished, GoodRest, EventKind
  <2>4. QED
    BY <1>17, <1>u1, <1>u3, <2>2, <2>3 DEF AnnounceFinished
<1>18. ASSUME NEW w \in Executor, Heartbeat(w)
       PROVE  WellFormed'
  <2> DEFINE t == exec[w].task
             flag == exec[w].cancel \/ row[t].status = "cancel_requested"
             told == [exec[w] EXCEPT !.cancel = TRUE, !.beat = "off"]
             next == [exec[w] EXCEPT !.cancel = flag]
             renewed == [row[t] EXCEPT !.lease = "live"]
  <2>1. t \in Task /\ GoodExec(exec[w]) /\ flag \in BOOLEAN
    BY <1>18 DEF Heartbeat, GoodExecs, GoodExec, ExecRecord
  <2>2. GoodExec(told) /\ GoodExec(next)
    <3> HIDE DEF flag
    <3>1. QED
      BY <2>1 DEF GoodExec, ExecRecord
  <2>3. CASE row[t].worker # w
    <3>1. exec' = [exec EXCEPT ![w] = told] /\ UNCHANGED row
      BY <1>18, <2>3 DEF Heartbeat
    <3>2. GoodExecs'
      BY <2>2, <3>1, ExecsKept
    <3>3. QED
      BY <1>18, <1>u1, <1>u3, <1>u4, <3>1, <3>2 DEF Heartbeat
  <2>4. CASE row[t].worker = w
    <3>1. row[t].status \in {"running", "cancel_requested"}
      BY <1>18, <2>4 DEF Heartbeat
    <3>2. row' = [row EXCEPT ![t] = renewed] /\ exec' = [exec EXCEPT ![w] = next]
      BY <1>18, <2>4 DEF Heartbeat
    <3>3. GoodRow(renewed)
      BY <2>1, <2>4, <3>1, NoneAssumption DEF GoodRows, GoodRow, Row, Paired
    <3>4. GoodRows' /\ GoodExecs'
      BY <2>1, <2>2, <3>2, <3>3, RowsKept, ExecsKept
    <3>5. QED
      BY <1>18, <1>u3, <1>u4, <3>4 DEF Heartbeat
  <2>5. QED
    BY <2>3, <2>4
<1>19. ASSUME NEW w \in Executor, Abandon(w)
       PROVE  WellFormed'
  <2>1. GoodExecs'
    BY <1>19, IdleGood, ExecsKept DEF Abandon
  <2>2. GoodRest'
    BY <1>19, BoundsAssumption DEF Abandon, GoodRest
  <2>3. QED
    BY <1>19, <1>u1, <1>u3, <2>1, <2>2 DEF Abandon
<1>20. ASSUME NEW c \in Caller, NEW t \in Task, CancelRequest(c, t, "reread")
       PROVE  WellFormed'
  <2>1. GoodCall([IdleCall EXCEPT !.pc = "reread", !.task = t])
    <3>1. NoRow \in Row /\ Paired(NoRow)
      BY BoundsAssumption DEF NoRow, Row, Paired
    <3>2. QED
      BY <3>1, NoneAssumption DEF GoodCall, IdleCall, CallRecord, CallStage
  <2>2. GoodCalls'
    BY <1>20, <2>1, CallsKept DEF CancelRequest
  <2>3. GoodRest'
    BY <1>20 DEF CancelRequest, GoodRest, EventKind
  <2>4. QED
    BY <1>20, <1>u1, <1>u2, <2>2, <2>3 DEF CancelRequest
<1>r. ASSUME NEW c \in Caller, caller[c].pc # "idle", caller' = Return(c)
      PROVE  GoodCalls'
  <2>1. GoodCall([caller[c] EXCEPT !.pc = "done", !.snap = NoRow])
    <3>1. NoRow \in Row /\ Paired(NoRow)
      BY BoundsAssumption DEF NoRow, Row, Paired
    <3>2. GoodCall(caller[c])
      BY DEF GoodCalls
    <3>3. QED
      BY <1>r, <3>1, <3>2 DEF GoodCall, CallRecord, CallStage
  <2>2. caller' = [caller EXCEPT ![c] = [caller[c] EXCEPT !.pc = "done", !.snap = NoRow]]
    BY <1>r DEF Return
  <2>3. QED
    BY <2>1, <2>2, CallsKept
<1>t. ASSUME NEW c \in Caller, caller[c].pc # "idle", NEW r, r \in Row, Paired(r),
             NEW pc \in CallStage,
             caller' = [caller EXCEPT ![c].snap = r, ![c].pc = pc]
      PROVE  GoodCalls'
  <2>1. GoodCall([caller[c] EXCEPT !.snap = r, !.pc = pc])
    BY <1>t DEF GoodCalls, GoodCall, CallRecord
  <2>2. caller' = [caller EXCEPT ![c] = [caller[c] EXCEPT !.snap = r, !.pc = pc]]
    BY <1>t
  <2>3. QED
    BY <2>1, <2>2, CallsKept
<1>s. ASSUME NEW c \in Caller, caller[c].pc # "idle"
      PROVE  /\ caller[c].task \in Task
             /\ row[caller[c].task] \in Row
             /\ Paired(row[caller[c].task])
             /\ caller[c].snap \in Row
             /\ Paired(caller[c].snap)
  BY <1>s DEF GoodCalls, GoodCall, CallRecord, GoodRows, GoodRow
<1>21. ASSUME NEW c \in Caller, CancelReread(c)
       PROVE  WellFormed'
  <2>1. GoodCalls'
    BY <1>21, <1>r, <1>s, <1>t DEF CancelReread, CallStage
  <2>2. QED
    BY <1>21, <1>u1, <1>u2, <1>u4, <2>1 DEF CancelReread
<1>22. ASSUME NEW c \in Caller, CancelOverwrite(c)
       PROVE  WellFormed'
  <2>1. caller[c].task \in Task /\ GoodRow(Released(caller[c].snap, "cancelled"))
    BY <1>22, <1>s, ReleasedGood DEF CancelOverwrite, Terminal
  <2>2. NoRow \in Row /\ Paired(NoRow)
    BY BoundsAssumption DEF NoRow, Row, Paired
  <2>3. caller' = [caller EXCEPT ![c].snap = NoRow, ![c].pc = "verify"]
    BY <1>22 DEF CancelOverwrite
  <2>4. GoodRows' /\ GoodCalls'
    BY <1>22, <1>t, <2>1, <2>2, <2>3, RowsKept DEF CancelOverwrite, CallStage
  <2>5. QED
    BY <1>22, <1>u2, <1>u4, <2>4 DEF CancelOverwrite
<1>23. ASSUME NEW c \in Caller, CancelVerify(c)
       PROVE  WellFormed'
  <2>1. GoodCall([caller[c] EXCEPT !.pc = "announce"])
    BY <1>23 DEF CancelVerify, GoodCalls, GoodCall, CallRecord, CallStage
  <2>2. GoodCalls'
    BY <1>23, <1>r, <1>s, <1>t, <2>1, CallsKept DEF CancelVerify, CallStage
  <2>3. QED
    BY <1>23, <1>u1, <1>u2, <1>u4, <2>2 DEF CancelVerify
<1>24. ASSUME NEW c \in Caller, CancelAnnounce(c)
       PROVE  WellFormed'
  <2>1. GoodRest'
    BY <1>24 DEF CancelAnnounce, GoodRest, EventKind, Terminal
  <2>2. QED
    BY <1>24, <1>r, <1>u1, <1>u2, <2>1 DEF CancelAnnounce
<1>25. ASSUME NEW c \in Caller, CancelForce(c)
       PROVE  WellFormed'
  <2> DEFINE forced == [caller[c].snap EXCEPT !.status = "cancel_requested"]
  <2>1. caller[c].task \in Task /\ GoodRow(forced)
    BY <1>25, <1>s DEF CancelForce, GoodRow, Row, Active, Paired
  <2>2. GoodRows'
    BY <1>25, <2>1, RowsKept DEF CancelForce
  <2>3. QED
    BY <1>25, <1>r, <1>u2, <1>u4, <2>2 DEF CancelForce
<1>26. CASE UNCHANGED vars
  BY <1>26, <1>u1, <1>u2, <1>u3, <1>u4 DEF vars, taskVars
<1>h. ASSUME NEW w \in Executor, HeartbeatFails(w)
      PROVE  WellFormed'
  <2>1. GoodExec([exec[w] EXCEPT !.beat = "ended"])
    BY <1>h DEF HeartbeatFails, GoodExecs, GoodExec, ExecRecord
  <2>2. GoodExecs'
    BY <1>h, <2>1, ExecsKept DEF HeartbeatFails
  <2>3. GoodRest'
    BY <1>h, BoundsAssumption DEF HeartbeatFails, GoodRest
  <2>4. QED
    BY <1>h, <1>u1, <1>u3, <2>2, <2>3 DEF HeartbeatFails
<1>27. QED
  BY <1>1, <1>2, <1>3, <1>4, <1>5, <1>6, <1>7, <1>8, <1>9, <1>10, <1>11, <1>12,
     <1>13, <1>14, <1>15, <1>16, <1>17, <1>18, <1>19, <1>20, <1>21, <1>22,
     <1>23, <1>24, <1>25, <1>26, <1>h
     DEF Next, SubmitStep, WorkerStep, GraphStep, Cancel, CancelStep

LEMMA InitWellFormed == Init => WellFormed
<1> SUFFICES ASSUME Init PROVE WellFormed
  OBVIOUS
<1>1. GoodRow(NoRow)
  BY BoundsAssumption DEF GoodRow, NoRow, Row, Paired
<1>2. GoodCall(IdleCall)
  BY BoundsAssumption DEF GoodCall, IdleCall, NoRow, CallRecord, CallStage, Row, Paired
<1>3. GoodRows /\ GoodExecs /\ GoodCalls
  BY <1>1, <1>2, IdleGood DEF Init, GoodRows, GoodExecs, GoodCalls
<1>4. GoodRest
  BY BoundsAssumption DEF Init, GoodRest
<1>5. QED
  BY <1>3, <1>4 DEF WellFormed

\* The records and the copies of them are well formed in every state.
THEOREM WellFormedAlways == Spec => []WellFormed
  BY InitWellFormed, WellFormedStep, PTL DEF Spec

\* Type correctness of the queue (PostgresRuntimeGovernanceStore rows, worker
\* and cancel-call state) in every state.
THEOREM Typing == Spec => []TypeOK
<1>1. WellFormed => TypeOK
  <2> SUFFICES ASSUME WellFormed PROVE TypeOK
    OBVIOUS
  <2> USE DEF WellFormed
  <2>1. row \in [Task -> Row]
    BY DEF GoodRows, GoodRow
  <2>2. exec \in [Executor -> ExecRecord]
    BY DEF GoodExecs, GoodExec
  <2>3. \A e \in Executor : exec[e].task = None => exec[e].pc \in {"idle", "claim"}
    BY DEF GoodExecs, GoodExec
  <2>4. caller \in [Caller -> CallRecord]
    BY DEF GoodCalls, GoodCall
  <2>5. \A c \in Caller : caller[c].task = None => caller[c].pc = "idle"
    BY DEF GoodCalls, GoodCall
  <2>6. QED
    BY <2>1, <2>2, <2>3, <2>4, <2>5 DEF TypeOK, GoodRest
<1>2. QED
  BY <1>1, WellFormedAlways, PTL

\* claim_next_task and requeue_expired_leases keep every task within
\* subagent_max_attempts, whichever stale copies are written back and however
\* late heartbeats are.
THEOREM BoundedAttempts == Spec => []AttemptsBounded
<1>1. WellFormed => AttemptsBounded
  BY BoundsAssumption DEF WellFormed, GoodRows, GoodRow, Row, AttemptsBounded
<1>2. QED
  BY <1>1, WellFormedAlways, PTL

\* Every writer of a task record keeps owner and lease together and releases
\* both with a queued or final status, on time or not.
THEOREM OwnedWhileActive == Spec => []OwnedOnlyWhileActive
<1>1. WellFormed => OwnedOnlyWhileActive
  BY DEF WellFormed, GoodRows, GoodRow, Paired, OwnedOnlyWhileActive, Terminal
<1>2. QED
  BY <1>1, WellFormedAlways, PTL

---------------------------------------------------------------------------
(* What a step may write to a record *)

\* A writer of the record of task t: a submission, a worker with a copy, a cancel call
\* with a copy, a claim, a recovery, or the lease.
RowWrite(t) ==
  \/ row'[t] = row[t]
  \/ \E p \in Api : checking[p] = t /\ checking'[p] # t /\ row'[t] = QueuedRow
  \/ \E w \in Executor : /\ exec[w].task = t /\ exec[w].pc \in {"mark", "save"}
                         /\ exec'[w].pc # exec[w].pc /\ row'[t] = exec[w].rec
  \/ \E c \in Caller :
       /\ caller[c].task = t
       /\ \/ caller[c].pc = "overwrite" /\ row'[t] = Released(caller[c].snap, "cancelled")
          \/ /\ caller[c].pc = "force"
             /\ row'[t] = [caller[c].snap EXCEPT !.status = "cancel_requested"]
  \/ /\ row[t].status = "queued" /\ row'[t].status = "running"
     /\ row'[t].attempt = row[t].attempt + 1
  \/ Expired(row[t]) /\ row'[t] = Recovered(row[t])
  \/ row[t].lease # "none" /\ \E lease \in {"live", "expired"} : row'[t] = [row[t] EXCEPT !.lease = lease]

LEMMA RowWrites == WellFormed /\ [Next]_vars => \A t \in Task : RowWrite(t)
<1> SUFFICES ASSUME WellFormed, [Next]_vars, NEW t \in Task PROVE RowWrite(t)
  OBVIOUS
<1> USE DEF WellFormed
<1>u. row'[t] = row[t] => RowWrite(t)
  BY DEF RowWrite
<1>e. ASSUME NEW u \in Task, NEW r, row' = [row EXCEPT ![u] = r]
      PROVE  IF u = t THEN row'[t] = r ELSE RowWrite(t)
  BY <1>e, <1>u DEF GoodRows
<1>1. ASSUME NEW p \in Api, SubmitCreate(p) PROVE RowWrite(t)
  <2>1. checking[p] \in Task /\ checking'[p] = None /\ row' = [row EXCEPT ![checking[p]] = QueuedRow]
    BY <1>1 DEF SubmitCreate, GoodRest
  <2>2. CASE checking[p] = t
    <3>1. checking'[p] # t /\ row'[t] = QueuedRow
      BY <1>e, <2>1, <2>2, NoneAssumption
    <3> QED BY <2>2, <3>1 DEF RowWrite
  <2> QED BY <1>e, <2>1, <2>2
<1>2. ASSUME NEW u \in Task, ExpireLease(u) PROVE RowWrite(t)
  <2>1. row[u].lease = "live" /\ row' = [row EXCEPT ![u] = [row[u] EXCEPT !.lease = "expired"]]
    BY <1>2 DEF ExpireLease
  <2> QED BY <1>e, <2>1 DEF RowWrite
<1>3. ASSUME NEW w \in Executor, RequeueExpiredLeases(w) PROVE RowWrite(t)
  BY <1>3 DEF RequeueExpiredLeases, RowWrite
<1>4. ASSUME NEW w \in Executor, NEW u \in Task, Claim(w, u) PROVE RowWrite(t)
  <2> DEFINE r == [row[u] EXCEPT !.status = "running", !.worker = w, !.lease = "live",
                                 !.attempt = @ + 1]
  <2>1. row[u].status = "queued" /\ row' = [row EXCEPT ![u] = r]
    BY <1>4 DEF Claim
  <2>2. r.status = "running" /\ r.attempt = row[u].attempt + 1
    BY DEF GoodRows, GoodRow, Row
  <2> HIDE DEF r
  <2> QED BY <1>e, <2>1, <2>2 DEF RowWrite
<1>5. ASSUME NEW w \in Executor, Mark(w) \/ Save(w) PROVE RowWrite(t)
  <2>1. /\ exec[w].pc \in {"mark", "save"} /\ exec[w].task \in Task
        /\ row' = [row EXCEPT ![exec[w].task] = exec[w].rec]
    BY <1>5 DEF Mark, Save, GoodExecs, GoodExec, ExecRecord
  <2>2. exec'[w].pc # exec[w].pc
    BY <1>5 DEF Mark, Save, GoodExecs, GoodExec, ExecRecord
  <2> QED BY <1>e, <2>1, <2>2 DEF RowWrite
<1>6. ASSUME NEW w \in Executor, Heartbeat(w) PROVE RowWrite(t)
  <2>1. CASE UNCHANGED row
    BY <2>1, <1>u
  <2>2. CASE row[exec[w].task].worker = w /\ row' = [row EXCEPT ![exec[w].task].lease = "live"]
    <3>1. exec[w].task \in Task
      BY <1>6 DEF Heartbeat, GoodExecs, GoodExec, ExecRecord
    <3>2. row[exec[w].task].lease # "none"
      BY <2>2, <3>1, NoneAssumption DEF GoodRows, GoodRow, Paired
    <3>3. row' = [row EXCEPT ![exec[w].task] = [row[exec[w].task] EXCEPT !.lease = "live"]]
      BY <2>2
    <3> QED BY <1>e, <3>1, <3>2, <3>3 DEF RowWrite
  <2> QED BY <1>6, <2>1, <2>2 DEF Heartbeat
<1>7. ASSUME NEW c \in Caller, CancelOverwrite(c) \/ CancelForce(c) PROVE RowWrite(t)
  <2>1. caller[c].task \in Task /\ caller[c].pc \in {"overwrite", "force"}
    BY <1>7 DEF CancelOverwrite, CancelForce, GoodCalls, GoodCall, CallRecord
  <2>2. CASE CancelOverwrite(c)
    BY <1>e, <2>1, <2>2 DEF CancelOverwrite, RowWrite
  <2>3. CASE CancelForce(c)
    BY <1>e, <2>1, <2>3 DEF CancelForce, RowWrite
  <2> QED BY <1>7, <2>2, <2>3
<1>8. ASSUME NEW w \in Executor,
             ClaimNothing(w) \/ Load(w) \/ Prepare(w) \/ AnnounceRunning(w) \/ RouteToAgent(w)
               \/ RouteToFinalize(w) \/ (\E outcome \in AgentOutcome : AgentReturn(w, outcome))
               \/ AnnounceFinished(w) \/ HeartbeatFails(w) \/ Abandon(w)
      PROVE  row' = row
  BY <1>8 DEF ClaimNothing, Load, Prepare, AnnounceRunning, RouteToAgent, RouteToFinalize,
              AgentReturn, AnnounceFinished, HeartbeatFails, Abandon
<1>9. ASSUME NEW c \in Caller,
             \/ \E u \in Task : CancelRequest(c, u, "reread")
             \/ CancelReread(c) \/ CancelVerify(c) \/ CancelAnnounce(c)
      PROVE  row' = row
  BY <1>9 DEF CancelRequest, CancelReread, CancelVerify, CancelAnnounce
<1>10. ASSUME NEW u \in Task, FinishSubmit(u) \/ LoseSubmit(u) \/ \E p \in Api : SubmitCheck(p, u)
       PROVE  row' = row
  BY <1>10 DEF FinishSubmit, AnnounceStarted, LoseSubmit, SubmitCheck
<1>11. CASE UNCHANGED vars
  BY <1>11, <1>u DEF vars, taskVars
<1> QED
  BY <1>1, <1>2, <1>3, <1>4, <1>5, <1>6, <1>7, <1>8, <1>9, <1>10, <1>11, <1>u
     DEF Next, SubmitStep, WorkerStep, GraphStep, Cancel, CancelStep
---------------------------------------------------------------------------
(* Who holds a copy of what *)

\* The ids that submissions are about to insert are fresh and distinct.
Fresh ==
  \A p \in Api : \A t \in Task : checking[p] = t =>
    /\ row[t].status = "absent"
    /\ \A q \in Api : checking[q] = t => q = p

\* Workers and cancel calls work on tasks that were submitted.
Present ==
  \A t \in Task : row[t].status = "absent" =>
    /\ \A w \in Executor : ~Executing(w, t)
    /\ \A c \in Caller : ~MidCancel(c, t)

\* What a cancel call is about to write comes from an active record.
SnapsActive ==
  \A c \in Caller :
    caller[c].pc \in {"overwrite", "force"} => caller[c].snap.status \in Active

\* The same with and without stalls.
Genuine == WellFormed /\ Fresh /\ Present /\ SnapsActive

\* Who may start to work on a task, and with what.
CheckJoins ==
  \A p \in Api : \A t \in Task : checking'[p] = t =>
    \/ checking[p] = t
    \/ /\ row[t].status = "absent" /\ row' = row
       /\ Cardinality(ActiveTasks) < ParallelLimit
       /\ \A q \in Api : checking[q] # t /\ (checking'[q] = t => q = p)

ExecJoins ==
  \A w \in Executor : \A t \in Task :
    Executing(w, t)' => Executing(w, t) \/ row[t].status = "queued"

CallJoins ==
  \A c \in Caller :
    /\ \A t \in Task : MidCancel(c, t)' => MidCancel(c, t) \/ row[t].status \in Active
    /\ caller'[c].pc \in {"overwrite", "force"} =>
         \/ caller[c].pc \in {"overwrite", "force"} /\ caller'[c].snap = caller[c].snap
         \/ /\ caller'[c].task \in Task /\ MidCancel(c, caller'[c].task)
            /\ caller'[c].snap = row[caller'[c].task]
            /\ caller'[c].snap.status \notin Terminal

LEMMA ChecksJoin == WellFormed /\ [Next]_vars => CheckJoins
<1> SUFFICES ASSUME WellFormed, [Next]_vars PROVE CheckJoins
  OBVIOUS
<1> USE DEF WellFormed, GoodRest
<1>1. ASSUME NEW p \in Api, NEW t \in Task, SubmitCheck(p, t) PROVE CheckJoins
  BY <1>1 DEF SubmitCheck, CheckJoins
<1>2. ASSUME NEW p \in Api, SubmitCreate(p) PROVE CheckJoins
  <2>1. \A q \in Api : checking'[q] = IF q = p THEN None ELSE checking[q]
    BY <1>2 DEF SubmitCreate
  <2> QED BY <2>1, NoneAssumption DEF CheckJoins
<1>3. CASE checking' = checking
  BY <1>3 DEF CheckJoins
<1>4. CASE UNCHANGED vars
  BY <1>3, <1>4 DEF vars, taskVars
<1>5. ASSUME NEW t \in Task, FinishSubmit(t) \/ LoseSubmit(t) \/ ExpireLease(t)
      PROVE  checking' = checking
  BY <1>5 DEF FinishSubmit, AnnounceStarted, LoseSubmit, ExpireLease
<1>6. ASSUME NEW w \in Executor, WorkerStep(w) \/ Heartbeat(w) \/ HeartbeatFails(w) \/ Abandon(w)
      PROVE  checking' = checking
  BY <1>6 DEF WorkerStep, RequeueExpiredLeases, Claim, ClaimNothing, Load, GraphStep, Prepare, Mark,
     AnnounceRunning, RouteToAgent, RouteToFinalize, AgentReturn, Save, AnnounceFinished,
     Heartbeat, HeartbeatFails, Abandon
<1>7. ASSUME NEW c \in Caller, Cancel(c)
      PROVE  checking' = checking
  BY <1>7 DEF Cancel, CancelRequest, CancelStep, CancelReread, CancelOverwrite, CancelVerify,
     CancelAnnounce, CancelForce
<1> QED BY <1>1, <1>2, <1>3, <1>4, <1>5, <1>6, <1>7 DEF Next, SubmitStep

LEMMA ExecsJoin == WellFormed /\ [Next]_vars => ExecJoins
<1> SUFFICES ASSUME WellFormed, [Next]_vars PROVE ExecJoins
  OBVIOUS
<1> USE DEF WellFormed
<1>l. ASSUME NEW w \in Executor, NEW x, exec' = [exec EXCEPT ![w] = x],
             \/ x.pc \in {"idle", "claim"}
             \/ x.task = exec[w].task /\ exec[w].pc \notin {"idle", "claim"}
      PROVE  ExecJoins
  <2>1. exec'[w] = x /\ \A v \in Executor \ {w} : exec'[v] = exec[v]
    BY <1>l DEF GoodExecs
  <2> QED BY <1>l, <2>1 DEF ExecJoins, Executing
<1>1. CASE exec' = exec
  BY <1>1 DEF ExecJoins, Executing
<1>2. ASSUME NEW w \in Executor, RequeueExpiredLeases(w) PROVE ExecJoins
  <2>1. [exec[w] EXCEPT !.pc = "claim"].pc = "claim"
    BY DEF GoodExecs, GoodExec, ExecRecord
  <2>2. exec' = [exec EXCEPT ![w] = [exec[w] EXCEPT !.pc = "claim"]]
    BY <1>2 DEF RequeueExpiredLeases
  <2> QED BY <1>l, <2>1, <2>2
<1>3. ASSUME NEW w \in Executor, NEW t \in Task, Claim(w, t) PROVE ExecJoins
  <2>1. /\ exec'[w].task = t /\ row[t].status = "queued"
        /\ \A v \in Executor \ {w} : exec'[v] = exec[v]
    BY <1>3 DEF Claim, GoodExecs, IdleExec
  <2> QED BY <2>1 DEF ExecJoins, Executing
<1>4. ASSUME NEW w \in Executor,
             ClaimNothing(w) \/ AnnounceFinished(w) \/ Abandon(w)
      PROVE  ExecJoins
  BY <1>4, <1>l DEF ClaimNothing, AnnounceFinished, Abandon, IdleExec
<1>5. ASSUME NEW w \in Executor, Load(w) \/ Prepare(w) \/ Heartbeat(w) \/ HeartbeatFails(w)
                 \/ Mark(w) \/ AnnounceRunning(w) \/ RouteToAgent(w) \/ Save(w)
      PROVE  ExecJoins
  <2>1. \A v \in Executor \ {w} : exec'[v] = exec[v]
    BY <1>5 DEF Load, Prepare, Heartbeat, HeartbeatFails, Mark, AnnounceRunning, RouteToAgent,
                Save, GoodExecs
  <2>2. exec'[w].task = exec[w].task
    BY <1>5 DEF Load, Prepare, Heartbeat, HeartbeatFails, Mark, AnnounceRunning, RouteToAgent, Save,
                GoodExecs, GoodExec, ExecRecord
  <2>3. exec[w].pc \notin {"idle", "claim"} \/ exec'[w].pc = exec[w].pc
    BY <1>5 DEF Load, Prepare, Heartbeat, HeartbeatFails, Mark, AnnounceRunning, RouteToAgent, Save,
                GoodExecs, GoodExec, ExecRecord
  <2> QED BY <2>1, <2>2, <2>3 DEF ExecJoins, Executing
<1>6. ASSUME NEW w \in Executor,
             RouteToFinalize(w) \/ \E outcome \in AgentOutcome : AgentReturn(w, outcome)
      PROVE  ExecJoins
  <2>1. PICK s : exec' = [exec EXCEPT ![w] = Finalizing(w, s)] /\ exec[w].pc \in {"route", "agent"}
    BY <1>6 DEF RouteToFinalize, AgentReturn
  <2>2. Finalizing(w, s).pc = "idle" \/ Finalizing(w, s).task = exec[w].task
    BY DEF Finalizing, IdleExec, GoodExecs, GoodExec, ExecRecord
  <2> QED BY <1>l, <2>1, <2>2
<1>7. ASSUME NEW p \in Api, SubmitStep(p) PROVE exec' = exec
  BY <1>7 DEF SubmitStep, SubmitCheck, SubmitCreate
<1>8. ASSUME NEW t \in Task, FinishSubmit(t) \/ LoseSubmit(t) \/ ExpireLease(t) PROVE exec' = exec
  BY <1>8 DEF FinishSubmit, LoseSubmit, ExpireLease
<1>9. ASSUME NEW c \in Caller, Cancel(c) PROVE exec' = exec
  BY <1>9 DEF Cancel, CancelRequest, CancelStep, CancelReread, CancelOverwrite, CancelVerify,
     CancelAnnounce, CancelForce
<1>10. CASE UNCHANGED vars
  BY <1>1, <1>10 DEF vars, taskVars
<1> QED
  BY <1>1, <1>2, <1>3, <1>4, <1>5, <1>6, <1>7, <1>8, <1>9, <1>10
     DEF Next, WorkerStep, GraphStep

LEMMA CallsJoin == WellFormed /\ [Next]_vars => CallJoins
<1> SUFFICES ASSUME WellFormed, [Next]_vars PROVE CallJoins
  OBVIOUS
<1> USE DEF WellFormed
<1>1. CASE caller' = caller
  BY <1>1 DEF CallJoins, MidCancel
<1>l. ASSUME NEW c \in Caller, NEW x, caller' = [caller EXCEPT ![c] = x],
             x.task = caller[c].task, caller[c].pc \notin {"idle", "done"},
             x.pc \in {"overwrite", "force"} =>
               x.snap = row[x.task] /\ x.snap.status \notin Terminal
      PROVE  CallJoins
  <2>1. caller'[c] = x /\ \A d \in Caller \ {c} : caller'[d] = caller[d]
    BY <1>l DEF GoodCalls
  <2>2. caller[c].task \in Task
    BY <1>l DEF GoodCalls, GoodCall, CallRecord
  <2> QED BY <1>l, <2>1, <2>2 DEF CallJoins, MidCancel
<1>2. ASSUME NEW c \in Caller, NEW t \in Task, CancelRequest(c, t, "reread") PROVE CallJoins
  <2>1. /\ caller'[c].task = t /\ caller'[c].pc = "reread" /\ row[t].status \in Active
        /\ \A d \in Caller \ {c} : caller'[d] = caller[d]
    BY <1>2 DEF CancelRequest, GoodCalls, IdleCall
  <2> QED BY <2>1 DEF CallJoins, MidCancel
<1>r. ASSUME NEW c \in Caller, caller' = Return(c), caller[c].pc \notin {"idle", "done"}
      PROVE CallJoins
  <2> DEFINE x == [caller[c] EXCEPT !.pc = "done", !.snap = NoRow]
  <2>1. caller' = [caller EXCEPT ![c] = x]
    BY <1>r DEF Return
  <2>2. x.task = caller[c].task /\ x.pc = "done"
    BY DEF GoodCalls, GoodCall, CallRecord
  <2> HIDE DEF x
  <2> QED BY <1>l, <1>r, <2>1, <2>2
<1>s. ASSUME NEW c \in Caller, NEW r, NEW pc, caller' = [caller EXCEPT ![c].snap = r, ![c].pc = pc],
             caller[c].pc \notin {"idle", "done"},
             pc \in {"overwrite", "force"} =>
               r = row[caller[c].task] /\ r.status \notin Terminal
      PROVE CallJoins
  <2> DEFINE x == [caller[c] EXCEPT !.snap = r, !.pc = pc]
  <2>1. caller' = [caller EXCEPT ![c] = x]
    BY <1>s
  <2>2. x.task = caller[c].task /\ x.pc = pc /\ x.snap = r
    BY DEF GoodCalls, GoodCall, CallRecord
  <2> HIDE DEF x
  <2> QED BY <1>l, <1>s, <2>1, <2>2
<1>3. ASSUME NEW c \in Caller, CancelReread(c) PROVE CallJoins
  <2> DEFINE latest == row[caller[c].task]
             pc == IF latest.status = "queued" THEN "overwrite" ELSE "force"
  <2>1. CASE latest.status \in Terminal
    BY <1>3, <1>r, <2>1 DEF CancelReread
  <2>2. CASE latest.status \notin Terminal
    <3>1. caller[c].pc = "reread" /\ caller' = [caller EXCEPT ![c].snap = latest, ![c].pc = pc]
      BY <1>3, <2>2 DEF CancelReread
    <3> HIDE DEF pc
    <3> QED BY <1>s, <2>2, <3>1
  <2> QED BY <2>1, <2>2
<1>4. ASSUME NEW c \in Caller, CancelOverwrite(c) PROVE CallJoins
  <2> DEFINE x == [caller[c] EXCEPT !.pc = "verify", !.snap = NoRow]
  <2>1. caller' = [caller EXCEPT ![c] = x] /\ caller[c].pc = "overwrite"
    BY <1>4 DEF CancelOverwrite
  <2>2. x.task = caller[c].task /\ x.pc = "verify"
    BY DEF GoodCalls, GoodCall, CallRecord
  <2> HIDE DEF x
  <2> QED BY <1>l, <2>1, <2>2
<1>5. ASSUME NEW c \in Caller, CancelVerify(c) PROVE CallJoins
  <2> DEFINE verified == row[caller[c].task]
             x == [caller[c] EXCEPT !.pc = "announce"]
  <2>1. caller[c].pc = "verify" /\ x.pc = "announce" /\ x.task = caller[c].task
    BY <1>5 DEF CancelVerify, GoodCalls, GoodCall, CallRecord
  <2>2. \/ caller' = [caller EXCEPT ![c] = x]
        \/ caller' = Return(c)
        \/ /\ verified.status \notin Terminal
           /\ caller' = [caller EXCEPT ![c].snap = verified, ![c].pc = "force"]
    BY <1>5 DEF CancelVerify
  <2> HIDE DEF x
  <2> QED BY <1>l, <1>r, <1>s, <2>1, <2>2
<1>6. ASSUME NEW c \in Caller, CancelAnnounce(c) \/ CancelForce(c) PROVE CallJoins
  BY <1>6, <1>r DEF CancelAnnounce, CancelForce
<1>7. ASSUME NEW p \in Api, SubmitStep(p) PROVE caller' = caller
  BY <1>7 DEF SubmitStep, SubmitCheck, SubmitCreate
<1>8. ASSUME NEW t \in Task, FinishSubmit(t) \/ LoseSubmit(t) \/ ExpireLease(t)
      PROVE  caller' = caller
  BY <1>8 DEF FinishSubmit, AnnounceStarted, LoseSubmit, ExpireLease
<1>9. ASSUME NEW w \in Executor, WorkerStep(w) \/ Heartbeat(w) \/ HeartbeatFails(w) \/ Abandon(w)
      PROVE  caller' = caller
  BY <1>9 DEF WorkerStep, RequeueExpiredLeases, Claim, ClaimNothing, Load, GraphStep, Prepare, Mark,
     AnnounceRunning, RouteToAgent, RouteToFinalize, AgentReturn, Save, AnnounceFinished,
     Heartbeat, HeartbeatFails, Abandon
<1>10. CASE UNCHANGED vars
  BY <1>1, <1>10 DEF vars, taskVars
<1> QED
  BY <1>1, <1>2, <1>3, <1>4, <1>5, <1>6, <1>7, <1>8, <1>9, <1>10 DEF Next, Cancel, CancelStep

\* A record that was submitted is there for good.
LEMMA PresentKept ==
  ASSUME Genuine, NEW t \in Task, RowWrite(t), row[t].status # "absent"
  PROVE  row'[t].status # "absent"
<1> USE DEF Genuine, WellFormed
<1>1. row[t] \in Row
  BY DEF GoodRows, GoodRow
<1>2. ASSUME NEW r \in Row, NEW s PROVE Released(r, s).status = s
  BY DEF Released, Row
<1>3. ASSUME NEW w \in Executor, exec[w].pc \in {"mark", "save"}
      PROVE  exec[w].rec.status # "absent"
  BY <1>3 DEF GoodExecs, GoodExec, Terminal
<1>4. ASSUME NEW c \in Caller PROVE caller[c].snap \in Row
  BY DEF GoodCalls, GoodCall, CallRecord
<1>5. [NoRow EXCEPT !.status = "queued"].status = "queued"
  BY DEF NoRow
<1>6. Expired(row[t]) => Recovered(row[t]).status # "absent"
  BY <1>1, <1>2 DEF Recovered
<1>7. \A lease : [row[t] EXCEPT !.lease = lease].status = row[t].status
  BY <1>1 DEF Row
<1>8. \A c \in Caller : [caller[c].snap EXCEPT !.status = "cancel_requested"].status = "cancel_requested"
  BY <1>4 DEF Row
<1>9. \A c \in Caller : Released(caller[c].snap, "cancelled").status = "cancelled"
  BY <1>2, <1>4
<1> QED BY <1>3, <1>5, <1>6, <1>7, <1>8, <1>9, ZenonT(40) DEF RowWrite, QueuedRow

\* Only the submission that checked its id writes a record that is absent.
LEMMA AbsentKept ==
  ASSUME Genuine, NEW t \in Task, RowWrite(t), row[t].status = "absent"
  PROVE  \/ row'[t] = row[t]
         \/ \E p \in Api : checking[p] = t /\ checking'[p] # t /\ row'[t] = QueuedRow
<1> USE DEF Genuine, WellFormed
<1>1. row[t].lease = "none"
  BY DEF GoodRows, GoodRow, Paired
<1>2. \A w \in Executor : exec[w].task = t => exec[w].pc \notin {"mark", "save"}
  BY DEF Present, Executing
<1>3. \A c \in Caller : caller[c].task = t => caller[c].pc \notin {"overwrite", "force"}
  BY DEF Present, MidCancel
<1> QED BY <1>1, <1>2, <1>3 DEF RowWrite, Expired

LEMMA GenuineStep == Genuine /\ [Next]_vars => Genuine'
<1> SUFFICES ASSUME Genuine, [Next]_vars PROVE Genuine'
  OBVIOUS
<1>1. WellFormed /\ WellFormed'
  BY WellFormedStep DEF Genuine
<1>2. \A t \in Task : RowWrite(t)
  BY <1>1, RowWrites
<1>3. CheckJoins /\ ExecJoins /\ CallJoins
  BY <1>1, ChecksJoin, ExecsJoin, CallsJoin
<1>4. \A t \in Task : row'[t].status = "absent" => row[t].status = "absent"
  BY <1>2, PresentKept
<1>5. Present'
  BY <1>3, <1>4 DEF Genuine, Present, ExecJoins, CallJoins, Active
<1>6. Fresh'
  <2> SUFFICES ASSUME NEW p \in Api, NEW t \in Task, checking'[p] = t
               PROVE  /\ row'[t].status = "absent"
                      /\ \A q \in Api : checking'[q] = t => q = p
    BY DEF Fresh
  <2>1. CASE checking[p] = t
    <3>1. row[t].status = "absent" /\ \A q \in Api : checking[q] = t => q = p
      BY <2>1 DEF Genuine, Fresh
    <3>2. row'[t] = row[t]
      BY <1>2, <3>1, AbsentKept
    <3>3. ASSUME NEW q \in Api, checking'[q] = t PROVE q = p
      BY <1>3, <2>1, <3>1, <3>3 DEF CheckJoins
    <3> QED BY <3>1, <3>2, <3>3
  <2>2. CASE checking[p] # t
    BY <1>3, <2>2 DEF CheckJoins
  <2> QED BY <2>1, <2>2
<1>7. SnapsActive'
  <2> SUFFICES ASSUME NEW c \in Caller, caller'[c].pc \in {"overwrite", "force"}
               PROVE  caller'[c].snap.status \in Active
    BY DEF SnapsActive
  <2>1. CASE caller[c].pc \in {"overwrite", "force"} /\ caller'[c].snap = caller[c].snap
    BY <2>1 DEF Genuine, SnapsActive
  <2>2. CASE /\ caller'[c].task \in Task /\ MidCancel(c, caller'[c].task)
             /\ caller'[c].snap = row[caller'[c].task]
             /\ caller'[c].snap.status \notin Terminal
    <3>1. caller'[c].snap \in Row /\ caller'[c].snap.status # "absent"
      BY <1>1, <2>2 DEF Genuine, Present, WellFormed, GoodRows, GoodRow
    <3> QED BY <2>2, <3>1 DEF Row
  <2> QED BY <1>3, <2>1, <2>2 DEF CallJoins
<1> QED BY <1>1, <1>5, <1>6, <1>7 DEF Genuine

LEMMA InitGenuine == Init => Genuine
<1> SUFFICES ASSUME Init PROVE Genuine
  OBVIOUS
<1>1. WellFormed
  BY InitWellFormed
<1>2. Fresh /\ Present /\ SnapsActive
  BY NoneAssumption DEF Init, Fresh, Present, SnapsActive, Executing, MidCancel, IdleExec,
     IdleCall
<1> QED BY <1>1, <1>2 DEF Genuine

\* A write to an ended task comes from a copy that was made while it was active.
LEMMA EndedStep ==
  ASSUME Genuine, NEW t \in Task, RowWrite(t), Settled(t), ~StaleCopy(t)
  PROVE  row'[t] = row[t]
<1> USE DEF Genuine, WellFormed
<1>1. row[t].status \in Terminal /\ row[t].lease = "none"
  BY DEF Settled, GoodRows, GoodRow, Paired, Terminal
<1>2. \A p \in Api : checking[p] # t
  BY <1>1 DEF Fresh, Terminal
<1>3. ASSUME NEW w \in Executor, exec[w].task = t, exec[w].pc \in {"mark", "save"}
      PROVE  FALSE
  BY <1>3 DEF StaleCopy, Executing, GoodExecs, GoodExec, Active
<1>4. ASSUME NEW c \in Caller, caller[c].task = t, caller[c].pc \in {"overwrite", "force"}
      PROVE  FALSE
  BY <1>4 DEF StaleCopy, MidCancel, SnapsActive
<1>5. row[t].status # "queued" /\ ~Expired(row[t])
  BY <1>1 DEF Expired, Terminal
<1> QED BY <1>1, <1>2, <1>3, <1>4, <1>5 DEF RowWrite

\* The record of an ended task changes only by the hand of somebody who read it
\* while it was active: update_task's blind replacement of the whole record has
\* no other victims, whatever heartbeats, cancels and crashes do.
THEOREM EndedRowsKept == Spec => EndedUnlessStale
<1>1. Genuine /\ [Next]_vars =>
        [\A t \in Task : Settled(t) /\ ~StaleCopy(t) => row'[t] = row[t]]_taskVars
  BY RowWrites, EndedStep DEF Genuine
<1>2. QED
  BY <1>1, InitGenuine, GenuineStep, PTL DEF Spec, EndedUnlessStale

---------------------------------------------------------------------------
(* The inductive invariant *)

\* A task that a worker executes is not up for claiming, and while it is
\* running the worker has a lease on it that nobody can take.
Held ==
  \A w \in Executor : \A t \in Task : Executing(w, t) =>
    /\ row[t].status \notin {"absent", "queued"}
    /\ row[t].status = "running" => row[t].worker = w /\ row[t].lease = "live"

OneWorker ==
  \A t \in Task : \A v, w \in Executor :
    Executing(v, t) /\ Executing(w, t) => v = w

Leased ==
  \A t \in Task :
    row[t].status \in {"running", "cancel_requested"} => row[t].lease # "none"

\* What _prepare is about to write has a lease; a running copy, the worker's.
GoodMark(w, r) ==
  /\ r.lease # "none"
  /\ r.status = "running" => r.worker = w /\ r.lease = "live"

GoodMarks == \A w \in Executor : exec[w].pc = "mark" => GoodMark(w, exec[w].rec)

\* What a cancel call relies on when it writes its copy back.
GoodCancel(c, t) ==
  /\ row[t].status # "absent"
  /\ caller[c].pc = "verify" =>
       /\ row[t].status # "queued"
       /\ row[t].status = "running" => row[t].lease = "live"
  /\ caller[c].pc = "force" => caller[c].snap.lease # "none"

GoodCancels ==
  \A c \in Caller : \A t \in Task : MidCancel(c, t) => GoodCancel(c, t)

Custody ==
  WellFormed /\ Held /\ OneWorker /\ Leased /\ GoodMarks /\ GoodCancels /\ Fresh

---------------------------------------------------------------------------
(* Frames: steps that leave part of Custody alone *)

\* No worker starts on a task or makes a new copy to write.
ExecFrame ==
  \A w \in Executor :
    /\ \A t \in Task : Executing(w, t)' => Executing(w, t)
    /\ exec'[w].pc = "mark" => exec[w].pc = "mark" /\ exec'[w].rec = exec[w].rec

\* Every cancel call stands still or returns.
CallFrame ==
  \A c \in Caller : caller'[c] = caller[c] \/ caller'[c].pc \in {"idle", "done"}

\* A worker that changes only its own state, and takes no new task, keeps
\* Custody as long as what it is about to write is good.
LEMMA LocalStep ==
  ASSUME Custody, WellFormed', UNCHANGED <<row, checking, caller>>,
         NEW w \in Executor, NEW x, exec' = [exec EXCEPT ![w] = x],
         \/ x.pc \in {"idle", "claim"}
         \/ x.task = exec[w].task /\ exec[w].pc \notin {"idle", "claim"},
         x.pc = "mark" => GoodMark(w, x.rec)
  PROVE  Custody'
<1>1. exec'[w] = x /\ \A v \in Executor \ {w} : exec'[v] = exec[v]
  BY DEF Custody, WellFormed, GoodExecs
<1>2. \A v \in Executor, t \in Task : Executing(v, t)' => Executing(v, t)
  BY <1>1 DEF Executing
<1>3. Held' /\ OneWorker'
  <2>1. Held'
    BY <1>2 DEF Custody, Held
  <2>2. OneWorker'
    BY <1>2 DEF Custody, OneWorker
  <2>3. QED
    BY <2>1, <2>2
<1>4. GoodMarks'
  BY <1>1 DEF Custody, GoodMarks, GoodMark
<1>5. Leased' /\ GoodCancels' /\ Fresh'
  BY DEF Custody, Leased, GoodCancels, GoodCancel, MidCancel, Fresh
<1>6. QED
  BY <1>3, <1>4, <1>5 DEF Custody

\* Writing one record that exists already.
LEMMA WriteStep ==
  ASSUME Custody, WellFormed', UNCHANGED checking, ExecFrame,
         NEW t \in Task, NEW r, row' = [row EXCEPT ![t] = r],
         row[t].status # "absent",
         r.status \notin {"absent", "queued"},
         r.status \in {"running", "cancel_requested"} => r.lease # "none",
         r.status = "running" => /\ r.lease = "live"
                                 /\ \A w \in Executor : Executing(w, t) => r.worker = w,
         \A c \in Caller : \A u \in Task : MidCancel(c, u)' =>
           /\ MidCancel(c, u)
           /\ caller'[c].pc = "verify" => u = t \/ caller[c].pc = "verify"
           /\ caller'[c].pc = "force" => caller'[c].snap.lease # "none"
  PROVE  Custody'
<1>1. row'[t] = r /\ \A u \in Task \ {t} : row'[u] = row[u]
  BY DEF Custody, WellFormed, GoodRows
<1>2. Held'
  BY <1>1 DEF Custody, Held, ExecFrame
<1>3. OneWorker'
  BY DEF Custody, OneWorker, ExecFrame
<1>4. Leased'
  BY <1>1 DEF Custody, Leased
<1>5. GoodMarks'
  BY DEF Custody, GoodMarks, GoodMark, ExecFrame
<1>6. GoodCancels'
  BY <1>1 DEF Custody, GoodCancels, GoodCancel
<1>7. Fresh'
  BY <1>1 DEF Custody, Fresh
<1>8. QED
  BY <1>2, <1>3, <1>4, <1>5, <1>6, <1>7 DEF Custody

\* A cancel call that only moves itself.
LEMMA CallStep ==
  ASSUME Custody, WellFormed', UNCHANGED <<row, checking, exec>>,
         \A c \in Caller : \A t \in Task : MidCancel(c, t)' => GoodCancel(c, t)'
  PROVE  Custody'
<1>1. Held' /\ OneWorker' /\ Leased' /\ GoodMarks' /\ Fresh'
  BY DEF Custody, Held, OneWorker, Leased, GoodMarks, GoodMark, Fresh, Executing
<1>2. GoodCancels'
  BY DEF GoodCancels
<1>3. QED
  BY <1>1, <1>2 DEF Custody

\* Facts about one worker and one call that the steps below use.
LEMMA AtWork ==
  ASSUME Custody, NEW w \in Executor, exec[w].pc \notin {"idle", "claim"}
  PROVE  /\ exec[w].task \in Task
         /\ Executing(w, exec[w].task)
         /\ row[exec[w].task] \in Row
         /\ row[exec[w].task].status \notin {"absent", "queued"}
         /\ row[exec[w].task].status = "running" =>
              row[exec[w].task].worker = w /\ row[exec[w].task].lease = "live"
         /\ row[exec[w].task].status \in {"running", "cancel_requested"} =>
              row[exec[w].task].lease # "none"
<1>1. exec[w].task \in Task
  BY DEF Custody, WellFormed, GoodExecs, GoodExec, ExecRecord
<1>2. Executing(w, exec[w].task)
  BY DEF Executing
<1>3. row[exec[w].task] \in Row
  BY <1>1 DEF Custody, WellFormed, GoodRows, GoodRow
<1>4. QED
  BY <1>1, <1>2, <1>3 DEF Custody, Held, Leased

LEMMA AtCancel ==
  ASSUME Custody, NEW c \in Caller, caller[c].pc \notin {"idle", "done"}
  PROVE  /\ caller[c].task \in Task
         /\ MidCancel(c, caller[c].task)
         /\ row[caller[c].task] \in Row
         /\ GoodCancel(c, caller[c].task)
<1>1. caller[c].task \in Task
  BY DEF Custody, WellFormed, GoodCalls, GoodCall, CallRecord
<1>2. MidCancel(c, caller[c].task)
  BY DEF MidCancel
<1>3. QED
  BY <1>1, <1>2 DEF Custody, GoodCancels, WellFormed, GoodRows, GoodRow

---------------------------------------------------------------------------
(* Custody is inductive *)

LEMMA CustodyStep == ~Stalls /\ Custody /\ [Next]_vars => Custody'
<1> SUFFICES ASSUME ~Stalls, Custody, [Next]_vars PROVE Custody'
  OBVIOUS
<1>w. WellFormed /\ WellFormed'
  BY WellFormedStep DEF Custody
<1>1. ASSUME NEW p \in Api, NEW t \in Task, SubmitCheck(p, t)
      PROVE  Custody'
  <2>1. checking' = [checking EXCEPT ![p] = t] /\ UNCHANGED <<row, exec, caller>>
    BY <1>1 DEF SubmitCheck
  <2>2. \A q \in Api : checking'[q] = IF q = p THEN t ELSE checking[q]
    BY <1>w, <2>1 DEF WellFormed, GoodRest
  <2>3. Fresh'
    BY <1>1, <2>1, <2>2, NoneAssumption DEF SubmitCheck, Custody, Fresh
  <2>4. Held' /\ OneWorker' /\ Leased' /\ GoodMarks' /\ GoodCancels'
    BY <2>1 DEF Custody, Held, OneWorker, Leased, GoodMarks, GoodMark,
                GoodCancels, GoodCancel, Executing, MidCancel
  <2>5. QED
    BY <1>w, <2>3, <2>4 DEF Custody
<1>2. ASSUME NEW p \in Api, SubmitCreate(p)
      PROVE  Custody'
  <2> DEFINE t == checking[p]
  <2>1. t \in Task /\ UNCHANGED <<exec, caller>>
    BY <1>2, <1>w DEF SubmitCreate, WellFormed, GoodRest
  <2>2. row'[t] = QueuedRow /\ \A u \in Task \ {t} : row'[u] = row[u]
    BY <1>2, <1>w, <2>1 DEF SubmitCreate, WellFormed, GoodRows
  <2>3. \A q \in Api : checking'[q] = IF q = p THEN None ELSE checking[q]
    BY <1>2, <1>w DEF SubmitCreate, WellFormed, GoodRest
  <2>4. row[t].status = "absent"
    BY <2>1 DEF Custody, Fresh
  <2>5. /\ \A w \in Executor : ~Executing(w, t)
        /\ \A c \in Caller : ~MidCancel(c, t)
    BY <2>1, <2>4 DEF Custody, Held, GoodCancels, GoodCancel
  <2>6. Held'
    BY <2>1, <2>2, <2>5 DEF Custody, Held, Executing
  <2>7. Leased'
    BY <2>2 DEF Custody, Leased, QueuedRow, NoRow
  <2>8. GoodCancels'
    BY <2>1, <2>2, <2>5 DEF Custody, GoodCancels, GoodCancel, MidCancel
  <2>9. Fresh'
    BY <2>1, <2>2, <2>3, NoneAssumption DEF Custody, Fresh
  <2>10. OneWorker' /\ GoodMarks'
    BY <2>1 DEF Custody, OneWorker, GoodMarks, GoodMark, Executing
  <2>11. QED
    BY <1>w, <2>6, <2>7, <2>8, <2>9, <2>10 DEF Custody
<1>u. ASSUME UNCHANGED <<row, checking, exec, caller>>
      PROVE  Custody'
  BY <1>w, <1>u DEF Custody, Held, OneWorker, Leased, GoodMarks, GoodMark,
                    GoodCancels, GoodCancel, Fresh, Executing, MidCancel
<1>3. ASSUME NEW t \in Task, FinishSubmit(t)
      PROVE  Custody'
  BY <1>3, <1>u DEF FinishSubmit, AnnounceStarted
<1>4. ASSUME NEW t \in Task, LoseSubmit(t)
      PROVE  Custody'
  BY <1>4, <1>u DEF LoseSubmit
<1>5. ASSUME NEW t \in Task, ExpireLease(t)
      PROVE  Custody'
  <2> DEFINE r == [row[t] EXCEPT !.lease = "expired"]
  <2>1. row' = [row EXCEPT ![t] = r] /\ UNCHANGED <<checking, exec, caller>>
    BY <1>5 DEF ExpireLease
  <2>2. row[t] \in Row /\ row[t].lease = "live" /\ ~Attended(t)
    BY <1>5, <1>w DEF ExpireLease, WellFormed, GoodRows, GoodRow
  <2>3. row'[t] = r /\ \A u \in Task \ {t} : row'[u] = row[u]
    BY <1>w, <2>1 DEF WellFormed, GoodRows
  <2>4. r.status = row[t].status /\ r.worker = row[t].worker /\ r.lease = "expired"
    BY <2>2 DEF Row
  <2>5. /\ \A w \in Executor : ~(Executing(w, t) /\ row[t].status = "running")
        /\ \A c \in Caller : ~MidCancel(c, t)
    BY <2>2 DEF Attended, Custody, Held
  <2> HIDE DEF r
  <2>6. Held'
    BY <2>1, <2>3, <2>4, <2>5 DEF Custody, Held, Executing
  <2>7. Leased'
    BY <2>3, <2>4 DEF Custody, Leased
  <2>8. GoodCancels'
    BY <2>1, <2>3, <2>5 DEF Custody, GoodCancels, GoodCancel, MidCancel
  <2>9. Fresh'
    BY <2>1, <2>3, <2>4 DEF Custody, Fresh
  <2>10. OneWorker' /\ GoodMarks'
    BY <2>1 DEF Custody, OneWorker, GoodMarks, GoodMark, Executing
  <2>11. QED
    BY <1>w, <2>6, <2>7, <2>8, <2>9, <2>10 DEF Custody
<1>6. ASSUME NEW w \in Executor, RequeueExpiredLeases(w)
      PROVE  Custody'
  <2>1. exec' = [exec EXCEPT ![w].pc = "claim"] /\ UNCHANGED <<checking, caller>>
    BY <1>6 DEF RequeueExpiredLeases
  <2>2. \A v \in Executor : /\ \A t \in Task : Executing(v, t)' => Executing(v, t)
                            /\ exec'[v].pc = "mark" => exec'[v] = exec[v]
    BY <1>w, <2>1 DEF WellFormed, GoodExecs, GoodExec, ExecRecord, Executing
  <2>3. ASSUME NEW t \in Task, Expired(row[t])
        PROVE  /\ row'[t] = Recovered(row[t])
               /\ row'[t].status \in Terminal \cup {"queued"}
               /\ row'[t].status = "queued" => row[t].status = "running"
    <3>1. row'[t] = Recovered(row[t])
      BY <1>6, <2>3 DEF RequeueExpiredLeases
    <3>2. row[t] \in Row
      BY <1>w DEF WellFormed, GoodRows, GoodRow
    <3>3. \A s \in Terminal \cup {"queued"} : Released(row[t], s).status = s
      BY <3>2 DEF Row, Released
    <3>4. QED
      BY <2>3, <3>1, <3>3 DEF Recovered, Expired, Terminal
  <2>4. \A t \in Task : ~Expired(row[t]) => row'[t] = row[t]
    BY <1>6 DEF RequeueExpiredLeases
  <2>5. ASSUME NEW t \in Task, row'[t].status = "queued", row[t].status # "queued"
        PROVE  /\ \A v \in Executor : ~Executing(v, t)
               /\ \A c \in Caller : MidCancel(c, t) => caller[c].pc # "verify"
    BY <2>3, <2>4, <2>5 DEF Expired, Custody, Held, GoodCancels, GoodCancel
  <2>6. Held'
    BY <2>2, <2>3, <2>4, <2>5 DEF Custody, Held, Terminal
  <2>7. Leased'
    BY <2>3, <2>4 DEF Custody, Leased, Terminal
  <2>8. GoodCancels'
    BY <2>1, <2>3, <2>4, <2>5
       DEF Custody, GoodCancels, GoodCancel, MidCancel, Terminal
  <2>9. Fresh'
    BY <2>1, <2>3, <2>4 DEF Custody, Fresh, Expired
  <2>10. OneWorker' /\ GoodMarks'
    BY <2>2 DEF Custody, OneWorker, GoodMarks, GoodMark
  <2>11. QED
    BY <1>w, <2>6, <2>7, <2>8, <2>9, <2>10 DEF Custody
<1>7. ASSUME NEW w \in Executor, NEW t \in Task, Claim(w, t)
      PROVE  Custody'
  <2>1. /\ exec'[w].task = t
        /\ exec'[w].pc = "load"
        /\ \A v \in Executor \ {w} : exec'[v] = exec[v]
    BY <1>7, <1>w DEF Claim, WellFormed, GoodExecs, IdleExec
  <2>2. /\ row'[t].status = "running"
        /\ row'[t].worker = w
        /\ row'[t].lease = "live"
        /\ \A u \in Task \ {t} : row'[u] = row[u]
    BY <1>7, <1>w DEF Claim, WellFormed, GoodRows, GoodRow, Row
  <2>3. row[t].status = "queued" /\ UNCHANGED <<checking, caller>>
    BY <1>7 DEF Claim
  <2>4. \A v \in Executor : ~Executing(v, t)
    BY <2>3 DEF Custody, Held
  <2>5. \A v \in Executor, u \in Task :
          Executing(v, u)' <=> (v = w /\ u = t) \/ (v # w /\ Executing(v, u))
    BY <2>1 DEF Executing
  <2>6. Held'
    BY <2>2, <2>4, <2>5 DEF Custody, Held
  <2>7. OneWorker'
    BY <2>4, <2>5 DEF Custody, OneWorker
  <2>8. Leased'
    BY <2>2 DEF Custody, Leased
  <2>9. GoodMarks'
    BY <2>1 DEF Custody, GoodMarks, GoodMark
  <2>10. GoodCancels'
    BY <2>2, <2>3 DEF Custody, GoodCancels, GoodCancel, MidCancel
  <2>11. Fresh'
    BY <2>2, <2>3 DEF Custody, Fresh
  <2>12. QED
    BY <1>w, <2>6, <2>7, <2>8, <2>9, <2>10, <2>11 DEF Custody
<1>8. ASSUME NEW w \in Executor, ClaimNothing(w)
      PROVE  Custody'
  BY <1>8, <1>w, LocalStep DEF ClaimNothing, IdleExec
<1>9. ASSUME NEW w \in Executor, Load(w)
      PROVE  Custody'
  <2> DEFINE x == [exec[w] EXCEPT
                     !.cancel = @ \/ row[exec[w].task].status = "cancel_requested",
                     !.pc = "prepare"]
  <2>1. exec' = [exec EXCEPT ![w] = x] /\ UNCHANGED <<row, checking, caller>>
    BY <1>9 DEF Load
  <2>2. x.pc = "prepare" /\ x.task = exec[w].task /\ exec[w].pc = "load"
    BY <1>9, <1>w DEF Load, WellFormed, GoodExecs, GoodExec, ExecRecord
  <2> HIDE DEF x
  <2>3. QED
    BY <1>w, <2>1, <2>2, LocalStep
<1>10. ASSUME NEW w \in Executor, Prepare(w)
       PROVE  Custody'
  <2> DEFINE r == row[exec[w].task]
             cancelling == exec[w].cancel \/ r.status = "cancel_requested"
             copy == [r EXCEPT !.status = IF cancelling THEN "cancel_requested"
                                          ELSE "running"]
             passed == [exec[w] EXCEPT !.rec = r, !.pc = "route"]
             marked == [exec[w] EXCEPT !.rec = copy, !.cancel = cancelling,
                                       !.pc = "mark"]
  <2>1. /\ exec[w].pc = "prepare"
        /\ UNCHANGED <<row, checking, caller>>
        /\ \/ exec' = [exec EXCEPT ![w] = passed]
           \/ r.status \notin Terminal /\ exec' = [exec EXCEPT ![w] = marked]
    BY <1>10 DEF Prepare
  <2>2. /\ r \in Row
        /\ r.status \notin {"absent", "queued"}
        /\ r.status = "running" => r.worker = w /\ r.lease = "live"
        /\ r.status \in {"running", "cancel_requested"} => r.lease # "none"
    BY <2>1, AtWork
  <2>3. exec[w] \in ExecRecord
    BY <1>w DEF WellFormed, GoodExecs, GoodExec
  <2>4. passed.pc = "route" /\ passed.task = exec[w].task
    BY <2>3 DEF ExecRecord
  <2>5. marked.pc = "mark" /\ marked.task = exec[w].task /\ marked.rec = copy
    <3> HIDE DEF copy, cancelling
    <3>1. QED
      BY <2>3 DEF ExecRecord
  <2>6. r.status \notin Terminal => GoodMark(w, copy)
    <3>1. copy.status = (IF cancelling THEN "cancel_requested" ELSE "running")
          /\ copy.lease = r.lease /\ copy.worker = r.worker
      <4> HIDE DEF r, cancelling
      <4>1. QED
        BY <2>2 DEF Row
    <3>2. r.status \notin Terminal => r.status \in {"running", "cancel_requested"}
      BY <2>2 DEF Row, Active
    <3>3. copy.status = "running" => r.status # "cancel_requested"
      BY <3>1
    <3> HIDE DEF r, copy, cancelling
    <3>4. QED
      BY <2>2, <3>1, <3>2, <3>3 DEF GoodMark
  <2>7. CASE exec' = [exec EXCEPT ![w] = passed]
    <3> HIDE DEF passed, marked, r, copy, cancelling
    <3>1. QED
      BY <1>w, <2>1, <2>4, <2>7, LocalStep
  <2>8. CASE r.status \notin Terminal /\ exec' = [exec EXCEPT ![w] = marked]
    <3> HIDE DEF passed, marked, r, copy, cancelling
    <3>1. QED
      BY <1>w, <2>1, <2>5, <2>6, <2>8, LocalStep
  <2>9. QED
    BY <2>1, <2>7, <2>8
<1>x. ASSUME NEW w \in Executor, NEW pc \in Stage \ {"mark"},
             exec[w].pc \notin {"idle", "claim"},
             exec' = [exec EXCEPT ![w].pc = pc], UNCHANGED <<row, checking, caller>>
      PROVE  Custody'
  <2> DEFINE x == [exec[w] EXCEPT !.pc = pc]
  <2>1. x.pc = pc /\ x.task = exec[w].task
    BY <1>w DEF WellFormed, GoodExecs, GoodExec, ExecRecord
  <2>2. exec' = [exec EXCEPT ![w] = x]
    BY <1>x
  <2> HIDE DEF x
  <2>3. QED
    BY <1>w, <1>x, <2>1, <2>2, LocalStep
<1>11. ASSUME NEW w \in Executor, Mark(w)
       PROVE  Custody'
  <2> DEFINE t == exec[w].task
             r == exec[w].rec
  <2>1. /\ exec[w].pc = "mark"
        /\ row' = [row EXCEPT ![t] = r]
        /\ exec' = [exec EXCEPT ![w].pc = IF r.status = "running" THEN "running"
                                          ELSE "route"]
        /\ UNCHANGED <<checking, caller>>
    BY <1>11 DEF Mark
  <2>2. /\ t \in Task /\ Executing(w, t) /\ row[t].status # "absent"
        /\ GoodMark(w, r)
        /\ r.status \in {"running", "cancel_requested"}
    BY <1>w, <2>1, AtWork DEF Custody, GoodMarks, WellFormed, GoodExecs, GoodExec
  <2>3. \A v \in Executor : Executing(v, t) => v = w
    BY <2>2 DEF Custody, OneWorker
  <2>4. ExecFrame
    BY <1>w, <2>1 DEF ExecFrame, Executing, WellFormed, GoodExecs, GoodExec, ExecRecord
  <2>5. \A c \in Caller : \A u \in Task : MidCancel(c, u)' =>
          /\ MidCancel(c, u)
          /\ caller'[c].pc = "verify" => u = t \/ caller[c].pc = "verify"
          /\ caller'[c].pc = "force" => caller'[c].snap.lease # "none"
    BY <2>1 DEF MidCancel, Custody, GoodCancels, GoodCancel
  <2> HIDE DEF t, r
  <2>6. QED
    BY <1>w, <2>1, <2>2, <2>3, <2>4, <2>5, WriteStep DEF GoodMark
<1>12. ASSUME NEW w \in Executor, AnnounceRunning(w)
       PROVE  Custody'
  BY <1>12, <1>x DEF AnnounceRunning, Stage
<1>13. ASSUME NEW w \in Executor, RouteToAgent(w)
       PROVE  Custody'
  BY <1>13, <1>x DEF RouteToAgent, Stage
<1>f. ASSUME NEW w \in Executor, NEW s \in Terminal, exec[w].pc \in {"route", "agent"},
             exec' = [exec EXCEPT ![w] = Finalizing(w, s)],
             UNCHANGED <<row, checking, caller>>
      PROVE  Custody'
  <2>1. \/ Finalizing(w, s).pc = "idle"
        \/ Finalizing(w, s).pc = "save" /\ Finalizing(w, s).task = exec[w].task
    BY <1>w DEF Finalizing, IdleExec, WellFormed, GoodExecs, GoodExec, ExecRecord
  <2>2. QED
    BY <1>f, <1>w, <2>1, LocalStep
<1>14. ASSUME NEW w \in Executor, RouteToFinalize(w)
       PROVE  Custody'
  <2>1. "cancelled" \in Terminal
    BY DEF Terminal
  <2>2. /\ exec[w].pc \in {"route", "agent"}
        /\ exec' = [exec EXCEPT ![w] = Finalizing(w, "cancelled")]
        /\ UNCHANGED <<row, checking, caller>>
    BY <1>14 DEF RouteToFinalize
  <2>3. QED
    BY <1>f, <2>1, <2>2
<1>15. ASSUME NEW w \in Executor, NEW outcome \in AgentOutcome,
              AgentReturn(w, outcome)
       PROVE  Custody'
  <2> DEFINE final == IF exec[w].cancel THEN "cancelled" ELSE outcome
  <2>1. final \in Terminal
    BY OutcomeAssumption DEF Terminal
  <2>2. /\ exec[w].pc \in {"route", "agent"}
        /\ exec' = [exec EXCEPT ![w] = Finalizing(w, final)]
        /\ UNCHANGED <<row, checking, caller>>
    BY <1>15 DEF AgentReturn
  <2> HIDE DEF final
  <2>3. QED
    BY <1>f, <2>1, <2>2
<1>16. ASSUME NEW w \in Executor, Save(w)
       PROVE  Custody'
  <2> DEFINE t == exec[w].task
             r == exec[w].rec
  <2>1. /\ exec[w].pc = "save"
        /\ row' = [row EXCEPT ![t] = r]
        /\ exec' = [exec EXCEPT ![w].pc = "finish"]
        /\ UNCHANGED <<checking, caller>>
    BY <1>16 DEF Save
  <2>2. t \in Task /\ row[t].status # "absent" /\ r.status \in Terminal
    BY <1>w, <2>1, AtWork DEF WellFormed, GoodExecs, GoodExec
  <2>3. ExecFrame
    BY <1>w, <2>1 DEF ExecFrame, Executing, WellFormed, GoodExecs, GoodExec, ExecRecord
  <2>4. \A c \in Caller : \A u \in Task : MidCancel(c, u)' =>
          /\ MidCancel(c, u)
          /\ caller'[c].pc = "verify" => u = t \/ caller[c].pc = "verify"
          /\ caller'[c].pc = "force" => caller'[c].snap.lease # "none"
    BY <2>1 DEF MidCancel, Custody, GoodCancels, GoodCancel
  <2> HIDE DEF t, r
  <2>5. QED
    BY <1>w, <2>1, <2>2, <2>3, <2>4, WriteStep DEF Terminal
<1>17. ASSUME NEW w \in Executor, AnnounceFinished(w)
       PROVE  Custody'
  BY <1>17, <1>w, LocalStep DEF AnnounceFinished, IdleExec
<1>18. ASSUME NEW w \in Executor, Heartbeat(w)
       PROVE  Custody'
  <2> DEFINE t == exec[w].task
             r == [row[t] EXCEPT !.lease = "live"]
  <2>1. t \in Task /\ row[t] \in Row /\ exec[w] \in ExecRecord
    BY <1>18, <1>w DEF Heartbeat, WellFormed, GoodExecs, GoodExec, ExecRecord,
                       GoodRows, GoodRow
  <2>2. ExecFrame
    BY <1>18, <1>w DEF Heartbeat, ExecFrame, Executing, WellFormed, GoodExecs,
                       GoodExec, ExecRecord
  <2>3. UNCHANGED <<checking, caller>>
    BY <1>18 DEF Heartbeat
  <2>4. \A c \in Caller : \A u \in Task : MidCancel(c, u)' =>
          /\ MidCancel(c, u)
          /\ caller'[c].pc = "verify" => u = t \/ caller[c].pc = "verify"
          /\ caller'[c].pc = "force" => caller'[c].snap.lease # "none"
    BY <2>3 DEF MidCancel, Custody, GoodCancels, GoodCancel
  <2>5. CASE UNCHANGED row
    <3>1. Held' /\ OneWorker'
      BY <2>2, <2>5 DEF Custody, Held, OneWorker, ExecFrame
    <3>2. GoodMarks'
      BY <2>2 DEF Custody, GoodMarks, GoodMark, ExecFrame
    <3>3. Leased' /\ GoodCancels' /\ Fresh'
      BY <2>3, <2>5 DEF Custody, Leased, GoodCancels, GoodCancel, MidCancel, Fresh
    <3>4. QED
      BY <1>w, <3>1, <3>2, <3>3 DEF Custody
  <2>6. CASE /\ row[t].worker = w
             /\ row[t].status \in {"running", "cancel_requested"}
             /\ row' = [row EXCEPT ![t] = r]
    <3>1. /\ r.status = row[t].status /\ r.worker = row[t].worker /\ r.lease = "live"
      BY <2>1 DEF Row
    <3>2. r.status = "running" => \A v \in Executor : Executing(v, t) => r.worker = v
      BY <2>1, <3>1 DEF Custody, Held
    <3> HIDE DEF t, r
    <3>3. QED
      BY <1>w, <2>1, <2>2, <2>3, <2>4, <2>6, <3>1, <3>2, WriteStep
  <2>7. QED
    BY <1>18, <2>5, <2>6 DEF Heartbeat
<1>19. ASSUME NEW w \in Executor, Abandon(w)
       PROVE  Custody'
  BY <1>19, <1>w, LocalStep DEF Abandon, IdleExec
<1>20. ASSUME NEW c \in Caller, NEW t \in Task, CancelRequest(c, t, "reread")
       PROVE  Custody'
  <2>1. UNCHANGED <<row, checking, exec>> /\ row[t].status \in Active
    BY <1>20 DEF CancelRequest
  <2>2. /\ caller'[c].pc = "reread" /\ caller'[c].task = t
        /\ \A d \in Caller \ {c} : caller'[d] = caller[d]
    BY <1>20, <1>w DEF CancelRequest, WellFormed, GoodCalls, IdleCall
  <2>3. QED
    BY <1>w, <2>1, <2>2, CallStep DEF Custody, GoodCancels, GoodCancel, MidCancel, Active
<1>c. ASSUME NEW c \in Caller, caller[c].pc \notin {"idle", "done"},
             NEW x, caller' = [caller EXCEPT ![c] = x], x.task = caller[c].task,
             UNCHANGED <<row, checking, exec>>,
             x.pc # "verify",
             x.pc = "force" => x.snap.lease # "none"
      PROVE  Custody'
  <2>1. caller'[c] = x /\ \A d \in Caller \ {c} : caller'[d] = caller[d]
    BY <1>c, <1>w DEF WellFormed, GoodCalls
  <2>2. GoodCancel(c, caller[c].task)
    BY <1>c, AtCancel
  <2>3. QED
    BY <1>c, <1>w, <2>1, <2>2, CallStep DEF Custody, GoodCancels, GoodCancel, MidCancel
<1>r. ASSUME NEW c \in Caller, caller[c].pc \notin {"idle", "done"},
             caller' = Return(c)
      PROVE  /\ CallFrame
             /\ UNCHANGED <<row, checking, exec>> => Custody'
  <2> DEFINE x == [caller[c] EXCEPT !.pc = "done", !.snap = NoRow]
  <2>1. x.pc = "done" /\ x.task = caller[c].task
    BY <1>w DEF WellFormed, GoodCalls, GoodCall, CallRecord
  <2>2. caller' = [caller EXCEPT ![c] = x]
    BY <1>r DEF Return
  <2> HIDE DEF x
  <2>3. CallFrame
    BY <1>w, <2>1, <2>2 DEF CallFrame, WellFormed, GoodCalls
  <2>4. QED
    BY <1>c, <1>r, <2>1, <2>2, <2>3
<1>s. ASSUME NEW c \in Caller, caller[c].pc \notin {"idle", "done"},
             NEW r, NEW pc \in CallStage,
             caller' = [caller EXCEPT ![c].snap = r, ![c].pc = pc],
             UNCHANGED <<row, checking, exec>>,
             pc # "verify", pc = "force" => r.lease # "none"
      PROVE  Custody'
  <2> DEFINE x == [caller[c] EXCEPT !.snap = r, !.pc = pc]
  <2>1. x.pc = pc /\ x.task = caller[c].task /\ x.snap = r
    BY <1>w DEF WellFormed, GoodCalls, GoodCall, CallRecord
  <2>2. caller' = [caller EXCEPT ![c] = x]
    BY <1>s
  <2> HIDE DEF x
  <2>3. QED
    BY <1>c, <1>s, <2>1, <2>2
<1>21. ASSUME NEW c \in Caller, CancelReread(c)
       PROVE  Custody'
  <2> DEFINE latest == row[caller[c].task]
             pc == IF latest.status = "queued" THEN "overwrite" ELSE "force"
  <2>1. caller[c].pc = "reread" /\ UNCHANGED <<row, checking, exec>>
    BY <1>21 DEF CancelReread
  <2>2. /\ latest \in Row
        /\ latest.status # "absent"
        /\ latest.status \in {"running", "cancel_requested"} => latest.lease # "none"
    BY <2>1, AtCancel DEF GoodCancel, Custody, Leased
  <2>3. CASE latest.status \in Terminal
    <3>1. caller' = Return(c)
      BY <1>21, <2>3 DEF CancelReread
    <3>2. QED
      BY <1>r, <2>1, <3>1
  <2>4. CASE latest.status \notin Terminal
    <3>1. caller' = [caller EXCEPT ![c].snap = latest, ![c].pc = pc]
      BY <1>21, <2>4 DEF CancelReread
    <3>2. pc \in CallStage /\ pc # "verify" /\ (pc = "force" => latest.lease # "none")
      BY <2>2, <2>4 DEF Row, Active, CallStage
    <3> HIDE DEF latest, pc
    <3>3. QED
      BY <1>s, <2>1, <3>1, <3>2
  <2>5. QED
    BY <2>3, <2>4
<1>22. ASSUME NEW c \in Caller, CancelOverwrite(c)
       PROVE  Custody'
  <2> DEFINE t == caller[c].task
             r == Released(caller[c].snap, "cancelled")
  <2>1. /\ caller[c].pc = "overwrite"
        /\ row' = [row EXCEPT ![t] = r]
        /\ caller' = [caller EXCEPT ![c].pc = "verify", ![c].snap = NoRow]
        /\ UNCHANGED <<checking, exec>>
    BY <1>22 DEF CancelOverwrite
  <2>2. t \in Task /\ row[t].status # "absent"
    BY <2>1, AtCancel DEF GoodCancel
  <2>3. r.status = "cancelled"
    BY <1>w DEF WellFormed, GoodCalls, GoodCall, CallRecord, Row, Released
  <2>4. ExecFrame
    BY <2>1 DEF ExecFrame, Executing
  <2>5. /\ caller'[c].pc = "verify" /\ caller'[c].task = t
        /\ \A d \in Caller \ {c} : caller'[d] = caller[d]
    BY <1>w, <2>1 DEF WellFormed, GoodCalls, GoodCall, CallRecord
  <2>6. \A d \in Caller : \A u \in Task : MidCancel(d, u)' =>
          /\ MidCancel(d, u)
          /\ caller'[d].pc = "verify" => u = t \/ caller[d].pc = "verify"
          /\ caller'[d].pc = "force" => caller'[d].snap.lease # "none"
    BY <2>1, <2>5 DEF MidCancel, Custody, GoodCancels, GoodCancel
  <2> HIDE DEF t, r
  <2>7. QED
    BY <1>w, <2>1, <2>2, <2>3, <2>4, <2>6, WriteStep
<1>23. ASSUME NEW c \in Caller, CancelVerify(c)
       PROVE  Custody'
  <2> DEFINE verified == row[caller[c].task]
             x == [caller[c] EXCEPT !.pc = "announce"]
  <2>1. caller[c].pc = "verify" /\ UNCHANGED <<row, checking, exec>>
    BY <1>23 DEF CancelVerify
  <2>2. /\ verified \in Row
        /\ verified.status \notin {"absent", "queued"}
        /\ verified.status \in {"running", "cancel_requested"} => verified.lease # "none"
    BY <2>1, AtCancel DEF GoodCancel, Custody, Leased
  <2>3. x.pc = "announce" /\ x.task = caller[c].task
    BY <1>w DEF WellFormed, GoodCalls, GoodCall, CallRecord
  <2>4. \/ caller' = [caller EXCEPT ![c] = x]
        \/ caller' = Return(c)
        \/ /\ verified.status \notin Terminal
           /\ caller' = [caller EXCEPT ![c].snap = verified, ![c].pc = "force"]
    BY <1>23 DEF CancelVerify
  <2>5. verified.status \notin Terminal => verified.lease # "none"
    BY <2>2 DEF Row, Active
  <2> HIDE DEF verified, x
  <2>6. QED
    BY <1>c, <1>r, <1>s, <2>1, <2>3, <2>4, <2>5 DEF CallStage
<1>24. ASSUME NEW c \in Caller, CancelAnnounce(c)
       PROVE  Custody'
  BY <1>24, <1>r DEF CancelAnnounce
<1>25. ASSUME NEW c \in Caller, CancelForce(c)
       PROVE  Custody'
  <2> DEFINE t == caller[c].task
             r == [caller[c].snap EXCEPT !.status = "cancel_requested"]
  <2>1. /\ caller[c].pc = "force"
        /\ row' = [row EXCEPT ![t] = r]
        /\ caller' = Return(c)
        /\ UNCHANGED <<checking, exec>>
    BY <1>25 DEF CancelForce
  <2>2. t \in Task /\ row[t].status # "absent" /\ caller[c].snap.lease # "none"
    BY <2>1, AtCancel DEF GoodCancel
  <2>3. r.status = "cancel_requested" /\ r.lease = caller[c].snap.lease
    BY <1>w DEF WellFormed, GoodCalls, GoodCall, CallRecord, Row
  <2>4. ExecFrame
    BY <2>1 DEF ExecFrame, Executing
  <2>5. CallFrame
    BY <1>r, <2>1
  <2>6. \A d \in Caller : \A u \in Task : MidCancel(d, u)' =>
          /\ MidCancel(d, u)
          /\ caller'[d].pc = "verify" => u = t \/ caller[d].pc = "verify"
          /\ caller'[d].pc = "force" => caller'[d].snap.lease # "none"
    BY <2>5 DEF CallFrame, MidCancel, Custody, GoodCancels, GoodCancel
  <2> HIDE DEF t, r
  <2>7. QED
    BY <1>w, <2>1, <2>2, <2>3, <2>4, <2>6, WriteStep
<1>26. CASE UNCHANGED vars
  BY <1>26, <1>u DEF vars, taskVars
<1>h. ASSUME NEW w \in Executor, HeartbeatFails(w)
      PROVE  Custody'
  <2>1. /\ [exec[w] EXCEPT !.beat = "ended"].pc = exec[w].pc
        /\ [exec[w] EXCEPT !.beat = "ended"].task = exec[w].task
        /\ [exec[w] EXCEPT !.beat = "ended"].rec = exec[w].rec
    BY <1>w DEF WellFormed, GoodExecs, GoodExec, ExecRecord
  <2>2. UNCHANGED <<row, checking, caller>>
        /\ exec' = [exec EXCEPT ![w] = [exec[w] EXCEPT !.beat = "ended"]]
    BY <1>h DEF HeartbeatFails
  <2>3. ExecFrame
    BY <1>w, <2>1, <2>2 DEF ExecFrame, Executing, WellFormed, GoodExecs
  <2>4. Held' /\ OneWorker'
    BY <2>2, <2>3 DEF Custody, Held, OneWorker, ExecFrame
  <2>5. GoodMarks'
    BY <2>3 DEF Custody, GoodMarks, GoodMark, ExecFrame
  <2>6. Leased' /\ GoodCancels' /\ Fresh'
    BY <2>2 DEF Custody, Leased, GoodCancels, GoodCancel, MidCancel, Fresh
  <2>7. QED
    BY <1>w, <2>4, <2>5, <2>6 DEF Custody
<1>27. QED
  BY <1>1, <1>2, <1>3, <1>4, <1>5, <1>6, <1>7, <1>8, <1>9, <1>10, <1>11, <1>12,
     <1>13, <1>14, <1>15, <1>16, <1>17, <1>18, <1>19, <1>20, <1>21, <1>22,
     <1>23, <1>24, <1>25, <1>26, <1>h
     DEF Next, SubmitStep, WorkerStep, GraphStep, Cancel, CancelStep

LEMMA InitCustody == Init => Custody
<1> SUFFICES ASSUME Init PROVE Custody
  OBVIOUS
<1>1. WellFormed
  BY InitWellFormed
<1>2. /\ \A w \in Executor : exec[w].pc = "idle"
      /\ \A c \in Caller : caller[c].pc = "idle"
      /\ \A t \in Task : row[t].status = "absent"
      /\ \A p \in Api : checking[p] = None
  BY DEF Init, IdleExec, IdleCall, NoRow
<1>3. Held /\ OneWorker /\ Leased /\ GoodMarks
  BY <1>2 DEF Held, OneWorker, Leased, GoodMarks, Executing
<1>4. GoodCancels /\ Fresh
  BY <1>2, NoneAssumption DEF GoodCancels, Fresh, MidCancel
<1>5. QED
  BY <1>1, <1>3, <1>4 DEF Custody

\* Custody holds in every state when heartbeats are on time.
LEMMA CustodyAlways == ~Stalls /\ Spec => []Custody
<1>1. Init => Custody
  BY InitCustody
<1>2. ASSUME ~Stalls PROVE Spec => []Custody
  <2>1. Custody /\ [Next]_vars => Custody'
    BY <1>2, CustodyStep
  <2>2. QED
    BY <1>1, <2>1, PTL DEF Spec
<1>3. QED
  BY <1>2

\* While heartbeats are on time, one task is never in the hands of two workers
\* (SubagentQueueWorker._process), for any number of each.
THEOREM OneExecutor == Spec => []SingleExecutor
<1>1. Custody => SingleExecutor
  BY DEF Custody, OneWorker, SingleExecutor
<1>2. Stalls => SingleExecutor
  BY DEF SingleExecutor
<1>3. CASE ~Stalls
  BY <1>1, <1>3, CustodyAlways, PTL
<1>4. CASE Stalls
  <2>1. SingleExecutor
    BY <1>2, <1>4
  <2>2. QED
    BY <1>2, <1>4, PTL
<1>5. QED
  BY <1>3, <1>4

\* While heartbeats are on time, requeue_expired_leases can recover every task
\* that is running or being cancelled: its record has a lease.
THEOREM AlwaysRecoverable == Spec => []Recoverable
<1>1. Custody => Recoverable
  BY DEF Custody, Leased, Recoverable
<1>2. Stalls => Recoverable
  BY DEF Recoverable
<1>3. CASE ~Stalls
  BY <1>1, <1>3, CustodyAlways, PTL
<1>4. CASE Stalls
  BY <1>2, <1>4, PTL
<1>5. QED
  BY <1>3, <1>4

---------------------------------------------------------------------------
(* Copies are never ahead of the record *)

\* An attempt number that a party may write back is not higher than the one of
\* the record as long as that is queued or running, and a worker that is about
\* to mark its task as running has the highest of all.
Newest ==
  \A t \in Task :
    /\ row[t].status = "absent" => row[t].attempt = 0
    /\ row[t].status \in {"queued", "running"} =>
         \A c \in Caller : MidCancel(c, t) => caller[c].snap.attempt <= row[t].attempt
    /\ \A w \in Executor :
         exec[w].pc = "mark" /\ exec[w].task = t /\ exec[w].rec.status = "running" =>
           /\ row[t].attempt <= exec[w].rec.attempt
           /\ \A c \in Caller :
                MidCancel(c, t) => caller[c].snap.attempt <= exec[w].rec.attempt

Ordered == Custody /\ Genuine /\ Newest

\* Where the copies come from.
CopyJoins ==
  /\ \A c \in Caller : \A t \in Task : MidCancel(c, t)' =>
       \/ MidCancel(c, t) /\ caller'[c].snap = caller[c].snap
       \/ caller'[c].snap = NoRow
       \/ row' = row /\ caller'[c].snap = row[t]
  /\ \A w \in Executor : exec'[w].pc = "mark" =>
       /\ exec'[w].task = exec[w].task
       /\ \/ exec[w].pc = "mark" /\ exec'[w].rec = exec[w].rec
          \/ /\ exec[w].pc = "prepare" /\ row' = row
             /\ exec'[w].rec.attempt = row[exec[w].task].attempt
             /\ exec'[w].rec.status = "running" =>
                  row[exec[w].task].status \notin Terminal \cup {"cancel_requested"}

LEMMA CopiesJoin == WellFormed /\ [Next]_vars => CopyJoins
<1> SUFFICES ASSUME WellFormed, [Next]_vars PROVE CopyJoins
  OBVIOUS
<1> USE DEF WellFormed
<1> DEFINE Snaps(c) == \A t \in Task : MidCancel(c, t)' =>
                         \/ MidCancel(c, t) /\ caller'[c].snap = caller[c].snap
                         \/ caller'[c].snap = NoRow
                         \/ row' = row /\ caller'[c].snap = row[t]
           Marks(w) == exec'[w].pc = "mark" =>
                         /\ exec'[w].task = exec[w].task
                         /\ \/ exec[w].pc = "mark" /\ exec'[w].rec = exec[w].rec
                            \/ /\ exec[w].pc = "prepare" /\ row' = row
                               /\ exec'[w].rec.attempt = row[exec[w].task].attempt
                               /\ exec'[w].rec.status = "running" =>
                                    row[exec[w].task].status
                                      \notin Terminal \cup {"cancel_requested"}
<1>c. ASSUME NEW c \in Caller, caller'[c] = caller[c] PROVE Snaps(c)
  BY <1>c DEF MidCancel
<1>e. ASSUME NEW w \in Executor, exec'[w] = exec[w] PROVE Marks(w)
  BY <1>e
<1>n. ASSUME NEW w \in Executor, exec'[w].pc # "mark" PROVE Marks(w)
  BY <1>n
<1>q. SUFFICES (\A c \in Caller : Snaps(c)) /\ (\A w \in Executor : Marks(w))
  BY DEF CopyJoins
<1>1. ASSUME NEW p \in Api, SubmitStep(p) PROVE UNCHANGED <<exec, caller>>
  BY <1>1 DEF SubmitStep, SubmitCheck, SubmitCreate
<1>2. ASSUME NEW t \in Task, FinishSubmit(t) \/ LoseSubmit(t) \/ ExpireLease(t)
      PROVE  UNCHANGED <<exec, caller>>
  BY <1>2 DEF FinishSubmit, AnnounceStarted, LoseSubmit, ExpireLease
<1>3. ASSUME NEW w \in Executor, WorkerStep(w) \/ Heartbeat(w) \/ HeartbeatFails(w) \/ Abandon(w)
      PROVE  caller' = caller /\ \A v \in Executor \ {w} : exec'[v] = exec[v]
  <2>1. caller' = caller
    BY <1>3 DEF WorkerStep, RequeueExpiredLeases, Claim, ClaimNothing, Load, GraphStep,
       Prepare, Mark, AnnounceRunning, RouteToAgent, RouteToFinalize, AgentReturn, Save,
       AnnounceFinished, Heartbeat, HeartbeatFails, Abandon
  <2>2. \A v \in Executor \ {w} : exec'[v] = exec[v]
    BY <1>3 DEF GoodExecs, WorkerStep, RequeueExpiredLeases, Claim, ClaimNothing, Load,
       GraphStep, Prepare, Mark, AnnounceRunning, RouteToAgent, RouteToFinalize,
       AgentReturn, Save, AnnounceFinished, Heartbeat, HeartbeatFails, Abandon
  <2> QED BY <2>1, <2>2
<1>4. ASSUME NEW w \in Executor,
             ClaimNothing(w) \/ AnnounceFinished(w) \/ Abandon(w) \/ Load(w) \/ Mark(w)
               \/ AnnounceRunning(w) \/ RouteToAgent(w) \/ Save(w) \/ RequeueExpiredLeases(w)
      PROVE  Marks(w)
  <2>1. exec'[w].pc # "mark"
    BY <1>4 DEF ClaimNothing, AnnounceFinished, Abandon, IdleExec, Load, Mark,
       AnnounceRunning, RouteToAgent, Save, RequeueExpiredLeases,
       GoodExecs, GoodExec, ExecRecord
  <2> QED BY <1>n, <2>1
<1>5. ASSUME NEW w \in Executor, NEW t \in Task, Claim(w, t) PROVE Marks(w)
  <2>1. exec'[w].pc = "load"
    BY <1>5 DEF Claim, IdleExec, GoodExecs
  <2> QED BY <1>n, <2>1
<1>6. ASSUME NEW w \in Executor,
             RouteToFinalize(w) \/ \E outcome \in AgentOutcome : AgentReturn(w, outcome)
      PROVE  Marks(w)
  <2>1. PICK s : exec' = [exec EXCEPT ![w] = Finalizing(w, s)]
    BY <1>6 DEF RouteToFinalize, AgentReturn
  <2>2. Finalizing(w, s).pc # "mark"
    BY DEF Finalizing, IdleExec, GoodExecs, GoodExec, ExecRecord
  <2>3. exec'[w].pc # "mark"
    BY <2>1, <2>2 DEF GoodExecs
  <2> QED BY <1>n, <2>3
<1>7. ASSUME NEW w \in Executor, Heartbeat(w) PROVE Marks(w)
  <2>1. exec'[w].pc = exec[w].pc /\ exec'[w].task = exec[w].task /\ exec'[w].rec = exec[w].rec
    BY <1>7 DEF Heartbeat, GoodExecs, GoodExec, ExecRecord
  <2> QED BY <2>1
<1>8. ASSUME NEW w \in Executor, Prepare(w) PROVE Marks(w)
  <2> DEFINE r == row[exec[w].task]
             cancelling == exec[w].cancel \/ r.status = "cancel_requested"
             copy == [r EXCEPT !.status = IF cancelling THEN "cancel_requested"
                                          ELSE "running"]
             passed == [exec[w] EXCEPT !.rec = r, !.pc = "route"]
             marked == [exec[w] EXCEPT !.rec = copy, !.cancel = cancelling,
                                       !.pc = "mark"]
  <2>1. /\ exec[w].pc = "prepare" /\ row' = row
        /\ \/ exec' = [exec EXCEPT ![w] = passed]
           \/ r.status \notin Terminal /\ exec' = [exec EXCEPT ![w] = marked]
    BY <1>8 DEF Prepare
  <2>2. exec[w] \in ExecRecord /\ r \in Row
    BY <2>1 DEF GoodExecs, GoodExec, GoodRows, GoodRow, ExecRecord
  <2>3. passed.pc = "route"
    BY <2>2 DEF ExecRecord
  <2>4. marked.task = exec[w].task /\ marked.rec = copy
    <3> HIDE DEF copy, cancelling
    <3> QED BY <2>2 DEF ExecRecord
  <2>5. copy.attempt = r.attempt /\ (copy.status = "running" => r.status # "cancel_requested")
    BY <2>2 DEF Row
  <2> HIDE DEF passed, marked, copy, cancelling, r
  <2>6. CASE exec' = [exec EXCEPT ![w] = passed]
    BY <1>n, <2>3, <2>6 DEF GoodExecs
  <2>7. CASE r.status \notin Terminal /\ exec' = [exec EXCEPT ![w] = marked]
    <3>1. exec'[w] = marked
      BY <2>7 DEF GoodExecs
    <3> QED BY <2>1, <2>4, <2>5, <2>7, <3>1 DEF r
  <2> QED BY <2>1, <2>6, <2>7
<1>9. ASSUME NEW c \in Caller, Cancel(c)
      PROVE  exec' = exec /\ \A d \in Caller \ {c} : caller'[d] = caller[d]
  <2>1. exec' = exec
    BY <1>9 DEF Cancel, CancelRequest, CancelStep, CancelReread, CancelOverwrite,
       CancelVerify, CancelAnnounce, CancelForce
  <2>2. \A d \in Caller \ {c} : caller'[d] = caller[d]
    BY <1>9 DEF Cancel, CancelRequest, CancelStep, CancelReread, CancelOverwrite,
       CancelVerify, CancelAnnounce, CancelForce, Return, GoodCalls
  <2> QED BY <2>1, <2>2
<1>10. ASSUME NEW c \in Caller, caller' = Return(c) PROVE Snaps(c)
  <2>1. caller'[c].pc = "done"
    BY <1>10 DEF Return, GoodCalls, GoodCall, CallRecord
  <2> QED BY <2>1 DEF MidCancel
<1>11. ASSUME NEW c \in Caller, NEW t \in Task, CancelRequest(c, t, "reread") PROVE Snaps(c)
  <2>1. caller'[c].snap = NoRow
    BY <1>11 DEF CancelRequest, IdleCall, GoodCalls
  <2> QED BY <2>1
<1>12. ASSUME NEW c \in Caller, NEW pc,
              caller' = [caller EXCEPT ![c].snap = row[caller[c].task], ![c].pc = pc],
              row' = row
       PROVE  Snaps(c)
  <2>1. caller'[c].task = caller[c].task /\ caller'[c].snap = row[caller[c].task]
    BY <1>12 DEF GoodCalls, GoodCall, CallRecord
  <2> QED BY <1>12, <2>1 DEF MidCancel
<1>13. ASSUME NEW c \in Caller, CancelReread(c) PROVE Snaps(c)
  BY <1>10, <1>12, <1>13 DEF CancelReread
<1>14. ASSUME NEW c \in Caller, CancelOverwrite(c) PROVE Snaps(c)
  <2>1. caller'[c].snap = NoRow
    BY <1>14 DEF CancelOverwrite, GoodCalls, GoodCall, CallRecord
  <2> QED BY <2>1
<1>15. ASSUME NEW c \in Caller, CancelVerify(c) PROVE Snaps(c)
  <2>1. CASE caller' = [caller EXCEPT ![c].pc = "announce"]
    <3>1. caller[c].pc = "verify" /\ caller'[c].task = caller[c].task
          /\ caller'[c].snap = caller[c].snap
      BY <1>15, <2>1 DEF CancelVerify, GoodCalls, GoodCall, CallRecord
    <3> QED BY <3>1 DEF MidCancel
  <2> QED BY <1>10, <1>12, <1>15, <2>1 DEF CancelVerify
<1>16. ASSUME NEW c \in Caller, CancelAnnounce(c) \/ CancelForce(c) PROVE Snaps(c)
  BY <1>10, <1>16 DEF CancelAnnounce, CancelForce
<1>17. CASE UNCHANGED vars
  BY <1>17, <1>c, <1>e DEF vars, taskVars
<1>h. ASSUME NEW w \in Executor, HeartbeatFails(w) PROVE Marks(w)
  <2>1. /\ exec'[w].pc = exec[w].pc /\ exec'[w].task = exec[w].task
        /\ exec'[w].rec = exec[w].rec /\ exec'[w].cancel = exec[w].cancel
    BY <1>h DEF HeartbeatFails, GoodExecs, GoodExec, ExecRecord
  <2> QED BY <2>1
<1>18. ASSUME NEW w \in Executor, WorkerStep(w) \/ Heartbeat(w) \/ HeartbeatFails(w) \/ Abandon(w)
       PROVE  Marks(w)
  BY <1>4, <1>5, <1>6, <1>7, <1>8, <1>18, <1>h DEF WorkerStep, GraphStep
<1>19. ASSUME NEW c \in Caller, Cancel(c) PROVE Snaps(c)
  BY <1>11, <1>13, <1>14, <1>15, <1>16, <1>19 DEF Cancel, CancelStep
<1> HIDE DEF Marks, Snaps
<1> QED
  BY <1>1, <1>2, <1>3, <1>9, <1>17, <1>18, <1>19, <1>c, <1>e DEF Next

\* A write that leaves a task queued or running does not lower its attempt.
LEMMA AttemptRises ==
  ASSUME Ordered, NEW t \in Task, RowWrite(t), row'[t].status \in {"queued", "running"}
  PROVE  /\ row'[t].attempt >= row[t].attempt
         /\ \A c \in Caller : MidCancel(c, t) => caller[c].snap.attempt <= row'[t].attempt
<1> DEFINE Rises(r) == /\ r.attempt >= row[t].attempt
                       /\ \A c \in Caller : MidCancel(c, t) =>
                            caller[c].snap.attempt <= r.attempt
<1> SUFFICES Rises(row'[t])
  OBVIOUS
<1>r. row[t] \in Row /\ row[t].attempt \in Nat
  BY BoundsAssumption DEF Ordered, Custody, WellFormed, GoodRows, GoodRow, Row
<1>c. \A c \in Caller : caller[c].snap \in Row /\ caller[c].snap.attempt \in Nat
  BY BoundsAssumption DEF Ordered, Custody, WellFormed, GoodCalls, GoodCall, CallRecord, Row
<1>k. row[t].status \in {"queued", "running"} => Rises(row[t])
  BY <1>r DEF Ordered, Newest
<1>1. CASE row'[t] = row[t]
  BY <1>1, <1>k
<1>2. ASSUME NEW p \in Api, checking[p] = t, row'[t] = QueuedRow
      PROVE  Rises(row'[t])
  <2>1. row[t].status = "absent"
    BY <1>2 DEF Ordered, Genuine, Fresh
  <2>2. row[t].attempt = 0 /\ \A c \in Caller : ~MidCancel(c, t)
    BY <2>1 DEF Ordered, Genuine, Present, Newest
  <2>3. row'[t].attempt = 0
    BY <1>2 DEF QueuedRow, NoRow
  <2> QED BY <2>2, <2>3
<1>3. ASSUME NEW w \in Executor, exec[w].task = t, exec[w].pc \in {"mark", "save"},
             row'[t] = exec[w].rec
      PROVE  Rises(row'[t])
  <2>1. exec[w].pc = "mark" /\ exec[w].rec.status = "running" /\ exec[w].rec.attempt \in Nat
    BY <1>3, BoundsAssumption
       DEF Ordered, Custody, WellFormed, GoodExecs, GoodExec, ExecRecord, Row, Terminal
  <2>2. row[t].attempt <= exec[w].rec.attempt
    BY <1>3, <2>1 DEF Ordered, Newest
  <2>3. \A c \in Caller : MidCancel(c, t) => caller[c].snap.attempt <= exec[w].rec.attempt
    BY <1>3, <2>1 DEF Ordered, Newest
  <2> QED BY <1>3, <1>r, <2>1, <2>2, <2>3
<1>4. ASSUME NEW c \in Caller,
             \/ row'[t] = Released(caller[c].snap, "cancelled")
             \/ row'[t] = [caller[c].snap EXCEPT !.status = "cancel_requested"]
      PROVE  FALSE
  BY <1>4, <1>c DEF Released, Row
<1>5. CASE row[t].status = "queued" /\ row'[t].attempt = row[t].attempt + 1
  BY <1>5, <1>k, <1>r, <1>c
<1>6. CASE Expired(row[t]) /\ row'[t] = Recovered(row[t])
  <2>1. \A s : Released(row[t], s).status = s /\ Released(row[t], s).attempt = row[t].attempt
    BY <1>r DEF Released, Row
  <2>2. row[t].status = "running" /\ row'[t].attempt = row[t].attempt
    BY <1>6, <2>1 DEF Expired, Recovered
  <2> QED BY <1>k, <2>2
<1>7. ASSUME NEW lease, row'[t] = [row[t] EXCEPT !.lease = lease]
      PROVE  Rises(row'[t])
  <2>1. row'[t].status = row[t].status /\ row'[t].attempt = row[t].attempt
    BY <1>7, <1>r DEF Row
  <2> QED BY <1>k, <2>1
<1> HIDE DEF Rises
<1> QED BY <1>1, <1>2, <1>3, <1>4, <1>5, <1>6, <1>7 DEF RowWrite

\* No write overtakes the copy of a worker that is about to mark its task.
LEMMA MarkLeads ==
  ASSUME Ordered, NEW t \in Task, RowWrite(t), NEW w \in Executor,
         exec[w].pc = "mark", exec[w].task = t, exec[w].rec.status = "running"
  PROVE  row'[t].attempt <= exec[w].rec.attempt
<1> DEFINE a == exec[w].rec.attempt
<1>r. row[t] \in Row /\ row[t].attempt \in Nat /\ a \in Nat
  BY BoundsAssumption DEF Ordered, Custody, WellFormed, GoodRows, GoodRow, Row,
     GoodExecs, GoodExec, ExecRecord
<1>c. \A c \in Caller : caller[c].snap \in Row
  BY BoundsAssumption DEF Ordered, Custody, WellFormed, GoodCalls, GoodCall, CallRecord, Row
<1>k. /\ row[t].attempt <= a
      /\ \A c \in Caller : MidCancel(c, t) => caller[c].snap.attempt <= a
  BY DEF Ordered, Newest
<1>x. Executing(w, t) /\ row[t].status \notin {"absent", "queued"}
  BY DEF Executing, Ordered, Custody, Held
<1>1. ASSUME NEW p \in Api, checking[p] = t PROVE FALSE
  BY <1>1, <1>x DEF Ordered, Genuine, Fresh
<1>2. ASSUME NEW v \in Executor, exec[v].task = t, exec[v].pc \in {"mark", "save"}
      PROVE  v = w
  BY <1>2, <1>x DEF Executing, Ordered, Custody, OneWorker
<1>3. ASSUME NEW c \in Caller, caller[c].task = t, caller[c].pc \in {"overwrite", "force"},
             \/ row'[t] = Released(caller[c].snap, "cancelled")
             \/ row'[t] = [caller[c].snap EXCEPT !.status = "cancel_requested"]
      PROVE  row'[t].attempt <= a
  <2>1. row'[t].attempt = caller[c].snap.attempt
    BY <1>3, <1>c DEF Released, Row
  <2>2. MidCancel(c, t)
    BY <1>3 DEF MidCancel
  <2> QED BY <1>k, <2>1, <2>2
<1>4. CASE Expired(row[t]) /\ row'[t] = Recovered(row[t])
  <2>1. \A s : Released(row[t], s).attempt = row[t].attempt
    BY <1>r DEF Released, Row
  <2> QED BY <1>4, <1>k, <2>1 DEF Recovered
<1>5. ASSUME NEW lease, row'[t] = [row[t] EXCEPT !.lease = lease]
      PROVE  row'[t].attempt = row[t].attempt
  BY <1>5, <1>r DEF Row
<1>6. a <= a
  BY <1>r
<1> QED BY <1>1, <1>2, <1>3, <1>4, <1>5, <1>6, <1>k, <1>x DEF RowWrite

LEMMA OrderedStep == ~Stalls /\ Ordered /\ [Next]_vars => Ordered'
<1> SUFFICES ASSUME ~Stalls, Ordered, [Next]_vars PROVE Ordered'
  OBVIOUS
<1>1. Custody' /\ Genuine'
  BY CustodyStep, GenuineStep DEF Ordered
<1>2. \A t \in Task : RowWrite(t)
  BY RowWrites DEF Ordered, Custody
<1>3. CopyJoins
  BY CopiesJoin DEF Ordered, Custody
<1>4. Newest'
  <2> SUFFICES ASSUME NEW t \in Task
               PROVE
                 /\ row'[t].status = "absent" => row'[t].attempt = 0
                 /\ row'[t].status \in {"queued", "running"} =>
                      \A c \in Caller : MidCancel(c, t)' =>
                        caller'[c].snap.attempt <= row'[t].attempt
                 /\ \A w \in Executor :
                      exec'[w].pc = "mark" /\ exec'[w].task = t
                        /\ exec'[w].rec.status = "running" =>
                        /\ row'[t].attempt <= exec'[w].rec.attempt
                        /\ \A c \in Caller : MidCancel(c, t)' =>
                             caller'[c].snap.attempt <= exec'[w].rec.attempt
    BY DEF Newest
  <2>t. row[t].attempt \in Nat /\ row'[t].attempt \in Nat
    BY <1>1, BoundsAssumption DEF Ordered, Custody, WellFormed, GoodRows, GoodRow, Row
  <2>s. \A c \in Caller : MidCancel(c, t)' =>
          \/ MidCancel(c, t) /\ caller'[c].snap.attempt = caller[c].snap.attempt
          \/ caller'[c].snap.attempt = 0
          \/ row' = row /\ caller'[c].snap.attempt = row[t].attempt
    BY <1>3 DEF CopyJoins, NoRow
  <2>1. row'[t].status = "absent" => row'[t].attempt = 0
    <3> SUFFICES ASSUME row'[t].status = "absent" PROVE row'[t].attempt = 0
      OBVIOUS
    <3>1. row[t].status = "absent"
      BY <1>2, PresentKept DEF Ordered
    <3>2. row'[t] = row[t]
      BY <1>2, <3>1, AbsentKept DEF Ordered, QueuedRow, NoRow
    <3> QED BY <3>1, <3>2 DEF Ordered, Newest
  <2>2. ASSUME row'[t].status \in {"queued", "running"}, NEW c \in Caller, MidCancel(c, t)'
        PROVE  caller'[c].snap.attempt <= row'[t].attempt
    <3>1. MidCancel(c, t) => caller[c].snap.attempt <= row'[t].attempt
      BY <1>2, <2>2, AttemptRises
    <3> QED BY <2>2, <2>s, <2>t, <3>1
  <2>3. ASSUME NEW w \in Executor, exec'[w].pc = "mark", exec'[w].task = t,
               exec'[w].rec.status = "running"
        PROVE  /\ row'[t].attempt <= exec'[w].rec.attempt
               /\ \A c \in Caller : MidCancel(c, t)' =>
                    caller'[c].snap.attempt <= exec'[w].rec.attempt
    <3>n. exec'[w].rec.attempt \in Nat
      BY <1>1, BoundsAssumption
         DEF Custody, WellFormed, GoodExecs, GoodExec, ExecRecord, Row
    <3>1. CASE exec[w].pc = "mark" /\ exec'[w].rec = exec[w].rec
      <4>1. exec[w].task = t
        BY <1>3, <2>3 DEF CopyJoins
      <4>2. row'[t].attempt <= exec[w].rec.attempt
        BY <1>2, <2>3, <3>1, <4>1, MarkLeads
      <4>3. /\ row[t].attempt <= exec[w].rec.attempt
            /\ \A c \in Caller : MidCancel(c, t) =>
                 caller[c].snap.attempt <= exec[w].rec.attempt
        BY <2>3, <3>1, <4>1 DEF Ordered, Newest
      <4> QED BY <2>s, <3>1, <3>n, <4>2, <4>3
    <3>2. CASE /\ exec[w].pc = "prepare" /\ row' = row
               /\ exec'[w].rec.attempt = row[exec[w].task].attempt
               /\ row[exec[w].task].status \notin Terminal \cup {"cancel_requested"}
      <4>1. exec[w].task = t
        BY <1>3, <2>3 DEF CopyJoins
      <4>2. row[t] \in Row /\ row[t].status \notin {"absent", "queued"}
        BY <3>2, <4>1, AtWork DEF Ordered
      <4>3. row[t].status = "running"
        BY <3>2, <4>1, <4>2 DEF Row, Active
      <4>4. \A c \in Caller : MidCancel(c, t) => caller[c].snap.attempt <= row[t].attempt
        BY <4>3 DEF Ordered, Newest
      <4> QED BY <2>s, <2>t, <3>2, <4>1, <4>4
    <3> QED BY <1>3, <2>3, <3>1, <3>2 DEF CopyJoins
  <2> QED BY <2>1, <2>2, <2>3
<1> QED BY <1>1, <1>4 DEF Ordered

LEMMA InitOrdered == Init => Ordered
<1>1. Init => Newest
  BY DEF Init, Newest, MidCancel, IdleExec, IdleCall, NoRow
<1> QED BY <1>1, InitCustody, InitGenuine DEF Ordered

\* While heartbeats are on time, the retry budget of subagent_max_attempts is
\* used up by every claim: no stale copy that _prepare or cancel writes back
\* gives a task that is still to run an attempt back.
THEOREM AttemptsKept == Spec => AttemptsNotRewound
<1>1. Ordered /\ [Next]_vars =>
        [~Stalls => \A t \in Task :
           row'[t].status \in {"queued", "running"}
             => row'[t].attempt >= row[t].attempt]_vars
  BY RowWrites, AttemptRises DEF Ordered, Custody
<1>2. CASE ~Stalls
  <2>1. Ordered /\ [Next]_vars => Ordered'
    BY <1>2, OrderedStep
  <2> QED
    BY <1>1, <2>1, InitOrdered, PTL DEF Spec, AttemptsNotRewound
<1>3. CASE Stalls
  <2>1. [Next]_vars =>
        [~Stalls => \A t \in Task :
           row'[t].status \in {"queued", "running"}
             => row'[t].attempt >= row[t].attempt]_vars
    BY <1>3
  <2> QED
    BY <2>1, PTL DEF Spec, AttemptsNotRewound
<1> QED BY <1>2, <1>3
---------------------------------------------------------------------------
(* The queue implements the documented status machine *)

\* Before the agent's result is saved.
Working(w) == exec[w].pc \notin {"idle", "claim", "finish"}

\* While nobody cancels: a task at work is running, under the attempt that the
\* worker's copy has, and is about to end as its agent ended.
UndisturbedWork ==
  \A w \in Executor : Working(w) =>
    /\ ~exec[w].cancel
    /\ row[exec[w].task].status = "running"
    /\ exec[w].pc \notin {"load", "prepare"} =>
         exec[w].rec.attempt = row[exec[w].task].attempt
    /\ exec[w].pc \in {"mark", "running", "route", "agent"} =>
         exec[w].rec.status = "running"
    /\ exec[w].pc = "save" => exec[w].rec.status \in AgentOutcome

\* A submission under way has room for its task.
RoomLeft ==
  /\ IsFiniteSet(ActiveTasks)
  /\ \A p \in Api : checking[p] # None => Cardinality(ActiveTasks) < ParallelLimit

Undisturbed ==
  /\ \A t \in Task : row[t].status # "cancel_requested"
  /\ UndisturbedWork
  /\ RoomLeft

Plain == Ordered /\ (Uncancelled => Undisturbed)

\* What a worker with a task does in one step.
WorkStep(w) ==
  Working(w)' =>
    \/ \E t \in Task : /\ exec'[w].task = t /\ exec'[w].pc = "load" /\ ~exec'[w].cancel
                       /\ row'[t].status = "running"
    \/ /\ Working(w) /\ exec'[w].task = exec[w].task
       /\ exec[w].pc = "save" => exec'[w].pc = "save"
       /\ exec'[w].cancel => \/ exec[w].cancel
                             \/ row[exec[w].task].status = "cancel_requested"
                             \/ row[exec[w].task].worker # w
       /\ \/ exec'[w].pc = exec[w].pc /\ exec'[w].rec = exec[w].rec
          \/ exec'[w].pc = "prepare"
          \/ /\ exec[w].pc = "prepare" /\ exec'[w].pc = "route"
             /\ row[exec[w].task].status \in Terminal
          \/ /\ exec[w].pc = "prepare" /\ exec'[w].pc = "mark"
             /\ exec'[w].rec.attempt = row[exec[w].task].attempt
             /\ \/ exec[w].cancel \/ row[exec[w].task].status = "cancel_requested"
                \/ exec'[w].rec.status = "running"
          \/ /\ exec[w].pc \in {"mark", "running", "route"} /\ exec'[w].rec = exec[w].rec
             /\ exec'[w].pc \in {"running", "route", "agent"}
          \/ exec[w].pc = "route" /\ exec[w].cancel
          \/ /\ exec[w].pc = "agent" /\ exec'[w].pc = "save"
             /\ exec'[w].rec.attempt = exec[w].rec.attempt
             /\ exec[w].cancel \/ exec'[w].rec.status \in AgentOutcome

LEMMA WorkSteps == WellFormed /\ [Next]_vars => \A w \in Executor : WorkStep(w)
<1> SUFFICES ASSUME WellFormed, [Next]_vars PROVE \A w \in Executor : WorkStep(w)
  OBVIOUS
<1> USE DEF WellFormed
<1>g. \A w \in Executor : exec[w] \in ExecRecord
  BY DEF GoodExecs, GoodExec
<1>e. ASSUME NEW w \in Executor, exec'[w] = exec[w] PROVE WorkStep(w)
  BY <1>e DEF WorkStep, Working
<1>n. ASSUME NEW w \in Executor, exec'[w].pc \in {"idle", "claim", "finish"} PROVE WorkStep(w)
  BY <1>n DEF WorkStep, Working
<1>1. ASSUME NEW p \in Api, SubmitStep(p) PROVE exec' = exec
  BY <1>1 DEF SubmitStep, SubmitCheck, SubmitCreate
<1>2. ASSUME NEW t \in Task, FinishSubmit(t) \/ LoseSubmit(t) \/ ExpireLease(t)
      PROVE  exec' = exec
  BY <1>2 DEF FinishSubmit, LoseSubmit, ExpireLease
<1>3. ASSUME NEW c \in Caller, Cancel(c) PROVE exec' = exec
  BY <1>3 DEF Cancel, CancelRequest, CancelStep, CancelReread, CancelOverwrite,
     CancelVerify, CancelAnnounce, CancelForce
<1>4. ASSUME NEW w \in Executor, WorkerStep(w) \/ Heartbeat(w) \/ HeartbeatFails(w) \/ Abandon(w)
      PROVE  \A v \in Executor \ {w} : exec'[v] = exec[v]
  BY <1>4 DEF GoodExecs, WorkerStep, RequeueExpiredLeases, Claim, ClaimNothing, Load,
     GraphStep, Prepare, Mark, AnnounceRunning, RouteToAgent, RouteToFinalize,
     AgentReturn, Save, AnnounceFinished, Heartbeat, HeartbeatFails, Abandon
<1>5. ASSUME NEW w \in Executor,
             ClaimNothing(w) \/ AnnounceFinished(w) \/ Abandon(w) \/ RequeueExpiredLeases(w)
               \/ Save(w)
      PROVE  WorkStep(w)
  <2>1. exec'[w].pc \in {"idle", "claim", "finish"}
    BY <1>5, <1>g DEF GoodExecs, ClaimNothing, AnnounceFinished, Abandon, IdleExec,
       RequeueExpiredLeases, Save, ExecRecord
  <2> QED BY <1>n, <2>1
<1>6. ASSUME NEW w \in Executor, NEW t \in Task, Claim(w, t) PROVE WorkStep(w)
  <2>1. exec'[w].task = t /\ exec'[w].pc = "load" /\ ~exec'[w].cancel
    BY <1>6 DEF Claim, IdleExec, GoodExecs
  <2>2. row'[t].status = "running"
    BY <1>6 DEF Claim, GoodRows, GoodRow, Row
  <2> QED BY <2>1, <2>2 DEF WorkStep
<1>7. ASSUME NEW w \in Executor, Load(w) PROVE WorkStep(w)
  <2>1. /\ exec[w].pc = "load" /\ exec'[w].pc = "prepare" /\ exec'[w].task = exec[w].task
        /\ exec'[w].cancel => exec[w].cancel \/ row[exec[w].task].status = "cancel_requested"
    BY <1>7, <1>g DEF Load, GoodExecs, ExecRecord
  <2> QED BY <2>1 DEF WorkStep, Working
<1>8. ASSUME NEW w \in Executor, Prepare(w) PROVE WorkStep(w)
  <2> DEFINE r == row[exec[w].task]
             cancelling == exec[w].cancel \/ r.status = "cancel_requested"
             copy == [r EXCEPT !.status = IF cancelling THEN "cancel_requested"
                                          ELSE "running"]
             passed == [exec[w] EXCEPT !.rec = r, !.pc = "route"]
             marked == [exec[w] EXCEPT !.rec = copy, !.cancel = cancelling,
                                       !.pc = "mark"]
  <2>1. /\ exec[w].pc = "prepare"
        /\ \/ r.status \in Terminal /\ exec' = [exec EXCEPT ![w] = passed]
           \/ exec' = [exec EXCEPT ![w] = marked]
    BY <1>8 DEF Prepare
  <2>2. r \in Row
    BY <1>g, <2>1 DEF GoodExecs, GoodExec, GoodRows, GoodRow, ExecRecord
  <2>3. /\ passed.pc = "route" /\ passed.task = exec[w].task
        /\ passed.cancel = exec[w].cancel
    BY <1>g DEF ExecRecord
  <2>4. /\ marked.pc = "mark" /\ marked.task = exec[w].task
        /\ marked.rec = copy /\ marked.cancel = cancelling
    <3> HIDE DEF copy, cancelling
    <3> QED BY <1>g DEF ExecRecord
  <2>5. copy.attempt = r.attempt /\ (~cancelling => copy.status = "running")
    <3> HIDE DEF cancelling
    <3> QED BY <2>2 DEF Row
  <2> HIDE DEF passed, marked, copy
  <2>6. CASE r.status \in Terminal /\ exec' = [exec EXCEPT ![w] = passed]
    <3>1. exec'[w] = passed
      BY <2>6 DEF GoodExecs
    <3> QED BY <2>1, <2>3, <2>6, <3>1 DEF WorkStep, Working
  <2>7. CASE exec' = [exec EXCEPT ![w] = marked]
    <3>1. exec'[w] = marked
      BY <2>7 DEF GoodExecs
    <3> QED BY <2>1, <2>4, <2>5, <3>1 DEF WorkStep, Working
  <2> QED BY <2>1, <2>6, <2>7
<1>9. ASSUME NEW w \in Executor, Mark(w) \/ AnnounceRunning(w) \/ RouteToAgent(w)
      PROVE  WorkStep(w)
  <2>1. /\ exec[w].pc \in {"mark", "running", "route"} /\ exec'[w].rec = exec[w].rec
        /\ exec'[w].task = exec[w].task /\ exec'[w].cancel = exec[w].cancel
        /\ exec'[w].pc \in {"running", "route", "agent"}
    BY <1>9, <1>g DEF Mark, AnnounceRunning, RouteToAgent, GoodExecs, ExecRecord
  <2> QED BY <2>1 DEF WorkStep, Working
<1>10. ASSUME NEW w \in Executor, NEW s \in Terminal, exec[w].pc \in {"route", "agent"},
              exec' = [exec EXCEPT ![w] = Finalizing(w, s)],
              exec[w].pc = "route" => exec[w].cancel,
              exec[w].pc = "agent" => exec[w].cancel \/ s \in AgentOutcome
       PROVE  WorkStep(w)
  <2>1. exec'[w] = Finalizing(w, s)
    BY <1>10 DEF GoodExecs
  <2>2. CASE Skips(w)
    BY <1>n, <2>1, <2>2 DEF Finalizing, IdleExec
  <2>3. CASE ~Skips(w)
    <3> DEFINE x == [exec[w] EXCEPT !.rec = Released(exec[w].rec, s), !.pc = "save"]
    <3>1. exec[w].rec \in Row
      BY <1>g DEF ExecRecord
    <3>2. Released(exec[w].rec, s).attempt = exec[w].rec.attempt
          /\ Released(exec[w].rec, s).status = s
      BY <3>1 DEF Released, Row
    <3>3. /\ x.pc = "save" /\ x.task = exec[w].task /\ x.cancel = exec[w].cancel
          /\ x.rec = Released(exec[w].rec, s)
      BY <1>g DEF ExecRecord
    <3>4. exec'[w] = x
      BY <2>1, <2>3 DEF Finalizing
    <3> HIDE DEF x
    <3> QED BY <1>10, <3>2, <3>3, <3>4 DEF WorkStep, Working
  <2> QED BY <2>2, <2>3
<1>11. ASSUME NEW w \in Executor, RouteToFinalize(w) PROVE WorkStep(w)
  <2>1. "cancelled" \in Terminal
    BY DEF Terminal
  <2>2. exec[w].pc = "route" /\ exec[w].cancel
        /\ exec' = [exec EXCEPT ![w] = Finalizing(w, "cancelled")]
    BY <1>11 DEF RouteToFinalize
  <2> QED BY <1>10, <2>1, <2>2
<1>12. ASSUME NEW w \in Executor, NEW outcome \in AgentOutcome, AgentReturn(w, outcome)
       PROVE  WorkStep(w)
  <2> DEFINE s == IF exec[w].cancel THEN "cancelled" ELSE outcome
  <2>1. exec[w].pc = "agent" /\ exec' = [exec EXCEPT ![w] = Finalizing(w, s)]
    BY <1>12 DEF AgentReturn
  <2>2. s \in Terminal /\ (exec[w].cancel \/ s \in AgentOutcome)
    BY OutcomeAssumption DEF Terminal
  <2> HIDE DEF s
  <2> QED BY <1>10, <2>1, <2>2
<1>13. ASSUME NEW w \in Executor, Heartbeat(w) PROVE WorkStep(w)
  <2>1. /\ exec'[w].pc = exec[w].pc /\ exec'[w].task = exec[w].task
        /\ exec'[w].rec = exec[w].rec
        /\ exec'[w].cancel => \/ exec[w].cancel
                              \/ row[exec[w].task].status = "cancel_requested"
                              \/ row[exec[w].task].worker # w
    BY <1>13, <1>g DEF Heartbeat, GoodExecs, ExecRecord
  <2> QED BY <2>1 DEF WorkStep, Working
<1>h. ASSUME NEW w \in Executor, HeartbeatFails(w) PROVE WorkStep(w)
  <2>1. /\ exec'[w].pc = exec[w].pc /\ exec'[w].task = exec[w].task
        /\ exec'[w].rec = exec[w].rec /\ exec'[w].cancel = exec[w].cancel
    BY <1>h DEF HeartbeatFails, GoodExecs, GoodExec, ExecRecord
  <2> QED BY <2>1 DEF WorkStep, Working
<1>14. ASSUME NEW w \in Executor, WorkerStep(w) \/ Heartbeat(w) \/ HeartbeatFails(w) \/ Abandon(w)
       PROVE  WorkStep(w)
  BY <1>5, <1>6, <1>7, <1>8, <1>9, <1>11, <1>12, <1>13, <1>14, <1>h
     DEF WorkerStep, GraphStep
<1>15. CASE UNCHANGED vars
  BY <1>15, <1>e DEF vars, taskVars
<1> QED
  BY <1>1, <1>2, <1>3, <1>4, <1>14, <1>15, <1>e DEF Next
\* As long as nobody cancels, no call is under way.
LEMMA Quiet ==
  ASSUME WellFormed, [Next]_vars, Uncancelled'
  PROVE  Uncancelled /\ caller' = caller /\ \A c \in Caller : ~Cancel(c)
<1> USE DEF WellFormed
<1>1. ASSUME NEW c \in Caller, Cancel(c) PROVE caller'[c].pc # "idle"
  <2>1. CASE \E t \in Task : CancelRequest(c, t, "reread")
    BY <2>1 DEF CancelRequest, IdleCall, GoodCalls
  <2>2. ASSUME caller' = Return(c) PROVE caller'[c].pc = "done"
    BY <2>2 DEF Return, GoodCalls, GoodCall, CallRecord
  <2>3. CASE CancelReread(c)
    BY <2>2, <2>3 DEF CancelReread, GoodCalls, GoodCall, CallRecord
  <2>4. CASE CancelOverwrite(c)
    BY <2>4 DEF CancelOverwrite, GoodCalls, GoodCall, CallRecord
  <2>5. CASE CancelVerify(c)
    BY <2>2, <2>5 DEF CancelVerify, GoodCalls, GoodCall, CallRecord
  <2>6. CASE CancelAnnounce(c) \/ CancelForce(c)
    BY <2>2, <2>6 DEF CancelAnnounce, CancelForce
  <2> QED BY <1>1, <2>1, <2>3, <2>4, <2>5, <2>6 DEF Cancel, CancelStep
<1>2. \A c \in Caller : ~Cancel(c)
  BY <1>1 DEF Uncancelled
<1>3. ASSUME NEW p \in Api, SubmitStep(p) PROVE caller' = caller
  BY <1>3 DEF SubmitStep, SubmitCheck, SubmitCreate
<1>4. ASSUME NEW t \in Task, FinishSubmit(t) \/ LoseSubmit(t) \/ ExpireLease(t)
      PROVE  caller' = caller
  BY <1>4 DEF FinishSubmit, AnnounceStarted, LoseSubmit, ExpireLease
<1>5. ASSUME NEW w \in Executor, WorkerStep(w) \/ Heartbeat(w) \/ HeartbeatFails(w) \/ Abandon(w)
      PROVE  caller' = caller
  BY <1>5 DEF WorkerStep, RequeueExpiredLeases, Claim, ClaimNothing, Load, GraphStep,
     Prepare, Mark, AnnounceRunning, RouteToAgent, RouteToFinalize, AgentReturn, Save,
     AnnounceFinished, Heartbeat, HeartbeatFails, Abandon
<1>6. caller' = caller
  BY <1>2, <1>3, <1>4, <1>5 DEF Next, vars, taskVars
<1> QED BY <1>2, <1>6 DEF Uncancelled

\* What may happen to a record while nobody cancels.
QuietWrite(t) ==
  \/ row'[t].status = row[t].status /\ row'[t].attempt = row[t].attempt
  \/ /\ row[t].status = "absent" /\ row'[t] = QueuedRow
     /\ \E p \in Api : checking[p] = t /\ checking'[p] # t
  \/ \E w \in Executor : /\ exec[w].task = t /\ exec[w].pc = "save" /\ exec'[w].pc # "save"
                         /\ row[t].status = "running" /\ row'[t] = exec[w].rec
  \/ row[t].status = "queued" /\ row'[t].status = "running"
  \/ Expired(row[t]) /\ row[t].status = "running" /\ row'[t] = Recovered(row[t])

LEMMA QuietWrites ==
  ASSUME Ordered, Uncancelled, Undisturbed, NEW t \in Task, RowWrite(t)
  PROVE  QuietWrite(t)
<1>r. row[t] \in Row /\ row[t].status # "cancel_requested"
  BY DEF Ordered, Custody, WellFormed, GoodRows, GoodRow, Undisturbed
<1>1. ASSUME NEW p \in Api, checking[p] = t, checking'[p] # t, row'[t] = QueuedRow
      PROVE  QuietWrite(t)
  BY <1>1 DEF Ordered, Genuine, Fresh, QuietWrite
<1>2. ASSUME NEW w \in Executor, exec[w].task = t, exec[w].pc \in {"mark", "save"},
             exec'[w].pc # exec[w].pc, row'[t] = exec[w].rec
      PROVE  QuietWrite(t)
  <2>1. /\ row[t].status = "running" /\ exec[w].rec.attempt = row[t].attempt
        /\ exec[w].pc = "mark" => exec[w].rec.status = "running"
    BY <1>2 DEF Undisturbed, UndisturbedWork, Working
  <2> QED BY <1>2, <2>1 DEF QuietWrite
<1>3. \A c \in Caller : caller[c].pc \notin {"overwrite", "force"}
  BY DEF Uncancelled
<1>4. CASE Expired(row[t]) /\ row'[t] = Recovered(row[t])
  BY <1>4, <1>r DEF Expired, QuietWrite
<1>5. ASSUME NEW lease, row'[t] = [row[t] EXCEPT !.lease = lease] PROVE QuietWrite(t)
  <2>1. row'[t].status = row[t].status /\ row'[t].attempt = row[t].attempt
    BY <1>5, <1>r DEF Row
  <2> QED BY <2>1 DEF QuietWrite
<1>6. CASE row'[t] = row[t]
  BY <1>6 DEF QuietWrite
<1>7. CASE row[t].status = "queued" /\ row'[t].status = "running"
  BY <1>7 DEF QuietWrite
<1> QED BY <1>1, <1>2, <1>3, <1>4, <1>5, <1>6, <1>7 DEF RowWrite

\* The record of a task at work stands still until its worker saves the result.
LEMMA TaskKept ==
  ASSUME Ordered, Undisturbed, NEW w \in Executor, Working(w),
         exec[w].pc = "save" => exec'[w].pc = "save", QuietWrite(exec[w].task)
  PROVE  /\ row'[exec[w].task].status = "running"
         /\ row'[exec[w].task].attempt = row[exec[w].task].attempt
<1> DEFINE t == exec[w].task
<1>1. exec[w].pc \notin {"idle", "claim"} /\ row[t].status = "running"
  BY DEF Undisturbed, UndisturbedWork, Working
<1>2. t \in Task /\ Executing(w, t) /\ row[t].lease = "live"
  BY <1>1, AtWork DEF Ordered
<1>3. ASSUME NEW v \in Executor, exec[v].task = t, exec[v].pc = "save" PROVE v = w
  BY <1>2, <1>3 DEF Executing, Ordered, Custody, OneWorker
<1> QED BY <1>1, <1>2, <1>3 DEF QuietWrite, Expired

LEMMA UndisturbedStep ==
  ASSUME \A p, q \in Api : p = q, Ordered, Ordered', [Next]_vars,
         Uncancelled', Undisturbed
  PROVE  Undisturbed'
<1>1. Uncancelled
  BY Quiet DEF Ordered, Custody
<1>2. \A t \in Task : QuietWrite(t)
  BY <1>1, RowWrites, QuietWrites DEF Ordered, Custody
<1>3. /\ \A w \in Executor : WorkStep(w)
      /\ CheckJoins
  BY WorkSteps, ChecksJoin DEF Ordered, Custody
<1>r. \A t \in Task : row[t] \in Row
  BY DEF Ordered, Custody, WellFormed, GoodRows, GoodRow
<1>o. ASSUME NEW t \in Task, Expired(row[t]), row[t].status = "running",
             row'[t] = Recovered(row[t])
      PROVE  row'[t].status \in {"queued", "failed"}
  <2>1. \A s : Released(row[t], s).status = s
    BY <1>r DEF Released, Row
  <2> QED BY <1>o, <2>1 DEF Recovered
<1>d. ASSUME NEW w \in Executor, exec[w].pc = "save" PROVE exec[w].rec.status \in Terminal
  BY <1>d DEF Ordered, Custody, WellFormed, GoodExecs, GoodExec
<1>4. ASSUME NEW t \in Task PROVE row'[t].status # "cancel_requested"
  BY <1>2, <1>o, <1>d DEF Undisturbed, QuietWrite, QueuedRow, NoRow, Terminal
<1>5. ASSUME NEW w \in Executor, Working(w)'
      PROVE  /\ ~exec'[w].cancel
             /\ row'[exec'[w].task].status = "running"
             /\ exec'[w].pc \notin {"load", "prepare"} =>
                  exec'[w].rec.attempt = row'[exec'[w].task].attempt
             /\ exec'[w].pc \in {"mark", "running", "route", "agent"} =>
                  exec'[w].rec.status = "running"
             /\ exec'[w].pc = "save" => exec'[w].rec.status \in AgentOutcome
  <2>1. CASE \E t \in Task : /\ exec'[w].task = t /\ exec'[w].pc = "load" /\ ~exec'[w].cancel
                             /\ row'[t].status = "running"
    BY <2>1
  <2>2. CASE ~\E t \in Task : /\ exec'[w].task = t /\ exec'[w].pc = "load"
                              /\ ~exec'[w].cancel /\ row'[t].status = "running"
    <3>0. /\ Working(w) /\ exec'[w].task = exec[w].task
          /\ exec[w].pc = "save" => exec'[w].pc = "save"
      BY <1>3, <1>5, <2>2 DEF WorkStep
    <3>1. /\ exec[w].task \in Task
          /\ row[exec[w].task].status = "running" => row[exec[w].task].worker = w
      BY <3>0, AtWork DEF Ordered, Working
    <3>2. /\ row'[exec[w].task].status = "running"
          /\ row'[exec[w].task].attempt = row[exec[w].task].attempt
      BY <1>2, <3>0, <3>1, TaskKept
    <3>3. /\ ~exec[w].cancel
          /\ row[exec[w].task].status = "running"
          /\ exec[w].pc \notin {"load", "prepare"} =>
               exec[w].rec.attempt = row[exec[w].task].attempt
          /\ exec[w].pc \in {"mark", "running", "route", "agent"} =>
               exec[w].rec.status = "running"
          /\ exec[w].pc = "save" => exec[w].rec.status \in AgentOutcome
      BY <3>0 DEF Undisturbed, UndisturbedWork
    <3>4. /\ ~exec'[w].cancel
          /\ \/ exec'[w].pc = exec[w].pc /\ exec'[w].rec = exec[w].rec
             \/ exec'[w].pc = "prepare"
             \/ /\ exec[w].pc = "prepare" /\ exec'[w].pc = "mark"
                /\ exec'[w].rec.attempt = row[exec[w].task].attempt
                /\ exec'[w].rec.status = "running"
             \/ /\ exec[w].pc \in {"mark", "running", "route"} /\ exec'[w].rec = exec[w].rec
                /\ exec'[w].pc \in {"running", "route", "agent"}
             \/ /\ exec[w].pc = "agent" /\ exec'[w].pc = "save"
                /\ exec'[w].rec.attempt = exec[w].rec.attempt
                /\ exec'[w].rec.status \in AgentOutcome
      BY <1>3, <1>5, <2>2, <3>1, <3>3 DEF WorkStep, Terminal
    <3> QED BY <3>0, <3>2, <3>3, <3>4
  <2> QED BY <2>1, <2>2
<1>6. RoomLeft'
  <2>1. IsFiniteSet(ActiveTasks) /\ (\A p \in Api : checking[p] # None =>
                                       Cardinality(ActiveTasks) < ParallelLimit)
    BY DEF Undisturbed, RoomLeft
  <2>2. ASSUME NEW t \in Task, row'[t].status \in Active
        PROVE  \/ t \in ActiveTasks
               \/ row[t].status = "absent" /\ \E p \in Api : checking[p] = t /\ checking'[p] # t
    BY <1>2, <1>d, <2>2 DEF QuietWrite, Active, ActiveTasks, Terminal
  <2>3. checking \in [Api -> Task \cup {None}] /\ checking' \in [Api -> Task \cup {None}]
    BY DEF Ordered, Custody, WellFormed, GoodRest
  <2>4. CASE \E t \in Task : /\ row'[t].status \in Active /\ row[t].status = "absent"
                             /\ \E p \in Api : checking[p] = t /\ checking'[p] # t
    <3>1. PICK t \in Task, p \in Api : /\ row'[t].status \in Active /\ row[t].status = "absent"
                                       /\ checking[p] = t /\ checking'[p] # t
      BY <2>4
    <3>2. \A u \in Task : checking'[p] # u
      BY <1>3, <3>1, NoneAssumption DEF CheckJoins, Active
    <3>3. \A q \in Api : checking'[q] = None
      BY <2>3, <3>2
    <3>4. ActiveTasks' \subseteq ActiveTasks \cup {t}
      BY <2>2, <3>1 DEF ActiveTasks
    <3>5. IsFiniteSet(ActiveTasks \cup {t})
      BY <2>1, FS_AddElement
    <3>6. IsFiniteSet(ActiveTasks')
      BY <3>4, <3>5, FS_Subset
    <3> QED BY <3>3, <3>6 DEF RoomLeft
  <2>5. CASE ~\E t \in Task : /\ row'[t].status \in Active /\ row[t].status = "absent"
                              /\ \E p \in Api : checking[p] = t /\ checking'[p] # t
    <3>1. ActiveTasks' \subseteq ActiveTasks
      BY <2>2, <2>5 DEF ActiveTasks
    <3>2. /\ IsFiniteSet(ActiveTasks') /\ Cardinality(ActiveTasks') <= Cardinality(ActiveTasks)
          /\ Cardinality(ActiveTasks) \in Nat /\ Cardinality(ActiveTasks') \in Nat
      BY <2>1, <3>1, FS_Subset, FS_CardinalityType
    <3>3. ASSUME NEW p \in Api, checking'[p] # None
          PROVE  Cardinality(ActiveTasks) < ParallelLimit
      <4>1. checking'[p] \in Task
        BY <2>3, <3>3
      <4> QED BY <1>3, <2>1, <4>1, <3>3, NoneAssumption DEF CheckJoins
    <3>4. ASSUME NEW p \in Api, checking'[p] # None
          PROVE  Cardinality(ActiveTasks') < ParallelLimit
      BY <3>2, <3>3, <3>4, BoundsAssumption
    <3> QED BY <3>2, <3>4 DEF RoomLeft
  <2> QED BY <2>4, <2>5
<1>7. UndisturbedWork'
  BY <1>5 DEF UndisturbedWork
<1> QED BY <1>4, <1>6, <1>7 DEF Undisturbed

LEMMA PlainStep ==
  ASSUME ~Stalls, \A p, q \in Api : p = q, Plain, [Next]_vars
  PROVE  Plain'
<1>1. Ordered /\ Ordered'
  BY OrderedStep DEF Plain
<1>2. ASSUME Uncancelled' PROVE Undisturbed'
  <2>1. Undisturbed
    BY <1>1, <1>2, Quiet DEF Plain, Ordered, Custody
  <2> QED BY <1>1, <1>2, <2>1, UndisturbedStep
<1> QED BY <1>1, <1>2 DEF Plain

LEMMA InitPlain == Init => Plain
<1> SUFFICES ASSUME Init PROVE Plain
  OBVIOUS
<1>1. \A t \in Task : row[t].status = "absent"
  BY DEF Init, NoRow
<1>2. ActiveTasks = {}
  BY <1>1 DEF ActiveTasks, Active
<1>3. RoomLeft
  BY <1>2, FS_EmptySet DEF Init, RoomLeft
<1>4. UndisturbedWork
  BY DEF Init, UndisturbedWork, Working, IdleExec
<1> QED BY <1>1, <1>3, <1>4, InitOrdered DEF Plain, Undisturbed

\* The abstract specification counts with the same Cardinality.
LEMMA SameCardinality == \A S : Lifecycle!Cardinality(S) = Cardinality(S)
BY DEF Lifecycle!Cardinality, Cardinality

LEMMA LifecycleStep ==
  ASSUME Plain, [Next]_vars, Uncancelled'
  PROVE  Lifecycle!Step
<1>1. Ordered /\ WellFormed /\ Custody
  BY DEF Plain, Ordered, Custody
<1>2. Uncancelled /\ Undisturbed /\ \A c \in Caller : ~Cancel(c)
  BY <1>1, Quiet DEF Plain
<1>r. \A t \in Task : row[t] \in Row
  BY <1>1 DEF WellFormed, GoodRows, GoodRow
<1>u. ASSUME UNCHANGED row PROVE Lifecycle!Step
  BY <1>u DEF Lifecycle!Step
<1>s. ASSUME NEW t \in Task, NEW r, row' = [row EXCEPT ![t] = r],
             r.status = row[t].status, r.attempt = row[t].attempt
      PROVE  Lifecycle!Step
  <2>1. \A u \in Task : row'[u] = IF u = t THEN r ELSE row[u]
    BY <1>1, <1>s DEF WellFormed, GoodRows
  <2>2. [u \in Task |-> row'[u].status] = [u \in Task |-> row[u].status]
    BY <1>s, <2>1
  <2>3. [u \in Task |-> row'[u].attempt] = [u \in Task |-> row[u].attempt]
    BY <1>s, <2>1
  <2> QED BY <2>2, <2>3 DEF Lifecycle!Step
<1>3. ASSUME NEW p \in Api, SubmitCreate(p) PROVE Lifecycle!Step
  <2>1. PICK t \in Task : t = checking[p] /\ row' = [row EXCEPT ![t] = QueuedRow]
    BY <1>1, <1>3 DEF SubmitCreate, WellFormed, GoodRest
  <2>2. row[t].status = "absent" /\ row[t].attempt = 0
    BY <1>1, <2>1 DEF Ordered, Genuine, Fresh, Newest
  <2>3. QueuedRow.status = "queued" /\ QueuedRow.attempt = 0
    BY DEF QueuedRow, NoRow
  <2>4. Cardinality({u \in Task : row[u].status \in Active}) < ParallelLimit
    BY <1>2, <2>1, NoneAssumption DEF Undisturbed, RoomLeft, ActiveTasks
  <2>5. {u \in Task : [x \in Task |-> row[x].status][u] \in Lifecycle!Pending} =
          {u \in Task : row[u].status \in Active}
    BY DEF Lifecycle!Pending, Active
  <2>6. Lifecycle!Submit(t)
    <3>1. /\ [u \in Task |-> row'[u].status] =
              [[u \in Task |-> row[u].status] EXCEPT ![t] = "queued"]
          /\ [u \in Task |-> row'[u].attempt] = [u \in Task |-> row[u].attempt]
      <4>1. \A u \in Task : row'[u] = IF u = t THEN QueuedRow ELSE row[u]
        BY <1>1, <2>1 DEF WellFormed, GoodRows
      <4>2. \A u \in Task :
              /\ row'[u].status = IF u = t THEN "queued" ELSE row[u].status
              /\ row'[u].attempt = row[u].attempt
        BY <2>2, <2>3, <4>1
      <4> QED BY <4>2
    <3>2. Lifecycle!Cardinality({u \in Task : [x \in Task |-> row[x].status][u]
                                                 \in Lifecycle!Pending}) < ParallelLimit
      BY <2>4, <2>5, SameCardinality
    <3>3. [x \in Task |-> row[x].status][t] = "absent"
      BY <2>2
    <3> QED
      BY <3>1, <3>2, <3>3 DEF Lifecycle!Submit, Lifecycle!Become
  <2> QED BY <2>6 DEF Lifecycle!Step, Lifecycle!Next
<1>4. ASSUME NEW w \in Executor, NEW t \in Task, Claim(w, t) PROVE Lifecycle!Step
  <2> DEFINE r == [row[t] EXCEPT !.status = "running", !.worker = w, !.lease = "live",
                                 !.attempt = @ + 1]
  <2>1. row[t].status = "queued" /\ row' = [row EXCEPT ![t] = r]
    BY <1>4 DEF Claim
  <2>2. r.status = "running" /\ r.attempt = row[t].attempt + 1
    BY <1>r DEF Row
  <2>3. row[t].attempt < MaxAttempts
    BY <1>1, <2>1 DEF WellFormed, GoodRows, GoodRow
  <2> HIDE DEF r
  <2>4. Lifecycle!Start(t)
    <3>1. /\ [u \in Task |-> row'[u].status] =
              [[u \in Task |-> row[u].status] EXCEPT ![t] = "running"]
          /\ [u \in Task |-> row'[u].attempt] =
              [[u \in Task |-> row[u].attempt] EXCEPT ![t] = row[t].attempt + 1]
      <4>1. \A u \in Task : row'[u] = IF u = t THEN r ELSE row[u]
        BY <1>1, <2>1 DEF WellFormed, GoodRows
      <4>2. \A u \in Task :
              /\ row'[u].status = IF u = t THEN "running" ELSE row[u].status
              /\ row'[u].attempt = IF u = t THEN row[t].attempt + 1 ELSE row[u].attempt
        BY <2>2, <4>1
      <4> QED BY <4>2
    <3> QED BY <2>1, <2>3, <3>1 DEF Lifecycle!Start, Lifecycle!Become
  <2> QED BY <2>4 DEF Lifecycle!Step, Lifecycle!Next
<1>5. ASSUME NEW w \in Executor, RequeueExpiredLeases(w) PROVE Lifecycle!Step
  <2>0. PICK lost \in SUBSET Task : lost = {t \in Task : Expired(row[t])}
    OBVIOUS
  <2>1. \A t \in Task : row'[t] = IF t \in lost THEN Recovered(row[t]) ELSE row[t]
    BY <1>5, <2>0 DEF RequeueExpiredLeases
  <2>2. \A t \in lost : row[t].status = "running"
    BY <1>2, <2>0 DEF Expired, Undisturbed
  <2>3. ASSUME NEW t \in lost
        PROVE  /\ row'[t].attempt = row[t].attempt
               /\ row'[t].status = IF row[t].attempt < MaxAttempts THEN "queued" ELSE "failed"
    <3>1. \A s : Released(row[t], s).status = s /\ Released(row[t], s).attempt = row[t].attempt
      BY <1>r DEF Released, Row
    <3>2. row[t].attempt \in Nat /\ MaxAttempts \in Nat
      BY <1>r, BoundsAssumption DEF Row
    <3>3. row[t].attempt >= MaxAttempts <=> ~(row[t].attempt < MaxAttempts)
      BY <3>2
    <3> QED BY <2>1, <2>2, <3>1, <3>3 DEF Recovered
  <2>5. Lifecycle!LoseWorkers(lost)
    <3>1. [u \in Task |-> row'[u].status] =
            [t \in Task |-> IF t \notin lost THEN row[t].status
                            ELSE IF row[t].attempt < MaxAttempts THEN "queued"
                            ELSE "failed"]
      BY <2>1, <2>3
    <3>2. [u \in Task |-> row'[u].attempt] = [u \in Task |-> row[u].attempt]
      BY <2>1, <2>3
    <3> QED BY <2>2, <3>1, <3>2 DEF Lifecycle!LoseWorkers
  <2> QED BY <2>5 DEF Lifecycle!Step, Lifecycle!Next
<1>6. ASSUME NEW w \in Executor, Mark(w) PROVE Lifecycle!Step
  <2>1. exec[w].pc = "mark" /\ row' = [row EXCEPT ![exec[w].task] = exec[w].rec]
    BY <1>6 DEF Mark
  <2>2. exec[w].task \in Task
    BY <1>1, <2>1, AtWork
  <2>3. exec[w].rec.status = row[exec[w].task].status
        /\ exec[w].rec.attempt = row[exec[w].task].attempt
    BY <1>2, <2>1 DEF Undisturbed, UndisturbedWork, Working
  <2> QED BY <1>s, <2>1, <2>2, <2>3
<1>7. ASSUME NEW w \in Executor, Save(w) PROVE Lifecycle!Step
  <2>1. exec[w].pc = "save" /\ row' = [row EXCEPT ![exec[w].task] = exec[w].rec]
    BY <1>7 DEF Save
  <2>2. PICK t \in Task : t = exec[w].task
    BY <1>1, <2>1, AtWork
  <2>3. PICK s \in AgentOutcome : s = exec[w].rec.status
    BY <1>2, <2>1 DEF Undisturbed, UndisturbedWork, Working
  <2>4. row[t].status = "running" /\ exec[w].rec.attempt = row[t].attempt
    BY <1>2, <2>1, <2>2 DEF Undisturbed, UndisturbedWork, Working
  <2>5. /\ [u \in Task |-> row'[u].status] = [[u \in Task |-> row[u].status] EXCEPT ![t] = s]
        /\ [u \in Task |-> row'[u].attempt] = [u \in Task |-> row[u].attempt]
    <3>1. \A u \in Task : row'[u] = IF u = t THEN exec[w].rec ELSE row[u]
      BY <1>1, <2>1, <2>2 DEF WellFormed, GoodRows
    <3>2. \A u \in Task : /\ row'[u].status = IF u = t THEN s ELSE row[u].status
                          /\ row'[u].attempt = row[u].attempt
      BY <2>3, <2>4, <3>1
    <3> QED BY <3>2
  <2>6. Lifecycle!Finish(t, s)
    BY <2>4, <2>5 DEF Lifecycle!Finish, Lifecycle!Become
  <2> QED BY <2>6 DEF Lifecycle!Step, Lifecycle!Next
<1>8. ASSUME NEW t \in Task, ExpireLease(t) PROVE Lifecycle!Step
  <2>1. /\ row' = [row EXCEPT ![t] = [row[t] EXCEPT !.lease = "expired"]]
        /\ [row[t] EXCEPT !.lease = "expired"].status = row[t].status
        /\ [row[t] EXCEPT !.lease = "expired"].attempt = row[t].attempt
    BY <1>8, <1>r DEF ExpireLease, Row
  <2> QED BY <1>s, <2>1
<1>9. ASSUME NEW w \in Executor, Heartbeat(w) PROVE Lifecycle!Step
  <2> DEFINE t == exec[w].task
             r == [row[t] EXCEPT !.lease = "live"]
  <2>1. UNCHANGED row \/ row' = [row EXCEPT ![t] = r]
    BY <1>9 DEF Heartbeat
  <2>2. t \in Task
    BY <1>1, <1>9 DEF Heartbeat, WellFormed, GoodExecs, GoodExec, ExecRecord
  <2>3. r.status = row[t].status /\ r.attempt = row[t].attempt
    BY <1>r, <2>2 DEF Row
  <2> HIDE DEF t, r
  <2> QED BY <1>s, <1>u, <2>1, <2>2, <2>3
<1>10. ASSUME NEW w \in Executor,
              ClaimNothing(w) \/ Load(w) \/ Prepare(w) \/ AnnounceRunning(w) \/ RouteToAgent(w)
                \/ RouteToFinalize(w) \/ (\E outcome \in AgentOutcome : AgentReturn(w, outcome))
                \/ AnnounceFinished(w) \/ HeartbeatFails(w) \/ Abandon(w)
       PROVE  UNCHANGED row
  BY <1>10 DEF ClaimNothing, Load, Prepare, AnnounceRunning, RouteToAgent, RouteToFinalize,
               AgentReturn, AnnounceFinished, HeartbeatFails, Abandon
<1>11. ASSUME NEW t \in Task, FinishSubmit(t) \/ LoseSubmit(t) \/ \E p \in Api : SubmitCheck(p, t)
       PROVE  UNCHANGED row
  BY <1>11 DEF FinishSubmit, AnnounceStarted, LoseSubmit, SubmitCheck
<1>12. CASE UNCHANGED vars
  BY <1>12, <1>u DEF vars, taskVars
<1> QED
  BY <1>2, <1>3, <1>4, <1>5, <1>6, <1>7, <1>8, <1>9, <1>10, <1>11, <1>12, <1>u
     DEF Next, SubmitStep, WorkerStep, GraphStep

\* With one API process, whose _submission_lock then serialises every
\* submission, and heartbeats on time, the queue of any number of workers
\* implements the status machine of docs/INTERNAL_ARCHITECTURE.md section 13
\* with its bounds on attempts and on active tasks, step by step, as long as
\* nobody cancels.
THEOREM QueueImplementsLifecycle ==
  ASSUME \A p, q \in Api : p = q
  PROVE  Spec => FollowsLifecycle
<1>1. Init => Lifecycle!Init
  BY DEF Init, NoRow, Lifecycle!Init
<1>2. CASE ~Stalls
  <2>1. Plain /\ [Next]_vars => Plain'
    BY <1>2, PlainStep
  <2>2. Plain /\ [Next]_vars => [~Stalls /\ (Uncancelled)' => Lifecycle!Step]_vars
    BY LifecycleStep
  <2> QED
    BY <1>1, <2>1, <2>2, InitPlain, PTL DEF Spec, FollowsLifecycle
<1>3. CASE Stalls
  <2>1. [Next]_vars => [~Stalls /\ (Uncancelled)' => Lifecycle!Step]_vars
    BY <1>3
  <2> QED
    BY <1>1, <2>1, PTL DEF Spec, FollowsLifecycle
<1> QED BY <1>2, <1>3
=============================================================================
