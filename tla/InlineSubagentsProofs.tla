----------------------- MODULE InlineSubagentsProofs -----------------------
(***************************************************************************)
(* The inline backend: EarlyCancelDecides and FollowsLifecycle for any      *)
(* number of tasks, cancel calls and shutdowns.                             *)
(***************************************************************************)
EXTENDS InlineSubagents, FiniteSetTheorems, TLAPS

---------------------------------------------------------------------------
(* Types *)

\* Before the agent starts.
Early == {"wait", "prepare", "mark", "running", "route"}

\* The coroutine of a task works on that task only.
GoodExec(t, x) ==
  /\ x \in ExecRecord
  /\ x.pc \in {"idle", "agent", "save", "finish"} \cup Early
  /\ x.pc # "idle" => x.task = t
  /\ x.pc = "mark" => x.rec.status \in {"running", "cancel_requested"}
  /\ x.pc \in {"save", "finish"} => x.rec.status \in Terminal

GoodCall(x) == x \in CallRecord /\ (x.task = None => x.pc = "idle")

GoodRows  == row \in [Task -> Row]
GoodExecs == exec = [t \in Task |-> exec[t]] /\ \A t \in Task : GoodExec(t, exec[t])
GoodCalls == caller = [c \in Caller |-> caller[c]] /\ \A c \in Caller : GoodCall(caller[c])

GoodRest ==
  /\ checking \in [Api -> Task \cup {None}]
  /\ unannounced \subseteq Task
  /\ announced \in [Task -> SUBSET EventKind]
  /\ abandons \in 0..MaxAbandons

WellFormed == GoodRows /\ GoodExecs /\ GoodCalls /\ GoodRest

LEMMA ExecsKept ==
  ASSUME GoodExecs, NEW t \in Task, NEW x, GoodExec(t, x), exec' = [exec EXCEPT ![t] = x]
  PROVE  GoodExecs'
BY DEF GoodExecs

LEMMA CallsKept ==
  ASSUME GoodCalls, NEW c \in Caller, NEW x, GoodCall(x), caller' = [caller EXCEPT ![c] = x]
  PROVE  GoodCalls'
BY DEF GoodCalls

LEMMA ReleasedTyped ==
  ASSUME NEW r \in Row, NEW s \in Terminal
  PROVE  Released(r, s) \in Row /\ Released(r, s).status = s
BY NoneAssumption DEF Released, Row, Terminal

LEMMA IdleTyped == IdleExec \in ExecRecord /\ NoRow \in Row /\ QueuedRow \in Row
BY NoneAssumption, BoundsAssumption
   DEF IdleExec, NoRow, QueuedRow, ExecRecord, Row, Stage, Active

LEMMA IdleGood == ASSUME NEW t \in Task PROVE GoodExec(t, IdleExec)
BY IdleTyped DEF GoodExec, IdleExec

---------------------------------------------------------------------------
(* What one step does to a task *)

\* The coroutine of t goes from x to y while the row goes from r to s.
Worked(x, y, r, s) ==
  \/ /\ x.pc = "wait" /\ y.pc = "prepare"
     /\ y.cancel = x.cancel /\ s = r
  \/ /\ x.pc = "prepare" /\ y.pc = "route" /\ r.status \in Terminal
     /\ y.cancel = x.cancel /\ s = r
  \/ /\ x.pc = "prepare" /\ y.pc = "mark" /\ r.status \notin Terminal
     /\ x.cancel => y.cancel
     /\ ~ y.cancel => y.rec.status = "running"
     /\ s = r
  \/ /\ x.pc = "mark" /\ s = x.rec /\ y.cancel = x.cancel
     /\ y.pc = IF x.rec.status = "running" THEN "running" ELSE "route"
  \/ /\ x.pc = "running" /\ y.pc = "route" /\ y.cancel = x.cancel /\ s = r
  \/ /\ x.pc = "route" /\ y.pc = "agent" /\ ~ x.cancel /\ s = r
  \/ /\ x.pc \in {"route", "agent"} /\ y.pc = "save" /\ s = r
     /\ IF x.cancel THEN y.rec.status = "cancelled"
        ELSE x.pc = "agent" /\ y.rec.status \in AgentOutcome
  \/ /\ x.pc = "save" /\ y.pc = "finish" /\ s = x.rec /\ y.rec = x.rec

Dispatched(t) == [IdleExec EXCEPT !.pc = "wait", !.task = t]

TaskMove(t) ==
  \/ row'[t] = row[t] /\ exec'[t] = exec[t]
  \/ row'[t] = row[t] /\ exec'[t].pc = "idle"
  \/ /\ row'[t] = row[t] /\ exec[t].pc # "idle"
     /\ exec'[t] = [exec[t] EXCEPT !.cancel = TRUE]
  \/ row'[t] = row[t] /\ t \in unannounced /\ t \notin unannounced' /\ exec'[t] = Dispatched(t)
  \/ exec'[t] = exec[t] /\ row'[t] = QueuedRow /\ \E p \in Api : checking[p] = t /\ checking'[p] # t
  \/ Worked(exec[t], exec'[t], row[t], row'[t])
  \/ /\ exec'[t] = exec[t] /\ row'[t].status \in {"cancelled", "cancel_requested"}
     /\ \E c \in Caller : MidCancel(c, t)

\* The submissions and the cancel calls.
CheckMove ==
  /\ \A t \in unannounced' : \/ t \in unannounced
                             \/ (row'[t] = QueuedRow /\ \E p \in Api : checking[p] = t)
  /\ \A p \in Api : checking'[p] # None =>
       \/ checking'[p] = checking[p]
       \/ /\ row[checking'[p]].status = "absent" /\ row' = row
          /\ Cardinality(ActiveTasks) < ParallelLimit
          /\ \A q \in Api : checking[q] # checking'[p]
          /\ \A q \in Api \ {p} : checking'[q] = checking[q]

CallMove ==
  /\ \A c \in Caller, t \in Task :
       MidCancel(c, t)' => MidCancel(c, t) \/ row[t].status \in Active
  /\ \A c \in Caller : caller'[c].pc = "idle" => caller[c].pc = "idle"

SayMove ==
  \A t \in Task : /\ announced[t] \subseteq announced'[t]
                  /\ "running" \in announced'[t] /\ "running" \notin announced[t]
                       => exec[t].pc = "running" /\ exec'[t].pc = "route"
                  /\ exec[t].pc = "running" /\ exec'[t].pc = "route" => "running" \in announced'[t]

\* One row at a time.
RowMove == row' = row \/ \E t \in Task, s \in Row : row' = [row EXCEPT ![t] = s]

Moves == (\A t \in Task : TaskMove(t)) /\ CheckMove /\ CallMove /\ SayMove /\ RowMove

\* A step of one task's coroutine.
LEMMA OneMoves ==
  ASSUME WellFormed, NEW t \in Task, NEW x, GoodExec(t, x), exec' = [exec EXCEPT ![t] = x],
         NEW s \in Row, row' = [row EXCEPT ![t] = s],
         (s = row[t] /\ x.pc = "idle") \/ Worked(exec[t], x, row[t], s),
         UNCHANGED <<checking, unannounced, caller>>,
         announced' \in [Task -> SUBSET EventKind],
         \A u \in Task \ {t} : announced'[u] = announced[u],
         announced[t] \subseteq announced'[t],
         exec[t].pc = "running" /\ x.pc = "route" => "running" \in announced'[t],
         "running" \in announced'[t] /\ "running" \notin announced[t]
           => exec[t].pc = "running" /\ x.pc = "route",
         abandons' \in 0..MaxAbandons
  PROVE  WellFormed' /\ Moves
<1>1. GoodExecs' /\ exec'[t] = x /\ \A u \in Task \ {t} : exec'[u] = exec[u]
  BY ExecsKept DEF WellFormed, GoodExecs
<1>2. GoodRows' /\ row'[t] = s /\ \A u \in Task \ {t} : row'[u] = row[u]
  BY DEF WellFormed, GoodRows
<1>3. GoodCalls' /\ GoodRest'
  BY DEF WellFormed, GoodCalls, GoodRest
<1>4. \A u \in Task : TaskMove(u)
  BY <1>1, <1>2 DEF TaskMove
<1>5. CheckMove
  BY DEF CheckMove
<1>6. CallMove
  BY DEF CallMove, MidCancel
<1>7. SayMove
  BY <1>1 DEF SayMove
<1>8. RowMove
  BY DEF RowMove
<1> QED BY <1>1, <1>2, <1>3, <1>4, <1>5, <1>6, <1>7, <1>8 DEF WellFormed, Moves

\* The same when nothing is announced.
LEMMA SilentMoves ==
  ASSUME WellFormed, NEW t \in Task, NEW x, GoodExec(t, x), exec' = [exec EXCEPT ![t] = x],
         NEW s \in Row, row' = [row EXCEPT ![t] = s],
         (s = row[t] /\ x.pc = "idle") \/ Worked(exec[t], x, row[t], s),
         exec[t].pc # "running" \/ x.pc # "route",
         UNCHANGED <<checking, unannounced, caller, announced>>, abandons' \in 0..MaxAbandons
  PROVE  WellFormed' /\ Moves
<1>1. announced' \in [Task -> SUBSET EventKind]
  BY DEF WellFormed, GoodRest
<1> QED BY <1>1, OneMoves

\* A step that leaves the rows alone.
LEMMA CoroutineStays ==
  ASSUME WellFormed, NEW t \in Task, NEW x, GoodExec(t, x), exec' = [exec EXCEPT ![t] = x],
         x.pc = "idle" \/ Worked(exec[t], x, row[t], row[t]),
         exec[t].pc # "running" \/ x.pc # "route",
         UNCHANGED <<row, checking, unannounced, caller, announced>>,
         abandons' \in 0..MaxAbandons
  PROVE  WellFormed' /\ Moves
<1>1. row[t] \in Row /\ row' = [row EXCEPT ![t] = row[t]]
  BY DEF WellFormed, GoodRows
<1> QED BY <1>1, SilentMoves

LEMMA CoroutineMoves ==
  ASSUME WellFormed, NEW t \in Task, Coroutine(t)
  PROVE  WellFormed' /\ Moves
<1> USE InlineAssumption
<1>x. /\ GoodExec(t, exec[t]) /\ exec[t] \in ExecRecord /\ row[t] \in Row
      /\ exec[t].rec \in Row /\ exec[t].cancel \in BOOLEAN
  <2>1. GoodExec(t, exec[t]) /\ exec[t] \in ExecRecord /\ row[t] \in Row
    BY DEF WellFormed, GoodExecs, GoodExec, GoodRows
  <2>2. exec[t].rec \in Row /\ exec[t].cancel \in BOOLEAN
    BY <2>1 DEF ExecRecord
  <2> QED BY <2>1, <2>2
<1>t. exec[t].pc # "idle" => exec[t].task = t
  BY <1>x DEF GoodExec
<1>a. abandons' = abandons => abandons' \in 0..MaxAbandons
  BY DEF WellFormed, GoodRest
<1>p. ASSUME NEW pc \in Early \cup {"agent"},
             exec[t].pc # "idle", pc # "mark"
      PROVE  /\ GoodExec(t, [exec[t] EXCEPT !.pc = pc])
             /\ [exec[t] EXCEPT !.pc = pc].pc = pc
             /\ [exec[t] EXCEPT !.pc = pc].cancel = exec[t].cancel
  BY <1>x, <1>p DEF GoodExec, ExecRecord, Stage, Early
<1>1. CASE Acquire(t)
  <2>1. /\ exec[t].pc = "wait" /\ exec' = [exec EXCEPT ![t] = [exec[t] EXCEPT !.pc = "prepare"]]
        /\ UNCHANGED <<row, checking, unannounced, caller, announced, abandons>>
    BY <1>1 DEF Acquire
  <2> DEFINE x == [exec[t] EXCEPT !.pc = "prepare"]
  <2>2. GoodExec(t, x) /\ x.pc = "prepare" /\ x.cancel = exec[t].cancel
    BY <1>p, <2>1 DEF Early
  <2> HIDE DEF x
  <2>3. exec' = [exec EXCEPT ![t] = x] /\ Worked(exec[t], x, row[t], row[t])
    BY <2>1, <2>2 DEF Worked, x
  <2> QED BY <1>a, <2>1, <2>2, <2>3, CoroutineStays
<1>2. CASE Prepare(t)
  <2> DEFINE r == row[t]
             cancelling == exec[t].cancel \/ r.status = "cancel_requested"
             copy == [r EXCEPT !.status = IF cancelling THEN "cancel_requested" ELSE "running"]
             passed == [exec[t] EXCEPT !.rec = r, !.pc = "route"]
             marked == [exec[t] EXCEPT !.rec = copy, !.cancel = cancelling, !.pc = "mark"]
  <2>1. /\ exec[t].pc = "prepare"
        /\ \/ r.status \in Terminal /\ exec' = [exec EXCEPT ![t] = passed]
           \/ r.status \notin Terminal /\ exec' = [exec EXCEPT ![t] = marked]
        /\ UNCHANGED <<row, checking, unannounced, caller, announced, abandons>>
    BY <1>2, <1>t, ZenonT(40) DEF Prepare
  <2>2. CASE r.status \in Terminal /\ exec' = [exec EXCEPT ![t] = passed]
    <3>1. GoodExec(t, passed) /\ passed.pc = "route" /\ passed.cancel = exec[t].cancel
      BY <1>x, <1>t, <2>1 DEF GoodExec, ExecRecord, Stage, Early
    <3> HIDE DEF passed
    <3>2. Worked(exec[t], passed, row[t], row[t])
      BY <2>1, <2>2, <3>1 DEF Worked
    <3> QED BY <1>a, <2>1, <2>2, <3>1, <3>2, CoroutineStays
  <2>3. CASE r.status \notin Terminal /\ exec' = [exec EXCEPT ![t] = marked]
    <3>1. cancelling \in BOOLEAN /\ (exec[t].cancel => cancelling)
      BY <1>x
    <3>2. /\ copy \in Row /\ copy.status \in {"running", "cancel_requested"}
          /\ ~ cancelling => copy.status = "running"
      <4> HIDE DEF cancelling
      <4> QED BY <1>x, <3>1 DEF Row, Active
    <3>3. /\ GoodExec(t, marked) /\ marked.pc = "mark" /\ marked.cancel = cancelling
          /\ marked.rec = copy
      <4> HIDE DEF copy, cancelling
      <4> QED BY <1>x, <1>t, <2>1, <3>1, <3>2 DEF GoodExec, ExecRecord, Stage, Early
    <3> HIDE DEF marked, copy, cancelling
    <3>4. Worked(exec[t], marked, row[t], row[t])
      BY <2>1, <2>3, <3>1, <3>2, <3>3 DEF Worked
    <3> QED BY <1>a, <2>1, <2>3, <3>3, <3>4, CoroutineStays
  <2> QED BY <2>1, <2>2, <2>3
<1>3. CASE Mark(t)
  <2> DEFINE x == [exec[t] EXCEPT !.pc = IF exec[t].rec.status = "running" THEN "running"
                                         ELSE "route"]
             s == exec[t].rec
  <2>1. /\ exec[t].pc = "mark" /\ row' = [row EXCEPT ![t] = s] /\ exec' = [exec EXCEPT ![t] = x]
        /\ UNCHANGED <<checking, unannounced, caller, announced, abandons>>
    BY <1>3, <1>t DEF Mark
  <2>2. /\ GoodExec(t, x) /\ x.cancel = exec[t].cancel
        /\ x.pc = IF s.status = "running" THEN "running" ELSE "route"
    BY <1>x, <1>t, <2>1 DEF GoodExec, ExecRecord, Stage, Early
  <2> HIDE DEF x
  <2>3. Worked(exec[t], x, row[t], s)
    BY <2>1, <2>2 DEF Worked
  <2> QED BY <1>a, <1>x, <2>1, <2>2, <2>3, SilentMoves
<1>4. CASE AnnounceRunning(t)
  <2> DEFINE x == [exec[t] EXCEPT !.pc = "route"]
  <2>1. /\ exec[t].pc = "running" /\ exec' = [exec EXCEPT ![t] = x]
        /\ announced' = [announced EXCEPT ![t] = @ \cup {"running"}]
        /\ UNCHANGED <<row, checking, unannounced, caller, abandons>>
    BY <1>4, <1>t DEF AnnounceRunning
  <2>2. GoodExec(t, x) /\ x.pc = "route" /\ x.cancel = exec[t].cancel
    BY <1>p, <2>1 DEF Early
  <2> HIDE DEF x
  <2>3. Worked(exec[t], x, row[t], row[t]) /\ row' = [row EXCEPT ![t] = row[t]]
    BY <2>1, <2>2 DEF Worked, WellFormed, GoodRows
  <2>4. /\ announced' \in [Task -> SUBSET EventKind]
        /\ announced'[t] = announced[t] \cup {"running"}
        /\ \A u \in Task \ {t} : announced'[u] = announced[u]
    BY <2>1 DEF WellFormed, GoodRest, EventKind
  <2> QED BY <1>a, <1>x, <2>1, <2>2, <2>3, <2>4, OneMoves
<1>5. CASE RouteToAgent(t)
  <2> DEFINE x == [exec[t] EXCEPT !.pc = "agent"]
  <2>1. /\ exec[t].pc = "route" /\ ~ exec[t].cancel /\ exec' = [exec EXCEPT ![t] = x]
        /\ UNCHANGED <<row, checking, unannounced, caller, announced, abandons>>
    BY <1>5 DEF RouteToAgent
  <2>2. GoodExec(t, x) /\ x.pc = "agent" /\ x.cancel = exec[t].cancel
    BY <1>p, <2>1 DEF Early
  <2> HIDE DEF x
  <2>3. Worked(exec[t], x, row[t], row[t])
    BY <2>1, <2>2 DEF Worked
  <2> QED BY <1>a, <2>1, <2>2, <2>3, CoroutineStays
<1>f. ASSUME NEW s \in Terminal, exec[t].pc \in {"route", "agent"},
             exec' = [exec EXCEPT ![t] = Finalizing(t, s)],
             UNCHANGED <<row, checking, unannounced, caller, announced, abandons>>,
             IF exec[t].cancel THEN s = "cancelled" ELSE exec[t].pc = "agent" /\ s \in AgentOutcome
      PROVE  WellFormed' /\ Moves
  <2> DEFINE x == [exec[t] EXCEPT !.rec = Released(exec[t].rec, s), !.pc = "save"]
  <2>1. CASE Skips(t)
    <3>1. exec' = [exec EXCEPT ![t] = IdleExec] /\ GoodExec(t, IdleExec) /\ IdleExec.pc = "idle"
      BY <1>f, <2>1, IdleGood DEF Finalizing, IdleExec
    <3> QED BY <1>a, <1>f, <3>1, CoroutineStays
  <2>2. CASE ~ Skips(t)
    <3>1. Released(exec[t].rec, s) \in Row /\ Released(exec[t].rec, s).status = s
      BY <1>x, ReleasedTyped
    <3>2. GoodExec(t, x) /\ x.pc = "save" /\ x.rec.status = s
      BY <1>x, <1>t, <1>f, <3>1 DEF GoodExec, ExecRecord, Stage, Early
    <3>3. exec' = [exec EXCEPT ![t] = x]
      BY <1>f, <2>2 DEF Finalizing
    <3> HIDE DEF x
    <3>4. Worked(exec[t], x, row[t], row[t])
      BY <1>f, <3>2 DEF Worked
    <3> QED BY <1>a, <1>f, <3>2, <3>3, <3>4, CoroutineStays
  <2> QED BY <2>1, <2>2
<1>6. CASE RouteToFinalize(t)
  <2>1. "cancelled" \in Terminal
    BY DEF Terminal
  <2> QED BY <1>6, <1>f, <2>1 DEF RouteToFinalize
<1>7. ASSUME NEW outcome \in AgentOutcome, AgentReturn(t, outcome)
      PROVE  WellFormed' /\ Moves
  <2> DEFINE s == IF exec[t].cancel THEN "cancelled" ELSE outcome
  <2>1. s \in Terminal /\ (IF exec[t].cancel THEN s = "cancelled" ELSE s \in AgentOutcome)
    BY OutcomeAssumption DEF Terminal
  <2>2. /\ exec[t].pc = "agent" /\ exec' = [exec EXCEPT ![t] = Finalizing(t, s)]
        /\ UNCHANGED <<row, checking, unannounced, caller, announced, abandons>>
    BY <1>7 DEF AgentReturn
  <2> HIDE DEF s
  <2> QED BY <1>f, <2>1, <2>2
<1>8. CASE Save(t)
  <2> DEFINE x == [exec[t] EXCEPT !.pc = "finish"]
             s == exec[t].rec
  <2>1. /\ exec[t].pc = "save" /\ row' = [row EXCEPT ![t] = s] /\ exec' = [exec EXCEPT ![t] = x]
        /\ UNCHANGED <<checking, unannounced, caller, announced, abandons>>
    BY <1>8, <1>t DEF Save
  <2>2. GoodExec(t, x) /\ x.pc = "finish" /\ x.rec = exec[t].rec
    BY <1>x, <1>t, <2>1 DEF GoodExec, ExecRecord, Stage, Early
  <2> HIDE DEF x
  <2>3. Worked(exec[t], x, row[t], s)
    BY <2>1, <2>2 DEF Worked
  <2> QED BY <1>a, <1>x, <2>1, <2>2, <2>3, SilentMoves
<1>9. CASE AnnounceFinished(t)
  <2>1. /\ exec[t].pc = "finish" /\ exec' = [exec EXCEPT ![t] = IdleExec]
        /\ announced' = [announced EXCEPT ![t] = @ \cup {exec[t].rec.status}]
        /\ UNCHANGED <<row, checking, unannounced, caller, abandons>>
    BY <1>9, <1>t DEF AnnounceFinished
  <2>2. GoodExec(t, IdleExec) /\ IdleExec.pc = "idle" /\ row' = [row EXCEPT ![t] = row[t]]
    BY <2>1, IdleGood DEF IdleExec, WellFormed, GoodRows
  <2>3. exec[t].rec.status \in Terminal
    BY <1>x, <2>1 DEF GoodExec
  <2>4. /\ announced' \in [Task -> SUBSET EventKind]
        /\ announced'[t] = announced[t] \cup {exec[t].rec.status}
        /\ \A u \in Task \ {t} : announced'[u] = announced[u]
    BY <2>1, <2>3 DEF WellFormed, GoodRest, EventKind
  <2>5. "running" \in announced'[t] => "running" \in announced[t]
    BY <2>3, <2>4 DEF Terminal
  <2> QED BY <1>a, <1>x, <2>1, <2>2, <2>4, <2>5, OneMoves, ZenonT(40)
<1> QED
  BY <1>1, <1>2, <1>3, <1>4, <1>5, <1>6, <1>7, <1>8, <1>9 DEF Coroutine, GraphStep

\* A step of a cancel call.
LEMMA CallMoves ==
  ASSUME WellFormed, NEW c \in Caller, Cancel(c)
  PROVE  WellFormed' /\ Moves
<1> USE InlineAssumption
<1>k. caller[c] \in CallRecord /\ caller[c].snap \in Row /\ GoodCall(caller[c])
  BY DEF WellFormed, GoodCalls, GoodCall, CallRecord
<1>t. caller[c].pc # "idle" => caller[c].task \in Task
  BY <1>k DEF GoodCall, CallRecord
<1>n. NoRow \in Row
  BY IdleTyped
\* Only the call moves, and maybe the row and the flag of its task.
<1>r. ASSUME NEW k, GoodCall(k), k.pc # "idle", caller' = [caller EXCEPT ![c] = k],
             \A t \in Task : k.task = t /\ k.pc \notin {"idle", "done"}
               => MidCancel(c, t) \/ row[t].status \in Active,
             GoodRows', GoodExecs', RowMove,
             \A t \in Task : TaskMove(t) /\ exec'[t].pc = exec[t].pc,
             UNCHANGED <<checking, unannounced, abandons>>,
             announced' \in [Task -> SUBSET EventKind],
             \A t \in Task : announced[t] \subseteq announced'[t]
                             /\ ("running" \in announced'[t] => "running" \in announced[t])
      PROVE  WellFormed' /\ Moves
  <2>1. GoodCalls' /\ caller'[c] = k /\ \A d \in Caller \ {c} : caller'[d] = caller[d]
    BY <1>r, CallsKept DEF WellFormed, GoodCalls
  <2>2. GoodRest'
    BY <1>r DEF WellFormed, GoodRest
  <2>3. CheckMove
    BY <1>r DEF CheckMove
  <2>4. CallMove
    BY <1>r, <2>1 DEF CallMove, MidCancel
  <2>5. SayMove
    BY <1>r DEF SayMove
  <2> QED BY <1>r, <2>1, <2>2, <2>3, <2>4, <2>5 DEF WellFormed, Moves
\* Only the call moves.
<1>s. ASSUME NEW k, GoodCall(k), k.pc # "idle", caller' = [caller EXCEPT ![c] = k],
             k.task = caller[c].task /\ (k.pc # "done" => caller[c].pc \notin {"idle", "done"}),
             UNCHANGED <<row, exec, checking, unannounced, announced, abandons>>
      PROVE  WellFormed' /\ Moves
  <2>1. \A t \in Task : TaskMove(t) /\ exec'[t].pc = exec[t].pc
    BY <1>s DEF TaskMove
  <2>2. GoodRows' /\ GoodExecs' /\ RowMove /\ announced' \in [Task -> SUBSET EventKind]
    BY <1>s DEF WellFormed, GoodRows, GoodExecs, GoodRest, RowMove
  <2>3. \A t \in Task : k.task = t /\ k.pc \notin {"idle", "done"} => MidCancel(c, t)
    BY <1>s DEF MidCancel
  <2> QED BY <1>r, <1>s, <2>1, <2>2, <2>3
\* The call writes the row of its task.
<1>w. ASSUME NEW k, GoodCall(k), k.pc # "idle", caller' = [caller EXCEPT ![c] = k],
             k.task = caller[c].task, caller[c].pc \notin {"idle", "done"},
             NEW s \in Row, s.status \in {"cancelled", "cancel_requested"},
             row' = [row EXCEPT ![caller[c].task] = s],
             UNCHANGED <<exec, checking, unannounced, announced, abandons>>
      PROVE  WellFormed' /\ Moves
  <2>1. \A t \in Task : row'[t] = IF t = caller[c].task THEN s ELSE row[t]
    BY <1>w DEF WellFormed, GoodRows
  <2>2. \A t \in Task : TaskMove(t) /\ exec'[t].pc = exec[t].pc
    BY <1>w, <2>1 DEF TaskMove, MidCancel
  <2>3. GoodRows' /\ GoodExecs' /\ announced' \in [Task -> SUBSET EventKind]
    BY <1>w DEF WellFormed, GoodRows, GoodExecs, GoodRest
  <2>5. RowMove
    BY <1>w, <1>t DEF RowMove
  <2>4. \A t \in Task : k.task = t => MidCancel(c, t)
    BY <1>w DEF MidCancel
  <2> QED BY <1>r, <1>w, <2>2, <2>3, <2>4, <2>5
<1>g. ASSUME NEW pc \in CallStage, NEW snap \in Row, caller[c].pc # "idle"
      PROVE  /\ GoodCall([caller[c] EXCEPT !.pc = pc, !.snap = snap])
             /\ [caller[c] EXCEPT !.pc = pc, !.snap = snap].pc = pc
             /\ [caller[c] EXCEPT !.pc = pc, !.snap = snap].task = caller[c].task
  BY <1>g, <1>k, <1>t, NoneAssumption DEF GoodCall, CallRecord
<1>1. ASSUME NEW t \in Task, CancelRequest(c, t, "signal") PROVE WellFormed' /\ Moves
  <2> DEFINE k == [IdleCall EXCEPT !.pc = "signal", !.task = t]
  <2>1. GoodCall(k) /\ k.task = t /\ k.pc # "idle"
    BY <1>n, NoneAssumption DEF GoodCall, IdleCall, CallRecord, CallStage
  <2>2. /\ row[t].status \in Active /\ caller' = [caller EXCEPT ![c] = k]
        /\ UNCHANGED <<row, checking, unannounced, exec, abandons>>
    BY <1>1 DEF CancelRequest
  <2> HIDE DEF k
  <2>3. \A u \in Task : TaskMove(u) /\ exec'[u].pc = exec[u].pc
    BY <2>2 DEF TaskMove
  <2>4. GoodRows' /\ GoodExecs' /\ RowMove
    BY <2>2 DEF WellFormed, GoodRows, GoodExecs, RowMove
  <2>5. /\ announced' \in [Task -> SUBSET EventKind]
        /\ \A u \in Task : announced[u] \subseteq announced'[u]
                           /\ ("running" \in announced'[u] => "running" \in announced[u])
    BY <1>1 DEF CancelRequest, WellFormed, GoodRest, EventKind
  <2> QED BY <1>r, <2>1, <2>2, <2>3, <2>4, <2>5
<1>2. CASE CancelSignal(c)
  <2> DEFINE t == caller[c].task
             k == [caller[c] EXCEPT !.pc = "reread"]
             x == [exec[t] EXCEPT !.cancel = TRUE]
  <2>1. /\ caller[c].pc = "signal" /\ caller' = [caller EXCEPT ![c] = k]
        /\ IF Registered(t) THEN exec' = [exec EXCEPT ![t] = x] ELSE exec' = exec
        /\ UNCHANGED <<row, checking, unannounced, announced, abandons>>
    BY <1>2 DEF CancelSignal
  <2>2. t \in Task /\ GoodCall(k) /\ k.task = t /\ k.pc # "idle" /\ MidCancel(c, t)
    BY <1>k, <1>t, <2>1 DEF GoodCall, CallRecord, CallStage, MidCancel
  <2>3. GoodExec(t, x) /\ x.pc = exec[t].pc
    BY <2>2 DEF WellFormed, GoodExecs, GoodExec, ExecRecord
  <2>4. GoodExecs' /\ GoodRows' /\ announced' \in [Task -> SUBSET EventKind]
    <3>1. GoodExecs'
      <4>1. CASE exec' = exec
        BY <4>1 DEF WellFormed, GoodExecs
      <4> HIDE DEF x, t
      <4>2. CASE exec' = [exec EXCEPT ![t] = x]
        BY <2>2, <2>3, <4>2, ExecsKept DEF WellFormed
      <4> QED BY <2>1, <4>1, <4>2
    <3> QED BY <2>1, <3>1 DEF WellFormed, GoodRows, GoodRest
  <2>5. \A u \in Task : exec'[u] = IF u = t /\ Registered(t) THEN x ELSE exec[u]
    BY <2>1, <2>2 DEF WellFormed, GoodExecs
  <2>6. \A u \in Task : TaskMove(u) /\ exec'[u].pc = exec[u].pc
    BY <2>1, <2>3, <2>5 DEF TaskMove, Registered
  <2>8. RowMove
    BY <2>1 DEF RowMove
  <2> HIDE DEF k, x, t
  <2>7. \A u \in Task : k.task = u => MidCancel(c, u)
    BY <2>2
  <2> QED BY <1>r, <2>1, <2>2, <2>4, <2>6, <2>7, <2>8
<1>3. ASSUME caller' = Return(c), caller[c].pc # "idle",
             UNCHANGED <<row, exec, checking, unannounced, announced, abandons>>
      PROVE  WellFormed' /\ Moves
  <2> DEFINE k == [caller[c] EXCEPT !.pc = "done", !.snap = NoRow]
  <2>1. GoodCall(k) /\ k.pc = "done" /\ k.task = caller[c].task
    BY <1>g, <1>3, <1>n DEF CallStage
  <2>2. caller' = [caller EXCEPT ![c] = k]
    BY <1>3 DEF Return
  <2> HIDE DEF k
  <2> QED BY <1>3, <1>s, <2>1, <2>2
<1>4. CASE CancelReread(c)
  <2> DEFINE latest == row[caller[c].task]
             pc == IF latest.status = "queued" THEN "overwrite" ELSE "force"
             k == [caller[c] EXCEPT !.pc = pc, !.snap = latest]
  <2>1. /\ caller[c].pc = "reread"
        /\ caller' = Return(c) \/ caller' = [caller EXCEPT ![c] = k]
        /\ UNCHANGED <<row, checking, unannounced, exec, announced, abandons>>
    <3>1. [caller EXCEPT ![c].snap = latest, ![c].pc = pc] = [caller EXCEPT ![c] = k]
      BY <1>k DEF WellFormed, GoodCalls, CallRecord
    <3> QED BY <1>4, <3>1 DEF CancelReread
  <2>2. latest \in Row /\ pc \in CallStage /\ pc # "idle"
    BY <1>t, <2>1 DEF WellFormed, GoodRows, CallStage
  <2> HIDE DEF latest, pc
  <2>3. GoodCall(k) /\ k.task = caller[c].task /\ k.pc # "idle"
    BY <1>g, <2>1, <2>2
  <2> HIDE DEF k
  <2> QED BY <1>3, <1>s, <2>1, <2>3
<1>5. CASE CancelOverwrite(c)
  <2> DEFINE k == [caller[c] EXCEPT !.pc = "verify", !.snap = NoRow]
             s == Released(caller[c].snap, "cancelled")
  <2>1. /\ caller[c].pc = "overwrite" /\ caller' = [caller EXCEPT ![c] = k]
        /\ row' = [row EXCEPT ![caller[c].task] = s]
        /\ UNCHANGED <<checking, unannounced, exec, announced, abandons>>
    BY <1>5 DEF CancelOverwrite
  <2>2. GoodCall(k) /\ k.task = caller[c].task /\ k.pc # "idle"
    BY <1>g, <1>n, <2>1 DEF CallStage
  <2>3. s \in Row /\ s.status = "cancelled"
    BY <1>k, ReleasedTyped DEF Terminal
  <2> HIDE DEF k, s
  <2> QED BY <1>w, <2>1, <2>2, <2>3
<1>6. CASE CancelVerify(c)
  <2> DEFINE verified == row[caller[c].task]
             k == [caller[c] EXCEPT !.pc = "announce"]
             l == [caller[c] EXCEPT !.pc = "force", !.snap = verified]
  <2>1. /\ caller[c].pc = "verify"
        /\ \/ caller' = Return(c) \/ caller' = [caller EXCEPT ![c] = k]
           \/ caller' = [caller EXCEPT ![c] = l]
        /\ UNCHANGED <<row, checking, unannounced, exec, announced, abandons>>
    <3>1. [caller EXCEPT ![c].snap = verified, ![c].pc = "force"] = [caller EXCEPT ![c] = l]
      BY <1>k DEF WellFormed, GoodCalls, CallRecord
    <3> QED BY <1>6, <3>1 DEF CancelVerify
  <2>2. verified \in Row
    BY <1>t, <2>1 DEF WellFormed, GoodRows
  <2> HIDE DEF verified
  <2>3. GoodCall(l) /\ l.task = caller[c].task /\ l.pc # "idle"
    BY <1>g, <2>1, <2>2 DEF CallStage
  <2>4. GoodCall(k) /\ k.task = caller[c].task /\ k.pc # "idle"
    BY <1>k, <1>t, <2>1 DEF GoodCall, CallRecord, CallStage
  <2> HIDE DEF k, l
  <2> QED BY <1>3, <1>s, <2>1, <2>3, <2>4
<1>7. CASE CancelAnnounce(c)
  <2> DEFINE t == caller[c].task
             k == [caller[c] EXCEPT !.pc = "done", !.snap = NoRow]
  <2>1. /\ caller[c].pc = "announce" /\ caller' = [caller EXCEPT ![c] = k]
        /\ announced' = [announced EXCEPT ![t] = @ \cup {"cancelled"}]
        /\ UNCHANGED <<row, checking, unannounced, exec, abandons>>
    BY <1>7 DEF CancelAnnounce, Return
  <2>2. GoodCall(k) /\ k.pc = "done"
    BY <1>g, <1>n, <2>1 DEF CallStage
  <2>3. \A u \in Task : TaskMove(u) /\ exec'[u].pc = exec[u].pc
    BY <2>1 DEF TaskMove
  <2>4. GoodRows' /\ GoodExecs' /\ RowMove
    BY <2>1 DEF WellFormed, GoodRows, GoodExecs, RowMove
  <2>5. /\ announced' \in [Task -> SUBSET EventKind]
        /\ \A u \in Task : announced[u] \subseteq announced'[u]
                           /\ ("running" \in announced'[u] => "running" \in announced[u])
    BY <1>t, <2>1 DEF WellFormed, GoodRest, EventKind, Terminal
  <2> HIDE DEF k
  <2> QED BY <1>r, <2>1, <2>2, <2>3, <2>4, <2>5
<1>8. CASE CancelForce(c)
  <2> DEFINE k == [caller[c] EXCEPT !.pc = "done", !.snap = NoRow]
             s == [caller[c].snap EXCEPT !.status = "cancel_requested"]
  <2>1. /\ caller[c].pc = "force" /\ caller' = [caller EXCEPT ![c] = k]
        /\ row' = [row EXCEPT ![caller[c].task] = s]
        /\ UNCHANGED <<checking, unannounced, exec, announced, abandons>>
    BY <1>8 DEF CancelForce, Return
  <2>2. GoodCall(k) /\ k.task = caller[c].task /\ k.pc # "idle"
    BY <1>g, <1>n, <2>1 DEF CallStage
  <2>3. s \in Row /\ s.status = "cancel_requested"
    BY <1>k DEF Row, Active
  <2> HIDE DEF k, s
  <2> QED BY <1>w, <2>1, <2>2, <2>3
<1> QED
  BY <1>1, <1>2, <1>4, <1>5, <1>6, <1>7, <1>8 DEF Cancel, ContinueCancel, CancelStep


LEMMA OtherMoves ==
  ASSUME WellFormed,
         \/ \E p \in Api : Submit(p)
         \/ \E t \in Task : Dispatch(t) \/ Lose(t)
         \/ Shutdown \/ StopLoop \/ UNCHANGED vars
  PROVE  WellFormed' /\ Moves
<1> USE InlineAssumption
<1>g. \A u \in Task : GoodExec(u, exec[u]) /\ GoodExec(u, IdleExec) /\ IdleExec.pc = "idle"
  BY IdleGood DEF WellFormed, GoodExecs, IdleExec
\* A step that leaves rows, calls and events alone.
<1>e. ASSUME GoodExecs', UNCHANGED <<row, announced>>, GoodCalls', GoodRest', CheckMove, CallMove,
             \A u \in Task : TaskMove(u) /\ (exec'[u].pc = "route" => exec[u].pc = "route")
      PROVE  WellFormed' /\ Moves
  BY <1>e DEF WellFormed, GoodRows, Moves, SayMove, RowMove
<1>1. ASSUME NEW p \in Api, NEW u \in Task, SubmitCheck(p, u) PROVE WellFormed' /\ Moves
  <2>1. GoodRest' /\ GoodCalls' /\ GoodExecs'
    BY <1>1 DEF SubmitCheck, WellFormed, GoodRest, GoodCalls, GoodExecs
  <2>2. CheckMove
    BY <1>1 DEF SubmitCheck, WellFormed, GoodRest, CheckMove
  <2>3. CallMove /\ \A v \in Task : TaskMove(v) /\ (exec'[v].pc = "route" => exec[v].pc = "route")
    BY <1>1 DEF SubmitCheck, CallMove, MidCancel, TaskMove
  <2> QED BY <1>1, <1>e, <2>1, <2>2, <2>3 DEF SubmitCheck
<1>2. ASSUME NEW p \in Api, SubmitCreate(p) PROVE WellFormed' /\ Moves
  <2>1. PICK u \in Task : u = checking[p]
    BY <1>2 DEF SubmitCreate, WellFormed, GoodRest
  <2>2. /\ row' = [row EXCEPT ![u] = QueuedRow] /\ unannounced' = unannounced \cup {u}
        /\ checking' = [checking EXCEPT ![p] = None]
        /\ UNCHANGED <<exec, caller, announced, abandons>>
    BY <1>2, <2>1 DEF SubmitCreate
  <2>3. GoodRows' /\ row'[u] = QueuedRow /\ \A v \in Task \ {u} : row'[v] = row[v]
    BY <2>2, IdleTyped DEF WellFormed, GoodRows
  <2>4. GoodRest' /\ checking'[p] = None /\ \A q \in Api \ {p} : checking'[q] = checking[q]
    BY <2>2 DEF WellFormed, GoodRest
  <2>5. \A v \in Task : TaskMove(v)
    BY <2>1, <2>2, <2>3, <2>4, NoneAssumption DEF TaskMove
  <2>6. CheckMove
    BY <2>1, <2>2, <2>3, <2>4 DEF CheckMove
  <2>7. CallMove /\ SayMove /\ RowMove
    BY <2>2, IdleTyped DEF CallMove, MidCancel, SayMove, RowMove
  <2> QED BY <2>2, <2>3, <2>4, <2>5, <2>6, <2>7
       DEF WellFormed, GoodExecs, GoodCalls, Moves
<1>3. ASSUME NEW t \in Task, Dispatch(t) PROVE WellFormed' /\ Moves
  <2>1. /\ t \in unannounced /\ unannounced' = unannounced \ {t}
        /\ announced' = [announced EXCEPT ![t] = @ \cup {"started"}]
        /\ exec' = [exec EXCEPT ![t] = Dispatched(t)]
        /\ UNCHANGED <<row, checking, caller, abandons>>
    BY <1>3 DEF Dispatch, AnnounceStarted, Dispatched
  <2>2. GoodExec(t, Dispatched(t)) /\ Dispatched(t).pc = "wait"
    BY IdleTyped DEF GoodExec, Dispatched, IdleExec, ExecRecord, Stage, Early
  <2>3. /\ GoodExecs' /\ exec'[t] = Dispatched(t)
        /\ \A v \in Task \ {t} : exec'[v] = exec[v]
    BY <2>1, <2>2, ExecsKept DEF WellFormed, GoodExecs
  <2>4. \A v \in Task : TaskMove(v)
    BY <2>1, <2>3 DEF TaskMove
  <2>5. GoodRest' /\ announced'[t] = announced[t] \cup {"started"}
        /\ \A v \in Task \ {t} : announced'[v] = announced[v]
    BY <2>1 DEF WellFormed, GoodRest, EventKind
  <2>6. CheckMove /\ CallMove
    BY <2>1 DEF CheckMove, CallMove, MidCancel
  <2>7. SayMove
    <3>1. \A v \in Task : /\ announced[v] \subseteq announced'[v]
                          /\ "running" \in announced'[v] => "running" \in announced[v]
      BY <2>5
    <3>2. \A v \in Task : exec'[v].pc = "route" => exec[v].pc = "route"
      BY <2>2, <2>3
    <3> QED BY <3>1, <3>2 DEF SayMove
  <2>8. GoodRows' /\ GoodCalls' /\ RowMove
    BY <2>1 DEF WellFormed, GoodRows, GoodCalls, RowMove
  <2> QED BY <2>3, <2>4, <2>5, <2>6, <2>7, <2>8 DEF WellFormed, Moves
<1>4. ASSUME NEW t \in Task, LoseSubmit(t) PROVE WellFormed' /\ Moves
  <2>1. GoodRest' /\ GoodCalls' /\ GoodExecs'
    BY <1>4, BoundsAssumption DEF LoseSubmit, WellFormed, GoodRest, GoodCalls, GoodExecs
  <2>2. CheckMove
    BY <1>4 DEF LoseSubmit, CheckMove
  <2>3. CallMove /\ \A v \in Task : TaskMove(v) /\ (exec'[v].pc = "route" => exec[v].pc = "route")
    BY <1>4 DEF LoseSubmit, CallMove, MidCancel, TaskMove
  <2> QED BY <1>4, <1>e, <2>1, <2>2, <2>3 DEF LoseSubmit
<1>5. ASSUME NEW t \in Task, Abandon(t) PROVE WellFormed' /\ Moves
  <2>1. GoodRest' /\ GoodCalls'
    BY <1>5, BoundsAssumption DEF Abandon, WellFormed, GoodRest, GoodCalls
  <2>2. GoodExecs' /\ exec'[t] = IdleExec /\ \A v \in Task \ {t} : exec'[v] = exec[v]
    BY <1>5, <1>g, ExecsKept DEF Abandon, WellFormed, GoodExecs
  <2>3. CheckMove /\ CallMove
    BY <1>5 DEF Abandon, CheckMove, CallMove, MidCancel
  <2>4. \A v \in Task : TaskMove(v) /\ (exec'[v].pc = "route" => exec[v].pc = "route")
    BY <1>5, <1>g, <2>2 DEF Abandon, TaskMove
  <2> QED BY <1>5, <1>e, <2>1, <2>2, <2>3, <2>4 DEF Abandon
<1>6. CASE Shutdown
  <2>1. GoodRest' /\ GoodCalls'
    BY <1>6, BoundsAssumption DEF Shutdown, WellFormed, GoodRest, GoodCalls
  <2>2. \A v \in Task : exec'[v] = IF Registered(v) THEN [exec[v] EXCEPT !.cancel = TRUE] ELSE exec[v]
    BY <1>6 DEF Shutdown
  <2>3. \A v \in Task : /\ GoodExec(v, [exec[v] EXCEPT !.cancel = TRUE])
                        /\ [exec[v] EXCEPT !.cancel = TRUE].pc = exec[v].pc
    <3>1. ASSUME NEW v \in Task, NEW x, GoodExec(v, x)
          PROVE  GoodExec(v, [x EXCEPT !.cancel = TRUE]) /\ [x EXCEPT !.cancel = TRUE].pc = x.pc
      BY <3>1 DEF GoodExec, ExecRecord
    <3> QED BY <1>g, <3>1
  <2>4. GoodExecs'
    <3>1. \A v \in Task : GoodExec(v, exec'[v])
      BY <1>g, <2>2, <2>3
    <3>2. exec' = [v \in Task |-> exec'[v]]
      BY <1>6 DEF Shutdown
    <3> QED BY <3>1, <3>2 DEF GoodExecs
  <2>5. CheckMove /\ CallMove
    BY <1>6 DEF Shutdown, CheckMove, CallMove, MidCancel
  <2>6. \A v \in Task : TaskMove(v) /\ (exec'[v].pc = "route" => exec[v].pc = "route")
    BY <1>6, <2>2, <2>3 DEF Shutdown, TaskMove, Registered
  <2> QED BY <1>6, <1>e, <2>1, <2>4, <2>5, <2>6 DEF Shutdown
<1>7. CASE StopLoop
  <2>1. GoodRest' /\ CheckMove
    BY <1>7 DEF StopLoop, WellFormed, GoodRest, CheckMove
  <2>2. \A c \in Caller : /\ caller'[c] = caller[c] \/ caller'[c] = [caller[c] EXCEPT !.pc = "done"]
                          /\ GoodCall(caller[c])
    BY <1>7 DEF StopLoop, WellFormed, GoodCalls
  <2>3. \A c \in Caller : caller'[c] = caller[c] \/ caller'[c].pc = "done"
    BY <2>2 DEF GoodCall, CallRecord
  <2>4. GoodCalls'
    <3>1. ASSUME NEW c \in Caller, caller[c].pc # "idle"
          PROVE  GoodCall([caller[c] EXCEPT !.pc = "done"])
      BY <2>2, <3>1, NoneAssumption DEF GoodCall, CallRecord, CallStage
    <3>2. \A c \in Caller : caller'[c] = IF caller[c].pc = "idle" THEN caller[c]
                                         ELSE [caller[c] EXCEPT !.pc = "done"]
      BY <1>7 DEF StopLoop
    <3> QED BY <1>7, <2>2, <3>1, <3>2 DEF StopLoop, GoodCalls
  <2>5. CallMove
    BY <2>3 DEF CallMove, MidCancel
  <2>6. \A v \in Task : exec'[v] = IdleExec
    BY <1>7 DEF StopLoop
  <2>7. GoodExecs'
    BY <1>7, <1>g, <2>6 DEF StopLoop, GoodExecs
  <2>8. \A v \in Task : TaskMove(v) /\ (exec'[v].pc = "route" => exec[v].pc = "route")
    BY <1>7, <1>g, <2>6 DEF StopLoop, TaskMove
  <2> QED BY <1>7, <1>e, <2>1, <2>4, <2>5, <2>7, <2>8 DEF StopLoop
<1>8. CASE UNCHANGED vars
  <2>1. GoodRest' /\ GoodCalls' /\ GoodExecs'
    BY <1>8 DEF vars, taskVars, WellFormed, GoodRest, GoodCalls, GoodExecs
  <2>2. CheckMove /\ CallMove
    BY <1>8 DEF vars, taskVars, CheckMove, CallMove, MidCancel
  <2>3. \A v \in Task : TaskMove(v) /\ (exec'[v].pc = "route" => exec[v].pc = "route")
    BY <1>8 DEF vars, taskVars, TaskMove
  <2> QED BY <1>8, <1>e, <2>1, <2>2, <2>3 DEF vars, taskVars
<1> QED BY <1>1, <1>2, <1>3, <1>4, <1>5, <1>6, <1>7, <1>8 DEF Submit, Lose

LEMMA Steps == WellFormed /\ [Next]_vars => WellFormed' /\ Moves
BY CoroutineMoves, CallMoves, OtherMoves DEF Next

LEMMA InitWellFormed == InlineInit => WellFormed /\ TypeOK
<1> USE InlineAssumption
<1> SUFFICES ASSUME InlineInit PROVE WellFormed
  BY IdleTyped, NoneAssumption
     DEF WellFormed, GoodRows, GoodExecs, GoodCalls, GoodRest, GoodExec, GoodCall, TypeOK
<1>1. GoodRows /\ GoodExecs
  BY IdleTyped, IdleGood DEF InlineInit, Init, GoodRows, GoodExecs
<1>2. GoodCall(IdleCall)
  BY IdleTyped DEF IdleCall, GoodCall, CallRecord, CallStage
<1>3. GoodCalls /\ GoodRest
  BY <1>2, BoundsAssumption DEF InlineInit, Init, GoodCalls, GoodRest
<1> QED BY <1>1, <1>3 DEF WellFormed

---------------------------------------------------------------------------
(* A cancel that comes before the agent starts *)

\* Nobody works on or cancels a task that was not inserted; one whose coroutine was
\* not scheduled has none; and until its coroutine has saved the result, a task has
\* not ended but in cancelled.
Unwanted == Terminal \ {"cancelled"}

Submitted(t) ==
  /\ row[t].status = "absent" => /\ t \notin unannounced /\ exec[t].pc = "idle"
                                 /\ \A c \in Caller : ~ MidCancel(c, t)
  /\ t \in unannounced => exec[t].pc = "idle"
  /\ t \in unannounced \/ exec[t].pc \notin {"idle", "finish"} => row[t].status \notin Unwanted

\* A submission under way is that of a task not yet inserted, and of one process.
Checked ==
  /\ \A p \in Api : checking[p] # None => row[checking[p]].status = "absent"
  /\ \A p, q \in Api : checking[p] # None /\ checking[p] = checking[q] => p = q

Sound == WellFormed /\ Checked /\ \A t \in Task : Submitted(t)

\* What follows for one step of one task.
LEMMA TaskFacts ==
  ASSUME WellFormed, NEW t \in Task
  PROVE  /\ row[t] \in Row /\ GoodExec(t, exec[t])
         /\ QueuedRow.status = "queued" /\ NoRow.status = "absent"
         /\ Dispatched(t).pc = "wait" /\ ~ Dispatched(t).cancel
         /\ [exec[t] EXCEPT !.cancel = TRUE].pc = exec[t].pc
         /\ [exec[t] EXCEPT !.cancel = TRUE].rec = exec[t].rec
         /\ [exec[t] EXCEPT !.cancel = TRUE].cancel
BY DEF WellFormed, GoodRows, GoodExecs, GoodExec, ExecRecord, QueuedRow, NoRow, Dispatched,
       IdleExec

LEMMA SubmittedStep ==
  ASSUME Sound, [Next]_vars, NEW t \in Task
  PROVE  Submitted(t)'
<1>1. WellFormed /\ WellFormed' /\ Moves /\ TaskMove(t) /\ CheckMove /\ CallMove
  BY Steps DEF Sound, Moves
<1>2. Submitted(t) /\ Checked
  BY DEF Sound
<1>f. /\ row[t] \in Row /\ GoodExec(t, exec[t])
      /\ QueuedRow.status = "queued"
      /\ Dispatched(t).pc = "wait"
      /\ [exec[t] EXCEPT !.cancel = TRUE].pc = exec[t].pc
  BY <1>1, TaskFacts
<1>u. t \in unannounced' => t \in unannounced
                            \/ (row'[t] = QueuedRow /\ \E p \in Api : checking[p] = t)
  BY <1>1 DEF CheckMove
<1>c. ASSUME NEW c \in Caller, MidCancel(c, t)'
      PROVE  row[t].status # "absent"
  BY <1>1, <1>2, <1>c DEF CallMove, Submitted, Active
<1>a. (\E p \in Api : checking[p] = t) => row[t].status = "absent"
  BY <1>2, NoneAssumption DEF Checked
<1>3. CASE row'[t] = row[t] /\ exec'[t].pc = exec[t].pc
  <2>1. row[t].status = "absent" => t \notin unannounced'
    BY <1>2, <1>3, <1>f, <1>u DEF Submitted
  <2> QED BY <1>2, <1>3, <1>f, <1>c, <1>u, <1>a, <2>1 DEF Submitted, Unwanted, Terminal
<1>4. CASE row'[t] = row[t] /\ exec'[t].pc = "idle"
  BY <1>2, <1>4, <1>f, <1>c, <1>u, <1>a DEF Submitted, Unwanted, Terminal
<1>5. CASE row'[t] = row[t] /\ t \in unannounced /\ t \notin unannounced' /\ exec'[t] = Dispatched(t)
  BY <1>2, <1>5, <1>f DEF Submitted
<1>6. CASE exec'[t] = exec[t] /\ row'[t] = QueuedRow /\ \E p \in Api : checking[p] = t
  BY <1>2, <1>6, <1>f, <1>a DEF Submitted, Unwanted, Terminal
<1>7. CASE Worked(exec[t], exec'[t], row[t], row'[t])
  <2>1. /\ exec[t].pc # "idle" /\ exec'[t].pc # "idle"
        /\ row[t].status # "absent" /\ t \notin unannounced
    BY <1>2, <1>7 DEF Worked, Submitted
  <2>2. t \notin unannounced'
    BY <1>u, <1>a, <2>1
  <2>3. /\ row'[t].status # "absent"
        /\ exec'[t].pc # "finish" => row'[t].status \notin Unwanted
    BY <1>2, <1>7, <1>f, <2>1 DEF Worked, Submitted, GoodExec, Unwanted, Terminal
  <2> QED BY <2>1, <2>2, <2>3 DEF Submitted
<1>8. CASE /\ exec'[t] = exec[t] /\ row'[t].status \in {"cancelled", "cancel_requested"}
           /\ \E c \in Caller : MidCancel(c, t)
  <2>1. row[t].status # "absent"
    BY <1>2, <1>8 DEF Submitted
  <2> QED BY <1>2, <1>8, <1>u, <1>a, <2>1 DEF Submitted, Unwanted, Terminal
<1> QED BY <1>1, <1>f, <1>3, <1>4, <1>5, <1>6, <1>7, <1>8 DEF TaskMove

LEMMA SoundStep == Sound /\ [Next]_vars => Sound'
<1> SUFFICES ASSUME Sound, [Next]_vars PROVE Sound'
  OBVIOUS
<1>1. WellFormed' /\ Moves /\ CheckMove /\ WellFormed
  BY Steps DEF Sound, Moves
<1>2. Checked /\ \A t \in Task : Submitted(t)
  BY DEF Sound
<1>3. \A p \in Api : checking[p] \in Task \cup {None} /\ checking'[p] \in Task \cup {None}
  BY <1>1 DEF WellFormed, GoodRest
\* The row of a task that is being submitted is changed by its submission only.
<1>4. ASSUME NEW t \in Task, row[t].status = "absent", row'[t].status # "absent"
      PROVE  \E p \in Api : checking[p] = t /\ checking'[p] # t
  <2>1. TaskMove(t) /\ Submitted(t)
    BY <1>1, <1>2 DEF Moves
  <2> QED BY <1>4, <2>1 DEF TaskMove, Submitted, Worked
<1>5. ASSUME NEW p \in Api, checking'[p] # None
      PROVE  /\ row'[checking'[p]].status = "absent"
             /\ \A q \in Api : checking'[q] = checking'[p] => q = p
  <2>1. CASE checking'[p] = checking[p]
    <3>1. PICK t \in Task : t = checking[p]
      BY <1>3, <1>5, <2>1
    <3>2. ASSUME NEW q \in Api, checking[q] = t PROVE q = p
      BY <1>2, <1>5, <2>1, <3>1, <3>2 DEF Checked
    <3>3. row'[t].status = "absent"
      BY <1>2, <1>4, <1>5, <2>1, <3>1, <3>2 DEF Checked
    <3>4. ASSUME NEW q \in Api, checking'[q] = t, q # p PROVE FALSE
      <4>1. checking[q] # t
        BY <3>2, <3>4
      <4> QED BY <1>1, <1>5, <2>1, <3>1, <3>4, <4>1 DEF CheckMove
    <3> QED BY <2>1, <3>1, <3>3, <3>4
  <2>2. CASE checking'[p] # checking[p]
    BY <1>1, <1>5, <2>2 DEF CheckMove
  <2> QED BY <2>1, <2>2
<1>6. Checked'
  BY <1>5 DEF Checked
<1> QED BY <1>1, <1>6, SubmittedStep DEF Sound

LEMMA InitSound == InlineInit => Sound
<1> SUFFICES ASSUME InlineInit PROVE Sound
  OBVIOUS
<1>1. \A t \in Task : row[t].status = "absent" /\ exec[t].pc = "idle"
  BY InlineAssumption DEF InlineInit, Init, NoRow, IdleExec
<1>2. \A c \in Caller, t \in Task : ~ MidCancel(c, t)
  BY DEF InlineInit, Init, IdleCall, MidCancel
<1> QED BY <1>1, <1>2, InitWellFormed DEF InlineInit, Init, Sound, Checked, Submitted

\* The flag is set in time, or the coroutine has seen it.
Decided(t) ==
  /\ row[t].status \notin Unwanted \cup {"absent"}
  /\ t \notin unannounced
  /\ \/ exec[t].pc = "idle"
     \/ exec[t].pc \in Early /\ exec[t].cancel
     \/ exec[t].pc \in {"save", "finish"} /\ exec[t].rec.status = "cancelled"

LEMMA DecidedStep ==
  ASSUME NEW t \in Task
  PROVE  Sound /\ Decided(t) /\ [Next]_vars => Decided(t)'
<1> SUFFICES ASSUME Sound, Decided(t), [Next]_vars PROVE Decided(t)'
  OBVIOUS
<1>1. WellFormed /\ WellFormed' /\ TaskMove(t) /\ CheckMove /\ Checked
  BY Steps DEF Sound, Moves
<1>f. /\ GoodExec(t, exec[t])
      /\ [exec[t] EXCEPT !.cancel = TRUE].pc = exec[t].pc
      /\ [exec[t] EXCEPT !.cancel = TRUE].rec = exec[t].rec
      /\ [exec[t] EXCEPT !.cancel = TRUE].cancel
  BY <1>1, TaskFacts
<1>a. \A p \in Api : checking[p] # t
  BY <1>1, NoneAssumption DEF Checked, Decided
<1>u. t \notin unannounced'
  BY <1>1, <1>a DEF CheckMove, Decided
<1>2. CASE row'[t] = row[t] /\ exec'[t] = exec[t]
  BY <1>2, <1>u DEF Decided
<1>3. CASE row'[t] = row[t] /\ exec'[t].pc = "idle"
  BY <1>3, <1>u DEF Decided
<1>4. CASE /\ row'[t] = row[t] /\ exec[t].pc # "idle"
           /\ exec'[t] = [exec[t] EXCEPT !.cancel = TRUE]
  BY <1>4, <1>u, <1>f DEF Decided
<1>5. CASE Worked(exec[t], exec'[t], row[t], row'[t])
  BY <1>5, <1>u, <1>f DEF Decided, Worked, GoodExec, Early, Unwanted, Terminal
<1>6. CASE exec'[t] = exec[t] /\ row'[t].status \in {"cancelled", "cancel_requested"}
  BY <1>6, <1>u DEF Decided, Unwanted, Terminal
<1> QED BY <1>1, <1>a, <1>2, <1>3, <1>4, <1>5, <1>6 DEF TaskMove, Decided

\* A cancellation flag that is set before the agent starts decides the task, for any number
\* of tasks and cancel calls and through shutdowns: whatever the call and the coroutine
\* write over each other, the task never ends but in cancelled (cancel, _prepare, _finalize).
THEOREM EarlyCancelsDecide == Spec => EarlyCancelDecides
<1>1. Spec => []Sound
  BY InitSound, SoundStep, PTL DEF Spec
<1>2. ASSUME NEW t \in Task
      PROVE  Spec => [](exec[t].cancel /\ exec[t].pc \in {"wait", "prepare", "mark", "running", "route"}
                          => [](row[t].status \notin Terminal \ {"cancelled"}))
  <2>1. Sound /\ Decided(t) /\ [Next]_vars => Decided(t)'
    BY DecidedStep
  <2>2. Sound => (exec[t].cancel /\ exec[t].pc \in {"wait", "prepare", "mark", "running", "route"}
                    => Decided(t))
    BY DEF Sound, Submitted, Decided, Early, Unwanted, Terminal
  <2>3. Decided(t) => row[t].status \notin Terminal \ {"cancelled"}
    BY DEF Decided, Unwanted
  <2> QED BY <1>1, <2>1, <2>2, <2>3, PTL DEF Spec
<1> QED BY <1>2 DEF EarlyCancelDecides

---------------------------------------------------------------------------
(* The backend implements the documented status machine *)

Noted(t) == "running" \in announced[t]

\* While nobody cancels, where its coroutine is tells the status of a task, and that
\* its start was announced.  Only a shutdown sets flags.
Followed(t) ==
  LET x == exec[t] IN
  /\ row[t].status \in {"absent", "queued"} => ~ Noted(t)
  /\ t \in unannounced \/ x.pc \in {"wait", "prepare", "mark"} => row[t].status = "queued"
  /\ x.pc = "mark" /\ ~ x.cancel => x.rec.status = "running"
  /\ x.pc = "running" => row[t].status = "running"
  /\ x.pc = "route" => \/ row[t].status = "running" /\ Noted(t)
                       \/ row[t].status = "cancel_requested" /\ x.cancel
  /\ x.pc = "agent" => row[t].status = "running" /\ Noted(t)
  /\ x.pc = "save" => \/ /\ row[t].status = "running" /\ Noted(t)
                         /\ x.rec.status \in AgentOutcome \cup {"cancelled"}
                      \/ row[t].status = "cancel_requested" /\ x.rec.status = "cancelled"

\* A submission under way has room for its task.
RoomLeft ==
  /\ IsFiniteSet(ActiveTasks)
  /\ \A p \in Api : checking[p] # None => Cardinality(ActiveTasks) < ParallelLimit

Undisturbed == (\A t \in Task : Followed(t)) /\ RoomLeft

Plain == Sound /\ (Uncancelled => Undisturbed)

\* What happens to a task while nobody cancels.
LEMMA QuietMove ==
  ASSUME Sound, [Next]_vars, Uncancelled', NEW t \in Task
  PROVE  /\ Uncancelled
         /\ \/ row'[t] = row[t] /\ exec'[t] = exec[t]
            \/ row'[t] = row[t] /\ exec'[t].pc = "idle"
            \/ /\ row'[t] = row[t] /\ exec[t].pc # "idle"
               /\ exec'[t] = [exec[t] EXCEPT !.cancel = TRUE]
            \/ row'[t] = row[t] /\ t \in unannounced /\ exec'[t] = Dispatched(t)
            \/ /\ exec'[t] = exec[t] /\ row'[t] = QueuedRow /\ row[t].status = "absent"
               /\ \E p \in Api : checking[p] = t /\ checking'[p] # t
            \/ Worked(exec[t], exec'[t], row[t], row'[t])
<1>1. TaskMove(t) /\ CallMove
  BY Steps DEF Sound, Moves
<1>2. Uncancelled
  BY <1>1 DEF Uncancelled, CallMove
<1>3. \A c \in Caller : ~ MidCancel(c, t)
  BY <1>2 DEF Uncancelled, MidCancel
<1>4. ASSUME NEW p \in Api, checking[p] = t PROVE row[t].status = "absent"
  BY <1>4, NoneAssumption DEF Sound, Checked
<1> QED BY <1>1, <1>2, <1>3, <1>4 DEF TaskMove

LEMMA FollowedStep ==
  ASSUME Sound, [Next]_vars, Uncancelled', Undisturbed, NEW t \in Task
  PROVE  Followed(t)'
<1>1. /\ WellFormed /\ SayMove /\ CheckMove /\ Submitted(t) /\ Submitted(t)' /\ Followed(t)
      /\ GoodExec(t, exec[t])
  BY Steps, SubmittedStep, TaskFacts DEF Sound, Moves, Undisturbed
<1>f. /\ QueuedRow.status = "queued" /\ Dispatched(t).pc = "wait"
      /\ [exec[t] EXCEPT !.cancel = TRUE].pc = exec[t].pc
      /\ [exec[t] EXCEPT !.cancel = TRUE].rec = exec[t].rec
      /\ [exec[t] EXCEPT !.cancel = TRUE].cancel
  BY <1>1, TaskFacts
<1>n. /\ Noted(t) => Noted(t)'
      /\ Noted(t)' => Noted(t) \/ (exec[t].pc = "running" /\ exec'[t].pc = "route")
      /\ exec[t].pc = "running" /\ exec'[t].pc = "route" => Noted(t)'
  BY <1>1 DEF SayMove, Noted
<1>u. t \in unannounced' => t \in unannounced \/ row'[t] = QueuedRow
  BY <1>1 DEF CheckMove
<1>3. CASE row'[t] = row[t] /\ exec'[t] = exec[t]
  BY <1>1, <1>3, <1>f, <1>n, <1>u DEF Followed
<1>4. CASE row'[t] = row[t] /\ exec'[t].pc = "idle"
  BY <1>1, <1>4, <1>f, <1>n, <1>u DEF Followed
<1>5. CASE /\ row'[t] = row[t] /\ exec[t].pc # "idle"
           /\ exec'[t] = [exec[t] EXCEPT !.cancel = TRUE]
  BY <1>1, <1>5, <1>f, <1>n, <1>u DEF Followed
<1>6. CASE row'[t] = row[t] /\ t \in unannounced /\ exec'[t] = Dispatched(t)
  BY <1>1, <1>6, <1>f, <1>n DEF Followed
<1>7. CASE exec'[t] = exec[t] /\ row'[t] = QueuedRow /\ row[t].status = "absent"
  BY <1>1, <1>7, <1>f, <1>n DEF Followed, Submitted
<1>8. CASE Worked(exec[t], exec'[t], row[t], row'[t])
  <2>1. t \notin unannounced /\ exec[t].pc # "idle"
    BY <1>1, <1>8 DEF Worked, Submitted
  <2>2. row[t].status # "absent"
    BY <1>1, <2>1 DEF Submitted
  <2>3. t \notin unannounced'
    BY <1>1, <1>8, <2>1 DEF Submitted, Worked
  <2>4. CASE exec[t].pc \in {"wait", "prepare"}
    BY <1>1, <1>8, <1>n, <2>3, <2>4 DEF Followed, Worked, Terminal
  <2>5. CASE exec[t].pc = "mark"
    BY <1>1, <1>8, <1>n, <2>3, <2>5 DEF Followed, Worked, GoodExec
  <2>6. CASE exec[t].pc = "running"
    BY <1>1, <1>8, <1>n, <2>3, <2>6 DEF Followed, Worked
  <2>7. CASE exec[t].pc \in {"route", "agent"}
    BY <1>1, <1>8, <1>n, <2>3, <2>7 DEF Followed, Worked
  <2>8. CASE exec[t].pc = "save"
    BY <1>1, <1>8, <1>n, <2>3, <2>8 DEF Followed, Worked, GoodExec, Terminal
  <2> QED BY <1>8, <2>4, <2>5, <2>6, <2>7, <2>8 DEF Worked
<1> QED BY <1>3, <1>4, <1>5, <1>6, <1>7, <1>8, QuietMove

LEMMA OneApi == \A p, q \in Api : p = q
BY InlineAssumption, FS_Singleton

LEMMA RoomStep ==
  ASSUME Sound, [Next]_vars, Uncancelled', Undisturbed
  PROVE  RoomLeft'
<1>1. /\ CheckMove /\ WellFormed /\ WellFormed'
      /\ IsFiniteSet(ActiveTasks)
      /\ \A p \in Api : checking[p] # None => Cardinality(ActiveTasks) < ParallelLimit
  BY Steps DEF Sound, Moves, Undisturbed, RoomLeft
<1>2. ASSUME NEW t \in Task, row'[t].status \in Active, t \notin ActiveTasks
      PROVE  /\ row[t].status = "absent" /\ row'[t] # row[t]
             /\ \E p \in Api : checking[p] = t /\ checking'[p] # t
  <2>1. row[t].status \notin Active /\ GoodExec(t, exec[t]) /\ Followed(t)
    BY <1>1, <1>2, TaskFacts DEF ActiveTasks, Undisturbed
  <2>2. ~ Worked(exec[t], exec'[t], row[t], row'[t])
    BY <1>2, <2>1 DEF Worked, GoodExec, Followed, Active, Terminal
  <2> QED BY <1>2, <2>1, <2>2, QuietMove
<1>3. CASE \E t \in Task : row'[t].status \in Active /\ t \notin ActiveTasks
  <2>1. PICK t \in Task : row'[t].status \in Active /\ t \notin ActiveTasks
    BY <1>3
  <2>2. row' # row /\ \E p \in Api : checking[p] = t /\ checking'[p] # t
    BY <1>2, <2>1
  <2>3. \A q \in Api : checking'[q] = None
    BY <1>1, <2>2, OneApi DEF CheckMove
  <2>4. ActiveTasks' \subseteq ActiveTasks \cup {t}
    <3>1. ASSUME NEW u \in ActiveTasks', u \notin ActiveTasks PROVE u = t
      <4>1. u \in Task /\ row'[u].status \in Active
        BY DEF ActiveTasks
      <4>2. \E p \in Api : checking[p] = u
        BY <1>2, <3>1, <4>1
      <4> QED BY <2>2, <4>2, OneApi
    <3> QED BY <3>1
  <2>5. IsFiniteSet(ActiveTasks')
    BY <1>1, <2>4, FS_AddElement, FS_Subset
  <2> QED BY <2>3, <2>5 DEF RoomLeft
<1>4. CASE ~ \E t \in Task : row'[t].status \in Active /\ t \notin ActiveTasks
  <2>1. ActiveTasks' \subseteq ActiveTasks
    BY <1>4 DEF ActiveTasks
  <2>2. /\ IsFiniteSet(ActiveTasks') /\ Cardinality(ActiveTasks') <= Cardinality(ActiveTasks)
        /\ Cardinality(ActiveTasks) \in Nat /\ Cardinality(ActiveTasks') \in Nat
    BY <1>1, <2>1, FS_Subset, FS_CardinalityType
  <2>3. ASSUME NEW p \in Api, checking'[p] # None
        PROVE  Cardinality(ActiveTasks) < ParallelLimit
    BY <1>1, <2>3 DEF CheckMove
  <2>4. ASSUME NEW p \in Api, checking'[p] # None
        PROVE  Cardinality(ActiveTasks') < ParallelLimit
    BY <2>2, <2>3, <2>4, BoundsAssumption
  <2> QED BY <2>2, <2>4 DEF RoomLeft
<1> QED BY <1>3, <1>4

LEMMA PlainStep == Plain /\ [Next]_vars => Plain'
<1> SUFFICES ASSUME Plain, [Next]_vars PROVE Plain'
  OBVIOUS
<1>1. Sound /\ Sound' /\ (Uncancelled' => Uncancelled)
  <2>1. CallMove
    BY Steps DEF Plain, Sound, Moves
  <2> QED BY <2>1, SoundStep DEF Plain, CallMove, Uncancelled
<1>2. ASSUME Uncancelled' PROVE Undisturbed'
  BY <1>1, <1>2, FollowedStep, RoomStep DEF Plain, Undisturbed
<1> QED BY <1>1, <1>2 DEF Plain

LEMMA InitPlain == InlineInit => Plain
<1> SUFFICES ASSUME InlineInit PROVE Plain
  OBVIOUS
<1>1. \A t \in Task : /\ row[t].status = "absent" /\ exec[t].pc = "idle"
                      /\ ~ Noted(t) /\ t \notin unannounced
  BY InlineAssumption DEF InlineInit, Init, NoRow, IdleExec, Noted
<1>2. ActiveTasks = {}
  BY <1>1 DEF ActiveTasks, Active
<1>3. RoomLeft
  BY <1>2, FS_EmptySet DEF InlineInit, Init, RoomLeft
<1> QED BY <1>1, <1>3, InitSound DEF Plain, Undisturbed, Followed

\* The attempts of a task: the mapping's second function.
Tried(t) == IF row[t].status = "running" \/ Noted(t) THEN 1 ELSE 0

\* The abstract specification counts with the same Cardinality.
LEMMA SameCardinality == \A S : Lifecycle!Cardinality(S) = Cardinality(S)
BY DEF Lifecycle!Cardinality, Cardinality

\* Only a step that changes the status of a task starts an attempt.
LEMMA TriedKept ==
  ASSUME Plain, [Next]_vars, Uncancelled', NEW t \in Task, row'[t].status = row[t].status
  PROVE  Tried(t)' = Tried(t)
<1>1. SayMove /\ Followed(t)
  BY Steps, QuietMove DEF Plain, Sound, Moves, Undisturbed
<1>2. /\ Noted(t) => Noted(t)'
      /\ Noted(t)' => Noted(t) \/ exec[t].pc = "running"
  BY <1>1 DEF SayMove, Noted
<1> QED BY <1>1, <1>2 DEF Tried, Followed

\* What a step that changes a status does.
LEMMA StatusMove ==
  ASSUME Plain, [Next]_vars, Uncancelled', NEW t \in Task, row'[t].status # row[t].status
  PROVE  \/ /\ row[t].status = "absent" /\ row'[t].status = "queued"
            /\ Tried(t) = 0 /\ Tried(t)' = 0
            /\ Cardinality(ActiveTasks) < ParallelLimit
         \/ /\ row[t].status = "queued" /\ row'[t].status = "running"
            /\ Tried(t) = 0 /\ Tried(t)' = 1
         \/ /\ row[t].status = "queued" /\ row'[t].status = "cancel_requested"
            /\ Tried(t) = 0 /\ Tried(t)' = 0
         \/ /\ row[t].status = "running" /\ row'[t].status \in AgentOutcome
            /\ Tried(t) = 1 /\ Tried(t)' = 1
         \/ /\ row[t].status \in {"running", "cancel_requested"} /\ row'[t].status = "cancelled"
            /\ Tried(t)' = Tried(t)
<1>1. /\ SayMove /\ Followed(t) /\ GoodExec(t, exec[t]) /\ RoomLeft /\ Uncancelled
      /\ QueuedRow.status = "queued" /\ AgentOutcome \subseteq Terminal
  BY Steps, QuietMove, TaskFacts, OutcomeAssumption DEF Plain, Sound, Moves, Undisturbed, Terminal
<1>2. /\ Noted(t) => Noted(t)'
      /\ Noted(t)' => Noted(t) \/ exec[t].pc = "running"
  BY <1>1 DEF SayMove, Noted
<1>3. CASE /\ exec'[t] = exec[t] /\ row'[t] = QueuedRow /\ row[t].status = "absent"
           /\ \E p \in Api : checking[p] = t /\ checking'[p] # t
  <2>1. Cardinality(ActiveTasks) < ParallelLimit
    BY <1>1, <1>3, NoneAssumption DEF RoomLeft
  <2>2. ~ Noted(t) /\ ~ Noted(t)'
    BY <1>1, <1>2, <1>3 DEF Followed
  <2> QED BY <1>1, <1>3, <2>1, <2>2 DEF Tried
<1>4. CASE Worked(exec[t], exec'[t], row[t], row'[t])
  <2>1. \/ exec[t].pc = "mark" /\ row'[t] = exec[t].rec
        \/ exec[t].pc = "save" /\ row'[t] = exec[t].rec
    BY <1>4 DEF Worked
  <2>2. CASE exec[t].pc = "mark" /\ row'[t] = exec[t].rec
    <3>1. row[t].status = "queued" /\ ~ Noted(t) /\ ~ Noted(t)'
      BY <1>1, <1>2, <2>2 DEF Followed
    <3> QED BY <1>1, <2>2, <3>1 DEF Tried, GoodExec
  <2>3. CASE exec[t].pc = "save" /\ row'[t] = exec[t].rec
    <3>1. Noted(t) <=> Noted(t)'
      BY <1>2, <2>3
    <3>2. \/ /\ row[t].status = "running" /\ Noted(t)
             /\ row'[t].status \in AgentOutcome \cup {"cancelled"}
          \/ row[t].status = "cancel_requested" /\ row'[t].status = "cancelled"
      BY <1>1, <2>3 DEF Followed
    <3> QED BY <3>1, <3>2 DEF Tried
  <2> QED BY <2>1, <2>2, <2>3
<1> QED BY <1>3, <1>4, QuietMove DEF Plain

LEMMA LifecycleStep ==
  ASSUME Plain, [Next]_vars, Uncancelled'
  PROVE  Lifecycle!Step
<1> DEFINE st == [u \in Task |-> row[u].status]
           at == [u \in Task |-> Tried(u)]
<1>1. RowMove /\ GoodRows
  BY Steps DEF Plain, Sound, Moves, WellFormed
<1>m. at = [u \in Task |-> IF row[u].status = "running" \/ "running" \in announced[u]
                           THEN 1 ELSE 0]
  BY DEF Tried, Noted
<1>2. CASE \A t \in Task : row'[t].status = row[t].status
  <2>1. \A t \in Task : Tried(t)' = Tried(t)
    BY <1>2, TriedKept
  <2>2. st' = st /\ at' = at
    BY <1>2, <2>1
  <2> QED BY <2>2 DEF Lifecycle!Step, Tried, Noted
<1>3. ASSUME NEW t \in Task, row'[t].status # row[t].status
      PROVE  Lifecycle!Step
  <2>1. \A u \in Task \ {t} : row'[u] = row[u]
    BY <1>1, <1>3 DEF RowMove, GoodRows
  <2>2. \A u \in Task \ {t} : row'[u].status = row[u].status /\ Tried(u)' = Tried(u)
    BY <2>1, TriedKept
  <2>3. PICK s, n : s = row'[t].status /\ n = Tried(t)'
    OBVIOUS
  <2>4. st' = [st EXCEPT ![t] = s] /\ at' = [at EXCEPT ![t] = n]
    BY <2>2, <2>3
  <2>5. n = Tried(t) => at' = at
    BY <2>2, <2>3
  <2>6. CASE /\ row[t].status = "absent" /\ s = "queued" /\ Tried(t) = 0 /\ n = 0
             /\ Cardinality(ActiveTasks) < ParallelLimit
    <3>1. {u \in Task : st[u] \in Lifecycle!Pending} = ActiveTasks
      BY DEF Lifecycle!Pending, ActiveTasks, Active
    <3>2. Lifecycle!Cardinality({u \in Task : st[u] \in Lifecycle!Pending}) < ParallelLimit
      BY <2>6, <3>1, SameCardinality
    <3>3. st[t] = "absent" /\ at' = at /\ st' = [st EXCEPT ![t] = "queued"]
      BY <2>4, <2>5, <2>6
    <3>4. Lifecycle!Submit(t)
      BY <3>2, <3>3 DEF Lifecycle!Submit, Lifecycle!Become, Tried, Noted
    <3> QED BY <3>4 DEF Lifecycle!Step, Lifecycle!Next
  <2>7. CASE row[t].status = "queued" /\ s = "running" /\ Tried(t) = 0 /\ n = 1
    <3>1. st[t] = "queued" /\ at[t] = 0 /\ 0 < MaxAttempts
      BY <2>7, BoundsAssumption
    <3>2. st' = [st EXCEPT ![t] = "running"] /\ at' = [at EXCEPT ![t] = at[t] + 1]
      BY <2>4, <2>7, <3>1
    <3>3. Lifecycle!Start(t)
      BY <3>1, <3>2 DEF Lifecycle!Start, Lifecycle!Become, Tried, Noted
    <3> QED BY <3>3 DEF Lifecycle!Step, Lifecycle!Next
  <2>8. CASE row[t].status = "queued" /\ s = "cancel_requested" /\ Tried(t) = n
    <3>1. st[t] = "queued" /\ at' = at /\ st' = [st EXCEPT ![t] = "cancel_requested"]
      BY <2>4, <2>5, <2>8
    <3>2. Lifecycle!AskCancel(t)
      BY <3>1 DEF Lifecycle!AskCancel, Lifecycle!Become, Tried, Noted
    <3> QED BY <3>2 DEF Lifecycle!Step, Lifecycle!Next
  <2>9. CASE row[t].status = "running" /\ s \in AgentOutcome /\ Tried(t) = n
    <3>1. st[t] = "running" /\ at' = at /\ st' = [st EXCEPT ![t] = s]
      BY <2>4, <2>5, <2>9
    <3>2. Lifecycle!Finish(t, s)
      BY <3>1 DEF Lifecycle!Finish, Lifecycle!Become, Tried, Noted
    <3> QED BY <2>9, <3>2 DEF Lifecycle!Step, Lifecycle!Next
  <2>10. CASE row[t].status \in {"running", "cancel_requested"} /\ s = "cancelled" /\ Tried(t) = n
    <3>1. /\ st[t] \in {"running", "cancel_requested"} /\ at' = at
          /\ st' = [st EXCEPT ![t] = "cancelled"]
      BY <2>4, <2>5, <2>10
    <3>2. Lifecycle!ConcludeCancel(t)
      BY <3>1 DEF Lifecycle!ConcludeCancel, Lifecycle!Become, Lifecycle!Pending, Tried, Noted
    <3> QED BY <3>2 DEF Lifecycle!Step, Lifecycle!Next
  <2> QED BY <1>3, <2>3, <2>6, <2>7, <2>8, <2>9, <2>10, StatusMove
<1> QED BY <1>2, <1>3

\* With the one API process that this backend is for, the coroutines of any number of tasks
\* implement the status machine of docs/INTERNAL_ARCHITECTURE.md section 13 with its bound
\* on active tasks, step by step, through shutdowns and failed calls, as long as nobody
\* cancels (submit_many, _run_guarded, shutdown).
THEOREM InlineImplementsLifecycle == Spec => FollowsLifecycle
<1>1. InlineInit => Lifecycle!Init
  BY DEF InlineInit, Init, NoRow, Lifecycle!Init
<1>2. Plain /\ [Next]_vars => Plain'
  BY PlainStep
<1>3. Plain /\ [Next]_vars => [(Uncancelled)' => Lifecycle!Step]_vars
  BY LifecycleStep
<1> QED BY <1>1, <1>2, <1>3, InitPlain, PTL DEF Spec, FollowsLifecycle
============================================================================
