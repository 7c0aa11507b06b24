------------------------- MODULE SessionTurnsProofs -------------------------
(***************************************************************************)
(* Theorems about SessionTurns for any number of requests, calls, keys,     *)
(* processes, crashes and errors:                                           *)
(*   - the types (TypeOK),                                                  *)
(*   - a call that requires approval runs at most once, and only when it    *)
(*     was approved (GatedCallsRunOnce),                                    *)
(*   - two queries never work on the session together while their leases    *)
(*     are renewed (QueriesSerialized),                                     *)
(*   - an interrupt reaches the run of a query (Interruptible),             *)
(*   - a key is asked once unless something fails (KeyAskedOnce),           *)
(*   - no call and no turn is left over (NothingLost).                      *)
(***************************************************************************)
EXTENDS SessionTurns, TLAPS

---------------------------------------------------------------------------
(* Types *)

\* A request that records a result has a call at hand.
CallAtHand ==
  \A r \in Runner :
    run[r].pc \in {"fill_record", "record", "act", "result"} => run[r].call \in Call

WellFormed == TypeOK /\ CallAtHand

\* What the steps put into run[r] is a Run.
LEMMA RunValues ==
  ASSUME WellFormed, NEW r \in Runner, NEW pc \in Step, NEW status \in Status
  PROVE  /\ Over(r, pc, status) \in Run
         /\ Over(r, pc, status).pc = pc
         /\ Restored(r, pc) \in Run
         /\ Restored(r, pc).pc = pc
         /\ Restored(r, pc).call = run[r].call
<1>1. run[r] \in Run /\ log \in Log
  BY DEF WellFormed, TypeOK
<1> DEFINE y == [NoRun EXCEPT !.pc = pc, !.stop = run[r].stop,
                              !.status = IF pc = "done" THEN "running" ELSE status]
<1>2. Over(r, pc, status) \in Run /\ Over(r, pc, status).pc = pc
  <2>1. run[r].stop \in BOOLEAN
    BY <1>1 DEF Run
  <2>2. (IF pc = "done" THEN "running" ELSE status) \in Status
    BY DEF Status
  <2>3. NoRun \in Run
    BY DEF NoRun, Run, Step, Status
  <2>4. y \in Run /\ y.pc = pc
    BY <2>1, <2>2, <2>3 DEF Run
  <2>5. QED
    BY <2>4 DEF Over
<1> DEFINE x == [run[r] EXCEPT !.issued = log.issued, !.results = log.results,
                               !.pc = pc]
<1>3. log.issued \in SUBSET Call /\ log.results \in SUBSET Call
  BY <1>1 DEF Log
<1>4. x \in Run /\ x.pc = pc /\ x.call = run[r].call
  BY <1>1, <1>3 DEF Run
<1>5. Restored(r, pc) = x
  BY DEF Restored
<1>6. QED
  BY <1>2, <1>4, <1>5

\* A step that gives one request a Run with a call at hand where one is needed
\* keeps the part of WellFormed that is about requests.
LEMMA RunStep ==
  ASSUME WellFormed, NEW r \in Runner, NEW x \in Run,
         x.pc \in {"fill_record", "record", "act", "result"} => x.call \in Call,
         run' = [run EXCEPT ![r] = x]
  PROVE  run' \in [Runner -> Run] /\ CallAtHand'
<1>1. run \in [Runner -> Run]
  BY DEF WellFormed, TypeOK
<1>2. run' \in [Runner -> Run]
  BY <1>1
<1>3. \A s \in Runner : run'[s] = IF s = r THEN x ELSE run[s]
  BY <1>1
<1>4. CallAtHand'
  BY <1>3 DEF WellFormed, CallAtHand
<1>5. QED
  BY <1>2, <1>4

\* The same for a step that only moves a request.
LEMMA GotoStep ==
  ASSUME WellFormed, NEW r \in Runner, NEW pc \in Step,
         pc \notin {"fill_record", "record", "act", "result"}, Goto(r, pc)
  PROVE  run' \in [Runner -> Run] /\ CallAtHand'
<1>1. run[r] \in Run /\ run \in [Runner -> Run]
  BY DEF WellFormed, TypeOK
<1> DEFINE x == [run[r] EXCEPT !.pc = pc]
<1>2. x \in Run /\ x.pc = pc
  BY <1>1 DEF Run
<1>3. run' = [run EXCEPT ![r] = x]
  BY <1>1 DEF Goto
<1>4. QED
  BY <1>2, <1>3, RunStep

\* And for a recorded result.
LEMMA ResultStep ==
  ASSUME WellFormed, NEW r \in Runner, NEW c \in Call, NEW next \in Step,
         next \notin {"fill_record", "record", "act", "result"}, AddResult(r, c, next)
  PROVE  run' \in [Runner -> Run] /\ CallAtHand' /\ log' \in Log
<1>1. run[r] \in Run /\ run \in [Runner -> Run] /\ log \in Log
  BY DEF WellFormed, TypeOK
<1> DEFINE x == [run[r] EXCEPT !.results = run[r].results \cup {c},
                               !.todo = run[r].todo \ {c},
                               !.call = None, !.pc = next]
<1>2. x \in Run /\ x.pc = next
  BY <1>1 DEF Run
<1>3. run' = [run EXCEPT ![r] = x]
  BY <1>1 DEF AddResult
<1>4. log' \in Log
  BY <1>1 DEF AddResult, Log
<1>5. QED
  BY <1>2, <1>3, <1>4, RunStep

\* And for a response.
LEMMA ResponseStep ==
  ASSUME WellFormed, NEW r \in Runner, NEW C \in SUBSET Call, NEW short \in BOOLEAN,
         Respond(r, C, short)
  PROVE  run' \in [Runner -> Run] /\ CallAtHand' /\ log' \in Log
<1>1. run[r] \in Run /\ run \in [Runner -> Run] /\ log \in Log
  BY DEF WellFormed, TypeOK
<1> DEFINE x == [run[r] EXCEPT !.issued = run[r].issued \cup C, !.todo = C,
                               !.short = short,
                               !.pc = IF C = {} THEN "finish" ELSE "calls"]
<1>2. x \in Run /\ x.pc \in {"finish", "calls"}
  BY <1>1 DEF Run, Step
<1>3. run' = [run EXCEPT ![r] = x]
  BY <1>1 DEF Respond
<1>4. log' \in Log
  BY <1>1 DEF Respond, Log
<1>5. QED
  BY <1>2, <1>3, <1>4, RunStep

---------------------------------------------------------------------------
LEMMA InitWellFormed == Init => WellFormed
<1> SUFFICES ASSUME Init PROVE WellFormed
  OBVIOUS
<1>1. NoRun \in Run /\ NoRun.pc = "idle"
  BY DEF NoRun, Run, Step, Status
<1>2. run \in [Runner -> Run] /\ CallAtHand
  BY <1>1 DEF Init, CallAtHand
<1>3. log \in Log
  BY DEF Init, NoLog, Log
<1>4. QED
  BY <1>2, <1>3, BoundAssumption DEF Init, WellFormed, TypeOK

\* Steps of queries outside the graph, and the lapse of a lease.
LEMMA QueryWellFormed ==
  ASSUME WellFormed, NEW q \in Query,
         Acquire(q) \/ CheckStored(q) \/ Store(q) \/ Release(q) \/ Lapse(q)
           \/ BeginQuery(q) \/ Ask(q) \/ Intent(q)
  PROVE  WellFormed'
<1> USE DEF WellFormed
<1>0. q \in Runner /\ run \in [Runner -> Run] /\ run[q] \in Run /\ run[q].status \in Status
  BY DEF Runner, TypeOK, Run
<1>1. CASE Acquire(q)
  BY <1>0, <1>1, GotoStep DEF Acquire, TypeOK, Step
<1>2. CASE CheckStored(q)
  BY <1>0, <1>2, GotoStep DEF CheckStored, TypeOK, Step
<1>3. CASE Store(q)
  <2> DEFINE x == Over(q, "release", "running")
  <2>1. x \in Run /\ x.pc = "release"
    BY <1>0, RunValues DEF Step, Status
  <2>2. run' \in [Runner -> Run] /\ CallAtHand'
    <3>1. run' = [run EXCEPT ![q] = x]
      BY <1>3 DEF Store
    <3> HIDE DEF x
    <3>2. QED
      BY <1>0, <2>1, <3>1, RunStep
  <2>3. stored' \in [Key -> Status \cup {None}]
    BY <1>0, <1>3 DEF Store, TypeOK
  <2>4. QED
    BY <1>3, <2>2, <2>3 DEF Store, TypeOK
<1>4. CASE Release(q)
  <2> DEFINE x == Over(q, "done", "running")
  <2>1. x \in Run /\ x.pc = "done"
    BY <1>0, RunValues DEF Step, Status
  <2>2. run' \in [Runner -> Run] /\ CallAtHand'
    <3>1. run' = [run EXCEPT ![q] = x]
      BY <1>4 DEF Release
    <3> HIDE DEF x
    <3>2. QED
      BY <1>0, <2>1, <3>1, RunStep
  <2>3. QED
    BY <1>4, <2>2 DEF Release, TypeOK
<1>5. CASE Lapse(q)
  BY <1>5 DEF Lapse, TypeOK, CallAtHand
<1>6. CASE BeginQuery(q)
  <2> DEFINE x == Restored(q, "ask")
  <2>1. x \in Run /\ x.pc = "ask"
    BY <1>0, RunValues DEF Step, Status
  <2>2. run' \in [Runner -> Run] /\ CallAtHand'
    <3>1. run' = [run EXCEPT ![q] = x]
      BY <1>6 DEF BeginQuery
    <3> HIDE DEF x
    <3>2. QED
      BY <1>0, <2>1, <3>1, RunStep
  <2>3. hub' \in [Process -> Runner \cup {None}]
    BY <1>0, <1>6 DEF BeginQuery, TypeOK
  <2>4. QED
    BY <1>6, <2>2, <2>3 DEF BeginQuery, TypeOK
<1>7. CASE Ask(q)
  <2>1. log' \in Log
    BY <1>7 DEF Ask, TypeOK, Log
  <2>2. asked' \in [Key -> Nat]
    BY <1>7 DEF Ask, TypeOK
  <2>3. QED
    BY <1>0, <1>7, <2>1, <2>2, GotoStep DEF Ask, TypeOK, Step
<1>8. CASE Intent(q)
  <2>1. CASE Goto(q, "model") /\ UNCHANGED log
    BY <1>0, <1>8, <2>1, GotoStep DEF Intent, TypeOK, Step
  <2>2. CASE \E C \in SUBSET Fresh : \E short \in {FALSE, C # {}} : Respond(q, C, short)
    <3>1. PICK C \in SUBSET Fresh, short \in BOOLEAN : Respond(q, C, short)
      BY <2>2
    <3>2. C \in SUBSET Call
      BY DEF Fresh
    <3>3. run' \in [Runner -> Run] /\ CallAtHand' /\ log' \in Log
      BY <1>0, <3>1, <3>2, ResponseStep
    <3>4. QED
      BY <1>8, <3>3 DEF Intent, TypeOK
  <2>3. QED
    BY <1>8, <2>1, <2>2 DEF Intent
<1>9. QED
  BY <1>1, <1>2, <1>3, <1>4, <1>5, <1>6, <1>7, <1>8

\* Steps of resumes outside the graph.
LEMMA ResumeWellFormed ==
  ASSUME WellFormed, NEW s \in Resume,
         ResumeRead(s) \/ Subscribe(s) \/ BeginResume(s) \/ FillRecord(s)
           \/ \E c \in Call : FillExecute(s, c)
  PROVE  WellFormed'
<1> USE DEF WellFormed
<1>0. s \in Runner /\ run \in [Runner -> Run] /\ run[s] \in Run
  BY DEF Runner, TypeOK
<1>1. CASE ResumeRead(s)
  BY <1>0, <1>1, GotoStep DEF ResumeRead, TypeOK, Step
<1>2. CASE Subscribe(s)
  BY <1>0, <1>2, GotoStep DEF Subscribe, TypeOK, Step
<1>3. CASE BeginResume(s)
  <2> DEFINE pc == IF Missing = {} THEN "model" ELSE "fill"
             y == [Restored(s, pc) EXCEPT !.todo = Missing]
             x == IF ~log.open THEN Over(s, "end", "completed")
                  ELSE IF log.answered THEN Over(s, "finish", "completed") ELSE y
  <2>1. /\ Over(s, "end", "completed") \in Run
        /\ Over(s, "end", "completed").pc = "end"
        /\ Over(s, "finish", "completed") \in Run
        /\ Over(s, "finish", "completed").pc = "finish"
    BY <1>0, RunValues DEF Step, Status
  <2>2. Restored(s, pc) \in Run /\ Restored(s, pc).pc = pc
    <3>1. pc \in Step /\ "running" \in Status
      BY DEF Step, Status
    <3> HIDE DEF pc
    <3>2. QED
      BY <1>0, <3>1, RunValues
  <2>3. y \in Run /\ y.pc \in {"model", "fill"}
    <3>1. Missing \in SUBSET Call
      BY DEF Missing, TypeOK, Log
    <3>2. QED
      BY <2>2, <3>1 DEF Run
  <2>4. x \in Run /\ x.pc \in {"end", "finish", "model", "fill"}
    <3> HIDE DEF y
    <3>1. QED
      BY <2>1, <2>3
  <2>5. run' \in [Runner -> Run] /\ CallAtHand'
    <3>1. run' = [run EXCEPT ![s] = x]
      BY <1>3 DEF BeginResume
    <3> HIDE DEF x
    <3>2. QED
      BY <1>0, <2>4, <3>1, RunStep
  <2>6. hub' \in [Process -> Runner \cup {None}]
    BY <1>0, <1>3 DEF BeginResume, TypeOK
  <2>7. QED
    BY <1>3, <2>5, <2>6 DEF BeginResume, TypeOK
<1>4. CASE FillRecord(s)
  <2>1. run[s].call \in Call
    BY <1>0, <1>4 DEF FillRecord, At, CallAtHand
  <2>2. run' \in [Runner -> Run] /\ CallAtHand' /\ log' \in Log
    BY <1>0, <1>4, <2>1, ResultStep DEF FillRecord, Step
  <2>3. QED
    BY <1>4, <2>2 DEF FillRecord, TypeOK
<1>5. CASE \E c \in Call : FillExecute(s, c)
  <2>1. PICK c \in Call : FillExecute(s, c)
    BY <1>5
  <2>2. PICK late \in BOOLEAN :
          run' = [run EXCEPT ![s].call = c, ![s].pc = "fill_record",
                             ![s].stop = @ \/ late]
    BY <2>1 DEF FillExecute
  <2> DEFINE x == [run[s] EXCEPT !.call = c, !.pc = "fill_record",
                                 !.stop = run[s].stop \/ late]
  <2>3. x \in Run /\ x.call = c
    BY <1>0 DEF Run, Step
  <2>4. run' = [run EXCEPT ![s] = x]
    BY <1>0, <2>2
  <2>5. run' \in [Runner -> Run] /\ CallAtHand'
    <3> HIDE DEF x
    <3>1. QED
      BY <1>0, <2>3, <2>4, RunStep
  <2>6. executed' \in [Call -> Nat]
    <3>1. \/ executed' = executed
          \/ executed' = [executed EXCEPT ![c] = executed[c] + 1]
      BY <2>1 DEF FillExecute
    <3>2. executed \in [Call -> Nat]
      BY DEF TypeOK
    <3>3. QED
      BY <3>1, <3>2
  <2>7. QED
    BY <2>1, <2>5, <2>6 DEF FillExecute, TypeOK
<1>6. QED
  BY <1>1, <1>2, <1>3, <1>4, <1>5

\* Steps of the graph.
LEMMA GraphWellFormed ==
  ASSUME WellFormed, NEW r \in Runner, GraphStep(r) \/ EndRun(r)
  PROVE  WellFormed'
<1> USE DEF WellFormed
<1>0. run \in [Runner -> Run] /\ run[r] \in Run /\ log \in Log /\ run[r].status \in Status
  BY DEF TypeOK, Run
<1>1. CASE Model(r)
  <2>1. PICK C \in SUBSET Fresh : Respond(r, C, FALSE)
    BY <1>1 DEF Model
  <2>2. C \in SUBSET Call
    BY DEF Fresh
  <2>3. run' \in [Runner -> Run] /\ CallAtHand' /\ log' \in Log
    BY <2>1, <2>2, ResponseStep
  <2>4. QED
    BY <1>1, <2>3 DEF Model, TypeOK
<1>2. CASE StartTools(r)
  BY <1>2, GotoStep DEF StartTools, TypeOK, Step
<1>3. CASE ToolsDone(r)
  <2>1. CASE Goto(r, "finish")
    BY <1>3, <2>1, GotoStep DEF ToolsDone, TypeOK, Step
  <2>2. CASE run' = [run EXCEPT ![r].short = FALSE, ![r].pc = "model"]
    <3> DEFINE x == [run[r] EXCEPT !.short = FALSE, !.pc = "model"]
    <3>1. x \in Run /\ x.pc = "model"
      BY <1>0 DEF Run, Step
    <3>2. run' = [run EXCEPT ![r] = x]
      BY <1>0, <2>2
    <3>3. run' \in [Runner -> Run] /\ CallAtHand'
      <4> HIDE DEF x
      <4>1. QED
        BY <3>1, <3>2, RunStep
    <3>4. QED
      BY <1>3, <3>3 DEF ToolsDone, TypeOK
  <2>3. QED
    BY <1>3, <2>1, <2>2 DEF ToolsDone
<1>4. CASE RecordTool(r)
  <2>1. run[r].call \in Call
    BY <1>4 DEF RecordTool, At, CallAtHand
  <2>2. run' \in [Runner -> Run] /\ CallAtHand' /\ log' \in Log
    BY <1>4, <2>1, ResultStep DEF RecordTool, Step
  <2>3. QED
    BY <1>4, <2>2 DEF RecordTool, TypeOK
<1>5. CASE StopRun(r)
  <2>1. PICK status \in Status : run' = [run EXCEPT ![r] = Over(r, "end", status)]
    BY <1>5 DEF StopRun, Status
  <2>2. Over(r, "end", status) \in Run /\ Over(r, "end", status).pc = "end"
    BY RunValues DEF Step
  <2>3. run' \in [Runner -> Run] /\ CallAtHand'
    BY <2>1, <2>2, RunStep
  <2>4. log' \in Log
    <3>1. log' = log \/ log' = [log EXCEPT !.open = FALSE]
      BY <1>5 DEF StopRun
    <3>2. QED
      BY <1>0, <3>1 DEF Log
  <2>5. QED
    BY <1>5, <2>3, <2>4 DEF StopRun, TypeOK
<1>6. CASE Finish(r)
  <2> DEFINE pc == IF r \in Decider THEN "done" ELSE "end"
             status == IF run[r].status = "running" THEN "completed" ELSE run[r].status
  <2>1. pc \in Step /\ status \in Status /\ pc \in {"done", "end"}
    BY <1>0 DEF Step, Status
  <2>2. run' = [run EXCEPT ![r] = Over(r, pc, status)]
    BY <1>6 DEF Finish
  <2> HIDE DEF pc, status
  <2>3. Over(r, pc, status) \in Run /\ Over(r, pc, status).pc = pc
    BY <2>1, RunValues
  <2>4. run' \in [Runner -> Run] /\ CallAtHand'
    BY <2>1, <2>2, <2>3, RunStep
  <2>5. log' \in Log
    BY <1>0, <1>6 DEF Finish, Log
  <2>6. QED
    BY <1>6, <2>4, <2>5 DEF Finish, TypeOK
<1>7. CASE EndRun(r)
  <2> DEFINE pc == IF r \in Resume THEN "done"
                   ELSE IF run[r].status = "failed" THEN "release" ELSE "store"
  <2>1. pc \in Step /\ pc \in {"done", "release", "store"}
    BY DEF Step
  <2>2. run' = [run EXCEPT ![r] = Over(r, pc, run[r].status)]
    BY <1>7 DEF EndRun
  <2> HIDE DEF pc
  <2>3. Over(r, pc, run[r].status) \in Run /\ Over(r, pc, run[r].status).pc = pc
    BY <1>0, <2>1, RunValues
  <2>4. run' \in [Runner -> Run] /\ CallAtHand'
    BY <2>1, <2>2, <2>3, RunStep
  <2>5. hub' \in [Process -> Runner \cup {None}]
    BY <1>7 DEF EndRun, TypeOK
  <2>6. QED
    BY <1>7, <2>4, <2>5 DEF EndRun, TypeOK
<1>8. ASSUME NEW c \in Call, RefuseTool(r, c)
      PROVE  WellFormed'
  <2>1. run' \in [Runner -> Run] /\ CallAtHand' /\ log' \in Log
    BY <1>8, ResultStep DEF RefuseTool, Step
  <2>2. QED
    BY <1>8, <2>1 DEF RefuseTool, TypeOK
<1>9. ASSUME NEW c \in Call, RequestApproval(r, c)
      PROVE  WellFormed'
  <2> DEFINE x == [run[r] EXCEPT !.todo = run[r].todo \ {c}, !.status = "waiting_approval"]
  <2>1. x \in Run /\ x.pc = "tools"
    BY <1>0, <1>9 DEF Run, Status, RequestApproval, At
  <2>2. run' = [run EXCEPT ![r] = x]
    BY <1>0, <1>9 DEF RequestApproval
  <2>3. run' \in [Runner -> Run] /\ CallAtHand'
    <3> HIDE DEF x
    <3>1. QED
      BY <2>1, <2>2, RunStep
  <2>4. approval' \in [Call -> {"none", "pending", "approved", "rejected"}]
    BY <1>9 DEF RequestApproval, TypeOK
  <2>5. QED
    BY <1>9, <2>3, <2>4 DEF RequestApproval, TypeOK
<1>10. ASSUME NEW c \in Call, ExecuteTool(r, c)
       PROVE  WellFormed'
  <2>1. PICK late \in BOOLEAN :
          run' = [run EXCEPT ![r].call = c, ![r].pc = "record", ![r].stop = @ \/ late]
    BY <1>10 DEF ExecuteTool
  <2> DEFINE x == [run[r] EXCEPT !.call = c, !.pc = "record",
                                 !.stop = run[r].stop \/ late]
  <2>2. x \in Run /\ x.call = c
    BY <1>0 DEF Run, Step
  <2>3. run' = [run EXCEPT ![r] = x]
    BY <1>0, <2>1
  <2>4. run' \in [Runner -> Run] /\ CallAtHand'
    <3> HIDE DEF x
    <3>1. QED
      BY <2>2, <2>3, RunStep
  <2>5. executed' \in [Call -> Nat]
    <3>1. \/ executed' = executed
          \/ executed' = [executed EXCEPT ![c] = executed[c] + 1]
      BY <1>10 DEF ExecuteTool
    <3>2. executed \in [Call -> Nat]
      BY DEF TypeOK
    <3>3. QED
      BY <3>1, <3>2
  <2>6. QED
    BY <1>10, <2>4, <2>5 DEF ExecuteTool, TypeOK
<1>11. QED
  BY <1>1, <1>2, <1>3, <1>4, <1>5, <1>6, <1>7, <1>8, <1>9, <1>10 DEF GraphStep

\* Steps of approval decisions outside the graph.
LEMMA DeciderWellFormed ==
  ASSUME WellFormed, NEW d \in Decider,
         Act(d) \/ ActResult(d) \/ Remaining(d) \/ Restore(d) \/ \E c \in Call : Decide(d, c)
  PROVE  WellFormed'
<1> USE DEF WellFormed
<1>0. d \in Runner /\ run \in [Runner -> Run] /\ run[d] \in Run
  BY DEF Runner, TypeOK
<1>1. CASE Act(d)
  <2>1. run[d].call \in Call
    BY <1>0, <1>1 DEF Act, At, CallAtHand
  <2> DEFINE x == [run[d] EXCEPT !.pc = "result"]
  <2>2. x \in Run /\ x.call \in Call
    BY <1>0, <2>1 DEF Run, Step
  <2>3. run' = [run EXCEPT ![d] = x]
    BY <1>0, <1>1 DEF Act, Goto
  <2>4. run' \in [Runner -> Run] /\ CallAtHand'
    <3> HIDE DEF x
    <3>1. QED
      BY <1>0, <2>2, <2>3, RunStep
  <2>5. executed' \in [Call -> Nat]
    <3> DEFINE c == run[d].call
    <3>1. \/ executed' = executed
          \/ executed' = [executed EXCEPT ![c] = executed[c] + 1]
      BY <1>1 DEF Act
    <3>2. executed \in [Call -> Nat] /\ c \in Call
      BY <2>1 DEF TypeOK
    <3> HIDE DEF c
    <3>3. QED
      BY <3>1, <3>2
  <2>6. QED
    BY <1>1, <2>4, <2>5 DEF Act, TypeOK
<1>2. CASE ActResult(d)
  <2>1. run[d].call \in Call
    BY <1>0, <1>2 DEF ActResult, At, CallAtHand
  <2>2. run' \in [Runner -> Run] /\ CallAtHand' /\ log' \in Log
    BY <1>0, <1>2, <2>1, ResultStep DEF ActResult, Step
  <2>3. QED
    BY <1>2, <2>2 DEF ActResult, TypeOK
<1>3. CASE Remaining(d)
  <2>1. PICK pc \in {"done", "restore"} : run' = [run EXCEPT ![d] = Over(d, pc, "running")]
    BY <1>3 DEF Remaining
  <2>2. Over(d, pc, "running") \in Run /\ Over(d, pc, "running").pc = pc
    BY <1>0, RunValues DEF Step, Status
  <2>3. run' \in [Runner -> Run] /\ CallAtHand'
    BY <1>0, <2>1, <2>2, RunStep
  <2>4. QED
    BY <1>3, <2>3 DEF Remaining, TypeOK
<1>4. CASE Restore(d)
  <2>1. Restored(d, "model") \in Run /\ Restored(d, "model").pc = "model"
    BY <1>0, RunValues DEF Step, Status
  <2>2. run' = [run EXCEPT ![d] = Restored(d, "model")]
    BY <1>4 DEF Restore
  <2>3. run' \in [Runner -> Run] /\ CallAtHand'
    BY <1>0, <2>1, <2>2, RunStep
  <2>4. QED
    BY <1>4, <2>3 DEF Restore, TypeOK
<1>5. ASSUME NEW c \in Call, Decide(d, c)
      PROVE  WellFormed'
  <2> DEFINE x == [run[d] EXCEPT !.call = c, !.pc = "act"]
  <2>1. x \in Run /\ x.call = c
    BY <1>0 DEF Run, Step
  <2>2. run' = [run EXCEPT ![d] = x]
    BY <1>0, <1>5 DEF Decide
  <2>3. run' \in [Runner -> Run] /\ CallAtHand'
    <3> HIDE DEF x
    <3>1. QED
      BY <1>0, <2>1, <2>2, RunStep
  <2>4. approval' \in [Call -> {"none", "pending", "approved", "rejected"}]
    <3>1. PICK verdict \in {"approved", "rejected"} :
            approval' = [approval EXCEPT ![c] = verdict]
      BY <1>5 DEF Decide
    <3>2. QED
      BY <3>1 DEF TypeOK
  <2>5. QED
    BY <1>5, <2>3, <2>4 DEF Decide, TypeOK
<1>6. QED
  BY <1>1, <1>2, <1>3, <1>4, <1>5

\* A request that fails is over, or releases its lease first.
LEMMA FailGoes ==
  ASSUME NEW r \in Runner, Fail(r)
  PROVE  \E next \in {"dead", "release", "done", "end"} :
           run' = [run EXCEPT ![r] = Over(r, next, "failed")]
<1> DEFINE pc   == run[r].pc
           next == CASE pc = "release" -> "dead"
                     [] pc \in {"cached", "begin", "store"} /\ r \in Query -> "release"
                     [] pc \in {"subscribe", "begin"} /\ r \in Resume -> "done"
                     [] r \in Decider -> "done"
                     [] OTHER -> "end"
<1>1. run' = [run EXCEPT ![r] = Over(r, next, "failed")]
  BY DEF Fail
<1>2. next \in {"dead", "release", "done", "end"}
  <2> HIDE DEF pc
  <2>1. QED
    OBVIOUS
<1> HIDE DEF next
<1>3. QED
  BY <1>1, <1>2

\* Interrupts, errors and crashes.
LEMMA FaultWellFormed ==
  ASSUME WellFormed,
         (\E r \in Runner : Fail(r)) \/ \E p \in Process : Interrupt(p) \/ Crash(p)
  PROVE  WellFormed'
<1> USE DEF WellFormed
<1>0. run \in [Runner -> Run] /\ None \notin Runner
  BY RunnerAssumption DEF TypeOK
<1>1. ASSUME NEW r \in Runner, Fail(r)
      PROVE  WellFormed'
  <2>0. PICK next \in {"dead", "release", "done", "end"} :
          run' = [run EXCEPT ![r] = Over(r, next, "failed")]
    BY <1>1, FailGoes
  <2>2. Over(r, next, "failed") \in Run /\ Over(r, next, "failed").pc = next
    <3>1. next \in Step /\ "failed" \in Status
      BY DEF Step, Status
    <3>2. QED
      BY <3>1, RunValues
  <2>3. run' \in [Runner -> Run] /\ CallAtHand'
    BY <2>0, <2>2, RunStep
  <2>4. faults' \in 0..MaxFaults
    BY <1>1, BoundAssumption DEF Fail, TypeOK
  <2>5. QED
    BY <1>1, <2>3, <2>4 DEF Fail, TypeOK
<1>2. ASSUME NEW p \in Process, Interrupt(p)
      PROVE  WellFormed'
  <2> DEFINE r == hub[p]
             x == [run[r] EXCEPT !.stop = TRUE]
  <2>1. r \in Runner
    BY <1>2 DEF Interrupt, TypeOK
  <2>2. x \in Run /\ x.pc = run[r].pc /\ x.call = run[r].call
    <3> HIDE DEF r
    <3>1. QED
      BY <1>0, <2>1 DEF Run
  <2>3. run' = [run EXCEPT ![r] = x]
    BY <1>0, <1>2, <2>1 DEF Interrupt
  <2>4. x.pc \in {"fill_record", "record", "act", "result"} => x.call \in Call
    <3> HIDE DEF r, x
    <3>1. QED
      BY <2>1, <2>2 DEF CallAtHand
  <2>5. run' \in [Runner -> Run] /\ CallAtHand'
    <3> HIDE DEF r, x
    <3>1. QED
      BY <2>1, <2>2, <2>3, <2>4, RunStep
  <2>6. QED
    BY <1>2, <2>5 DEF Interrupt, TypeOK
<1>3. ASSUME NEW p \in Process, Crash(p)
      PROVE  WellFormed'
  <2> DEFINE gone == [NoRun EXCEPT !.pc = "dead"]
  <2>1. gone \in Run /\ gone.pc = "dead"
    BY DEF NoRun, Run, Step, Status
  <2>2. run' = [r \in Runner |-> IF Home[r] = p /\ run[r].pc \notin {"idle", "done"}
                                 THEN gone ELSE run[r]]
    BY <1>3 DEF Crash
  <2> HIDE DEF gone
  <2>3. run' \in [Runner -> Run] /\ CallAtHand'
    BY <1>0, <2>1, <2>2 DEF CallAtHand
  <2>4. faults' \in 0..MaxFaults /\ hub' \in [Process -> Runner \cup {None}]
    BY <1>3, BoundAssumption DEF Crash, TypeOK
  <2>5. QED
    BY <1>3, <2>3, <2>4 DEF Crash, TypeOK
<1>4. QED
  BY <1>1, <1>2, <1>3

LEMMA NextWellFormed == WellFormed /\ [Next]_vars => WellFormed'
<1> SUFFICES ASSUME WellFormed, [Next]_vars PROVE WellFormed'
  OBVIOUS
<1>1. CASE UNCHANGED vars
  BY <1>1 DEF vars, WellFormed, TypeOK, CallAtHand
<1>2. ASSUME NEW q \in Query, Acquire(q) \/ QueryStep(q) \/ Lapse(q)
      PROVE  WellFormed'
  BY <1>2, QueryWellFormed, GraphWellFormed DEF QueryStep, Runner
<1>3. ASSUME NEW s \in Resume, ResumeRead(s) \/ ResumeStep(s)
      PROVE  WellFormed'
  BY <1>3, ResumeWellFormed, GraphWellFormed DEF ResumeStep, Runner
<1>4. ASSUME NEW d \in Decider, (\E c \in Call : Decide(d, c)) \/ DeciderStep(d)
      PROVE  WellFormed'
  BY <1>4, DeciderWellFormed, GraphWellFormed DEF DeciderStep, Runner
<1>5. QED
  BY <1>1, <1>2, <1>3, <1>4, FaultWellFormed DEF Next

\* Every reachable state has the types of TypeOK, and a request that is about
\* to record a result has a call at hand.
THEOREM Typing == Spec => []WellFormed
<1>1. QED
  BY InitWellFormed, NextWellFormed, PTL DEF Spec

\* The types alone.
THEOREM TurnsTyped == Spec => []TypeOK
<1>1. WellFormed => TypeOK
  BY DEF WellFormed
<1>2. QED
  BY <1>1, Typing, PTL

---------------------------------------------------------------------------
(* Calls that require approval *)

InTools(r) == run[r].pc \in {"calls", "tools", "record"}

\* Records exist for issued gated calls only.
RecordsAreIssued ==
  \A c \in Call : approval[c] # "none" => c \in log.issued \cap Gated

\* A call that still is to be handled was issued and has no record, and nobody
\* else is to handle it.
TodoIsOwned ==
  \A r \in Runner : InTools(r) =>
    /\ run[r].todo \subseteq log.issued
    /\ \A c \in run[r].todo : approval[c] = "none"
    /\ \A s \in Runner \ {r} : InTools(s) => run[r].todo \cap run[s].todo = {}

\* A decision that is about to act has the decided, not yet executed call for
\* itself.
DecisionIsOwned ==
  \A d \in Runner : At(d, "act") =>
    /\ approval[run[d].call] \in {"approved", "rejected"}
    /\ executed[run[d].call] = 0
    /\ \A e \in Runner \ {d} : At(e, "act") => run[e].call # run[d].call

Gate == RecordsAreIssued /\ TodoIsOwned /\ DecisionIsOwned /\ GatedCallsRunOnce

\* A step of r after which r neither has new calls to handle nor a new decision
\* to carry out.
Quiet(r) ==
  /\ \A s \in Runner \ {r} : run'[s] = run[s]
  /\ run'[r].pc # "act"
  /\ InTools(r)' => InTools(r) /\ run'[r].todo \subseteq run[r].todo

Untouched ==
  /\ log'.issued = log.issued
  /\ approval' = approval
  /\ \A c \in Gated : executed'[c] = executed[c]

\* Steps that leave calls and records alone and give no request more to do.
LEMMA CalmStep ==
  ASSUME WellFormed, Gate, Untouched,
         \A r \in Runner : InTools(r)' => /\ InTools(r)
                                          /\ run'[r].todo \subseteq run[r].todo,
         \A r \in Runner : At(r, "act")' => /\ At(r, "act")
                                            /\ run'[r].call = run[r].call
  PROVE  Gate'
<1>1. RecordsAreIssued'
  BY DEF Gate, RecordsAreIssued, Untouched
<1>2. TodoIsOwned'
  <2> SUFFICES ASSUME NEW r \in Runner, InTools(r)'
               PROVE  (/\ run[r].todo \subseteq log.issued
                       /\ \A c \in run[r].todo : approval[c] = "none"
                       /\ \A s \in Runner \ {r} :
                            InTools(s) => run[r].todo \cap run[s].todo = {})'
    BY DEF TodoIsOwned
  <2>1. /\ InTools(r) /\ run'[r].todo \subseteq run[r].todo
        /\ run[r].todo \subseteq log.issued
        /\ \A c \in run[r].todo : approval[c] = "none"
    BY DEF Gate, TodoIsOwned
  <2>2. ASSUME NEW s \in Runner \ {r}, InTools(s)'
        PROVE  run'[r].todo \cap run'[s].todo = {}
    <3>1. InTools(s) /\ run'[s].todo \subseteq run[s].todo
      BY <2>2
    <3>2. run[r].todo \cap run[s].todo = {}
      BY <2>1, <3>1 DEF Gate, TodoIsOwned
    <3>3. QED
      BY <2>1, <3>1, <3>2
  <2>3. QED
    BY <2>1, <2>2 DEF Untouched
<1>3. DecisionIsOwned'
  <2> SUFFICES ASSUME NEW d \in Runner, At(d, "act")'
               PROVE  (/\ approval[run[d].call] \in {"approved", "rejected"}
                       /\ executed[run[d].call] = 0
                       /\ \A e \in Runner \ {d} :
                            At(e, "act") => run[e].call # run[d].call)'
    BY DEF DecisionIsOwned
  <2>1. At(d, "act") /\ run'[d].call = run[d].call
    OBVIOUS
  <2>2. /\ approval[run[d].call] \in {"approved", "rejected"}
        /\ executed[run[d].call] = 0
    BY <2>1 DEF Gate, DecisionIsOwned
  <2>3. run[d].call \in Gated
    BY <2>1, <2>2 DEF At, WellFormed, CallAtHand, Gate, RecordsAreIssued
  <2>4. ASSUME NEW e \in Runner \ {d}, At(e, "act")'
        PROVE  run'[e].call # run'[d].call
    <3>1. At(e, "act") /\ run'[e].call = run[e].call
      BY <2>4
    <3>2. QED
      BY <2>1, <3>1 DEF Gate, DecisionIsOwned
  <2>5. QED
    BY <2>1, <2>2, <2>3, <2>4 DEF Untouched
<1>4. GatedCallsRunOnce'
  BY DEF Gate, GatedCallsRunOnce, Untouched
<1>5. QED
  BY <1>1, <1>2, <1>3, <1>4 DEF Gate

LEMMA QuietStep ==
  ASSUME WellFormed, Gate, Untouched, NEW r \in Runner, Quiet(r)
  PROVE  Gate'
<1>1. \A s \in Runner : InTools(s)' => InTools(s) /\ run'[s].todo \subseteq run[s].todo
  BY DEF Quiet, InTools
<1>2. \A s \in Runner : At(s, "act")' => At(s, "act") /\ run'[s].call = run[s].call
  BY DEF Quiet, At
<1>3. QED
  BY <1>1, <1>2, CalmStep

LEMMA OverIsQuiet ==
  ASSUME WellFormed, NEW r \in Runner, NEW pc, NEW status,
         pc \notin {"act", "calls", "tools", "record"},
         run' = [run EXCEPT ![r] = Over(r, pc, status)]
  PROVE  Quiet(r)
<1>1. run \in [Runner -> Run]
  BY DEF WellFormed, TypeOK
<1> DEFINE x == Over(r, pc, status)
<1>2. x.pc = pc
  BY DEF Over, NoRun
<1>3. run'[r] = x /\ \A s \in Runner \ {r} : run'[s] = run[s]
  BY <1>1
<1> HIDE DEF x
<1>4. QED
  BY <1>2, <1>3 DEF Quiet, InTools

LEMMA GotoIsQuiet ==
  ASSUME WellFormed, NEW r \in Runner, NEW pc, Goto(r, pc),
         pc # "act",
         pc \in {"calls", "tools", "record"} => InTools(r)
  PROVE  Quiet(r)
<1>1. run \in [Runner -> Run] /\ run[r] \in Run
  BY DEF WellFormed, TypeOK
<1>2. run'[r].pc = pc /\ run'[r].todo = run[r].todo
  BY <1>1 DEF Goto, Run
<1>3. \A s \in Runner \ {r} : run'[s] = run[s]
  BY <1>1 DEF Goto
<1>4. QED
  BY <1>2, <1>3 DEF Quiet, InTools

LEMMA AddResultIsQuiet ==
  ASSUME WellFormed, NEW r \in Runner, NEW c, NEW pc, AddResult(r, c, pc),
         pc # "act",
         pc \in {"calls", "tools", "record"} => InTools(r)
  PROVE  Quiet(r) /\ log'.issued = log.issued
<1>1. run \in [Runner -> Run] /\ run[r] \in Run /\ log \in Log
  BY DEF WellFormed, TypeOK
<1>2. run'[r].pc = pc /\ run'[r].todo = run[r].todo \ {c}
  BY <1>1 DEF AddResult, Run
<1>3. \A s \in Runner \ {r} : run'[s] = run[s]
  BY <1>1 DEF AddResult
<1>4. log'.issued = log.issued
  BY <1>1 DEF AddResult, Log
<1>5. QED
  BY <1>2, <1>3, <1>4 DEF Quiet, InTools

\* A response adds calls that nobody handled before.
LEMMA RespondKeepsGate ==
  ASSUME WellFormed, Gate, NEW r \in Runner, NEW C \in SUBSET Fresh, NEW short,
         Respond(r, C, short), UNCHANGED <<approval, executed>>
  PROVE  Gate'
<1>1. run \in [Runner -> Run] /\ run[r] \in Run /\ log \in Log
  BY DEF WellFormed, TypeOK
<1>2. /\ run'[r].todo = C
      /\ run'[r].pc \in {"finish", "calls"}
      /\ \A s \in Runner \ {r} : run'[s] = run[s]
  BY <1>1 DEF Respond, Run
<1>3. log'.issued = log.issued \cup C
  BY <1>1 DEF Respond, Log
<1>4. /\ C \subseteq Call /\ C \cap log.issued = {}
      /\ \A c \in C : approval[c] = "none"
  BY DEF Fresh, Gate, RecordsAreIssued
<1>5. RecordsAreIssued'
  BY <1>3 DEF Gate, RecordsAreIssued
<1>6. TodoIsOwned'
  <2>1. \A s \in Runner \ {r} : InTools(s)' =>
          /\ InTools(s) /\ run'[s].todo = run[s].todo
          /\ run[s].todo \subseteq log.issued
          /\ \A c \in run[s].todo : approval[c] = "none"
    BY <1>2 DEF InTools, Gate, TodoIsOwned
  <2>2. ASSUME NEW s \in Runner, NEW t \in Runner \ {s}, InTools(s)', InTools(t)'
        PROVE  run'[s].todo \cap run'[t].todo = {}
    <3>1. CASE s = r
      BY <1>2, <1>4, <2>1, <2>2, <3>1
    <3>2. CASE t = r
      BY <1>2, <1>4, <2>1, <2>2, <3>2
    <3>3. CASE s # r /\ t # r
      BY <2>1, <2>2, <3>3 DEF Gate, TodoIsOwned
    <3>4. QED
      BY <3>1, <3>2, <3>3
  <2>3. ASSUME NEW s \in Runner, InTools(s)'
        PROVE  /\ run'[s].todo \subseteq log'.issued
               /\ \A c \in run'[s].todo : approval'[c] = "none"
    BY <1>2, <1>3, <1>4, <2>1, <2>3
  <2>4. QED
    BY <2>2, <2>3 DEF TodoIsOwned
<1>7. DecisionIsOwned'
  <2>1. \A d \in Runner : At(d, "act")' => At(d, "act") /\ run'[d] = run[d]
    BY <1>2 DEF At
  <2>2. QED
    BY <2>1 DEF Gate, DecisionIsOwned
<1>8. GatedCallsRunOnce'
  BY DEF Gate, GatedCallsRunOnce
<1>9. QED
  BY <1>5, <1>6, <1>7, <1>8 DEF Gate

\* A request for approval opens the record of a call it takes off the list.
LEMMA RequestKeepsGate ==
  ASSUME WellFormed, Gate, NEW r \in Runner, NEW c \in Call, RequestApproval(r, c)
  PROVE  Gate'
<1>1. /\ run \in [Runner -> Run] /\ run[r] \in Run
      /\ approval \in [Call -> {"none", "pending", "approved", "rejected"}]
  BY DEF WellFormed, TypeOK
<1>2. /\ run'[r].todo = run[r].todo \ {c} /\ run'[r].pc = "tools"
      /\ \A s \in Runner \ {r} : run'[s] = run[s]
  BY <1>1 DEF RequestApproval, At, Run
<1>3. /\ c \in run[r].todo /\ c \in Gated /\ InTools(r)
      /\ c \in log.issued /\ approval[c] = "none"
      /\ log' = log /\ executed' = executed
  BY DEF RequestApproval, At, InTools, Gate, TodoIsOwned
<1>4. \A b \in Call : approval'[b] = IF b = c THEN "pending" ELSE approval[b]
  BY <1>1 DEF RequestApproval
<1>5. RecordsAreIssued'
  BY <1>3, <1>4 DEF Gate, RecordsAreIssued
<1>6. TodoIsOwned'
  <2>1. \A s \in Runner : InTools(s)' =>
          /\ InTools(s) /\ run'[s].todo \subseteq run[s].todo /\ c \notin run'[s].todo
    BY <1>2, <1>3 DEF InTools, Gate, TodoIsOwned
  <2>2. ASSUME NEW s \in Runner, InTools(s)'
        PROVE  /\ run'[s].todo \subseteq log'.issued
               /\ \A b \in run'[s].todo : approval'[b] = "none"
    <3>1. /\ run[s].todo \subseteq log.issued
          /\ \A b \in run[s].todo : approval[b] = "none"
          /\ run'[s].todo \subseteq run[s].todo /\ c \notin run'[s].todo
      BY <2>1, <2>2 DEF Gate, TodoIsOwned
    <3>2. log.issued \subseteq Call
      BY DEF WellFormed, TypeOK, Log
    <3>3. QED
      BY <1>3, <1>4, <3>1, <3>2
  <2>3. ASSUME NEW s \in Runner, NEW t \in Runner \ {s}, InTools(s)', InTools(t)'
        PROVE  run'[s].todo \cap run'[t].todo = {}
    <3>1. run[s].todo \cap run[t].todo = {}
      BY <2>1, <2>3 DEF Gate, TodoIsOwned
    <3>2. QED
      BY <2>1, <2>3, <3>1
  <2>4. QED
    BY <2>2, <2>3 DEF TodoIsOwned
<1>7. DecisionIsOwned'
  <2>1. ASSUME NEW d \in Runner, At(d, "act")'
        PROVE  At(d, "act") /\ run'[d] = run[d] /\ run[d].call \in Call \ {c}
    <3>1. At(d, "act") /\ run'[d] = run[d]
      BY <1>2, <2>1 DEF At
    <3>2. approval[run[d].call] # "none" /\ run[d].call \in Call
      BY <3>1 DEF Gate, DecisionIsOwned, At, WellFormed, CallAtHand
    <3>3. QED
      BY <1>3, <3>1, <3>2
  <2>2. QED
    BY <1>3, <1>4, <2>1 DEF Gate, DecisionIsOwned
<1>8. GatedCallsRunOnce'
  BY <1>3, <1>4, MapAssumption DEF Gate, GatedCallsRunOnce
<1>9. QED
  BY <1>5, <1>6, <1>7, <1>8 DEF Gate

\* A decision closes a pending record: nobody else decided the call before.
LEMMA DecideKeepsGate ==
  ASSUME WellFormed, Gate, NEW d \in Decider, NEW c \in Call, Decide(d, c)
  PROVE  Gate'
<1>1. /\ d \in Runner /\ run \in [Runner -> Run] /\ run[d] \in Run
      /\ approval \in [Call -> {"none", "pending", "approved", "rejected"}]
      /\ executed \in [Call -> Nat]
  BY DEF WellFormed, TypeOK, Runner
<1>2. /\ run'[d].call = c /\ run'[d].pc = "act"
      /\ \A s \in Runner \ {d} : run'[s] = run[s]
  BY <1>1 DEF Decide, Run
<1>3. PICK verdict \in {"approved", "rejected"} :
        approval' = [approval EXCEPT ![c] = verdict]
  BY DEF Decide
<1>4. \A b \in Call : approval'[b] = IF b = c THEN verdict ELSE approval[b]
  BY <1>1, <1>3
<1>5. /\ approval[c] = "pending" /\ log' = log /\ executed' = executed
      /\ c \in log.issued \cap Gated
  BY DEF Decide, Gate, RecordsAreIssued
<1>6. executed[c] = 0
  BY <1>1, <1>5 DEF Gate, GatedCallsRunOnce
<1>7. RecordsAreIssued'
  BY <1>4, <1>5 DEF Gate, RecordsAreIssued
<1>8. TodoIsOwned'
  <2>1. \A s \in Runner : InTools(s)' => InTools(s) /\ run'[s] = run[s]
    BY <1>2 DEF InTools
  <2>2. \A s \in Runner : InTools(s) => c \notin run[s].todo /\ run[s].todo \subseteq Call
    BY <1>5 DEF Gate, TodoIsOwned, WellFormed, TypeOK, Log
  <2>3. QED
    BY <1>4, <1>5, <2>1, <2>2 DEF Gate, TodoIsOwned
<1>9. DecisionIsOwned'
  <2>1. ASSUME NEW e \in Runner \ {d}, At(e, "act")'
        PROVE  At(e, "act") /\ run'[e] = run[e] /\ run[e].call \in Call \ {c}
    <3>1. At(e, "act") /\ run'[e] = run[e]
      BY <1>2, <2>1 DEF At
    <3>2. approval[run[e].call] # "pending" /\ run[e].call \in Call
      BY <3>1 DEF Gate, DecisionIsOwned, At, WellFormed, CallAtHand
    <3>3. QED
      BY <1>5, <3>1, <3>2
  <2>2. ASSUME NEW e \in Runner, At(e, "act")'
        PROVE  /\ approval'[run'[e].call] \in {"approved", "rejected"}
               /\ executed'[run'[e].call] = 0
    <3>1. CASE e = d
      BY <1>2, <1>4, <1>5, <1>6, <3>1
    <3>2. CASE e # d
      BY <1>4, <1>5, <2>1, <2>2, <3>2 DEF Gate, DecisionIsOwned
    <3>3. QED
      BY <3>1, <3>2
  <2>3. ASSUME NEW e \in Runner, NEW f \in Runner \ {e}, At(e, "act")', At(f, "act")'
        PROVE  run'[e].call # run'[f].call
    <3>1. CASE e = d
      BY <1>2, <2>1, <2>3, <3>1
    <3>2. CASE f = d
      BY <1>2, <2>1, <2>3, <3>2
    <3>3. CASE e # d /\ f # d
      BY <2>1, <2>3, <3>3 DEF Gate, DecisionIsOwned
    <3>4. QED
      BY <3>1, <3>2, <3>3
  <2>4. QED
    BY <2>2, <2>3 DEF DecisionIsOwned
<1>10. GatedCallsRunOnce'
  BY <1>4, <1>5, <1>6, MapAssumption DEF Gate, GatedCallsRunOnce
<1>11. QED
  BY <1>7, <1>8, <1>9, <1>10 DEF Gate

\* Acting on a decision executes an approved call for the first time.
LEMMA ActKeepsGate ==
  ASSUME WellFormed, Gate, NEW d \in Decider, Act(d)
  PROVE  Gate'
<1> DEFINE c == run[d].call
<1>1. /\ d \in Runner /\ run \in [Runner -> Run] /\ run[d] \in Run
      /\ executed \in [Call -> Nat]
  BY DEF WellFormed, TypeOK, Runner
<1>2. /\ At(d, "act") /\ c \in Call /\ log' = log /\ approval' = approval
      /\ approval[c] \in {"approved", "rejected"} /\ executed[c] = 0
  BY <1>1 DEF Act, At, WellFormed, CallAtHand, Gate, DecisionIsOwned
<1>3. \A b \in Call : executed'[b] = IF b = c /\ approval[c] = "approved" THEN 1
                                     ELSE executed[b]
  <2>1. executed' = IF approval[c] = "approved" THEN [executed EXCEPT ![c] = executed[c] + 1]
                    ELSE executed
    BY DEF Act
  <2> HIDE DEF c
  <2>2. QED
    BY <1>1, <1>2, <2>1
<1>4. run'[d].pc = "result" /\ \A s \in Runner \ {d} : run'[s] = run[s]
  BY <1>1 DEF Act, Goto, Run
<1>5. RecordsAreIssued'
  BY <1>2 DEF Gate, RecordsAreIssued
<1>6. TodoIsOwned'
  <2>1. \A s \in Runner : InTools(s)' => InTools(s) /\ run'[s] = run[s]
    BY <1>4 DEF InTools
  <2>2. QED
    BY <1>2, <2>1 DEF Gate, TodoIsOwned
<1>7. DecisionIsOwned'
  <2>1. ASSUME NEW e \in Runner, At(e, "act")'
        PROVE  /\ e # d /\ At(e, "act") /\ run'[e] = run[e]
               /\ run[e].call \in Call \ {c}
    <3>1. e # d /\ At(e, "act") /\ run'[e] = run[e]
      BY <1>4, <2>1 DEF At
    <3>2. run[e].call # c
      BY <1>1, <1>2, <3>1 DEF Gate, DecisionIsOwned
    <3>3. run[e].call \in Call
      BY <3>1 DEF At, WellFormed, CallAtHand
    <3>4. QED
      BY <3>1, <3>2, <3>3
  <2> HIDE DEF c
  <2>2. QED
    BY <1>2, <1>3, <2>1 DEF Gate, DecisionIsOwned
<1>8. GatedCallsRunOnce'
  <2> HIDE DEF c
  <2>1. QED
    BY <1>2, <1>3, MapAssumption DEF Gate, GatedCallsRunOnce
<1>9. QED
  BY <1>5, <1>6, <1>7, <1>8 DEF Gate

\* Steps of queries outside the graph.
LEMMA QueryKeepsGate ==
  ASSUME WellFormed, Gate, NEW q \in Query,
         Acquire(q) \/ CheckStored(q) \/ Store(q) \/ Release(q) \/ Lapse(q)
           \/ BeginQuery(q) \/ Ask(q) \/ Intent(q)
  PROVE  Gate'
<1>0. q \in Runner /\ run \in [Runner -> Run] /\ run[q] \in Run /\ log \in Log
  BY DEF Runner, WellFormed, TypeOK
<1>1. CASE Acquire(q)
  BY <1>0, <1>1, GotoIsQuiet, QuietStep DEF Acquire, Untouched
<1>2. CASE CheckStored(q)
  BY <1>0, <1>2, GotoIsQuiet, QuietStep DEF CheckStored, Untouched
<1>3. CASE Store(q)
  BY <1>0, <1>3, OverIsQuiet, QuietStep DEF Store, Untouched
<1>4. CASE Release(q)
  BY <1>0, <1>4, OverIsQuiet, QuietStep DEF Release, Untouched
<1>5. CASE Lapse(q)
  BY <1>5, CalmStep DEF Lapse, Untouched, InTools, At
<1>6. CASE BeginQuery(q)
  <2>1. Quiet(q)
    BY <1>0, <1>6 DEF BeginQuery, Restored, Quiet, InTools, Run
  <2>2. QED
    BY <1>0, <1>6, <2>1, QuietStep DEF BeginQuery, Untouched
<1>7. CASE Ask(q)
  <2>1. log'.issued = log.issued
    BY <1>0, <1>7 DEF Ask, Log
  <2>2. QED
    BY <1>0, <1>7, <2>1, GotoIsQuiet, QuietStep DEF Ask, Untouched
<1>8. CASE Intent(q)
  <2>1. CASE Goto(q, "model") /\ UNCHANGED log
    BY <1>0, <1>8, <2>1, GotoIsQuiet, QuietStep DEF Intent, Untouched
  <2>2. CASE \E C \in SUBSET Fresh : \E short \in {FALSE, C # {}} : Respond(q, C, short)
    BY <1>0, <1>8, <2>2, RespondKeepsGate DEF Intent
  <2>3. QED
    BY <1>8, <2>1, <2>2 DEF Intent
<1>9. QED
  BY <1>1, <1>2, <1>3, <1>4, <1>5, <1>6, <1>7, <1>8

\* Steps of resumes outside the graph: none executes a call that requires
\* approval.
LEMMA ResumeKeepsGate ==
  ASSUME WellFormed, Gate, NEW s \in Resume,
         ResumeRead(s) \/ Subscribe(s) \/ BeginResume(s) \/ FillRecord(s)
           \/ \E c \in Call : FillExecute(s, c)
  PROVE  Gate'
<1>0. s \in Runner /\ run \in [Runner -> Run] /\ run[s] \in Run /\ executed \in [Call -> Nat]
  BY DEF Runner, WellFormed, TypeOK
<1>1. CASE ResumeRead(s)
  BY <1>0, <1>1, GotoIsQuiet, QuietStep DEF ResumeRead, Untouched
<1>2. CASE Subscribe(s)
  BY <1>0, <1>2, GotoIsQuiet, QuietStep DEF Subscribe, Untouched
<1>3. CASE BeginResume(s)
  <2> DEFINE x == [Restored(s, IF Missing = {} THEN "model" ELSE "fill")
                     EXCEPT !.todo = Missing]
  <2>1. x.pc \in {"model", "fill"}
    BY <1>0 DEF Restored, Run
  <2>2. \/ run' = [run EXCEPT ![s] = Over(s, "end", "completed")]
        \/ run' = [run EXCEPT ![s] = Over(s, "finish", "completed")]
        \/ run' = [run EXCEPT ![s] = x]
    BY <1>3 DEF BeginResume
  <2>3. Quiet(s)
    <3>1. CASE run' = [run EXCEPT ![s] = x]
      <4> HIDE DEF x
      <4>1. QED
        BY <1>0, <2>1, <3>1 DEF Quiet, InTools
    <3> HIDE DEF x
    <3>2. QED
      BY <1>0, <2>2, <3>1, OverIsQuiet
  <2>4. QED
    BY <1>0, <1>3, <2>3, QuietStep DEF BeginResume, Untouched
<1>4. CASE FillRecord(s)
  <2>1. Quiet(s) /\ log'.issued = log.issued
    BY <1>0, <1>4, AddResultIsQuiet DEF FillRecord
  <2>2. QED
    BY <1>0, <1>4, <2>1, QuietStep DEF FillRecord, Untouched
<1>5. CASE \E c \in Call : FillExecute(s, c)
  <2>1. PICK c \in Call : FillExecute(s, c)
    BY <1>5
  <2>2. run'[s].pc = "fill_record" /\ \A t \in Runner \ {s} : run'[t] = run[t]
    <3>1. PICK late \in BOOLEAN :
            run' = [run EXCEPT ![s].call = c, ![s].pc = "fill_record",
                               ![s].stop = @ \/ late]
      BY <2>1 DEF FillExecute
    <3> DEFINE x == [run[s] EXCEPT !.call = c, !.pc = "fill_record",
                                   !.stop = run[s].stop \/ late]
    <3>2. run' = [run EXCEPT ![s] = x]
      BY <1>0, <3>1
    <3>3. x.pc = "fill_record"
      BY <1>0 DEF Run
    <3> HIDE DEF x
    <3>4. QED
      BY <1>0, <3>2, <3>3
  <2>3. \A b \in Gated : executed'[b] = executed[b]
    BY <1>0, <2>1, MapAssumption DEF FillExecute
  <2>4. QED
    BY <1>0, <2>1, <2>2, <2>3, QuietStep DEF FillExecute, Quiet, InTools, Untouched
<1>6. QED
  BY <1>1, <1>2, <1>3, <1>4, <1>5

\* Steps of the graph.
LEMMA GraphKeepsGate ==
  ASSUME WellFormed, Gate, NEW r \in Runner, GraphStep(r) \/ EndRun(r)
  PROVE  Gate'
<1>0. run \in [Runner -> Run] /\ run[r] \in Run /\ log \in Log /\ executed \in [Call -> Nat]
  BY DEF WellFormed, TypeOK
<1>1. CASE Model(r)
  BY <1>1, RespondKeepsGate DEF Model
<1>2. CASE StartTools(r)
  BY <1>2, GotoIsQuiet, QuietStep DEF StartTools, At, InTools, Untouched
<1>3. CASE ToolsDone(r)
  <2>1. run'[r].pc \in {"finish", "model"} /\ \A s \in Runner \ {r} : run'[s] = run[s]
    BY <1>0, <1>3 DEF ToolsDone, Goto, Run
  <2>2. QED
    BY <1>3, <2>1, QuietStep DEF ToolsDone, Quiet, InTools, Untouched
<1>4. CASE RecordTool(r)
  <2>1. Quiet(r) /\ log'.issued = log.issued
    BY <1>4, AddResultIsQuiet DEF RecordTool, At, InTools
  <2>2. QED
    BY <1>4, <2>1, QuietStep DEF RecordTool, Untouched
<1>5. CASE StopRun(r)
  <2>0. PICK status \in Status : run' = [run EXCEPT ![r] = Over(r, "end", status)]
    BY <1>5 DEF StopRun, Status
  <2>1. Quiet(r)
    BY <2>0, OverIsQuiet
  <2>2. log'.issued = log.issued
    BY <1>0, <1>5 DEF StopRun, Log
  <2>3. QED
    BY <1>5, <2>1, <2>2, QuietStep DEF StopRun, Untouched
<1>6. CASE Finish(r)
  <2> DEFINE pc == IF r \in Decider THEN "done" ELSE "end"
             status == IF run[r].status = "running" THEN "completed" ELSE run[r].status
  <2>1. Quiet(r)
    <3>1. run' = [run EXCEPT ![r] = Over(r, pc, status)]
      BY <1>6 DEF Finish
    <3>2. pc \in {"done", "end"}
      OBVIOUS
    <3> HIDE DEF pc, status
    <3>3. QED
      BY <3>1, <3>2, OverIsQuiet
  <2>2. log'.issued = log.issued
    BY <1>0, <1>6 DEF Finish, Log
  <2>3. QED
    BY <1>6, <2>1, <2>2, QuietStep DEF Finish, Untouched
<1>7. CASE EndRun(r)
  <2> DEFINE pc == IF r \in Resume THEN "done"
                   ELSE IF run[r].status = "failed" THEN "release" ELSE "store"
  <2>1. run' = [run EXCEPT ![r] = Over(r, pc, run[r].status)]
    BY <1>7 DEF EndRun
  <2>2. pc \in {"done", "release", "store"}
    OBVIOUS
  <2> HIDE DEF pc
  <2>3. Quiet(r)
    BY <2>1, <2>2, OverIsQuiet
  <2>4. QED
    BY <1>7, <2>3, QuietStep DEF EndRun, Untouched
<1>8. ASSUME NEW c \in Call, RefuseTool(r, c)
      PROVE  Gate'
  <2>1. Quiet(r) /\ log'.issued = log.issued
    BY <1>8, AddResultIsQuiet DEF RefuseTool, At, InTools
  <2>2. QED
    BY <1>8, <2>1, QuietStep DEF RefuseTool, Untouched
<1>9. ASSUME NEW c \in Call, ExecuteTool(r, c)
      PROVE  Gate'
  <2>1. /\ run'[r].pc = "record" /\ run'[r].todo = run[r].todo /\ run[r].pc = "tools"
        /\ \A s \in Runner \ {r} : run'[s] = run[s]
    BY <1>0, <1>9 DEF ExecuteTool, At, Run
  <2>2. \A b \in Gated : executed'[b] = executed[b]
    BY <1>0, <1>9, MapAssumption DEF ExecuteTool
  <2>3. QED
    BY <1>9, <2>1, <2>2, QuietStep DEF ExecuteTool, Quiet, InTools, Untouched
<1>10. QED
  BY <1>1, <1>2, <1>3, <1>4, <1>5, <1>6, <1>7, <1>8, <1>9, RequestKeepsGate DEF GraphStep

\* Steps of approval decisions outside the graph.
LEMMA DeciderKeepsGate ==
  ASSUME WellFormed, Gate, NEW d \in Decider,
         Act(d) \/ ActResult(d) \/ Remaining(d) \/ Restore(d) \/ \E c \in Call : Decide(d, c)
  PROVE  Gate'
<1>0. d \in Runner /\ run \in [Runner -> Run] /\ run[d] \in Run
  BY DEF Runner, WellFormed, TypeOK
<1>1. CASE ActResult(d)
  <2>1. Quiet(d) /\ log'.issued = log.issued
    BY <1>0, <1>1, AddResultIsQuiet DEF ActResult
  <2>2. QED
    BY <1>0, <1>1, <2>1, QuietStep DEF ActResult, Untouched
<1>2. CASE Remaining(d)
  BY <1>0, <1>2, OverIsQuiet, QuietStep DEF Remaining, Untouched
<1>3. CASE Restore(d)
  <2>1. Quiet(d)
    BY <1>0, <1>3 DEF Restore, Restored, Quiet, InTools, Run
  <2>2. QED
    BY <1>0, <1>3, <2>1, QuietStep DEF Restore, Untouched
<1>4. QED
  BY <1>1, <1>2, <1>3, ActKeepsGate, DecideKeepsGate

\* Interrupts, errors and crashes.
LEMMA FaultKeepsGate ==
  ASSUME WellFormed, Gate,
         (\E r \in Runner : Fail(r)) \/ \E p \in Process : Interrupt(p) \/ Crash(p)
  PROVE  Gate'
<1>0. run \in [Runner -> Run] /\ hub \in [Process -> Runner \cup {None}]
  BY DEF WellFormed, TypeOK
<1>1. ASSUME NEW r \in Runner, Fail(r)
      PROVE  Gate'
  <2>1. PICK next \in {"dead", "release", "done", "end"} :
          run' = [run EXCEPT ![r] = Over(r, next, "failed")]
    BY <1>1, FailGoes
  <2>2. QED
    BY <1>1, <2>1, OverIsQuiet, QuietStep DEF Fail, Untouched
<1>2. ASSUME NEW p \in Process, Interrupt(p)
      PROVE  Gate'
  <2>1. \A r \in Runner : /\ run'[r].pc = run[r].pc /\ run'[r].todo = run[r].todo
                          /\ run'[r].call = run[r].call
    BY <1>0, <1>2 DEF Interrupt, Run
  <2>2. QED
    BY <1>2, <2>1, CalmStep DEF Interrupt, Untouched, InTools, At
<1>3. ASSUME NEW p \in Process, Crash(p)
      PROVE  Gate'
  <2>1. \A r \in Runner : run'[r].pc = "dead" \/ run'[r] = run[r]
    BY <1>3 DEF Crash, NoRun
  <2>2. QED
    BY <1>3, <2>1, CalmStep DEF Crash, Untouched, InTools, At
<1>4. QED
  BY <1>1, <1>2, <1>3

LEMMA NextKeepsGate == WellFormed /\ Gate /\ [Next]_vars => Gate'
<1> SUFFICES ASSUME WellFormed, Gate, [Next]_vars PROVE Gate'
  OBVIOUS
<1>1. CASE UNCHANGED vars
  BY <1>1, CalmStep DEF vars, Untouched, InTools, At
<1>2. ASSUME NEW q \in Query, Acquire(q) \/ QueryStep(q) \/ Lapse(q)
      PROVE  Gate'
  BY <1>2, QueryKeepsGate, GraphKeepsGate DEF QueryStep, Runner
<1>3. ASSUME NEW s \in Resume, ResumeRead(s) \/ ResumeStep(s)
      PROVE  Gate'
  BY <1>3, ResumeKeepsGate, GraphKeepsGate DEF ResumeStep, Runner
<1>4. ASSUME NEW d \in Decider, (\E c \in Call : Decide(d, c)) \/ DeciderStep(d)
      PROVE  Gate'
  BY <1>4, DeciderKeepsGate, GraphKeepsGate DEF DeciderStep, Runner
<1>5. QED
  BY <1>1, <1>2, <1>3, <1>4, FaultKeepsGate DEF Next

\* A call that requires approval is executed at most once and only when it was
\* approved, whatever queries, resumes, decisions, crashes and errors happen.
THEOREM GatedOnce == Spec => []GatedCallsRunOnce
<1>1. Init => Gate
  <2> SUFFICES ASSUME Init PROVE Gate
    OBVIOUS
  <2>1. \A r \in Runner : run[r].pc = "idle"
    BY DEF Init, NoRun
  <2>2. QED
    BY <2>1, MapAssumption DEF Init, Gate, RecordsAreIssued, TodoIsOwned,
       DecisionIsOwned, GatedCallsRunOnce, InTools, At
<1>2. Gate => GatedCallsRunOnce
  BY DEF Gate
<1>3. QED
  BY <1>1, <1>2, NextKeepsGate, Typing, PTL DEF Spec

---------------------------------------------------------------------------
(* The turn lease *)

Served(r) == run[r].pc \notin {"idle", "done", "dead"}

\* While leases are renewed, a query that is served holds the lease.
Leased == ~Stalls => \A q \in Query : Served(q) => holder = q

\* A step of one request that is served already.
OnlyMoves(r) ==
  /\ Served(r)
  /\ \A s \in Runner \ {r} : run'[s] = run[s]
  /\ holder' = holder

LEMMA MoveKeepsLease ==
  ASSUME Leased, NEW r \in Runner, OnlyMoves(r)
  PROVE  Leased'
BY DEF Leased, OnlyMoves, Served, Runner

\* Steps of the graph.
LEMMA GraphMoves ==
  ASSUME WellFormed, NEW r \in Runner, GraphStep(r) \/ EndRun(r)
  PROVE  OnlyMoves(r)
<1>0. run \in [Runner -> Run]
  BY DEF WellFormed, TypeOK
<1> USE <1>0 DEF OnlyMoves, Served, At
<1>1. CASE Model(r)
  BY <1>1 DEF Model, Respond
<1>2. CASE StartTools(r)
  BY <1>2 DEF StartTools, Goto
<1>3. CASE ToolsDone(r)
  BY <1>3 DEF ToolsDone, Goto
<1>4. CASE RecordTool(r)
  BY <1>4 DEF RecordTool, AddResult
<1>5. CASE StopRun(r)
  BY <1>5 DEF StopRun
<1>6. CASE Finish(r)
  BY <1>6 DEF Finish
<1>7. CASE EndRun(r)
  BY <1>7 DEF EndRun
<1>8. ASSUME NEW c \in Call, RefuseTool(r, c)
      PROVE  OnlyMoves(r)
  BY <1>8 DEF RefuseTool, AddResult
<1>9. ASSUME NEW c \in Call, RequestApproval(r, c)
      PROVE  OnlyMoves(r)
  BY <1>9 DEF RequestApproval
<1>10. ASSUME NEW c \in Call, ExecuteTool(r, c)
       PROVE  OnlyMoves(r)
  BY <1>10 DEF ExecuteTool
<1>11. QED
  BY <1>1, <1>2, <1>3, <1>4, <1>5, <1>6, <1>7, <1>8, <1>9, <1>10 DEF GraphStep

\* Steps of queries: only an idle one acquires the lease, only its holder
\* releases it, and it lapses for a dead one only.
LEMMA QueryKeepsLease ==
  ASSUME WellFormed, Leased, NEW q \in Query, Acquire(q) \/ QueryStep(q) \/ Lapse(q)
  PROVE  Leased'
<1>0. q \in Runner /\ run \in [Runner -> Run] /\ None \notin Query
  BY RunnerAssumption DEF Runner, WellFormed, TypeOK
<1>1. CASE Acquire(q)
  <2>1. \A r \in Query \ {q} : run'[r] = run[r] /\ r # None
    BY <1>0, <1>1 DEF Acquire, Goto, Runner
  <2>2. holder = None /\ holder' = q
    BY <1>1 DEF Acquire
  <2>3. QED
    BY <2>1, <2>2 DEF Leased, Served
<1>2. CASE Lapse(q)
  BY <1>2 DEF Lapse, Leased, Served, At
<1>3. CASE Release(q)
  <2>1. run'[q].pc = "done" /\ \A r \in Query \ {q} : run'[r] = run[r]
    BY <1>0, <1>3 DEF Release, Over, NoRun, Runner
  <2>2. holder' = IF holder = q THEN None ELSE holder
    BY <1>3 DEF Release
  <2>3. QED
    BY <2>1, <2>2 DEF Leased, Served
<1>4. CASE CheckStored(q)
  <2>1. OnlyMoves(q)
    BY <1>0, <1>4 DEF CheckStored, Goto, OnlyMoves, Served, At
  <2>2. QED
    BY <1>0, <2>1, MoveKeepsLease
<1>5. CASE BeginQuery(q)
  <2>1. OnlyMoves(q)
    BY <1>0, <1>5 DEF BeginQuery, OnlyMoves, Served, At
  <2>2. QED
    BY <1>0, <2>1, MoveKeepsLease
<1>6. CASE Ask(q)
  <2>1. OnlyMoves(q)
    BY <1>0, <1>6 DEF Ask, Goto, OnlyMoves, Served, At
  <2>2. QED
    BY <1>0, <2>1, MoveKeepsLease
<1>7. CASE Intent(q)
  <2>1. OnlyMoves(q)
    BY <1>0, <1>7 DEF Intent, Goto, Respond, OnlyMoves, Served, At
  <2>2. QED
    BY <1>0, <2>1, MoveKeepsLease
<1>8. CASE Store(q)
  <2>1. OnlyMoves(q)
    BY <1>0, <1>8 DEF Store, OnlyMoves, Served, At
  <2>2. QED
    BY <1>0, <2>1, MoveKeepsLease
<1>9. CASE GraphStep(q) \/ EndRun(q)
  BY <1>0, <1>9, GraphMoves, MoveKeepsLease
<1>10. QED
  BY <1>1, <1>2, <1>3, <1>4, <1>5, <1>6, <1>7, <1>8, <1>9 DEF QueryStep

\* Other requests leave the lease alone.
LEMMA OthersKeepLease ==
  ASSUME WellFormed, Leased, NEW r \in Runner \ Query,
         \/ ResumeRead(r) \/ ResumeStep(r)
         \/ (\E c \in Call : Decide(r, c)) \/ DeciderStep(r)
  PROVE  Leased'
<1>0. run \in [Runner -> Run]
  BY DEF WellFormed, TypeOK
<1>1. CASE GraphStep(r) \/ EndRun(r)
  BY <1>1, GraphMoves, MoveKeepsLease
<1>2. CASE ~(GraphStep(r) \/ EndRun(r))
  <2>1. holder' = holder
    BY <1>2 DEF ResumeRead, ResumeStep, Subscribe, BeginResume, FillRecord, FillExecute,
       Decide, DeciderStep, Act, ActResult, Remaining, Restore
  <2>2. \A s \in Runner \ {r} : run'[s] = run[s]
    BY <1>0, <1>2 DEF ResumeRead, ResumeStep, Subscribe, BeginResume, FillRecord,
       FillExecute, Decide, DeciderStep, Act, ActResult, Remaining, Restore, Goto, AddResult
  <2>3. QED
    BY <2>1, <2>2 DEF Leased, Served, Runner
<1>3. QED
  BY <1>1, <1>2

LEMMA FaultKeepsLease ==
  ASSUME WellFormed, Leased,
         (\E r \in Runner : Fail(r)) \/ \E p \in Process : Interrupt(p) \/ Crash(p)
  PROVE  Leased'
<1>0. run \in [Runner -> Run] /\ hub \in [Process -> Runner \cup {None}]
  BY DEF WellFormed, TypeOK
<1>1. ASSUME NEW r \in Runner, Fail(r)
      PROVE  Leased'
  <2>1. OnlyMoves(r)
    BY <1>0, <1>1 DEF Fail, OnlyMoves, Served
  <2>2. QED
    BY <2>1, MoveKeepsLease
<1>2. ASSUME NEW p \in Process, Interrupt(p)
      PROVE  Leased'
  <2>1. holder' = holder /\ \A r \in Runner : run'[r].pc = run[r].pc
    BY <1>0, <1>2 DEF Interrupt, Run
  <2>2. QED
    BY <2>1 DEF Leased, Served, Runner
<1>3. ASSUME NEW p \in Process, Crash(p)
      PROVE  Leased'
  <2>1. holder' = holder /\ \A r \in Runner : run'[r].pc = "dead" \/ run'[r] = run[r]
    BY <1>3 DEF Crash, NoRun
  <2>2. QED
    BY <2>1 DEF Leased, Served, Runner
<1>4. QED
  BY <1>1, <1>2, <1>3

LEMMA NextKeepsLease == WellFormed /\ Leased /\ [Next]_vars => Leased'
<1> SUFFICES ASSUME WellFormed, Leased, [Next]_vars PROVE Leased'
  OBVIOUS
<1>1. CASE UNCHANGED vars
  BY <1>1 DEF vars, Leased, Served
<1>2. \A r \in Resume \cup Decider : r \in Runner \ Query
  BY RunnerAssumption DEF Runner
<1>3. QED
  BY <1>1, <1>2, QueryKeepsLease, OthersKeepLease, FaultKeepsLease DEF Next

\* While leases are renewed, two queries never work on the session together,
\* even with crashes and errors: a query works only while it holds the lease.
THEOREM OneQuery == Spec => []QueriesSerialized
<1>1. Init => Leased
  BY DEF Init, NoRun, Leased, Served, Runner
<1>2. Leased => QueriesSerialized
  BY DEF Leased, QueriesSerialized, Served, InTurn
<1>3. QED
  BY <1>1, <1>2, NextKeepsLease, Typing, PTL DEF Spec

---------------------------------------------------------------------------
(* The run that an interrupt reaches *)

OthersStay(r) == \A s \in Runner \ {r} : run'[s] = run[s]

\* What a step of the graph changes of a request r, besides its messages.
LEMMA GraphEffects ==
  ASSUME WellFormed, NEW r \in Runner, GraphStep(r)
  PROVE  /\ OthersStay(r) /\ UNCHANGED <<hub, asked, stored, faults>>
         /\ run[r].pc \in {"model", "calls", "tools", "record", "finish"}
         /\ run'[r].pc \in {"model", "calls", "tools", "record", "finish", "end"}
              \cup (IF r \in Decider THEN {"done"} ELSE {})
         /\ run'[r].status = "failed" => run[r].status = "failed"
<1>0. run \in [Runner -> Run] /\ run[r] \in Run
  BY DEF WellFormed, TypeOK
<1>1. OthersStay(r)
  BY GraphMoves DEF OnlyMoves, OthersStay
<1>o. ASSUME NEW pc \in {"end", "done"}, NEW status
      PROVE  Over(r, pc, status).pc = pc
             /\ (Over(r, pc, status).status = "failed" => status = "failed")
  BY DEF Over, NoRun
<1>r. ASSUME NEW C \in SUBSET Fresh, NEW short, Respond(r, C, short)
      PROVE  run'[r].pc \in {"finish", "calls"} /\ run'[r].status = run[r].status
  BY <1>0, <1>r DEF Respond, Run
<1>a. ASSUME NEW c, AddResult(r, c, "tools")
      PROVE  run'[r].pc = "tools" /\ run'[r].status = run[r].status
  BY <1>0, <1>a DEF AddResult, Run
<1>2. CASE Model(r)
  BY <1>1, <1>2, <1>r DEF Model, At
<1>3. CASE StartTools(r)
  BY <1>0, <1>1, <1>3 DEF StartTools, Goto, At, Run
<1>4. CASE ToolsDone(r)
  BY <1>0, <1>1, <1>4 DEF ToolsDone, Goto, At, Run
<1>5. CASE RecordTool(r)
  BY <1>1, <1>5, <1>a DEF RecordTool, At
<1>6. CASE StopRun(r)
  <2>1. run'[r] = Over(r, "end", IF r \in Streams \cup Resume THEN "interrupted" ELSE "cancelled")
    BY <1>0, <1>6 DEF StopRun
  <2>2. run'[r].pc = "end" /\ run'[r].status # "failed"
    BY <2>1, <1>o
  <2> QED  BY <1>1, <1>6, <2>2 DEF StopRun
<1>7. CASE Finish(r)
  <2> DEFINE pc == IF r \in Decider THEN "done" ELSE "end"
             status == IF run[r].status = "running" THEN "completed" ELSE run[r].status
  <2>1. run'[r] = Over(r, pc, status)
    BY <1>0, <1>7 DEF Finish
  <2>2. pc \in {"end", "done"} /\ (status = "failed" => run[r].status = "failed")
    OBVIOUS
  <2>3. run'[r].pc = pc /\ (run'[r].status = "failed" => run[r].status = "failed")
    <3> HIDE DEF pc, status
    <3> QED  BY <2>1, <2>2, <1>o
  <2> QED  BY <1>1, <1>7, <2>3 DEF Finish, At
<1>8. ASSUME NEW c \in Call, RefuseTool(r, c) \/ RequestApproval(r, c) \/ ExecuteTool(r, c)
      PROVE  /\ UNCHANGED <<hub, asked, stored, faults>> /\ run[r].pc = "tools"
             /\ run'[r].pc \in {"tools", "record"}
             /\ run'[r].status = "failed" => run[r].status = "failed"
  <2>1. CASE RefuseTool(r, c)
    BY <2>1, <1>a DEF RefuseTool, At
  <2>2. CASE RequestApproval(r, c)
    BY <1>0, <2>2 DEF RequestApproval, At, Run
  <2>3. CASE ExecuteTool(r, c)
    BY <1>0, <2>3 DEF ExecuteTool, At, Run
  <2> QED  BY <1>8, <2>1, <2>2, <2>3
<1> QED  BY <1>1, <1>2, <1>3, <1>4, <1>5, <1>6, <1>7, <1>8 DEF GraphStep

\* From live_hub.begin to live_hub.end.
Working(q) == run[q].pc \notin {"idle", "cached", "begin", "store", "release", "done", "dead"}

NoResumeBeside(q) == \A s \in Resume : Home[s] # Home[q]

\* While leases are renewed, the hub has the query that works.
Controlled == ~Stalls => \A q \in Query : Working(q) /\ NoResumeBeside(q) => hub[Home[q]] = q

\* A step that leaves the hub alone, of a request that works if it works afterwards.
LEMMA HubStays ==
  ASSUME Controlled, NEW r \in Runner, OthersStay(r), hub' = hub,
         r \in Query /\ Working(r)' => Working(r)
  PROVE  Controlled'
BY DEF Controlled, OthersStay, Working, NoResumeBeside, Runner

LEMMA QueryKeepsHub ==
  ASSUME WellFormed, Leased, Controlled, NEW q \in Query, Acquire(q) \/ QueryStep(q) \/ Lapse(q)
  PROVE  Controlled'
<1>0. /\ q \in Runner /\ run \in [Runner -> Run] /\ run[q] \in Run
      /\ hub \in [Process -> Runner \cup {None}] /\ Home[q] \in Process
  BY MapAssumption DEF Runner, WellFormed, TypeOK
<1>1. CASE Acquire(q) \/ CheckStored(q) \/ Ask(q)
  <2>1. OthersStay(q) /\ hub' = hub
    BY <1>0, <1>1 DEF Acquire, CheckStored, Ask, Goto, OthersStay
  <2>2. Working(q)' => Working(q)
    BY <1>0, <1>1 DEF Acquire, CheckStored, Ask, Goto, Working, At, Run
  <2> QED  BY <1>0, <2>1, <2>2, HubStays
<1>2. CASE Intent(q)
  <2>1. OthersStay(q) /\ hub' = hub
    BY <1>0, <1>2 DEF Intent, Goto, Respond, OthersStay
  <2>2. Working(q)
    BY <1>2 DEF Intent, At, Working
  <2> QED  BY <1>0, <2>1, <2>2, HubStays
<1>3. CASE GraphStep(q)
  <2>1. Working(q)
    BY <1>0, <1>3, GraphEffects DEF Working
  <2> QED  BY <1>0, <1>3, <2>1, GraphEffects, HubStays
<1>4. CASE Store(q) \/ Release(q)
  <2>1. OthersStay(q) /\ hub' = hub
    BY <1>0, <1>4 DEF Store, Release, OthersStay
  <2>2. ~ Working(q)'
    BY <1>0, <1>4 DEF Store, Release, Over, NoRun, Working
  <2> QED  BY <1>0, <2>1, <2>2, HubStays
<1>5. CASE Lapse(q)
  BY <1>5 DEF Lapse, Controlled, Working, NoResumeBeside
<1>6. ASSUME Served(q), ~Stalls, NEW r \in Query, r # q
      PROVE  ~ Working(r)
  BY <1>6 DEF Leased, Served, Working
<1>7. CASE BeginQuery(q)
  <2>1. OthersStay(q) /\ hub'[Home[q]] = q /\ Served(q)
    BY <1>0, <1>7 DEF BeginQuery, OthersStay, Served, At
  <2> QED  BY <1>6, <2>1 DEF Controlled, OthersStay, Working, Runner
<1>8. CASE EndRun(q)
  <2>1. OthersStay(q) /\ Served(q)
    BY <1>0, <1>8 DEF EndRun, OthersStay, Served, At
  <2>2. ~ Working(q)'
    BY <1>0, <1>8 DEF EndRun, Over, NoRun, Working
  <2> QED  BY <1>6, <2>1, <2>2 DEF Controlled, OthersStay, Working, Runner
<1> QED
  BY <1>1, <1>2, <1>3, <1>4, <1>5, <1>7, <1>8 DEF QueryStep

LEMMA OthersKeepHub ==
  ASSUME WellFormed, Controlled, NEW r \in Runner \ Query,
         \/ r \in Resume /\ (ResumeRead(r) \/ ResumeStep(r))
         \/ (\E c \in Call : Decide(r, c)) \/ DeciderStep(r)
  PROVE  Controlled'
<1>0. /\ run \in [Runner -> Run] /\ hub \in [Process -> Runner \cup {None}]
      /\ \A q \in Query : Home[q] \in Process /\ q \in Runner
  BY MapAssumption DEF WellFormed, TypeOK, Runner
<1>1. CASE GraphStep(r)
  BY <1>1, GraphEffects, HubStays
<1>2. CASE EndRun(r) /\ r \in Resume
  <2>1. OthersStay(r) /\ hub' = [hub EXCEPT ![Home[r]] = None]
    BY <1>0, <1>2 DEF EndRun, OthersStay
  <2> QED  BY <1>0, <1>2, <2>1 DEF Controlled, OthersStay, Working, NoResumeBeside
<1>3. CASE BeginResume(r) /\ r \in Resume
  <2>1. OthersStay(r) /\ hub' = [hub EXCEPT ![Home[r]] = r]
    BY <1>0, <1>3 DEF BeginResume, OthersStay
  <2> QED  BY <1>0, <1>3, <2>1 DEF Controlled, OthersStay, Working, NoResumeBeside
<1>4. CASE ~ GraphStep(r) /\ ~ EndRun(r) /\ ~ BeginResume(r)
  <2>1. hub' = hub
    BY <1>4 DEF ResumeRead, ResumeStep, Subscribe, FillRecord, FillExecute,
       Decide, DeciderStep, Act, ActResult, Remaining, Restore
  <2>2. OthersStay(r)
    BY <1>0, <1>4 DEF ResumeRead, ResumeStep, Subscribe, FillRecord, OthersStay,
       FillExecute, Decide, DeciderStep, Act, ActResult, Remaining, Restore, Goto, AddResult
  <2> QED  BY <2>1, <2>2, HubStays
<1> QED  BY <1>1, <1>2, <1>3, <1>4 DEF DeciderStep, Decide, Act, ActResult, Remaining, Restore, At,
            EndRun, BeginResume, ResumeStep, ResumeRead

LEMMA FaultKeepsHub ==
  ASSUME WellFormed, Controlled,
         (\E r \in Runner : Fail(r)) \/ \E p \in Process : Interrupt(p) \/ Crash(p)
  PROVE  Controlled'
<1>0. run \in [Runner -> Run] /\ hub \in [Process -> Runner \cup {None}] /\ Query \subseteq Runner
  BY DEF WellFormed, TypeOK, Runner
<1>1. ASSUME NEW r \in Runner, Fail(r)
      PROVE  Controlled'
  <2>1. OthersStay(r) /\ hub' = hub
    BY <1>0, <1>1 DEF Fail, OthersStay
  <2>2. ASSUME r \in Query, Working(r)' PROVE Working(r)
    <3> DEFINE pc == run[r].pc
               next == CASE pc = "release" -> "dead"
                         [] pc \in {"cached", "begin", "store"} /\ r \in Query -> "release"
                         [] pc \in {"subscribe", "begin"} /\ r \in Resume -> "done"
                         [] r \in Decider -> "done"
                         [] OTHER -> "end"
    <3>0. run' = [run EXCEPT ![r] = Over(r, next, "failed")]
      BY <1>1 DEF Fail
    <3>p. pc \notin {"idle", "end", "done", "dead"}
      BY <1>1 DEF Fail
    <3>1. run'[r] = Over(r, next, "failed")
      <4> HIDE DEF next, pc
      <4> QED  BY <1>0, <3>0
    <3>2. /\ pc \in {"cached", "begin", "store"} => next = "release"
          /\ pc = "release" => next = "dead"
      <4>1. r \notin Resume /\ r \notin Decider
        BY <2>2, RunnerAssumption
      <4> HIDE DEF pc
      <4> QED  BY <2>2, <4>1
    <3> HIDE DEF next
    <3>3. run'[r].pc = next
      BY <3>1 DEF Over, NoRun
    <3> QED  BY <2>2, <3>p, <3>2, <3>3 DEF Working
  <2> QED  BY <2>1, <2>2, HubStays
<1>2. ASSUME NEW p \in Process, Interrupt(p)
      PROVE  Controlled'
  <2>1. hub' = hub /\ \A r \in Runner : run'[r].pc = run[r].pc
    BY <1>0, <1>2 DEF Interrupt, Run
  <2> QED  BY <1>0, <2>1 DEF Controlled, Working, NoResumeBeside
<1>3. ASSUME NEW p \in Process, Crash(p)
      PROVE  Controlled'
  <2>1. /\ hub' = [hub EXCEPT ![p] = None]
        /\ \A r \in Runner : IF Home[r] = p THEN run'[r].pc \in {"idle", "done", "dead"}
                             ELSE run'[r] = run[r]
    BY <1>0, <1>3 DEF Crash, NoRun
  <2>2. \A q \in Query : Home[q] \in Process
    BY <1>0, MapAssumption
  <2> QED  BY <1>0, <2>1, <2>2 DEF Controlled, Working, NoResumeBeside
<1> QED  BY <1>1, <1>2, <1>3

LEMMA NextKeepsHub == WellFormed /\ Leased /\ Controlled /\ [Next]_vars => Controlled'
<1> SUFFICES ASSUME WellFormed, Leased, Controlled, [Next]_vars PROVE Controlled'
  OBVIOUS
<1>1. CASE UNCHANGED vars
  BY <1>1 DEF vars, Controlled, Working, NoResumeBeside
<1>2. \A r \in Resume \cup Decider : r \in Runner \ Query
  BY RunnerAssumption DEF Runner
<1> QED  BY <1>1, <1>2, QueryKeepsHub, OthersKeepHub, FaultKeepsHub DEF Next

\* While leases are renewed, an interrupt reaches the run of a query from live_hub.begin to
\* live_hub.end, whatever other queries, crashes and errors do, unless a resume was served
\* by the same process.
THEOREM QueryInterruptible == Spec => []Interruptible
<1>1. Init => Leased /\ Controlled
  BY DEF Init, NoRun, Leased, Served, Runner, Controlled, Working
<1>2. Controlled => Interruptible
  BY DEF Controlled, Interruptible, Working, NoResumeBeside, InGraph
<1> QED  BY <1>1, <1>2, NextKeepsLease, NextKeepsHub, Typing, PTL DEF Spec

---------------------------------------------------------------------------
(* The key of a query *)

Asking(q) == run[q].pc \in {"begin", "ask"}
Asked(q) == run[q].pc \notin {"idle", "cached", "begin", "ask", "release", "done", "dead"}

\* A key that was asked has its result stored, or the query that asked is yet to store it;
\* a query about to ask is the first to do so.  (Without errors.)
AskedFirst ==
  /\ \A k \in Key : asked[k] <= 1
  /\ \A k \in Key : asked[k] > 0 /\ stored[k] = None => \E q \in Query : KeyOf[q] = k /\ Asked(q)
  /\ \A q \in Query : run[q].status # "failed"
  /\ \A q \in Query : Asking(q) /\ KeyOf[q] # None => asked[KeyOf[q]] = 0

Once == ~Stalls /\ faults = 0 => AskedFirst

\* A step of a request that asks and stores nothing.
LEMMA NothingAsked ==
  ASSUME AskedFirst, NEW r \in Runner, OthersStay(r), UNCHANGED <<asked, stored>>,
         r \in Query => /\ run'[r].status # "failed"
                        /\ Asked(r) => Asked(r)'
                        /\ Asking(r)' => Asking(r)
  PROVE  AskedFirst'
<1>1. \A q \in Query : /\ run'[q].status # "failed"
                       /\ Asked(q) => Asked(q)'
                       /\ Asking(q)' => Asking(q)
  <2> SUFFICES ASSUME NEW q \in Query
               PROVE  /\ run'[q].status # "failed"
                      /\ Asked(q) => Asked(q)'
                      /\ Asking(q)' => Asking(q)
    OBVIOUS
  <2>1. CASE q = r
    BY <2>1
  <2>2. CASE q # r
    <3>1. run'[q] = run[q]
      BY <2>2 DEF OthersStay, Runner
    <3> QED  BY <3>1 DEF AskedFirst, Asked, Asking
  <2> QED  BY <2>1, <2>2
<1> QED  BY <1>1 DEF AskedFirst

LEMMA QueryKeepsKey ==
  ASSUME WellFormed, Leased, AskedFirst, ~Stalls, faults = 0,
         NEW q \in Query, Acquire(q) \/ QueryStep(q) \/ Lapse(q)
  PROVE  AskedFirst'
<1>0. /\ q \in Runner /\ run \in [Runner -> Run] /\ run[q] \in Run
      /\ stored \in [Key -> Status \cup {None}] /\ asked \in [Key -> Nat]
      /\ KeyOf[q] \in Key \cup {None} /\ None \notin Key /\ run[q].status # "failed"
      /\ run[q].status \in Status
  BY MapAssumption, RunnerAssumption DEF Runner, WellFormed, TypeOK, AskedFirst, Run
<1>s. ASSUME Served(q), NEW r \in Query, r # q
      PROVE  ~ Asked(r) /\ ~ Asking(r)
  BY <1>s DEF Leased, Served, Asked, Asking
<1>1. CASE Acquire(q) \/ BeginQuery(q) \/ Release(q)
  <2>1. OthersStay(q) /\ UNCHANGED <<asked, stored>>
    BY <1>0, <1>1 DEF Acquire, BeginQuery, Release, Goto, OthersStay
  <2>2. /\ run'[q].pc \in {"cached", "ask", "done"} /\ run'[q].status # "failed"
        /\ run[q].pc \in {"idle", "begin", "release"}
        /\ run'[q].pc = "ask" => run[q].pc = "begin"
    <3>1. CASE Acquire(q)
      BY <1>0, <3>1 DEF Acquire, Goto, At, Run
    <3>2. CASE BeginQuery(q)
      BY <1>0, <3>2 DEF BeginQuery, Restored, At, Run
    <3>3. CASE Release(q)
      BY <1>0, <3>3 DEF Release, Over, NoRun, At
    <3> QED  BY <1>1, <3>1, <3>2, <3>3
  <2> QED  BY <1>0, <2>1, <2>2, NothingAsked DEF Asked, Asking
<1>2. CASE CheckStored(q)
  <2> DEFINE fresh == ~(KeyOf[q] # None /\ stored[KeyOf[q]] # None)
  <2>1. /\ OthersStay(q) /\ UNCHANGED <<asked, stored>> /\ Served(q) /\ run[q].pc = "cached"
        /\ run'[q].status = run[q].status
        /\ run'[q].pc = IF fresh THEN "begin" ELSE "release"
    BY <1>0, <1>2 DEF CheckStored, Goto, OthersStay, Served, At, Run
  <2>2. \A r \in Query : ~ Asked(r) /\ (r # q => ~ Asking(r))
    BY <1>s, <2>1 DEF Asked
  <2>3. \A k \in Key : asked[k] = 0 \/ stored[k] # None
    BY <1>0, <2>2 DEF AskedFirst
  <2>4. \A r \in Query : r # q => run'[r] = run[r]
    BY <2>1 DEF OthersStay, Runner
  <2>5. ASSUME NEW r \in Query, Asking(r)', KeyOf[r] # None PROVE asked'[KeyOf[r]] = 0
    <3>1. r = q /\ fresh
      BY <2>1, <2>2, <2>4, <2>5 DEF Asking
    <3> QED  BY <1>0, <2>1, <2>3, <2>5, <3>1
  <2>6. \A r \in Query : run'[r].status # "failed"
    BY <1>0, <2>1, <2>4 DEF AskedFirst
  <2>7. \A k \in Key : asked'[k] <= 1 /\ (asked'[k] > 0 => stored'[k] # None)
    BY <1>0, <2>1, <2>3 DEF AskedFirst
  <2> QED  BY <2>5, <2>6, <2>7 DEF AskedFirst
<1>3. CASE Ask(q)
  <2>1. /\ OthersStay(q) /\ stored' = stored /\ Served(q) /\ Asking(q)
        /\ run'[q].status # "failed" /\ run'[q].pc = "intent"
        /\ asked' = [k \in Key |-> IF k = KeyOf[q] THEN asked[k] + 1 ELSE asked[k]]
    BY <1>0, <1>3 DEF Ask, Goto, OthersStay, Served, Asking, At, Run
  <2>2. \A r \in Query : r # q => run'[r] = run[r] /\ ~ Asked(r) /\ ~ Asking(r)
    BY <1>s, <2>1 DEF OthersStay, Runner
  <2>3. \A k \in Key : k = KeyOf[q] => asked[k] = 0
    BY <1>0, <2>1 DEF AskedFirst
  <2>4. \A k \in Key : asked'[k] <= 1
    <3> SUFFICES ASSUME NEW k \in Key PROVE asked'[k] <= 1
      OBVIOUS
    <3>1. CASE k = KeyOf[q]
      BY <2>1, <2>3, <3>1
    <3>2. CASE k # KeyOf[q]
      BY <2>1, <3>2 DEF AskedFirst
    <3> QED  BY <3>1, <3>2
  <2>5. Asked(q)' /\ ~ Asking(q)' /\ ~ Asked(q)
    BY <2>1 DEF Asked, Asking
  <2>6. ASSUME NEW k \in Key, asked'[k] > 0, stored'[k] = None
        PROVE  \E r \in Query : KeyOf[r] = k /\ Asked(r)'
    <3>1. CASE k = KeyOf[q]
      BY <2>5, <3>1
    <3>2. CASE k # KeyOf[q]
      <4>1. asked[k] > 0 /\ stored[k] = None
        BY <2>1, <2>6, <3>2
      <4> QED  BY <2>2, <2>5, <4>1 DEF AskedFirst
    <3> QED  BY <3>1, <3>2
  <2>7. \A r \in Query : ~ Asking(r)' /\ run'[r].status # "failed"
    BY <2>1, <2>2, <2>5 DEF AskedFirst, Asking
  <2> QED  BY <2>4, <2>6, <2>7 DEF AskedFirst
<1>4. CASE Intent(q)
  <2>1. OthersStay(q) /\ UNCHANGED <<asked, stored>>
    BY <1>0, <1>4 DEF Intent, Goto, Respond, OthersStay
  <2>2. run'[q].pc \in {"model", "finish", "calls"} /\ run'[q].status = run[q].status
    <3>1. CASE Goto(q, "model")
      BY <1>0, <3>1 DEF Goto, Run
    <3>2. ASSUME NEW C \in SUBSET Fresh, NEW short, Respond(q, C, short)
          PROVE  run'[q].pc \in {"finish", "calls"} /\ run'[q].status = run[q].status
      BY <1>0, <3>2 DEF Respond, Run
    <3> QED  BY <1>4, <3>1, <3>2 DEF Intent
  <2> QED  BY <1>0, <2>1, <2>2, NothingAsked DEF Asked, Asking
<1>5. CASE GraphStep(q)
  <2>1. q \notin Decider
    BY RunnerAssumption
  <2> QED  BY <1>0, <1>5, <2>1, GraphEffects, NothingAsked DEF Asked, Asking
<1>6. CASE EndRun(q)
  <2>1. OthersStay(q) /\ UNCHANGED <<asked, stored>> /\ run'[q] = Over(q, "store", run[q].status)
    <3>1. q \notin Resume
      BY RunnerAssumption
    <3> QED  BY <1>0, <1>6, <3>1 DEF EndRun, OthersStay
  <2>2. run'[q].pc = "store" /\ run'[q].status # "failed"
    BY <1>0, <2>1 DEF Over, NoRun
  <2> QED  BY <1>0, <2>1, <2>2, NothingAsked DEF Asked, Asking
<1>7. CASE Store(q)
  <2>1. /\ OthersStay(q) /\ UNCHANGED asked /\ run'[q] = Over(q, "release", "running")
        /\ stored' = IF KeyOf[q] = None THEN stored
                     ELSE [stored EXCEPT ![KeyOf[q]] = run[q].status]
    BY <1>0, <1>7 DEF Store, OthersStay
  <2>2. run'[q].pc = "release" /\ run'[q].status # "failed"
    BY <2>1 DEF Over, NoRun
  <2>3. \A r \in Query : r # q => run'[r] = run[r]
    BY <2>1 DEF OthersStay, Runner
  <2>4. ASSUME NEW k \in Key, asked'[k] > 0, stored'[k] = None
        PROVE  \E r \in Query : KeyOf[r] = k /\ Asked(r)'
    <3>1. k # KeyOf[q] /\ stored[k] = None
      <4>1. CASE k = KeyOf[q]
        BY <1>0, <2>1, <2>4, <4>1, StatusAssumption
      <4>2. CASE k # KeyOf[q]
        BY <1>0, <2>1, <2>4, <4>2
      <4> QED  BY <4>1, <4>2
    <3>2. PICK r \in Query : KeyOf[r] = k /\ Asked(r)
      BY <2>1, <2>4, <3>1 DEF AskedFirst
    <3>3. r # q
      BY <3>1, <3>2
    <3> QED  BY <2>3, <3>2, <3>3 DEF Asked
  <2>5. \A r \in Query : /\ run'[r].status # "failed"
                         /\ Asking(r)' => Asking(r)
    BY <2>2, <2>3 DEF AskedFirst, Asking
  <2> QED  BY <2>1, <2>4, <2>5 DEF AskedFirst
<1>8. CASE Lapse(q)
  BY <1>8 DEF Lapse, AskedFirst, Asked, Asking
<1> QED
  BY <1>1, <1>2, <1>3, <1>4, <1>5, <1>6, <1>7, <1>8 DEF QueryStep

LEMMA OthersKeepKey ==
  ASSUME WellFormed, AskedFirst, NEW r \in Runner \ Query,
         \/ ResumeRead(r) \/ ResumeStep(r)
         \/ (\E c \in Call : Decide(r, c)) \/ DeciderStep(r)
  PROVE  AskedFirst'
<1>0. run \in [Runner -> Run]
  BY DEF WellFormed, TypeOK
<1>1. CASE GraphStep(r)
  BY <1>1, GraphEffects, NothingAsked
<1>2. CASE ~ GraphStep(r)
  <2>1. UNCHANGED <<asked, stored>>
    BY <1>2 DEF ResumeRead, ResumeStep, Subscribe, BeginResume, FillRecord, FillExecute,
       EndRun, Decide, DeciderStep, Act, ActResult, Remaining, Restore
  <2>2. OthersStay(r)
    BY <1>0, <1>2 DEF ResumeRead, ResumeStep, Subscribe, BeginResume, FillRecord, OthersStay,
       EndRun, FillExecute, Decide, DeciderStep, Act, ActResult, Remaining, Restore, Goto,
       AddResult
  <2> QED  BY <2>1, <2>2, NothingAsked
<1> QED  BY <1>1, <1>2

LEMMA NextKeepsKey == WellFormed /\ Leased /\ Once /\ [Next]_vars => Once'
<1> SUFFICES ASSUME WellFormed, Leased, Once, [Next]_vars, ~Stalls, faults' = 0
             PROVE  AskedFirst'
  BY DEF Once
<1>0. faults \in Nat /\ run \in [Runner -> Run] /\ hub \in [Process -> Runner \cup {None}]
  BY BoundAssumption DEF WellFormed, TypeOK
<1>1. CASE UNCHANGED vars
  BY <1>1 DEF vars, Once, AskedFirst, Asked, Asking
<1>2. ASSUME NEW r \in Runner, Fail(r) PROVE FALSE
  BY <1>0, <1>2 DEF Fail
<1>3. ASSUME NEW p \in Process, Crash(p) PROVE FALSE
  BY <1>0, <1>3 DEF Crash
<1>4. ASSUME NEW p \in Process, Interrupt(p) PROVE AskedFirst'
  <2>1. /\ UNCHANGED <<asked, stored, faults>>
        /\ \A q \in Query : run'[q].pc = run[q].pc /\ run'[q].status = run[q].status
    BY <1>0, <1>4 DEF Interrupt, Run, Runner
  <2>2. AskedFirst
    BY <2>1 DEF Once
  <2> QED  BY <2>1, <2>2 DEF AskedFirst, Asked, Asking
<1>5. ASSUME NEW q \in Query, Acquire(q) \/ QueryStep(q) \/ Lapse(q) PROVE AskedFirst'
  <2>1. faults' = faults
    <3>1. q \in Runner
      BY DEF Runner
    <3>2. CASE GraphStep(q)
      BY <3>1, <3>2, GraphEffects
    <3> QED  BY <1>5, <3>2 DEF Acquire, Lapse, QueryStep, CheckStored, BeginQuery, Ask, Intent, EndRun,
                Store, Release
  <2> QED  BY <1>5, <2>1, QueryKeepsKey DEF Once
<1>6. ASSUME NEW r \in Runner \ Query, \/ ResumeRead(r) \/ ResumeStep(r)
                                       \/ (\E c \in Call : Decide(r, c)) \/ DeciderStep(r)
      PROVE  AskedFirst'
  <2>1. faults' = faults
    <3>1. CASE GraphStep(r)
      BY <3>1, GraphEffects
    <3> QED  BY <1>6, <3>1 DEF ResumeRead, ResumeStep, Subscribe, BeginResume, FillRecord,
                FillExecute, EndRun, Decide, DeciderStep, Act, ActResult, Remaining, Restore
  <2> QED  BY <1>6, <2>1, OthersKeepKey DEF Once
<1>7. \A r \in Resume \cup Decider : r \in Runner \ Query
  BY RunnerAssumption DEF Runner
<1> QED  BY <1>1, <1>2, <1>3, <1>4, <1>5, <1>6, <1>7 DEF Next

\* While leases are renewed and nothing fails, a question is asked once however often it is
\* sent under its key (acquire, get_result, put_result).
THEOREM KeysAskedOnce == Spec => []KeyAskedOnce
<1>1. Init => Leased /\ Once
  <2> SUFFICES ASSUME Init PROVE Leased /\ Once
    OBVIOUS
  <2>1. \A q \in Query : run[q].pc = "idle" /\ run[q].status = "running"
    BY DEF Init, NoRun, Runner
  <2>2. \A k \in Key : asked[k] = 0
    BY DEF Init
  <2> QED  BY <2>1, <2>2 DEF Leased, Served, Once, AskedFirst, Asking
<1>2. Once => KeyAskedOnce
  BY DEF Once, AskedFirst, KeyAskedOnce
<1> QED  BY <1>1, <1>2, NextKeepsLease, NextKeepsKey, Typing, PTL DEF Spec

---------------------------------------------------------------------------
(* No call is lost *)

Calm == faults = 0 /\ \A r \in Runner : ~ run[r].stop

\* The step does not take back an interrupt of r.
Stays(r) == OthersStay(r) /\ faults' = faults /\ (~ run'[r].stop => ~ run[r].stop)

LEMMA CalmBefore ==
  ASSUME NEW r \in Runner, Stays(r), Calm'
  PROVE  Calm
BY DEF Stays, OthersStay, Calm

\* A request y that has still to bring about the result of call c.
Holds(y, c) ==
  \/ c \in y.todo /\ y.pc \in {"fill", "fill_record", "calls", "tools", "record"}
  \/ y.call = c /\ y.pc \in {"act", "result"}

Turning(q) == run[q].pc \in {"intent", "model", "calls", "tools", "record", "finish"}

\* Each call has a result, or waits for a decision, or some request is about to handle it;
\* an open turn is worked on by a query.
Accounted ==
  /\ \A c \in log.issued : \/ c \in log.results \/ approval[c] = "pending"
                           \/ \E r \in Runner : Holds(run[r], c)
  /\ log.open => \E q \in Query : Turning(q)

Kept == Calm => Accounted

\* What r hands on when it goes from run[r] to run'[r].
HandsOn(r) ==
  /\ \A c \in log'.issued : c \in log.issued \/ Holds(run'[r], c)
  /\ \A c \in log.issued : Holds(run[r], c)
       => Holds(run'[r], c) \/ c \in log'.results \/ approval'[c] = "pending"
  /\ log.results \subseteq log'.results
  /\ \A c \in log.issued : approval[c] = "pending"
       => approval'[c] = "pending" \/ Holds(run'[r], c)
  /\ log'.open => \/ r \in Query /\ Turning(r)'
                  \/ log.open /\ (r \in Query /\ Turning(r) => Turning(r)')

LEMMA HandedOn ==
  ASSUME Kept, NEW r \in Runner, Stays(r), HandsOn(r)
  PROVE  Kept'
<1> SUFFICES ASSUME Calm' PROVE Accounted'
  BY DEF Kept
<1>1. Accounted
  BY CalmBefore DEF Kept
<1>2. \A s \in Runner : s # r => run'[s] = run[s]
  BY DEF Stays, OthersStay
<1>3. ASSUME NEW c \in log'.issued
      PROVE  c \in log'.results \/ approval'[c] = "pending" \/ \E s \in Runner : Holds(run'[s], c)
  <2>1. CASE c \notin log.issued
    BY <2>1 DEF HandsOn
  <2>2. CASE c \in log.issued /\ c \in log.results
    BY <2>2 DEF HandsOn
  <2>3. CASE c \in log.issued /\ approval[c] = "pending"
    BY <2>3 DEF HandsOn
  <2>4. ASSUME c \in log.issued, NEW s \in Runner, Holds(run[s], c)
        PROVE  c \in log'.results \/ approval'[c] = "pending" \/ \E t \in Runner : Holds(run'[t], c)
    <3>1. CASE s = r
      BY <2>4, <3>1 DEF HandsOn
    <3>2. CASE s # r
      <4>1. Holds(run'[s], c)
        BY <1>2, <2>4, <3>2
      <4> QED  BY <4>1
    <3> QED  BY <3>1, <3>2
  <2> QED  BY <1>1, <2>1, <2>2, <2>3, <2>4 DEF Accounted
<1>4. ASSUME log'.open PROVE \E q \in Query : Turning(q)'
  <2>1. CASE r \in Query /\ Turning(r)'
    BY <2>1
  <2>2. CASE log.open /\ (r \in Query /\ Turning(r) => Turning(r)')
    <3>1. PICK q \in Query : Turning(q)
      BY <1>1, <2>2 DEF Accounted
    <3>2. CASE q = r
      BY <2>2, <3>1, <3>2
    <3>3. CASE q # r
      <4>1. run'[q] = run[q]
        BY <1>2, <3>3 DEF Runner
      <4> QED  BY <3>1, <4>1 DEF Turning
    <3> QED  BY <3>2, <3>3
  <2> QED  BY <1>4, <2>1, <2>2 DEF HandsOn
<1> QED  BY <1>3, <1>4 DEF Accounted

\* The ways in which a request moves.
LEMMA GotoIs ==
  ASSUME WellFormed, NEW r \in Runner, NEW pc, Goto(r, pc)
  PROVE  /\ OthersStay(r) /\ run'[r].pc = pc /\ run'[r].todo = run[r].todo
         /\ run'[r].call = run[r].call /\ run'[r].stop = run[r].stop
BY DEF WellFormed, TypeOK, Goto, OthersStay, Run

LEMMA OverIs ==
  ASSUME WellFormed, NEW r \in Runner, NEW pc, NEW status,
         run' = [run EXCEPT ![r] = Over(r, pc, status)]
  PROVE  OthersStay(r) /\ run'[r].pc = pc /\ run'[r].todo = {} /\ run'[r].stop = run[r].stop
<1>1. run'[r] = Over(r, pc, status) /\ OthersStay(r)
  BY DEF WellFormed, TypeOK, OthersStay
<1>2. PICK x : x = Over(r, pc, status)
  OBVIOUS
<1>3. x.pc = pc /\ x.todo = {} /\ x.stop = run[r].stop
  BY <1>2 DEF Over, NoRun
<1> QED  BY <1>1, <1>2, <1>3

LEMMA ResultIs ==
  ASSUME WellFormed, NEW r \in Runner, NEW c, NEW next, AddResult(r, c, next)
  PROVE  /\ OthersStay(r) /\ run'[r].pc = next /\ run'[r].todo = run[r].todo \ {c}
         /\ run'[r].stop = run[r].stop
         /\ log'.issued = log.issued /\ log'.results = log.results \cup {c} /\ log'.open = log.open
<1>1. log \in Log /\ run[r] \in Run /\ run \in [Runner -> Run]
  BY DEF WellFormed, TypeOK
<1>2. log'.issued = log.issued /\ log'.results = log.results \cup {c} /\ log'.open = log.open
  BY <1>1 DEF AddResult, Log
<1> DEFINE x == [run[r] EXCEPT !.results = run[r].results \cup {c},
                               !.todo = run[r].todo \ {c},
                               !.call = None, !.pc = next]
<1>3. run' = [run EXCEPT ![r] = x]
  BY <1>1 DEF AddResult
<1>4. x.pc = next /\ x.todo = run[r].todo \ {c} /\ x.stop = run[r].stop
  BY <1>1 DEF Run
<1> HIDE DEF x
<1> QED  BY <1>1, <1>2, <1>3, <1>4 DEF OthersStay

LEMMA RespondIs ==
  ASSUME WellFormed, NEW r \in Runner, NEW C, NEW short, Respond(r, C, short)
  PROVE  /\ OthersStay(r) /\ run'[r].pc = (IF C = {} THEN "finish" ELSE "calls")
         /\ run'[r].todo = C /\ run'[r].stop = run[r].stop
         /\ log'.issued = log.issued \cup C /\ log'.results = log.results /\ log'.open = log.open
<1>1. log \in Log /\ run[r] \in Run /\ run \in [Runner -> Run]
  BY DEF WellFormed, TypeOK
<1>2. log'.issued = log.issued \cup C /\ log'.results = log.results /\ log'.open = log.open
  BY <1>1 DEF Respond, Log
<1> DEFINE pc == IF C = {} THEN "finish" ELSE "calls"
           x == [run[r] EXCEPT !.issued = run[r].issued \cup C, !.todo = C,
                               !.short = short, !.pc = pc]
<1>3. run' = [run EXCEPT ![r] = x]
  BY <1>1 DEF Respond
<1> HIDE DEF pc
<1>4. x.pc = pc /\ x.todo = C /\ x.stop = run[r].stop
  BY <1>1 DEF Run
<1> HIDE DEF x
<1>5. OthersStay(r) /\ run'[r] = x
  BY <1>1, <1>3 DEF OthersStay
<1> QED  BY <1>2, <1>4, <1>5 DEF pc

LEMMA RespondKeeps ==
  ASSUME WellFormed, Kept, NEW r \in Runner, NEW C, NEW short, Respond(r, C, short),
         faults' = faults, approval' = approval, run[r].pc \in {"intent", "model"}
  PROVE  Kept'
<1>1. /\ OthersStay(r) /\ run'[r].pc = (IF C = {} THEN "finish" ELSE "calls")
      /\ run'[r].todo = C /\ run'[r].stop = run[r].stop
      /\ log'.issued = log.issued \cup C /\ log'.results = log.results /\ log'.open = log.open
  BY RespondIs
<1>2. Stays(r)
  BY <1>1 DEF Stays
<1>3. \A c \in log'.issued : c \in log.issued \/ Holds(run'[r], c)
  BY <1>1 DEF Holds
<1>4. Turning(r)' /\ \A c : ~ Holds(run[r], c)
  BY <1>1 DEF Turning, Holds
<1>5. HandsOn(r)
  BY <1>1, <1>3, <1>4 DEF HandsOn
<1> QED  BY <1>2, <1>5, HandedOn

LEMMA ResultKeeps ==
  ASSUME WellFormed, Kept, NEW r \in Runner, NEW c, NEW next, AddResult(r, c, next),
         faults' = faults, approval' = approval,
         \/ run[r].pc \in {"tools", "record"} /\ next = "tools"
         \/ run[r].pc = "fill_record" /\ (next = "fill" \/ run[r].todo = {c}) /\ r \notin Query
         \/ run[r].pc = "result" /\ run[r].call = c /\ r \notin Query
  PROVE  Kept'
<1>1. /\ OthersStay(r) /\ run'[r].pc = next /\ run'[r].todo = run[r].todo \ {c}
      /\ run'[r].stop = run[r].stop
      /\ log'.issued = log.issued /\ log'.results = log.results \cup {c} /\ log'.open = log.open
  BY ResultIs
<1>2. Stays(r)
  BY <1>1 DEF Stays
<1>3. \A d : Holds(run[r], d) => Holds(run'[r], d) \/ d \in log'.results
  BY <1>1 DEF Holds
<1>4. r \in Query => Turning(r)'
  BY <1>1 DEF Turning
<1>5. HandsOn(r)
  BY <1>1, <1>3, <1>4 DEF HandsOn
<1> QED  BY <1>2, <1>5, HandedOn

\* A request that has nothing at hand before and after, while the log stays as it is.
LEMMA IdleKeeps ==
  ASSUME WellFormed, Kept, NEW r \in Runner, UNCHANGED <<log, approval>>, Stays(r),
         \A c : ~ Holds(run[r], c), r \in Query /\ Turning(r) => Turning(r)'
  PROVE  Kept'
<1>1. HandsOn(r)
  BY DEF HandsOn
<1> QED  BY <1>1, HandedOn

LEMMA GraphKeeps ==
  ASSUME WellFormed, Kept, NEW r \in Runner, GraphStep(r)
  PROVE  Kept'
<1>0. log \in Log /\ run[r] \in Run /\ run \in [Runner -> Run] /\ approval \in [Call -> {"none", "pending", "approved", "rejected"}]
  BY DEF WellFormed, TypeOK
<1>1. CASE Model(r)
  BY <1>1, RespondKeeps DEF Model, At
<1>2. CASE StartTools(r)
  <2>1. UNCHANGED <<log, approval, faults>> /\ run[r].pc = "calls" /\ Goto(r, "tools")
    BY <1>2 DEF StartTools, At
  <2>2. /\ OthersStay(r) /\ run'[r].pc = "tools" /\ run'[r].todo = run[r].todo
        /\ run'[r].stop = run[r].stop
    BY <2>1, GotoIs
  <2>3. HandsOn(r) /\ Stays(r)
    BY <2>1, <2>2 DEF HandsOn, Stays, Holds, Turning
  <2> QED  BY <2>3, HandedOn
<1>3. CASE ToolsDone(r)
  <2>1. UNCHANGED <<log, approval, faults>> /\ run[r].pc = "tools" /\ run[r].todo = {}
    BY <1>3 DEF ToolsDone, At
  <2>2. OthersStay(r) /\ run'[r].pc \in {"finish", "model"} /\ run'[r].stop = run[r].stop
    <3>1. CASE Goto(r, "finish")
      BY <3>1, GotoIs
    <3>2. CASE run' = [run EXCEPT ![r].short = FALSE, ![r].pc = "model"]
      BY <1>0, <3>2 DEF OthersStay, Run
    <3> QED  BY <1>3, <3>1, <3>2 DEF ToolsDone
  <2>3. Stays(r) /\ Turning(r)' /\ \A c : ~ Holds(run[r], c)
    BY <2>1, <2>2 DEF Stays, Holds, Turning
  <2> QED  BY <2>1, <2>3, IdleKeeps
<1>4. CASE RecordTool(r)
  BY <1>4, ResultKeeps DEF RecordTool, At
<1>5. CASE StopRun(r)
  <2> DEFINE status == IF r \in Streams \cup Resume THEN "interrupted" ELSE "cancelled"
  <2>1. run' = [run EXCEPT ![r] = Over(r, "end", status)] /\ run[r].stop
    BY <1>5 DEF StopRun
  <2> HIDE DEF status
  <2>2. run'[r].stop
    BY <2>1, OverIs
  <2> QED  BY <2>2 DEF Kept, Calm
<1>6. CASE Finish(r)
  <2> DEFINE pc == IF r \in Decider THEN "done" ELSE "end"
             status == IF run[r].status = "running" THEN "completed" ELSE run[r].status
  <2>1. /\ run' = [run EXCEPT ![r] = Over(r, pc, status)] /\ run[r].pc = "finish"
        /\ log' = [log EXCEPT !.open = FALSE] /\ UNCHANGED <<approval, faults>>
    BY <1>6 DEF Finish, At
  <2> HIDE DEF pc, status
  <2>2. OthersStay(r) /\ run'[r].stop = run[r].stop
    BY <2>1, OverIs
  <2>3. log'.issued = log.issued /\ log'.results = log.results /\ ~ log'.open
    BY <1>0, <2>1 DEF Log
  <2>4. Stays(r) /\ HandsOn(r)
    BY <2>1, <2>2, <2>3 DEF Stays, HandsOn, Holds
  <2> QED  BY <2>4, HandedOn
<1>7. ASSUME NEW c \in Call, RefuseTool(r, c) PROVE Kept'
  BY <1>7, ResultKeeps DEF RefuseTool, At
<1>8. ASSUME NEW c \in Call, RequestApproval(r, c) PROVE Kept'
  <2>1. /\ run[r].pc = "tools" /\ UNCHANGED <<log, faults>>
        /\ approval' = [approval EXCEPT ![c] = "pending"]
        /\ run' = [run EXCEPT ![r].todo = @ \ {c}, ![r].status = "waiting_approval"]
    BY <1>8 DEF RequestApproval, At
  <2>2. /\ OthersStay(r) /\ run'[r].pc = "tools" /\ run'[r].todo = run[r].todo \ {c}
        /\ run'[r].stop = run[r].stop
    BY <1>0, <2>1 DEF OthersStay, Run
  <2>3. \A d \in Call : approval[d] = "pending" \/ d = c => approval'[d] = "pending"
    BY <1>0, <2>1
  <2>4. \A d : Holds(run[r], d) /\ d # c => Holds(run'[r], d)
    BY <2>1, <2>2 DEF Holds
  <2>5. log.issued \subseteq Call /\ Turning(r)'
    BY <1>0, <2>2 DEF Log, Turning
  <2>6. Stays(r) /\ HandsOn(r)
    BY <2>1, <2>2, <2>3, <2>4, <2>5 DEF Stays, HandsOn
  <2> QED  BY <2>6, HandedOn
<1>9. ASSUME NEW c \in Call, ExecuteTool(r, c) PROVE Kept'
  <2>1. run[r].pc = "tools" /\ UNCHANGED <<log, approval, faults>>
    BY <1>9 DEF ExecuteTool, At
  <2>2. PICK late \in BOOLEAN :
          run' = [run EXCEPT ![r].call = c, ![r].pc = "record", ![r].stop = @ \/ late]
    BY <1>9 DEF ExecuteTool
  <2>3. /\ OthersStay(r) /\ run'[r].pc = "record" /\ run'[r].todo = run[r].todo
        /\ run'[r].stop = (run[r].stop \/ late)
    BY <1>0, <2>2 DEF OthersStay, Run
  <2>4. Stays(r) /\ HandsOn(r)
    BY <2>1, <2>3 DEF Stays, HandsOn, Holds, Turning
  <2> QED  BY <2>4, HandedOn
<1> QED
  BY <1>1, <1>2, <1>3, <1>4, <1>5, <1>6, <1>7, <1>8, <1>9 DEF GraphStep

LEMMA EndKeeps ==
  ASSUME WellFormed, Kept, NEW r \in Runner, EndRun(r)
  PROVE  Kept'
<1> DEFINE pc == IF r \in Resume THEN "done"
                 ELSE IF run[r].status = "failed" THEN "release" ELSE "store"
<1>1. /\ run' = [run EXCEPT ![r] = Over(r, pc, run[r].status)] /\ run[r].pc = "end"
      /\ UNCHANGED <<log, approval, faults>>
  BY DEF EndRun, At
<1> HIDE DEF pc
<1>2. OthersStay(r) /\ run'[r].stop = run[r].stop
  BY <1>1, OverIs
<1>3. Stays(r) /\ ~ Turning(r) /\ \A c : ~ Holds(run[r], c)
  BY <1>1, <1>2 DEF Stays, Turning, Holds
<1> QED  BY <1>1, <1>3, IdleKeeps

LEMMA QueryKeeps ==
  ASSUME WellFormed, Kept, NEW q \in Query, Acquire(q) \/ QueryStep(q) \/ Lapse(q)
  PROVE  Kept'
<1>0. q \in Runner /\ run \in [Runner -> Run] /\ run[q] \in Run /\ log \in Log
  BY DEF WellFormed, TypeOK, Runner
<1>1. CASE Acquire(q) \/ CheckStored(q)
  <2>1. PICK pc : Goto(q, pc)
    BY <1>1 DEF Acquire, CheckStored
  <2>2. UNCHANGED <<log, approval, faults>> /\ run[q].pc \in {"idle", "cached"}
    BY <1>1 DEF Acquire, CheckStored, At
  <2>3. Stays(q)
    BY <1>0, <2>1, <2>2, GotoIs DEF Stays
  <2> QED  BY <1>0, <2>2, <2>3, IdleKeeps DEF Turning, Holds
<1>2. CASE Store(q) \/ Release(q)
  <2>1. PICK pc : run' = [run EXCEPT ![q] = Over(q, pc, "running")]
    BY <1>2 DEF Store, Release
  <2>2. UNCHANGED <<log, approval, faults>> /\ run[q].pc \in {"store", "release"}
    BY <1>2 DEF Store, Release, At
  <2>3. Stays(q)
    BY <1>0, <2>1, <2>2, OverIs DEF Stays
  <2> QED  BY <1>0, <2>2, <2>3, IdleKeeps DEF Turning, Holds
<1>3. CASE BeginQuery(q)
  <2>1. UNCHANGED <<log, approval, faults>> /\ run[q].pc = "begin"
    BY <1>3 DEF BeginQuery, At
  <2>2. OthersStay(q) /\ run'[q].stop = run[q].stop
    BY <1>0, <1>3 DEF BeginQuery, Restored, OthersStay, Run
  <2> QED  BY <1>0, <2>1, <2>2, IdleKeeps DEF Stays, Turning, Holds
<1>4. CASE Ask(q)
  <2>1. /\ run[q].pc = "ask" /\ Goto(q, "intent") /\ UNCHANGED <<approval, faults>>
        /\ log' = [log EXCEPT !.open = TRUE, !.answered = FALSE]
    BY <1>4 DEF Ask, At
  <2>2. OthersStay(q) /\ run'[q].pc = "intent" /\ run'[q].stop = run[q].stop
    BY <1>0, <2>1, GotoIs
  <2>3. log'.issued = log.issued /\ log'.results = log.results
    BY <1>0, <2>1 DEF Log
  <2>4. Stays(q) /\ HandsOn(q)
    BY <2>1, <2>2, <2>3 DEF Stays, HandsOn, Holds, Turning
  <2> QED  BY <1>0, <2>4, HandedOn
<1>5. CASE Intent(q)
  <2>1. run[q].pc = "intent" /\ UNCHANGED <<approval, faults>>
    BY <1>5 DEF Intent, At
  <2>2. CASE Goto(q, "model") /\ UNCHANGED log
    <3>1. Stays(q) /\ Turning(q)' /\ \A c : ~ Holds(run[q], c)
      BY <1>0, <2>1, <2>2, GotoIs DEF Stays, Holds, Turning
    <3> QED  BY <1>0, <2>1, <2>2, <3>1, IdleKeeps
  <2>3. ASSUME NEW C \in SUBSET Fresh, NEW short, Respond(q, C, short) PROVE Kept'
    BY <1>0, <2>1, <2>3, RespondKeeps
  <2> QED  BY <1>5, <2>2, <2>3 DEF Intent
<1>6. CASE GraphStep(q)
  BY <1>0, <1>6, GraphKeeps
<1>7. CASE EndRun(q)
  BY <1>0, <1>7, EndKeeps
<1>8. CASE Lapse(q)
  BY <1>8 DEF Lapse, Kept, Calm, Accounted, Turning
<1> QED
  BY <1>1, <1>2, <1>3, <1>4, <1>5, <1>6, <1>7, <1>8 DEF QueryStep

LEMMA ResumeKeeps ==
  ASSUME WellFormed, Kept, NEW s \in Resume, ResumeRead(s) \/ ResumeStep(s)
  PROVE  Kept'
<1>0. /\ s \in Runner /\ s \notin Query /\ run \in [Runner -> Run] /\ run[s] \in Run
  BY RunnerAssumption DEF WellFormed, TypeOK, Runner
<1>1. CASE ResumeRead(s) \/ Subscribe(s)
  <2>1. PICK pc : Goto(s, pc)
    BY <1>1 DEF ResumeRead, Subscribe
  <2>2. UNCHANGED <<log, approval, faults>> /\ run[s].pc \in {"idle", "subscribe"}
    BY <1>1 DEF ResumeRead, Subscribe, At
  <2>3. Stays(s)
    BY <1>0, <2>1, <2>2, GotoIs DEF Stays
  <2> QED  BY <1>0, <2>2, <2>3, IdleKeeps DEF Holds
<1>2. CASE BeginResume(s)
  <2>1. UNCHANGED <<log, approval, faults>> /\ run[s].pc = "begin"
    BY <1>2 DEF BeginResume, At
  <2>2. OthersStay(s)
    BY <1>0, <1>2 DEF BeginResume, OthersStay
  <2>3. run'[s].stop = run[s].stop
    <3> DEFINE pc == IF Missing = {} THEN "model" ELSE "fill"
    <3>1. \/ run'[s] = Over(s, "end", "completed")
          \/ run'[s] = Over(s, "finish", "completed")
          \/ run'[s] = [Restored(s, pc) EXCEPT !.todo = Missing]
      BY <1>0, <1>2 DEF BeginResume
    <3> HIDE DEF pc
    <3>2. \A status, next : Over(s, next, status).stop = run[s].stop
      BY DEF Over, NoRun
    <3>3. [Restored(s, pc) EXCEPT !.todo = Missing].stop = run[s].stop
      BY <1>0 DEF Restored, Run
    <3> QED  BY <3>1, <3>2, <3>3
  <2> QED  BY <1>0, <2>1, <2>2, <2>3, IdleKeeps DEF Stays, Holds
<1>3. CASE FillRecord(s)
  BY <1>0, <1>3, ResultKeeps DEF FillRecord, At
<1>4. ASSUME NEW c \in Call, FillExecute(s, c) PROVE Kept'
  <2>1. run[s].pc = "fill" /\ UNCHANGED <<log, approval, faults>>
    BY <1>4 DEF FillExecute, At
  <2>2. PICK late \in BOOLEAN :
          run' = [run EXCEPT ![s].call = c, ![s].pc = "fill_record", ![s].stop = @ \/ late]
    BY <1>4 DEF FillExecute
  <2>3. /\ OthersStay(s) /\ run'[s].pc = "fill_record" /\ run'[s].todo = run[s].todo
        /\ run'[s].stop = (run[s].stop \/ late)
    BY <1>0, <2>2 DEF OthersStay, Run
  <2>4. Stays(s) /\ HandsOn(s)
    BY <1>0, <2>1, <2>3 DEF Stays, HandsOn, Holds
  <2> QED  BY <1>0, <2>4, HandedOn
<1>5. CASE GraphStep(s)
  BY <1>0, <1>5, GraphKeeps
<1>6. CASE EndRun(s)
  BY <1>0, <1>6, EndKeeps
<1> QED
  BY <1>1, <1>2, <1>3, <1>4, <1>5, <1>6 DEF ResumeStep

LEMMA DeciderKeeps ==
  ASSUME WellFormed, Kept, NEW d \in Decider, (\E c \in Call : Decide(d, c)) \/ DeciderStep(d)
  PROVE  Kept'
<1>0. /\ d \in Runner /\ d \notin Query /\ run \in [Runner -> Run] /\ run[d] \in Run /\ log \in Log
      /\ approval \in [Call -> {"none", "pending", "approved", "rejected"}]
  BY RunnerAssumption DEF WellFormed, TypeOK, Runner
<1>1. ASSUME NEW c \in Call, Decide(d, c) PROVE Kept'
  <2>1. /\ run[d].pc = "idle" /\ UNCHANGED <<log, faults>>
        /\ run' = [run EXCEPT ![d].call = c, ![d].pc = "act"]
    BY <1>1 DEF Decide, At
  <2>2. \A x \in Call : x # c => approval'[x] = approval[x]
    BY <1>0, <1>1 DEF Decide
  <2>3. OthersStay(d) /\ run'[d].pc = "act" /\ run'[d].call = c /\ run'[d].stop = run[d].stop
    BY <1>0, <2>1 DEF OthersStay, Run
  <2>4. log.issued \subseteq Call /\ Holds(run'[d], c) /\ \A x : ~ Holds(run[d], x)
    BY <1>0, <2>1, <2>3 DEF Log, Holds
  <2>5. Stays(d)
    BY <2>1, <2>3 DEF Stays
  <2>6. HandsOn(d)
    BY <1>0, <2>1, <2>2, <2>4 DEF HandsOn
  <2> QED  BY <1>0, <2>5, <2>6, HandedOn
<1>2. CASE Act(d)
  <2>1. run[d].pc = "act" /\ Goto(d, "result") /\ UNCHANGED <<log, approval, faults>>
    BY <1>2 DEF Act, At
  <2>2. OthersStay(d) /\ run'[d].pc = "result" /\ run'[d].call = run[d].call
        /\ run'[d].stop = run[d].stop
    BY <1>0, <2>1, GotoIs
  <2>3. Stays(d) /\ HandsOn(d)
    BY <1>0, <2>1, <2>2 DEF Stays, HandsOn, Holds
  <2> QED  BY <1>0, <2>3, HandedOn
<1>3. CASE ActResult(d)
  BY <1>0, <1>3, ResultKeeps DEF ActResult, At
<1>4. CASE Remaining(d)
  <2>1. PICK pc : run' = [run EXCEPT ![d] = Over(d, pc, "running")]
    BY <1>4 DEF Remaining
  <2>2. UNCHANGED <<log, approval, faults>> /\ run[d].pc = "remaining"
    BY <1>4 DEF Remaining, At
  <2>3. Stays(d)
    BY <1>0, <2>1, <2>2, OverIs DEF Stays
  <2> QED  BY <1>0, <2>2, <2>3, IdleKeeps DEF Holds
<1>5. CASE Restore(d)
  <2>1. UNCHANGED <<log, approval, faults>> /\ run[d].pc = "restore"
    BY <1>5 DEF Restore, At
  <2>2. OthersStay(d) /\ run'[d].stop = run[d].stop
    BY <1>0, <1>5 DEF Restore, Restored, OthersStay, Run
  <2> QED  BY <1>0, <2>1, <2>2, IdleKeeps DEF Stays, Holds
<1>6. CASE GraphStep(d)
  BY <1>0, <1>6, GraphKeeps
<1> QED
  BY <1>1, <1>2, <1>3, <1>4, <1>5, <1>6 DEF DeciderStep

LEMMA NextKeepsCalls == WellFormed /\ Kept /\ [Next]_vars => Kept'
<1> SUFFICES ASSUME WellFormed, Kept, [Next]_vars PROVE Kept'
  OBVIOUS
<1>0. faults \in Nat /\ run \in [Runner -> Run] /\ hub \in [Process -> Runner \cup {None}]
  BY BoundAssumption DEF WellFormed, TypeOK
<1>1. CASE UNCHANGED vars
  BY <1>1 DEF vars, Kept, Calm, Accounted, Turning
<1>2. ASSUME NEW r \in Runner, Fail(r) PROVE Kept'
  <2>1. faults' # 0
    BY <1>0, <1>2 DEF Fail
  <2> QED  BY <2>1 DEF Kept, Calm
<1>3. ASSUME NEW p \in Process, Crash(p) PROVE Kept'
  <2>1. faults' # 0
    BY <1>0, <1>3 DEF Crash
  <2> QED  BY <2>1 DEF Kept, Calm
<1>4. ASSUME NEW p \in Process, Interrupt(p) PROVE Kept'
  <2>1. hub[p] \in Runner /\ run'[hub[p]].stop
    BY <1>0, <1>4 DEF Interrupt, Run
  <2> QED  BY <2>1 DEF Kept, Calm
<1> QED  BY <1>1, <1>2, <1>3, <1>4, QueryKeeps, ResumeKeeps, DeciderKeeps DEF Next

\* When every request was served without an error or an interrupt and no approval is
\* pending, the turn is closed and every call has its result: a call waits in a request, for
\* a decision, or has been handled (_run_turn, _fill_missing_tool_results, decide_approval).
THEOREM NoCallIsLost == Spec => []NothingLost
<1>1. Init => Kept
  BY DEF Init, NoLog, Kept, Accounted
<1>2. WellFormed /\ Kept => NothingLost
  <2> SUFFICES ASSUME WellFormed, Kept, \A r \in Runner : run[r].pc \in {"idle", "done"} /\ ~run[r].stop,
                      faults = 0, Pending = {}
               PROVE  ~log.open /\ log.issued \subseteq log.results
    BY DEF NothingLost
  <2>1. Accounted
    BY DEF Kept, Calm
  <2>2. log.issued \subseteq Call
    BY DEF WellFormed, TypeOK, Log
  <2> QED  BY <2>1, <2>2 DEF Accounted, Holds, Turning, Pending, Runner
<1> QED  BY <1>1, <1>2, NextKeepsCalls, Typing, PTL DEF Spec
=============================================================================
