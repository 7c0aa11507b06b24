---------------------------- MODULE SessionTurns ----------------------------
(***************************************************************************)
(* Everything that may run the agent graph for one user session:            *)
(*   - queries, plain or streaming (POST /v1/agent/query, .../stream), which *)
(*     hold the session's turn lease and replay the answer stored under     *)
(*     their Idempotency-Key,                                               *)
(*   - resumes (POST /v1/agent/query/resume),                               *)
(*   - approval decisions (POST /v1/agent/approvals/{id}), which execute    *)
(*     the approved tool call and, when none is pending any more, go on     *)
(*     with the graph.                                                      *)
(* Only queries take the lease.  The session's event log is what they share *)
(* apart from it; a run works on the messages it restored from the log when *)
(* it began.  The log is abstracted to what turn_is_open, _restore_messages *)
(* and _fill_missing_tool_results read in it.                               *)
(***************************************************************************)
EXTENDS Naturals, FiniteSets

CONSTANTS
  Query,        \* query requests
  Streams,      \* those that stream: an interrupt leaves their turn open
  Resume,       \* resume requests
  Decider,      \* approval decisions
  Key,          \* idempotency keys
  KeyOf,        \* the key of each query, or None
  Process,      \* API processes, each with its own SessionLiveHub
  Home,         \* the process that serves each request
  Call,         \* tool calls (call_id) that responses may contain
  Gated,        \* those whose tool requires approval
  None,
  Stalls,       \* whether the renewal thread of a lease may stop or be late
  MaxFaults     \* bound on crashes and raised errors

Runner == Query \cup Resume \cup Decider

ASSUME RunnerAssumption ==
  /\ Streams \subseteq Query
  /\ Query \cap Resume = {} /\ Query \cap Decider = {} /\ Resume \cap Decider = {}
  /\ None \notin Runner \cup Key \cup Call
ASSUME MapAssumption ==
  /\ KeyOf \in [Query -> Key \cup {None}]
  /\ Home \in [Runner -> Process]
  /\ Gated \subseteq Call
ASSUME BoundAssumption == Stalls \in BOOLEAN /\ MaxFaults \in Nat

VARIABLES
  log,        \* the session's events
  approval,   \* status of the approval record of each call
  executed,   \* how often the handler of each call was started
  asked,      \* user.message events per key
  holder,     \* owner of the session's turn lease
  stored,     \* result stored under each key
  hub,        \* per process: the run its SessionLiveHub can interrupt
  run,        \* per request: where it is and what it works on
  faults

vars == <<log, approval, executed, asked, holder, stored, hub, run, faults>>

---------------------------------------------------------------------------
(* Records *)

\* open: turn_is_open; answered: the last message is an answer with text; issued:
\* calls of all responses; latest: those of the last response with calls;
\* results: calls with a tool.completed event.
Log == [open : BOOLEAN, answered : BOOLEAN, issued : SUBSET Call,
        latest : SUBSET Call, results : SUBSET Call]

NoLog == [open |-> FALSE, answered |-> FALSE, issued |-> {}, latest |-> {},
          results |-> {}]

Status == {"running", "completed", "waiting_approval", "interrupted",
           "cancelled", "failed"}

ASSUME StatusAssumption == None \notin Status

Step == {"idle", "cached", "subscribe", "begin", "ask", "intent", "fill",
         "fill_record", "model", "calls", "tools", "record", "finish", "end", "store",
         "release", "act", "result", "remaining", "restore", "done", "dead"}

\* issued, results: the calls and the results among the messages of this run;
\* todo: calls still to be handled; short: the intent router's fast path;
\* stop: the run's cancellation event.
Run == [pc : Step, issued : SUBSET Call, results : SUBSET Call, todo : SUBSET Call, call : Call \cup {None},
        short : BOOLEAN, stop : BOOLEAN, status : Status]

NoRun == [pc |-> "idle", issued |-> {}, results |-> {}, todo |-> {},
          call |-> None, short |-> FALSE, stop |-> FALSE, status |-> "running"]

TypeOK ==
  /\ log \in Log
  /\ approval \in [Call -> {"none", "pending", "approved", "rejected"}]
  /\ executed \in [Call -> Nat]
  /\ asked \in [Key -> Nat]
  /\ holder \in Query \cup {None}
  /\ stored \in [Key -> Status \cup {None}]
  /\ hub \in [Process -> Runner \cup {None}]
  /\ run \in [Runner -> Run]
  /\ faults \in 0..MaxFaults

Init ==
  /\ log = NoLog
  /\ approval = [c \in Call |-> "none"]
  /\ executed = [c \in Call |-> 0]
  /\ asked = [k \in Key |-> 0]
  /\ holder = None
  /\ stored = [k \in Key |-> None]
  /\ hub = [p \in Process |-> None]
  /\ run = [r \in Runner |-> NoRun]
  /\ faults = 0

At(r, pc) == run[r].pc = pc
Goto(r, pc) == run' = [run EXCEPT ![r].pc = pc]

\* A run that is over, successfully or not: its messages are gone.
Over(r, pc, status) ==
  [NoRun EXCEPT !.pc = pc, !.stop = run[r].stop,
                !.status = IF pc = "done" THEN "running" ELSE status]

\* _restore_messages
Restored(r, pc) == [run[r] EXCEPT !.issued = log.issued, !.results = log.results,
                                  !.pc = pc]

Pending == {c \in Call : approval[c] = "pending"}

---------------------------------------------------------------------------
(* Queries: the turn lease and the idempotency key *)

\* Variant of Acquire that does not wait for the lease.
Acquire_Busy(q) ==
  /\ At(q, "idle")
  /\ holder' = q
  /\ Goto(q, "cached")
  /\ UNCHANGED <<log, approval, executed, asked, stored, hub, faults>>

\* SessionTurnCoordinator.acquire.  A query that waits too long is refused with
\* 409 and changes nothing.
Acquire(q) ==
  /\ At(q, "idle")
  /\ holder = None
  /\ holder' = q
  /\ Goto(q, "cached")
  /\ UNCHANGED <<log, approval, executed, asked, stored, hub, faults>>

\* get_result: a stored result is replayed, whatever its status is.
CheckStored(q) ==
  /\ At(q, "cached")
  /\ Goto(q, IF KeyOf[q] # None /\ stored[KeyOf[q]] # None THEN "release"
             ELSE "begin")
  /\ UNCHANGED <<log, approval, executed, asked, holder, stored, hub, faults>>

\* Variant of Store that keeps only completed results.
Store_Completed(q) ==
  /\ At(q, "store")
  /\ stored' = IF KeyOf[q] # None /\ run[q].status = "completed"
               THEN [stored EXCEPT ![KeyOf[q]] = "completed"] ELSE stored
  /\ run' = [run EXCEPT ![q] = Over(q, "release", "running")]
  /\ UNCHANGED <<log, approval, executed, asked, holder, hub, faults>>

\* put_result
Store(q) ==
  /\ At(q, "store")
  /\ stored' = IF KeyOf[q] = None THEN stored
               ELSE [stored EXCEPT ![KeyOf[q]] = run[q].status]
  /\ run' = [run EXCEPT ![q] = Over(q, "release", "running")]
  /\ UNCHANGED <<log, approval, executed, asked, holder, hub, faults>>

\* A lease that lapsed is not the query's to release: Redis refuses, and the
\* error is logged.
Release(q) ==
  /\ At(q, "release")
  /\ holder' = IF holder = q THEN None ELSE holder
  /\ run' = [run EXCEPT ![q] = Over(q, "done", "running")]
  /\ UNCHANGED <<log, approval, executed, asked, stored, hub, faults>>

\* session_lock_ttl_seconds pass without a renewal: the process is gone, or the
\* renewal thread gave up after an error.
Lapse(q) ==
  /\ holder = q
  /\ At(q, "dead") \/ Stalls
  /\ holder' = None
  /\ UNCHANGED <<log, approval, executed, asked, stored, hub, run, faults>>

---------------------------------------------------------------------------
(* Resumes: no lease.  The log is read first, then the hub of the process.   *)

\* owned_session_events: a closed turn is reported.
ResumeRead(s) ==
  /\ At(s, "idle")
  /\ Goto(s, IF log.open THEN "subscribe" ELSE "done")
  /\ UNCHANGED <<log, approval, executed, asked, holder, stored, hub, faults>>

\* A live turn is attached to.
Subscribe(s) ==
  /\ At(s, "subscribe")
  /\ Goto(s, IF hub[Home[s]] # None THEN "done" ELSE "begin")
  /\ UNCHANGED <<log, approval, executed, asked, holder, stored, hub, faults>>

---------------------------------------------------------------------------
(* AgentRuntime._run_turn and _execute_turn *)

\* live_hub.begin, which replaces whatever control the session had, and the read
\* of previous_events; nobody sees a difference between the two.
BeginQuery(q) ==
  /\ At(q, "begin")
  /\ hub' = [hub EXCEPT ![Home[q]] = q]
  /\ run' = [run EXCEPT ![q] = Restored(q, "ask")]
  /\ UNCHANGED <<log, approval, executed, asked, holder, stored, faults>>

Missing == log.latest \ log.results

\* The same for a resume: a turn that was closed meanwhile is reported, an
\* answered one only needs its turn.completed, else missing results come first.
BeginResume(s) ==
  /\ At(s, "begin")
  /\ hub' = [hub EXCEPT ![Home[s]] = s]
  /\ run' = [run EXCEPT ![s] =
       IF ~log.open THEN Over(s, "end", "completed")
       ELSE IF log.answered THEN Over(s, "finish", "completed")
       ELSE [Restored(s, IF Missing = {} THEN "model" ELSE "fill")
               EXCEPT !.todo = Missing]]
  /\ UNCHANGED <<log, approval, executed, asked, holder, stored, faults>>

\* user.message (and session.created before the first one)
Ask(q) ==
  /\ At(q, "ask")
  /\ log' = [log EXCEPT !.open = TRUE, !.answered = FALSE]
  /\ asked' = [k \in Key |-> IF k = KeyOf[q] THEN asked[k] + 1 ELSE asked[k]]
  /\ Goto(q, "intent")
  /\ UNCHANGED <<approval, executed, holder, stored, hub, faults>>

\* Variant of FillExecute without the approval guard.
FillExecute_Unguarded(s, c) ==
  /\ At(s, "fill")
  /\ c \in run[s].todo
  /\ executed' = IF run[s].stop THEN executed
                 ELSE [executed EXCEPT ![c] = @ + 1]
  /\ \E late \in {FALSE, c \notin Gated} :
       run' = [run EXCEPT ![s].call = c, ![s].pc = "fill_record",
                          ![s].stop = @ \/ late]
  /\ UNCHANGED <<log, approval, asked, holder, stored, hub, faults>>

\* _fill_missing_tool_results: the executor refuses a call that requires approval
\* and any call after an interrupt; the refusal is a result like any other.
FillExecute(s, c) ==
  /\ At(s, "fill")
  /\ c \in run[s].todo
  /\ executed' = IF c \in Gated \/ run[s].stop THEN executed
                 ELSE [executed EXCEPT ![c] = @ + 1]
  /\ \E late \in {FALSE, c \notin Gated} :
       run' = [run EXCEPT ![s].call = c, ![s].pc = "fill_record",
                          ![s].stop = @ \/ late]
  /\ UNCHANGED <<log, approval, asked, holder, stored, hub, faults>>

\* The result of call c is appended and joins the messages.
AddResult(r, c, next) ==
  /\ log' = [log EXCEPT !.results = @ \cup {c}, !.answered = FALSE]
  /\ run' = [run EXCEPT ![r].results = @ \cup {c}, ![r].todo = @ \ {c},
                        ![r].call = None, ![r].pc = next]

\* Variant of FillRecord that records the result before the call was handled.
FillRecord_Early(s) ==
  /\ At(s, "fill")
  /\ AddResult(s, run[s].call, IF run[s].todo = {run[s].call} THEN "model" ELSE "fill")
  /\ UNCHANGED <<approval, executed, asked, holder, stored, hub, faults>>

FillRecord(s) ==
  /\ At(s, "fill_record")
  /\ AddResult(s, run[s].call, IF run[s].todo = {run[s].call} THEN "model" ELSE "fill")
  /\ UNCHANGED <<approval, executed, asked, holder, stored, hub, faults>>

\* A response with calls C is appended and joins the messages; one without calls
\* may have no text either.
Respond(r, C, short) ==
  /\ \E text \in BOOLEAN :
       log' = [log EXCEPT !.issued = @ \cup C, !.answered = C = {} /\ text,
                          !.latest = IF C = {} THEN @ ELSE C]
  /\ run' = [run EXCEPT ![r].issued = @ \cup C, ![r].todo = C,
                        ![r].short = short,
                        ![r].pc = IF C = {} THEN "finish" ELSE "calls"]

Fresh == Call \ log.issued   \* call ids are unique

\* _intent_node: hand over to the model, ask back, or issue calls right away;
\* delegations take the fast path that may end the turn without the model.
Intent(q) ==
  /\ At(q, "intent")
  /\ \/ Goto(q, "model") /\ UNCHANGED log
     \/ \E C \in SUBSET Fresh : \E short \in {FALSE, C # {}} : Respond(q, C, short)
  /\ UNCHANGED <<approval, executed, asked, holder, stored, hub, faults>>

\* _model_node: an interrupt before the response raises, else the response is
\* appended.  A provider error is Fail.
Model(r) ==
  /\ At(r, "model")
  /\ ~run[r].stop
  /\ \E C \in SUBSET Fresh : Respond(r, C, FALSE)
  /\ UNCHANGED <<approval, executed, asked, holder, stored, hub, faults>>

\* _tools_node starts, unless an interrupt came before.
StartTools(r) ==
  /\ At(r, "calls")
  /\ ~run[r].stop
  /\ Goto(r, "tools")
  /\ UNCHANGED <<log, approval, executed, asked, holder, stored, hub, faults>>

\* A call of a tool that the registry does not offer to this user is answered
\* with an error.
RefuseTool(r, c) ==
  /\ At(r, "tools")
  /\ c \in run[r].todo
  /\ AddResult(r, c, "tools")
  /\ UNCHANGED <<approval, executed, asked, holder, stored, hub, faults>>

\* A call that requires approval gets a pending record and is not
\* executed.
RequestApproval(r, c) ==
  /\ At(r, "tools")
  /\ c \in run[r].todo \cap Gated
  /\ approval' = [approval EXCEPT ![c] = "pending"]
  /\ run' = [run EXCEPT ![r].todo = @ \ {c}, ![r].status = "waiting_approval"]
  /\ UNCHANGED <<log, executed, asked, holder, stored, hub, faults>>

\* Any other call is executed, unless an interrupt came first; a call that
\* times out sets the run's own cancellation event.
ExecuteTool(r, c) ==
  /\ At(r, "tools")
  /\ c \in run[r].todo \ Gated
  /\ executed' = IF run[r].stop THEN executed ELSE [executed EXCEPT ![c] = @ + 1]
  /\ \E late \in {FALSE, r \notin Decider} :
       run' = [run EXCEPT ![r].call = c, ![r].pc = "record",
                          ![r].stop = @ \/ late]
  /\ UNCHANGED <<log, approval, asked, holder, stored, hub, faults>>

\* The result is recorded only if no interrupt came meanwhile.
RecordTool(r) ==
  /\ At(r, "record")
  /\ ~run[r].stop
  /\ AddResult(r, run[r].call, "tools")
  /\ UNCHANGED <<approval, executed, asked, holder, stored, hub, faults>>

\* _route_after_tools
ToolsDone(r) ==
  /\ At(r, "tools")
  /\ run[r].todo = {}
  /\ \/ /\ run[r].status = "waiting_approval" \/ run[r].short
        /\ Goto(r, "finish")
     \/ /\ run[r].status # "waiting_approval"
        /\ run' = [run EXCEPT ![r].short = FALSE, ![r].pc = "model"]
  /\ UNCHANGED <<log, approval, executed, asked, holder, stored, hub, faults>>

\* _check_control raises: in the model node, at the head of the tools node or
\* after a tool.  A stream or a resume appends turn.interrupted and
\* leaves the turn open; a plain query appends turn.completed (cancelled).
StopRun(r) ==
  /\ run[r].pc \in {"model", "calls", "record"}
  /\ run[r].stop
  /\ LET resumable == r \in Streams \cup Resume IN
     /\ log' = IF resumable THEN log ELSE [log EXCEPT !.open = FALSE]
     /\ run' = [run EXCEPT ![r] =
          Over(r, "end", IF resumable THEN "interrupted" ELSE "cancelled")]
  /\ UNCHANGED <<approval, executed, asked, holder, stored, hub, faults>>

\* turn.completed
Finish(r) ==
  /\ At(r, "finish")
  /\ log' = [log EXCEPT !.open = FALSE]
  /\ run' = [run EXCEPT ![r] = Over(r, IF r \in Decider THEN "done" ELSE "end",
       IF run[r].status = "running" THEN "completed" ELSE run[r].status)]
  /\ UNCHANGED <<approval, executed, asked, holder, stored, hub, faults>>

\* Variant of EndRun that releases the lease of successful queries only.
EndRun_Unreleased(r) ==
  /\ At(r, "end")
  /\ hub' = [hub EXCEPT ![Home[r]] = None]
  /\ run' = [run EXCEPT ![r] =
       Over(r, IF r \in Resume \/ run[r].status = "failed" THEN "done" ELSE "store",
            run[r].status)]
  /\ UNCHANGED <<log, approval, executed, asked, holder, stored, faults>>

\* live_hub.end forgets the session's control, whosever it is.  A failed query
\* stores nothing.
EndRun(r) ==
  /\ At(r, "end")
  /\ hub' = [hub EXCEPT ![Home[r]] = None]
  /\ run' = [run EXCEPT ![r] =
       Over(r, IF r \in Resume THEN "done"
               ELSE IF run[r].status = "failed" THEN "release" ELSE "store",
            run[r].status)]
  /\ UNCHANGED <<log, approval, executed, asked, holder, stored, faults>>

---------------------------------------------------------------------------
(* Approval decisions *)

\* PostgresRuntimeGovernanceStore.decide_approval locks the row; a record that
\* was decided before is refused (409).
Decide(d, c) ==
  /\ At(d, "idle")
  /\ approval[c] = "pending"
  /\ \E verdict \in {"approved", "rejected"} :
       approval' = [approval EXCEPT ![c] = verdict]
  /\ run' = [run EXCEPT ![d].call = c, ![d].pc = "act"]
  /\ UNCHANGED <<log, executed, asked, holder, stored, hub, faults>>

\* An approved call is executed, a rejected one is not.
Act(d) ==
  /\ At(d, "act")
  /\ executed' = IF approval[run[d].call] = "approved"
                 THEN [executed EXCEPT ![run[d].call] = @ + 1] ELSE executed
  /\ Goto(d, "result")
  /\ UNCHANGED <<log, approval, asked, holder, stored, hub, faults>>

\* Variant of ActResult that gives a rejected call no result.
ActResult_Approved(d) ==
  /\ At(d, "result")
  /\ IF approval[run[d].call] = "approved" THEN AddResult(d, run[d].call, "remaining")
     ELSE Goto(d, "remaining") /\ UNCHANGED log
  /\ UNCHANGED <<approval, executed, asked, holder, stored, hub, faults>>

\* tool.completed is appended in both cases.
ActResult(d) ==
  /\ At(d, "result")
  /\ AddResult(d, run[d].call, "remaining")
  /\ UNCHANGED <<approval, executed, asked, holder, stored, hub, faults>>

\* list_pending_approvals: somebody else will go on with the graph.
Remaining(d) ==
  /\ At(d, "remaining")
  /\ run' = [run EXCEPT ![d] =
       Over(d, IF Pending # {} THEN "done" ELSE "restore", "running")]
  /\ UNCHANGED <<log, approval, executed, asked, holder, stored, hub, faults>>

Restore(d) ==
  /\ At(d, "restore")
  /\ run' = [run EXCEPT ![d] = Restored(d, "model")]
  /\ UNCHANGED <<log, approval, executed, asked, holder, stored, hub, faults>>

---------------------------------------------------------------------------
(* Interrupts and faults *)

\* POST /v1/agent/sessions/{id}/interrupt
Interrupt(p) ==
  /\ hub[p] # None
  /\ run' = [run EXCEPT ![hub[p]].stop = TRUE]
  /\ UNCHANGED <<log, approval, executed, asked, holder, stored, hub, faults>>

\* A provider or store error unwinds the request: the turn stays as the log has
\* it, and a lease whose release failed is left to lapse.
Fail(r) ==
  /\ run[r].pc \notin {"idle", "end", "done", "dead"}
  /\ faults < MaxFaults
  /\ faults' = faults + 1
  /\ LET pc   == run[r].pc
         next == CASE pc = "release" -> "dead"
                   [] pc \in {"cached", "begin", "store"} /\ r \in Query -> "release"
                   [] pc \in {"subscribe", "begin"} /\ r \in Resume -> "done"
                   [] r \in Decider -> "done"
                   [] OTHER -> "end"
     IN run' = [run EXCEPT ![r] = Over(r, next, "failed")]
  /\ UNCHANGED <<log, approval, executed, asked, holder, stored, hub>>

\* A process dies with every request it serves and its hub.
Crash(p) ==
  /\ faults < MaxFaults
  /\ faults' = faults + 1
  /\ hub' = [hub EXCEPT ![p] = None]
  /\ run' = [r \in Runner |-> IF Home[r] = p /\ run[r].pc \notin {"idle", "done"}
                              THEN [NoRun EXCEPT !.pc = "dead"] ELSE run[r]]
  /\ UNCHANGED <<log, approval, executed, asked, holder, stored>>

---------------------------------------------------------------------------
GraphStep(r) ==
  \/ Model(r) \/ StartTools(r) \/ ToolsDone(r) \/ RecordTool(r) \/ StopRun(r) \/ Finish(r)
  \/ \E c \in Call : RefuseTool(r, c) \/ RequestApproval(r, c) \/ ExecuteTool(r, c)

QueryStep(q) ==
  \/ CheckStored(q) \/ BeginQuery(q) \/ Ask(q) \/ Intent(q)
  \/ GraphStep(q) \/ EndRun(q) \/ Store(q) \/ Release(q)

ResumeStep(s) ==
  \/ Subscribe(s) \/ BeginResume(s) \/ FillRecord(s)
  \/ \E c \in Call : FillExecute(s, c)
  \/ GraphStep(s) \/ EndRun(s)

DeciderStep(d) == Act(d) \/ ActResult(d) \/ Remaining(d) \/ Restore(d) \/ GraphStep(d)

Next ==
  \/ \E q \in Query : Acquire(q) \/ QueryStep(q) \/ Lapse(q)
  \/ \E s \in Resume : ResumeRead(s) \/ ResumeStep(s)
  \/ \E d \in Decider : (\E c \in Call : Decide(d, c)) \/ DeciderStep(d)
  \/ \E r \in Runner : Fail(r)
  \/ \E p \in Process : Interrupt(p) \/ Crash(p)

Spec == Init /\ [][Next]_vars

(* A request that is being served goes on; a lease nobody renews lapses.    *)
Fairness ==
  /\ \A q \in Query : WF_vars(QueryStep(q)) /\ WF_vars(Lapse(q) /\ At(q, "dead"))
  /\ \A s \in Resume : WF_vars(ResumeStep(s))
  /\ \A d \in Decider : WF_vars(DeciderStep(d))

FairSpec == Spec /\ Fairness

---------------------------------------------------------------------------
(* Properties *)

InTurn(r) == run[r].pc \in {"begin", "ask", "intent", "fill", "fill_record",
                            "model", "calls", "tools", "record", "finish", "end",
                            "store"}

InGraph(r) == run[r].pc \in {"intent", "model", "calls", "tools", "record"}

\* A call that requires approval is executed at most once and only when it was
\* approved, whatever resumes, other decisions, crashes and errors do:
\* docs/INTERNAL_ARCHITECTURE.md section 19, "writes must not be sent again".
GatedCallsRunOnce ==
  \A c \in Gated : /\ executed[c] <= 1
                   /\ executed[c] > 0 => approval[c] = "approved"

\* While leases are renewed, two queries never work on the session together.
QueriesSerialized ==
  ~Stalls => \A q, r \in Query : InTurn(q) /\ InTurn(r) => q = r

\* While leases are renewed and nothing fails, retries with the same key ask
\* the question once: the first result is stored before the lease is free.
KeyAskedOnce ==
  ~Stalls /\ faults = 0 => \A k \in Key : asked[k] <= 1

\* While leases are renewed, a query's turn can be interrupted from start to
\* end, unless a resume was served by the same process.
Interruptible ==
  ~Stalls => \A q \in Query :
    InGraph(q) /\ (\A s \in Resume : Home[s] # Home[q]) => hub[Home[q]] = q

\* When every request was served without an error or an interrupt and no
\* approval is pending, the turn is closed and every call that was ever issued
\* has its result.
NothingLost ==
  /\ \A r \in Runner : run[r].pc \in {"idle", "done"} /\ ~run[r].stop
  /\ faults = 0 /\ Pending = {}
  => ~log.open /\ log.issued \subseteq log.results

\* The lease becomes free again: after every turn, crash and error.
LeaseIsFreed == \A q \in Query : holder = q ~> holder # q

\* "Serialize turns" (SessionTurnCoordinator): one run of the graph at a time.
TurnsSerialized ==
  \A r, s \in Runner : InGraph(r) /\ InGraph(s) => r = s

\* The graph goes on with every tool result (docs/INTERNAL_ARCHITECTURE.md
\* section 19): the model is never asked with a call that has no result.
ModelSeesResults ==
  \A r \in Runner : At(r, "model") => run[r].issued \subseteq run[r].results
============================================================================
