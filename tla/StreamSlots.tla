------------------------------ MODULE StreamSlots ------------------------------
(***************************************************************************)
(* The streams of the agent API: a bounded number of worker threads, the    *)
(* lease of a session, and the hub through which a refreshed browser        *)
(* attaches to the turn that runs.  A query takes the lease, then a slot;   *)
(* a resume either attaches to the running turn or runs one without lease.  *)
(***************************************************************************)
EXTENDS Naturals, FiniteSets

CONSTANTS
  StrSession,    \* sessions of one user
  StrRequests,   \* bound on requests; they arrive in the order of their numbers
  StrSlots,      \* AGENT_STREAM_MAX_CONCURRENCY
  NoStr

StrRequest == 1..StrRequests

ASSUME StrAssumption ==
  StrRequests \in Nat /\ StrSlots \in Nat \ {0} /\ NoStr \notin StrSession \cup StrRequest

VARIABLES
  strFree,      \* free slots of the semaphore
  strLease,     \* the query that holds the lease of a session
  strInflight,  \* SessionLiveHub._inflight
  strSubs,      \* SessionLiveHub._subscribers
  strOpen,      \* sessions whose log ends in an unfinished turn
  strReq        \* what each request and its thread are doing

strVars == <<strFree, strLease, strInflight, strSubs, strOpen, strReq>>

\* notify: the subscribers an ending turn has still to tell; told: None is in the queue
\* of the subscription; sse: what the client sees of its stream.
StrPc == {"idle", "leased", "subscribed", "look", "resume", "cached", "begin", "turn", "notify",
          "forward", "final", "slot", "done"}
StrRec == [pc : StrPc, session : StrSession \cup {NoStr}, notify : SUBSET StrRequest,
           told : BOOLEAN, sse : {"none", "open", "ended", "refused"}]
NoRec == [pc |-> "idle", session |-> NoStr, notify |-> {}, told |-> FALSE, sse |-> "none"]

StrTypeOK ==
  /\ strFree \in 0..StrSlots
  /\ strLease \in [StrSession -> StrRequest \cup {NoStr}]
  /\ strInflight \subseteq StrSession /\ strOpen \subseteq StrSession
  /\ strSubs \in [StrSession -> SUBSET StrRequest]
  /\ strReq \in [StrRequest -> StrRec]

StrInit ==
  /\ strFree = StrSlots
  /\ strLease = [s \in StrSession |-> NoStr]
  /\ strInflight = {} /\ strOpen = {}
  /\ strSubs = [s \in StrSession |-> {}]
  /\ strReq = [r \in StrRequest |-> NoRec]

StrAt(r, pc) == strReq[r].pc = pc
Session(r) == strReq[r].session
StrGoto(r, pc) == strReq' = [strReq EXCEPT ![r].pc = pc]
StrOver(r, sse) == strReq' = [strReq EXCEPT ![r].pc = "done", ![r].sse = sse]
StrArrives(r) == StrAt(r, "idle") /\ \A d \in 1..(r - 1) : ~ StrAt(d, "idle")

---------------------------------------------------------------------------
(* Slots *)

\* start_stream_worker: a slot and a thread ...
StartWorker(r, pc) ==
  /\ strFree > 0
  /\ strFree' = strFree - 1
  /\ strReq' = [strReq EXCEPT ![r].pc = pc, ![r].sse = "open"]

\* ... or no slot, or a slot that is given back because no thread can be started.
Refused(r) == StrOver(r, "refused") /\ UNCHANGED strFree

\* bounded_target: whatever the worker did, its slot is given back.
ReleaseSlot(r) ==
  /\ StrAt(r, "slot")
  /\ strFree' = strFree + 1
  /\ StrGoto(r, "done")
  /\ UNCHANGED <<strLease, strInflight, strSubs, strOpen>>

---------------------------------------------------------------------------
(* POST /v1/agent/query/stream *)

StreamQuery(r, s) ==
  /\ StrArrives(r)
  /\ \/ /\ strLease[s] = NoStr
        /\ strLease' = [strLease EXCEPT ![s] = r]
        /\ strReq' = [strReq EXCEPT ![r].pc = "leased", ![r].session = s]
     \/ /\ strLease[s] # NoStr
        /\ StrOver(r, "refused")
        /\ UNCHANGED strLease
  /\ UNCHANGED <<strFree, strInflight, strSubs, strOpen>>

\* Variant of StartQuery: the lease is kept when no worker starts.
StartQuery_KeepsLease(r) ==
  /\ StrAt(r, "leased")
  /\ StartWorker(r, "cached") \/ Refused(r)
  /\ UNCHANGED <<strLease, strInflight, strSubs, strOpen>>

\* Without a worker the lease is released.
StartQuery(r) ==
  /\ StrAt(r, "leased")
  /\ \/ StartWorker(r, "cached") /\ UNCHANGED strLease
     \/ Refused(r) /\ strLease' = [strLease EXCEPT ![Session(r)] = NoStr]
  /\ UNCHANGED <<strInflight, strSubs, strOpen>>

\* The worker: a stored result, or a turn.
LookUpResult(r) ==
  /\ StrAt(r, "cached")
  /\ \E pc \in {"begin", "final"} : StrGoto(r, pc)
  /\ UNCHANGED <<strFree, strLease, strInflight, strSubs, strOpen>>

\* Its finally: release of the lease, and the end of the stream.
Finally(r) ==
  /\ StrAt(r, "final")
  /\ strLease' = [s \in StrSession |-> IF strLease[s] = r THEN NoStr ELSE strLease[s]]
  /\ strReq' = [strReq EXCEPT ![r].pc = "slot", ![r].sse = "ended"]
  /\ UNCHANGED <<strFree, strInflight, strSubs, strOpen>>

---------------------------------------------------------------------------
(* A turn in the hub *)

\* _run_turn: begin, and the message is in the log
BeginTurn(r) ==
  /\ StrAt(r, "begin")
  /\ strInflight' = strInflight \cup {Session(r)}
  /\ strOpen' = strOpen \cup {Session(r)}
  /\ StrGoto(r, "turn")
  /\ UNCHANGED <<strFree, strLease, strSubs>>

\* SessionLiveHub.end under the lock; closed unless the turn was interrupted or failed.
HubEnd(r, closed) ==
  /\ StrAt(r, "turn")
  /\ strOpen' = IF closed THEN strOpen \ {Session(r)} ELSE strOpen
  /\ strInflight' = strInflight \ {Session(r)}
  /\ strSubs' = [strSubs EXCEPT ![Session(r)] = {}]
  /\ strReq' = [strReq EXCEPT ![r].pc = "notify", ![r].notify = strSubs[Session(r)]]
  /\ UNCHANGED <<strFree, strLease>>

\* Variant of HubNotify: nobody is told.
HubNotify_Nobody(r) ==
  /\ StrAt(r, "notify")
  /\ strReq' = [strReq EXCEPT ![r].pc = "final", ![r].notify = {}]
  /\ UNCHANGED <<strFree, strLease, strInflight, strSubs, strOpen>>

\* Its loop after the lock.
HubNotify(r) ==
  /\ StrAt(r, "notify")
  /\ strReq' = [d \in StrRequest |->
       IF d = r THEN [strReq[r] EXCEPT !.pc = "final", !.notify = {}]
       ELSE IF d \in strReq[r].notify THEN [strReq[d] EXCEPT !.told = TRUE] ELSE strReq[d]]
  /\ UNCHANGED <<strFree, strLease, strInflight, strSubs, strOpen>>

---------------------------------------------------------------------------
(* POST /v1/agent/query/resume *)

\* SessionLiveHub.subscribe
ResumeStream(r, s) ==
  /\ StrArrives(r)
  /\ IF s \in strInflight
       THEN /\ strSubs' = [strSubs EXCEPT ![s] = strSubs[s] \cup {r}]
            /\ strReq' = [strReq EXCEPT ![r].pc = "subscribed", ![r].session = s]
       ELSE /\ strReq' = [strReq EXCEPT ![r].pc = "look", ![r].session = s]
            /\ UNCHANGED strSubs
  /\ UNCHANGED <<strFree, strLease, strInflight, strOpen>>

Unsubscribed(r) == [strSubs EXCEPT ![Session(r)] = strSubs[Session(r)] \ {r}]

\* A refused slot takes the subscription back; a thread that fails to start does not.
StartAttach(r) ==
  /\ StrAt(r, "subscribed")
  /\ \/ StartWorker(r, "forward") /\ UNCHANGED strSubs
     \/ Refused(r) /\ strSubs' = IF strFree = 0 THEN Unsubscribed(r) ELSE strSubs
  /\ UNCHANGED <<strLease, strInflight, strOpen>>

\* forward, until the turn ends.
ForwardEnd(r) ==
  /\ StrAt(r, "forward") /\ strReq[r].told
  /\ strSubs' = Unsubscribed(r)
  /\ StrGoto(r, "final")
  /\ UNCHANGED <<strFree, strLease, strInflight, strOpen>>

\* No turn was running: the last answer again, or another run of the open turn.
LookAtLog(r) ==
  /\ StrAt(r, "look")
  /\ IF Session(r) \in strOpen THEN StrGoto(r, "resume") ELSE StrOver(r, "ended")
  /\ UNCHANGED <<strFree, strLease, strInflight, strSubs, strOpen>>

StartResume(r) ==
  /\ StrAt(r, "resume")
  /\ StartWorker(r, "begin") \/ Refused(r)
  /\ UNCHANGED <<strLease, strInflight, strSubs, strOpen>>

StrStep(r) ==
  \/ StartQuery(r) \/ LookUpResult(r) \/ BeginTurn(r)
  \/ \E closed \in BOOLEAN : HubEnd(r, closed)
  \/ HubNotify(r) \/ Finally(r) \/ ReleaseSlot(r)
  \/ StartAttach(r) \/ ForwardEnd(r) \/ LookAtLog(r) \/ StartResume(r)

StrNext ==
  \E r \in StrRequest :
    \/ \E s \in StrSession : StreamQuery(r, s) \/ ResumeStream(r, s)
    \/ StrStep(r)

\* Handlers and threads go on, and every turn ends (it is bounded by steps and time).
StrFairness == \A r \in StrRequest : WF_strVars(StrStep(r))

StrSpec == StrInit /\ [][StrNext]_strVars /\ StrFairness

---------------------------------------------------------------------------
(* Properties *)

\* When no request is being served every slot is free, no session is leased, and the hub
\* knows no turn and no subscriber, whatever was refused or overlapped on the way
\* (start_stream_worker, the finally blocks, SessionLiveHub.end).
NothingHeld ==
  (\A r \in StrRequest : StrAt(r, "idle") \/ StrAt(r, "done"))
    => /\ strFree = StrSlots /\ strInflight = {}
       /\ \A s \in StrSession : strLease[s] = NoStr /\ strSubs[s] = {}

\* Every stream that is opened is ended, also one that attached to a turn as it finished:
\* again and again there is no open one.
StreamsEnd == []<>(\A r \in StrRequest : strReq[r].sse # "open")
=============================================================================
