----------------------------- MODULE MemoryIndex -----------------------------
(***************************************************************************)
(* The long-term memory service: the items of one tenant in PostgreSQL, the *)
(* points derived from them in an external vector index, and the outbox     *)
(* that records index writes that failed.  Every method of MemoryService is *)
(* a sequence of transactions: it reads items, and later writes back whole  *)
(* copies of what it read.  All items here have one key, scope and owner,   *)
(* which is when they conflict.                                             *)
(***************************************************************************)
EXTENDS Naturals, FiniteSets

CONSTANTS
  MemItem,       \* memory ids
  MemRequests,   \* bound on requests; they arrive in the order of their numbers
  MemWorker,     \* the lifecycle worker
  NoMem,
  MemEvents,     \* bound on what happens beside the calls: dates that pass, a change of the
                 \* embedding model, and calls that begin while another is under way
  MaxAttempts,   \* attempts after which the outbox gives up (5 in the code)
  MaxMemFaults   \* bound on errors of the vector index and the embedder

MemRequest == 1..MemRequests

ASSUME MemAssumption ==
  /\ NoMem \notin MemItem
  /\ MemRequests \in Nat
  /\ MemWorker \notin MemRequest
  /\ MemEvents \in Nat /\ MaxAttempts \in Nat \ {0} /\ MaxMemFaults \in Nat

VARIABLES
  memStore,     \* the row of each item
  memIndex,     \* status in the payload of its point, or "none"
  memJobs,      \* outbox rows with status failed
  memSources,   \* items with rows in memory_sources and memory_relations
  memCall,      \* what each call is doing
  memLate,      \* whether the items with an expiry date have expired
  memSwitched,  \* whether the embedding model was changed
  memGone,      \* history: items scrubbed while no other call had a copy of them to write
  memErased,    \* history: those of them whose forget has completed
  memOthers,    \* history, of a confirm: items others wrote last since it listed its group
  memBeside,    \* how many calls began while another was under way
  memFaults

memVars == <<memStore, memIndex, memJobs, memSources, memCall, memLate,
             memSwitched, memGone, memErased, memOthers,
             memBeside, memFaults>>
\* What only the properties and the bounds need.
memHistory == <<memGone, memErased, memOthers, memBeside>>

MemStatus == {"absent", "candidate", "active", "conflicted", "superseded", "deleted"}

\* text: content and embedding are there; fresh: embedded by the current model.
MemRow == [status : MemStatus, text : BOOLEAN, group : BOOLEAN, fresh : BOOLEAN,
           mortal : BOOLEAN]

Absent == [status |-> "absent", text |-> FALSE, group |-> FALSE, fresh |-> FALSE,
           mortal |-> FALSE]

MemJob == [op : {"upsert", "delete"}, item : MemItem, attempts : 1..MaxAttempts]

\* row: the copy to be written next; seen: the rows a list returned; then: where
\* to go after indexing; todo, jobs: what a loop has still to do;
\* engine: whether what the call embeds with is still the current model.
MemCallRec ==
  [pc : {"idle", "mark", "put", "source", "index", "list", "embed", "unindex",
         "scrub", "clean", "sweep", "fetch", "retry", "next", "done"},
   op : {"none", "create", "confirm", "reject", "correct", "forget", "feedback",
         "clear", "maintain"},
   item : MemItem \cup {NoMem}, other : MemItem \cup {NoMem}, row : MemRow,
   then : STRING, seen : [MemItem -> MemRow], todo : SUBSET MemItem,
   jobs : SUBSET MemJob, engine : BOOLEAN]

NoMemCall == [pc |-> "idle", op |-> "none", item |-> NoMem, other |-> NoMem,
              row |-> Absent, then |-> "done", seen |-> [i \in MemItem |-> Absent],
              todo |-> {}, jobs |-> {}, engine |-> TRUE]

MemTypeOK ==
  /\ memStore \in [MemItem -> MemRow]
  /\ memIndex \in [MemItem -> MemStatus \cup {"none"}]
  /\ \A j \in memJobs : j \in MemJob
  /\ memSources \subseteq MemItem
  /\ memGone \subseteq MemItem /\ memErased \subseteq MemItem
  /\ memOthers \in [MemRequest -> SUBSET MemItem]
  /\ \A c \in MemRequest \cup {MemWorker} :
       /\ DOMAIN memCall[c] = DOMAIN NoMemCall
       /\ memCall[c].row \in MemRow
       /\ memCall[c].todo \subseteq MemItem
  /\ memLate \in BOOLEAN /\ memSwitched \in BOOLEAN
  /\ memBeside \in 0..MemEvents /\ memFaults \in 0..MaxMemFaults

MemInit ==
  /\ memStore = [i \in MemItem |-> Absent]
  /\ memIndex = [i \in MemItem |-> "none"]
  /\ memJobs = {} /\ memSources = {}
  /\ memGone = {} /\ memErased = {}
  /\ memOthers = [c \in MemRequest |-> {}]
  /\ memCall = [c \in MemRequest \cup {MemWorker} |-> NoMemCall]
  /\ memLate = FALSE /\ memSwitched = FALSE
  /\ memBeside = 0 /\ memFaults = 0

Expired(row) == row.mortal /\ memLate
Live(row) == row.status \in {"active", "candidate", "conflicted"}
Exists(i) == memStore[i].status # "absent"
MemAt(c, pc) == memCall[c].pc = pc
MemGoto(c, pc) == memCall' = [memCall EXCEPT ![c].pc = pc]

\* A call that returns.  The worker comes round again.
MemEnd(c) ==
  memCall' = [memCall EXCEPT ![c] =
                [NoMemCall EXCEPT !.pc = IF c = MemWorker THEN "idle" ELSE "done"]]

---------------------------------------------------------------------------
(* How the calls begin *)

MemEventsLeft ==
  memBeside + (IF memLate THEN 1 ELSE 0) + (IF memSwitched THEN 1 ELSE 0) < MemEvents

MemUnder(c) == memCall[c].pc \notin {"idle", "done"}

MemBegin(c, op, r) ==
  /\ MemAt(c, "idle")
  /\ \/ /\ \A d \in MemRequest \cup {MemWorker} : ~ MemUnder(d)
        /\ UNCHANGED memBeside
     \/ /\ \E d \in MemRequest \cup {MemWorker} : MemUnder(d)
        /\ MemEventsLeft /\ memBeside' = memBeside + 1
  /\ memCall' = [memCall EXCEPT ![c] = [r EXCEPT !.op = op]]
  /\ UNCHANGED <<memStore, memIndex, memJobs, memSources, memLate, memSwitched,
                 memGone, memErased, memOthers, memFaults>>

\* An id that no item has and no call has chosen.
Unchosen(i) == ~ Exists(i) /\ \A c \in MemRequest : i \notin {memCall[c].item, memCall[c].other}

\* The next new id; which one it is does not matter.
New(i) == Unchosen(i) /\ i = CHOOSE x \in MemItem : Unchosen(x)

\* create: x is an active item with another content, if there is one.  It gets a
\* conflict group first; what is only a candidate then becomes conflicted.
Create(c, i, status, mortal, x) ==
  /\ New(i)
  /\ x # NoMem => memStore[x].status = "active" /\ ~ Expired(memStore[x])
  /\ MemBegin(c, "create",
       [NoMemCall EXCEPT
          !.pc = IF x # NoMem /\ ~ memStore[x].group THEN "mark" ELSE "put",
          !.item = i, !.other = x,
          !.row = [status |-> IF x # NoMem /\ status = "candidate" THEN "conflicted"
                              ELSE status,
                   text |-> TRUE, group |-> x # NoMem, fresh |-> TRUE,
                   mortal |-> mortal],
          !.seen = IF x # NoMem THEN memStore ELSE @])

\* confirm: replace says that active members of the conflict group are superseded.
Confirm(c, i, replace) ==
  /\ memStore[i].status \in {"candidate", "conflicted"}
  /\ MemBegin(c, "confirm",
       [NoMemCall EXCEPT !.pc = IF memStore[i].group /\ replace THEN "list" ELSE "put",
                         !.item = i, !.row = [memStore[i] EXCEPT !.status = "active"]])

Reject(c, i) ==
  /\ Exists(i)
  /\ MemBegin(c, "reject",
       [NoMemCall EXCEPT !.pc = "put", !.item = i,
                         !.row = [memStore[i] EXCEPT !.status = "deleted"]])

\* correct: the version that is corrected may have any status, deleted included.
Correct(c, i, new) ==
  /\ Exists(i) /\ New(new)
  /\ MemBegin(c, "correct",
       [NoMemCall EXCEPT !.pc = "put", !.item = i, !.other = new, !.then = "embed",
                         !.row = [memStore[i] EXCEPT !.status = "superseded"]])

Forget(c, i) ==
  /\ Exists(i)
  /\ MemBegin(c, "forget", [NoMemCall EXCEPT !.pc = "unindex", !.item = i])

\* add_feedback with the rating incorrect or stale flags the item.
Feedback(c, i) ==
  /\ Exists(i)
  /\ MemBegin(c, "feedback",
       [NoMemCall EXCEPT !.pc = "put", !.item = i, !.row = memStore[i]])

\* Variant of Stale: items embedded by another model are left as they are.
Stale_Expired(rows) == {i \in MemItem : rows[i].status = "active" /\ Expired(rows[i])}

\* Items that maintenance has to change: expired, or embedded by another model.
Stale(rows) ==
  {i \in MemItem : \/ rows[i].status = "active" /\ Expired(rows[i])
                   \/ Live(rows[i]) /\ ~ rows[i].fresh}

Maintain ==
  MemBegin(MemWorker, "maintain",
    [NoMemCall EXCEPT !.pc = "sweep", !.seen = memStore, !.todo = Stale(memStore)])

\* compliance_delete_user: the items it listed are forgotten one after the other.
Clear(c) ==
  MemBegin(c, "clear", [NoMemCall EXCEPT !.pc = "next", !.todo = {i \in MemItem : Exists(i)}])

\* What is stored is active, or a candidate if it is sensitive or comes from a turn.
\* A date on which it expires lies ahead.
Store(c, status) ==
  \E i \in MemItem, mortal \in {FALSE, ~ memLate}, x \in MemItem \cup {NoMem} : Create(c, i, status, mortal, x)

StoreAny(c) == \E status \in {"active", "candidate"} : Store(c, status)

Ruling(c, i) ==
  \/ \E replace \in BOOLEAN : Confirm(c, i, replace)
  \/ Reject(c, i)
  \/ \E new \in MemItem : Correct(c, i, new)

\* The routes of the owner, of an administrator, and the tools.
OwnerRequest(c) == (\E i \in MemItem : Ruling(c, i) \/ Forget(c, i) \/ Feedback(c, i)) \/ Clear(c)
AdminRequest(c) == (\E i \in MemItem : Ruling(c, i) \/ Forget(c, i)) \/ Clear(c) \/ StoreAny(c)
RememberTool(c) == StoreAny(c)
ForgetTool(c) == \E i \in MemItem : Forget(c, i)

\* The end of a turn: what the question says of its user, and the episode that it was, when
\* tools were used.  Each item is a call of create.
ExtractCandidate(c) == Store(c, "candidate")
CaptureEpisode(c) == Store(c, "candidate")

MemStart(c) ==
  /\ MemAt(c, "idle") /\ \A d \in 1..(c - 1) : ~ MemAt(d, "idle")
  /\ \/ OwnerRequest(c) \/ AdminRequest(c)
     \/ RememberTool(c) \/ ForgetTool(c)
     \/ ExtractCandidate(c) \/ CaptureEpisode(c)

---------------------------------------------------------------------------
(* Their transactions *)

\* A row is written.  A confirm that has listed its group sees which others write.
MemWrite(c, i, row) ==
  /\ memStore' = [memStore EXCEPT ![i] = row]
  /\ memOthers' = [d \in MemRequest |->
                     IF d = c THEN memOthers[d] \ {i}
                     ELSE IF memCall[d].op = "confirm" /\ memCall[d].other # NoMem
                          THEN memOthers[d] \cup {i} ELSE memOthers[d]]

\* The older of two conflicting items gets its group.
Mark(c) ==
  /\ MemAt(c, "mark")
  /\ MemWrite(c, memCall[c].other, [memCall[c].seen[memCall[c].other] EXCEPT !.group = TRUE])
  /\ memCall' = [memCall EXCEPT ![c].pc = "put", ![c].seen = NoMemCall.seen]
  /\ UNCHANGED <<memIndex, memJobs, memSources, memLate, memSwitched, memGone, memErased, memBeside,
                 memFaults>>

\* PostgresMemoryStore.put: the whole row, whatever is stored by now.
Put(c) ==
  /\ MemAt(c, "put")
  /\ MemWrite(c, memCall[c].item, memCall[c].row)
  /\ CASE memCall[c].op = "feedback" -> MemEnd(c)
       [] memCall[c].op = "reject" -> MemGoto(c, "unindex")
       [] memCall[c].op = "create" \/ memCall[c].then = "last" -> MemGoto(c, "source")
       [] c = MemWorker /\ ~ Live(memCall[c].row) -> MemGoto(c, "sweep")
       [] OTHER -> MemGoto(c, "index")
  /\ UNCHANGED <<memIndex, memJobs, memSources, memLate, memSwitched, memGone, memErased, memBeside,
                 memFaults>>

\* provenance and link_entities
Source(c) ==
  /\ MemAt(c, "source")
  /\ memSources' = memSources \cup {memCall[c].item}
  /\ memCall' = [memCall EXCEPT ![c].pc = "index", ![c].then = "done"]
  /\ UNCHANGED <<memStore, memIndex, memJobs, memLate, memSwitched, memHistory, memFaults>>

\* A point can be written unless the index fails or the row has no embedding.
IndexFails(row) ==
  \/ row # Absent /\ ~ row.text /\ memFaults' = memFaults
  \/ memFaults < MaxMemFaults /\ memFaults' = memFaults + 1
IndexWorks(row) == (row = Absent \/ row.text) /\ memFaults' = memFaults

\* _index
Index(c) ==
  /\ MemAt(c, "index")
  /\ LET i == memCall[c].item row == memCall[c].row IN
     \/ /\ IndexWorks(row)
        /\ memIndex' = [memIndex EXCEPT ![i] = row.status]
        /\ UNCHANGED memJobs
     \/ /\ IndexFails(row)
        /\ memJobs' = memJobs \cup {[op |-> "upsert", item |-> i, attempts |-> 1]}
        /\ UNCHANGED memIndex
  /\ IF memCall[c].then = "done" THEN MemEnd(c) ELSE MemGoto(c, memCall[c].then)
  /\ UNCHANGED <<memStore, memSources, memLate, memSwitched, memHistory>>

\* confirm lists the active members of the conflict group ...
List(c) ==
  /\ MemAt(c, "list")
  /\ LET i == memCall[c].item IN
     memCall' = [memCall EXCEPT ![c].pc = "sweep", ![c].other = i,
                   ![c].seen = [memStore EXCEPT ![i] = memCall[c].row],
                   ![c].todo = {x \in MemItem \ {i} : memStore[x].group /\ memStore[x].status = "active"}]
  /\ memOthers' = [memOthers EXCEPT ![c] = {}]
  /\ UNCHANGED <<memStore, memIndex, memJobs, memSources, memLate, memSwitched, memGone,
                 memErased, memBeside, memFaults>>

\* Variant of Swept: confirm leaves the other members of the group active.
Swept_KeepsOthers(c, row) ==
  IF row.status = "active" /\ Expired(row)
  THEN [row EXCEPT !.status = "superseded"] ELSE [row EXCEPT !.fresh = memCall[c].engine]

\* What the loops of confirm and maintenance write over the copy of an item.
Swept(c, row) ==
  IF memCall[c].op = "confirm" \/ (row.status = "active" /\ Expired(row))
  THEN [row EXCEPT !.status = "superseded"] ELSE [row EXCEPT !.fresh = memCall[c].engine]

\* ... and supersedes each.  Maintenance goes through what it listed likewise.
Sweep(c) ==
  /\ MemAt(c, "sweep")
  /\ \/ \E x \in memCall[c].todo :
          memCall' = [memCall EXCEPT ![c].pc = "put", ![c].item = x, ![c].then = "sweep",
                        ![c].row = Swept(c, memCall[c].seen[x]), ![c].todo = @ \ {x}]
     \/ /\ memCall[c].todo = {}
        /\ IF c = MemWorker THEN MemGoto(c, "fetch")
           ELSE memCall' = [memCall EXCEPT ![c].pc = "put", ![c].item = memCall[c].other,
                              ![c].row = memCall[c].seen[memCall[c].other], ![c].then = "done",
                              ![c].seen = NoMemCall.seen]
  /\ UNCHANGED <<memStore, memIndex, memJobs, memSources, memLate, memSwitched, memHistory, memFaults>>

\* The corrected version.  When it cannot be embedded there is none.
Embed(c) ==
  /\ MemAt(c, "embed")
  /\ \/ memCall' = [memCall EXCEPT ![c].pc = "put", ![c].item = memCall[c].other, ![c].then = "last",
                      ![c].row = [@ EXCEPT !.status = "active", !.text = TRUE]]
        /\ UNCHANGED memFaults
     \/ memFaults < MaxMemFaults /\ memFaults' = memFaults + 1 /\ MemEnd(c)
  /\ UNCHANGED <<memStore, memIndex, memJobs, memSources, memLate, memSwitched, memHistory>>

\* forget and reject delete the point.  Only forget has an outbox row for it.
Unindex(c) ==
  /\ MemAt(c, "unindex")
  /\ LET i == memCall[c].item IN
     \/ IndexWorks(Absent) /\ memIndex' = [memIndex EXCEPT ![i] = "none"] /\ UNCHANGED memJobs
     \/ /\ IndexFails(Absent) /\ UNCHANGED memIndex
        /\ memJobs' = IF memCall[c].op = "reject" THEN memJobs
                      ELSE memJobs \cup {[op |-> "delete", item |-> i, attempts |-> 1]}
  /\ MemGoto(c, IF memCall[c].op = "reject" THEN "clean" ELSE "scrub")
  /\ UNCHANGED <<memStore, memSources, memLate, memSwitched, memHistory>>

\* Variant of Erased: only the status changes.
Erased_StatusOnly(row) == [row EXCEPT !.status = "deleted"]

\* The row that scrub leaves.
Erased(row) == [row EXCEPT !.status = "deleted", !.text = FALSE]

\* Call d has yet to write a copy of item i that it has read, or to create i.
Holds(d, i) ==
  LET call == memCall[d] IN
  \/ call.item = i /\ call.pc \in {"mark", "put", "list", "source"}
  \/ call.other = i /\ (call.pc \in {"mark", "sweep", "embed"} \/ call.then \in {"sweep", "embed"})
  \/ i \in call.todo /\ call.op \in {"confirm", "maintain"}

\* PostgresMemoryStore.scrub
Scrub(c) ==
  /\ MemAt(c, "scrub")
  /\ LET i == memCall[c].item IN
     /\ MemWrite(c, i, Erased(memStore[i]))
     /\ IF \E d \in MemRequest \cup {MemWorker} : Holds(d, i)
        THEN memGone' = memGone \ {i} /\ memErased' = memErased \ {i}
        ELSE memGone' = memGone \cup {i} /\ UNCHANGED memErased
  /\ MemGoto(c, "clean")
  /\ UNCHANGED <<memIndex, memJobs, memSources, memLate, memSwitched, memBeside, memFaults>>

\* scrub_auxiliary
Clean(c) ==
  /\ MemAt(c, "clean")
  /\ memSources' = memSources \ {memCall[c].item}
  /\ memErased' = IF memCall[c].op = "reject" THEN memErased
                  ELSE memErased \cup (memGone \cap {memCall[c].item})
  /\ IF memCall[c].op = "clear" THEN MemGoto(c, "next") ELSE MemEnd(c)
  /\ UNCHANGED <<memStore, memIndex, memJobs, memLate, memSwitched, memGone, memOthers, memBeside,
                 memFaults>>

\* compliance_delete_user, for the next item.
ClearNext(c) ==
  /\ MemAt(c, "next")
  /\ \/ \E x \in memCall[c].todo :
          memCall' = [memCall EXCEPT ![c].pc = "unindex", ![c].item = x, ![c].todo = @ \ {x}]
     \/ memCall[c].todo = {} /\ MemEnd(c)
  /\ UNCHANGED <<memStore, memIndex, memJobs, memSources, memLate, memSwitched, memHistory, memFaults>>

---------------------------------------------------------------------------
(* The outbox *)

\* failed_outbox
Fetch ==
  /\ MemAt(MemWorker, "fetch")
  /\ memCall' = [memCall EXCEPT ![MemWorker] =
                   [NoMemCall EXCEPT !.op = "maintain", !.pc = "retry",
                                     !.jobs = {j \in memJobs : j.attempts < MaxAttempts}]]
  /\ UNCHANGED <<memStore, memIndex, memJobs, memSources, memLate, memSwitched, memHistory, memFaults>>

\* A retry writes the item as it is now, unless it is deleted.
Retry ==
  /\ MemAt(MemWorker, "retry")
  /\ \/ memCall[MemWorker].jobs = {} /\ MemEnd(MemWorker)
        /\ UNCHANGED <<memIndex, memJobs, memFaults>>
     \/ \E j \in memCall[MemWorker].jobs :
          LET row == memStore[j.item]
              point == CASE j.op = "delete" -> "none"
                         [] row.status = "deleted" -> memIndex[j.item]
                         [] OTHER -> row.status
              written == IF point = row.status THEN row ELSE Absent IN
          /\ memCall' = [memCall EXCEPT ![MemWorker].jobs = @ \ {j}]
          /\ \/ /\ IndexWorks(written)
                /\ memIndex' = [memIndex EXCEPT ![j.item] = point]
                /\ memJobs' = memJobs \ {j}
             \/ /\ IndexFails(written)
                /\ memJobs' = (memJobs \ {j}) \cup {[j EXCEPT !.attempts = @ + 1]}
                /\ UNCHANGED memIndex
  /\ UNCHANGED <<memStore, memSources, memLate, memSwitched, memHistory>>

---------------------------------------------------------------------------
(* The environment *)

\* Expiry dates pass, once there are some.
GrowLate ==
  /\ ~ memLate /\ memLate' = TRUE /\ MemEventsLeft
  /\ \E i \in MemItem : memStore[i].mortal
  /\ UNCHANGED <<memStore, memIndex, memJobs, memSources, memCall, memSwitched, memHistory, memFaults>>

\* Copies that a call holds are of the older model too.  create asks for the model after
\* it has marked the other item.
Outdated(call) ==
  [call EXCEPT !.row.fresh = @ /\ call.pc = "mark", !.engine = FALSE,
               !.seen = [i \in MemItem |-> [call.seen[i] EXCEPT !.fresh = FALSE]]]

\* save_policy with another embedding model.
SwitchModel ==
  /\ ~ memSwitched /\ memSwitched' = TRUE /\ MemEventsLeft
  /\ \E i \in MemItem : Exists(i)
  /\ memStore' = [i \in MemItem |-> [memStore[i] EXCEPT !.fresh = FALSE]]
  /\ memCall' = [c \in DOMAIN memCall |->
                   IF memCall[c].op = "none" THEN memCall[c] ELSE Outdated(memCall[c])]
  /\ UNCHANGED <<memIndex, memJobs, memSources, memLate, memHistory, memFaults>>

MemStep(c) == \/ Mark(c) \/ Put(c) \/ Source(c) \/ Index(c) \/ List(c) \/ Sweep(c)
              \/ Embed(c) \/ Unindex(c) \/ Scrub(c) \/ Clean(c)
              \/ ClearNext(c)

MemNext ==
  \/ \E c \in MemRequest : MemStart(c) \/ MemStep(c)
  \/ Maintain \/ MemStep(MemWorker) \/ Fetch \/ Retry
  \/ GrowLate \/ SwitchModel

\* Calls go on, and the worker begins a round of maintenance again and again.
MemFairness ==
  /\ \A c \in MemRequest \cup {MemWorker} : WF_memVars(MemStep(c))
  /\ WF_memVars(Maintain) /\ WF_memVars(Fetch) /\ WF_memVars(Retry)

MemSpec == MemInit /\ [][MemNext]_memVars /\ MemFairness

---------------------------------------------------------------------------
(* Properties *)

\* A memory that was forgotten has no content, no embedding and no sources, and nothing that
\* runs later, nor beside it, brings them back (docs/ENGINEERING_RULES.md, 8.8): only a call
\* that had a copy of the item to write back when its row was scrubbed can, and such an item
\* counts as forgotten when it has been scrubbed again.
ErasedForGood ==
  \A i \in memErased : ~ memStore[i].text /\ i \notin memSources

\* In the end the index agrees with the store, whatever failed on the way: an
\* active memory has an active point, a forgotten one has none (maintenance and
\* the outbox).  Fewer errors than attempts, and no two calls that overlap.
PointsConverge ==
  <>[](\/ memBeside > 0
       \/ \A i \in MemItem :
            /\ i \in memErased => memIndex[i] = "none"
            /\ memStore[i].status = "active" => memIndex[i] = "active" /\ memStore[i].fresh)

\* What is active after a confirmation with replace_conflicts is the item that was
\* confirmed: nothing else of its conflict group is, whatever the calls beside it did,
\* but an item that one of them has written since the group was listed (confirm).
ReplacedAtOnce ==
  [][\A c \in MemRequest :
       memCall[c].op = "confirm" /\ memCall[c].other # NoMem /\ memCall'[c].pc = "done"
         => {i \in MemItem : memStore[i].group /\ memStore[i].status = "active"}
              \subseteq {memCall[c].other} \cup memOthers'[c]]_memVars
=============================================================================
