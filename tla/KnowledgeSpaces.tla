--------------------------- MODULE KnowledgeSpaces ---------------------------
(***************************************************************************)
(* The KnowledgeSpaceRegistry and the connections to vector databases that  *)
(* its spaces name.  The two registries have a lock each, and a request     *)
(* looks into one before it writes the other.                               *)
(***************************************************************************)
EXTENDS Naturals

CONSTANTS
  KnSpace, KnConn,
  NoConn,
  KnRequests,  \* bound on requests; they arrive in the order of their numbers
  KnFaults     \* bound on restarts and failed writes of the file

ASSUME KnAssumption ==
  NoConn \notin KnConn /\ KnRequests \in Nat /\ KnFaults \in Nat

KnRequest == 1..KnRequests

VARIABLES
  knConn,    \* the connections: vector databases, other ones, switched off ones
  knSpace,   \* _items: the connection of each space
  knFile,    \* knowledge_spaces.json
  knCall,    \* what each request is about to write
  knLost,    \* history: whether a write of the file has failed
  knRaced,   \* history: connections deleted by one request while another gave them to a space
  knFaults

knVars == <<knConn, knSpace, knFile, knCall, knLost, knRaced, knFaults>>

NoKnCall == [pc |-> "idle", space |-> NoConn, conn |-> NoConn]

KnTypeOK ==
  /\ knConn \in [KnConn -> {"absent", "vector", "other", "off"}]
  /\ knSpace \in [KnSpace -> KnConn \cup {NoConn}]
  /\ knFile \in [KnSpace -> KnConn \cup {NoConn}]
  /\ knCall \in [KnRequest -> [pc : {"idle", "write", "remove", "drop", "done"},
                               space : KnSpace \cup {NoConn}, conn : KnConn \cup {NoConn}]]
  /\ knLost \in BOOLEAN /\ knRaced \subseteq KnConn /\ knFaults \in 0..KnFaults

KnInit ==
  /\ knConn = [c \in KnConn |-> "absent"]
  /\ knSpace = [k \in KnSpace |-> NoConn] /\ knFile = knSpace
  /\ knCall = [r \in KnRequest |-> NoKnCall]
  /\ knLost = FALSE /\ knRaced = {} /\ knFaults = 0

KnArrives(r) ==
  /\ knCall[r].pc = "idle"
  /\ \A q \in 1..(r - 1) : knCall[q].pc # "idle"
KnGoto(r, call) == knCall' = [knCall EXCEPT ![r] = call]

\* A request that starts on connection c finds one under way that does pc with it.
KnMeets(c, pc) ==
  knRaced' = IF \E q \in KnRequest : knCall[q].pc = pc /\ knCall[q].conn = c THEN knRaced \cup {c} ELSE knRaced

---------------------------------------------------------------------------
(* Spaces *)

\* Variant of ValidConnection: a connection of any type, ready or not.
ValidConnection_Any(c) == c # NoConn

\* _validate_connection and require_id
ValidConnection(c) == c # NoConn /\ knConn[c] = "vector"

CreateSpace(r, k, c) ==
  /\ KnArrives(r) /\ knSpace[k] = NoConn /\ \A q \in KnRequest : knCall[q].space # k
  /\ ValidConnection(c)
  /\ KnGoto(r, [pc |-> "write", space |-> k, conn |-> c])
  /\ KnMeets(c, "drop")
  /\ UNCHANGED <<knConn, knSpace, knFile, knLost, knFaults>>

\* update validates the connection also when it stays the same, and later writes a copy of
\* what it has read, deleted or not meanwhile.
UpdateSpace(r, k, c) ==
  /\ KnArrives(r) /\ knSpace[k] # NoConn
  /\ ValidConnection(c)
  /\ KnGoto(r, [pc |-> "write", space |-> k, conn |-> c])
  /\ KnMeets(c, "drop")
  /\ UNCHANGED <<knConn, knSpace, knFile, knLost, knFaults>>

DeleteSpace(r, k) ==
  /\ KnArrives(r) /\ knSpace[k] # NoConn
  /\ KnGoto(r, [pc |-> "remove", space |-> k, conn |-> NoConn])
  /\ UNCHANGED <<knConn, knSpace, knFile, knLost, knRaced, knFaults>>

\* Under the lock: the item, and the file with all items, which may fail.
WriteSpaces(r) ==
  /\ knCall[r].pc \in {"write", "remove"}
  /\ knSpace' = [knSpace EXCEPT ![knCall[r].space] = knCall[r].conn]
  /\ \/ knFile' = knSpace' /\ UNCHANGED <<knLost, knFaults>>
     \/ /\ knFaults < KnFaults /\ knFaults' = knFaults + 1 /\ knLost' = TRUE
        /\ UNCHANGED knFile
  /\ KnGoto(r, [NoKnCall EXCEPT !.pc = "done"])
  /\ UNCHANGED <<knConn, knRaced>>

---------------------------------------------------------------------------
(* Connections *)

AddConnection(c, type) ==
  /\ knConn[c] = "absent"
  /\ knConn' = [knConn EXCEPT ![c] = type]
  /\ UNCHANGED <<knSpace, knFile, knCall, knLost, knRaced, knFaults>>

\* patch_connection does not ask who uses it.
Disable(c) ==
  /\ knConn[c] = "vector"
  /\ knConn' = [knConn EXCEPT ![c] = "off"]
  /\ UNCHANGED <<knSpace, knFile, knCall, knLost, knRaced, knFaults>>

\* spaces_for_connection
Unused(c) == \A k \in KnSpace : knSpace[k] # c

\* delete_connection refuses one that a space names ...
CheckUnused(r, c) ==
  /\ KnArrives(r) /\ knConn[c] # "absent" /\ Unused(c)
  /\ KnGoto(r, [pc |-> "drop", space |-> NoConn, conn |-> c])
  /\ KnMeets(c, "write")
  /\ UNCHANGED <<knConn, knSpace, knFile, knLost, knFaults>>

\* ... and deletes it under another lock.
DropConnection(r) ==
  /\ knCall[r].pc = "drop"
  /\ knConn' = [knConn EXCEPT ![knCall[r].conn] = "absent"]
  /\ KnGoto(r, [NoKnCall EXCEPT !.pc = "done"])
  /\ UNCHANGED <<knSpace, knFile, knLost, knRaced, knFaults>>

---------------------------------------------------------------------------

\* A new process reads the file; requests are lost.
RestartSpaces ==
  /\ knFaults < KnFaults /\ knFaults' = knFaults + 1
  /\ knSpace' = knFile
  /\ knCall' = [r \in KnRequest |->
                  IF knCall[r].pc = "idle" THEN NoKnCall ELSE [NoKnCall EXCEPT !.pc = "done"]]
  /\ UNCHANGED <<knConn, knFile, knLost, knRaced>>

KnNext ==
  \/ \E r \in KnRequest :
       \/ \E k \in KnSpace, c \in KnConn : CreateSpace(r, k, c) \/ UpdateSpace(r, k, c)
       \/ \E k \in KnSpace : DeleteSpace(r, k)
       \/ WriteSpaces(r) \/ DropConnection(r)
       \/ \E c \in KnConn : CheckUnused(r, c)
  \/ \E c \in KnConn : Disable(c) \/ \E type \in {"vector", "other"} : AddConnection(c, type)
  \/ RestartSpaces

KnSpec == KnInit /\ [][KnNext]_knVars

---------------------------------------------------------------------------
(* Properties *)

\* Every space names a vector database that exists, switched on or off, whatever requests
\* overlap, are repeated or cut off by a restart, until a write of the file fails: only a
\* connection that one request deletes while another gives it to a space may be missing,
\* as each looks into one registry and writes the other later (create, update,
\* delete_connection, reload).
SpacesConnected ==
  ~ knLost =>
    \A k \in KnSpace :
      knSpace[k] # NoConn => knSpace[k] \in knRaced \/ knConn[knSpace[k]] \in {"vector", "off"}
=============================================================================
