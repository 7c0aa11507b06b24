----------------------------- MODULE StoresProofs -----------------------------
(***************************************************************************)
(* What holds, for any number of requests, sessions and items, of the       *)
(* stores: images, knowledge spaces, skills, results, models, memories.     *)
(***************************************************************************)
EXTENDS Attachments, KnowledgeSpaces, SkillCatalog, SessionData, ModelRouting, MemoryIndex,
        FiniteSetTheorems, SequenceTheorems, WellFoundedInduction, TLAPS

---------------------------------------------------------------------------
(* Images *)

\* An upload has a file open while it writes, and no other time.
FilesOpen == \A u \in AtUpload : atUpload[u].file # "none" <=> atUpload[u].pc = "write"

\* What is half written is being written, unless a crash tore it, or texts of different
\* lengths were written over one another; of a temporary file that a crash left behind,
\* nobody is about to make the object.
Written ==
  /\ atImage.temporary = "partial"
       => \/ \E u \in AtUpload : atUpload[u].file = "temporary"
          \/ \A u \in AtUpload : atUpload[u].pc \notin {"write", "replace"}
  /\ atImage.object = "partial" => atTorn \/ \E u \in AtUpload : atUpload[u].file = "object"
  /\ atImage.metadata = "partial" => atTorn \/ atMixed \/ \E u \in AtUpload : atUpload[u].pc = "flush"

\* The object is there before its metadata is written, and both before anything refers to
\* the image.
ObjectFirst ==
  /\ (\E u \in AtUpload : atUpload[u].pc \in {"meta", "flush"}) => atImage.object # "absent"
  /\ atKept \/ atLog => atImage.object # "absent" /\ atImage.metadata # "absent"

AtIInv == AtTypeOK /\ FilesOpen /\ Written /\ ObjectFirst

LEMMA InitImages == AtInit => AtIInv
PROOF
<1> SUFFICES ASSUME AtInit PROVE AtIInv
  OBVIOUS
<1>1. 0 \in 0..AtCrashes /\ 0 \in 0..AtSizes /\ 1 \in 1..AtSizes
  BY AtAssumption
<1>2. AtTypeOK
  BY <1>1 DEF AtInit, AtTypeOK, AtUploads, AtFile
<1>3. FilesOpen /\ Written /\ ObjectFirst
  BY DEF AtInit, FilesOpen, Written, ObjectFirst
<1> QED  BY <1>2, <1>3 DEF AtIInv

LEMMA ImagesStep == AtIInv /\ [AtNext]_atVars => AtIInv'
PROOF
<1> USE AtAssumption DEF AtUploads
<1> SUFFICES ASSUME AtIInv, [AtNext]_atVars PROVE AtIInv'
  OBVIOUS
<1>t. /\ AtTypeOK /\ FilesOpen /\ Written /\ ObjectFirst
      /\ \A u \in AtUpload : atUpload[u] \in AtUploads
  BY DEF AtIInv, AtTypeOK
<1>1. ASSUME NEW u \in AtUpload, Upload(u) PROVE AtIInv'
  <2>1. PICK pc \in {"open", "meta"}, size \in 1..AtSizes :
          /\ atUpload' = [atUpload EXCEPT ![u].size = size, ![u].pc = pc]
          /\ pc = "meta" <=> atImage.object # "absent"
    BY <1>1 DEF Upload
  <2>2. /\ atUpload[u].pc = "idle" /\ UNCHANGED <<atImage, atKept, atLog, atTorn, atSize, atMixed, atCrashes>>
        /\ atUpload'[u].pc = pc /\ atUpload'[u].file = atUpload[u].file
        /\ \A v \in AtUpload \ {u} : atUpload'[v] = atUpload[v]
    BY <1>t, <1>1, <2>1 DEF Upload, AtTypeOK
  <2>3. AtTypeOK'
    BY <1>t, <2>1, <2>2 DEF AtTypeOK
  <2>4. FilesOpen'
    BY <1>t, <2>2 DEF FilesOpen
  <2>5. Written'
    BY <1>t, <2>2 DEF Written
  <2>6. ObjectFirst'
    BY <1>t, <2>1, <2>2 DEF ObjectFirst
  <2> QED  BY <2>3, <2>4, <2>5, <2>6 DEF AtIInv
<1>2. ASSUME NEW u \in AtUpload, OpenTemporary(u) PROVE AtIInv'
  <2>1. /\ atUpload[u].pc = "open" /\ UNCHANGED <<atKept, atLog, atTorn, atSize, atMixed, atCrashes>>
        /\ atUpload'[u].pc = "write" /\ atUpload'[u].file = "temporary"
        /\ \A v \in AtUpload \ {u} : atUpload'[v] = atUpload[v]
        /\ atImage'.temporary = "partial" /\ atImage'.object = atImage.object
        /\ atImage'.metadata = atImage.metadata
    BY <1>t, <1>2 DEF OpenTemporary, AtTypeOK
  <2>2. AtTypeOK'
    BY <1>t, <1>2 DEF OpenTemporary, AtTypeOK, AtFile
  <2>3. FilesOpen'
    BY <1>t, <2>1 DEF FilesOpen
  <2>4. Written'
    BY <1>t, <2>1 DEF Written, FilesOpen
  <2>5. ObjectFirst'
    BY <1>t, <2>1 DEF ObjectFirst
  <2> QED  BY <2>2, <2>3, <2>4, <2>5 DEF AtIInv
<1>3. ASSUME NEW u \in AtUpload, WriteTemporary(u) PROVE AtIInv'
  <2>1. atUpload[u].pc = "write" /\ atUpload[u].file \in {"temporary", "object"}
    BY <1>t, <1>3 DEF WriteTemporary, FilesOpen
  <2>2. /\ UNCHANGED <<atKept, atLog, atTorn, atSize, atMixed, atCrashes>>
        /\ atUpload'[u].pc = "replace" /\ atUpload'[u].file = "none"
        /\ \A v \in AtUpload \ {u} : atUpload'[v] = atUpload[v]
        /\ atImage'.metadata = atImage.metadata
        /\ atImage'.temporary = IF atUpload[u].file = "temporary" THEN "whole" ELSE atImage.temporary
        /\ atImage'.object = IF atUpload[u].file = "object" THEN "whole" ELSE atImage.object
    BY <1>t, <1>3, <2>1 DEF WriteTemporary, AtTypeOK
  <2>3. AtTypeOK'
    BY <1>t, <1>3, <2>1 DEF WriteTemporary, AtTypeOK, AtFile
  <2>4. FilesOpen'
    BY <1>t, <2>2 DEF FilesOpen
  <2>5. Written'
    BY <1>t, <2>1, <2>2 DEF Written
  <2>6. ObjectFirst'
    BY <1>t, <2>1, <2>2 DEF ObjectFirst
  <2> QED  BY <2>3, <2>4, <2>5, <2>6 DEF AtIInv
<1>4. ASSUME NEW u \in AtUpload, Replace(u) PROVE AtIInv'
  <2>0. atUpload[u].pc = "replace" /\ UNCHANGED <<atKept, atLog, atTorn, atSize, atMixed, atCrashes>>
    BY <1>4 DEF Replace
  <2>1. CASE atImage.temporary = "absent"
    <3>1. /\ UNCHANGED atImage
          /\ atUpload'[u].pc = "done" /\ atUpload'[u].file = atUpload[u].file
          /\ \A v \in AtUpload \ {u} : atUpload'[v] = atUpload[v]
      BY <1>t, <1>4, <2>1 DEF Replace, UploadTo, AtTypeOK
    <3>2. AtTypeOK'
      BY <1>t, <1>4, <2>0, <2>1 DEF Replace, UploadTo, AtTypeOK
    <3>3. FilesOpen'
      BY <1>t, <2>0, <3>1 DEF FilesOpen
    <3>4. Written' /\ ObjectFirst'
      BY <1>t, <2>0, <2>1, <3>1 DEF Written, ObjectFirst
    <3> QED  BY <3>2, <3>3, <3>4 DEF AtIInv
  <2>2. CASE atImage.temporary # "absent"
    <3>1. /\ atImage'.object = atImage.temporary /\ atImage'.temporary = "absent"
          /\ atImage'.metadata = atImage.metadata
      BY <1>t, <1>4, <2>2 DEF Replace, AtTypeOK
    <3>2. atUpload'[u].pc = "meta" /\ atUpload'[u].file = "none"
      BY <1>t, <1>4, <2>2 DEF Replace
    <3>3. \A v \in AtUpload \ {u} :
            /\ atUpload'[v].pc = atUpload[v].pc
            /\ atUpload'[v].file = IF atUpload[v].file = "temporary" THEN "object" ELSE atUpload[v].file
      BY <1>t, <1>4, <2>2 DEF Replace
    <3>4. AtTypeOK'
      <4>1. atImage' \in [object : AtFile, temporary : AtFile, metadata : AtFile]
        BY <1>t, <1>4, <2>2 DEF Replace, AtTypeOK, AtFile
      <4>2. \A v \in AtUpload : [atUpload[v] EXCEPT !.file = "object"] \in AtUploads
        BY <1>t
      <4>3. [atUpload[u] EXCEPT !.pc = "meta", !.file = "none"] \in AtUploads
        BY <1>t
      <4>4. atUpload' = [v \in AtUpload |->
                IF v = u THEN [atUpload[u] EXCEPT !.pc = "meta", !.file = "none"]
                ELSE IF atUpload[v].file = "temporary" THEN [atUpload[v] EXCEPT !.file = "object"]
                ELSE atUpload[v]]
        BY <1>4, <2>2 DEF Replace
      <4>5. \A v \in AtUpload : atUpload'[v] \in AtUploads
        BY <1>t, <4>2, <4>3, <4>4
      <4>6. atUpload' \in [AtUpload -> AtUploads]
        BY <4>4, <4>5
      <4> QED  BY <1>t, <2>0, <4>1, <4>6 DEF AtTypeOK
    <3>5. FilesOpen'
      BY <1>t, <2>0, <3>2, <3>3 DEF FilesOpen
    <3>6. Written'
      BY <1>t, <2>0, <2>2, <3>1, <3>2, <3>3 DEF Written, FilesOpen
    <3>7. ObjectFirst'
      BY <1>t, <2>0, <2>2, <3>1 DEF ObjectFirst
    <3> QED  BY <3>4, <3>5, <3>6, <3>7 DEF AtIInv
  <2> QED  BY <2>1, <2>2
<1>5. ASSUME NEW u \in AtUpload, TruncateMetadata(u) PROVE AtIInv'
  <2>1. /\ atUpload[u].pc = "meta" /\ UNCHANGED <<atKept, atLog, atTorn, atCrashes>>
        /\ atUpload'[u].pc = "flush" /\ atUpload'[u].file = atUpload[u].file
        /\ \A v \in AtUpload \ {u} : atUpload'[v] = atUpload[v]
        /\ atImage'.metadata = "partial" /\ atImage'.object = atImage.object
        /\ atImage'.temporary = atImage.temporary
    BY <1>t, <1>5 DEF TruncateMetadata, UploadTo, AtTypeOK
  <2>2. AtTypeOK'
    <3>1. 0 \in 0..AtSizes
      OBVIOUS
    <3> QED  BY <1>t, <1>5, <3>1 DEF TruncateMetadata, UploadTo, AtTypeOK, AtFile
  <2>3. FilesOpen' /\ Written' /\ ObjectFirst'
    BY <1>t, <2>1 DEF FilesOpen, Written, ObjectFirst
  <2> QED  BY <2>2, <2>3 DEF AtIInv
<1>6. ASSUME NEW u \in AtUpload, WriteMetadata(u) PROVE AtIInv'
  <2>1. /\ atUpload[u].pc = "flush" /\ UNCHANGED <<atLog, atTorn, atCrashes>>
        /\ atUpload'[u].pc = "done" /\ atUpload'[u].file = atUpload[u].file
        /\ \A v \in AtUpload \ {u} : atUpload'[v] = atUpload[v]
        /\ atImage'.metadata \in {"whole", "partial"} /\ atImage'.object = atImage.object
        /\ atImage'.temporary = atImage.temporary
    BY <1>t, <1>6 DEF WriteMetadata, UploadTo, AtTypeOK
  <2>3. atImage'.metadata = "partial" => atMixed'
    <3>1. atSize \in Nat /\ atUpload[u].size \in Nat \ {0}
      BY <1>t DEF AtTypeOK
    <3>2. atImage'.metadata = "partial" => ~ (atSize <= atUpload[u].size)
      BY <1>t, <1>6 DEF WriteMetadata, AtTypeOK
    <3>3. ~ (atSize <= atUpload[u].size) => atSize \notin {0, atUpload[u].size}
      BY <3>1
    <3>4. atMixed' = (atSize \notin {0, atUpload[u].size})
      BY <1>6 DEF WriteMetadata
    <3> QED  BY <3>2, <3>3, <3>4
  <2>2. AtTypeOK'
    <3>1. atSize' \in 0..AtSizes /\ atMixed' \in BOOLEAN
      BY <1>t, <1>6 DEF WriteMetadata, AtTypeOK
    <3>2. atUpload' \in [AtUpload -> AtUploads]
      BY <1>t, <1>6 DEF WriteMetadata, UploadTo, AtTypeOK
    <3>3. atImage' \in [object : AtFile, temporary : AtFile, metadata : AtFile]
      BY <1>t, <1>6 DEF WriteMetadata, AtTypeOK, AtFile
    <3>4. atKept' \in BOOLEAN
      BY <1>6 DEF WriteMetadata
    <3> QED  BY <1>t, <2>1, <3>1, <3>2, <3>3, <3>4 DEF AtTypeOK
  <2>4. FilesOpen' /\ Written' /\ ObjectFirst'
    BY <1>t, <2>1, <2>3 DEF FilesOpen, Written, ObjectFirst
  <2> QED  BY <2>2, <2>4 DEF AtIInv
<1>7. CASE AttachImage
  BY <1>t, <1>7 DEF AttachImage, Readable, AtIInv, AtTypeOK, FilesOpen, Written, ObjectFirst
<1>8. CASE DieUploading
  <2>1. /\ \A u \in AtUpload : atUpload'[u] =
             IF Uploading(u) THEN [atUpload[u] EXCEPT !.pc = "done", !.file = "none"] ELSE atUpload[u]
        /\ atTorn' = (atTorn \/ \E u \in AtUpload : atUpload[u].pc = "flush" \/ atUpload[u].file = "object")
        /\ UNCHANGED <<atImage, atKept, atLog, atSize, atMixed>>
    BY <1>8 DEF DieUploading
  <2>2. AtTypeOK'
    <3>1. \A u \in AtUpload : [atUpload[u] EXCEPT !.pc = "done", !.file = "none"] \in AtUploads
      BY <1>t
    <3>2. \A u \in AtUpload : atUpload'[u] \in AtUploads
      BY <1>t, <2>1, <3>1
    <3>3. atUpload' \in [AtUpload -> AtUploads]
      BY <1>8, <3>2 DEF DieUploading
    <3>4. atTorn' \in BOOLEAN
      BY <1>t, <2>1 DEF AtTypeOK
    <3>5. atCrashes' \in 0..AtCrashes
      <4>1. atCrashes \in 0..AtCrashes /\ atCrashes < AtCrashes /\ atCrashes' = atCrashes + 1
        BY <1>t, <1>8 DEF DieUploading, AtTypeOK
      <4> QED  BY <4>1
    <3> QED  BY <1>t, <2>1, <3>3, <3>4, <3>5 DEF AtTypeOK
  <2>3. \A u \in AtUpload : atUpload'[u].pc \in {"idle", "done"} /\ atUpload'[u].file = "none"
    BY <1>t, <2>1 DEF Uploading, FilesOpen
  <2>4. FilesOpen'
    BY <2>3 DEF FilesOpen
  <2>5. Written'
    BY <1>t, <2>1, <2>3 DEF Written
  <2>6. ObjectFirst'
    BY <1>t, <2>1, <2>3 DEF ObjectFirst
  <2> QED  BY <2>2, <2>4, <2>5, <2>6 DEF AtIInv
<1>9. CASE UNCHANGED atVars
  BY <1>t, <1>9 DEF atVars, AtIInv, AtTypeOK, FilesOpen, Written, ObjectFirst
<1> QED  BY <1>1, <1>2, <1>3, <1>4, <1>5, <1>6, <1>7, <1>8, <1>9 DEF AtNext

\* However many uploads of an image overlap and wherever the process dies outside a write in
\* place: an image that was uploaded, or that a log refers to, is there whole once no upload
\* of it goes on, and so is its metadata, unless the last text was written over another one
\* of another length.
THEOREM ImagesKept == AtSpec => []ImagesResolve
PROOF
<1>1. AtIInv => ImagesResolve
  BY DEF AtIInv, AtTypeOK, AtUploads, AtFile, FilesOpen, Written, ObjectFirst, ImagesResolve, Readable, Uploading
<1> QED  BY InitImages, ImagesStep, <1>1, PTL DEF AtSpec
---------------------------------------------------------------------------
(* Knowledge spaces *)

KnCalls == [pc : {"idle", "write", "remove", "drop", "done"}, space : KnSpace \cup {NoConn},
            conn : KnConn \cup {NoConn}]

\* A request that writes a space has one, a request that drops a connection has one.
KnNamed ==
  \A r \in KnRequest :
    /\ knCall[r].pc \in {"write", "remove"} => knCall[r].space \in KnSpace
    /\ knCall[r].pc = "drop" => knCall[r].conn \in KnConn

KnTyping == KnTypeOK /\ KnNamed

LEMMA InitKnTyping == KnInit => KnTyping
PROOF
<1> SUFFICES ASSUME KnInit PROVE KnTyping
  OBVIOUS
<1>1. 0 \in 0..KnFaults
  BY KnAssumption
<1>2. KnTypeOK
  BY <1>1 DEF KnInit, KnTypeOK, NoKnCall
<1>3. KnNamed
  BY DEF KnInit, KnNamed, NoKnCall
<1> QED  BY <1>2, <1>3 DEF KnTyping

\* Request r moves on.
LEMMA KnGoes ==
  ASSUME KnTyping, NEW r \in KnRequest, NEW call \in KnCalls, KnGoto(r, call),
         call.pc \in {"write", "remove"} => call.space \in KnSpace,
         call.pc = "drop" => call.conn \in KnConn
  PROVE  knCall' \in [KnRequest -> KnCalls] /\ KnNamed'
PROOF
<1>1. knCall \in [KnRequest -> KnCalls] /\ KnNamed
  BY DEF KnTyping, KnTypeOK, KnCalls
<1>2. knCall' = [knCall EXCEPT ![r] = call]
  BY DEF KnGoto
<1> QED  BY <1>1, <1>2 DEF KnNamed

\* Only c may become one that requests meet on.
LEMMA KnMet ==
  ASSUME KnTyping, NEW c \in KnConn, NEW pc, KnMeets(c, pc)
  PROVE  /\ knRaced' \subseteq KnConn /\ knRaced \subseteq knRaced' /\ knRaced' \subseteq knRaced \cup {c}
         /\ \A q \in KnRequest : knCall[q].pc = pc /\ knCall[q].conn = c => c \in knRaced'
BY DEF KnTyping, KnTypeOK, KnMeets

LEMMA KnTypingStep == KnTyping /\ [KnNext]_knVars => KnTyping'
PROOF
<1> SUFFICES ASSUME KnTyping, [KnNext]_knVars PROVE KnTyping'
  OBVIOUS
<1>t. /\ knConn \in [KnConn -> {"absent", "vector", "other", "off"}]
      /\ knSpace \in [KnSpace -> KnConn \cup {NoConn}]
      /\ knFile \in [KnSpace -> KnConn \cup {NoConn}]
      /\ knCall \in [KnRequest -> KnCalls]
      /\ knLost \in BOOLEAN /\ knRaced \subseteq KnConn /\ knFaults \in 0..KnFaults /\ KnNamed
  BY DEF KnTyping, KnTypeOK, KnCalls
<1>d. [NoKnCall EXCEPT !.pc = "done"] \in KnCalls /\ NoKnCall \in KnCalls
      /\ [NoKnCall EXCEPT !.pc = "done"].pc = "done" /\ NoKnCall.pc = "idle"
  BY DEF NoKnCall, KnCalls
<1>1. ASSUME NEW r \in KnRequest, NEW k \in KnSpace, NEW c \in KnConn,
             CreateSpace(r, k, c) \/ UpdateSpace(r, k, c)
      PROVE  KnTyping'
  <2>1. [pc |-> "write", space |-> k, conn |-> c] \in KnCalls
    BY DEF KnCalls
  <2>2. KnGoto(r, [pc |-> "write", space |-> k, conn |-> c]) /\ KnMeets(c, "drop")
        /\ UNCHANGED <<knConn, knSpace, knFile, knLost, knFaults>>
    BY <1>1 DEF CreateSpace, UpdateSpace
  <2>3. knCall' \in [KnRequest -> KnCalls] /\ KnNamed'
    BY <2>1, <2>2, KnGoes
  <2>4. knRaced' \subseteq KnConn
    BY <2>2, KnMet
  <2> QED  BY <1>t, <2>2, <2>3, <2>4 DEF KnTyping, KnTypeOK, KnCalls
<1>2. ASSUME NEW r \in KnRequest, NEW k \in KnSpace, DeleteSpace(r, k)
      PROVE  KnTyping'
  <2>1. [pc |-> "remove", space |-> k, conn |-> NoConn] \in KnCalls
    BY DEF KnCalls
  <2>2. KnGoto(r, [pc |-> "remove", space |-> k, conn |-> NoConn])
        /\ UNCHANGED <<knConn, knSpace, knFile, knLost, knRaced, knFaults>>
    BY <1>2 DEF DeleteSpace
  <2>3. knCall' \in [KnRequest -> KnCalls] /\ KnNamed'
    BY <2>1, <2>2, KnGoes
  <2> QED  BY <1>t, <2>2, <2>3 DEF KnTyping, KnTypeOK, KnCalls
<1>3. ASSUME NEW r \in KnRequest, WriteSpaces(r) PROVE KnTyping'
  <2>1. /\ knCall[r].space \in KnSpace /\ knCall[r].conn \in KnConn \cup {NoConn}
        /\ knSpace' = [knSpace EXCEPT ![knCall[r].space] = knCall[r].conn]
        /\ KnGoto(r, [NoKnCall EXCEPT !.pc = "done"]) /\ UNCHANGED <<knConn, knRaced>>
    BY <1>t, <1>3 DEF WriteSpaces, KnNamed, KnCalls
  <2>2. knCall' \in [KnRequest -> KnCalls] /\ KnNamed'
    BY <1>d, <2>1, KnGoes
  <2>3. knSpace' \in [KnSpace -> KnConn \cup {NoConn}]
    BY <1>t, <2>1
  <2>4. /\ knFile' \in [KnSpace -> KnConn \cup {NoConn}]
        /\ knLost' \in BOOLEAN /\ knFaults' \in 0..KnFaults
    <3>1. CASE knFile' = knSpace' /\ UNCHANGED <<knLost, knFaults>>
      BY <1>t, <2>3, <3>1
    <3>2. CASE knFaults < KnFaults /\ knFaults' = knFaults + 1 /\ knLost' = TRUE /\ UNCHANGED knFile
      BY <1>t, <3>2, KnAssumption
    <3> QED  BY <1>3, <3>1, <3>2 DEF WriteSpaces
  <2> QED  BY <1>t, <2>1, <2>2, <2>3, <2>4 DEF KnTyping, KnTypeOK, KnCalls
<1>4. ASSUME NEW r \in KnRequest, DropConnection(r) PROVE KnTyping'
  <2>1. /\ knCall[r].conn \in KnConn
        /\ knConn' = [knConn EXCEPT ![knCall[r].conn] = "absent"]
        /\ KnGoto(r, [NoKnCall EXCEPT !.pc = "done"])
        /\ UNCHANGED <<knSpace, knFile, knLost, knRaced, knFaults>>
    BY <1>t, <1>4 DEF DropConnection, KnNamed
  <2>2. knCall' \in [KnRequest -> KnCalls] /\ KnNamed'
    BY <1>d, <2>1, KnGoes
  <2> QED  BY <1>t, <2>1, <2>2 DEF KnTyping, KnTypeOK, KnCalls
<1>5. ASSUME NEW r \in KnRequest, NEW c \in KnConn, CheckUnused(r, c) PROVE KnTyping'
  <2>1. [pc |-> "drop", space |-> NoConn, conn |-> c] \in KnCalls
    BY DEF KnCalls
  <2>2. KnGoto(r, [pc |-> "drop", space |-> NoConn, conn |-> c]) /\ KnMeets(c, "write")
        /\ UNCHANGED <<knConn, knSpace, knFile, knLost, knFaults>>
    BY <1>5 DEF CheckUnused
  <2>3. knCall' \in [KnRequest -> KnCalls] /\ KnNamed'
    BY <2>1, <2>2, KnGoes
  <2>4. knRaced' \subseteq KnConn
    BY <2>2, KnMet
  <2> QED  BY <1>t, <2>2, <2>3, <2>4 DEF KnTyping, KnTypeOK, KnCalls
<1>6. ASSUME NEW c \in KnConn, NEW type \in {"vector", "other"},
             Disable(c) \/ AddConnection(c, type)
      PROVE  KnTyping'
  <2>1. knConn' = [knConn EXCEPT ![c] = "off"] \/ knConn' = [knConn EXCEPT ![c] = type]
    BY <1>6 DEF Disable, AddConnection
  <2>2. knConn' \in [KnConn -> {"absent", "vector", "other", "off"}]
    BY <1>t, <2>1
  <2>3. UNCHANGED <<knSpace, knFile, knCall, knLost, knRaced, knFaults>>
    BY <1>6 DEF Disable, AddConnection
  <2> QED  BY <1>t, <2>2, <2>3 DEF KnTyping, KnTypeOK, KnCalls, KnNamed
<1>7. CASE RestartSpaces
  <2>1. /\ knFaults < KnFaults /\ knFaults' = knFaults + 1 /\ knSpace' = knFile
        /\ UNCHANGED <<knConn, knFile, knLost, knRaced>>
        /\ knCall' = [r \in KnRequest |->
                  IF knCall[r].pc = "idle" THEN NoKnCall ELSE [NoKnCall EXCEPT !.pc = "done"]]
    BY <1>7 DEF RestartSpaces
  <2>2. knCall' \in [KnRequest -> KnCalls] /\ KnNamed'
    BY <1>d, <2>1 DEF KnNamed
  <2>3. knFaults' \in 0..KnFaults
    BY <1>t, <2>1, KnAssumption
  <2> QED  BY <1>t, <2>1, <2>2, <2>3 DEF KnTyping, KnTypeOK, KnCalls
<1>8. CASE UNCHANGED knVars
  BY <1>t, <1>8 DEF knVars, KnTyping, KnTypeOK, KnCalls, KnNamed
<1>9. ASSUME NEW c \in KnConn, Disable(c) PROVE KnTyping'
  <2>1. "vector" \in {"vector", "other"}
    OBVIOUS
  <2> QED  BY <1>6, <1>9, <2>1
<1> QED  BY <1>1, <1>2, <1>3, <1>4, <1>5, <1>6, <1>7, <1>8, <1>9 DEF KnNext

\* Whatever overlaps, the tables, the file and the requests have their types.
THEOREM SpacesTyped == KnSpec => []KnTypeOK
PROOF
<1>1. KnTyping => KnTypeOK
  BY DEF KnTyping
<1> QED  BY InitKnTyping, KnTypingStep, <1>1, PTL DEF KnSpec

Connectable(c) == c \in knRaced \/ knConn[c] \in {"vector", "off"}

\* What a request found when it looked is still so when it writes, but for a connection on
\* which requests met ...
Looked ==
  \A r \in KnRequest :
    /\ knCall[r].pc = "write" => knCall[r].conn \in KnConn /\ Connectable(knCall[r].conn)
    /\ knCall[r].pc = "remove" => knCall[r].conn = NoConn
    /\ knCall[r].pc = "drop" /\ ~ knLost => knCall[r].conn \in knRaced \/ Unused(knCall[r].conn)

\* ... as one that gives it to a space and one that deletes it do.
OnePerRequest ==
  \A q, r \in KnRequest :
    knCall[q].pc = "write" /\ knCall[r].pc = "drop" /\ knCall[q].conn = knCall[r].conn
      => knCall[r].conn \in knRaced

\* Until a write of it fails, the file is what the registry has.
Filed == ~ knLost => knFile = knSpace

KnIInv == KnTyping /\ Looked /\ OnePerRequest /\ Filed /\ SpacesConnected

LEMMA InitSpaces == KnInit => KnIInv
PROOF
<1> SUFFICES ASSUME KnInit PROVE KnIInv
  OBVIOUS
<1>1. Looked /\ OnePerRequest /\ Filed /\ SpacesConnected
  BY KnAssumption DEF KnInit, Looked, OnePerRequest, Filed, SpacesConnected, NoKnCall
<1> QED  BY <1>1, InitKnTyping DEF KnIInv

\* A request that starts.
LEMMA SpacesArrive ==
  ASSUME KnIInv, NEW r \in KnRequest, NEW call \in KnCalls, KnGoto(r, call),
         UNCHANGED <<knConn, knSpace, knFile, knLost>>, knRaced \subseteq knRaced',
         call.pc = "write" => call.conn \in KnConn /\ ValidConnection(call.conn),
         call.pc = "remove" => call.conn = NoConn,
         call.pc = "drop" => call.conn \in KnConn /\ Unused(call.conn),
         call.pc = "write" => \A q \in KnRequest :
             knCall[q].pc = "drop" /\ knCall[q].conn = call.conn => call.conn \in knRaced',
         call.pc = "drop" => \A q \in KnRequest :
             knCall[q].pc = "write" /\ knCall[q].conn = call.conn => call.conn \in knRaced'
  PROVE  Looked' /\ OnePerRequest' /\ Filed' /\ SpacesConnected'
PROOF
<1>1. Looked /\ OnePerRequest /\ Filed /\ SpacesConnected /\ KnTyping
  BY DEF KnIInv
<1>2. knCall'[r] = call /\ \A q \in KnRequest \ {r} : knCall'[q] = knCall[q]
  BY <1>1 DEF KnGoto, KnTyping, KnTypeOK
<1>3. Looked'
  BY <1>1, <1>2 DEF Looked, ValidConnection, Connectable, Unused
<1>4. OnePerRequest'
  BY <1>1, <1>2 DEF OnePerRequest
<1>5. Filed' /\ SpacesConnected'
  BY <1>1 DEF Filed, SpacesConnected
<1> QED  BY <1>3, <1>4, <1>5

\* A request that has answered.
LEMMA SpacesAnswer ==
  ASSUME KnIInv, NEW r \in KnRequest, KnGoto(r, [NoKnCall EXCEPT !.pc = "done"])
  PROVE  /\ knCall'[r].pc = "done"
         /\ \A q \in KnRequest \ {r} : knCall'[q] = knCall[q]
BY DEF KnIInv, KnTyping, KnGoto, KnTypeOK, NoKnCall

LEMMA SpacesStep == KnIInv /\ [KnNext]_knVars => KnIInv'
PROOF
<1> SUFFICES ASSUME KnIInv, [KnNext]_knVars PROVE Looked' /\ OnePerRequest' /\ Filed' /\ SpacesConnected'
  BY KnTypingStep DEF KnIInv
<1>t. KnTyping /\ KnTypeOK /\ KnNamed /\ Looked /\ OnePerRequest /\ Filed /\ SpacesConnected
  BY DEF KnIInv, KnTyping
<1>k. NoConn \notin KnConn
  BY KnAssumption
<1>1. ASSUME NEW r \in KnRequest, NEW k \in KnSpace, NEW c \in KnConn,
             CreateSpace(r, k, c) \/ UpdateSpace(r, k, c)
      PROVE  Looked' /\ OnePerRequest' /\ Filed' /\ SpacesConnected'
  <2> DEFINE call == [pc |-> "write", space |-> k, conn |-> c]
  <2>1. /\ KnGoto(r, call) /\ KnMeets(c, "drop") /\ ValidConnection(c)
        /\ UNCHANGED <<knConn, knSpace, knFile, knLost>>
    BY <1>1 DEF CreateSpace, UpdateSpace
  <2>2. call \in KnCalls /\ call.pc = "write" /\ call.conn = c
    BY DEF KnCalls
  <2>3. knRaced \subseteq knRaced'
        /\ \A q \in KnRequest : knCall[q].pc = "drop" /\ knCall[q].conn = c => c \in knRaced'
    BY <1>t, <2>1, KnMet
  <2> HIDE DEF call
  <2> QED  BY <2>1, <2>2, <2>3, SpacesArrive
<1>2. ASSUME NEW r \in KnRequest, NEW k \in KnSpace, DeleteSpace(r, k)
      PROVE  Looked' /\ OnePerRequest' /\ Filed' /\ SpacesConnected'
  <2> DEFINE call == [pc |-> "remove", space |-> k, conn |-> NoConn]
  <2>1. KnGoto(r, call) /\ UNCHANGED <<knConn, knSpace, knFile, knLost, knRaced>>
    BY <1>2 DEF DeleteSpace
  <2>2. call \in KnCalls /\ call.pc = "remove" /\ call.conn = NoConn
    BY DEF KnCalls
  <2>3. knRaced \subseteq knRaced'
    BY <2>1
  <2> HIDE DEF call
  <2> QED  BY <2>1, <2>2, <2>3, SpacesArrive
<1>3. ASSUME NEW r \in KnRequest, NEW c \in KnConn, CheckUnused(r, c)
      PROVE  Looked' /\ OnePerRequest' /\ Filed' /\ SpacesConnected'
  <2> DEFINE call == [pc |-> "drop", space |-> NoConn, conn |-> c]
  <2>1. /\ KnGoto(r, call) /\ KnMeets(c, "write") /\ Unused(c)
        /\ UNCHANGED <<knConn, knSpace, knFile, knLost>>
    BY <1>3 DEF CheckUnused
  <2>2. call \in KnCalls /\ call.pc = "drop" /\ call.conn = c
    BY DEF KnCalls
  <2>3. knRaced \subseteq knRaced'
        /\ \A q \in KnRequest : knCall[q].pc = "write" /\ knCall[q].conn = c => c \in knRaced'
    BY <1>t, <2>1, KnMet
  <2> HIDE DEF call
  <2> QED  BY <2>1, <2>2, <2>3, SpacesArrive
<1>4. ASSUME NEW r \in KnRequest, WriteSpaces(r)
      PROVE  Looked' /\ OnePerRequest' /\ Filed' /\ SpacesConnected'
  <2> DEFINE k == knCall[r].space
             c == knCall[r].conn
  <2>1. k \in KnSpace /\ (c = NoConn \/ (c \in KnConn /\ Connectable(c)))
    BY <1>t, <1>4 DEF WriteSpaces, Looked, KnNamed
  <2>2. /\ knSpace' = [knSpace EXCEPT ![k] = c] /\ UNCHANGED <<knConn, knRaced>>
        /\ \/ knFile' = knSpace' /\ UNCHANGED knLost
           \/ knLost' = TRUE
    BY <1>4 DEF WriteSpaces
  <2>3. knCall'[r].pc = "done" /\ \A q \in KnRequest \ {r} : knCall'[q] = knCall[q]
    BY <1>4, SpacesAnswer DEF WriteSpaces
  <2>4. \A q \in KnRequest \ {r} :
          knCall[q].pc = "drop" /\ c = knCall[q].conn => knCall[q].conn \in knRaced
    BY <1>t, <1>k, <1>4 DEF OnePerRequest, KnNamed, Looked, WriteSpaces
  <2> HIDE DEF k, c
  <2>5. Looked'
    <3>1. \A d \in KnConn : Unused(d) /\ d # c => Unused(d)'
      BY <1>t, <2>1, <2>2 DEF Unused, KnTypeOK
    <3>2. ~ knLost' => ~ knLost
      BY <1>t, <2>2 DEF KnTypeOK
    <3> QED  BY <1>t, <2>2, <2>3, <2>4, <3>1, <3>2 DEF Looked, Connectable, KnNamed
  <2>6. OnePerRequest'
    BY <1>t, <2>2, <2>3 DEF OnePerRequest
  <2>7. Filed'
    BY <1>t, <2>2 DEF Filed
  <2>8. SpacesConnected'
    BY <1>t, <2>1, <2>2 DEF SpacesConnected, KnTypeOK, Connectable
  <2> QED  BY <2>5, <2>6, <2>7, <2>8
<1>5. ASSUME NEW r \in KnRequest, DropConnection(r)
      PROVE  Looked' /\ OnePerRequest' /\ Filed' /\ SpacesConnected'
  <2> DEFINE c == knCall[r].conn
  <2>1. /\ knCall[r].pc = "drop" /\ c \in KnConn
        /\ UNCHANGED <<knSpace, knFile, knLost, knRaced>>
        /\ \A d \in KnConn \ {c} : knConn'[d] = knConn[d]
    BY <1>t, <1>5 DEF DropConnection, KnNamed, KnTypeOK
  <2>2. knCall'[r].pc = "done" /\ \A q \in KnRequest \ {r} : knCall'[q] = knCall[q]
    BY <1>5, SpacesAnswer DEF DropConnection
  <2>3. \A q \in KnRequest : knCall[q].pc = "write" /\ knCall[q].conn = c => c \in knRaced
    BY <1>t, <2>1 DEF OnePerRequest
  <2>4. ~ knLost => c \in knRaced \/ Unused(c)
    BY <1>t, <2>1 DEF Looked
  <2> HIDE DEF c
  <2>5. Looked'
    BY <1>t, <2>1, <2>2, <2>3 DEF Looked, Connectable, Unused
  <2>6. OnePerRequest' /\ Filed'
    BY <1>t, <2>1, <2>2 DEF OnePerRequest, Filed
  <2>7. SpacesConnected'
    BY <1>t, <1>k, <2>1, <2>4 DEF SpacesConnected, KnTypeOK, Unused
  <2> QED  BY <2>5, <2>6, <2>7
<1>6. ASSUME NEW c \in KnConn, NEW type \in {"vector", "other", "off"},
             knConn' = [knConn EXCEPT ![c] = type], type = "off" \/ knConn[c] = "absent",
             UNCHANGED <<knSpace, knFile, knCall, knLost, knRaced>>
      PROVE  Looked' /\ OnePerRequest' /\ Filed' /\ SpacesConnected'
  <2>1. \A d \in KnConn : knConn[d] \in {"vector", "off"} => knConn'[d] \in {"vector", "off"}
    BY <1>t, <1>6 DEF KnTypeOK
  <2>2. Looked'
    BY <1>t, <1>6, <2>1 DEF Looked, Connectable, Unused
  <2>3. OnePerRequest' /\ Filed' /\ SpacesConnected'
    BY <1>t, <1>k, <1>6, <2>1 DEF OnePerRequest, Filed, SpacesConnected, KnTypeOK
  <2> QED  BY <2>2, <2>3
<1>7. ASSUME NEW c \in KnConn, Disable(c) \/ \E type \in {"vector", "other"} : AddConnection(c, type)
      PROVE  Looked' /\ OnePerRequest' /\ Filed' /\ SpacesConnected'
  BY <1>6, <1>7 DEF Disable, AddConnection
<1>8. CASE RestartSpaces
  <2>1. /\ knSpace' = knFile /\ UNCHANGED <<knConn, knFile, knLost, knRaced>>
        /\ \A r \in KnRequest : knCall'[r].pc \in {"idle", "done"}
    BY <1>8 DEF RestartSpaces, NoKnCall
  <2>2. Looked' /\ OnePerRequest'
    BY <2>1 DEF Looked, OnePerRequest
  <2>3. Filed' /\ SpacesConnected'
    BY <1>t, <2>1 DEF Filed, SpacesConnected
  <2> QED  BY <2>2, <2>3
<1>9. CASE UNCHANGED knVars
  BY <1>t, <1>9 DEF knVars, Looked, Connectable, Unused, OnePerRequest, Filed, SpacesConnected
<1> QED  BY <1>1, <1>2, <1>3, <1>4, <1>5, <1>7, <1>8, <1>9 DEF KnNext

\* Until a write of the file fails, every space names a vector database that exists, whatever
\* overlaps, is updated, deleted, switched off and restarted, but for a connection that one
\* request deleted while another gave it to a space.
THEOREM SpacesNamed == KnSpec => []SpacesConnected
PROOF
<1>1. KnIInv => SpacesConnected
  BY DEF KnIInv
<1> QED  BY InitSpaces, SpacesStep, <1>1, PTL DEF KnSpec

---------------------------------------------------------------------------
(* Skills *)

SkReqs ==
  [op : {"none", "put", "post", "delete"}, name : SkName, text : SkName,
   builtin : BOOLEAN, deleted : BOOLEAN,
   at : {"none", "get", "write", "scan", "assign", "answer", "refresh", "end"},
   seen : [SkName -> Skill \cup {NoSkill}]]

SkTyped ==
  /\ skRows \in [SkName -> Skill \cup {NoSkill}]
  /\ skReq \in [1..SkRequests -> SkReqs]
  /\ skLeft \subseteq SkShipped /\ skUp \in BOOLEAN

\* What is left to seed has no row, nothing is left once requests are served, and before
\* that none is under way.
SkillsSeeded ==
  /\ skUp => skLeft = {}
  /\ ~ skUp => /\ \A n \in skLeft : skRows[n] = NoSkill
               /\ \A r \in 1..SkRequests : skReq[r].at \in {"none", "end"}

\* The flag that a request is about to write is the one that the row still has.
Carried ==
  \A r \in 1..SkRequests :
    skReq[r].at = "write" => skReq[r].builtin = skRows[skReq[r].name].builtin

SkIInv == SkTyped /\ SkillsSeeded /\ Carried

\* What a step may not do to the table.
BuiltinKept ==
  \A n \in Listed(skRows) :
    /\ skRows[n].builtin => n \in Listed(skRows')
    /\ n \in Listed(skRows') => skRows'[n].builtin = skRows[n].builtin

\* A set of numbers that is not empty has a least one (seed_skills_from_paths takes the
\* files in order).
LEMMA MinOfNumbers == ASSUME NEW S \in SUBSET Nat, S # {} PROVE Min(S) \in S
PROOF
<1> DEFINE R == OpToRel(<, Nat)
<1>1. IsWellFoundedOn(R, Nat)
  BY NatLessThanWellFounded
<1>2. \A x, y \in S : y < x => <<y, x>> \in R
  BY DEF OpToRel
<1> HIDE DEF R
<1>3. PICK x \in S : \A y \in S : ~ (<<y, x>> \in R)
  BY <1>1, WFMin
<1>4. ASSUME NEW y \in S PROVE x <= y
  <2>1. x \in Nat /\ y \in Nat /\ ~ (y < x)
    BY <1>2, <1>3
  <2> QED  BY <2>1
<1> QED  BY <1>4 DEF Min

LEMMA InitSkills == SkInit => SkIInv
PROOF
<1> SUFFICES ASSUME SkInit PROVE SkIInv
  OBVIOUS
<1>1. 1 \in SkName
  BY SkAssumption DEF SkName
<1>2. SkIdle \in SkReqs
  <2>1. [n \in SkName |-> NoSkill] \in [SkName -> Skill \cup {NoSkill}]
    OBVIOUS
  <2> QED  BY <1>1, <2>1 DEF SkIdle, SkReqs
<1>3. SkTyped
  BY <1>2 DEF SkInit, SkTyped
<1>4. SkillsSeeded /\ Carried
  BY SkAssumption DEF SkInit, SkillsSeeded, Carried, SkIdle, SkName
<1> QED  BY <1>3, <1>4 DEF SkIInv

\* A step of a request that changes no row.
LEMMA SkillsGo ==
  ASSUME SkIInv, skUp, UNCHANGED <<skRows, skLeft, skUp>>,
         NEW r \in 1..SkRequests, NEW req \in SkReqs, Goes(r, req),
         req.at = "write" => req.builtin = skRows[req.name].builtin
  PROVE  SkIInv' /\ BuiltinKept
PROOF
<1>1. SkTyped /\ SkillsSeeded /\ Carried
  BY DEF SkIInv
<1>2. skReq'[r] = req /\ \A q \in 1..SkRequests : q # r => skReq'[q] = skReq[q]
  BY <1>1 DEF Goes, SkTyped
<1>3. SkTyped'
  BY <1>1 DEF Goes, SkTyped
<1>4. SkillsSeeded' /\ Carried'
  BY <1>1, <1>2 DEF SkillsSeeded, Carried
<1>5. BuiltinKept
  BY DEF BuiltinKept, Listed
<1> QED  BY <1>3, <1>4, <1>5 DEF SkIInv

LEMMA SkillsStep == SkIInv /\ [SkNext]_skVars => SkIInv' /\ (BuiltinKept \/ UNCHANGED skVars)
PROOF
<1> SUFFICES ASSUME SkIInv, [SkNext]_skVars
             PROVE  SkIInv' /\ (BuiltinKept \/ UNCHANGED skVars)
  OBVIOUS
<1>t. /\ SkTyped /\ SkillsSeeded /\ Carried
      /\ \A r \in 1..SkRequests : skReq[r] \in SkReqs
  BY DEF SkIInv, SkTyped
<1>n. /\ SkShipped \subseteq Nat /\ SkShipped \subseteq SkName
      /\ \A n \in SkName : n # 0 /\ [text |-> n, builtin |-> TRUE] # NoSkill
      /\ NoSkill.builtin = FALSE
  BY SkAssumption DEF SkName, NoSkill
<1>i. SkIdle \in SkReqs
  <2>1. [n \in SkName |-> NoSkill] \in [SkName -> Skill \cup {NoSkill}]
    OBVIOUS
  <2>2. 1 \in SkName
    BY SkAssumption DEF SkName
  <2> QED  BY <2>1, <2>2 DEF SkIdle, SkReqs
<1>1. CASE Seed
  <2> DEFINE n == Min(skLeft)
  <2>1. n \in skLeft
    BY <1>1, <1>t, <1>n, MinOfNumbers DEF Seed, SkTyped
  <2>2. /\ ~ skUp /\ skRows' = [skRows EXCEPT ![n] = [text |-> n, builtin |-> TRUE]]
        /\ skLeft' = skLeft \ {n} /\ UNCHANGED <<skUp, skReq>>
    BY <1>1 DEF Seed
  <2> HIDE DEF n
  <2>3. n \in SkName /\ skRows[n] = NoSkill
    BY <1>t, <1>n, <2>1, <2>2 DEF SkTyped, SkillsSeeded
  <2>4. skRows'[n].builtin = TRUE /\ \A m \in SkName : m # n => skRows'[m] = skRows[m]
    BY <1>t, <2>2, <2>3 DEF SkTyped
  <2>5. SkTyped'
    <3>1. [text |-> n, builtin |-> TRUE] \in Skill
      BY <2>3 DEF Skill
    <3> QED  BY <1>t, <2>2, <2>3, <3>1 DEF SkTyped
  <2>6. SkillsSeeded' /\ Carried'
    BY <1>t, <1>n, <2>2, <2>4 DEF SkillsSeeded, Carried, SkTyped
  <2>7. BuiltinKept
    BY <1>t, <2>3, <2>4 DEF BuiltinKept, Listed
  <2> QED  BY <2>5, <2>6, <2>7 DEF SkIInv
<1>2. CASE SkStart
  <2>1. ~ skUp /\ skUp' = TRUE /\ skLeft = {} /\ UNCHANGED <<skRows, skLeft, skReq>>
    BY <1>2 DEF SkStart
  <2>2. SkIInv'
    BY <1>t, <2>1 DEF SkIInv, SkTyped, SkillsSeeded, Carried
  <2>3. BuiltinKept
    BY <2>1 DEF BuiltinKept, Listed
  <2> QED  BY <2>2, <2>3
<1>3. CASE SkRestart
  <2>1. /\ skUp' = FALSE /\ UNCHANGED skRows
        /\ skLeft' = IF Listed(skRows) = {} THEN SkShipped ELSE {}
        /\ skReq' = [r \in 1..SkRequests |-> IF skReq[r].op = "none" THEN SkIdle
                                             ELSE [SkIdle EXCEPT !.op = skReq[r].op, !.at = "end"]]
    BY <1>3 DEF SkRestart
  <2>2. \A r \in 1..SkRequests : skReq'[r].at \in {"none", "end"}
    BY <2>1 DEF SkIdle
  <2>3. SkTyped'
    <3>1. \A r \in 1..SkRequests : [SkIdle EXCEPT !.op = skReq[r].op, !.at = "end"] \in SkReqs
      BY <1>t, <1>i DEF SkReqs
    <3> QED  BY <1>t, <1>i, <2>1, <3>1 DEF SkTyped
  <2>4. SkillsSeeded' /\ Carried'
    BY <1>n, <2>1, <2>2 DEF SkillsSeeded, Carried, Listed
  <2>5. BuiltinKept
    BY <2>1 DEF BuiltinKept, Listed
  <2> QED  BY <2>3, <2>4, <2>5 DEF SkIInv
<1>4. ASSUME NEW r \in 1..SkRequests, SkStep(r), skUp, UNCHANGED <<skLeft, skUp, skRestarts>>
      PROVE  SkIInv' /\ BuiltinKept
  <2> DEFINE req == skReq[r]
  <2>0. /\ req \in SkReqs /\ req.name \in SkName /\ req.text \in SkName
        /\ skRows[req.name] \in Skill \cup {NoSkill}
        /\ skRows[req.name].builtin \in BOOLEAN
    BY <1>t, <1>n DEF SkTyped, SkReqs, Skill
  <2>1. ASSUME NEW op \in {"put", "post", "delete"}, NEW n \in SkName, NEW text \in SkName,
               Ask(r, op, n, text)
        PROVE  SkIInv' /\ BuiltinKept
    <3> DEFINE new == [SkIdle EXCEPT !.op = op, !.name = n, !.text = text,
                         !.at = IF op = "post" /\ skCache[n] # NoSkill THEN "end" ELSE "get"]
    <3>1. Goes(r, new) /\ UNCHANGED skRows
      BY <2>1 DEF Ask
    <3>2. new \in SkReqs /\ new.at # "write"
      BY <1>i DEF SkReqs
    <3> HIDE DEF new
    <3> QED  BY <1>4, <3>1, <3>2, SkillsGo
  <2>2. CASE GetRow(r)
    <3> DEFINE new == IF req.op = "delete" /\ skRows[req.name].builtin THEN [req EXCEPT !.at = "end"]
                      ELSE [req EXCEPT !.at = "write", !.builtin = skRows[req.name].builtin]
    <3>1. Goes(r, new) /\ UNCHANGED skRows
      BY <2>2 DEF GetRow
    <3>2. new \in SkReqs
      BY <2>0 DEF SkReqs
    <3>3. new.at = "write" => new.builtin = skRows[new.name].builtin
      BY <2>0 DEF SkReqs
    <3> HIDE DEF new
    <3> QED  BY <1>4, <3>1, <3>2, <3>3, SkillsGo
  <2>3. CASE WriteSkill(r)
    <3> DEFINE row == skRows[req.name]
               gone == req.op = "delete" /\ row # NoSkill /\ ~ row.builtin
               new == [req EXCEPT !.at = "scan", !.deleted = gone]
               put == IF req.op # "delete" THEN [text |-> req.text, builtin |-> req.builtin]
                      ELSE IF gone THEN NoSkill ELSE row
    <3>1. /\ req.at = "write" /\ Goes(r, new)
          /\ skRows' = IF req.op # "delete"
                       THEN [skRows EXCEPT ![req.name] = [text |-> req.text, builtin |-> req.builtin]]
                       ELSE IF gone THEN [skRows EXCEPT ![req.name] = NoSkill] ELSE skRows
      BY <2>3 DEF WriteSkill
    <3>2. new \in SkReqs /\ new.at = "scan"
      <4>1. gone \in BOOLEAN
        OBVIOUS
      <4> HIDE DEF gone
      <4> QED  BY <2>0, <4>1 DEF SkReqs
    <3>3. skReq'[r] = new /\ \A q \in 1..SkRequests : q # r => skReq'[q] = skReq[q]
      BY <1>t, <3>1 DEF Goes, SkTyped
    <3>4. /\ skRows'[req.name] = put
          /\ \A m \in SkName : m # req.name => skRows'[m] = skRows[m]
          /\ skRows' \in [SkName -> Skill \cup {NoSkill}]
      <4>1. req.op # "delete" => [text |-> req.text, builtin |-> req.builtin] \in Skill
        BY <2>0 DEF Skill, SkReqs
      <4> HIDE DEF gone, req
      <4> QED  BY <1>t, <2>0, <3>1, <4>1 DEF SkTyped
    <3>5. /\ put.builtin = row.builtin
          /\ row # NoSkill /\ row.builtin => put # NoSkill
      BY <1>t, <1>n, <2>0, <3>1 DEF Carried
    <3> HIDE DEF new, put
    <3>6. SkTyped'
      BY <1>t, <1>4, <3>1, <3>2, <3>4 DEF Goes, SkTyped
    <3>7. SkillsSeeded' /\ Carried'
      <4>1. \A m \in SkName : skRows'[m].builtin = skRows[m].builtin
        BY <3>4, <3>5
      <4>2. \A q \in 1..SkRequests : skReq'[q].at = "write" => q # r
        BY <3>2, <3>3
      <4>3. \A q \in 1..SkRequests : skReq[q].name \in SkName
        BY <1>t DEF SkReqs
      <4> QED  BY <1>t, <1>4, <3>3, <4>1, <4>2, <4>3 DEF SkillsSeeded, Carried
    <3>8. BuiltinKept
      BY <3>4, <3>5, <2>0 DEF BuiltinKept, Listed
    <3> QED  BY <3>6, <3>7, <3>8 DEF SkIInv
  <2>4. CASE ListRows(r)
    <3> DEFINE new == [req EXCEPT !.at = "assign", !.seen = skRows]
    <3>1. Goes(r, new) /\ UNCHANGED skRows
      BY <2>4 DEF ListRows
    <3>2. new \in SkReqs /\ new.at = "assign"
      BY <1>t, <2>0 DEF SkReqs, SkTyped
    <3> HIDE DEF new
    <3> QED  BY <1>4, <3>1, <3>2, SkillsGo
  <2>5. CASE Assign(r)
    <3> DEFINE new == [req EXCEPT !.at = "answer", !.seen = [n \in SkName |-> NoSkill]]
    <3>1. Goes(r, new) /\ UNCHANGED skRows
      BY <2>5 DEF Assign
    <3>2. new \in SkReqs /\ new.at = "answer"
      BY <2>0 DEF SkReqs
    <3> HIDE DEF new
    <3> QED  BY <1>4, <3>1, <3>2, SkillsGo
  <2>6. CASE Answer(r) \/ RefreshTool(r)
    <3>1. PICK at \in {"refresh", "end"} : Goes(r, [req EXCEPT !.at = at]) /\ UNCHANGED skRows
      BY <2>6 DEF Answer, RefreshTool
    <3> DEFINE new == [req EXCEPT !.at = at]
    <3>2. new \in SkReqs /\ new.at # "write"
      BY <2>0 DEF SkReqs
    <3> HIDE DEF new
    <3>3. Goes(r, new)
      BY <3>1 DEF new
    <3> QED  BY <1>4, <3>1, <3>2, <3>3, SkillsGo
  <2> QED  BY <1>4, <2>1, <2>2, <2>3, <2>4, <2>5, <2>6 DEF SkStep
<1>5. CASE UNCHANGED skVars
  BY <1>t, <1>5 DEF skVars, SkIInv, SkTyped, SkillsSeeded, Carried
<1> QED  BY <1>1, <1>2, <1>3, <1>4, <1>5 DEF SkNext

\* However many requests, names and restarts: a shipped skill stays in the table and stays
\* built in, and one that an administrator wrote never becomes built in.
THEOREM ShippedSkillsStay == SkSpec => BuiltinStays
PROOF
<1>1. SkIInv /\ [SkNext]_skVars => SkIInv'
  BY SkillsStep
<1>2. SkIInv /\ [SkNext]_skVars
        => [\A n \in Listed(skRows) :
              /\ skRows[n].builtin => n \in Listed(skRows')
              /\ n \in Listed(skRows') => skRows'[n].builtin = skRows[n].builtin]_skVars
  BY SkillsStep DEF BuiltinKept
<1> QED  BY InitSkills, <1>1, <1>2, PTL DEF SkSpec, BuiltinStays

SkTable == [SkName -> Skill \cup {NoSkill}]

\* What SkIInv does not say of the types.
SkRest ==
  /\ skCache \in SkTable /\ skTool \subseteq SkName /\ skRestarts \in 0..SkCrashes
  /\ \A n \in SkName : skCache[n] # NoSkill => skCache[n].text = n

\* A set of names that is not empty has a last one.
LEMMA MaxOfNames == ASSUME NEW S \in SUBSET SkName, S # {} PROVE Max(S) \in S
PROOF
<1> DEFINE T == {SkNames - n : n \in S}
<1>1. SkNames \in Nat /\ \A n \in S : n \in Nat /\ n <= SkNames
  BY SkAssumption DEF SkName
<1>2. T \in SUBSET Nat /\ T # {}
  BY <1>1
<1>3. Min(T) \in T
  BY <1>2, MinOfNumbers
<1> DEFINE R == OpToRel(<, Nat)
<1>4. IsWellFoundedOn(R, Nat)
  BY NatLessThanWellFounded
<1>5. \A x, y \in T : y < x => <<y, x>> \in R
  BY <1>2 DEF OpToRel
<1> HIDE DEF R
<1>6. PICK x \in T : \A y \in T : ~ (<<y, x>> \in R)
  BY <1>2, <1>4, WFMin
<1>7. PICK m \in S : x = SkNames - m
  BY <1>6
<1>8. ASSUME NEW n \in S PROVE m >= n
  <2>1. SkNames - n \in T /\ ~ (SkNames - n < x)
    BY <1>5, <1>6
  <2> QED  BY <1>1, <1>7, <2>1
<1> QED  BY <1>8 DEF Max

\* A registry that is read from a table has each skill under the name in its text.
LEMMA ScanTyped ==
  ASSUME NEW rows \in SkTable
  PROVE  /\ Scan(rows) \in SkTable
         /\ \A n \in SkName : Scan(rows)[n] # NoSkill => Scan(rows)[n].text = n
PROOF
<1> DEFINE named(n) == {r \in Listed(rows) : rows[r].text = n}
           at(n) == IF named(n) = {} THEN NoSkill ELSE rows[Max(named(n))]
<1>1. Scan(rows) = [n \in SkName |-> at(n)]
  BY DEF Scan
<1>2. ASSUME NEW n \in SkName
      PROVE  at(n) \in Skill \cup {NoSkill} /\ (at(n) # NoSkill => at(n).text = n)
  <2>1. CASE named(n) = {}
    BY <2>1
  <2>2. CASE named(n) # {}
    <3>1. named(n) \in SUBSET SkName
      BY DEF Listed
    <3>2. Max(named(n)) \in named(n)
      BY <2>2, <3>1, MaxOfNames
    <3>3. PICK r \in SkName : r = Max(named(n)) /\ rows[r].text = n
      BY <3>1, <3>2
    <3>4. rows[r] \in Skill \cup {NoSkill} /\ at(n) = rows[r]
      BY <2>2, <3>3 DEF SkTable
    <3> QED  BY <3>3, <3>4
  <2> QED  BY <2>1, <2>2
<1> HIDE DEF at
<1> QED  BY <1>1, <1>2 DEF SkTable

LEMMA InitSkRest == SkInit => SkRest
PROOF
<1> SUFFICES ASSUME SkInit PROVE SkRest
  OBVIOUS
<1>1. skCache = [n \in SkName |-> NoSkill] /\ skTool = {} /\ skRestarts = 0
  BY DEF SkInit
<1> QED  BY <1>1, SkAssumption DEF SkRest, SkTable

LEMMA SkRestStep == SkIInv /\ SkRest /\ [SkNext]_skVars => SkRest'
PROOF
<1> SUFFICES ASSUME SkIInv, SkRest, [SkNext]_skVars PROVE SkRest'
  OBVIOUS
<1>t. /\ skRows \in SkTable /\ skReq \in [1..SkRequests -> SkReqs]
      /\ skRestarts \in 0..SkCrashes /\ SkCrashes \in Nat
  BY SkAssumption DEF SkIInv, SkTyped, SkTable, SkRest
<1>l. \A table : Listed(table) \subseteq SkName
  BY DEF Listed
<1>1. CASE SkStart
  <2>1. skCache' = Scan(skRows) /\ skTool' = Listed(skCache') /\ UNCHANGED skRestarts
    BY <1>1 DEF SkStart
  <2> QED  BY <1>t, <1>l, <2>1, ScanTyped DEF SkRest
<1>2. CASE SkRestart
  <2>1. skRestarts < SkCrashes /\ skRestarts' = skRestarts + 1 /\ skTool' = {}
        /\ skCache' = [n \in SkName |-> NoSkill]
    BY <1>2 DEF SkRestart
  <2> QED  BY <1>t, <2>1 DEF SkRest, SkTable
<1>3. ASSUME NEW r \in 1..SkRequests, SkStep(r), UNCHANGED skRestarts PROVE SkRest'
  <2>1. CASE Assign(r)
    <3>1. skReq[r].seen \in SkTable
      BY <1>t DEF SkReqs, SkTable
    <3>2. skCache' = Scan(skReq[r].seen) /\ UNCHANGED skTool
      BY <2>1 DEF Assign
    <3> QED  BY <1>3, <3>1, <3>2, ScanTyped DEF SkRest
  <2>2. CASE RefreshTool(r)
    BY <1>3, <1>l, <2>2 DEF RefreshTool, SkRest
  <2>3. CASE UNCHANGED <<skCache, skTool>>
    BY <1>3, <2>3 DEF SkRest
  <2> QED
    BY <1>3, <2>1, <2>2, <2>3 DEF SkStep, Ask, GetRow, WriteSkill, ListRows, Answer
<1>4. CASE Seed \/ UNCHANGED skVars
  BY <1>4 DEF Seed, skVars, SkRest
<1> QED  BY <1>1, <1>2, <1>3, <1>4 DEF SkNext

LEMMA SkTypes == SkIInv /\ SkRest => SkTypeOK
BY DEF SkIInv, SkTyped, SkReqs, SkRest, SkTable, SkTypeOK

\* The table, the cache, the tools and the requests have their types.
THEOREM SkillsTyped == SkSpec => []SkTypeOK
PROOF
<1>1. SkIInv /\ [SkNext]_skVars => SkIInv'
  BY SkillsStep
<1> QED  BY InitSkills, InitSkRest, SkRestStep, SkTypes, <1>1, PTL DEF SkSpec

---------------------------------------------------------------------------
(* Results *)

DPart == [part : {"events", "results"}, of : SdSession]

\* The results of a session go right after its events.
Paired(d) ==
  /\ d \in Seq(DPart)
  /\ \A k \in 1..Len(d) :
       /\ d[k].part = "events" => k < Len(d) /\ d[k + 1] = [part |-> "results", of |-> d[k].of]
       /\ d[k].part = "results" /\ k > 1 => d[k - 1].part = "events"

LEMMA TailPaired ==
  ASSUME NEW d, Paired(d), d # <<>>
  PROVE  /\ Head(d) = d[1] /\ d[1] \in DPart /\ Len(d) \in Nat \ {0}
         /\ Paired(Tail(d)) /\ Len(Tail(d)) = Len(d) - 1
         /\ \A k \in 1..Len(Tail(d)) : Tail(d)[k] = d[k + 1]
PROOF
<1>1. /\ d \in Seq(DPart) /\ Len(d) \in Nat \ {0} /\ Tail(d) \in Seq(DPart) /\ Head(d) = d[1]
      /\ Len(Tail(d)) = Len(d) - 1
      /\ \A k \in 1..Len(Tail(d)) : Tail(d)[k] = d[k + 1]
  BY HeadTailProperties DEF Paired
<1>2. d[1] \in DPart
  BY <1>1
<1>3. Paired(Tail(d))
  BY <1>1 DEF Paired
<1> QED  BY <1>1, <1>2, <1>3

LEMMA PartsPaired == Paired(Parts) /\ Parts # <<>> /\ Parts[1] = [part |-> "events", of |-> "parent"]
PROOF
<1> DEFINE first == <<[part |-> "events", of |-> "parent"], [part |-> "results", of |-> "parent"]>>
           child == <<[part |-> "events", of |-> "child"], [part |-> "results", of |-> "child"]>>
           rest == IF sdTask = "none" THEN <<>> ELSE child
<1>1. Parts = first \o rest
  BY DEF Parts
<1>2. /\ first \in Seq(DPart) /\ Len(first) = 2
      /\ first[1] = [part |-> "events", of |-> "parent"]
      /\ first[2] = [part |-> "results", of |-> "parent"]
  BY DEF DPart, SdSession
<1>3. /\ child \in Seq(DPart) /\ Len(child) = 2
      /\ child[1] = [part |-> "events", of |-> "child"]
      /\ child[2] = [part |-> "results", of |-> "child"]
  BY DEF DPart, SdSession
<1> HIDE DEF first, child
<1>4. rest \in Seq(DPart) /\ Len(rest) \in {0, 2} /\ (Len(rest) = 2 => rest = child)
  BY <1>3
<1> HIDE DEF rest
<1>5. /\ first \o rest \in Seq(DPart)
      /\ Len(first \o rest) = Len(first) + Len(rest)
      /\ \A k \in 1..(Len(first) + Len(rest)) :
           (first \o rest)[k] = IF k <= Len(first) THEN first[k] ELSE rest[k - Len(first)]
  BY <1>2, <1>4, ConcatProperties
<1>6. /\ Parts \in Seq(DPart) /\ Len(Parts) \in {2, 4}
      /\ Parts[1] = [part |-> "events", of |-> "parent"]
      /\ Parts[2] = [part |-> "results", of |-> "parent"]
      /\ Len(Parts) = 4 => /\ Parts[3] = [part |-> "events", of |-> "child"]
                           /\ Parts[4] = [part |-> "results", of |-> "child"]
  BY <1>1, <1>2, <1>3, <1>4, <1>5
<1>7. Paired(Parts)
  <2> SUFFICES ASSUME NEW k \in 1..Len(Parts)
               PROVE  /\ Parts[k].part = "events"
                           => k < Len(Parts) /\ Parts[k + 1] = [part |-> "results", of |-> Parts[k].of]
                      /\ Parts[k].part = "results" /\ k > 1 => Parts[k - 1].part = "events"
    BY <1>6 DEF Paired
  <2>1. k \in {1, 2} \/ (Len(Parts) = 4 /\ k \in {3, 4})
    <3>1. CASE Len(Parts) = 2
      <4>1. k \in 1..2
        BY <3>1
      <4> QED  BY <4>1
    <3>2. CASE Len(Parts) = 4
      <4>1. k \in 1..4
        BY <3>2
      <4> QED  BY <3>2, <4>1
    <3> QED  BY <1>6, <3>1, <3>2
  <2>2. CASE k = 1
    BY <1>6, <2>2
  <2>3. CASE k = 2
    BY <1>6, <2>3
  <2>4. CASE Len(Parts) = 4 /\ k = 3
    BY <1>6, <2>4
  <2>5. CASE Len(Parts) = 4 /\ k = 4
    BY <1>6, <2>5
  <2> QED  BY <2>1, <2>2, <2>3, <2>4, <2>5
<1>8. Parts # <<>>
  <2> SUFFICES ASSUME Parts = <<>> PROVE FALSE
    OBVIOUS
  <2>1. Len(Parts) = 0
    OBVIOUS
  <2> QED  BY <1>6, <2>1
<1> QED  BY <1>6, <1>7, <1>8


SdTurnRec == [pc : {"none", "message", "run", "append"}, made : 0..SdRefs]

SdTyped ==
  /\ sdLog \in [SdSession -> SdLogRec]
  /\ sdResults \in [SdSession -> SUBSET (1..SdRefs)]
  /\ sdTurn \in [SdSession -> SdTurnRec]
  /\ \A s \in SdSession : sdTurn[s].pc = "append" => sdTurn[s].made \in 1..SdRefs

\* While a session that is not tainted is deleted it has no turn, and between its events
\* and its results there is no log.
SdDeletes ==
  /\ Paired(sdDelete)
  /\ \A s \in SdSession \ sdTainted :
       /\ Deleting(s) => sdTurn[s].pc = "none"
       /\ sdDelete # <<>> /\ sdDelete[1] = [part |-> "results", of |-> s]
            => ~ sdLog[s].here /\ sdLog[s].refs = {}

\* A turn that runs has a log, what it is about to record is stored, and a session without
\* a log has no results unless they are being deleted.
SdLogged ==
  \A s \in SdSession \ sdTainted :
    /\ sdTurn[s].pc \in {"run", "append"} => sdLog[s].here
    /\ sdTurn[s].pc = "append" => sdTurn[s].made \in sdResults[s]
    /\ ~ sdLog[s].here => sdLog[s].refs = {}
    /\ ~ sdLog[s].here /\ ~ Deleting(s) /\ sdTurn[s].pc \in {"none", "message"} => sdResults[s] = {}
    /\ sdLog[s].refs \subseteq sdResults[s]

SdIInv == SdTyped /\ SdDeletes /\ SdLogged

LEMMA InitResults == SdInit => SdIInv
PROOF
<1> SUFFICES ASSUME SdInit PROVE SdIInv
  OBVIOUS
<1>1. SdTyped
  <2>1. NoLog \in SdLogRec
    BY DEF NoLog, SdLogRec
  <2>2. NoSdTurn \in SdTurnRec
    BY SdAssumption DEF NoSdTurn, SdTurnRec
  <2> QED  BY <2>1, <2>2 DEF SdInit, SdTyped, NoSdTurn
<1>2. SdDeletes
  <2>1. Paired(<<>>)
    BY DEF Paired
  <2>2. \A s \in SdSession : sdTurn[s].pc = "none"
    BY DEF SdInit, NoSdTurn
  <2> QED  BY <2>1, <2>2 DEF SdInit, SdDeletes
<1>3. SdLogged
  BY DEF SdInit, SdLogged, NoLog, NoSdTurn
<1> QED  BY <1>1, <1>2, <1>3 DEF SdIInv

\* A step of a turn.
LEMMA TurnsStep ==
  ASSUME SdIInv, NEW s \in SdSession,
         \/ StartSession(s) \/ AddMessage(s) \/ Materialize(s) \/ AppendResult(s)
         \/ EndSession(s) \/ BreakTurn(s)
  PROVE  SdIInv'
PROOF
<1>t. /\ SdTyped /\ SdDeletes /\ SdLogged
      /\ sdTurn[s] \in SdTurnRec /\ sdLog[s] \in SdLogRec /\ sdResults[s] \in SUBSET (1..SdRefs)
  BY DEF SdIInv, SdTyped
<1>1. CASE StartSession(s)
  <2>1. /\ sdTurn[s].pc = "none" /\ sdTurn' = [sdTurn EXCEPT ![s].pc = "message"]
        /\ sdTainted' = (IF Deleting(s) THEN sdTainted \cup {s} ELSE sdTainted)
        /\ UNCHANGED <<sdLog, sdResults, sdDelete>>
    BY <1>1 DEF StartSession
  <2>2. /\ sdTurn'[s].pc = "message" /\ \A q \in SdSession : q # s => sdTurn'[q] = sdTurn[q]
        /\ \A q \in SdSession : Deleting(q)' <=> Deleting(q)
    BY <1>t, <2>1 DEF SdTyped, SdTurnRec, Deleting
  <2>3. SdTyped'
    BY <1>t, <2>1 DEF SdTyped, SdTurnRec
  <2>4. SdDeletes' /\ SdLogged'
    BY <1>t, <2>1, <2>2 DEF SdDeletes, SdLogged
  <2> QED  BY <2>3, <2>4 DEF SdIInv
<1>2. CASE AddMessage(s)
  <2>1. /\ sdTurn[s].pc = "message" /\ sdTurn' = [sdTurn EXCEPT ![s].pc = "run"]
        /\ sdLog' = [sdLog EXCEPT ![s].here = TRUE]
        /\ UNCHANGED <<sdResults, sdDelete, sdTainted>>
    BY <1>2 DEF AddMessage
  <2>2. /\ sdTurn'[s].pc = "run" /\ sdLog'[s].here = TRUE /\ sdLog'[s].refs = sdLog[s].refs
        /\ \A q \in SdSession : q # s => sdTurn'[q] = sdTurn[q] /\ sdLog'[q] = sdLog[q]
        /\ \A q \in SdSession : Deleting(q)' <=> Deleting(q)
    BY <1>t, <2>1 DEF SdTyped, SdTurnRec, SdLogRec, Deleting
  <2>3. SdTyped'
    BY <1>t, <2>1 DEF SdTyped, SdTurnRec, SdLogRec
  <2>4. s \in sdTainted \/ ~ Deleting(s)
    BY <1>t, <2>1 DEF SdDeletes
  <2>5. SdDeletes'
    <3>1. sdDelete # <<>> => sdDelete[1] # [part |-> "results", of |-> s] \/ s \in sdTainted
      BY <1>t, <2>4, TailPaired DEF Deleting, SdDeletes
    <3> QED  BY <1>t, <2>1, <2>2, <2>4, <3>1 DEF SdDeletes
  <2>6. SdLogged'
    BY <1>t, <2>1, <2>2 DEF SdLogged
  <2> QED  BY <2>3, <2>5, <2>6 DEF SdIInv
<1>3. CASE Materialize(s)
  <2> DEFINE ref == sdTurn[s].made + 1
  <2>1. /\ sdTurn[s].pc = "run" /\ sdTurn[s].made < SdRefs
        /\ sdTurn' = [sdTurn EXCEPT ![s].pc = "append", ![s].made = ref]
        /\ sdResults' = [sdResults EXCEPT ![s] = @ \cup {ref}]
        /\ UNCHANGED <<sdLog, sdDelete, sdTainted>>
    BY <1>3 DEF Materialize, PutResult
  <2>2. ref \in 1..SdRefs
    BY <1>t, <2>1, SdAssumption DEF SdTurnRec
  <2> HIDE DEF ref
  <2>3. /\ sdTurn'[s].pc = "append" /\ sdTurn'[s].made = ref
        /\ sdResults'[s] = sdResults[s] \cup {ref}
        /\ \A q \in SdSession : q # s => sdTurn'[q] = sdTurn[q] /\ sdResults'[q] = sdResults[q]
        /\ \A q \in SdSession : Deleting(q)' <=> Deleting(q)
    BY <1>t, <2>1 DEF SdTyped, SdTurnRec, Deleting
  <2>4. SdTyped'
    <3> DEFINE turn == [sdTurn[s] EXCEPT !.pc = "append", !.made = ref]
    <3>0. turn \in SdTurnRec
      <4>1. ref \in 0..SdRefs
        BY <2>2
      <4> QED  BY <1>t, <4>1 DEF SdTurnRec
    <3>a. sdTurn' = [sdTurn EXCEPT ![s] = turn]
      BY <2>1
    <3> HIDE DEF turn
    <3>1. sdTurn' \in [SdSession -> SdTurnRec]
      BY <1>t, <3>0, <3>a DEF SdTyped
    <3>2. sdResults' \in [SdSession -> SUBSET (1..SdRefs)]
      BY <1>t, <2>1, <2>2 DEF SdTyped
    <3> QED  BY <1>t, <2>1, <2>2, <2>3, <3>1, <3>2 DEF SdTyped
  <2>5. SdDeletes'
    BY <1>t, <2>1, <2>3 DEF SdDeletes
  <2>6. SdLogged'
    <3> SUFFICES ASSUME NEW q \in SdSession \ sdTainted
                 PROVE  /\ sdTurn'[q].pc \in {"run", "append"} => sdLog[q].here
                        /\ sdTurn'[q].pc = "append" => sdTurn'[q].made \in sdResults'[q]
                        /\ ~ sdLog[q].here => sdLog[q].refs = {}
                        /\ ~ sdLog[q].here /\ ~ Deleting(q)' /\ sdTurn'[q].pc \in {"none", "message"}
                             => sdResults'[q] = {}
                        /\ sdLog[q].refs \subseteq sdResults'[q]
      BY <2>1 DEF SdLogged
    <3>1. CASE q = s
      BY <1>t, <2>1, <2>3, <3>1 DEF SdLogged
    <3>2. CASE q # s
      BY <1>t, <2>3, <3>2 DEF SdLogged
    <3> QED  BY <3>1, <3>2
  <2> QED  BY <2>4, <2>5, <2>6 DEF SdIInv
<1>4. CASE AppendResult(s)
  <2> DEFINE made == sdTurn[s].made
  <2>1. /\ sdTurn[s].pc = "append" /\ sdTurn' = [sdTurn EXCEPT ![s].pc = "run"]
        /\ sdLog' = [sdLog EXCEPT ![s].here = TRUE, ![s].refs = @ \cup {made}]
        /\ UNCHANGED <<sdResults, sdDelete, sdTainted>>
    BY <1>4 DEF AppendResult
  <2> HIDE DEF made
  <2>2. /\ sdTurn'[s].pc = "run" /\ sdLog'[s].here = TRUE
        /\ sdLog'[s].refs = sdLog[s].refs \cup {made}
        /\ \A q \in SdSession : q # s => sdTurn'[q] = sdTurn[q] /\ sdLog'[q] = sdLog[q]
        /\ \A q \in SdSession : Deleting(q)' <=> Deleting(q)
    BY <1>t, <2>1 DEF SdTyped, SdTurnRec, SdLogRec, Deleting
  <2>3. made \in sdResults[s] \/ s \in sdTainted
    BY <1>t, <2>1 DEF SdLogged, made
  <2>4. SdTyped'
    <3>1. made \in 1..SdRefs
      BY <1>t, <2>1 DEF SdTyped, made
    <3>2. sdLog' \in [SdSession -> SdLogRec]
      BY <1>t, <2>1, <3>1 DEF SdTyped, SdLogRec
    <3>3. sdTurn' \in [SdSession -> SdTurnRec]
      BY <1>t, <2>1 DEF SdTyped, SdTurnRec
    <3> QED  BY <1>t, <2>1, <2>2, <3>2, <3>3 DEF SdTyped
  <2>5. SdDeletes'
    <3>1. sdDelete # <<>> => sdDelete[1] # [part |-> "results", of |-> s] \/ s \in sdTainted
      BY <1>t, <2>1, TailPaired DEF Deleting, SdDeletes
    <3> QED  BY <1>t, <2>1, <2>2, <3>1, ZenonT(40) DEF SdDeletes
  <2>6. SdLogged'
    <3>1. s \notin sdTainted => sdLog'[s].refs \subseteq sdResults[s]
      BY <1>t, <2>2, <2>3 DEF SdLogged
    <3> QED  BY <1>t, <2>1, <2>2, <3>1, ZenonT(40) DEF SdLogged
  <2> QED  BY <2>4, <2>5, <2>6 DEF SdIInv
<1>5. CASE EndSession(s) \/ BreakTurn(s)
  <2>1. /\ sdTurn[s].pc # "none" /\ sdTurn' = Stopped(s)
        /\ UNCHANGED <<sdLog, sdResults, sdDelete, sdTainted>>
        /\ sdTurn[s].pc = "append" => TRUE
    BY <1>5 DEF EndSession, BreakTurn
  <2>2. /\ sdTurn'[s].pc = "none" /\ \A q \in SdSession : q # s => sdTurn'[q] = sdTurn[q]
        /\ \A q \in SdSession : Deleting(q)' <=> Deleting(q)
    BY <1>t, <2>1 DEF SdTyped, Stopped, Deleting
  <2>3. SdTyped'
    <3>1. [pc |-> "none", made |-> sdTurn[s].made] \in SdTurnRec
      BY <1>t DEF SdTurnRec
    <3> QED  BY <1>t, <2>1, <3>1 DEF SdTyped, Stopped
  <2>4. SdDeletes' /\ SdLogged'
    BY <1>t, <2>1, <2>2 DEF SdDeletes, SdLogged, SdTurnRec
  <2> QED  BY <2>3, <2>4 DEF SdIInv
<1> QED  BY <1>1, <1>2, <1>3, <1>4, <1>5

LEMMA ResultsStep == SdIInv /\ [SdNext]_sdVars => SdIInv'
PROOF
<1> SUFFICES ASSUME SdIInv, [SdNext]_sdVars PROVE SdIInv'
  OBVIOUS
<1>t. SdTyped /\ SdDeletes /\ SdLogged
  BY DEF SdIInv
<1>1. CASE DelegateOnce
  BY <1>t, <1>1 DEF DelegateOnce, SdIInv, SdTyped, SdDeletes, SdLogged, Deleting
<1>2. CASE DeleteSession
  <2>1. /\ sdDelete = <<>> /\ sdDelete' = Parts
        /\ sdTainted' = sdTainted \cup {s \in SdSession : sdTurn[s].pc # "none"}
                            \cup (IF sdTask = "active" \/ sdTurn["parent"].pc # "none"
                                  THEN {"child"} ELSE {})
        /\ UNCHANGED <<sdLog, sdResults, sdTurn>>
    BY <1>2 DEF DeleteSession
  <2>2. \A s \in SdSession \ sdTainted' : s \in SdSession \ sdTainted /\ sdTurn[s].pc = "none"
    BY <2>1
  <2>3. \A s \in SdSession : ~ Deleting(s)
    BY <2>1 DEF Deleting
  <2>4. Paired(sdDelete)' /\ sdDelete'[1].part = "events"
    BY <2>1, PartsPaired DEF Paired
  <2>5. SdDeletes' /\ SdLogged'
    BY <1>t, <2>1, <2>2, <2>3, <2>4 DEF SdDeletes, SdLogged
  <2> QED  BY <1>t, <2>1, <2>5 DEF SdIInv, SdTyped
<1>3. CASE DeletePart
  <2> DEFINE next == sdDelete[1]
  <2>1. /\ sdDelete # <<>> /\ Head(sdDelete) = next /\ next \in DPart /\ Len(sdDelete) \in Nat \ {0}
        /\ sdDelete' = Tail(sdDelete) /\ UNCHANGED <<sdTurn, sdTainted>>
        /\ Paired(sdDelete)' /\ Len(sdDelete') = Len(sdDelete) - 1
        /\ \A k \in 1..Len(sdDelete') : sdDelete'[k] = sdDelete[k + 1]
    BY <1>t, <1>3, TailPaired DEF DeletePart, SdDeletes
  <2>2. /\ next.part = "events" => Len(sdDelete) > 1 /\ sdDelete[2] = [part |-> "results", of |-> next.of]
        /\ Len(sdDelete) > 1 /\ sdDelete[2].part = "results" => next.part = "events"
    <3>1. 1 \in 1..Len(sdDelete) /\ (Len(sdDelete) > 1 => 2 \in 1..Len(sdDelete))
      BY <2>1
    <3>2. next.part = "events" => 1 < Len(sdDelete) /\ sdDelete[1 + 1] = [part |-> "results", of |-> next.of]
      BY <1>t, <3>1 DEF SdDeletes, Paired
    <3>3. Len(sdDelete) > 1 /\ sdDelete[2].part = "results" => sdDelete[1].part = "events"
      <4>1. \A k \in 1..Len(sdDelete) :
              sdDelete[k].part = "results" /\ k > 1 => sdDelete[k - 1].part = "events"
        BY <1>t DEF SdDeletes, Paired
      <4>2. 2 - 1 = 1 /\ 2 > 1
        OBVIOUS
      <4> QED  BY <3>1, <4>1, <4>2
    <3> QED  BY <2>1, <3>2, <3>3
  <2>3. \A s \in SdSession : Deleting(s)' => Deleting(s)
    BY <2>1 DEF Deleting
  <2>a. PICK gone \in SdSession : gone = next.of
    BY <2>1 DEF DPart
  <2>4. \A s \in SdSession : Deleting(s) => Deleting(s)' \/ s = gone
    <3> SUFFICES ASSUME NEW s \in SdSession, NEW k \in 1..Len(sdDelete), sdDelete[k].of = s, s # gone
                 PROVE  Deleting(s)'
      BY DEF Deleting
    <3>1. k - 1 \in 1..Len(sdDelete') /\ sdDelete'[k - 1] = sdDelete[k]
      BY <2>1, <2>a
    <3> QED  BY <3>1 DEF Deleting
  <2>5. Deleting(gone)
    BY <2>1, <2>a DEF Deleting
  <2>6. next.part \in {"events", "results"}
    BY <2>1 DEF DPart
  <2>7. CASE next.part = "events"
    <3>1. sdLog' = [sdLog EXCEPT ![gone] = NoLog] /\ UNCHANGED sdResults
      BY <1>3, <2>1, <2>a, <2>7 DEF DeletePart
    <3>2. sdDelete'[1] = [part |-> "results", of |-> gone] /\ Deleting(gone)'
      <4>1. 1 \in 1..Len(sdDelete') /\ sdDelete'[1] = sdDelete[2]
        BY <2>1, <2>2, <2>7
      <4> QED  BY <2>2, <2>a, <2>7, <4>1 DEF Deleting
    <3> HIDE DEF next
    <3>3. /\ ~ sdLog'[gone].here /\ sdLog'[gone].refs = {}
          /\ \A s \in SdSession : s # gone => sdLog'[s] = sdLog[s]
      BY <1>t, <2>6, <3>1 DEF SdTyped, NoLog
    <3>4. SdTyped'
      <4>1. NoLog \in SdLogRec
        BY DEF NoLog, SdLogRec
      <4> QED  BY <1>t, <2>1, <3>1, <4>1 DEF SdTyped
    <3>5. SdDeletes'
      BY <1>t, <2>1, <2>3, <3>2, <3>3 DEF SdDeletes
    <3>6. SdLogged'
      <4> SUFFICES ASSUME NEW s \in SdSession \ sdTainted
                   PROVE  /\ sdTurn[s].pc \in {"run", "append"} => sdLog'[s].here
                          /\ sdTurn[s].pc = "append" => sdTurn[s].made \in sdResults[s]
                          /\ ~ sdLog'[s].here => sdLog'[s].refs = {}
                          /\ ~ sdLog'[s].here /\ ~ Deleting(s)' /\ sdTurn[s].pc \in {"none", "message"}
                               => sdResults[s] = {}
                          /\ sdLog'[s].refs \subseteq sdResults[s]
        BY <2>1, <3>1 DEF SdLogged
      <4>1. CASE s = gone
        <5>1. Deleting(s) /\ Deleting(s)'
          BY <2>5, <3>2, <4>1
        <5>2. sdTurn[s].pc = "none"
          BY <1>t, <5>1 DEF SdDeletes
        <5> QED  BY <3>3, <4>1, <5>1, <5>2
      <4>2. CASE s # gone
        BY <1>t, <2>4, <3>3, <4>2 DEF SdLogged
      <4> QED  BY <4>1, <4>2
    <3> QED  BY <3>4, <3>5, <3>6 DEF SdIInv
  <2>8. CASE next.part = "results"
    <3>1. sdResults' = [sdResults EXCEPT ![gone] = {}] /\ UNCHANGED sdLog
      BY <1>3, <2>1, <2>a, <2>8 DEF DeletePart
    <3>2. sdDelete' # <<>> => sdDelete'[1].part # "results"
      <4> SUFFICES ASSUME sdDelete' # <<>>, sdDelete'[1].part = "results" PROVE FALSE
        OBVIOUS
      <4>1. Len(sdDelete) > 1
        BY <2>1 DEF Paired
      <4> QED  BY <2>1, <2>2, <2>8, <4>1
    <3>3. next = [part |-> "results", of |-> gone]
      BY <2>1, <2>a, <2>8 DEF DPart
    <3>4. gone \in sdTainted
          \/ (~ sdLog[gone].here /\ sdLog[gone].refs = {} /\ sdTurn[gone].pc = "none")
      BY <1>t, <2>1, <2>5, <2>6, <3>3 DEF SdDeletes
    <3> HIDE DEF next
    <3>5. /\ sdResults'[gone] = {}
          /\ \A s \in SdSession : s # gone => sdResults'[s] = sdResults[s]
      BY <1>t, <2>6, <3>1 DEF SdTyped
    <3>6. SdTyped'
      BY <1>t, <2>1, <3>1 DEF SdTyped
    <3>7. SdDeletes'
      BY <1>t, <2>1, <2>3, <3>1, <3>2 DEF SdDeletes
    <3>8. SdLogged'
      BY <1>t, <2>1, <2>4, <3>1, <3>4, <3>5 DEF SdLogged
    <3> QED  BY <3>6, <3>7, <3>8 DEF SdIInv
  <2> QED  BY <2>6, <2>7, <2>8
<1>4. CASE BreakDelete
  <2>1. /\ sdTainted' = sdTainted \cup {s \in SdSession : Deleting(s)} /\ sdDelete' = <<>>
        /\ UNCHANGED <<sdLog, sdResults, sdTurn>>
    BY <1>4 DEF BreakDelete
  <2>2. \A s \in SdSession \ sdTainted' : s \in SdSession \ sdTainted /\ ~ Deleting(s)
    BY <2>1
  <2>3. (\A s \in SdSession : ~ Deleting(s)') /\ Paired(sdDelete)'
    BY <2>1 DEF Deleting, Paired
  <2> QED  BY <1>t, <2>1, <2>2, <2>3 DEF SdIInv, SdTyped, SdDeletes, SdLogged
<1>5. CASE UNCHANGED sdVars
  BY <1>t, <1>5 DEF sdVars, SdIInv, SdTyped, SdDeletes, SdLogged, Deleting
<1> QED  BY <1>1, <1>2, <1>3, <1>4, <1>5, TurnsStep DEF SdNext

\* However many results and turns, and wherever a turn or a deletion breaks: unless a
\* session is deleted while it runs or not to the end, what its log refers to is stored,
\* and without a log it leaves no results behind.
THEOREM ResultsKept == SdSpec => []ResultsResolve
PROOF
<1>1. SdIInv => ResultsResolve
  BY DEF SdIInv, SdLogged, ResultsResolve
<1> QED  BY InitResults, ResultsStep, <1>1, PTL DEF SdSpec

\* What SdIInv does not say of the types.
SdRest ==
  sdTask \in {"none", "active", "ended"} /\ sdTainted \subseteq SdSession /\ sdFaults \in 0..SdFaults

LEMMA InitSdRest == SdInit => SdRest
BY SdAssumption DEF SdInit, SdRest

LEMMA SdRestStep == SdRest /\ [SdNext]_sdVars => SdRest'
PROOF
<1> SUFFICES ASSUME SdRest, [SdNext]_sdVars PROVE SdRest'
  OBVIOUS
<1>f. SdFaults \in Nat /\ (sdFaults < SdFaults => sdFaults + 1 \in 0..SdFaults)
  BY SdAssumption DEF SdRest
<1>1. ASSUME NEW s \in SdSession,
             \/ StartSession(s) \/ AddMessage(s) \/ Materialize(s) \/ AppendResult(s)
             \/ EndSession(s) \/ BreakTurn(s)
      PROVE  SdRest'
  BY <1>1, <1>f
     DEF SdRest, StartSession, AddMessage, Materialize, AppendResult, EndSession, BreakTurn
<1>2. CASE DelegateOnce
  BY <1>2 DEF SdRest, DelegateOnce
<1>3. CASE DeleteSession
  <2>1. "child" \in SdSession
    BY DEF SdSession
  <2> QED  BY <1>3, <2>1 DEF SdRest, DeleteSession
<1>4. CASE DeletePart
  BY <1>4 DEF SdRest, DeletePart
<1>5. CASE BreakDelete
  BY <1>5, <1>f DEF SdRest, BreakDelete
<1>6. CASE UNCHANGED sdVars
  BY <1>6 DEF SdRest, sdVars
<1> QED  BY <1>1, <1>2, <1>3, <1>4, <1>5, <1>6 DEF SdNext

LEMMA SdTypes == SdIInv /\ SdRest => SdTypeOK
PROOF
<1> SUFFICES ASSUME SdIInv, SdRest PROVE SdTypeOK
  OBVIOUS
<1>1. \A k \in 1..Len(sdDelete) : sdDelete[k] \in DPart
  BY DEF SdIInv, SdDeletes, Paired
<1> QED  BY <1>1 DEF SdIInv, SdTyped, SdTurnRec, SdRest, DPart, SdTypeOK

\* The logs, the results, the turns and the deletion have their types.
THEOREM ResultsTyped == SdSpec => []SdTypeOK
BY InitResults, ResultsStep, InitSdRest, SdRestStep, SdTypes, PTL DEF SdSpec

---------------------------------------------------------------------------
(* Models *)

ModTyped ==
  /\ modMem \in [ModId -> ModRow] /\ modFile \in [ModId -> ModRow]
  /\ modSecret \subseteq ModId
  /\ modRouter \in [ModId -> ModAdapter]
  /\ modAdmin \in [ModAdmin -> {"idle", "save", "reload", "assign", "swap", "done"}]
  /\ modRead \in [ModAdmin -> [ModId -> ModRow]]
  /\ modCrashed \in 0..ModCrashes

Configuring(a) == modAdmin[a] \notin {"idle", "done"}

\* One change is under way; what it has read, the registry before it replaces the router,
\* and the registry whenever there is none, are what the files say.
InOrder ==
  /\ \A a, b \in ModAdmin : Configuring(a) /\ Configuring(b) => a = b
  /\ \A a \in ModAdmin : modAdmin[a] = "assign" => modRead[a] \in EnsuredDefault(Loaded)
  /\ \A a \in ModAdmin : modAdmin[a] = "swap" => modMem \in EnsuredDefault(Loaded)
  /\ NothingConfigured => modMem \in EnsuredDefault(Loaded) /\ modRouter = RouterOf(modMem)

\* So it is from a change that begins alone until one begins that does not.
Serial == modOverlap \/ InOrder

\* A turn that still calls has retries left.
TurnTyped ==
  modTurn \in ModTurns /\ (modTurn.pc \in {"resolved", "calling"} => modTurn.calls \in 0..ModRetries)

\* The model takes no images, or one that does and has a like id has no key.
Unseen ==
  /\ modTurn.image
  /\ \/ ~ modMem[modTurn.model].image
     \/ \E n \in Likes(modTurn.model) : ~ modMem[n].key

\* A model resolved while nothing was configured can still be called, and a turn reaches
\* no other without an image.
CalmTurn ==
  /\ modTurn.pc = "idle" => modTurn.adapter = NoMod
  /\ modTurn.calm /\ modTurn.pc # "idle" =>
       /\ NothingConfigured /\ ~ modOverlap /\ modTurn.model \in Callable(modMem)
       /\ \/ modTurn.adapter \in {NoMod, modTurn.model}
          \/ modTurn.image /\ modTurn.adapter \in Likes(modTurn.model)
       /\ modTurn.pc = "unrouted" => Unseen

ModIInv == ModTyped /\ Serial

LEMMA EnsuredTyped ==
  ASSUME NEW ms \in [ModId -> ModRow]
  PROVE  EnsuredDefault(ms) \subseteq [ModId -> ModRow]
PROOF
<1>1. \A c \in ModId : MadeDefault(ms, c) \in [ModId -> ModRow]
  <2> SUFFICES ASSUME NEW c \in ModId, NEW m \in ModId
               PROVE  [ms[m] EXCEPT !.default = ms[m].here /\ m = c] \in ModRow
    BY DEF MadeDefault
  <2> DEFINE d == ms[m].here /\ m = c
  <2>1. d \in BOOLEAN /\ ms[m] \in ModRow
    OBVIOUS
  <2> HIDE DEF d
  <2> QED  BY <2>1 DEF ModRow
<1>2. Enabled(ms) \subseteq ModId /\ DefaultOf(ms) \subseteq ModId
  BY DEF Enabled, DefaultOf
<1> QED  BY <1>1, <1>2 DEF EnsuredDefault

\* _ensure_default leaves one default when a model is enabled.
LEMMA OneDefault ==
  ASSUME NEW ms \in [ModId -> ModRow], NEW x \in EnsuredDefault(ms), Enabled(x) # {}
  PROVE  Cardinality(DefaultOf(x)) = 1
PROOF
<1>1. CASE x = ms
  <2>1. CASE Cardinality(DefaultOf(ms)) = 1
    BY <1>1, <2>1
  <2>2. CASE Cardinality(DefaultOf(ms)) # 1
    <3>1. PICK c \in Enabled(ms) : x = MadeDefault(ms, c)
      BY <1>1, <2>2 DEF EnsuredDefault, DefaultOf
    <3>2. DefaultOf(x) = {c}
      BY <3>1 DEF MadeDefault, DefaultOf, Enabled, ModRow
    <3> QED  BY <3>2, FS_Singleton
  <2> QED  BY <2>1, <2>2
<1>2. CASE x # ms
  <2>1. PICK c \in Enabled(ms) : x = MadeDefault(ms, c)
    BY <1>2 DEF EnsuredDefault, DefaultOf
  <2>2. DefaultOf(x) = {c}
    BY <2>1 DEF MadeDefault, DefaultOf, Enabled, ModRow
  <2> QED  BY <2>2, FS_Singleton
<1> QED  BY <1>1, <1>2

LEMMA LoadedTyped == ModTyped => Loaded \in [ModId -> ModRow]
PROOF
<1> SUFFICES ASSUME ModTyped, NEW m \in ModId
             PROVE  [modFile[m] EXCEPT !.key = modFile[m].here /\ m \in modSecret] \in ModRow
  BY DEF Loaded
<1> DEFINE k == modFile[m].here /\ m \in modSecret
<1>1. k \in BOOLEAN /\ modFile[m] \in ModRow
  BY DEF ModTyped
<1> HIDE DEF k
<1> QED  BY <1>1 DEF ModRow

LEMMA NoModelsTyped == NoModel \in ModRow /\ NoModels \in [ModId -> ModRow]
PROOF
<1>1. NoModel \in ModRow
  BY DEF NoModel, ModRow
<1> QED  BY <1>1 DEF NoModels

LEMMA NoTurnTyped == NoTurn \in ModTurns /\ NoTurn.pc = "idle"
PROOF
<1>1. 0 \in 0..(ModRetries + 1)
  BY ModAssumption
<1> QED  BY <1>1 DEF NoTurn, ModTurns

\* A router has an adapter record for every model.
LEMMA RouterTyped ==
  ASSUME NEW ms \in [ModId -> ModRow]
  PROVE  RouterOf(ms) \in [ModId -> ModAdapter]
PROOF
<1> DEFINE at(m) == IF m \notin Enabled(ms) THEN [kind |-> "none", image |-> FALSE]
                    ELSE [kind |-> IF ms[m].key THEN "live" ELSE "nokey", image |-> ms[m].image]
<1>1. ASSUME NEW m \in ModId PROVE at(m) \in ModAdapter
  <2>1. ms[m].image \in BOOLEAN
    BY DEF ModRow
  <2> QED  BY <2>1 DEF ModAdapter
<1>2. RouterOf(ms) = [m \in ModId |-> at(m)]
  BY DEF RouterOf
<1> HIDE DEF at
<1> QED  BY <1>1, <1>2

LEMMA InitModels == ModInit => ModIInv /\ TurnTyped /\ CalmTurn
PROOF
<1> SUFFICES ASSUME ModInit PROVE ModIInv /\ TurnTyped /\ CalmTurn
  OBVIOUS
<1>1. ModTyped
  <2>1. [kind |-> "none", image |-> FALSE] \in ModAdapter /\ 0 \in 0..ModCrashes
    BY ModAssumption DEF ModAdapter
  <2> QED  BY <2>1, NoModelsTyped DEF ModInit, ModTyped
<1>2. modMem = [m \in ModId |-> NoModel] /\ modFile = modMem /\ modSecret = {}
      /\ modRouter = [m \in ModId |-> [kind |-> "none", image |-> FALSE]]
  BY DEF ModInit, NoModels
<1>3. Loaded = modMem
  <2>1. ASSUME NEW m \in ModId PROVE Loaded[m] = modMem[m]
    <3>1. Loaded[m] = [modFile[m] EXCEPT !.key = modFile[m].here /\ m \in modSecret]
      BY DEF Loaded
    <3>2. modFile[m] = NoModel /\ modMem[m] = NoModel
      BY <1>2
    <3> DEFINE key == modFile[m].here /\ m \in modSecret
    <3>3. key = FALSE
      BY <1>2, <3>2 DEF NoModel
    <3>4. Loaded[m] = [NoModel EXCEPT !.key = key]
      BY <3>1, <3>2
    <3> HIDE DEF key
    <3>5. [NoModel EXCEPT !.key = FALSE] = NoModel
      <4>1. \A no : [[here |-> no, enabled |-> no, default |-> no, image |-> no, key |-> no]
                       EXCEPT !.key = no]
                     = [here |-> no, enabled |-> no, default |-> no, image |-> no, key |-> no]
        OBVIOUS
      <4> QED  BY <4>1 DEF NoModel
    <3> QED  BY <3>2, <3>3, <3>4, <3>5
  <2>3. Loaded \in [ModId -> ModRow] /\ modMem \in [ModId -> ModRow]
    BY <1>1, LoadedTyped DEF ModTyped
  <2> HIDE DEF Loaded
  <2> QED  BY <2>1, <2>3
<1>4. Enabled(modMem) = {}
  BY <1>2 DEF Enabled, NoModel
<1>5. modMem \in EnsuredDefault(Loaded) /\ modRouter = RouterOf(modMem)
  BY <1>2, <1>3, <1>4 DEF EnsuredDefault, RouterOf
<1>6. Serial
  BY <1>5 DEF ModInit, Serial, InOrder, Configuring
<1>7. CalmTurn
  BY DEF ModInit, CalmTurn, NoTurn
<1>8. TurnTyped
  BY NoTurnTyped DEF ModInit, TurnTyped
<1> QED  BY <1>1, <1>6, <1>7, <1>8 DEF ModIInv

\* The registry with row m written by an administrator.
LEMMA ModelRowWritten ==
  ASSUME ModTyped, NEW m \in ModId, NEW row \in ModRow
  PROVE  [(IF row.default THEN Cleared(modMem) ELSE modMem) EXCEPT ![m] = row] \in [ModId -> ModRow]
PROOF
<1>1. modMem \in [ModId -> ModRow]
  BY DEF ModTyped
<1>2. Cleared(modMem) \in [ModId -> ModRow]
  BY <1>1 DEF Cleared, ModRow
<1> DEFINE before == IF row.default THEN Cleared(modMem) ELSE modMem
<1>3. before \in [ModId -> ModRow]
  BY <1>1, <1>2
<1> HIDE DEF before
<1>4. [before EXCEPT ![m] = row] \in [ModId -> ModRow]
  BY <1>3
<1> QED  BY <1>4 DEF before

\* What an administrator does first, whichever row it changes.
ModelsEdit(a, ms) ==
  /\ AdminBegins(a)
  /\ modMem' \in EnsuredDefault(ms)
  /\ modSecret' \subseteq ModId
  /\ UNCHANGED <<modFile, modRouter, modRead, modCrashed>>

LEMMA EditsModels ==
  ASSUME ModTyped, NEW a \in ModAdmin, NEW m \in ModId,
         \/ \E row \in ModRow : CreateModel(a, m, row) \/ UpdateModel(a, m, row)
         \/ DeleteModel(a, m)
  PROVE  \E ms \in [ModId -> ModRow] : ModelsEdit(a, ms)
PROOF
<1>t. modMem \in [ModId -> ModRow] /\ modSecret \subseteq ModId
  BY DEF ModTyped
<1>1. ASSUME NEW row \in ModRow, CreateModel(a, m, row) \/ UpdateModel(a, m, row)
      PROVE  \E ms \in [ModId -> ModRow] : ModelsEdit(a, ms)
  <2> DEFINE ms == [(IF row.default THEN Cleared(modMem) ELSE modMem) EXCEPT ![m] = row]
  <2>1. /\ AdminBegins(a) /\ modMem' \in EnsuredDefault(ms)
        /\ modSecret' = IF row.key THEN modSecret \cup {m} ELSE modSecret
        /\ UNCHANGED <<modFile, modRouter, modRead, modCrashed>>
    BY <1>1 DEF CreateModel, UpdateModel
  <2>2. ms \in [ModId -> ModRow]
    BY ModelRowWritten
  <2> HIDE DEF ms
  <2>3. ModelsEdit(a, ms)
    BY <1>t, <2>1 DEF ModelsEdit
  <2> QED  BY <2>2, <2>3
<1>2. CASE DeleteModel(a, m)
  <2> DEFINE ms == [modMem EXCEPT ![m] = NoModel]
  <2>1. /\ AdminBegins(a) /\ modMem' \in EnsuredDefault(ms) /\ modSecret' = modSecret \ {m}
        /\ UNCHANGED <<modFile, modRouter, modRead, modCrashed>>
    BY <1>2 DEF DeleteModel
  <2>2. ms \in [ModId -> ModRow]
    BY <1>t, NoModelsTyped
  <2> HIDE DEF ms
  <2>3. ModelsEdit(a, ms)
    BY <1>t, <2>1 DEF ModelsEdit
  <2> QED  BY <2>2, <2>3
<1> QED  BY <1>1, <1>2

\* Types are kept also when changes overlap.
LEMMA ModTypedStep == ModTyped /\ [ModNext]_modVars => ModTyped'
PROOF
<1> SUFFICES ASSUME ModTyped, [ModNext]_modVars PROVE ModTyped'
  OBVIOUS
<1> DEFINE Pc == {"idle", "save", "reload", "assign", "swap", "done"}
<1>t. /\ modMem \in [ModId -> ModRow] /\ modFile \in [ModId -> ModRow] /\ modSecret \subseteq ModId
      /\ modRouter \in [ModId -> ModAdapter] /\ modAdmin \in [ModAdmin -> Pc]
      /\ modRead \in [ModAdmin -> [ModId -> ModRow]] /\ modCrashed \in 0..ModCrashes
  BY DEF ModTyped
<1>l. EnsuredDefault(Loaded) \subseteq [ModId -> ModRow]
  BY LoadedTyped, EnsuredTyped
<1>1. ASSUME NEW a \in ModAdmin, NEW ms \in [ModId -> ModRow], ModelsEdit(a, ms) PROVE ModTyped'
  <2>1. modMem' \in [ModId -> ModRow] /\ modSecret' \subseteq ModId
        /\ UNCHANGED <<modFile, modRouter, modRead, modCrashed>>
    BY <1>1, EnsuredTyped DEF ModelsEdit
  <2>2. modAdmin' = [modAdmin EXCEPT ![a] = "save"]
    BY <1>1 DEF ModelsEdit, AdminBegins
  <2> QED  BY <1>t, <2>1, <2>2 DEF ModTyped
<1>2. ASSUME NEW a \in ModAdmin, SaveModels(a) PROVE ModTyped'
  <2>1. /\ modAdmin' = [modAdmin EXCEPT ![a] = "reload"]
        /\ modFile' = [m \in ModId |-> [modMem[m] EXCEPT !.key = FALSE]]
        /\ UNCHANGED <<modMem, modSecret, modRouter, modRead, modCrashed>>
    BY <1>2 DEF SaveModels
  <2>2. ASSUME NEW m \in ModId PROVE [modMem[m] EXCEPT !.key = FALSE] \in ModRow
    <3>1. modMem[m] \in ModRow
      BY <1>t
    <3> QED  BY <3>1 DEF ModRow
  <2> QED  BY <1>t, <2>1, <2>2 DEF ModTyped
<1>3. ASSUME NEW a \in ModAdmin, ReadModels(a) PROVE ModTyped'
  <2>1. PICK ms \in EnsuredDefault(Loaded) : modRead' = [modRead EXCEPT ![a] = ms]
    BY <1>3 DEF ReadModels
  <2>2. modAdmin' = [modAdmin EXCEPT ![a] = "assign"]
        /\ UNCHANGED <<modMem, modFile, modSecret, modRouter, modCrashed>>
    BY <1>3 DEF ReadModels
  <2>3. ms \in [ModId -> ModRow]
    BY <1>l
  <2> QED  BY <1>t, <2>1, <2>2, <2>3 DEF ModTyped
<1>4. ASSUME NEW a \in ModAdmin, AssignModels(a) PROVE ModTyped'
  BY <1>4, <1>t, NoModelsTyped DEF AssignModels, ModTyped
<1>5. ASSUME NEW a \in ModAdmin, SwapRouter(a) PROVE ModTyped'
  BY <1>5, <1>t, RouterTyped DEF SwapRouter, ModTyped
<1>6. CASE RestartModels
  <2>1. /\ modMem' \in [ModId -> ModRow] /\ modRouter' = RouterOf(modMem')
        /\ modAdmin' = [a \in ModAdmin |-> IF modAdmin[a] = "idle" THEN "idle" ELSE "done"]
        /\ modRead' = [a \in ModAdmin |-> NoModels]
        /\ modCrashed < ModCrashes /\ modCrashed' = modCrashed + 1
        /\ UNCHANGED <<modFile, modSecret>>
    BY <1>6, <1>l DEF RestartModels
  <2>2. modRouter' \in [ModId -> ModAdapter]
    BY <2>1, RouterTyped
  <2>3. modAdmin' \in [ModAdmin -> Pc] /\ modRead' \in [ModAdmin -> [ModId -> ModRow]]
    BY <2>1, NoModelsTyped
  <2>4. modCrashed' \in 0..ModCrashes
    BY <1>t, <2>1, ModAssumption
  <2> QED  BY <1>t, <2>1, <2>2, <2>3, <2>4 DEF ModTyped
<1>7. CASE UNCHANGED <<modMem, modFile, modSecret, modRouter, modAdmin, modRead, modCrashed>>
  BY <1>7 DEF ModTyped
<1> QED
  BY <1>1, <1>2, <1>3, <1>4, <1>5, <1>6, <1>7, EditsModels
  DEF ModNext, ResolveModel, RouteTurn, CallModel, NextTurn, modVars

\* While the files stay, so does what reload may make of them.
LEMMA FilesKept ==
  ASSUME UNCHANGED <<modFile, modSecret>> PROVE EnsuredDefault(Loaded)' = EnsuredDefault(Loaded)
PROOF
<1>1. Loaded' = Loaded
  BY DEF Loaded
<1> QED  BY <1>1 DEF EnsuredDefault, Enabled, DefaultOf, MadeDefault

\* An administrator goes on.
LEMMA AdminAlone ==
  ASSUME InOrder, NEW a \in ModAdmin, Configuring(a)
  PROVE  ~ NothingConfigured /\ \A b \in ModAdmin : b # a => modAdmin[b] \in {"idle", "done"}
PROOF BY DEF InOrder, Configuring, NothingConfigured

LEMMA SerialStep == ModIInv /\ [ModNext]_modVars => Serial'
PROOF
<1> SUFFICES ASSUME ModIInv, [ModNext]_modVars PROVE Serial'
  OBVIOUS
<1>t. ModTyped /\ Serial
  BY DEF ModIInv
<1>1. ASSUME NEW a \in ModAdmin, NEW ms \in [ModId -> ModRow], ModelsEdit(a, ms) PROVE Serial'
  <2>1. modAdmin' = [modAdmin EXCEPT ![a] = "save"] /\ modOverlap' = ~ NothingConfigured
    BY <1>1 DEF ModelsEdit, AdminBegins
  <2>2. CASE NothingConfigured
    <3>1. \A b \in ModAdmin : modAdmin[b] \in {"idle", "done"}
      BY <2>2 DEF NothingConfigured
    <3>2. modAdmin'[a] = "save" /\ \A b \in ModAdmin : b # a => modAdmin'[b] \in {"idle", "done"}
      BY <1>t, <2>1, <3>1 DEF ModTyped
    <3>3. InOrder'
      BY <3>2 DEF InOrder, Configuring, NothingConfigured
    <3> QED  BY <3>3 DEF Serial
  <2>3. CASE ~ NothingConfigured
    BY <2>1, <2>3 DEF Serial
  <2> QED  BY <2>2, <2>3
<1>2. ASSUME InOrder, NEW a \in ModAdmin, SaveModels(a) PROVE InOrder'
  <2>1. modAdmin[a] = "save" /\ modAdmin' = [modAdmin EXCEPT ![a] = "reload"]
    BY <1>2 DEF SaveModels
  <2>2. modAdmin'[a] = "reload" /\ \A b \in ModAdmin : b # a => modAdmin'[b] \in {"idle", "done"}
    BY <1>t, <1>2, <2>1, AdminAlone DEF ModTyped, Configuring
  <2> QED  BY <2>2 DEF InOrder, Configuring, NothingConfigured
<1>3. ASSUME InOrder, NEW a \in ModAdmin, ReadModels(a) PROVE InOrder'
  <2>1. /\ modAdmin[a] = "reload" /\ modAdmin' = [modAdmin EXCEPT ![a] = "assign"]
        /\ UNCHANGED <<modFile, modSecret>>
        /\ \E ms \in EnsuredDefault(Loaded) : modRead' = [modRead EXCEPT ![a] = ms]
    BY <1>3 DEF ReadModels
  <2>2. modAdmin'[a] = "assign" /\ \A b \in ModAdmin : b # a => modAdmin'[b] \in {"idle", "done"}
    BY <1>t, <1>3, <2>1, AdminAlone DEF ModTyped, Configuring
  <2>3. modRead'[a] \in EnsuredDefault(Loaded)
    BY <1>t, <2>1 DEF ModTyped
  <2>4. EnsuredDefault(Loaded)' = EnsuredDefault(Loaded)
    BY <2>1, FilesKept
  <2> QED  BY <2>2, <2>3, <2>4 DEF InOrder, Configuring, NothingConfigured
<1>4. ASSUME InOrder, NEW a \in ModAdmin, AssignModels(a) PROVE InOrder'
  <2>1. /\ modAdmin[a] = "assign" /\ modAdmin' = [modAdmin EXCEPT ![a] = "swap"]
        /\ modMem' = modRead[a] /\ UNCHANGED <<modFile, modSecret>>
    BY <1>4 DEF AssignModels
  <2>2. modAdmin'[a] = "swap" /\ \A b \in ModAdmin : b # a => modAdmin'[b] \in {"idle", "done"}
    BY <1>t, <1>4, <2>1, AdminAlone DEF ModTyped, Configuring
  <2>3. modMem' \in EnsuredDefault(Loaded)
    BY <1>t, <1>4, <2>1 DEF InOrder
  <2>4. EnsuredDefault(Loaded)' = EnsuredDefault(Loaded)
    BY <2>1, FilesKept
  <2> QED  BY <2>2, <2>3, <2>4 DEF InOrder, Configuring, NothingConfigured
<1>5. ASSUME InOrder, NEW a \in ModAdmin, SwapRouter(a) PROVE InOrder'
  <2>1. /\ modAdmin[a] = "swap" /\ modAdmin' = [modAdmin EXCEPT ![a] = "done"]
        /\ modRouter' = RouterOf(modMem) /\ UNCHANGED <<modMem, modFile, modSecret>>
    BY <1>5 DEF SwapRouter
  <2>2. \A b \in ModAdmin : modAdmin'[b] \in {"idle", "done"}
    BY <1>t, <1>5, <2>1, AdminAlone DEF ModTyped, Configuring
  <2>3. modMem \in EnsuredDefault(Loaded)
    BY <1>t, <1>5, <2>1 DEF InOrder
  <2>4. EnsuredDefault(Loaded)' = EnsuredDefault(Loaded)
    BY <2>1, FilesKept
  <2>5. RouterOf(modMem)' = RouterOf(modMem)
    BY <2>1 DEF RouterOf, Enabled
  <2> QED  BY <2>1, <2>2, <2>3, <2>4, <2>5 DEF InOrder, Configuring
<1>6. ASSUME RestartModels PROVE InOrder'
  <2>1. /\ modMem' \in EnsuredDefault(Loaded) /\ modRouter' = RouterOf(modMem')
        /\ modAdmin' = [a \in ModAdmin |-> IF modAdmin[a] = "idle" THEN "idle" ELSE "done"]
        /\ UNCHANGED <<modFile, modSecret>>
    BY <1>6 DEF RestartModels
  <2>2. EnsuredDefault(Loaded)' = EnsuredDefault(Loaded)
    BY <2>1, FilesKept
  <2>3. (modRouter = RouterOf(modMem))'
    BY <2>1 DEF RouterOf, Enabled
  <2>4. \A a \in ModAdmin : modAdmin'[a] \in {"idle", "done"}
    BY <2>1
  <2> QED  BY <2>1, <2>2, <2>3, <2>4 DEF InOrder, Configuring
<1>7. ASSUME InOrder, UNCHANGED <<modMem, modFile, modSecret, modRouter, modAdmin, modRead>>
      PROVE  InOrder'
  <2>1. EnsuredDefault(Loaded)' = EnsuredDefault(Loaded)
    BY <1>7, FilesKept
  <2>2. RouterOf(modMem)' = RouterOf(modMem)
    BY <1>7 DEF RouterOf, Enabled
  <2> QED  BY <1>7, <2>1, <2>2 DEF InOrder, Configuring, NothingConfigured
<1>8. CASE modOverlap /\ UNCHANGED modOverlap
  BY <1>8 DEF Serial
<1>9. CASE InOrder /\ UNCHANGED modOverlap
  <2>1. \A a \in ModAdmin : SaveModels(a) \/ ReadModels(a) \/ AssignModels(a) \/ SwapRouter(a) => InOrder'
    BY <1>2, <1>3, <1>4, <1>5, <1>9
  <2>2. \/ RestartModels
        \/ \E a \in ModAdmin, ms \in [ModId -> ModRow] : ModelsEdit(a, ms)
        \/ \E a \in ModAdmin : SaveModels(a) \/ ReadModels(a) \/ AssignModels(a) \/ SwapRouter(a)
        \/ UNCHANGED <<modMem, modFile, modSecret, modRouter, modAdmin, modRead>>
    BY <1>t, EditsModels DEF ModNext, ResolveModel, RouteTurn, CallModel, NextTurn, modVars
  <2> QED  BY <1>1, <1>6, <1>7, <1>9, <2>1, <2>2 DEF Serial
<1>a. \/ UNCHANGED modOverlap
      \/ RestartModels
      \/ \E a \in ModAdmin, ms \in [ModId -> ModRow] : ModelsEdit(a, ms)
  BY <1>t, EditsModels
  DEF ModNext, SaveModels, ReadModels, AssignModels, SwapRouter, ResolveModel, RouteTurn,
      CallModel, NextTurn, modVars
<1>b. CASE RestartModels
  BY <1>6, <1>b DEF Serial
<1> QED  BY <1>t, <1>1, <1>8, <1>9, <1>a, <1>b DEF Serial

LEMMA ModelsStep == ModIInv /\ [ModNext]_modVars => ModIInv'
PROOF BY ModTypedStep, SerialStep DEF ModIInv

\* Whenever no change is under way the router has what the files say and one enabled model
\* is the default, wherever the process restarts and unless the last changes overlapped.
THEOREM RouterFollowsFiles == ModSpec => []RouterCurrent
PROOF
<1>1. ModIInv => RouterCurrent
  <2> SUFFICES ASSUME ModIInv, NothingConfigured, ~ modOverlap PROVE RouterCurrent
    BY DEF RouterCurrent
  <2>1. modMem \in EnsuredDefault(Loaded) /\ modRouter = RouterOf(modMem)
    BY DEF ModIInv, Serial, InOrder
  <2>2. Enabled(modMem) # {} => Cardinality(DefaultOf(modMem)) = 1
    BY <2>1, LoadedTyped, OneDefault DEF ModIInv
  <2> QED  BY <2>1, <2>2 DEF RouterCurrent
<1>2. ModIInv /\ [ModNext]_modVars => ModIInv'
  BY ModelsStep
<1>3. ModInit => ModIInv
  BY InitModels
<1> QED  BY <1>1, <1>2, <1>3, PTL DEF ModSpec

LEMMA TurnTypedStep == TurnTyped /\ [ModNext]_modVars => TurnTyped'
PROOF
<1> SUFFICES ASSUME TurnTyped, [ModNext]_modVars PROVE TurnTyped'
  OBVIOUS
<1>r. /\ ModRetries \in Nat
      /\ \A k \in 0..ModRetries : k \in 0..(ModRetries + 1) /\ k + 1 \in 0..(ModRetries + 1)
      /\ 0 \in 0..ModRetries
  BY ModAssumption
<1>1. ASSUME NEW a \in ModAdmin, AdminBegins(a) PROVE TurnTyped'
  BY <1>1 DEF AdminBegins, TurnTyped, ModTurns
<1>2. CASE UNCHANGED modTurn
  BY <1>2 DEF TurnTyped
<1>3. CASE modTurn' = NoTurn
  BY <1>3, NoTurnTyped DEF TurnTyped
<1>4. ASSUME NEW m \in ModId, NEW image \in BOOLEAN, ResolveModel(m, image) PROVE TurnTyped'
  <2> DEFINE calm == NothingConfigured /\ ~ modOverlap
  <2>1. modTurn' = [NoTurn EXCEPT !.pc = "resolved", !.model = m, !.image = image, !.calm = calm]
    BY <1>4 DEF ResolveModel
  <2>2. calm \in BOOLEAN
    BY DEF NothingConfigured
  <2> HIDE DEF calm
  <2>3. modTurn' \in ModTurns
    BY <1>r, <2>1, <2>2 DEF ModTurns, NoTurn
  <2>4. modTurn'.calls = 0
    BY <2>1 DEF NoTurn
  <2> QED  BY <1>r, <2>3, <2>4 DEF TurnTyped
<1>5. CASE RouteTurn
  <2>1. /\ modTurn.pc = "resolved"
        /\ \/ modTurn' = [modTurn EXCEPT !.pc = "unrouted"]
           \/ \E n \in ModId \cup {NoMod} : modTurn' = [modTurn EXCEPT !.pc = "calling", !.adapter = n]
    <3>1. Routes(modTurn.model, modTurn.image) \subseteq ModId \cup {NoMod}
      BY DEF Routes, TurnTyped, ModTurns
    <3> QED  BY <1>5, <3>1 DEF RouteTurn
  <2> QED  BY <2>1 DEF TurnTyped, ModTurns
<1>6. CASE CallModel
  <2>1. /\ modTurn.pc = "calling" /\ modTurn.calls \in 0..ModRetries
        /\ \/ modTurn' = [modTurn EXCEPT !.pc = "done", !.calls = modTurn.calls + 1]
           \/ /\ modTurn.calls < ModRetries
              /\ modTurn' = [modTurn EXCEPT !.calls = modTurn.calls + 1]
    BY <1>6 DEF CallModel, TurnTyped
  <2>2. modTurn.calls + 1 \in 0..(ModRetries + 1)
        /\ (modTurn.calls < ModRetries => modTurn.calls + 1 \in 0..ModRetries)
    BY <1>r, <2>1
  <2> DEFINE k == modTurn.calls + 1
  <2> HIDE DEF k
  <2>3. CASE modTurn' = [modTurn EXCEPT !.pc = "done", !.calls = k]
    BY <2>2, <2>3 DEF TurnTyped, ModTurns, k
  <2>4. CASE modTurn.calls < ModRetries /\ modTurn' = [modTurn EXCEPT !.calls = k]
    BY <2>2, <2>4 DEF TurnTyped, ModTurns, k
  <2> QED  BY <2>1, <2>3, <2>4 DEF k
<1>7. CASE NextTurn
  <2>1. \/ modTurn' = NoTurn
        \/ modTurn' = [modTurn EXCEPT !.pc = "resolved", !.adapter = NoMod, !.calls = 0]
    BY <1>7 DEF NextTurn
  <2>2. CASE modTurn' = [modTurn EXCEPT !.pc = "resolved", !.adapter = NoMod, !.calls = 0]
    <3>1. 0 \in 0..(ModRetries + 1)
      BY <1>r
    <3> QED  BY <1>r, <2>2, <3>1 DEF TurnTyped, ModTurns
  <2> QED  BY <1>3, <2>1, <2>2
<1> QED
  BY <1>1, <1>2, <1>3, <1>4, <1>5, <1>6, <1>7
  DEF ModNext, CreateModel, UpdateModel, DeleteModel, SaveModels, ReadModels, AssignModels,
      SwapRouter, RestartModels, modVars

LEMMA ModTypes == ModTyped /\ TurnTyped /\ modOverlap \in BOOLEAN => ModTypeOK
BY DEF ModTyped, TurnTyped, ModTypeOK

LEMMA OverlapTyped == modOverlap \in BOOLEAN /\ [ModNext]_modVars => (modOverlap \in BOOLEAN)'
PROOF
<1> SUFFICES ASSUME modOverlap \in BOOLEAN, [ModNext]_modVars PROVE modOverlap' \in BOOLEAN
  OBVIOUS
<1>1. modOverlap' \in {modOverlap, FALSE, ~ NothingConfigured}
  BY DEF ModNext, CreateModel, UpdateModel, DeleteModel, AdminBegins, SaveModels, ReadModels,
         AssignModels, SwapRouter, RestartModels, ResolveModel, RouteTurn, CallModel, NextTurn, modVars
<1>2. (~ NothingConfigured) \in BOOLEAN
  BY DEF NothingConfigured
<1> QED  BY <1>1, <1>2

LEMMA CalmStep ==
  ModIInv /\ TurnTyped /\ CalmTurn /\ [ModNext]_modVars => CalmTurn'
PROOF
<1> SUFFICES ASSUME ModIInv, TurnTyped, CalmTurn, [ModNext]_modVars PROVE CalmTurn'
  OBVIOUS
<1>t. ModTyped /\ Serial
  BY DEF ModIInv
<1>1. ASSUME NEW a \in ModAdmin, AdminBegins(a) PROVE CalmTurn'
  <2>1. modTurn' = [modTurn EXCEPT !.calm = FALSE]
    BY <1>1 DEF AdminBegins
  <2> QED  BY <2>1 DEF CalmTurn, TurnTyped, ModTurns
<1>2. ASSUME NEW a \in ModAdmin, SaveModels(a) \/ ReadModels(a) \/ AssignModels(a) \/ SwapRouter(a) PROVE CalmTurn'
  <2>1. Configuring(a) /\ UNCHANGED modTurn
    BY <1>2 DEF SaveModels, ReadModels, AssignModels, SwapRouter, Configuring
  <2>2. ~ modTurn.calm \/ modTurn.pc = "idle"
    BY <2>1 DEF CalmTurn, Configuring, NothingConfigured
  <2> QED  BY <2>1, <2>2 DEF CalmTurn
<1>3. CASE RestartModels
  BY <1>3 DEF RestartModels, CalmTurn, NoTurn
<1>4. ASSUME NEW m \in ModId, NEW image \in BOOLEAN, ResolveModel(m, image) PROVE CalmTurn'
  <2>1. m \in Callable(modMem)
    BY <1>4 DEF ResolveModel, FallbackModel
  <2>2. /\ modTurn'.pc = "resolved" /\ modTurn'.model = m /\ modTurn'.adapter = NoMod
        /\ modTurn'.calm = (NothingConfigured /\ ~ modOverlap)
        /\ UNCHANGED <<modMem, modAdmin, modOverlap>>
    BY <1>4 DEF ResolveModel, NoTurn
  <2> QED  BY <2>1, <2>2 DEF CalmTurn, Callable, Enabled, NothingConfigured
<1>5. CASE RouteTurn
  <2> DEFINE m == modTurn.model
             failed == [modTurn EXCEPT !.pc = "unrouted"]
             routes == Routes(m, modTurn.image)
  <2>1. /\ modTurn.pc = "resolved" /\ UNCHANGED <<modMem, modAdmin, modOverlap>>
        /\ modTurn' \in IF routes = {} THEN {failed}
                        ELSE {IF modRouter[n].kind # "live" THEN failed
                              ELSE [modTurn EXCEPT !.pc = "calling", !.adapter = n] : n \in routes}
    BY <1>5 DEF RouteTurn
  <2>2. CASE ~ modTurn.calm
    <3>1. ~ modTurn'.calm /\ modTurn'.pc # "idle"
      BY <2>1, <2>2 DEF TurnTyped, ModTurns
    <3> QED  BY <3>1 DEF CalmTurn
  <2>3. CASE modTurn.calm
    <3>1. /\ NothingConfigured /\ ~ modOverlap /\ m \in Callable(modMem)
          /\ modRouter = RouterOf(modMem)
      BY <1>t, <2>1, <2>3 DEF CalmTurn, Serial, InOrder
    <3>2. m \in ModId /\ modRouter[m].kind = "live" /\ modRouter[m].image = modMem[m].image
      BY <3>1 DEF RouterOf, Callable, Enabled
    <3>3. ASSUME NEW n \in ModId, modRouter[n].kind # "none"
          PROVE  /\ n \in Enabled(modMem) /\ modRouter[n].image = modMem[n].image
                 /\ modRouter[n].kind # "live" => ~ modMem[n].key
      BY <3>1, <3>3 DEF RouterOf
    <3>4. ASSUME NEW n \in routes, n # m PROVE modTurn.image /\ n \in Likes(m)
      BY <3>3, <3>4 DEF Routes, Likes
    <3>5. routes = {} => modTurn.image /\ ~ modMem[m].image
      BY <3>2 DEF Routes
    <3>6. ASSUME NEW n \in routes, modRouter[n].kind # "live"
          PROVE  modTurn.image /\ n \in Likes(m) /\ ~ modMem[n].key
      <4>1. n # m
        BY <3>2, <3>6
      <4>2. n \in ModId /\ modRouter[n].kind # "none"
        BY <3>4, <4>1 DEF Routes
      <4> QED  BY <3>3, <3>4, <3>6, <4>1, <4>2
    <3>7. (modTurn' = failed /\ Unseen)
          \/ \E n \in routes : modTurn' = [modTurn EXCEPT !.pc = "calling", !.adapter = n]
      <4> HIDE DEF routes, failed
      <4>1. CASE routes = {}
        BY <2>1, <3>5, <4>1 DEF Unseen
      <4>2. CASE routes # {}
        BY <2>1, <3>6, <4>2 DEF Unseen
      <4> QED  BY <4>1, <4>2
    <3>8. /\ \A k \in ModId : Likes(k)' = Likes(k)
          /\ NothingConfigured' /\ Callable(modMem)' = Callable(modMem)
          /\ UNCHANGED <<modMem, modOverlap>>
      BY <2>1, <3>1 DEF NothingConfigured, Likes, Callable, Enabled
    <3>9. CASE modTurn' = failed /\ Unseen
      <4>1. /\ modTurn'.pc = "unrouted" /\ modTurn'.model = m /\ modTurn'.image = modTurn.image
            /\ modTurn'.adapter = modTurn.adapter
        BY <3>9 DEF TurnTyped, ModTurns
      <4>2. modTurn.adapter \in {NoMod, m} \/ (modTurn.image /\ modTurn.adapter \in Likes(m))
        BY <2>1, <2>3 DEF CalmTurn
      <4>3. Likes(modTurn.model)' = Likes(m)
        BY <3>2, <3>8, <4>1
      <4>4. Unseen'
        BY <3>8, <3>9, <4>1, <4>3 DEF Unseen
      <4>5. (modTurn.adapter \in {NoMod, modTurn.model}
               \/ (modTurn.image /\ modTurn.adapter \in Likes(modTurn.model)))'
        BY <4>1, <4>2, <4>3
      <4> QED  BY <3>1, <3>8, <4>1, <4>4, <4>5 DEF CalmTurn
    <3>a. ASSUME NEW n \in routes, modTurn' = [modTurn EXCEPT !.pc = "calling", !.adapter = n]
          PROVE  CalmTurn'
      <4>1. /\ modTurn'.pc = "calling" /\ modTurn'.model = m /\ modTurn'.image = modTurn.image
            /\ modTurn'.adapter = n
        BY <3>a DEF TurnTyped, ModTurns
      <4>2. n = m \/ (modTurn.image /\ n \in Likes(m))
        BY <3>4
      <4> HIDE DEF routes
      <4> QED  BY <3>1, <3>2, <3>8, <4>1, <4>2 DEF CalmTurn
    <3> QED  BY <3>7, <3>9, <3>a
  <2> QED  BY <2>2, <2>3
<1>6. CASE CallModel \/ NextTurn
  <2>1. /\ UNCHANGED <<modMem, modAdmin, modOverlap>> /\ modTurn.pc \in {"calling", "unrouted", "done"}
        /\ \/ modTurn' = NoTurn
           \/ /\ modTurn'.pc \in {"calling", "done", "resolved"}
              /\ modTurn'.model = modTurn.model /\ modTurn'.calm = modTurn.calm
              /\ modTurn'.image = modTurn.image
              /\ modTurn'.adapter \in {NoMod, modTurn.adapter}
    <3>1. CASE CallModel
      BY <3>1 DEF CallModel, TurnTyped, ModTurns
    <3>2. CASE NextTurn
      BY <3>2 DEF NextTurn, TurnTyped, ModTurns
    <3> QED  BY <1>6, <3>1, <3>2
  <2>2. CASE modTurn' = NoTurn
    BY <2>2 DEF CalmTurn, NoTurn
  <2>3. CASE modTurn' # NoTurn
    <3>1. /\ \A k \in ModId : Likes(k)' = Likes(k)
          /\ NothingConfigured => NothingConfigured'
          /\ Callable(modMem)' = Callable(modMem)
          /\ Callable(modMem) \subseteq ModId
      BY <2>1, <2>3 DEF NothingConfigured, Likes, Callable, Enabled
    <3> QED  BY <2>1, <2>3, <3>1 DEF CalmTurn
  <2> QED  BY <2>2, <2>3
<1>7. CASE UNCHANGED modVars
  BY <1>7 DEF modVars, CalmTurn, Unseen, Likes, Callable, Enabled, NothingConfigured
<1> QED
  BY <1>1, <1>2, <1>3, <1>4, <1>5, <1>6, <1>7 DEF ModNext, CreateModel, UpdateModel, DeleteModel

\* A turn whose model was resolved while nothing was being configured reaches that model.
\* With an image it may reach one whose id begins with that of the model, and no other.
THEOREM TurnsReachTheirModel == ModSpec => []ResolvedRuns
PROOF
<1>1. CalmTurn => ResolvedRuns
  <2> SUFFICES ASSUME CalmTurn, modTurn.calm PROVE ResolvedRuns
    BY DEF ResolvedRuns
  <2>1. CASE modTurn.pc = "idle"
    BY <2>1 DEF CalmTurn, ResolvedRuns
  <2>2. CASE modTurn.pc # "idle"
    BY <2>2 DEF CalmTurn, ResolvedRuns, Unseen
  <2> QED  BY <2>1, <2>2
<1>2. ModIInv /\ [ModNext]_modVars => ModIInv'
  BY ModelsStep
<1>3. ModIInv /\ TurnTyped /\ CalmTurn /\ [ModNext]_modVars => CalmTurn'
  BY CalmStep
<1> QED  BY InitModels, TurnTypedStep, <1>1, <1>2, <1>3, PTL DEF ModSpec

\* The models, the registry, the router, the reloads and the turn have their types,
\* whether or not changes overlap.
THEOREM ModelsTyped == ModSpec => []ModTypeOK
PROOF
<1>1. ModIInv => ModTyped
  BY DEF ModIInv
<1>2. ModInit => modOverlap \in BOOLEAN
  BY DEF ModInit
<1> QED
  BY InitModels, ModTypedStep, TurnTypedStep, OverlapTyped, ModTypes, <1>1, <1>2, PTL DEF ModSpec

---------------------------------------------------------------------------
(* Memories *)

Callers == MemRequest \cup {MemWorker}
Jobs == [op : {"upsert", "delete"}, item : MemItem, attempts : Nat]

MemCalls ==
  [pc : {"idle", "mark", "put", "source", "index", "list", "embed", "unindex",
         "scrub", "clean", "sweep", "fetch", "retry", "next", "done"},
   op : {"none", "create", "confirm", "reject", "correct", "forget", "feedback",
         "clear", "maintain"},
   item : MemItem \cup {NoMem}, other : MemItem \cup {NoMem}, row : MemRow,
   then : {"done", "sweep", "embed", "last"}, seen : [MemItem -> MemRow],
   todo : SUBSET MemItem, jobs : SUBSET Jobs, engine : BOOLEAN]

LEMMA NoMemCallTyped == NoMemCall \in MemCalls /\ Absent \in MemRow
PROOF
<1>1. Absent \in MemRow
  BY DEF Absent, MemRow, MemStatus
<1>2. [i \in MemItem |-> Absent] \in [MemItem -> MemRow]
  BY <1>1
<1> QED  BY <1>1, <1>2 DEF NoMemCall, MemCalls

\* Outbox rows that are retried once more.
MemRetried == {j \in MemJob : j.attempts < MaxAttempts}

\* A call has the items that it is about to write, index or list.
MemPlaced(c, k) ==
  /\ k.jobs \subseteq MemRetried
  /\ k.pc \in {"mark", "put", "source", "index", "list", "unindex", "scrub", "clean"} => k.item \in MemItem
  /\ k.pc = "index" => k.then # "last"
  /\ k.pc = "mark" \/ k.pc = "embed" \/ k.then = "embed" \/ (c # MemWorker /\ (k.pc = "sweep" \/ k.then = "sweep"))
       => k.other \in MemItem

MemStores ==
  /\ memStore \in [MemItem -> MemRow]
  /\ memIndex \in [MemItem -> MemStatus \cup {"none"}]
  /\ memJobs \subseteq MemJob /\ memSources \subseteq MemItem
  /\ memLate \in BOOLEAN /\ memSwitched \in BOOLEAN
  /\ memFaults \in 0..MaxMemFaults

MemTyping ==
  /\ MemStores
  /\ memCall \in [Callers -> MemCalls]
  /\ \A c \in Callers : MemPlaced(c, memCall[c])

\* What the properties remember.
MemHistory ==
  /\ memGone \subseteq MemItem /\ memErased \subseteq MemItem
  /\ memOthers \in [MemRequest -> SUBSET MemItem]
  /\ memBeside \in 0..MemEvents

LEMMA MemTypes == MemTyping /\ MemHistory => MemTypeOK
PROOF
<1> SUFFICES ASSUME MemTyping, MemHistory PROVE MemTypeOK
  OBVIOUS
<1>1. ASSUME NEW c \in Callers
      PROVE  /\ DOMAIN memCall[c] = DOMAIN NoMemCall /\ memCall[c].row \in MemRow
             /\ memCall[c].todo \subseteq MemItem
  <2>1. PICK k \in MemCalls : k = memCall[c]
    BY DEF MemTyping
  <2>2. DOMAIN k = DOMAIN NoMemCall
    BY NoMemCallTyped DEF MemCalls
  <2> QED  BY <2>1, <2>2 DEF MemCalls
<1> QED  BY <1>1 DEF MemTyping, MemStores, MemHistory, MemTypeOK, Callers

LEMMA NoMemCallPlaced ==
  ASSUME NEW c, NEW k \in MemCalls, k.pc \in {"idle", "done"}, k.then = "done", k.jobs = {}
  PROVE  MemPlaced(c, k)
BY DEF MemPlaced

LEMMA InitMemTyping == MemInit => MemTyping
PROOF
<1> SUFFICES ASSUME MemInit PROVE MemTyping
  OBVIOUS
<1>1. MemStores
  <2>1. /\ memStore = [i \in MemItem |-> Absent] /\ memIndex = [i \in MemItem |-> "none"]
        /\ memJobs = {} /\ memSources = {}
        /\ memLate = FALSE /\ memSwitched = FALSE /\ memFaults = 0
    BY DEF MemInit
  <2>2. 0 \in 0..MaxMemFaults
    BY MemAssumption
  <2> QED  BY <2>1, <2>2, NoMemCallTyped DEF MemStores
<1>2. memCall = [c \in Callers |-> NoMemCall]
  BY DEF MemInit, Callers
<1>3. NoMemCall.pc = "idle" /\ NoMemCall.then = "done" /\ NoMemCall.jobs = {}
  BY DEF NoMemCall
<1> QED  BY <1>1, <1>2, <1>3, NoMemCallTyped, NoMemCallPlaced DEF MemTyping

\* Call c goes on as k.
LEMMA MemGoesOn ==
  ASSUME MemTyping, MemStores', NEW c \in Callers, NEW k \in MemCalls, MemPlaced(c, k),
         memCall' = [memCall EXCEPT ![c] = k]
  PROVE  MemTyping'
PROOF
<1>1. /\ memCall' \in [Callers -> MemCalls]
      /\ memCall'[c] = k /\ \A d \in Callers \ {c} : memCall'[d] = memCall[d]
  BY DEF MemTyping
<1>2. \A d \in Callers : MemPlaced(d, memCall'[d])
  BY <1>1 DEF MemTyping
<1> QED  BY <1>1, <1>2 DEF MemTyping, MemPlaced

LEMMA MemStays ==
  ASSUME MemStores, UNCHANGED <<memStore, memIndex, memJobs, memSources, memLate,
                                memSwitched, memFaults>>
  PROVE  MemStores'
BY DEF MemStores

LEMMA MemReturns ==
  ASSUME MemTyping, MemStores', NEW c \in Callers, MemEnd(c)
  PROVE  MemTyping'
PROOF
<1> DEFINE k == [NoMemCall EXCEPT !.pc = IF c = MemWorker THEN "idle" ELSE "done"]
<1>1. k \in MemCalls /\ k.pc \in {"idle", "done"} /\ k.then = "done" /\ k.jobs = {}
  BY NoMemCallTyped DEF MemCalls, NoMemCall
<1>2. memCall' = [memCall EXCEPT ![c] = k]
  BY DEF MemEnd
<1> HIDE DEF k
<1> QED  BY <1>1, <1>2, NoMemCallPlaced, MemGoesOn

\* A call begins.
LEMMA MemArrives ==
  ASSUME MemTyping, NEW c \in Callers,
         NEW op \in {"create", "confirm", "reject", "correct", "forget", "feedback", "clear", "maintain"},
         NEW r \in MemCalls, MemBegin(c, op, r), MemPlaced(c, r)
  PROVE  MemTyping'
PROOF
<1> DEFINE k == [r EXCEPT !.op = op]
<1>1. /\ k \in MemCalls /\ k.pc = r.pc /\ k.then = r.then /\ k.jobs = r.jobs /\ k.item = r.item
      /\ k.other = r.other
  BY DEF MemCalls
<1>2. /\ memCall' = [memCall EXCEPT ![c] = k]
      /\ UNCHANGED <<memStore, memIndex, memJobs, memSources, memLate, memSwitched, memFaults>>
  BY DEF MemBegin
<1> HIDE DEF k
<1>3. MemPlaced(c, k)
  BY <1>1 DEF MemPlaced
<1>4. MemStores'
  BY <1>2, MemStays DEF MemTyping
<1> QED  BY <1>1, <1>2, <1>3, <1>4, MemGoesOn

LEMMA MemRequestTyping ==
  ASSUME MemTyping, NEW c \in MemRequest, MemStart(c)
  PROVE  MemTyping'
PROOF
<1>t. /\ c \in Callers /\ c # MemWorker /\ memLate \in BOOLEAN
      /\ memStore \in [MemItem -> MemRow] /\ \A i \in MemItem : memStore[i] \in MemRow
  BY MemAssumption DEF MemTyping, MemStores, Callers
<1>n. /\ NoMemCall.pc = "idle" /\ NoMemCall.then = "done" /\ NoMemCall.jobs = {}
      /\ NoMemCall \in MemCalls /\ \A x \in MemItem : x # NoMem
  BY NoMemCallTyped, MemAssumption DEF NoMemCall
<1>1. ASSUME NEW i \in MemItem, NEW status \in {"active", "candidate"},
             NEW mortal \in {FALSE, ~ memLate}, NEW x \in MemItem \cup {NoMem},
             Create(c, i, status, mortal, x)
      PROVE  MemTyping'
  <2> DEFINE grouped == x # NoMem
             row == [status |-> IF x # NoMem /\ status = "candidate" THEN "conflicted" ELSE status,
                     text |-> TRUE, group |-> grouped, fresh |-> TRUE, mortal |-> mortal]
             r == [NoMemCall EXCEPT
                     !.pc = IF x # NoMem /\ ~ memStore[x].group THEN "mark" ELSE "put",
                     !.item = i, !.other = x, !.row = row,
                     !.seen = IF x # NoMem THEN memStore ELSE @]
  <2>1. MemBegin(c, "create", r)
    BY <1>1 DEF Create
  <2>2. row \in MemRow
    <3>1. grouped \in BOOLEAN /\ mortal \in BOOLEAN
      BY <1>t
    <3> HIDE DEF grouped
    <3> QED  BY <3>1 DEF MemRow, MemStatus
  <2> HIDE DEF row
  <2>3. r \in MemCalls
    BY <1>t, <1>n, <2>2 DEF MemCalls
  <2>4. /\ r.pc \in {"mark", "put"} /\ r.then = "done" /\ r.jobs = {} /\ r.item = i
        /\ r.pc = "mark" => r.other \in MemItem
    BY <1>n DEF MemCalls
  <2> HIDE DEF r
  <2>5. MemPlaced(c, r)
    BY <2>4 DEF MemPlaced
  <2> QED  BY <1>t, <2>1, <2>3, <2>5, MemArrives
<1>2. ASSUME NEW i \in MemItem, NEW replace \in BOOLEAN, Confirm(c, i, replace) PROVE MemTyping'
  <2> DEFINE row == [memStore[i] EXCEPT !.status = "active"]
             r == [NoMemCall EXCEPT !.pc = IF memStore[i].group /\ replace THEN "list" ELSE "put",
                                    !.item = i, !.row = row]
  <2>1. MemBegin(c, "confirm", r)
    BY <1>2 DEF Confirm
  <2>2. row \in MemRow
    BY <1>t DEF MemRow, MemStatus
  <2> HIDE DEF row
  <2>3. r \in MemCalls
    BY <1>n, <2>2 DEF MemCalls
  <2>4. r.pc \in {"list", "put"} /\ r.then = "done" /\ r.jobs = {} /\ r.item = i
    BY <1>n DEF MemCalls
  <2> HIDE DEF r
  <2>5. MemPlaced(c, r)
    BY <2>4 DEF MemPlaced
  <2> QED  BY <1>t, <2>1, <2>3, <2>5, MemArrives
<1>3. ASSUME NEW i \in MemItem, NEW new \in MemItem \cup {NoMem}, NEW then \in {"done", "embed"},
             then = "embed" => new \in MemItem,
             NEW row \in MemRow, NEW op \in {"reject", "correct", "feedback"},
             MemBegin(c, op, [NoMemCall EXCEPT !.pc = "put", !.item = i, !.other = new,
                                               !.then = then, !.row = row])
      PROVE  MemTyping'
  <2> DEFINE r == [NoMemCall EXCEPT !.pc = "put", !.item = i, !.other = new, !.then = then,
                                    !.row = row]
  <2>1. r \in MemCalls
    BY <1>n DEF MemCalls
  <2>2. r.pc = "put" /\ r.then = then /\ r.jobs = {} /\ r.item = i /\ r.other = new
    BY <1>n DEF MemCalls
  <2>3. MemBegin(c, op, r)
    BY <1>3
  <2> HIDE DEF r
  <2>4. MemPlaced(c, r)
    BY <1>t, <1>3, <2>2 DEF MemPlaced
  <2> QED  BY <1>t, <2>1, <2>3, <2>4, MemArrives
<1>4. ASSUME NEW i \in MemItem, NEW row \in MemRow, NEW op \in {"reject", "feedback"},
             MemBegin(c, op, [NoMemCall EXCEPT !.pc = "put", !.item = i, !.row = row])
      PROVE  MemTyping'
  <2> DEFINE r == [NoMemCall EXCEPT !.pc = "put", !.item = i, !.row = row]
  <2>1. r \in MemCalls
    BY <1>n DEF MemCalls
  <2>2. r.pc = "put" /\ r.then = "done" /\ r.jobs = {} /\ r.item = i
    BY <1>n DEF MemCalls
  <2>3. MemBegin(c, op, r)
    BY <1>4
  <2> HIDE DEF r
  <2>4. MemPlaced(c, r)
    BY <2>2 DEF MemPlaced
  <2> QED  BY <1>t, <2>1, <2>3, <2>4, MemArrives
<1>5. ASSUME NEW i \in MemItem, Reject(c, i) \/ Feedback(c, i) PROVE MemTyping'
  <2>1. [memStore[i] EXCEPT !.status = "deleted"] \in MemRow /\ memStore[i] \in MemRow
    BY <1>t DEF MemRow, MemStatus
  <2> QED  BY <1>4, <1>5, <2>1 DEF Reject, Feedback
<1>6. ASSUME NEW i \in MemItem, NEW new \in MemItem, Correct(c, i, new) PROVE MemTyping'
  <2>1. [memStore[i] EXCEPT !.status = "superseded"] \in MemRow
    BY <1>t DEF MemRow, MemStatus
  <2> QED  BY <1>3, <1>6, <2>1 DEF Correct
<1>7. ASSUME NEW i \in MemItem, Forget(c, i) PROVE MemTyping'
  <2> DEFINE r == [NoMemCall EXCEPT !.pc = "unindex", !.item = i]
  <2>1. MemBegin(c, "forget", r)
    BY <1>7 DEF Forget
  <2>2. r \in MemCalls /\ r.pc = "unindex" /\ r.then = "done" /\ r.jobs = {} /\ r.item = i
    BY <1>n DEF MemCalls
  <2> HIDE DEF r
  <2>3. MemPlaced(c, r)
    BY <2>2 DEF MemPlaced
  <2> QED  BY <1>t, <2>1, <2>2, <2>3, MemArrives
<1>8. CASE Clear(c)
  <2> DEFINE todo == {i \in MemItem : Exists(i)}
             r == [NoMemCall EXCEPT !.pc = "next", !.todo = todo]
  <2>1. MemBegin(c, "clear", r)
    BY <1>8 DEF Clear
  <2>2. todo \subseteq MemItem
    OBVIOUS
  <2> HIDE DEF todo
  <2>3. r \in MemCalls /\ r.pc = "next" /\ r.then = "done" /\ r.jobs = {}
    BY <1>n, <2>2 DEF MemCalls
  <2> HIDE DEF r
  <2>4. MemPlaced(c, r)
    BY <2>3 DEF MemPlaced
  <2> QED  BY <1>t, <2>1, <2>3, <2>4, MemArrives
<1> QED
  BY <1>1, <1>2, <1>5, <1>6, <1>7, <1>8
  DEF MemStart, OwnerRequest, AdminRequest, RememberTool, ForgetTool, ExtractCandidate,
      CaptureEpisode, Ruling, StoreAny, Store

\* Call c goes to pc.
LEMMA MemGoesTo ==
  ASSUME MemTyping, MemStores', NEW c \in Callers, NEW k \in MemCalls, k = memCall[c],
         NEW pc \in {"idle", "put", "source", "index", "list", "embed", "unindex",
                     "scrub", "clean", "sweep", "fetch", "retry", "next", "done"},
         MemGoto(c, pc),
         pc \in {"put", "source", "index", "list", "unindex", "scrub", "clean"} => k.item \in MemItem,
         pc = "index" => k.then # "last",
         pc = "embed" \/ (c # MemWorker /\ pc = "sweep") => k.other \in MemItem
  PROVE  MemTyping'
PROOF
<1> DEFINE new == [k EXCEPT !.pc = pc]
<1>1. memCall' = [memCall EXCEPT ![c] = new]
  BY DEF MemGoto, MemTyping
<1>2. new \in MemCalls /\ new.pc = pc /\ new.item = k.item /\ new.then = k.then /\ new.other = k.other
      /\ new.jobs = k.jobs
  BY DEF MemCalls
<1>3. MemPlaced(c, k)
  BY DEF MemTyping
<1> HIDE DEF new
<1>4. MemPlaced(c, new)
  BY <1>2, <1>3 DEF MemPlaced
<1> QED  BY <1>1, <1>2, <1>4, MemGoesOn

\* What the index leaves in the outbox.
LEMMA MemFails ==
  ASSUME MemStores, NEW row, IndexFails(row) \/ IndexWorks(row)
  PROVE  memFaults' \in 0..MaxMemFaults
BY MemAssumption DEF MemStores, IndexFails, IndexWorks

LEMMA MemCallTyping ==
  ASSUME MemTyping, NEW c \in Callers, MemStep(c)
  PROVE  MemTyping'
PROOF
<1>k. PICK k \in MemCalls : k = memCall[c]
  BY DEF MemTyping
<1>t. /\ MemStores /\ memCall \in [Callers -> MemCalls]
      /\ \A i \in MemItem : memStore[i] \in MemRow
      /\ memStore \in [MemItem -> MemRow]
      /\ memIndex \in [MemItem -> MemStatus \cup {"none"}]
      /\ memJobs \subseteq MemJob /\ memSources \subseteq MemItem
     
  BY DEF MemTyping, MemStores
<1>p. MemPlaced(c, k)
  BY <1>k DEF MemTyping
<1>f. /\ k.row \in MemRow /\ k.seen \in [MemItem -> MemRow] /\ k.todo \subseteq MemItem
      /\ k.then \in {"done", "sweep", "embed", "last"} /\ k.engine \in BOOLEAN
      /\ k.item \in MemItem \cup {NoMem} /\ k.other \in MemItem \cup {NoMem}
  BY DEF MemCalls
<1>0. NoMemCall.seen \in [MemItem -> MemRow]
  BY NoMemCallTyped DEF MemCalls
<1>1. CASE Mark(c)
  <2> DEFINE row == [k.seen[k.other] EXCEPT !.group = TRUE]
             new == [k EXCEPT !.pc = "put", !.seen = NoMemCall.seen]
  <2>1. /\ k.pc = "mark" /\ memStore' = [memStore EXCEPT ![k.other] = row]
        /\ memCall' = [memCall EXCEPT ![c] = new]
        /\ UNCHANGED <<memIndex, memJobs, memSources, memLate, memSwitched, memFaults>>
    BY <1>k, <1>t, <1>1 DEF Mark, MemAt, MemWrite
  <2>2. k.item \in MemItem
    BY <1>p, <2>1 DEF MemPlaced
  <2>3. k.other \in MemItem => row \in MemRow
    BY <1>f DEF MemRow
  <2>4. /\ new \in MemCalls /\ new.pc = "put" /\ new.item = k.item /\ new.then = k.then
        /\ new.other = k.other /\ new.jobs = k.jobs
    BY <1>0 DEF MemCalls
  <2> HIDE DEF row, new
  <2>5. MemPlaced(c, new)
    BY <1>p, <2>2, <2>4 DEF MemPlaced
  <2>6. MemStores'
    BY <1>t, <2>1, <2>3 DEF MemStores
  <2> QED  BY <2>1, <2>4, <2>5, <2>6, MemGoesOn
<1>2. CASE Put(c)
  <2>1. /\ k.pc = "put" /\ memStore' = [memStore EXCEPT ![k.item] = k.row]
        /\ UNCHANGED <<memIndex, memJobs, memSources, memLate, memSwitched, memFaults>>
    BY <1>k, <1>2 DEF Put, MemAt, MemWrite
  <2>2. k.item \in MemItem
    BY <1>p, <2>1 DEF MemPlaced
  <2>3. MemStores'
    BY <1>t, <1>f, <2>1 DEF MemStores
  <2>4. \/ MemEnd(c) \/ MemGoto(c, "unindex") \/ MemGoto(c, "source")
        \/ MemGoto(c, "sweep") /\ c = MemWorker
        \/ MemGoto(c, "index") /\ k.then # "last"
    BY <1>k, <1>2 DEF Put
  <2>5. CASE MemEnd(c)
    BY <2>3, <2>5, MemReturns
  <2>6. CASE MemGoto(c, "unindex")
    BY <1>k, <2>2, <2>3, <2>6, MemGoesTo
  <2>7. CASE MemGoto(c, "source")
    BY <1>k, <2>2, <2>3, <2>7, MemGoesTo
  <2>8. CASE MemGoto(c, "sweep") /\ c = MemWorker
    BY <1>k, <2>2, <2>3, <2>8, MemGoesTo
  <2>9. CASE MemGoto(c, "index") /\ k.then # "last"
    BY <1>k, <2>2, <2>3, <2>9, MemGoesTo
  <2> QED  BY <2>4, <2>5, <2>6, <2>7, <2>8, <2>9
<1>3. CASE Source(c)
  <2> DEFINE new == [k EXCEPT !.pc = "index", !.then = "done"]
  <2>1. /\ k.pc = "source" /\ memSources' = memSources \cup {k.item}
        /\ memCall' = [memCall EXCEPT ![c] = new]
        /\ UNCHANGED <<memStore, memIndex, memJobs, memLate, memSwitched, memFaults>>
    BY <1>k, <1>t, <1>3 DEF Source, MemAt
  <2>2. k.item \in MemItem /\ k.jobs \subseteq MemRetried
    BY <1>p, <2>1 DEF MemPlaced
  <2>3. /\ new \in MemCalls /\ new.pc = "index" /\ new.item = k.item /\ new.then = "done"
        /\ new.jobs = k.jobs
    BY ZenonT(40) DEF MemCalls
  <2> HIDE DEF new
  <2>4. MemPlaced(c, new)
    BY <2>2, <2>3 DEF MemPlaced
  <2>5. MemStores'
    BY <1>t, <2>1, <2>2 DEF MemStores
  <2> QED  BY <2>1, <2>3, <2>4, <2>5, MemGoesOn
<1>4. CASE Index(c)
  <2>1. /\ k.pc = "index" /\ UNCHANGED <<memStore, memLate, memSources, memSwitched>>
        /\ IF k.then = "done" THEN MemEnd(c) ELSE MemGoto(c, k.then)
        /\ \/ /\ IndexWorks(k.row) /\ memIndex' = [memIndex EXCEPT ![k.item] = k.row.status]
              /\ UNCHANGED memJobs
           \/ /\ IndexFails(k.row) /\ UNCHANGED memIndex
              /\ memJobs' = memJobs \cup {[op |-> "upsert", item |-> k.item, attempts |-> 1]}
    BY <1>k, <1>4 DEF Index, MemAt
  <2>2. k.item \in MemItem /\ k.then # "last"
    BY <1>p, <2>1 DEF MemPlaced
  <2>3. memFaults' \in 0..MaxMemFaults
    BY <1>t, <2>1, MemFails
  <2>4. [op |-> "upsert", item |-> k.item, attempts |-> 1] \in MemJob /\ k.row.status \in MemStatus
    BY <1>f, <2>2, MemAssumption DEF MemJob, MemRow
  <2>5. MemStores'
    BY <1>t, <2>1, <2>3, <2>4 DEF MemStores
  <2>6. CASE k.then = "done"
    BY <2>1, <2>5, <2>6, MemReturns
  <2>7. CASE k.then # "done"
    <3>1. k.then \in {"sweep", "embed"} /\ MemGoto(c, k.then)
      BY <1>f, <2>1, <2>2, <2>7
    <3>2. k.then = "embed" \/ (c # MemWorker /\ k.then = "sweep") => k.other \in MemItem
      BY <1>p DEF MemPlaced
    <3> QED  BY <1>k, <2>5, <3>1, <3>2, MemGoesTo
  <2> QED  BY <2>6, <2>7
<1>5. CASE List(c)
  <2> DEFINE i == k.item
             seen == [memStore EXCEPT ![i] = k.row]
             todo == {x \in MemItem \ {i} : memStore[x].group /\ memStore[x].status = "active"}
             new == [k EXCEPT !.pc = "sweep", !.other = i, !.seen = seen, !.todo = todo]
  <2>1. /\ k.pc = "list" /\ memCall' = [memCall EXCEPT ![c] = new]
        /\ UNCHANGED <<memStore, memIndex, memJobs, memSources, memLate, memSwitched, memFaults>>
    BY <1>k, <1>t, <1>5 DEF List, MemAt
  <2>2. k.item \in MemItem
    BY <1>p, <2>1 DEF MemPlaced
  <2>3. seen \in [MemItem -> MemRow] /\ todo \subseteq MemItem
    BY <1>t, <1>f
  <2> HIDE DEF seen, todo
  <2>4. /\ new \in MemCalls /\ new.pc = "sweep" /\ new.other = k.item /\ new.jobs = k.jobs
    BY <2>2, <2>3 DEF MemCalls
  <2> HIDE DEF new
  <2>5. MemPlaced(c, new)
    BY <1>p, <2>2, <2>4 DEF MemPlaced
  <2>6. MemStores'
    BY <1>t, <2>1, MemStays
  <2> QED  BY <2>1, <2>4, <2>5, <2>6, MemGoesOn
<1>6. CASE Sweep(c)
  <2>1. /\ k.pc = "sweep"
        /\ UNCHANGED <<memStore, memIndex, memJobs, memSources, memLate, memSwitched, memFaults>>
    BY <1>k, <1>6 DEF Sweep, MemAt
  <2>2. MemStores'
    BY <1>t, <2>1, MemStays
  <2>3. c # MemWorker => k.other \in MemItem
    BY <1>p, <2>1 DEF MemPlaced
  <2>4. ASSUME NEW x \in k.todo,
               memCall' = [memCall EXCEPT ![c].pc = "put", ![c].item = x, ![c].then = "sweep",
                             ![c].row = Swept(c, k.seen[x]), ![c].todo = @ \ {x}]
        PROVE  MemTyping'
    <3> DEFINE todo == k.todo \ {x}
               row == Swept(c, k.seen[x])
               new == [k EXCEPT !.pc = "put", !.item = x, !.then = "sweep", !.row = row, !.todo = todo]
    <3>1. memCall' = [memCall EXCEPT ![c] = new]
      BY <1>k, <1>t, <2>4
    <3>2. row \in MemRow
      <4>1. PICK old \in MemRow : old = k.seen[x]
        BY <1>f
      <4>2. Swept(c, old) \in {[old EXCEPT !.status = "superseded"], [old EXCEPT !.fresh = k.engine]}
        BY <1>k DEF Swept
      <4> QED  BY <1>f, <4>1, <4>2 DEF MemRow, MemStatus
    <3>3. todo \subseteq MemItem /\ x \in MemItem
      BY <1>f
    <3> HIDE DEF row, todo
    <3>4. /\ new \in MemCalls /\ new.pc = "put" /\ new.item = x /\ new.then = "sweep"
          /\ new.other = k.other /\ new.jobs = k.jobs
      BY <3>2, <3>3 DEF MemCalls
    <3> HIDE DEF new
    <3>5. MemPlaced(c, new)
      BY <1>p, <2>3, <3>3, <3>4 DEF MemPlaced
    <3> QED  BY <2>2, <3>1, <3>4, <3>5, MemGoesOn
  <2>5. CASE c = MemWorker /\ MemGoto(c, "fetch")
    BY <1>k, <2>2, <2>5, MemGoesTo
  <2>6. ASSUME c # MemWorker,
               memCall' = [memCall EXCEPT ![c].pc = "put", ![c].item = k.other,
                             ![c].row = k.seen[k.other], ![c].then = "done", ![c].seen = NoMemCall.seen]
        PROVE  MemTyping'
    <3> DEFINE row == k.seen[k.other]
               new == [k EXCEPT !.pc = "put", !.item = k.other, !.row = row, !.then = "done",
                                !.seen = NoMemCall.seen]
    <3>1. memCall' = [memCall EXCEPT ![c] = new]
      BY <1>k, <1>t, <2>6
    <3>2. row \in MemRow
      BY <1>f, <2>3, <2>6
    <3> HIDE DEF row
    <3>3. /\ new \in MemCalls /\ new.pc = "put" /\ new.item = k.other /\ new.then = "done"
          /\ new.jobs = k.jobs
      BY <1>0, <2>3, <2>6, <3>2 DEF MemCalls
    <3> HIDE DEF new
    <3>4. MemPlaced(c, new)
      BY <1>p, <2>3, <2>6, <3>3 DEF MemPlaced
    <3> QED  BY <2>2, <3>1, <3>3, <3>4, MemGoesOn
  <2> QED  BY <1>k, <1>6, <2>4, <2>5, <2>6 DEF Sweep
<1>7. CASE Embed(c)
  <2>1. k.pc = "embed" /\ UNCHANGED <<memStore, memIndex, memJobs, memSources, memLate, memSwitched>>
    BY <1>k, <1>7 DEF Embed, MemAt
  <2>2. k.other \in MemItem
    BY <1>p, <2>1 DEF MemPlaced
  <2>3. ASSUME memCall' = [memCall EXCEPT ![c].pc = "put", ![c].item = k.other, ![c].then = "last",
                             ![c].row = [@ EXCEPT !.status = "active", !.text = TRUE]],
               UNCHANGED memFaults
        PROVE  MemTyping'
    <3> DEFINE row == [k.row EXCEPT !.status = "active", !.text = TRUE]
               new == [k EXCEPT !.pc = "put", !.item = k.other, !.then = "last", !.row = row]
    <3>1. memCall' = [memCall EXCEPT ![c] = new]
      BY <1>k, <1>t, <2>3
    <3>2. row \in MemRow
      BY <1>f DEF MemRow, MemStatus
    <3> HIDE DEF row
    <3>3. /\ new \in MemCalls /\ new.pc = "put" /\ new.item = k.other /\ new.then = "last"
          /\ new.jobs = k.jobs
      BY <3>2 DEF MemCalls
    <3> HIDE DEF new
    <3>4. MemPlaced(c, new)
      BY <1>p, <2>2, <3>3 DEF MemPlaced
    <3>5. MemStores'
      BY <1>t, <2>1, <2>3, MemStays
    <3> QED  BY <3>1, <3>3, <3>4, <3>5, MemGoesOn
  <2>4. ASSUME memFaults < MaxMemFaults, memFaults' = memFaults + 1, MemEnd(c)
        PROVE  MemTyping'
    <3>1. memFaults' \in 0..MaxMemFaults
      BY <1>t, <2>4, MemAssumption DEF MemStores
    <3>2. MemStores'
      BY <1>t, <2>1, <3>1 DEF MemStores
    <3> QED  BY <2>4, <3>2, MemReturns
  <2> QED  BY <1>k, <1>7, <2>3, <2>4 DEF Embed
<1>8. CASE Unindex(c)
  <2>1. /\ k.pc = "unindex" /\ UNCHANGED <<memStore, memSources, memLate, memSwitched>>
        /\ \/ IndexWorks(Absent) /\ memIndex' = [memIndex EXCEPT ![k.item] = "none"] /\ UNCHANGED memJobs
           \/ /\ IndexFails(Absent) /\ UNCHANGED memIndex
              /\ memJobs' = IF k.op = "reject" THEN memJobs
                            ELSE memJobs \cup {[op |-> "delete", item |-> k.item, attempts |-> 1]}
        /\ MemGoto(c, IF k.op = "reject" THEN "clean" ELSE "scrub")
    BY <1>k, <1>8 DEF Unindex, MemAt
  <2>2. k.item \in MemItem
    BY <1>p, <2>1 DEF MemPlaced
  <2>3. memFaults' \in 0..MaxMemFaults
    BY <1>t, <2>1, MemFails
  <2>4. [op |-> "delete", item |-> k.item, attempts |-> 1] \in MemJob
    BY <2>2, MemAssumption DEF MemJob
  <2>5. memIndex' \in [MemItem -> MemStatus \cup {"none"}] /\ memJobs' \subseteq MemJob
    BY <1>t, <2>1, <2>4
  <2>6. MemStores'
    BY <1>t, <2>1, <2>3, <2>5 DEF MemStores
  <2>7. MemGoto(c, "clean") \/ MemGoto(c, "scrub")
    BY <2>1
  <2> QED  BY <1>k, <2>2, <2>6, <2>7, MemGoesTo
<1>9. CASE Scrub(c)
  <2>1. /\ k.pc = "scrub" /\ memStore' = [memStore EXCEPT ![k.item] = Erased(memStore[k.item])]
        /\ MemGoto(c, "clean")
        /\ UNCHANGED <<memIndex, memJobs, memSources, memLate, memSwitched, memFaults>>
    BY <1>k, <1>9 DEF Scrub, MemAt, MemWrite
  <2>2. k.item \in MemItem
    BY <1>p, <2>1 DEF MemPlaced
  <2>3. Erased(memStore[k.item]) \in MemRow
    BY <1>t, <2>2 DEF Erased, MemRow, MemStatus
  <2>4. MemStores'
    BY <1>t, <2>1, <2>3 DEF MemStores
  <2> QED  BY <1>k, <2>1, <2>2, <2>4, MemGoesTo
<1>10. CASE Clean(c)
  <2>1. /\ k.pc = "clean" /\ UNCHANGED <<memStore, memIndex, memJobs, memLate, memSwitched, memFaults>>
        /\ memSources' = memSources \ {k.item}
        /\ MemGoto(c, "next") \/ MemEnd(c)
    BY <1>k, <1>10 DEF Clean, MemAt
  <2>2. k.item \in MemItem
    BY <1>p, <2>1 DEF MemPlaced
  <2>3. MemStores'
    BY <1>t, <2>1, <2>2 DEF MemStores
  <2>4. CASE MemGoto(c, "next")
    BY <1>k, <2>3, <2>4, MemGoesTo
  <2>5. CASE MemEnd(c)
    BY <2>3, <2>5, MemReturns
  <2> QED  BY <2>1, <2>4, <2>5
<1>11. CASE ClearNext(c)
  <2>1. UNCHANGED <<memStore, memIndex, memJobs, memSources, memLate, memSwitched, memFaults>>
    BY <1>11 DEF ClearNext
  <2>2. MemStores'
    BY <1>t, <2>1, MemStays
  <2>3. ASSUME NEW x \in k.todo,
               memCall' = [memCall EXCEPT ![c].pc = "unindex", ![c].item = x, ![c].todo = @ \ {x}],
               k.pc = "next"
        PROVE  MemTyping'
    <3> DEFINE todo == k.todo \ {x}
               new == [k EXCEPT !.pc = "unindex", !.item = x, !.todo = todo]
    <3>1. memCall' = [memCall EXCEPT ![c] = new]
      BY <1>k, <1>t, <2>3
    <3>2. todo \subseteq MemItem /\ x \in MemItem
      BY <1>f
    <3> HIDE DEF todo
    <3>3. /\ new \in MemCalls /\ new.pc = "unindex" /\ new.item = x /\ new.then = k.then
          /\ new.other = k.other /\ new.jobs = k.jobs
      BY <3>2 DEF MemCalls
    <3> HIDE DEF new
    <3>4. MemPlaced(c, new)
      BY <1>p, <3>2, <3>3 DEF MemPlaced
    <3> QED  BY <2>2, <3>1, <3>3, <3>4, MemGoesOn
  <2>4. CASE MemEnd(c)
    BY <2>2, <2>4, MemReturns
  <2> QED  BY <1>k, <1>11, <2>3, <2>4 DEF ClearNext, MemAt
<1> QED
  BY <1>1, <1>2, <1>3, <1>4, <1>5, <1>6, <1>7, <1>8, <1>9, <1>10, <1>11 DEF MemStep

\* A round of the worker: it lists, and later goes through the outbox.
LEMMA MemWorkerTyping ==
  ASSUME MemTyping, Maintain \/ Fetch \/ Retry
  PROVE  MemTyping'
PROOF
<1>t. /\ MemWorker \in Callers /\ MemStores /\ memCall \in [Callers -> MemCalls]
      /\ memStore \in [MemItem -> MemRow] /\ \A i \in MemItem : memStore[i] \in MemRow
      /\ memIndex \in [MemItem -> MemStatus \cup {"none"}] /\ memJobs \subseteq MemJob
  BY DEF MemTyping, MemStores, Callers
<1>n. NoMemCall.then = "done" /\ NoMemCall.jobs = {} /\ NoMemCall \in MemCalls
  BY NoMemCallTyped DEF NoMemCall
<1>1. CASE Maintain
  <2> DEFINE todo == Stale(memStore)
             r == [NoMemCall EXCEPT !.pc = "sweep", !.seen = memStore, !.todo = todo]
  <2>1. MemBegin(MemWorker, "maintain", r)
    BY <1>1 DEF Maintain
  <2>2. todo \subseteq MemItem
    BY DEF Stale
  <2> HIDE DEF todo
  <2>3. r \in MemCalls /\ r.pc = "sweep" /\ r.then = "done" /\ r.jobs = {}
    BY <1>t, <1>n, <2>2 DEF MemCalls
  <2> HIDE DEF r
  <2>4. MemPlaced(MemWorker, r)
    BY <2>3 DEF MemPlaced
  <2> QED  BY <1>t, <2>1, <2>3, <2>4, MemArrives
<1>2. CASE Fetch
  <2> DEFINE jobs == {j \in memJobs : j.attempts < MaxAttempts}
             r == [NoMemCall EXCEPT !.op = "maintain", !.pc = "retry", !.jobs = jobs]
  <2>1. /\ memCall' = [memCall EXCEPT ![MemWorker] = r]
        /\ UNCHANGED <<memStore, memIndex, memJobs, memSources, memLate, memSwitched, memFaults>>
    BY <1>2 DEF Fetch
  <2>2. jobs \subseteq MemRetried /\ jobs \subseteq Jobs
    <3>1. ASSUME NEW j \in jobs PROVE j \in MemRetried /\ j \in Jobs
      BY <1>t, MemAssumption DEF MemRetried, MemJob, Jobs
    <3> QED  BY <3>1
  <2> HIDE DEF jobs
  <2>3. r \in MemCalls /\ r.pc = "retry" /\ r.then = "done" /\ r.jobs = jobs
    BY <1>n, <2>2 DEF MemCalls
  <2> HIDE DEF r
  <2>4. MemPlaced(MemWorker, r)
    BY <2>2, <2>3 DEF MemPlaced
  <2>5. MemStores'
    BY <1>t, <2>1, MemStays
  <2> QED  BY <1>t, <2>1, <2>3, <2>4, <2>5, MemGoesOn
<1>3. CASE Retry
  <2>1. PICK k \in MemCalls : k = memCall[MemWorker]
    BY <1>t
  <2>2. k.pc = "retry" /\ UNCHANGED <<memStore, memSources, memLate, memSwitched>>
    BY <1>3, <2>1 DEF Retry, MemAt
  <2>3. MemPlaced(MemWorker, k)
    BY <1>t, <2>1 DEF MemTyping
  <2>4. CASE k.jobs = {} /\ MemEnd(MemWorker) /\ UNCHANGED <<memIndex, memJobs, memFaults>>
    <3>1. MemStores'
      BY <1>t, <2>2, <2>4, MemStays
    <3> QED  BY <1>t, <2>4, <3>1, MemReturns
  <2>5. ASSUME NEW j \in k.jobs, NEW row, NEW point, NEW written, row = memStore[j.item],
               point = (CASE j.op = "delete" -> "none"
                          [] row.status = "deleted" -> memIndex[j.item]
                          [] OTHER -> row.status),
               memCall' = [memCall EXCEPT ![MemWorker].jobs = @ \ {j}],
               \/ /\ IndexWorks(written)
                  /\ memIndex' = [memIndex EXCEPT ![j.item] = point]
                  /\ memJobs' = memJobs \ {j}
               \/ /\ IndexFails(written)
                  /\ memJobs' = (memJobs \ {j}) \cup {[j EXCEPT !.attempts = @ + 1]}
                  /\ UNCHANGED memIndex
        PROVE  MemTyping'
    <3> DEFINE jobs == k.jobs \ {j}
               new == [k EXCEPT !.jobs = jobs]
    <3>1. memCall' = [memCall EXCEPT ![MemWorker] = new]
      BY <1>t, <2>1, <2>5
    <3>2. jobs \subseteq Jobs /\ jobs \subseteq MemRetried /\ j \in MemRetried
      BY <2>3 DEF MemPlaced, MemCalls
    <3> HIDE DEF jobs
    <3>3. new \in MemCalls /\ new.pc = "retry" /\ new.then = k.then /\ new.other = k.other /\ new.jobs = jobs
      BY <2>2, <3>2 DEF MemCalls
    <3> HIDE DEF new
    <3>4. MemPlaced(MemWorker, new)
      BY <2>2, <2>3, <3>2, <3>3 DEF MemPlaced
    <3>5. j \in MemJob /\ j.attempts < MaxAttempts
      BY <3>2 DEF MemRetried
    <3>6. [j EXCEPT !.attempts = @ + 1] \in MemJob /\ j.item \in MemItem
      BY <3>5, MemAssumption DEF MemJob
    <3>7. row \in MemRow
      BY <1>t, <2>5, <3>6
    <3>8. row.status \in MemStatus /\ memIndex[j.item] \in MemStatus \cup {"none"}
      BY <1>t, <3>6, <3>7 DEF MemRow
    <3>9. point \in MemStatus \cup {"none"}
      BY <2>5, <3>8
    <3>10. memIndex' \in [MemItem -> MemStatus \cup {"none"}]
      BY <1>t, <2>5, <3>9
    <3>11. memJobs' \subseteq MemJob
      BY <1>t, <2>5, <3>6
    <3>12. memFaults' \in 0..MaxMemFaults
      BY <1>t, <2>5, MemFails
    <3>13. MemStores'
      BY <1>t, <2>2, <3>10, <3>11, <3>12 DEF MemStores
    <3> QED  BY <1>t, <3>1, <3>3, <3>4, <3>13, MemGoesOn
  <2> QED  BY <1>3, <2>1, <2>4, <2>5 DEF Retry
<1> QED  BY <1>1, <1>2, <1>3

\* An expiry date, and another embedding model.
LEMMA MemAroundTyping ==
  ASSUME MemTyping, GrowLate \/ SwitchModel \/ UNCHANGED memVars
  PROVE  MemTyping'
PROOF
<1>1. CASE GrowLate
  BY <1>1 DEF GrowLate, MemTyping, MemStores, MemPlaced
<1>2. CASE UNCHANGED memVars
  BY <1>2 DEF memVars, MemTyping, MemStores, MemPlaced
<1>3. CASE SwitchModel
  <2>1. /\ MemStores /\ memCall \in [Callers -> MemCalls]
        /\ \A i \in MemItem : memStore[i] \in MemRow
        /\ \A c \in Callers : MemPlaced(c, memCall[c])
        /\ memStore' = [i \in MemItem |-> [memStore[i] EXCEPT !.fresh = FALSE]]
        /\ memCall' = [c \in DOMAIN memCall |->
                         IF memCall[c].op = "none" THEN memCall[c] ELSE Outdated(memCall[c])]
        /\ memSwitched' = TRUE
        /\ UNCHANGED <<memIndex, memJobs, memSources, memLate, memFaults>>
    BY <1>3 DEF SwitchModel, MemTyping, MemStores
  <2>2. \A i \in MemItem : memStore'[i] \in MemRow
    BY <2>1 DEF MemRow
  <2>3. memStore' \in [MemItem -> MemRow]
    BY <2>1, <2>2
  <2>4. ASSUME NEW k \in MemCalls
        PROVE  /\ Outdated(k) \in MemCalls
               /\ Outdated(k).pc = k.pc /\ Outdated(k).item = k.item /\ Outdated(k).jobs = k.jobs
               /\ Outdated(k).other = k.other /\ Outdated(k).then = k.then
    <3> DEFINE fresh == k.row.fresh /\ k.pc = "mark"
               row == [k.row EXCEPT !.fresh = fresh]
               seen == [i \in MemItem |-> [k.seen[i] EXCEPT !.fresh = FALSE]]
               old == [k EXCEPT !.row = row, !.engine = FALSE, !.seen = seen]
    <3>1. k.row \in MemRow /\ k.seen \in [MemItem -> MemRow]
      BY DEF MemCalls
    <3>2. fresh \in BOOLEAN
      OBVIOUS
    <3>3. Outdated(k) = old
      BY DEF Outdated, MemCalls
    <3> HIDE DEF fresh
    <3>4. row \in MemRow
      BY <3>1, <3>2 DEF MemRow
    <3>5. \A i \in MemItem : seen[i] \in MemRow
      BY <3>1 DEF MemRow
    <3>6. seen \in [MemItem -> MemRow]
      BY <3>5
    <3> HIDE DEF row, seen
    <3>7. /\ old \in MemCalls /\ old.pc = k.pc /\ old.item = k.item /\ old.jobs = k.jobs
          /\ old.other = k.other /\ old.then = k.then
      BY <3>4, <3>6 DEF MemCalls
    <3> QED  BY <3>3, <3>7
  <2>5. ASSUME NEW c \in Callers PROVE memCall'[c] \in MemCalls /\ MemPlaced(c, memCall'[c])
    <3>1. PICK k \in MemCalls : k = memCall[c]
      BY <2>1
    <3>2. MemPlaced(c, k)
      BY <2>1, <3>1
    <3>3. memCall'[c] \in {k, Outdated(k)}
      BY <2>1, <3>1
    <3>4. MemPlaced(c, Outdated(k))
      BY <2>4, <3>2 DEF MemPlaced
    <3> QED  BY <2>4, <3>2, <3>3, <3>4
  <2>6. memCall' \in [Callers -> MemCalls]
    BY <2>1, <2>5
  <2>7. MemStores'
    BY <2>1, <2>3 DEF MemStores
  <2>8. \A c \in Callers : MemPlaced(c, memCall[c])'
    BY <2>5 DEF MemPlaced
  <2> QED  BY <2>6, <2>7, <2>8 DEF MemTyping
<1> QED  BY <1>1, <1>2, <1>3

\* Every step keeps the types, whatever overlaps.
LEMMA MemTypingStep == MemTyping /\ [MemNext]_memVars => MemTyping'
PROOF
<1> SUFFICES ASSUME MemTyping, [MemNext]_memVars PROVE MemTyping'
  OBVIOUS
<1>0. MemRequest \subseteq Callers /\ MemWorker \in Callers
  BY DEF Callers
<1>1. ASSUME NEW c \in MemRequest, MemStart(c) PROVE MemTyping'
  BY <1>1, MemRequestTyping
<1>2. ASSUME NEW c \in Callers, MemStep(c) PROVE MemTyping'
  BY <1>2, MemCallTyping
<1>3. CASE Maintain \/ Fetch \/ Retry
  BY <1>3, MemWorkerTyping
<1>4. CASE GrowLate \/ SwitchModel \/ UNCHANGED memVars
  BY <1>4, MemAroundTyping
<1> QED  BY <1>0, <1>1, <1>2, <1>3, <1>4 DEF MemNext

LEMMA InitMemHistory == MemInit => MemHistory
PROOF
<1>1. 0 \in 0..MemEvents
  BY MemAssumption
<1> QED  BY <1>1 DEF MemInit, MemHistory

\* Another call may begin beside those under way.
LEMMA BesideBounded ==
  ASSUME memBeside \in 0..MemEvents, MemEventsLeft
  PROVE  memBeside + 1 \in 0..MemEvents
PROOF
<1>1. PICK a \in {0, 1}, b \in {0, 1} : memBeside + a + b < MemEvents
  <2> DEFINE late == IF memLate THEN 1 ELSE 0
             switched == IF memSwitched THEN 1 ELSE 0
  <2>1. late \in {0, 1} /\ switched \in {0, 1} /\ memBeside + late + switched < MemEvents
    BY Zenon DEF MemEventsLeft
  <2> HIDE DEF late, switched
  <2> QED  BY <2>1
<1> QED  BY <1>1, MemAssumption

\* What a request does is one of the calls that begin.
LEMMA StartBegins ==
  ASSUME NEW c \in MemRequest, MemStart(c)
  PROVE  \E op, r : MemBegin(c, op, r)
PROOF
<1>1. \A i, x, status, mortal : Create(c, i, status, mortal, x) => \E op, r : MemBegin(c, op, r)
  BY DEF Create
<1>2. \A i, replace : Confirm(c, i, replace) => \E op, r : MemBegin(c, op, r)
  BY DEF Confirm
<1>3. \A i : Reject(c, i) \/ Forget(c, i) \/ Feedback(c, i) \/ (\E new : Correct(c, i, new))
               => \E op, r : MemBegin(c, op, r)
  BY DEF Reject, Forget, Feedback, Correct
<1>4. Clear(c) => \E op, r : MemBegin(c, op, r)
  BY DEF Clear
<1> QED
  BY <1>1, <1>2, <1>3, <1>4
  DEF MemStart, OwnerRequest, AdminRequest, RememberTool, ForgetTool, ExtractCandidate,
      CaptureEpisode, StoreAny, Store, Ruling

LEMMA WriteRemembered ==
  ASSUME MemHistory, NEW c \in Callers, NEW i \in MemItem, NEW row, MemWrite(c, i, row)
  PROVE  memOthers' \in [MemRequest -> SUBSET MemItem]
BY DEF MemHistory, MemWrite

LEMMA MemHistoryStep == MemTyping /\ MemHistory /\ [MemNext]_memVars => MemHistory'
PROOF
<1> SUFFICES ASSUME MemTyping, MemHistory, [MemNext]_memVars PROVE MemHistory'
  OBVIOUS
<1>0. MemRequest \subseteq Callers /\ MemWorker \in Callers
  BY DEF Callers
<1>1. ASSUME NEW c, NEW op, NEW r, MemBegin(c, op, r) PROVE MemHistory'
  <2>1. memBeside' \in 0..MemEvents
    BY <1>1, BesideBounded DEF MemBegin, MemHistory
  <2>2. UNCHANGED <<memGone, memErased, memOthers>>
    BY <1>1 DEF MemBegin
  <2> QED  BY <2>1, <2>2 DEF MemHistory
<1>2. ASSUME NEW c \in Callers, MemStep(c) PROVE MemHistory'
  <2>1. PICK k \in MemCalls : k = memCall[c] /\ MemPlaced(c, k)
    BY DEF MemTyping
  <2>2. ASSUME NEW i \in MemItem, NEW row, MemWrite(c, i, row), UNCHANGED <<memGone, memErased, memBeside>>
        PROVE  MemHistory'
    BY <2>2, WriteRemembered DEF MemHistory
  <2>3. CASE Mark(c)
    <3>1. k.other \in MemItem
      BY <2>1, <2>3 DEF Mark, MemAt, MemPlaced
    <3> QED  BY <2>1, <2>2, <2>3, <3>1 DEF Mark
  <2>4. CASE Put(c)
    <3>1. k.item \in MemItem
      BY <2>1, <2>4 DEF Put, MemAt, MemPlaced
    <3> QED  BY <2>1, <2>2, <2>4, <3>1 DEF Put
  <2>5. CASE List(c)
    BY <2>5 DEF List, MemHistory
  <2>6. CASE Scrub(c)
    <3>1. k.item \in MemItem
      BY <2>1, <2>6 DEF Scrub, MemAt, MemPlaced
    <3>2. memOthers' \in [MemRequest -> SUBSET MemItem]
      BY <2>1, <2>6, <3>1, WriteRemembered DEF Scrub
    <3>3. memGone' \subseteq MemItem /\ memErased' \subseteq MemItem /\ memBeside' = memBeside
      BY <2>1, <2>6, <3>1 DEF Scrub, MemHistory
    <3> QED  BY <3>2, <3>3 DEF MemHistory
  <2>7. CASE Clean(c)
    BY <2>7 DEF Clean, MemHistory
  <2>8. CASE Source(c) \/ Index(c) \/ Sweep(c) \/ Embed(c) \/ Unindex(c) \/ ClearNext(c)
    <3>1. UNCHANGED memHistory
      BY <2>8 DEF Source, Index, Sweep, Embed, Unindex, ClearNext
    <3> QED  BY <3>1 DEF memHistory, MemHistory
  <2> QED  BY <1>2, <2>3, <2>4, <2>5, <2>6, <2>7, <2>8 DEF MemStep
<1>3. CASE Fetch \/ Retry \/ GrowLate \/ SwitchModel
  BY <1>3 DEF Fetch, Retry, GrowLate, SwitchModel, memHistory, MemHistory
<1>4. CASE UNCHANGED memVars
  BY <1>4 DEF memVars, MemHistory
<1>5. ASSUME NEW c \in MemRequest, MemStart(c) PROVE MemHistory'
  BY <1>1, <1>5, StartBegins
<1>6. CASE Maintain
  BY <1>1, <1>6 DEF Maintain
<1> QED  BY <1>0, <1>2, <1>3, <1>4, <1>5, <1>6 DEF MemNext

\* Whatever overlaps and fails, rows, points, the outbox and the calls have their types: a
\* call knows its item when it writes it, and no row of the outbox exceeds its attempts.
THEOREM MemoriesTyped == MemSpec => []MemTypeOK
BY InitMemTyping, MemTypingStep, InitMemHistory, MemHistoryStep, MemTypes, PTL DEF MemSpec

\* A row without text, of an item that is there.
Textless(row) == ~ row.text /\ row.status # "absent"

\* Where a call k of c may be.
Shaped(c, k) ==
  /\ k.pc \in {"mark", "list"} => c # MemWorker /\ k.then = "done"
  /\ k.pc = "embed" \/ k.then = "embed" => c # MemWorker
  /\ c = MemWorker /\ k.pc = "put" => k.then = "sweep"
  /\ k.pc \in {"list", "sweep"} \/ k.then = "sweep" => k.op \in {"confirm", "maintain"}

\* What a call k has to write does not bring item i back: its copies of i have no text, it
\* does not create i, and it gives it no sources.
Harmless(k, i) ==
  /\ k.pc = "mark" => k.item # i /\ (k.other = i => Textless(k.seen[i]))
  /\ k.pc \in {"put", "list"} /\ k.item = i
       => Textless(k.row) /\ k.op # "create" /\ k.then # "last"
  /\ k.pc = "source" => k.item # i
  /\ k.pc = "embed" \/ k.then = "embed" => k.other # i
  /\ k.pc = "sweep" \/ k.then = "sweep" => (i \in k.todo \/ k.other = i => Textless(k.seen[i]))

\* Whatever was scrubbed while no call had a copy of it is gone for every call.
StaysGone ==
  \A i \in memGone : Textless(memStore[i]) /\ \A c \in Callers : Harmless(memCall[c], i)

StaysErased == memErased \subseteq memGone /\ \A i \in memErased : i \notin memSources

MemIInv ==
  /\ MemTyping /\ MemHistory
  /\ \A c \in Callers : Shaped(c, memCall[c])
  /\ StaysGone /\ StaysErased

LEMMA InitMemory == MemInit => MemIInv
PROOF
<1> SUFFICES ASSUME MemInit PROVE MemIInv
  OBVIOUS
<1>1. \A c \in Callers : memCall[c] = NoMemCall
  BY DEF MemInit, Callers
<1>2. \A c : Shaped(c, NoMemCall)
  BY DEF Shaped, NoMemCall
<1>3. StaysGone /\ StaysErased
  BY DEF MemInit, StaysGone, StaysErased
<1> QED  BY <1>1, <1>2, <1>3, InitMemTyping, InitMemHistory DEF MemIInv

\* A call that begins knows what is gone as it is stored.
Learns(c, k) ==
  Shaped(c, k) /\ \A i \in MemItem : Textless(memStore[i]) => Harmless(k, i)

\* What a call k of c does next, seen from what is gone.
Carries(c) ==
  /\ Shaped(c, memCall'[c])
  /\ \A i \in MemItem : Textless(memStore[i]) /\ Harmless(memCall[c], i)
       => /\ Textless(memStore'[i]) /\ Harmless(memCall'[c], i)
          /\ i \in memSources' => i \in memSources

\* The other calls go on as they are.
Moved(c) == Carries(c) /\ \A d \in Callers \ {c} : memCall'[d] = memCall[d]

\* A call begins.
LEMMA BeginCarries ==
  ASSUME MemTyping, NEW c \in Callers, NEW op, NEW r, MemBegin(c, op, r),
         Learns(c, [r EXCEPT !.op = op])
  PROVE  Moved(c)
PROOF
<1> DEFINE k == [r EXCEPT !.op = op]
<1>1. memCall' = [memCall EXCEPT ![c] = k] /\ UNCHANGED <<memStore, memSources>>
  BY DEF MemBegin
<1> HIDE DEF k
<1>2. memCall'[c] = k /\ \A d \in Callers \ {c} : memCall'[d] = memCall[d]
  BY <1>1 DEF MemTyping
<1>3. Shaped(c, k) /\ \A i \in MemItem : Textless(memStore[i]) => Harmless(k, i)
  BY DEF k, Learns
<1> QED  BY <1>1, <1>2, <1>3 DEF Carries, Moved

LEMMA RequestCarries ==
  ASSUME MemTyping, NEW c \in MemRequest, MemStart(c)
  PROVE  Moved(c)
PROOF
<1>t. /\ c \in Callers /\ c # MemWorker /\ memStore \in [MemItem -> MemRow]
      /\ \A i \in MemItem : memStore[i] \in MemRow
      /\ \A i \in MemItem : Textless(memStore[i]) => Exists(i)
  BY MemAssumption DEF MemTyping, MemStores, Callers, Textless, Exists
<1>n. /\ NoMemCall.pc = "idle" /\ NoMemCall.then = "done" /\ NoMemCall \in MemCalls
  BY NoMemCallTyped DEF NoMemCall
<1>b. ASSUME NEW op, NEW r, MemBegin(c, op, r), Learns(c, [r EXCEPT !.op = op]) PROVE Moved(c)
  BY <1>b, <1>t, BeginCarries
<1>1. ASSUME NEW i \in MemItem, NEW status, NEW mortal, NEW x, Create(c, i, status, mortal, x)
      PROVE  Moved(c)
  <2> DEFINE row == [status |-> IF x # NoMem /\ status = "candidate" THEN "conflicted" ELSE status,
                     text |-> TRUE, group |-> x # NoMem, fresh |-> TRUE, mortal |-> mortal]
             pc == IF x # NoMem /\ ~ memStore[x].group THEN "mark" ELSE "put"
             seen == IF x # NoMem THEN memStore ELSE NoMemCall.seen
             r == [NoMemCall EXCEPT !.pc = pc, !.item = i, !.other = x, !.row = row, !.seen = seen]
             k == [r EXCEPT !.op = "create"]
  <2>1. MemBegin(c, "create", r) /\ New(i)
    BY <1>1, <1>n DEF Create, MemCalls
  <2>2. pc \in {"mark", "put"} /\ (pc = "mark" => seen = memStore)
    OBVIOUS
  <2> HIDE DEF row, pc, seen
  <2>3. /\ k.pc = pc /\ k.item = i /\ k.other = x /\ k.then = "done" /\ k.seen = seen
        /\ k.op = "create"
    BY <1>n DEF MemCalls
  <2> HIDE DEF r, k
  <2>4. ~ Exists(i)
    BY <2>1 DEF New, Unchosen
  <2>5. Learns(c, k)
    BY <1>t, <2>2, <2>3, <2>4 DEF Learns, Shaped, Harmless
  <2> QED  BY <1>b, <2>1, <2>5 DEF k
<1>2. ASSUME NEW i \in MemItem, NEW replace, Confirm(c, i, replace) PROVE Moved(c)
  <2> DEFINE row == [memStore[i] EXCEPT !.status = "active"]
             pc == IF memStore[i].group /\ replace THEN "list" ELSE "put"
             r == [NoMemCall EXCEPT !.pc = pc, !.item = i, !.row = row]
             k == [r EXCEPT !.op = "confirm"]
  <2>1. MemBegin(c, "confirm", r)
    BY <1>2 DEF Confirm
  <2>2. pc \in {"list", "put"} /\ (Textless(memStore[i]) => Textless(row))
    BY <1>t DEF MemRow, Textless
  <2> HIDE DEF row, pc
  <2>3. k.pc = pc /\ k.item = i /\ k.row = row /\ k.then = "done" /\ k.op = "confirm"
    BY <1>n DEF MemCalls
  <2> HIDE DEF r, k
  <2>4. Learns(c, k)
    BY <1>t, <2>2, <2>3 DEF Learns, Shaped, Harmless
  <2> QED  BY <1>b, <2>1, <2>4 DEF k
<1>3. ASSUME NEW i \in MemItem, NEW row, NEW op \in {"reject", "feedback"},
             Textless(memStore[i]) => Textless(row),
             MemBegin(c, op, [NoMemCall EXCEPT !.pc = "put", !.item = i, !.row = row])
      PROVE  Moved(c)
  <2> DEFINE r == [NoMemCall EXCEPT !.pc = "put", !.item = i, !.row = row]
             k == [r EXCEPT !.op = op]
  <2>1. MemBegin(c, op, r)
    BY <1>3
  <2>2. k.pc = "put" /\ k.item = i /\ k.row = row /\ k.then = "done" /\ k.op = op
    BY <1>n DEF MemCalls
  <2> HIDE DEF r, k
  <2>3. Learns(c, k)
    BY <1>t, <1>3, <2>2 DEF Learns, Shaped, Harmless
  <2> QED  BY <1>b, <2>1, <2>3 DEF k
<1>4. ASSUME NEW i \in MemItem, Reject(c, i) \/ Feedback(c, i) PROVE Moved(c)
  <2>1. Textless(memStore[i]) => Textless([memStore[i] EXCEPT !.status = "deleted"])
    BY <1>t DEF MemRow, Textless
  <2> QED  BY <1>3, <1>4, <2>1 DEF Reject, Feedback
<1>5. ASSUME NEW i \in MemItem, NEW new \in MemItem, Correct(c, i, new) PROVE Moved(c)
  <2> DEFINE row == [memStore[i] EXCEPT !.status = "superseded"]
             r == [NoMemCall EXCEPT !.pc = "put", !.item = i, !.other = new, !.then = "embed",
                                    !.row = row]
             k == [r EXCEPT !.op = "correct"]
  <2>1. MemBegin(c, "correct", r) /\ ~ Exists(new)
    BY <1>5 DEF Correct, New, Unchosen
  <2>2. Textless(memStore[i]) => Textless(row)
    BY <1>t DEF MemRow, Textless
  <2> HIDE DEF row
  <2>3. /\ k.pc = "put" /\ k.item = i /\ k.row = row /\ k.then = "embed" /\ k.op = "correct"
        /\ k.other = new
    BY <1>n DEF MemCalls
  <2> HIDE DEF r, k
  <2>4. Learns(c, k)
    BY <1>t, <2>1, <2>2, <2>3 DEF Learns, Shaped, Harmless
  <2> QED  BY <1>b, <2>1, <2>4 DEF k
<1>6. ASSUME NEW i \in MemItem, Forget(c, i) PROVE Moved(c)
  <2> DEFINE r == [NoMemCall EXCEPT !.pc = "unindex", !.item = i]
             k == [r EXCEPT !.op = "forget"]
  <2>1. MemBegin(c, "forget", r)
    BY <1>6 DEF Forget
  <2>2. k.pc = "unindex" /\ k.then = "done"
    BY <1>n DEF MemCalls
  <2> HIDE DEF r, k
  <2>3. Learns(c, k)
    BY <2>2 DEF Learns, Shaped, Harmless
  <2> QED  BY <1>b, <2>1, <2>3 DEF k
<1>7. CASE Clear(c)
  <2> DEFINE todo == {i \in MemItem : Exists(i)}
             r == [NoMemCall EXCEPT !.pc = "next", !.todo = todo]
             k == [r EXCEPT !.op = "clear"]
  <2>1. MemBegin(c, "clear", r)
    BY <1>7 DEF Clear
  <2> HIDE DEF todo
  <2>2. k.pc = "next" /\ k.then = "done"
    BY <1>n DEF MemCalls
  <2> HIDE DEF r, k
  <2>3. Learns(c, k)
    BY <2>2 DEF Learns, Shaped, Harmless
  <2> QED  BY <1>b, <2>1, <2>3 DEF k
<1> QED
  BY <1>1, <1>2, <1>4, <1>5, <1>6, <1>7
  DEF MemStart, OwnerRequest, AdminRequest, RememberTool, ForgetTool, ExtractCandidate,
      CaptureEpisode, StoreAny, Store, Ruling

LEMMA CallCarries ==
  ASSUME MemTyping, NEW c \in Callers, Shaped(c, memCall[c]), MemStep(c)
  PROVE  Moved(c)
PROOF
<1>k. PICK k \in MemCalls : k = memCall[c] /\ Shaped(c, k)
  BY DEF MemTyping
<1>t. /\ memStore \in [MemItem -> MemRow] /\ memCall \in [Callers -> MemCalls]
      /\ \A i \in MemItem : memStore[i] \in MemRow
  BY DEF MemTyping, MemStores
<1>f. k.row \in MemRow /\ k.seen \in [MemItem -> MemRow] /\ k.todo \subseteq MemItem
  BY DEF MemCalls
<1>w. ASSUME NEW new, memCall' = [memCall EXCEPT ![c] = new], Shaped(c, new),
             \A i \in MemItem : Textless(memStore[i]) /\ Harmless(k, i)
               => /\ Textless(memStore'[i]) /\ Harmless(new, i)
                  /\ i \in memSources' => i \in memSources
      PROVE  Moved(c)
  <2>1. memCall'[c] = new /\ \A d \in Callers \ {c} : memCall'[d] = memCall[d]
    BY <1>t, <1>w
  <2> QED  BY <1>k, <1>w, <2>1 DEF Carries, Moved
\* No row is written and no source added.
<1>r. ASSUME NEW new, memCall' = [memCall EXCEPT ![c] = new], Shaped(c, new),
             memStore' = memStore, memSources' \subseteq memSources,
             \A i \in MemItem : Textless(memStore[i]) /\ Harmless(k, i) => Harmless(new, i)
      PROVE  Moved(c)
  BY <1>r, <1>w
<1>e. ASSUME MemEnd(c), memSources' \subseteq memSources,
             \A i \in MemItem : Textless(memStore[i]) /\ Harmless(k, i) => Textless(memStore'[i])
      PROVE  Moved(c)
  <2> DEFINE new == [NoMemCall EXCEPT !.pc = IF c = MemWorker THEN "idle" ELSE "done"]
  <2>1. memCall' = [memCall EXCEPT ![c] = new]
    BY <1>e DEF MemEnd
  <2>2. new.pc \in {"idle", "done"} /\ new.then = "done"
    BY NoMemCallTyped DEF MemCalls, NoMemCall
  <2> HIDE DEF new
  <2>3. Shaped(c, new) /\ \A i : Harmless(new, i)
    BY <2>2 DEF Shaped, Harmless
  <2> QED  BY <1>e, <1>w, <2>1, <2>3
<1>g. ASSUME NEW pc, MemGoto(c, pc), memSources' \subseteq memSources,
             pc \in {"unindex", "scrub", "clean", "next", "fetch", "index"},
             \A i \in MemItem : Textless(memStore[i]) /\ Harmless(k, i) => Textless(memStore'[i])
      PROVE  Moved(c)
  <2> DEFINE new == [k EXCEPT !.pc = pc]
  <2>1. memCall' = [memCall EXCEPT ![c] = new]
    BY <1>k, <1>g DEF MemGoto
  <2>2. /\ new.pc = pc /\ new.then = k.then /\ new.op = k.op /\ new.other = k.other
        /\ new.todo = k.todo /\ new.seen = k.seen
    BY DEF MemCalls
  <2> HIDE DEF new
  <2>3. Shaped(c, new)
    BY <1>g, <1>k, <2>2 DEF Shaped
  <2>4. \A i : Harmless(k, i) => Harmless(new, i)
    BY <1>g, <2>2 DEF Harmless
  <2> QED  BY <1>g, <1>w, <2>1, <2>3, <2>4
<1>1. CASE Mark(c)
  <2> DEFINE row == [k.seen[k.other] EXCEPT !.group = TRUE]
             new == [k EXCEPT !.pc = "put", !.seen = NoMemCall.seen]
  <2>1. /\ k.pc = "mark" /\ memStore' = [memStore EXCEPT ![k.other] = row]
        /\ memCall' = [memCall EXCEPT ![c] = new] /\ memSources' = memSources
    BY <1>k, <1>1 DEF Mark, MemAt, MemWrite
  <2>2. c # MemWorker /\ k.then = "done"
    BY <1>k, <2>1 DEF Shaped
  <2>3. new.pc = "put" /\ new.item = k.item /\ new.then = k.then
    BY DEF MemCalls
  <2>4. k.other \in MemItem /\ Textless(k.seen[k.other]) => Textless(row)
    BY <1>f DEF MemRow, Textless
  <2> HIDE DEF row, new
  <2>5. Shaped(c, new)
    BY <2>2, <2>3 DEF Shaped
  <2>6. ASSUME NEW i \in MemItem, Textless(memStore[i]), Harmless(k, i)
        PROVE  Textless(memStore'[i]) /\ Harmless(new, i)
    <3>1. k.item # i /\ (k.other = i => Textless(k.seen[k.other]))
      BY <2>1, <2>6 DEF Harmless
    <3>2. Harmless(new, i)
      BY <2>2, <2>3, <3>1 DEF Harmless
    <3>3. memStore'[i] = IF k.other = i THEN row ELSE memStore[i]
      BY <1>t, <2>1
    <3> QED  BY <2>4, <2>6, <3>1, <3>2, <3>3
  <2> QED  BY <1>w, <2>1, <2>5, <2>6
<1>2. CASE Put(c)
  <2>1. /\ k.pc = "put" /\ memStore' = [memStore EXCEPT ![k.item] = k.row]
        /\ memSources' = memSources
    BY <1>k, <1>2 DEF Put, MemAt, MemWrite
  <2>2. ASSUME NEW i \in MemItem, Textless(memStore[i]), Harmless(k, i)
        PROVE  /\ Textless(memStore'[i])
               /\ k.op = "create" \/ k.then = "last" => k.item # i
    <3>1. k.item = i => Textless(k.row) /\ k.op # "create" /\ k.then # "last"
      BY <2>1, <2>2 DEF Harmless
    <3>2. memStore'[i] = IF k.item = i THEN k.row ELSE memStore[i]
      BY <1>t, <2>1
    <3> QED  BY <2>2, <3>1, <3>2
  <2>3. ASSUME MemGoto(c, "source"), k.op = "create" \/ k.then = "last" PROVE Moved(c)
    <3> DEFINE new == [k EXCEPT !.pc = "source"]
    <3>1. memCall' = [memCall EXCEPT ![c] = new]
      BY <1>k, <2>3 DEF MemGoto
    <3>2. /\ new.pc = "source" /\ new.item = k.item /\ new.then = k.then /\ new.op = k.op
          /\ new.other = k.other /\ new.todo = k.todo /\ new.seen = k.seen
      BY DEF MemCalls
    <3> HIDE DEF new
    <3>3. Shaped(c, new)
      BY <1>k, <3>2 DEF Shaped
    <3>4. \A i : Harmless(k, i) /\ k.item # i => Harmless(new, i)
      BY <3>2 DEF Harmless
    <3> QED  BY <1>w, <2>1, <2>2, <2>3, <3>1, <3>3, <3>4
  <2>4. ASSUME MemGoto(c, "sweep"), c = MemWorker PROVE Moved(c)
    <3> DEFINE new == [k EXCEPT !.pc = "sweep"]
    <3>1. memCall' = [memCall EXCEPT ![c] = new]
      BY <1>k, <2>4 DEF MemGoto
    <3>2. /\ new.pc = "sweep" /\ new.then = k.then /\ new.op = k.op
          /\ new.other = k.other /\ new.todo = k.todo /\ new.seen = k.seen
      BY DEF MemCalls
    <3>3. k.then = "sweep"
      BY <1>k, <2>1, <2>4 DEF Shaped
    <3> HIDE DEF new
    <3>4. Shaped(c, new)
      BY <1>k, <3>2, <3>3 DEF Shaped
    <3>5. \A i : Harmless(k, i) => Harmless(new, i)
      BY <3>2, <3>3 DEF Harmless
    <3> QED  BY <1>w, <2>1, <2>2, <3>1, <3>4, <3>5
  <2>5. \/ MemEnd(c) \/ MemGoto(c, "unindex") \/ MemGoto(c, "index")
        \/ MemGoto(c, "source") /\ (k.op = "create" \/ k.then = "last")
        \/ MemGoto(c, "sweep") /\ c = MemWorker
    BY <1>k, <1>2 DEF Put
  <2>6. CASE MemEnd(c)
    BY <1>e, <2>1, <2>2, <2>6
  <2>7. CASE MemGoto(c, "unindex")
    BY <1>g, <2>1, <2>2, <2>7
  <2>8. CASE MemGoto(c, "index")
    BY <1>g, <2>1, <2>2, <2>8
  <2> QED  BY <2>3, <2>4, <2>5, <2>6, <2>7, <2>8
<1>3. CASE Source(c)
  <2> DEFINE new == [k EXCEPT !.pc = "index", !.then = "done"]
  <2>1. /\ k.pc = "source" /\ memSources' = memSources \cup {k.item}
        /\ memCall' = [memCall EXCEPT ![c] = new] /\ memStore' = memStore
    BY <1>k, <1>3 DEF Source, MemAt
  <2>2. new.pc = "index" /\ new.then = "done"
    BY DEF MemCalls
  <2> HIDE DEF new
  <2>3. Shaped(c, new) /\ \A i : Harmless(new, i)
    BY <2>2 DEF Shaped, Harmless
  <2>4. \A i : Harmless(k, i) => k.item # i
    BY <2>1 DEF Harmless
  <2> QED  BY <1>w, <2>1, <2>3, <2>4
<1>4. CASE Index(c)
  <2>1. /\ k.pc = "index" /\ UNCHANGED <<memStore, memSources>>
        /\ IF k.then = "done" THEN MemEnd(c) ELSE MemGoto(c, k.then)
    BY <1>k, <1>4 DEF Index, MemAt
  <2>2. CASE k.then = "done"
    BY <1>e, <2>1, <2>2
  <2>3. CASE k.then # "done"
    <3> DEFINE new == [k EXCEPT !.pc = k.then]
    <3>1. memCall' = [memCall EXCEPT ![c] = new]
      BY <1>k, <2>1, <2>3 DEF MemGoto
    <3>2. /\ new.pc = k.then /\ new.then = k.then /\ new.op = k.op
          /\ new.other = k.other /\ new.todo = k.todo /\ new.seen = k.seen
      BY DEF MemCalls
    <3>3. k.then \in {"sweep", "embed"}
      BY <1>k, <2>1, <2>3 DEF MemTyping, MemPlaced, MemCalls
    <3> HIDE DEF new
    <3>4. Shaped(c, new)
      BY <1>k, <3>2, <3>3 DEF Shaped
    <3>5. \A i : Harmless(k, i) => Harmless(new, i)
      BY <3>2, <3>3 DEF Harmless
    <3> QED  BY <1>r, <2>1, <3>1, <3>4, <3>5
  <2> QED  BY <2>2, <2>3
<1>5. CASE List(c)
  <2> DEFINE seen == [memStore EXCEPT ![k.item] = k.row]
             todo == {x \in MemItem \ {k.item} : memStore[x].group /\ memStore[x].status = "active"}
             new == [k EXCEPT !.pc = "sweep", !.other = k.item, !.seen = seen, !.todo = todo]
  <2>1. /\ k.pc = "list" /\ memCall' = [memCall EXCEPT ![c] = new]
        /\ UNCHANGED <<memStore, memSources>>
    BY <1>k, <1>5 DEF List, MemAt
  <2>2. ASSUME NEW i \in MemItem, Textless(memStore[i]), Harmless(k, i)
        PROVE  Textless(seen[i])
    <3>1. k.item = i => Textless(k.row)
      BY <2>1, <2>2 DEF Harmless
    <3>2. seen[i] = IF k.item = i THEN k.row ELSE memStore[i]
      BY <1>t
    <3> QED  BY <2>2, <3>1, <3>2
  <2> HIDE DEF seen, todo
  <2>3. /\ new.pc = "sweep" /\ new.other = k.item /\ new.seen = seen
        /\ new.op = k.op /\ new.then = k.then /\ new.item = k.item
    BY DEF MemCalls
  <2> HIDE DEF new
  <2>4. Shaped(c, new)
    BY <1>k, <2>1, <2>3 DEF Shaped
  <2>5. ASSUME NEW i \in MemItem, Textless(memStore[i]), Harmless(k, i)
        PROVE  Harmless(new, i)
    <3>1. Textless(seen[i])
      BY <2>2, <2>5
    <3>2. k.then = "done"
      BY <1>k, <2>1 DEF Shaped
    <3> QED  BY <2>3, <3>1, <3>2 DEF Harmless
  <2> QED  BY <1>r, <2>1, <2>4, <2>5
<1>6. CASE Sweep(c)
  <2>1. k.pc = "sweep" /\ UNCHANGED <<memStore, memSources>>
    BY <1>k, <1>6 DEF Sweep, MemAt
  <2>2. k.op \in {"confirm", "maintain"}
    BY <1>k, <2>1 DEF Shaped
  <2>3. ASSUME NEW x \in k.todo,
               memCall' = [memCall EXCEPT ![c].pc = "put", ![c].item = x, ![c].then = "sweep",
                             ![c].row = Swept(c, memCall[c].seen[x]), ![c].todo = @ \ {x}]
        PROVE  Moved(c)
    <3> DEFINE row == Swept(c, k.seen[x])
               new == [k EXCEPT !.pc = "put", !.item = x, !.then = "sweep", !.row = row,
                                !.todo = @ \ {x}]
    <3>1. memCall' = [memCall EXCEPT ![c] = new]
      BY <1>k, <1>t, <2>3
    <3>2. Textless(k.seen[x]) => Textless(row)
      <4>1. k.seen[x] \in MemRow
        BY <1>f
      <4> QED  BY <1>k, <4>1 DEF Swept, MemRow, Textless
    <3> HIDE DEF row
    <3>3. /\ new.pc = "put" /\ new.item = x /\ new.then = "sweep" /\ new.row = row
          /\ new.op = k.op /\ new.seen = k.seen /\ new.other = k.other /\ new.todo \subseteq k.todo
      BY DEF MemCalls
    <3> HIDE DEF new
    <3>4. Shaped(c, new)
      BY <1>k, <2>1, <2>2, <3>3 DEF Shaped
    <3>5. ASSUME NEW i \in MemItem, Harmless(k, i) PROVE Harmless(new, i)
      <4>1. i \in k.todo \/ k.other = i => Textless(k.seen[i])
        BY <2>1, <3>5 DEF Harmless
      <4> QED  BY <2>2, <3>2, <3>3, <4>1 DEF Harmless
    <3> QED  BY <1>r, <2>1, <3>1, <3>4, <3>5
  <2>4. ASSUME c # MemWorker,
               memCall' = [memCall EXCEPT ![c].pc = "put", ![c].item = memCall[c].other,
                              ![c].row = memCall[c].seen[memCall[c].other], ![c].then = "done",
                              ![c].seen = NoMemCall.seen]
        PROVE  Moved(c)
    <3> DEFINE row == k.seen[k.other]
               new == [k EXCEPT !.pc = "put", !.item = k.other, !.row = row, !.then = "done",
                                !.seen = NoMemCall.seen]
    <3>1. memCall' = [memCall EXCEPT ![c] = new]
      BY <1>k, <1>t, <2>4
    <3> HIDE DEF row
    <3>2. new.pc = "put" /\ new.item = k.other /\ new.then = "done" /\ new.row = row /\ new.op = k.op
      BY DEF MemCalls
    <3> HIDE DEF new
    <3>3. Shaped(c, new)
      BY <2>4, <3>2 DEF Shaped
    <3>4. ASSUME NEW i \in MemItem, Harmless(k, i) PROVE Harmless(new, i)
      <4>1. k.other = i => Textless(row)
        BY <2>1, <3>4 DEF Harmless, row
      <4> QED  BY <2>2, <3>2, <4>1 DEF Harmless
    <3> QED  BY <1>r, <2>1, <3>1, <3>3, <3>4
  <2>5. \/ \E x \in k.todo :
             memCall' = [memCall EXCEPT ![c].pc = "put", ![c].item = x, ![c].then = "sweep",
                           ![c].row = Swept(c, memCall[c].seen[x]), ![c].todo = @ \ {x}]
        \/ MemGoto(c, "fetch")
        \/ (c # MemWorker /\ memCall' = [memCall EXCEPT ![c].pc = "put",
                              ![c].item = memCall[c].other,
                              ![c].row = memCall[c].seen[memCall[c].other], ![c].then = "done",
                              ![c].seen = NoMemCall.seen])
    BY <1>k, <1>6 DEF Sweep
  <2>6. CASE MemGoto(c, "fetch")
    BY <1>g, <2>1, <2>6
  <2> QED  BY <2>3, <2>4, <2>5, <2>6
<1>7. CASE Embed(c)
  <2>1. k.pc = "embed" /\ UNCHANGED <<memStore, memSources>>
    BY <1>k, <1>7 DEF Embed, MemAt
  <2>2. CASE MemEnd(c)
    BY <1>e, <2>1, <2>2
  <2>3. ASSUME memCall' = [memCall EXCEPT ![c].pc = "put", ![c].item = memCall[c].other,
                             ![c].then = "last",
                             ![c].row = [@ EXCEPT !.status = "active", !.text = TRUE]]
        PROVE  Moved(c)
    <3> DEFINE row == [k.row EXCEPT !.status = "active", !.text = TRUE]
               new == [k EXCEPT !.pc = "put", !.item = k.other, !.then = "last", !.row = row]
    <3>1. memCall' = [memCall EXCEPT ![c] = new]
      BY <1>k, <1>t, <2>3
    <3> HIDE DEF row
    <3>2. new.pc = "put" /\ new.item = k.other /\ new.then = "last"
      BY DEF MemCalls
    <3> HIDE DEF new
    <3>3. Shaped(c, new)
      BY <1>k, <2>1, <3>2 DEF Shaped
    <3>4. \A i : Harmless(k, i) => Harmless(new, i)
      BY <2>1, <3>2 DEF Harmless
    <3> QED  BY <1>r, <2>1, <3>1, <3>3, <3>4
  <2> QED  BY <1>7, <2>2, <2>3 DEF Embed
<1>8. CASE Unindex(c)
  <2>1. UNCHANGED <<memStore, memSources>> /\ (MemGoto(c, "clean") \/ MemGoto(c, "scrub"))
    BY <1>8 DEF Unindex
  <2> QED  BY <1>g, <2>1
<1>9. CASE Scrub(c)
  <2>1. /\ memStore' = [memStore EXCEPT ![k.item] = Erased(memStore[k.item])]
        /\ MemGoto(c, "clean") /\ memSources' = memSources
    BY <1>k, <1>9 DEF Scrub, MemWrite
  <2>2. ASSUME NEW i \in MemItem, Textless(memStore[i]) PROVE Textless(memStore'[i])
    <3>1. PICK row \in MemRow : row = memStore[i]
      BY <1>t
    <3>2. Textless(Erased(row))
      BY DEF Erased, MemRow, Textless
    <3> QED  BY <1>t, <2>1, <2>2, <3>1, <3>2
  <2> QED  BY <1>g, <2>1, <2>2
<1>10. CASE Clean(c)
  <2>1. /\ memStore' = memStore /\ memSources' = memSources \ {k.item}
        /\ MemGoto(c, "next") \/ MemEnd(c)
    BY <1>k, <1>10 DEF Clean
  <2>2. CASE MemGoto(c, "next")
    BY <1>g, <2>1, <2>2
  <2>3. CASE MemEnd(c)
    BY <1>e, <2>1, <2>3
  <2> QED  BY <2>1, <2>2, <2>3
<1>11. CASE ClearNext(c)
  <2>1. k.pc = "next" /\ UNCHANGED <<memStore, memSources>>
    BY <1>k, <1>11 DEF ClearNext, MemAt
  <2>2. CASE MemEnd(c)
    BY <1>e, <2>1, <2>2
  <2>3. ASSUME NEW x \in k.todo,
               memCall' = [memCall EXCEPT ![c].pc = "unindex", ![c].item = x, ![c].todo = @ \ {x}]
        PROVE  Moved(c)
    <3> DEFINE new == [k EXCEPT !.pc = "unindex", !.item = x, !.todo = @ \ {x}]
    <3>1. memCall' = [memCall EXCEPT ![c] = new]
      BY <1>k, <1>t, <2>3
    <3>2. /\ new.pc = "unindex" /\ new.then = k.then /\ new.op = k.op /\ new.seen = k.seen
          /\ new.other = k.other /\ new.todo \subseteq k.todo
      BY DEF MemCalls
    <3> HIDE DEF new
    <3>3. Shaped(c, new)
      BY <1>k, <3>2 DEF Shaped
    <3>4. \A i : Harmless(k, i) => Harmless(new, i)
      BY <3>2 DEF Harmless
    <3> QED  BY <1>r, <2>1, <3>1, <3>3, <3>4
  <2> QED  BY <1>k, <1>11, <2>2, <2>3 DEF ClearNext
<1> QED
  BY <1>1, <1>2, <1>3, <1>4, <1>5, <1>6, <1>7, <1>8, <1>9, <1>10, <1>11 DEF MemStep

\* A round of the worker begins, and goes through the outbox.
LEMMA WorkerCarries ==
  ASSUME MemTyping, Shaped(MemWorker, memCall[MemWorker]), Maintain \/ Fetch \/ Retry
  PROVE  Moved(MemWorker)
PROOF
<1>t. /\ MemWorker \in Callers /\ memCall \in [Callers -> MemCalls] /\ NoMemCall.then = "done"
  BY NoMemCallTyped DEF MemTyping, Callers, NoMemCall
<1>1. CASE Maintain
  <2> DEFINE todo == Stale(memStore)
             r == [NoMemCall EXCEPT !.pc = "sweep", !.seen = memStore, !.todo = todo]
             k == [r EXCEPT !.op = "maintain"]
  <2>1. MemBegin(MemWorker, "maintain", r)
    BY <1>1 DEF Maintain
  <2> HIDE DEF todo
  <2>2. k.pc = "sweep" /\ k.op = "maintain" /\ k.seen = memStore /\ k.then = "done"
    BY <1>t, NoMemCallTyped DEF MemCalls
  <2> HIDE DEF r, k
  <2>3. Learns(MemWorker, k)
    BY <2>2 DEF Learns, Shaped, Harmless
  <2> QED  BY <1>t, <2>1, <2>3, BeginCarries DEF k
<1>2. ASSUME NEW new, memCall' = [memCall EXCEPT ![MemWorker] = new], Shaped(MemWorker, new),
             UNCHANGED <<memStore, memSources>>, \A i : Harmless(new, i)
      PROVE  Moved(MemWorker)
  <2>1. memCall'[MemWorker] = new /\ \A d \in Callers \ {MemWorker} : memCall'[d] = memCall[d]
    BY <1>t, <1>2
  <2> QED  BY <1>2, <2>1 DEF Moved, Carries
<1>3. CASE Fetch
  <2> DEFINE new == [NoMemCall EXCEPT !.op = "maintain", !.pc = "retry",
                                      !.jobs = {j \in memJobs : j.attempts < MaxAttempts}]
  <2>1. memCall' = [memCall EXCEPT ![MemWorker] = new] /\ UNCHANGED <<memStore, memSources>>
    BY <1>3 DEF Fetch
  <2>2. new.pc = "retry" /\ new.then = "done"
    BY <1>t, NoMemCallTyped DEF MemCalls
  <2> HIDE DEF new
  <2>3. Shaped(MemWorker, new) /\ \A i : Harmless(new, i)
    BY <2>2 DEF Shaped, Harmless
  <2> QED  BY <1>2, <2>1, <2>3
<1>4. CASE Retry
  <2>1. memCall[MemWorker].pc = "retry" /\ UNCHANGED <<memStore, memSources>>
    BY <1>4 DEF Retry, MemAt
  <2>2. CASE MemEnd(MemWorker)
    <3> DEFINE new == [NoMemCall EXCEPT !.pc = "idle"]
    <3>1. memCall' = [memCall EXCEPT ![MemWorker] = new]
      BY <2>2 DEF MemEnd
    <3>2. new.pc = "idle" /\ new.then = "done"
      BY <1>t, NoMemCallTyped DEF MemCalls
    <3> HIDE DEF new
    <3>3. Shaped(MemWorker, new) /\ \A i : Harmless(new, i)
      BY <3>2 DEF Shaped, Harmless
    <3> QED  BY <1>2, <2>1, <3>1, <3>3
  <2>3. ASSUME NEW j, memCall' = [memCall EXCEPT ![MemWorker].jobs = @ \ {j}]
        PROVE  memCall' = [memCall EXCEPT ![MemWorker] =
                             [memCall[MemWorker] EXCEPT !.jobs = @ \ {j}]]
    BY <1>t, <2>3
  <2>4. ASSUME NEW j, memCall' = [memCall EXCEPT ![MemWorker].jobs = @ \ {j}]
        PROVE  Moved(MemWorker)
    <3> DEFINE k == memCall[MemWorker]
               new == [k EXCEPT !.jobs = @ \ {j}]
    <3>1. memCall' = [memCall EXCEPT ![MemWorker] = new]
      BY <2>3, <2>4
    <3>k. k \in MemCalls
      BY <1>t
    <3> HIDE DEF k
    <3>2. /\ new.pc = k.pc /\ new.then = k.then /\ new.op = k.op /\ new.seen = k.seen
          /\ new.other = k.other /\ new.todo = k.todo /\ new.item = k.item /\ new.row = k.row
      BY <3>k DEF MemCalls
    <3> HIDE DEF new
    <3>3. memCall'[MemWorker] = new /\ \A d \in Callers \ {MemWorker} : memCall'[d] = memCall[d]
      BY <1>t, <3>1
    <3>4. Shaped(MemWorker, new)
      BY <2>4, <3>2 DEF Shaped, k
    <3>5. \A i : Harmless(k, i) => Harmless(new, i)
      BY <3>2 DEF Harmless
    <3> QED  BY <2>1, <3>3, <3>4, <3>5 DEF Moved, Carries, k
  <2> QED  BY <1>4, <2>2, <2>4 DEF Retry
<1> QED  BY <1>1, <1>3, <1>4

\* What is gone when call c has gone on: what was, or what no call holds.
LEMMA MovedKeeps ==
  ASSUME MemIInv, MemTyping', MemHistory', NEW c \in Callers, Moved(c),
         \A i \in memGone' : \/ i \in memGone
                             \/ Textless(memStore'[i]) /\ \A d \in Callers : Harmless(memCall'[d], i),
         memErased' \subseteq memGone',
         \A i \in memErased' : i \in memErased \/ i \notin memSources'
  PROVE  MemIInv'
PROOF
<1>0. /\ memGone \subseteq MemItem /\ memErased \subseteq memGone
      /\ \A d \in Callers : Shaped(d, memCall[d])
      /\ \A i \in memGone : Textless(memStore[i]) /\ \A d \in Callers : Harmless(memCall[d], i)
      /\ \A i \in memErased : i \notin memSources
  BY DEF MemIInv, MemHistory, StaysGone, StaysErased
<1>1. /\ Shaped(c, memCall'[c]) /\ \A d \in Callers \ {c} : memCall'[d] = memCall[d]
      /\ \A i \in memGone : /\ Textless(memStore'[i]) /\ Harmless(memCall'[c], i)
                            /\ i \in memSources' => i \in memSources
  BY <1>0 DEF Moved, Carries
<1>2. \A d \in Callers : Shaped(d, memCall'[d])
  BY <1>0, <1>1
<1>3. \A i \in memGone' : Textless(memStore'[i]) /\ \A d \in Callers : Harmless(memCall'[d], i)
  BY <1>0, <1>1
<1>4. \A i \in memErased' : i \notin memSources'
  BY <1>0, <1>1
<1>5. StaysGone'
  BY <1>3 DEF StaysGone, Textless, Harmless
<1>6. StaysErased'
  BY <1>4 DEF StaysErased
<1>7. \A d \in Callers : Shaped(d, memCall[d])'
  BY <1>2 DEF Shaped
<1> QED  BY <1>5, <1>6, <1>7 DEF MemIInv

\* What a call does not hold it cannot bring back.
LEMMA HoldsNothing ==
  ASSUME NEW d, Shaped(d, memCall[d]), NEW i, ~ Holds(d, i)
  PROVE  Harmless(memCall[d], i)
BY DEF Holds, Shaped, Harmless

LEMMA CallKeeps ==
  ASSUME MemIInv, MemTyping', MemHistory', NEW c \in Callers, MemStep(c)
  PROVE  MemIInv'
PROOF
<1>1. Moved(c) /\ memErased \subseteq memGone /\ \A d \in Callers : Shaped(d, memCall[d])
  BY CallCarries DEF MemIInv, StaysErased
<1>2. CASE UNCHANGED <<memGone, memErased>>
  BY <1>1, <1>2, MovedKeeps
<1>3. CASE Scrub(c)
  <2>1. PICK i : i = memCall[c].item
    OBVIOUS
  <2>2. memErased' \subseteq memGone' /\ memErased' \subseteq memErased
    BY <1>1, <1>3, <2>1 DEF Scrub
  <2>3. /\ memCall[c].pc = "scrub" /\ memStore' = [memStore EXCEPT ![i] = Erased(memStore[i])]
        /\ memCall' = [memCall EXCEPT ![c].pc = "clean"] /\ i \in MemItem
    BY <1>3, <2>1 DEF Scrub, MemWrite, MemGoto, MemAt, MemIInv, MemTyping, MemPlaced
  <2>4. ASSUME \A d \in Callers : ~ Holds(d, i)
        PROVE  Textless(memStore'[i]) /\ \A d \in Callers : Harmless(memCall'[d], i)
    <3>1. PICK row \in MemRow : row = memStore[i]
      BY <2>3 DEF MemIInv, MemTyping, MemStores
    <3>2. Textless(Erased(row))
      BY DEF Erased, MemRow, Textless
    <3>3. memStore'[i] = Erased(row)
      BY <2>3, <3>1 DEF MemIInv, MemTyping, MemStores
    <3>4. \A d \in Callers : Harmless(memCall[d], i)
      BY <1>1, <2>4, HoldsNothing
    <3>5. ASSUME NEW d \in Callers \ {c} PROVE memCall'[d] = memCall[d]
      BY <1>1, <3>5 DEF Moved
    <3>6. Harmless(memCall'[c], i)
      <4>1. PICK k \in MemCalls : k = memCall[c]
        BY DEF MemIInv, MemTyping
      <4> DEFINE new == [k EXCEPT !.pc = "clean"]
      <4>2. memCall'[c] = new
        BY <2>3, <4>1 DEF MemIInv, MemTyping
      <4>3. /\ new.pc = "clean" /\ new.then = k.then /\ new.other = k.other
            /\ new.todo = k.todo /\ new.seen = k.seen
        BY DEF MemCalls
      <4> HIDE DEF new
      <4> QED  BY <3>4, <4>1, <4>2, <4>3 DEF Harmless
    <3> QED  BY <3>2, <3>3, <3>4, <3>5, <3>6
  <2>5. \A x \in memGone' : \/ x \in memGone
                            \/ Textless(memStore'[x]) /\ \A d \in Callers : Harmless(memCall'[d], x)
    BY <1>3, <2>1, <2>4 DEF Scrub, Callers
  <2> QED  BY <1>1, <2>2, <2>5, MovedKeeps
<1>4. CASE Clean(c)
  <2>1. /\ memGone' = memGone /\ memSources' = memSources \ {memCall[c].item}
        /\ memErased' \subseteq memErased \cup (memGone \cap {memCall[c].item})
    BY <1>4 DEF Clean
  <2> QED  BY <1>1, <2>1, MovedKeeps
<1>5. MemStep(c) => Scrub(c) \/ Clean(c) \/ UNCHANGED <<memGone, memErased>>
  BY DEF MemStep, Mark, Put, Source, Index, List, Sweep, Embed, Unindex, ClearNext, memHistory
<1> QED  BY <1>2, <1>3, <1>4, <1>5

\* Expiry and another embedding model say nothing of texts, and leave each call where it is.
LEMMA AroundTheCalls ==
  ASSUME MemIInv, MemTyping', MemHistory', GrowLate \/ SwitchModel \/ UNCHANGED memVars
  PROVE  MemIInv'
PROOF
<1>1. CASE UNCHANGED <<memStore, memSources, memCall, memGone, memErased>>
  BY <1>1 DEF MemIInv, StaysGone, StaysErased, Textless, Harmless, Shaped
<1>2. CASE SwitchModel
  <2>1. /\ memStore \in [MemItem -> MemRow] /\ memCall \in [Callers -> MemCalls]
        /\ memGone \subseteq MemItem /\ StaysGone /\ StaysErased
        /\ \A c \in Callers : Shaped(c, memCall[c])
        /\ memStore' = [i \in MemItem |-> [memStore[i] EXCEPT !.fresh = FALSE]]
        /\ memCall' = [c \in DOMAIN memCall |->
                         IF memCall[c].op = "none" THEN memCall[c] ELSE Outdated(memCall[c])]
        /\ UNCHANGED <<memSources, memGone, memErased>>
    BY <1>2 DEF SwitchModel, MemIInv, MemTyping, MemStores, MemHistory, memHistory
  <2>2. \A i \in MemItem : Textless(memStore[i]) => Textless(memStore'[i])
    BY <2>1 DEF MemRow, Textless
  <2>3. ASSUME NEW k \in MemCalls, NEW c
        PROVE  /\ Shaped(c, k) => Shaped(c, Outdated(k))
               /\ \A i \in MemItem : Harmless(k, i) => Harmless(Outdated(k), i)
    <3> DEFINE fresh == k.row.fresh /\ k.pc = "mark"
               row == [k.row EXCEPT !.fresh = fresh]
               seen == [i \in MemItem |-> [k.seen[i] EXCEPT !.fresh = FALSE]]
               old == [k EXCEPT !.row = row, !.engine = FALSE, !.seen = seen]
    <3>1. k.row \in MemRow /\ k.seen \in [MemItem -> MemRow]
      BY DEF MemCalls
    <3>2. Outdated(k) = old
      BY DEF Outdated, MemCalls
    <3> HIDE DEF fresh
    <3>3. Textless(k.row) => Textless(row)
      BY <3>1 DEF MemRow, Textless
    <3>4. \A i \in MemItem : Textless(k.seen[i]) => Textless(seen[i])
      BY <3>1 DEF MemRow, Textless
    <3> HIDE DEF row, seen
    <3>5. /\ old.row = row /\ old.seen = seen /\ old.pc = k.pc /\ old.todo = k.todo
          /\ old.op = k.op /\ old.item = k.item /\ old.other = k.other /\ old.then = k.then
      BY DEF MemCalls
    <3> HIDE DEF old
    <3>6. Shaped(c, k) => Shaped(c, old)
      BY <3>5 DEF Shaped
    <3>7. \A i \in MemItem : Harmless(k, i) => Harmless(old, i)
      BY <3>3, <3>4, <3>5 DEF Harmless
    <3> QED  BY <3>2, <3>6, <3>7
  <2>4. ASSUME NEW c \in Callers
        PROVE  /\ Shaped(c, memCall'[c])
               /\ \A i \in MemItem : Harmless(memCall[c], i) => Harmless(memCall'[c], i)
    <3>1. memCall'[c] = memCall[c] \/ memCall'[c] = Outdated(memCall[c])
      BY <2>1
    <3>2. memCall[c] \in MemCalls /\ Shaped(c, memCall[c])
      BY <2>1
    <3> QED  BY <2>3, <3>1, <3>2
  <2>5. \A i \in memGone : Textless(memStore'[i]) /\ \A c \in Callers : Harmless(memCall'[c], i)
    BY <2>1, <2>2, <2>4 DEF StaysGone
  <2>6. StaysGone'
    BY <2>1, <2>5 DEF StaysGone, Textless, Harmless
  <2>7. StaysErased'
    BY <2>1 DEF StaysErased
  <2>8. \A c \in Callers : Shaped(c, memCall[c])'
    BY <2>4 DEF Shaped
  <2> QED  BY <2>6, <2>7, <2>8 DEF MemIInv
<1> QED  BY <1>1, <1>2 DEF GrowLate, memHistory, memVars

LEMMA MemoryStep == MemIInv /\ [MemNext]_memVars => MemIInv'
PROOF
<1> SUFFICES ASSUME MemIInv, [MemNext]_memVars PROVE MemIInv'
  OBVIOUS
<1>1. MemTyping' /\ MemHistory'
  BY MemTypingStep, MemHistoryStep DEF MemIInv
<1>2. MemRequest \subseteq Callers /\ MemWorker \in Callers
  BY DEF Callers
<1>3. ASSUME NEW c \in Callers, Moved(c), UNCHANGED <<memGone, memErased>> PROVE MemIInv'
  <2>1. memErased \subseteq memGone
    BY DEF MemIInv, StaysErased
  <2> QED  BY <1>1, <1>3, <2>1, MovedKeeps
<1>4. ASSUME NEW c \in MemRequest, MemStart(c) PROVE MemIInv'
  <2>1. Moved(c)
    BY <1>4, RequestCarries DEF MemIInv
  <2>2. UNCHANGED <<memGone, memErased>>
    BY <1>4, StartBegins DEF MemBegin
  <2> QED  BY <1>2, <1>3, <2>1, <2>2
<1>5. ASSUME NEW c \in Callers, MemStep(c) PROVE MemIInv'
  BY <1>1, <1>5, CallKeeps
<1>6. CASE Maintain \/ Fetch \/ Retry
  <2>1. Moved(MemWorker)
    BY <1>2, <1>6, WorkerCarries DEF MemIInv
  <2>2. UNCHANGED <<memGone, memErased>>
    BY <1>6 DEF Maintain, MemBegin, Fetch, Retry, memHistory
  <2> QED  BY <1>2, <1>3, <2>1, <2>2
<1>7. CASE GrowLate \/ SwitchModel \/ UNCHANGED memVars
  BY <1>1, <1>7, AroundTheCalls
<1> QED  BY <1>2, <1>4, <1>5, <1>6, <1>7 DEF MemNext

\* What was forgotten needs no fairness to stay so.
LEMMA ForgottenSafely == MemInit /\ [][MemNext]_memVars => []ErasedForGood
PROOF
<1>1. MemIInv => ErasedForGood
  BY DEF MemIInv, StaysGone, StaysErased, Textless, ErasedForGood
<1> QED  BY InitMemory, MemoryStep, <1>1, PTL

\* What was forgotten stays without content, embedding and sources, whatever is called later
\* or beside it (scrub, scrub_auxiliary and every method that writes back a copy): a row
\* scrubbed while no call has a copy of it stays empty for every copy made from then on.
THEOREM ForgottenStaysForgotten == MemSpec => []ErasedForGood
BY ForgottenSafely, PTL DEF MemSpec

\* What is active in a conflict group.
Contenders == {i \in MemItem : memStore[i].group /\ memStore[i].status = "active"}

\* A confirmation that has listed its conflict group supersedes it item by item: what is
\* active is the item that is confirmed, or is still to come, or was written by another call
\* since.
Replaces(k) == k.op = "confirm" /\ k.other # NoMem

Replacing(c, k) ==
  Replaces(k) =>
    /\ k.pc \in {"sweep", "put", "index"} /\ k.other \in MemItem
    /\ k.pc # "sweep" => k.then \in {"sweep", "done"} /\ k.item \in MemItem
    /\ \A i \in Contenders :
         i = k.other \/ i \in k.todo \/ (k.pc = "put" /\ i = k.item) \/ i \in memOthers[c]
    /\ k.pc # "sweep" /\ k.then = "done" => k.todo = {} /\ k.item = k.other
    /\ k.pc = "put" /\ k.then = "sweep" => k.row.status # "active"

AllReplacing == \A c \in MemRequest : Replacing(c, memCall[c])

\* Nothing is confirmed yet.
LEMMA InitReplacing == MemInit => AllReplacing
PROOF BY DEF MemInit, AllReplacing, Replacing, Replaces, NoMemCall

\* Its own steps.
LEMMA ReplacingStep ==
  ASSUME MemIInv, NEW c \in MemRequest, Replaces(memCall[c]), Replacing(c, memCall[c]), MemStep(c)
  PROVE  /\ Replacing(c, memCall[c])'
         /\ memCall'[c].pc = "done" => Contenders \subseteq {memCall[c].other} \cup memOthers'[c]
PROOF
<1>0. /\ c \in Callers /\ c # MemWorker /\ memCall \in [Callers -> MemCalls]
      /\ memStore \in [MemItem -> MemRow] /\ NoMem \notin MemItem
      /\ memOthers \in [MemRequest -> SUBSET MemItem]
  BY MemAssumption DEF Callers, MemIInv, MemTyping, MemStores, MemHistory
<1>k. PICK k \in MemCalls : k = memCall[c]
  BY <1>0
<1>r. Replaces(k) /\ Replacing(c, k)
  BY <1>k
<1>f. k.row \in MemRow /\ k.todo \subseteq MemItem /\ k.seen \in [MemItem -> MemRow]
  BY DEF MemCalls
<1>p. k.pc \in {"sweep", "put", "index"} /\ k.op = "confirm" /\ k.other \in MemItem
  BY <1>r DEF Replaces, Replacing
<1>w. ASSUME NEW new, memCall' = [memCall EXCEPT ![c] = new], Replacing(c, new)', new.pc # "done"
      PROVE  /\ Replacing(c, memCall[c])'
             /\ memCall'[c].pc = "done" => Contenders \subseteq {memCall[c].other} \cup memOthers'[c]
  <2>1. memCall'[c] = new
    BY <1>0, <1>w
  <2> QED  BY <1>w, <2>1
<1>1. CASE Put(c)
  <2> DEFINE new == [k EXCEPT !.pc = "index"]
  <2>1. /\ k.pc = "put" /\ memStore' = [memStore EXCEPT ![k.item] = k.row]
        /\ memOthers'[c] = memOthers[c] \ {k.item}
    BY <1>1, <1>k DEF Put, MemAt, MemWrite
  <2>2. k.item \in MemItem /\ k.then \in {"sweep", "done"}
    BY <1>r, <2>1 DEF Replacing
  <2>3. MemGoto(c, "index")
    BY <1>0, <1>1, <1>k, <1>p, <2>2 DEF Put
  <2>4. memCall' = [memCall EXCEPT ![c] = new]
    BY <1>0, <1>k, <2>3 DEF MemGoto
  <2>5. /\ new.pc = "index" /\ new.op = k.op /\ new.other = k.other /\ new.then = k.then
        /\ new.todo = k.todo /\ new.item = k.item
    BY DEF MemCalls
  <2> HIDE DEF new
  <2>6. memStore'[k.item] = k.row /\ \A i \in MemItem \ {k.item} : memStore'[i] = memStore[i]
    BY <1>0, <2>1, <2>2
  <2>7. ASSUME NEW i \in Contenders' PROVE i = k.other \/ i \in k.todo \/ i \in memOthers'[c]
    <3>1. CASE i = k.item
      <4>1. k.row.status = "active"
        BY <2>6, <2>7, <3>1 DEF Contenders
      <4> QED  BY <1>r, <2>1, <2>2, <3>1, <4>1 DEF Replacing
    <3>2. CASE i # k.item
      <4>1. i \in Contenders
        BY <2>6, <2>7, <3>2 DEF Contenders
      <4> QED  BY <1>r, <2>1, <3>2, <4>1 DEF Replacing
    <3> QED  BY <3>1, <3>2
  <2>8. Replacing(c, new)'
    BY <1>p, <1>r, <2>1, <2>2, <2>5, <2>7 DEF Replacing, Replaces
  <2> QED  BY <1>w, <2>4, <2>5, <2>8
<1>2. CASE Index(c)
  <2>1. /\ k.pc = "index" /\ UNCHANGED <<memStore, memOthers>>
        /\ IF k.then = "done" THEN MemEnd(c) ELSE MemGoto(c, k.then)
    BY <1>2, <1>k DEF Index, MemAt, memHistory
  <2>2. k.item \in MemItem /\ k.then \in {"sweep", "done"} /\ (k.then = "done" => k.todo = {})
    BY <1>r, <2>1 DEF Replacing
  <2>3. CASE k.then = "done"
    <3> DEFINE new == [NoMemCall EXCEPT !.pc = IF c = MemWorker THEN "idle" ELSE "done"]
    <3>1. memCall' = [memCall EXCEPT ![c] = new]
      BY <2>1, <2>3 DEF MemEnd
    <3>2. new.op = "none"
      BY DEF NoMemCall
    <3> HIDE DEF new
    <3>3. memCall'[c] = new
      BY <1>0, <3>1
    <3>4. Contenders \subseteq {k.other} \cup memOthers'[c]
      BY <1>r, <2>1, <2>2, <2>3 DEF Replacing
    <3> QED  BY <1>k, <3>2, <3>3, <3>4 DEF Replacing, Replaces
  <2>4. CASE k.then = "sweep"
    <3> DEFINE new == [k EXCEPT !.pc = "sweep"]
    <3>1. memCall' = [memCall EXCEPT ![c] = new]
      BY <1>0, <1>k, <2>1, <2>4 DEF MemGoto
    <3>2. /\ new.pc = "sweep" /\ new.op = k.op /\ new.other = k.other /\ new.todo = k.todo
      BY DEF MemCalls
    <3> HIDE DEF new
    <3>3. Contenders' = Contenders
      BY <2>1 DEF Contenders
    <3>4. Replacing(c, new)'
      BY <1>p, <1>r, <2>1, <3>2, <3>3 DEF Replacing, Replaces
    <3> QED  BY <1>w, <3>1, <3>2, <3>4
  <2> QED  BY <2>2, <2>3, <2>4
<1>3. CASE Sweep(c)
  <2>1. k.pc = "sweep" /\ UNCHANGED <<memStore, memOthers>>
    BY <1>3, <1>k DEF Sweep, MemAt, memHistory
  <2>2. Contenders' = Contenders
    BY <2>1 DEF Contenders
  <2>3. ASSUME NEW x \in k.todo,
               memCall' = [memCall EXCEPT ![c].pc = "put", ![c].item = x, ![c].then = "sweep",
                             ![c].row = Swept(c, memCall[c].seen[x]), ![c].todo = @ \ {x}]
        PROVE  /\ Replacing(c, memCall[c])'
               /\ memCall'[c].pc = "done" => Contenders \subseteq {memCall[c].other} \cup memOthers'[c]
    <3> DEFINE row == [k.seen[x] EXCEPT !.status = "superseded"]
               new == [k EXCEPT !.pc = "put", !.item = x, !.then = "sweep", !.row = row, !.todo = @ \ {x}]
    <3>1. Swept(c, memCall[c].seen[x]) = row
      BY <1>k, <1>p DEF Swept
    <3>2. memCall' = [memCall EXCEPT ![c] = new]
      BY <1>0, <1>k, <2>3, <3>1
    <3>3. x \in MemItem /\ row.status = "superseded"
      BY <1>f DEF MemRow
    <3> HIDE DEF row
    <3>4. /\ new.pc = "put" /\ new.op = k.op /\ new.other = k.other /\ new.then = "sweep"
          /\ new.todo = k.todo \ {x} /\ new.item = x /\ new.row = row
      BY DEF MemCalls
    <3> HIDE DEF new
    <3>5. Replacing(c, new)'
      BY <1>p, <1>r, <2>1, <2>2, <3>3, <3>4 DEF Replacing, Replaces
    <3> QED  BY <1>w, <3>2, <3>4, <3>5
  <2>4. ASSUME k.todo = {},
               memCall' = [memCall EXCEPT ![c].pc = "put", ![c].item = memCall[c].other,
                              ![c].row = memCall[c].seen[memCall[c].other], ![c].then = "done",
                              ![c].seen = NoMemCall.seen]
        PROVE  /\ Replacing(c, memCall[c])'
               /\ memCall'[c].pc = "done" => Contenders \subseteq {memCall[c].other} \cup memOthers'[c]
    <3> DEFINE new == [k EXCEPT !.pc = "put", !.item = k.other, !.row = k.seen[k.other],
                                !.then = "done", !.seen = NoMemCall.seen]
    <3>1. memCall' = [memCall EXCEPT ![c] = new]
      BY <1>0, <1>k, <2>4
    <3>2. /\ new.pc = "put" /\ new.op = k.op /\ new.other = k.other /\ new.then = "done"
          /\ new.todo = {} /\ new.item = k.other
      BY <2>4 DEF MemCalls
    <3> HIDE DEF new
    <3>3. Replacing(c, new)'
      BY <1>p, <1>r, <2>1, <2>2, <2>4, <3>2 DEF Replacing, Replaces
    <3> QED  BY <1>w, <3>1, <3>2, <3>3
  <2>5. \/ \E x \in k.todo :
             memCall' = [memCall EXCEPT ![c].pc = "put", ![c].item = x, ![c].then = "sweep",
                           ![c].row = Swept(c, memCall[c].seen[x]), ![c].todo = @ \ {x}]
        \/ (k.todo = {} /\ memCall' = [memCall EXCEPT ![c].pc = "put",
                              ![c].item = memCall[c].other,
                              ![c].row = memCall[c].seen[memCall[c].other], ![c].then = "done",
                              ![c].seen = NoMemCall.seen])
    BY <1>0, <1>3, <1>k DEF Sweep
  <2> QED  BY <2>3, <2>4, <2>5
<1>4. Put(c) \/ Index(c) \/ Sweep(c)
  BY <1>k, <1>p DEF MemStep, Mark, Source, List, Embed, Unindex, Scrub, Clean, ClearNext, MemAt
<1> QED  BY <1>1, <1>2, <1>3, <1>4

\* Expiry and another embedding model leave every call where it is.
LEMMA ReplacingAround ==
  ASSUME MemIInv, NEW c \in MemRequest, Replacing(c, memCall[c]),
         GrowLate \/ SwitchModel \/ UNCHANGED memVars
  PROVE  /\ Replacing(c, memCall[c])'
         /\ memCall'[c].pc = memCall[c].pc
PROOF
<1>0. /\ c \in Callers /\ memCall \in [Callers -> MemCalls] /\ memStore \in [MemItem -> MemRow]
  BY DEF Callers, MemIInv, MemTyping, MemStores
<1>1. CASE GrowLate \/ UNCHANGED memVars
  <2>1. UNCHANGED <<memCall, memStore, memOthers>>
    BY <1>1 DEF GrowLate, memVars, memHistory
  <2> QED  BY <2>1 DEF Replacing, Replaces, Contenders
<1>2. CASE SwitchModel
  <2>k. PICK k \in MemCalls : k = memCall[c]
    BY <1>0
  <2>1. \A i \in MemItem : memStore'[i].group = memStore[i].group /\ memStore'[i].status = memStore[i].status
    BY <1>0, <1>2 DEF SwitchModel, MemRow
  <2>2. Contenders' = Contenders /\ memOthers' = memOthers
    BY <1>2, <2>1 DEF Contenders, SwitchModel, memHistory
  <2>3. PICK fresh : fresh = (k.row.fresh /\ k.pc = "mark")
    OBVIOUS
  <2>4. PICK seen : seen = [i \in MemItem |-> [k.seen[i] EXCEPT !.fresh = FALSE]]
    OBVIOUS
  <2>5. PICK row : row = [k.row EXCEPT !.fresh = fresh]
    OBVIOUS
  <2>6. PICK new : new = [k EXCEPT !.row = row, !.engine = FALSE, !.seen = seen]
    OBVIOUS
  <2>7. Outdated(k) = new
    BY <2>3, <2>4, <2>5, <2>6 DEF Outdated, MemCalls
  <2>8. row.status = k.row.status
    BY <2>5 DEF MemCalls, MemRow
  <2>9. /\ new.pc = k.pc /\ new.op = k.op /\ new.other = k.other /\ new.then = k.then
        /\ new.todo = k.todo /\ new.item = k.item /\ new.row.status = k.row.status
    BY <2>6, <2>8 DEF MemCalls
  <2>10. memCall'[c] = k \/ memCall'[c] = new
    BY <1>0, <1>2, <2>k, <2>7 DEF SwitchModel
  <2>11. Replacing(c, k)' /\ Replacing(c, new)'
    BY <2>2, <2>9, <2>k DEF Replacing, Replaces
  <2> QED  BY <2>9, <2>10, <2>11, <2>k
<1> QED  BY <1>1, <1>2

\* A call that begins replaces nothing yet.
LEMMA BeginsPlain ==
  ASSUME MemIInv, NEW c \in MemRequest, MemStart(c)
  PROVE  ~ Replaces(memCall'[c])
PROOF
<1>0. c \in Callers /\ memCall \in [Callers -> MemCalls] /\ NoMemCall \in MemCalls /\ NoMemCall.other = NoMem
  BY NoMemCallTyped DEF Callers, MemIInv, MemTyping, MemStores, NoMemCall
<1>1. ASSUME NEW op, NEW r, MemBegin(c, op, r), [r EXCEPT !.op = op].op = op, op # "confirm"
      PROVE  ~ Replaces(memCall'[c])
  BY <1>0, <1>1 DEF MemBegin, Replaces
<1>2. ASSUME NEW i, NEW x, NEW status, NEW mortal, Create(c, i, status, mortal, x)
      PROVE  ~ Replaces(memCall'[c])
  <2> DEFINE pc == IF x # NoMem /\ ~ memStore[x].group THEN "mark" ELSE "put"
             row == [status |-> IF x # NoMem /\ status = "candidate" THEN "conflicted" ELSE status,
                     text |-> TRUE, group |-> x # NoMem, fresh |-> TRUE, mortal |-> mortal]
             r == [NoMemCall EXCEPT !.pc = pc, !.item = i, !.other = x, !.row = row,
                                    !.seen = IF x # NoMem THEN memStore ELSE @]
  <2>1. MemBegin(c, "create", r)
    BY <1>2 DEF Create
  <2> HIDE DEF pc, row
  <2>2. [r EXCEPT !.op = "create"].op = "create"
    BY <1>0 DEF MemCalls
  <2> HIDE DEF r
  <2> QED  BY <1>1, <2>1, <2>2
<1>3. ASSUME NEW i, NEW replace, Confirm(c, i, replace) PROVE ~ Replaces(memCall'[c])
  <2> DEFINE row == [memStore[i] EXCEPT !.status = "active"]
             pc == IF memStore[i].group /\ replace THEN "list" ELSE "put"
             r == [NoMemCall EXCEPT !.pc = pc, !.item = i, !.row = row]
  <2>1. MemBegin(c, "confirm", r)
    BY <1>3 DEF Confirm
  <2> HIDE DEF row, pc
  <2>2. [r EXCEPT !.op = "confirm"].other = NoMem
    BY <1>0 DEF MemCalls
  <2> HIDE DEF r
  <2> QED  BY <1>0, <2>1, <2>2 DEF MemBegin, Replaces
<1>4. ASSUME NEW i, Reject(c, i) \/ Forget(c, i) \/ Feedback(c, i) \/ (\E new : Correct(c, i, new))
      PROVE  ~ Replaces(memCall'[c])
  <2>1. ASSUME NEW op \in {"reject", "feedback"}, NEW row,
               MemBegin(c, op, [NoMemCall EXCEPT !.pc = "put", !.item = i, !.row = row])
        PROVE  ~ Replaces(memCall'[c])
    <3>1. [[NoMemCall EXCEPT !.pc = "put", !.item = i, !.row = row] EXCEPT !.op = op].op = op
      BY <1>0 DEF MemCalls
    <3> QED  BY <1>1, <2>1, <3>1
  <2>2. CASE Reject(c, i)
    BY <2>1, <2>2 DEF Reject
  <2>3. CASE Feedback(c, i)
    BY <2>1, <2>3 DEF Feedback
  <2>4. CASE Forget(c, i)
    <3>1. [[NoMemCall EXCEPT !.pc = "unindex", !.item = i] EXCEPT !.op = "forget"].op = "forget"
      BY <1>0 DEF MemCalls
    <3> QED  BY <1>1, <2>4, <3>1 DEF Forget
  <2>5. ASSUME NEW new, Correct(c, i, new) PROVE ~ Replaces(memCall'[c])
    <3> DEFINE row == [memStore[i] EXCEPT !.status = "superseded"]
               r == [NoMemCall EXCEPT !.pc = "put", !.item = i, !.other = new, !.then = "embed",
                                      !.row = row]
    <3>1. MemBegin(c, "correct", r)
      BY <2>5 DEF Correct
    <3> HIDE DEF row
    <3>2. [r EXCEPT !.op = "correct"].op = "correct"
      BY <1>0 DEF MemCalls
    <3> HIDE DEF r
    <3> QED  BY <1>1, <3>1, <3>2
  <2> QED  BY <1>4, <2>2, <2>3, <2>4, <2>5
<1>5. ASSUME Clear(c) PROVE ~ Replaces(memCall'[c])
  <2> DEFINE todo == {i \in MemItem : Exists(i)}
             r == [NoMemCall EXCEPT !.pc = "next", !.todo = todo]
  <2>1. MemBegin(c, "clear", r)
    BY <1>5 DEF Clear
  <2> HIDE DEF todo
  <2>2. [r EXCEPT !.op = "clear"].op = "clear"
    BY <1>0 DEF MemCalls
  <2> HIDE DEF r
  <2> QED  BY <1>1, <2>1, <2>2
<1> QED
  BY <1>2, <1>3, <1>4, <1>5
  DEF MemStart, OwnerRequest, AdminRequest, RememberTool, ForgetTool, ExtractCandidate,
      CaptureEpisode, StoreAny, Store, Ruling

\* A confirmation begins to replace when it lists its conflict group.
LEMMA ListReplaces ==
  ASSUME MemIInv, NEW c \in MemRequest, ~ Replaces(memCall[c]), MemStep(c)
  PROVE  Replacing(c, memCall[c])'
PROOF
<1>0. /\ c \in Callers /\ c # MemWorker /\ memCall \in [Callers -> MemCalls] /\ NoMem \notin MemItem
  BY MemAssumption DEF Callers, MemIInv, MemTyping, MemStores
<1>k. PICK k \in MemCalls : k = memCall[c]
  BY <1>0
<1>w. ASSUME NEW new, memCall' = [memCall EXCEPT ![c] = new], Replacing(c, new)' \/ ~ Replaces(new)
      PROVE  Replacing(c, memCall[c])'
  <2>1. memCall'[c] = new
    BY <1>0, <1>w
  <2> QED  BY <1>w, <2>1 DEF Replacing
<1>e. MemEnd(c) => Replacing(c, memCall[c])'
  <2> DEFINE new == [NoMemCall EXCEPT !.pc = IF c = MemWorker THEN "idle" ELSE "done"]
  <2> SUFFICES ASSUME MemEnd(c) PROVE Replacing(c, memCall[c])'
    OBVIOUS
  <2>1. memCall' = [memCall EXCEPT ![c] = new] /\ new.op = "none"
    BY DEF MemEnd, NoMemCall
  <2> HIDE DEF new
  <2>2. ~ Replaces(new)
    BY <2>1 DEF Replaces
  <2> QED  BY <1>w, <2>1, <2>2
<1>g. ASSUME NEW pc, MemGoto(c, pc) PROVE Replacing(c, memCall[c])'
  <2> DEFINE new == [k EXCEPT !.pc = pc]
  <2>1. memCall' = [memCall EXCEPT ![c] = new]
    BY <1>0, <1>g, <1>k DEF MemGoto
  <2>2. new.op = k.op /\ new.other = k.other
    BY DEF MemCalls
  <2> HIDE DEF new
  <2> QED  BY <1>k, <1>w, <2>1, <2>2 DEF Replaces
<1>1. CASE List(c)
  <2>t. PICK todo : todo = {x \in MemItem \ {k.item} : memStore[x].group /\ memStore[x].status = "active"}
    OBVIOUS
  <2>s. PICK seen : seen = [memStore EXCEPT ![k.item] = k.row]
    OBVIOUS
  <2>n. PICK new : new = [k EXCEPT !.pc = "sweep", !.other = k.item, !.seen = seen, !.todo = todo]
    OBVIOUS
  <2>1. k.pc = "list" /\ memStore' = memStore /\ memCall' = [memCall EXCEPT ![c] = new]
    BY <1>0, <1>1, <1>k, <2>t, <2>s, <2>n DEF List, MemAt
  <2>2. k.item \in MemItem
    BY <1>0, <1>k, <2>1 DEF MemIInv, MemTyping, MemPlaced
  <2>3. \A i \in Contenders : i = k.item \/ i \in todo
    BY <2>t DEF Contenders
  <2>4. new.pc = "sweep" /\ new.other = k.item /\ new.todo = todo
    BY <2>n DEF MemCalls
  <2>5. Contenders' = Contenders
    BY <2>1 DEF Contenders
  <2>6. Replacing(c, new)'
    BY <2>2, <2>3, <2>4, <2>5 DEF Replacing
  <2> QED  BY <1>w, <2>1, <2>6
<1>2. CASE Mark(c)
  <2> DEFINE new == [k EXCEPT !.pc = "put", !.seen = NoMemCall.seen]
  <2>1. memCall' = [memCall EXCEPT ![c] = new] /\ new.op = k.op /\ new.other = k.other
    BY <1>0, <1>2, <1>k DEF Mark, MemCalls
  <2> HIDE DEF new
  <2> QED  BY <1>k, <1>w, <2>1 DEF Replaces
<1>3. CASE Put(c)
  BY <1>3, <1>e, <1>g DEF Put
<1>4. CASE Source(c)
  <2> DEFINE new == [k EXCEPT !.pc = "index", !.then = "done"]
  <2>1. memCall' = [memCall EXCEPT ![c] = new] /\ new.op = k.op /\ new.other = k.other
    BY <1>0, <1>4, <1>k DEF Source, MemCalls
  <2> HIDE DEF new
  <2> QED  BY <1>k, <1>w, <2>1 DEF Replaces
<1>5. CASE Index(c)
  BY <1>5, <1>e, <1>g DEF Index
<1>6. CASE Sweep(c)
  <2>1. ASSUME NEW x,
               memCall' = [memCall EXCEPT ![c].pc = "put", ![c].item = x, ![c].then = "sweep",
                             ![c].row = Swept(c, memCall[c].seen[x]), ![c].todo = @ \ {x}]
        PROVE  Replacing(c, memCall[c])'
    <3> DEFINE row == Swept(c, memCall[c].seen[x])
               new == [k EXCEPT !.pc = "put", !.item = x, !.then = "sweep", !.row = row, !.todo = @ \ {x}]
    <3> HIDE DEF row
    <3>1. memCall' = [memCall EXCEPT ![c] = new]
      BY <1>0, <1>k, <2>1 DEF row
    <3>2. new.op = k.op /\ new.other = k.other
      BY DEF MemCalls
    <3> HIDE DEF new
    <3> QED  BY <1>k, <1>w, <3>1, <3>2 DEF Replaces
  <2>2. ASSUME memCall' = [memCall EXCEPT ![c].pc = "put", ![c].item = memCall[c].other,
                              ![c].row = memCall[c].seen[memCall[c].other], ![c].then = "done",
                              ![c].seen = NoMemCall.seen]
        PROVE  Replacing(c, memCall[c])'
    <3> DEFINE new == [k EXCEPT !.pc = "put", !.item = k.other, !.row = k.seen[k.other],
                                !.then = "done", !.seen = NoMemCall.seen]
    <3>1. memCall' = [memCall EXCEPT ![c] = new]
      BY <1>0, <1>k, <2>2
    <3>2. new.op = k.op /\ new.other = k.other
      BY DEF MemCalls
    <3> HIDE DEF new
    <3> QED  BY <1>k, <1>w, <3>1, <3>2 DEF Replaces
  <2> QED  BY <1>0, <1>6, <2>1, <2>2 DEF Sweep
<1>7. CASE Embed(c)
  <2>1. ASSUME memCall' = [memCall EXCEPT ![c].pc = "put", ![c].item = memCall[c].other,
                             ![c].then = "last",
                             ![c].row = [@ EXCEPT !.status = "active", !.text = TRUE]]
        PROVE  Replacing(c, memCall[c])'
    <3> DEFINE row == [k.row EXCEPT !.status = "active", !.text = TRUE]
               new == [k EXCEPT !.pc = "put", !.item = k.other, !.then = "last", !.row = row]
    <3>1. memCall' = [memCall EXCEPT ![c] = new]
      BY <1>0, <1>k, <2>1
    <3> HIDE DEF row
    <3>2. new.op = k.op /\ new.other = k.other
      BY DEF MemCalls
    <3> HIDE DEF new
    <3> QED  BY <1>k, <1>w, <3>1, <3>2 DEF Replaces
  <2> QED  BY <1>7, <1>e, <2>1 DEF Embed
<1>8. CASE Unindex(c) \/ Scrub(c) \/ Clean(c)
  BY <1>8, <1>e, <1>g DEF Unindex, Scrub, Clean
<1>9. CASE ClearNext(c)
  <2>1. ASSUME NEW x, memCall' = [memCall EXCEPT ![c].pc = "unindex", ![c].item = x, ![c].todo = @ \ {x}]
        PROVE  Replacing(c, memCall[c])'
    <3> DEFINE new == [k EXCEPT !.pc = "unindex", !.item = x, !.todo = @ \ {x}]
    <3>1. memCall' = [memCall EXCEPT ![c] = new]
      BY <1>0, <1>k, <2>1
    <3>2. new.op = k.op /\ new.other = k.other
      BY DEF MemCalls
    <3> HIDE DEF new
    <3> QED  BY <1>k, <1>w, <3>1, <3>2 DEF Replaces
  <2> QED  BY <1>9, <1>e, <2>1 DEF ClearNext
<1> QED
  BY <1>1, <1>2, <1>3, <1>4, <1>5, <1>6, <1>7, <1>8, <1>9 DEF MemStep

\* The others' steps leave the call as it is, and what they write it will know of.
LEMMA OthersLeave ==
  ASSUME MemIInv, NEW c \in MemRequest,
         \/ \E d \in Callers \ {c} : MemStep(d)
         \/ \E d \in MemRequest \ {c} : MemStart(d)
         \/ Maintain \/ Fetch \/ Retry
  PROVE  /\ memCall'[c] = memCall[c]
         /\ Replaces(memCall[c]) =>
              /\ memOthers[c] \subseteq memOthers'[c]
              /\ \A i \in MemItem : memStore'[i] = memStore[i] \/ i \in memOthers'[c]
PROOF
<1>0. /\ c \in Callers /\ c # MemWorker /\ MemRequest \subseteq Callers /\ MemWorker \in Callers
      /\ MemTyping /\ memStore \in [MemItem -> MemRow] /\ \A d \in Callers : Shaped(d, memCall[d])
      /\ memOthers \in [MemRequest -> SUBSET MemItem]
  BY MemAssumption DEF Callers, MemIInv, MemTyping, MemStores, MemHistory
<1>w. ASSUME NEW d \in Callers \ {c}, NEW i, NEW row, MemWrite(d, i, row), Replaces(memCall[c])
      PROVE  /\ memOthers[c] \subseteq memOthers'[c]
             /\ \A x \in MemItem : memStore'[x] = memStore[x] \/ x \in memOthers'[c]
  <2>1. memOthers'[c] = memOthers[c] \cup {i} /\ memStore' = [memStore EXCEPT ![i] = row]
    BY <1>w DEF MemWrite, Replaces
  <2> QED  BY <1>0, <2>1
<1>1. ASSUME NEW d \in Callers \ {c}, MemStep(d)
      PROVE  /\ memCall'[c] = memCall[c]
             /\ Replaces(memCall[c]) =>
                  /\ memOthers[c] \subseteq memOthers'[c]
                  /\ \A i \in MemItem : memStore'[i] = memStore[i] \/ i \in memOthers'[c]
  <2>1. memCall'[c] = memCall[c]
    BY <1>0, <1>1, CallCarries DEF Moved
  <2>2. \/ \E i, row : MemWrite(d, i, row)
        \/ memStore' = memStore /\ memOthers'[c] = memOthers[c]
    <3>1. CASE Mark(d) \/ Put(d) \/ Scrub(d)
      BY <3>1 DEF Mark, Put, Scrub
    <3>2. CASE List(d)
      BY <1>0, <3>2 DEF List
    <3>3. CASE \/ Source(d) \/ Index(d) \/ Sweep(d) \/ Embed(d) \/ Unindex(d) \/ Clean(d)
               \/ ClearNext(d)
      BY <3>3 DEF Source, Index, Sweep, Embed, Unindex, Clean, ClearNext, memHistory
    <3> QED  BY <1>1, <3>1, <3>2, <3>3 DEF MemStep
  <2> QED  BY <1>w, <2>1, <2>2
<1>2. ASSUME NEW d \in MemRequest \ {c}, MemStart(d)
      PROVE  memCall'[c] = memCall[c] /\ UNCHANGED <<memStore, memOthers>>
  <2>1. memCall'[c] = memCall[c]
    BY <1>0, <1>2, RequestCarries DEF Moved
  <2>2. UNCHANGED <<memStore, memOthers>>
    BY <1>2, StartBegins DEF MemBegin
  <2> QED  BY <2>1, <2>2
<1>3. ASSUME Maintain \/ Fetch \/ Retry
      PROVE  memCall'[c] = memCall[c] /\ UNCHANGED <<memStore, memOthers>>
  <2>1. memCall'[c] = memCall[c]
    BY <1>0, <1>3, WorkerCarries DEF Moved
  <2>2. UNCHANGED <<memStore, memOthers>>
    BY <1>3 DEF Maintain, MemBegin, Fetch, Retry, memHistory
  <2> QED  BY <2>1, <2>2
<1> QED  BY <1>1, <1>2, <1>3

\* Every step.
LEMMA ReplacingKept ==
  ASSUME MemIInv, AllReplacing, [MemNext]_memVars, NEW c \in MemRequest
  PROVE  /\ Replacing(c, memCall[c])'
         /\ Replaces(memCall[c]) /\ memCall'[c].pc = "done"
              => Contenders \subseteq {memCall[c].other} \cup memOthers'[c]
PROOF
<1>0. /\ c \in Callers /\ MemWorker \in Callers /\ MemRequest \subseteq Callers
      /\ Replacing(c, memCall[c]) /\ memStore \in [MemItem -> MemRow]
  BY DEF Callers, AllReplacing, MemIInv, MemTyping, MemStores
<1>p. Replaces(memCall[c]) => memCall[c].pc \notin {"idle", "done"}
  BY <1>0 DEF Replacing
<1>1. CASE GrowLate \/ SwitchModel \/ UNCHANGED memVars
  BY <1>0, <1>1, <1>p, ReplacingAround
<1>2. CASE MemStep(c)
  <2>1. CASE Replaces(memCall[c])
    BY <1>0, <1>2, <2>1, ReplacingStep
  <2>2. CASE ~ Replaces(memCall[c])
    BY <1>2, <2>2, ListReplaces
  <2> QED  BY <2>1, <2>2
<1>3. CASE MemStart(c)
  <2>1. memCall[c].pc = "idle"
    BY <1>3, StartBegins DEF MemBegin, MemAt
  <2>2. ~ Replaces(memCall'[c])
    BY <1>3, BeginsPlain
  <2> QED  BY <1>p, <2>1, <2>2 DEF Replacing, Replaces
<1>4. CASE \/ \E d \in Callers \ {c} : MemStep(d)
           \/ \E d \in MemRequest \ {c} : MemStart(d)
           \/ Maintain \/ Fetch \/ Retry
  <2>1. /\ memCall'[c] = memCall[c]
        /\ Replaces(memCall[c]) =>
             /\ memOthers[c] \subseteq memOthers'[c]
             /\ \A i \in MemItem : memStore'[i] = memStore[i] \/ i \in memOthers'[c]
    BY <1>4, OthersLeave
  <2>2. Replaces(memCall[c]) => \A i \in Contenders' : i \in Contenders \/ i \in memOthers'[c]
    BY <2>1 DEF Contenders
  <2>3. Replacing(c, memCall[c])'
    <3>1. PICK k : k = memCall[c]
      OBVIOUS
    <3>2. Replacing(c, k)'
      BY <1>0, <2>1, <2>2, <3>1 DEF Replacing
    <3> QED  BY <2>1, <3>1, <3>2
  <2> QED  BY <1>p, <2>1, <2>3
<1>5. \/ MemStep(c) \/ MemStart(c)
      \/ \E d \in Callers \ {c} : MemStep(d)
      \/ \E d \in MemRequest \ {c} : MemStart(d)
      \/ Maintain \/ Fetch \/ Retry
      \/ GrowLate \/ SwitchModel \/ UNCHANGED memVars
  BY <1>0 DEF MemNext
<1> QED  BY <1>1, <1>2, <1>3, <1>4, <1>5

\* Nor does it take fairness to supersede the others before the confirmation returns.
LEMMA ConfirmedSafely == MemInit /\ [][MemNext]_memVars => ReplacedAtOnce
PROOF
<1>1. MemIInv /\ AllReplacing /\ [MemNext]_memVars => AllReplacing'
  BY ReplacingKept DEF AllReplacing
<1>2. MemIInv /\ AllReplacing /\ [MemNext]_memVars
        => [\A c \in MemRequest :
              memCall[c].op = "confirm" /\ memCall[c].other # NoMem /\ memCall'[c].pc = "done"
                => {i \in MemItem : memStore[i].group /\ memStore[i].status = "active"}
                     \subseteq {memCall[c].other} \cup memOthers'[c]]_memVars
  BY ReplacingKept DEF Replaces, Contenders
<1> QED  BY InitMemory, InitReplacing, MemoryStep, <1>1, <1>2, PTL DEF ReplacedAtOnce

\* After a confirmation that replaces its conflicts nothing else of the group is active but
\* what other calls have written since it was listed: the members listed are all there were,
\* and each was superseded before the last write (confirm).
THEOREM ConfirmedAlone == MemSpec => ReplacedAtOnce
BY ConfirmedSafely, PTL DEF MemSpec
=============================================================================
