---------------------------- MODULE Attachments ----------------------------
(***************************************************************************)
(* The LocalAttachmentStore: an image that several threads of one process   *)
(* upload, as an object file, a temporary file and a metadata file, and the *)
(* log of a session that refers to it.                                      *)
(***************************************************************************)
EXTENDS Naturals

CONSTANTS
  AtUpload,    \* requests that upload the image
  AtSizes,     \* the metadata has up to so many lengths: it holds the name given by the request
  AtCrashes    \* bound on crashes

ASSUME AtAssumption == AtCrashes \in Nat /\ AtSizes \in Nat \ {0}

VARIABLES
  atImage,     \* the files of the image
  atUpload,    \* what each upload is doing
  atKept,      \* history: whether an upload has answered
  atLog,       \* whether a user.message in a log refers to the image
  atTorn,      \* history: whether a crash came while a file in use was written
  atSize,      \* the length of the metadata file
  atMixed,     \* history: whether it was last written over another text of another length
  atCrashes

atVars == <<atImage, atUpload, atKept, atLog, atTorn, atSize, atMixed, atCrashes>>

AtFile == {"absent", "partial", "whole"}

AtUploads == [pc : {"idle", "open", "write", "replace", "meta", "flush", "done"},
              file : {"none", "temporary", "object"}, size : 1..AtSizes]

AtTypeOK ==
  /\ atImage \in [object : AtFile, temporary : AtFile, metadata : AtFile]
  /\ atUpload \in [AtUpload -> AtUploads]
  /\ atKept \in BOOLEAN /\ atLog \in BOOLEAN /\ atTorn \in BOOLEAN
  /\ atSize \in 0..AtSizes /\ atMixed \in BOOLEAN
  /\ atCrashes \in 0..AtCrashes

AtInit ==
  /\ atImage = [object |-> "absent", temporary |-> "absent", metadata |-> "absent"]
  /\ atUpload = [u \in AtUpload |-> [pc |-> "idle", file |-> "none", size |-> 1]]
  /\ atKept = FALSE /\ atLog = FALSE /\ atTorn = FALSE /\ atCrashes = 0
  /\ atSize = 0 /\ atMixed = FALSE

Uploading(u) == atUpload[u].pc \notin {"idle", "done"}

\* get
Readable == atImage.object = "whole" /\ atImage.metadata = "whole"

---------------------------------------------------------------------------
(* save *)

UploadTo(u, pc) == atUpload' = [atUpload EXCEPT ![u].pc = pc]

\* Variant of Upload: an image of which there is a temporary file counts as saved.
Upload_TemporaryCounts(u) ==
  /\ atUpload[u].pc = "idle"
  /\ \E size \in 1..AtSizes :
       atUpload' = [atUpload EXCEPT ![u].size = size,
         ![u].pc = IF atImage.object = "absent" /\ atImage.temporary = "absent" THEN "open" ELSE "meta"]
  /\ UNCHANGED <<atImage, atKept, atLog, atTorn, atSize, atMixed, atCrashes>>

\* An image that is there is not written again.
Upload(u) ==
  /\ atUpload[u].pc = "idle"
  /\ \E size \in 1..AtSizes :
       atUpload' = [atUpload EXCEPT ![u].size = size,
                                    ![u].pc = IF atImage.object = "absent" THEN "open" ELSE "meta"]
  /\ UNCHANGED <<atImage, atKept, atLog, atTorn, atSize, atMixed, atCrashes>>

\* The temporary file has the name of the process, so two threads share it.
OpenTemporary(u) ==
  /\ atUpload[u].pc = "open"
  /\ atImage' = [atImage EXCEPT !.temporary = "partial"]
  /\ atUpload' = [atUpload EXCEPT ![u].pc = "write", ![u].file = "temporary"]
  /\ UNCHANGED <<atKept, atLog, atTorn, atSize, atMixed, atCrashes>>

\* What was opened may have been renamed meanwhile.
WriteTemporary(u) ==
  /\ atUpload[u].pc = "write"
  /\ atImage' = [atImage EXCEPT ![atUpload[u].file] = "whole"]
  /\ atUpload' = [atUpload EXCEPT ![u].pc = "replace", ![u].file = "none"]
  /\ UNCHANGED <<atKept, atLog, atTorn, atSize, atMixed, atCrashes>>

\* temporary.replace fails when another thread has done it.
Replace(u) ==
  /\ atUpload[u].pc = "replace"
  /\ IF atImage.temporary = "absent" THEN UploadTo(u, "done") /\ UNCHANGED atImage
     ELSE /\ atImage' = [atImage EXCEPT !.object = atImage.temporary, !.temporary = "absent"]
          /\ atUpload' = [v \in AtUpload |->
                            IF v = u THEN [atUpload[u] EXCEPT !.pc = "meta", !.file = "none"]
                            ELSE IF atUpload[v].file = "temporary" THEN [atUpload[v] EXCEPT !.file = "object"]
                            ELSE atUpload[v]]
  /\ UNCHANGED <<atKept, atLog, atTorn, atSize, atMixed, atCrashes>>

\* write_text opens the metadata, which truncates it, and then writes from the start, for
\* every upload.
TruncateMetadata(u) ==
  /\ atUpload[u].pc = "meta" /\ UploadTo(u, "flush")
  /\ atImage' = [atImage EXCEPT !.metadata = "partial"]
  /\ atSize' = 0 /\ atMixed' = FALSE
  /\ UNCHANGED <<atKept, atLog, atTorn, atCrashes>>

\* What another upload has written since is overwritten; of a longer text the end stays.
WriteMetadata(u) ==
  LET size == atUpload[u].size IN
  /\ atUpload[u].pc = "flush" /\ UploadTo(u, "done")
  /\ atImage' = [atImage EXCEPT !.metadata = IF atSize <= size THEN "whole" ELSE "partial"]
  /\ atSize' = IF atSize <= size THEN size ELSE atSize
  /\ atMixed' = (atSize \notin {0, size})
  /\ atKept' = TRUE
  /\ UNCHANGED <<atLog, atTorn, atCrashes>>

---------------------------------------------------------------------------

\* _user_message reads the image before user.message refers to it.
AttachImage ==
  /\ ~ atLog /\ Readable /\ atLog' = TRUE
  /\ UNCHANGED <<atImage, atUpload, atKept, atTorn, atSize, atMixed, atCrashes>>

\* The process dies.
DieUploading ==
  /\ atCrashes < AtCrashes /\ \E u \in AtUpload : Uploading(u)
  /\ atCrashes' = atCrashes + 1
  /\ atTorn' = (atTorn \/ \E u \in AtUpload : atUpload[u].pc = "flush" \/ atUpload[u].file = "object")
  /\ atUpload' = [u \in AtUpload |->
                    IF Uploading(u) THEN [atUpload[u] EXCEPT !.pc = "done", !.file = "none"] ELSE atUpload[u]]
  /\ UNCHANGED <<atImage, atKept, atLog, atSize, atMixed>>

AtNext ==
  \/ \E u \in AtUpload :
       \/ Upload(u) \/ OpenTemporary(u) \/ WriteTemporary(u) \/ Replace(u)
       \/ TruncateMetadata(u) \/ WriteMetadata(u)
  \/ AttachImage \/ DieUploading

AtSpec == AtInit /\ [][AtNext]_atVars

---------------------------------------------------------------------------
(* Properties *)

\* An image that was uploaded or that a log refers to can be read when no upload goes on,
\* however uploads of it overlapped, unless the process died while it wrote the image or
\* its metadata in place.  Uploads under names of different lengths that write the metadata
\* over one another may leave that unreadable, but never the image.  An image in a log that
\* cannot be read ends every later turn of that session (save, _restore_messages).
ImagesResolve ==
  (atKept \/ atLog) /\ ~ atTorn /\ (\A u \in AtUpload : ~ Uploading(u))
    => atImage.object = "whole" /\ (atImage.metadata = "whole" \/ atMixed)
=============================================================================
