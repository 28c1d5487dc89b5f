------------------------------- MODULE Uploads -------------------------------
(***************************************************************************)
(* Files for a case or a work order (FileUpload.tsx, the upload routes of  *)
(* cases.ts and payouts.ts, services/documents.ts and the two evidence     *)
(* stores).  A screen allocates an upload, PUTs the bytes to the URL it is *)
(* given and asks the API to complete; only then does the API hash what    *)
(* arrived and record it.  A link takes the last step alone.               *)
(*                                                                         *)
(* A store keeps its pending uploads in the process.  The S3 store keeps   *)
(* the bytes in the bucket, the local store in the process as well; which  *)
(* one a process has is decided at its first use, and the S3 store falls   *)
(* back to the local one without a word when it cannot be set up.  Content *)
(* is what the size check and the hash tell apart: the file as declared,   *)
(* or one that has grown since.                                            *)
(***************************************************************************)
EXTENDS Naturals, FiniteSets

CONSTANTS CaseFiles,    \* files selected for the case
          OrderFiles,   \* files selected for the work order
          Links,        \* links submitted to the case
          Stores,       \* the stores a process may come up with
          MaxStarted,   \* bound: uploads that are started
          MaxRestarts   \* bound

(* Files whose name, type and size as declared validateUploadDeclaration     *)
(* takes; the others go no further than the route.                           *)
Files == CaseFiles \cup OrderFiles
Uploads == Files \cup Links

ASSUME StoresAssumption == Stores \subseteq {"s3", "local"} /\ Stores # {}
ASSUME KindsAssumption ==
  /\ CaseFiles \cap OrderFiles = {}
  /\ Links \cap Files = {}
ASSUME BoundsAssumption == MaxStarted \in Nat /\ MaxRestarts \in Nat

VARIABLES
  store,     \* _factoryStorePromise of the running process
  pending,   \* its store's pending uploads
  received,  \* uploadBytes of the local store
  stored,    \* stored of the local store
  bucket,    \* objects in S3
  placed,    \* the store that allocated the upload
  screen,    \* where the component that selected the file is
  req,       \* how far the API is with the complete (or links) request
  hashed,    \* the content the request has hashed
  seen,      \* the work order's documents and version, as the request read them
  rows,      \* evidence rows of the case, by upload, with the content recorded
  docs,      \* WorkOrder.documents
  version,   \* WorkOrder.__v
  order,     \* whether the work order exists
  case,      \* status of the case
  timely,    \* uploads whose last request was sent while the case was open
  note,      \* the agent's summary of a recorded upload
  restarts

storeVars == <<store, pending, received, stored, bucket>>
recordVars == <<rows, docs, version>>
worldVars == <<order, case, restarts>>
vars == <<storeVars, placed, screen, req, hashed, seen, recordVars, timely, note, worldVars>>

Content == {"declared", "grown"}
(* What the API takes: no file larger than was declared.  Without the bytes  *)
(* the local store hashes a stand-in, what was said of the file.             *)
Recorded == {"declared", "metadata", "link"}

TypeOK ==
  /\ store \in Stores
  /\ pending \in SUBSET Files
  /\ received \in [Files -> Content \cup {"none"}]
  /\ stored \in [Files -> Recorded \cup {"none"}]
  /\ bucket \in [Files -> Content \cup {"none"}]
  /\ placed \in [Files -> Stores \cup {"none"}]
  /\ screen \in [Uploads -> {"idle", "put", "complete", "waiting", "ok", "failed"}]
  /\ req \in [Uploads -> {"none", "finalize", "get", "find", "save", "ok", "error"}]
  /\ hashed \in [Uploads -> Recorded \cup {"none"}]
  /\ seen \in [OrderFiles -> [docs : SUBSET OrderFiles, version : 0..version]]
  /\ rows \in [Uploads -> Recorded \cup {"none"}]
  /\ docs \in SUBSET OrderFiles
  /\ version \in Nat
  /\ order \in BOOLEAN
  /\ case \in {"open", "closed"}
  /\ timely \in SUBSET Uploads
  /\ note \in [Uploads -> {"none", "running", "written", "degraded"}]
  /\ restarts \in 0..MaxRestarts

Init ==
  /\ store \in Stores
  /\ pending = {}
  /\ received = [u \in Files |-> "none"]
  /\ stored = [u \in Files |-> "none"]
  /\ bucket = [u \in Files |-> "none"]
  /\ placed = [u \in Files |-> "none"]
  /\ screen = [u \in Uploads |-> "idle"]
  /\ req = [u \in Uploads |-> "none"]
  /\ hashed = [u \in Uploads |-> "none"]
  /\ seen = [u \in OrderFiles |-> [docs |-> {}, version |-> 0]]
  /\ rows = [u \in Uploads |-> "none"]
  /\ docs = {}
  /\ version = 0
  /\ order \in BOOLEAN
  /\ case = "open"
  /\ timely = {}
  /\ note = [u \in Uploads |-> "none"]
  /\ restarts = 0

Show(u, s) == screen' = [screen EXCEPT ![u] = s]
Reach(u, step) == req' = [req EXCEPT ![u] = step]

-----------------------------------------------------------------------------
MayStart(u) ==
  /\ screen[u] = "idle"
  /\ Cardinality({w \in Uploads : screen[w] # "idle"}) < MaxStarted

(* handleFile allocates; the answer may be lost on the way.                  *)
Allocate(u) ==
  /\ MayStart(u) /\ u \in Files
  /\ pending' = pending \cup {u}
  /\ placed' = [placed EXCEPT ![u] = store]
  /\ Show(u, "put") \/ Show(u, "failed")
  /\ UNCHANGED <<store, received, stored, bucket, req, hashed, seen, recordVars,
                 timely, note, worldVars>>

(* The PUT.  The route of the local store takes bytes for any id; the bucket *)
(* may refuse, and either answer may be lost.                                *)
Put(u) ==
  /\ screen[u] = "put"
  /\ \E c \in Content :
       IF placed[u] = "local"
       THEN received' = [received EXCEPT ![u] = c] /\ UNCHANGED bucket
       ELSE bucket' = [bucket EXCEPT ![u] = c] /\ UNCHANGED received
  /\ Show(u, "complete") \/ Show(u, "failed")
  /\ UNCHANGED <<store, pending, stored, placed, req, hashed, seen, recordVars,
                 timely, note, worldVars>>

PutFails(u) ==
  /\ screen[u] = "put"
  /\ Show(u, "failed")
  /\ UNCHANGED <<storeVars, placed, req, hashed, seen, recordVars, timely, note, worldVars>>

Ask(u, step) ==
  /\ Show(u, "waiting")
  /\ Reach(u, step)
  /\ timely' = IF case = "open" THEN timely \cup {u} ELSE timely
  /\ UNCHANGED <<storeVars, placed, seen, recordVars, note, worldVars>>

(* The complete request.                                                     *)
Complete(u) ==
  /\ screen[u] = "complete"
  /\ Ask(u, "finalize")
  /\ UNCHANGED hashed

(* handleLink: nothing is stored or hashed.                                  *)
SendLink(u) ==
  /\ MayStart(u) /\ u \in Links
  /\ Ask(u, "find")
  /\ hashed' = [hashed EXCEPT ![u] = "link"]

-----------------------------------------------------------------------------
Refuse(u) == Reach(u, "error") /\ UNCHANGED hashed

(* A slip: what the local store says of the size is not looked at.           *)
FinalizeLocal_Slip(u) ==
  /\ req[u] = "finalize" /\ store = "local"
  /\ hashed' = [hashed EXCEPT ![u] = IF received[u] = "none" THEN "metadata" ELSE received[u]]
  /\ stored' = [stored EXCEPT ![u] = hashed'[u]]
  /\ Reach(u, "find")
  /\ pending' = pending \ {u}
  /\ received' = [received EXCEPT ![u] = "none"]
  /\ UNCHANGED <<store, bucket, placed, screen, seen, recordVars, timely, note, worldVars>>

(* finalizeUpload of the local store.                                        *)
FinalizeLocal(u) ==
  /\ req[u] = "finalize" /\ store = "local"
  /\ IF u \notin pending \/ received[u] = "grown"
     THEN Refuse(u) /\ UNCHANGED stored
     ELSE /\ hashed' = [hashed EXCEPT ![u] =
                          IF received[u] = "none" THEN "metadata" ELSE received[u]]
          /\ stored' = [stored EXCEPT ![u] = hashed'[u]]
          /\ Reach(u, "find")
  /\ pending' = pending \ {u}
  /\ received' = IF u \in pending THEN [received EXCEPT ![u] = "none"] ELSE received
  /\ UNCHANGED <<store, bucket, placed, screen, seen, recordVars, timely, note, worldVars>>

(* finalizeUpload of the S3 store, up to the GET.  A file that is too large  *)
(* is deleted, if S3 does that, and refused.                                 *)
HeadObject(u) ==
  /\ req[u] = "finalize" /\ store = "s3"
  /\ \/ /\ u \notin pending \/ bucket[u] = "none"
        /\ Reach(u, "error")
        /\ UNCHANGED <<pending, bucket>>
     \/ /\ u \in pending /\ bucket[u] = "grown"
        /\ pending' = pending \ {u}
        /\ bucket' = [bucket EXCEPT ![u] = "none"] \/ UNCHANGED bucket
        /\ Reach(u, "error")
     \/ /\ u \in pending /\ bucket[u] = "declared"
        /\ Reach(u, "get")
        /\ UNCHANGED <<pending, bucket>>
  /\ UNCHANGED <<store, received, stored, placed, screen, hashed, seen, recordVars,
                 timely, note, worldVars>>

(* The GET, the hash and the end of the pending entry.                       *)
Get(u) ==
  /\ req[u] = "get"
  /\ hashed' = [hashed EXCEPT ![u] = bucket[u]]
  /\ pending' = pending \ {u}
  /\ Reach(u, "find")
  /\ UNCHANGED <<store, received, stored, bucket, placed, screen, seen, recordVars,
                 timely, note, worldVars>>

(* S3 or the database fails; express answers with an error.                  *)
CallFails(u) ==
  /\ \/ req[u] \in {"find", "save", "get"}
     \/ req[u] = "finalize" /\ store = "s3"
  /\ Reach(u, "error")
  /\ UNCHANGED <<storeVars, placed, screen, hashed, seen, recordVars, timely, note, worldVars>>

(* A slip: the status of the case is not looked at.                          *)
FindCase_Slip(u) ==
  /\ req[u] = "find" /\ u \notin OrderFiles
  /\ Reach(u, "save")
  /\ UNCHANGED <<storeVars, placed, screen, hashed, seen, recordVars, timely, note, worldVars>>

(* attachEvidenceDocument and attachEvidenceLink find their case ...         *)
FindCase(u) ==
  /\ req[u] = "find" /\ u \notin OrderFiles
  /\ IF case = "closed" THEN Reach(u, "error") ELSE Reach(u, "save")
  /\ UNCHANGED <<storeVars, placed, screen, hashed, seen, recordVars, timely, note, worldVars>>

(* ... and create the row, whatever has become of the case.                  *)
CreateEvidence(u) ==
  /\ req[u] = "save" /\ u \notin OrderFiles
  /\ rows' = [rows EXCEPT ![u] = hashed[u]]
  /\ note' = [note EXCEPT ![u] = "running"]
  /\ Reach(u, "ok")
  /\ UNCHANGED <<storeVars, placed, screen, hashed, seen, docs, version, timely, worldVars>>

(* attachWorkOrderDocument loads the work order ...                          *)
FindOrder(u) ==
  /\ req[u] = "find" /\ u \in OrderFiles
  /\ IF order
     THEN seen' = [seen EXCEPT ![u] = [docs |-> docs, version |-> version]] /\ Reach(u, "save")
     ELSE Reach(u, "error") /\ UNCHANGED seen
  /\ UNCHANGED <<storeVars, placed, screen, hashed, recordVars, timely, note, worldVars>>

(* A slip: the list is written back over whatever is there by now.           *)
SaveOrder_Slip(u) ==
  /\ req[u] = "save" /\ u \in OrderFiles
  /\ docs' = seen[u].docs \cup {u} /\ version' = version + 1
  /\ rows' = [rows EXCEPT ![u] = hashed[u]]
  /\ note' = [note EXCEPT ![u] = "running"]
  /\ Reach(u, "ok")
  /\ UNCHANGED <<storeVars, placed, screen, hashed, seen, timely, worldVars>>

(* ... and saves the longer list: mongoose sets the whole array, and does so *)
(* only if the version is the one it loaded.                                 *)
SaveOrder(u) ==
  /\ req[u] = "save" /\ u \in OrderFiles
  /\ IF seen[u].version = version
     THEN /\ docs' = seen[u].docs \cup {u} /\ version' = version + 1
          /\ rows' = [rows EXCEPT ![u] = hashed[u]]
          /\ note' = [note EXCEPT ![u] = "running"]
          /\ Reach(u, "ok")
     ELSE Reach(u, "error") /\ UNCHANGED <<recordVars, note>>
  /\ UNCHANGED <<storeVars, placed, screen, hashed, seen, timely, worldVars>>

(* A slip: an error is not passed on to express, and nobody answers.         *)
Answer_Slip(u) ==
  /\ screen[u] = "waiting"
  /\ req[u] = "ok" /\ Show(u, "ok")
  /\ UNCHANGED <<storeVars, placed, req, hashed, seen, recordVars, timely, note, worldVars>>

(* The answer arrives, or the connection breaks at any time before: the      *)
(* screen shows an error and the API goes on with the request.               *)
Answer(u) ==
  /\ screen[u] = "waiting"
  /\ \/ req[u] = "ok" /\ Show(u, "ok")
     \/ req[u] = "error" /\ Show(u, "failed")
  /\ UNCHANGED <<storeVars, placed, req, hashed, seen, recordVars, timely, note, worldVars>>

ConnectionBreaks(u) ==
  /\ screen[u] = "waiting"
  /\ Show(u, "failed")
  /\ UNCHANGED <<storeVars, placed, req, hashed, seen, recordVars, timely, note, worldVars>>

-----------------------------------------------------------------------------
(* getObjectBytes: what the reader gets of a recorded file.                  *)
BytesOf(u) == CASE u \in Links     -> "none"
                [] store = "s3"    -> bucket[u]
                [] store = "local" -> IF stored[u] = "metadata" THEN "none" ELSE stored[u]

(* getDownloadUrl: the S3 store signs any key, the local one wants its own.  *)
Downloadable(u) ==
  IF store = "s3" THEN bucket[u] # "none" ELSE stored[u] # "none"

(* summarizeEvidenceDocument and summarizeEvidenceLink, in the background:   *)
(* without bytes, or without a model, the note says no more than that the    *)
(* file is there.                                                            *)
Summarize(u) ==
  /\ note[u] = "running"
  /\ \/ (u \in Links \/ BytesOf(u) # "none") /\ note' = [note EXCEPT ![u] = "written"]
     \/ note' = [note EXCEPT ![u] = "degraded"]
  /\ UNCHANGED <<storeVars, placed, screen, req, hashed, seen, recordVars, timely, worldVars>>

SaveMetadata ==
  /\ ~ order /\ order' = TRUE
  /\ UNCHANGED <<storeVars, placed, screen, req, hashed, seen, recordVars, timely, note,
                 case, restarts>>

CloseCase ==
  /\ case = "open" /\ case' = "closed"
  /\ UNCHANGED <<storeVars, placed, screen, req, hashed, seen, recordVars, timely, note,
                 order, restarts>>

(* The process ends: its requests, its summaries and its memory are gone,    *)
(* and the screens that wait for it get an error.                            *)
Restart ==
  /\ restarts < MaxRestarts /\ restarts' = restarts + 1
  /\ store' \in Stores
  /\ pending' = {}
  /\ received' = [u \in Files |-> "none"]
  /\ stored' = [u \in Files |-> "none"]
  /\ req' = [u \in Uploads |-> IF req[u] = "none" THEN "none" ELSE "error"]
  /\ note' = [u \in Uploads |-> IF note[u] = "running" THEN "none" ELSE note[u]]
  /\ UNCHANGED <<bucket, placed, screen, hashed, seen, recordVars, timely, order, case>>

Api(u) ==
  \/ FinalizeLocal(u) \/ HeadObject(u) \/ Get(u)
  \/ FindCase(u) \/ CreateEvidence(u) \/ FindOrder(u) \/ SaveOrder(u)

Screen(u) == Allocate(u) \/ Put(u) \/ Complete(u) \/ SendLink(u) \/ Answer(u)

Next ==
  \/ \E u \in Uploads :
       \/ Screen(u) \/ PutFails(u) \/ ConnectionBreaks(u)
       \/ Api(u) \/ CallFails(u) \/ Summarize(u)
  \/ SaveMetadata \/ CloseCase \/ Restart

Spec == Init /\ [][Next]_vars

(* A handler that has begun goes on to its answer, and handleFile goes on    *)
(* from one call to the next.                                                *)
FairSpec == Spec /\ \A u \in Uploads : WF_vars(Api(u)) /\ WF_vars(Screen(u))

-----------------------------------------------------------------------------
(* What is on record was really sent and fits what was declared: the row has *)
(* the hash of bytes that arrived, never of a stand-in, whatever restarts    *)
(* and changes of store came in between; and what went to the bucket is      *)
(* still there, so every process with that store can serve it.               *)
RecordedFilesAreReal ==
  \A u \in Files :
    rows[u] # "none" => /\ rows[u] = "declared"
                        /\ placed[u] = "s3" => bucket[u] = rows[u]
                        /\ restarts = 0 => Downloadable(u)

(* Whoever is told that a file or a link is on record, the screen or the     *)
(* reader of a summary, can rely on it: also after another upload to the     *)
(* same work order, and after a restart.                                     *)
ToldIsRecorded ==
  \A u \in Uploads :
    screen[u] = "ok" \/ note[u] # "none" =>
      /\ rows[u] # "none"
      /\ u \in OrderFiles => u \in docs

(* services/documents.ts:48: evidence sent after the case was decided is not *)
(* taken, at whichever step of the upload the decision falls.                *)
NoEvidenceAfterClose ==
  \A u \in CaseFiles \cup Links : rows[u] # "none" => u \in timely

(* The documents of a work order are an appendix that only grows, though     *)
(* every save writes the whole list.                                         *)
DocumentsKept == [][docs \subseteq docs' /\ version <= version']_vars

(* A screen never stays busy: it ends with a document or an error.           *)
ScreensSettle ==
  \A u \in Uploads : screen[u] # "idle" ~> screen[u] \in {"ok", "failed"}

(* A record is what happened, and whoever was told of it can rely on it.     *)
RecordsAreHonest == RecordedFilesAreReal /\ ToldIsRecorded /\ NoEvidenceAfterClose

=============================================================================
