-------------------------- MODULE DocumentPipeline --------------------------
(***************************************************************************)
(* Uploaded documents: parse jobs, the pipeline that turns a file into an  *)
(* indexed document, deletion, and the demo reset (agent/src/documents/,   *)
(* the document and connector routes of api.py, data/demo_reset.py), at    *)
(* the granularity of Redis commands.                                      *)
(*                                                                         *)
(* An upload stores a job; a background task then reads the file, stores   *)
(* the document's metadata, lists it, and stores its chunks one by one.    *)
(* Before each stage it rewrites the whole job: GET, SET, SADD.  Deletion  *)
(* and reset run in pool threads and take no notice of a pipeline at work. *)
(*                                                                         *)
(* A job creates one document, which has the job's name here.  Left out:   *)
(* the text of chunks and how a search ranks them, published events (a     *)
(* failing one is the failure of the command before it), batches, and what *)
(* the reconciliation in the pipeline does (it succeeds or raises).        *)
(*                                                                         *)
(* Definitions marked "Mutation:" are plausible bugs in the definition     *)
(* that follows them, kept to show which property would notice.            *)
(***************************************************************************)
EXTENDS Integers, FiniteSets

CONSTANTS
    Jobs,      \* parse jobs, and the documents they create
    Callers,   \* deletions and resets that may be in progress at a time
    Files,     \* files that clients upload
    PageSize,  \* chunks that a deletion finds (500 in the code)
    None,      \* no job stored
    MaxCalls,  \* bound of the model: deletions and resets started
    CanFail    \* a command or a model call may raise, and the process may die

ConnectorKinds == {"csv", "json", "jsonl", "xlsx", "xls"}
DocumentKinds == ConnectorKinds \cup {"docx", "pdf", "txt", "md"}

\* A file as its bytes are recognised: its kind, whether its extension says
\* the same, whether it is whole, small enough and not encrypted, how many
\* chunks its text makes (none: there is no text), and the route it came by.
FileTypes == [kind : DocumentKinds, extension : BOOLEAN, sound : BOOLEAN, chunks : Nat,
              route : {"documents", "documents_connector", "connectors"}]

ASSUME FilesAssumption == Files \subseteq FileTypes
ASSUME JobsAssumption == None \notin Jobs
ASSUME BoundsAssumption ==
    /\ PageSize \in Nat /\ MaxCalls \in Nat
    /\ CanFail \in BOOLEAN

VARIABLES
    job,         \* documents:parse_job:<id>, or None
    jobRegistry, \* documents:job_registry
    meta,        \* documents with a documents:meta:<id>
    registry,    \* documents:registry
    chunk,       \* documents:chunk:<id>:<n>, as pairs
    run,         \* the upload of each job: where its route or pipeline is
    call,        \* the deletions and resets in progress
    calls,       \* deletions and resets started
    stream,      \* a client that follows a job: it waits, follows or is done
    lost,        \* history: jobs whose pipeline never ran or could not say it failed
    touched,     \* history: documents a deletion or a reset may have removed a key of
    deleted,     \* history: documents deleted after their pipeline was over
    wiped        \* history: a reset has ended, and no upload has run since it began

vars == <<job, jobRegistry, meta, registry, chunk, run, call, calls, stream,
          lost, touched, deleted, wiped>>
documents == <<meta, registry, chunk>>
jobs == <<job, jobRegistry>>
history == <<lost, touched, deleted, wiped>>

(***************************************************************************)
(* The job document.                                                       *)
(***************************************************************************)
Terminal == {"ready", "needs_review", "failed"}
Statuses == {"uploaded", "detecting_type", "extracting", "validating", "persisting",
             "indexing", "reconciling"} \cup Terminal

\* The place of a status in the pipeline.
Rank(s) ==
    CASE s = "uploaded" -> 0 [] s = "detecting_type" -> 1 [] s = "extracting" -> 2
      [] s = "validating" -> 3 [] s = "persisting" -> 4 [] s = "indexing" -> 5
      [] s = "reconciling" -> 6 [] OTHER -> 7

JobDocuments == [status : Statuses, entries : Nat]
NewJob == [status |-> "uploaded", entries |-> 1]

(***************************************************************************)
(* What the pipeline makes of a file.  A goal is the update of the job     *)
(* that comes next; "detected" is the second update to detecting_type,     *)
(* "save" stands for save_document, "end" for a pipeline that is over.     *)
(***************************************************************************)
Goals == (Statuses \ {"uploaded"}) \cup {"detected", "save", "end"}
StatusOf(goal) == IF goal = "detected" THEN "detecting_type" ELSE goal

AllowedKinds(file) == IF file.route = "documents" THEN DocumentKinds ELSE ConnectorKinds

\* validate_upload.  It ends by naming the import parser of the kind, and
\* raises when there is none.
Valid(file) ==
    /\ file.sound
    /\ file.kind \in AllowedKinds(file)
    /\ file.extension
    /\ file.kind \in ConnectorKinds

\* In hundredths; extract_text.
Confidence(kind) ==
    CASE kind \in {"txt", "md"} -> 98 [] kind \in {"csv", "json", "jsonl"} -> 95
      [] kind \in {"xlsx", "xls"} -> 90 [] kind = "docx" -> 85 [] OTHER -> 75

FinalStatus(file) == IF Confidence(file.kind) < 80 THEN "needs_review" ELSE "ready"

\* Only the documents route asks the pipeline to reconcile.
AfterSave(file) == IF file.route = "documents_connector" THEN "reconciling"
                   ELSE FinalStatus(file)

\* Mutation: the job is READY as soon as its text is embedded.
AfterUpdateReadyFirst(goal, file) ==
    CASE goal = "detecting_type" -> IF Valid(file) THEN "detected" ELSE "failed"
      [] goal = "detected" -> "extracting"
      [] goal = "extracting" -> IF file.chunks > 0 THEN "validating" ELSE "failed"
      [] goal = "validating" -> "persisting"
      [] goal = "persisting" -> "indexing"
      [] goal = "indexing" -> FinalStatus(file)
      [] goal = "ready" -> "save"
      [] OTHER -> "end"

\* Mutation: a failed job is tried again.
AfterUpdateRetry(goal, file) ==
    CASE goal = "detecting_type" -> IF Valid(file) THEN "detected" ELSE "failed"
      [] goal = "detected" -> "extracting"
      [] goal = "extracting" -> IF file.chunks > 0 THEN "validating" ELSE "failed"
      [] goal = "validating" -> "persisting"
      [] goal = "persisting" -> "indexing"
      [] goal = "indexing" -> "save"
      [] goal = "reconciling" -> FinalStatus(file)
      [] goal = "failed" -> "detecting_type"
      [] OTHER -> "end"

\* Mutation: an upload without text simply ends.
AfterUpdateSilent(goal, file) ==
    CASE goal = "detecting_type" -> IF Valid(file) THEN "detected" ELSE "failed"
      [] goal = "detected" -> "extracting"
      [] goal = "extracting" -> IF file.chunks > 0 THEN "validating" ELSE "end"
      [] goal = "validating" -> "persisting"
      [] goal = "persisting" -> "indexing"
      [] goal = "indexing" -> "save"
      [] goal = "reconciling" -> FinalStatus(file)
      [] OTHER -> "end"

\* What follows an update.
AfterUpdate(goal, file) ==
    CASE goal = "detecting_type" -> IF Valid(file) THEN "detected" ELSE "failed"
      [] goal = "detected" -> "extracting"
      [] goal = "extracting" -> IF file.chunks > 0 THEN "validating" ELSE "failed"
      [] goal = "validating" -> "persisting"
      [] goal = "persisting" -> "indexing"
      [] goal = "indexing" -> "save"
      [] goal = "reconciling" -> FinalStatus(file)
      [] OTHER -> "end"

(***************************************************************************)
(* Uploads.  pc names the command that comes next:                         *)
(*   list, reply          SADD of create_parse_job, the rest of the route  *)
(*   start                the background task's first GET                  *)
(*   read, write, enlist  GET, SET and SADD of update_parse_job_status     *)
(*   meta, register, chunk  SET, SADD and the next HSET of save_document   *)
(***************************************************************************)
Pcs == {"none", "list", "reply", "start", "read", "write", "enlist", "meta", "register",
        "chunk", "over"}
NoFile == [kind |-> "txt", extension |-> TRUE, sound |-> TRUE, chunks |-> 0,
           route |-> "documents"]
Runs == [pc : Pcs, goal : Goals, file : Files \cup {NoFile},
         copy : JobDocuments \cup {None}, next : Nat]
NotStarted == [pc |-> "none", goal |-> "end", file |-> NoFile, copy |-> None, next |-> 0]

Over(r) == [r EXCEPT !.pc = "over", !.goal = "end", !.copy = None, !.next = 0]
Toward(r, goal) ==
    CASE goal = "end" -> Over(r)
      [] goal = "save" -> [r EXCEPT !.pc = "meta", !.goal = goal, !.copy = None]
      [] OTHER -> [r EXCEPT !.pc = "read", !.goal = goal, !.copy = None, !.next = 0]

Idle == [pc |-> "idle", kind |-> "none", todo |-> {}, doc |-> None, found |-> {},
         clean |-> FALSE]

Init ==
    /\ job = [j \in Jobs |-> None] /\ jobRegistry = {}
    /\ meta = {} /\ registry = {} /\ chunk = {}
    /\ run = [j \in Jobs |-> NotStarted]
    /\ call = [c \in Callers |-> Idle] /\ calls = 0
    /\ stream = [j \in Jobs |-> "waits"]
    /\ lost = {} /\ touched = {} /\ deleted = {} /\ wiped = FALSE

Busy(j) == run[j].pc \notin {"none", "over"}

\* An upload arrives: save_parse_job's SET.
Upload(j, file) ==
    /\ run[j].pc = "none"
    /\ job' = [job EXCEPT ![j] = NewJob]
    /\ run' = [run EXCEPT ![j].pc = "list", ![j].file = file]
    /\ wiped' = FALSE
    /\ call' = [c \in Callers |-> IF call[c].kind = "reset"
                                 THEN [call[c] EXCEPT !.clean = FALSE] ELSE call[c]]
    /\ UNCHANGED <<jobRegistry, documents, calls, stream, lost, touched, deleted>>

ListNew(j) ==
    /\ run[j].pc = "list"
    /\ jobRegistry' = jobRegistry \cup {j}
    /\ run' = [run EXCEPT ![j].pc = "reply"]
    /\ UNCHANGED <<job, documents, call, calls, stream, history>>

\* The rest of the route.  The background task runs once the response is
\* sent, so a route that raises never starts it: the documents route reads
\* the job back, the connector route derives the company and reconciles.
Reply(j) ==
    /\ run[j].pc = "reply"
    /\ \/ /\ run[j].file.route = "connectors" \/ job[j] # None
          /\ run' = [run EXCEPT ![j].pc = "start"]
          /\ UNCHANGED lost
       \/ /\ IF run[j].file.route = "connectors" THEN CanFail ELSE job[j] = None
          /\ run' = [run EXCEPT ![j] = Over(@)]
          /\ lost' = lost \cup {j}
    /\ UNCHANGED <<jobs, documents, call, calls, stream, touched, deleted, wiped>>

\* run_parse_pipeline looks the job up, outside its try.
Start(j) ==
    /\ run[j].pc = "start"
    /\ run' = [run EXCEPT ![j] = IF job[j] = None THEN Over(@) ELSE Toward(@, "detecting_type")]
    /\ UNCHANGED <<jobs, documents, call, calls, stream, history>>

\* update_parse_job_status.  A job that is gone is a KeyError: the pipeline
\* turns to FAILED, and that update raises as well.
ReadJob(j) ==
    /\ run[j].pc = "read"
    /\ run' = [run EXCEPT ![j] =
                  IF job[j] # None THEN [@ EXCEPT !.pc = "write", !.copy = job[j]]
                  ELSE IF @.goal = "failed" THEN Over(@) ELSE Toward(@, "failed")]
    /\ UNCHANGED <<jobs, documents, call, calls, stream, history>>

WriteJob(j) ==
    /\ run[j].pc = "write"
    /\ job' = [job EXCEPT ![j] = [status |-> StatusOf(run[j].goal),
                                  entries |-> run[j].copy.entries + 1]]
    /\ run' = [run EXCEPT ![j].pc = "enlist"]
    /\ UNCHANGED <<jobRegistry, documents, call, calls, stream, history>>

Enlist(j) ==
    /\ run[j].pc = "enlist"
    /\ jobRegistry' = jobRegistry \cup {j}
    /\ run' = [run EXCEPT ![j] = Toward(@, AfterUpdate(@.goal, @.file))]
    /\ UNCHANGED <<job, documents, call, calls, stream, history>>

\* save_document: the metadata, the registry, then the chunks.
SaveMeta(j) ==
    /\ run[j].pc = "meta"
    /\ meta' = meta \cup {j}
    /\ run' = [run EXCEPT ![j].pc = "register"]
    /\ UNCHANGED <<jobs, registry, chunk, call, calls, stream, history>>

Register(j) ==
    /\ run[j].pc = "register"
    /\ registry' = registry \cup {j}
    /\ run' = [run EXCEPT ![j].pc = "chunk", ![j].next = 1]
    /\ UNCHANGED <<jobs, meta, chunk, call, calls, stream, history>>

SaveChunk(j) ==
    /\ run[j].pc = "chunk"
    /\ chunk' = chunk \cup {<<j, run[j].next>>}
    /\ run' = [run EXCEPT ![j] = IF @.next < @.file.chunks
                                 THEN [@ EXCEPT !.next = run[j].next + 1]
                                 ELSE Toward(@, AfterSave(@.file))]
    /\ UNCHANGED <<jobs, meta, registry, call, calls, stream, history>>

\* A command, a model call or the reconciliation raises inside the try: the
\* job is to be FAILED.  A failure of that update is not caught.
Raise(j) ==
    /\ CanFail
    /\ run[j].pc \in {"read", "write", "enlist", "meta", "register", "chunk"}
    /\ IF run[j].goal = "failed"
       THEN run' = [run EXCEPT ![j] = Over(@)] /\ lost' = lost \cup {j}
       ELSE run' = [run EXCEPT ![j] = Toward(@, "failed")] /\ UNCHANGED lost
    /\ UNCHANGED <<jobs, documents, call, calls, stream, touched, deleted, wiped>>

(***************************************************************************)
(* Readers: what the list, search and job routes show, and the stream.     *)
(***************************************************************************)
ListDocuments == registry \cap meta
ListParseJobs == {j \in jobRegistry : job[j] # None}
SearchHits == {c[1] : c \in chunk}

\* The stream of a job: the request looks the job up, then polls it.
Follow(j) ==
    /\ stream[j] = "waits" /\ job[j] # None
    /\ stream' = [stream EXCEPT ![j] = "follows"]
    /\ UNCHANGED <<jobs, documents, run, call, calls, history>>

Poll(j) ==
    /\ stream[j] = "follows"
    /\ job[j] # None => job[j].status \in Terminal
    /\ stream' = [stream EXCEPT ![j] = "done"]
    /\ UNCHANGED <<jobs, documents, run, call, calls, history>>

(***************************************************************************)
(* Deletion and reset.  pc names the command that comes next:              *)
(*   get, search, drop, meta, unlist    delete_document                    *)
(*   scan, unlink                       delete_keys_matching                  *)
(*   members, scan_jobs, unlink_jobs, drop_jobs   clear_all_documents      *)
(* A reset deletes the documents in todo one by one; found are the keys    *)
(* a SCAN or a search returned and that are still to be deleted.           *)
(***************************************************************************)
DeletionPcs == {"get", "search", "drop", "meta", "unlist"}
ResetPcs == {"scan", "unlink", "members", "scan_jobs", "unlink_jobs", "drop_jobs"}

Key(kind, j, n) == [kind |-> kind, job |-> j, n |-> n]
JobKeys == {Key("job", j, 0) : j \in {i \in Jobs : job[i] # None}}
ChunkKeys(S) == {Key("chunk", c[1], c[2]) : c \in S}
AllKeys == JobKeys \cup ChunkKeys(chunk) \cup {Key("meta", j, 0) : j \in meta}
           \cup (IF registry = {} THEN {} ELSE {Key("registry", None, 0)})
           \cup (IF jobRegistry = {} THEN {} ELSE {Key("job_registry", None, 0)})

\* The chunks that one page of a search for a document returns.
Pages(j) ==
    LET mine == {c \in chunk : c[1] = j}
    IN  {S \in SUBSET mine :
            Cardinality(S) = IF Cardinality(mine) < PageSize THEN Cardinality(mine) ELSE PageSize}

\* What a deletion does after its document: the next one, or the jobs.
NextDocument(c) ==
    IF c.kind = "delete" THEN Idle
    ELSE IF c.todo = {} THEN [c EXCEPT !.pc = "scan_jobs", !.doc = None, !.found = {}]
    ELSE LET d == CHOOSE d \in c.todo : TRUE
         IN  [c EXCEPT !.pc = "get", !.doc = d, !.todo = @ \ {d}, !.found = {}]

StartDelete(c, j) ==
    /\ call[c] = Idle /\ calls < MaxCalls
    /\ run[j].pc # "none"   \* a client knows no other document
    /\ call' = [call EXCEPT ![c] = [Idle EXCEPT !.pc = "get", !.kind = "delete", !.doc = j,
                                                !.clean = ~Busy(j)]]
    /\ calls' = calls + 1
    /\ UNCHANGED <<jobs, documents, run, stream, history>>

GetMeta(c) ==
    /\ call[c].pc = "get"
    /\ call' = [call EXCEPT ![c] = IF @.doc \in meta THEN [@ EXCEPT !.pc = "search"]
                                   ELSE NextDocument(@)]
    /\ UNCHANGED <<jobs, documents, run, calls, stream, history>>

\* Mutation: the search of a deletion only counts.
SearchChunksCount(c) ==
    /\ call[c].pc = "search"
    /\ touched' = touched \cup {call[c].doc}
    /\ call' = [call EXCEPT ![c].pc = "meta"]
    /\ UNCHANGED <<jobs, documents, run, calls, stream, lost, deleted, wiped>>

SearchChunks(c) ==
    /\ call[c].pc = "search"
    /\ touched' = touched \cup {call[c].doc}
    /\ \E S \in Pages(call[c].doc) :
          call' = [call EXCEPT ![c].pc = IF S = {} THEN "meta" ELSE "drop",
                               ![c].found = ChunkKeys(S)]
    /\ UNCHANGED <<jobs, documents, run, calls, stream, lost, deleted, wiped>>

DropChunk(c) ==
    /\ call[c].pc = "drop"
    /\ LET k == CHOOSE k \in call[c].found : TRUE
       IN  /\ chunk' = chunk \ {<<k.job, k.n>>}
           /\ call' = [call EXCEPT ![c].found = @ \ {k},
                                   ![c].pc = IF call[c].found = {k} THEN "meta" ELSE "drop"]
    /\ UNCHANGED <<jobs, meta, registry, run, calls, stream, history>>

\* A search or a deletion of a chunk that fails is passed over.
PassOver(c) ==
    /\ CanFail /\ call[c].pc \in {"search", "drop"}
    /\ call' = [call EXCEPT ![c].pc = "meta", ![c].found = {}, ![c].clean = FALSE]
    /\ touched' = touched \cup {call[c].doc}
    /\ UNCHANGED <<jobs, documents, run, calls, stream, lost, deleted, wiped>>

DropMeta(c) ==
    /\ call[c].pc = "meta"
    /\ meta' = meta \ {call[c].doc}
    /\ call' = [call EXCEPT ![c].pc = "unlist"]
    /\ UNCHANGED <<jobs, registry, chunk, run, calls, stream, history>>

Unlist(c) ==
    /\ call[c].pc = "unlist"
    /\ registry' = registry \ {call[c].doc}
    /\ deleted' = IF call[c].kind = "delete" /\ call[c].clean
                  THEN deleted \cup {call[c].doc} ELSE deleted
    /\ call' = [call EXCEPT ![c] = NextDocument(@)]
    /\ UNCHANGED <<jobs, meta, chunk, run, calls, stream, lost, touched, wiped>>

\* A call fails or ends early and leaves the rest undone.
GiveUp(c) ==
    /\ CanFail /\ call[c] # Idle
    /\ call' = [call EXCEPT ![c] = Idle]
    /\ UNCHANGED <<jobs, documents, run, calls, stream, history>>

StartReset(c) ==
    /\ call[c] = Idle /\ calls < MaxCalls
    /\ call' = [call EXCEPT ![c] = [Idle EXCEPT !.pc = "scan", !.kind = "reset",
                                       !.clean = \A j \in Jobs : ~Busy(j)]]
    /\ calls' = calls + 1
    /\ UNCHANGED <<jobs, documents, run, stream, history>>

Scan(c) ==
    /\ call[c].pc = "scan"
    /\ call' = [call EXCEPT ![c].pc = "unlink", ![c].found = AllKeys]
    /\ touched' = Jobs
    /\ UNCHANGED <<jobs, documents, run, calls, stream, lost, deleted, wiped>>

Named(c, kind) == {k.job : k \in {x \in call[c].found : x.kind = kind}}

Unlink(c) ==
    /\ call[c].pc = "unlink"
    /\ job' = [j \in Jobs |-> IF j \in Named(c, "job") THEN None ELSE job[j]]
    /\ jobRegistry' = IF Named(c, "job_registry") = {} THEN jobRegistry ELSE {}
    /\ meta' = meta \ Named(c, "meta")
    /\ registry' = IF Named(c, "registry") = {} THEN registry ELSE {}
    /\ chunk' = {x \in chunk : Key("chunk", x[1], x[2]) \notin call[c].found}
    /\ call' = [call EXCEPT ![c].pc = "members", ![c].found = {}]
    /\ UNCHANGED <<run, calls, stream, history>>

\* clear_all_documents: what the registry names, then the jobs.
Members(c) ==
    /\ call[c].pc = "members"
    /\ call' = [call EXCEPT ![c] = NextDocument([@ EXCEPT !.todo = registry])]
    /\ UNCHANGED <<jobs, documents, run, calls, stream, history>>

ScanJobs(c) ==
    /\ call[c].pc = "scan_jobs"
    /\ call' = [call EXCEPT ![c].pc = "unlink_jobs", ![c].found = JobKeys]
    /\ UNCHANGED <<jobs, documents, run, calls, stream, history>>

UnlinkJobs(c) ==
    /\ call[c].pc = "unlink_jobs"
    /\ job' = [j \in Jobs |-> IF j \in Named(c, "job") THEN None ELSE job[j]]
    /\ call' = [call EXCEPT ![c].pc = "drop_jobs", ![c].found = {}]
    /\ UNCHANGED <<jobRegistry, documents, run, calls, stream, history>>

DropJobs(c) ==
    /\ call[c].pc = "drop_jobs"
    /\ jobRegistry' = {}
    /\ wiped' = call[c].clean
    /\ call' = [call EXCEPT ![c] = Idle]
    /\ UNCHANGED <<job, documents, run, calls, stream, lost, touched, deleted>>

\* The process dies: what was running stops where it stood.
Die ==
    /\ CanFail
    /\ \/ \E j \in Jobs : Busy(j)
       \/ \E c \in Callers : call[c] # Idle
    /\ run' = [j \in Jobs |-> IF Busy(j) THEN Over(run[j]) ELSE run[j]]
    /\ call' = [c \in Callers |-> Idle]
    /\ lost' = lost \cup {j \in Jobs : Busy(j)}
    /\ UNCHANGED <<jobs, documents, calls, stream, touched, deleted, wiped>>

PipelineStep(j) ==
    \/ ListNew(j) \/ Reply(j) \/ Start(j) \/ ReadJob(j) \/ WriteJob(j) \/ Enlist(j)
    \/ SaveMeta(j) \/ Register(j) \/ SaveChunk(j)

CallStep(c) ==
    \/ GetMeta(c) \/ SearchChunks(c) \/ DropChunk(c) \/ PassOver(c) \/ DropMeta(c) \/ Unlist(c)
    \/ Scan(c) \/ Unlink(c) \/ Members(c) \/ ScanJobs(c) \/ UnlinkJobs(c) \/ DropJobs(c)

Next ==
    \/ \E j \in Jobs, file \in Files : Upload(j, file)
    \/ \E j \in Jobs : PipelineStep(j) \/ Raise(j) \/ Follow(j) \/ Poll(j)
    \/ \E c \in Callers : StartReset(c) \/ CallStep(c) \/ GiveUp(c)
    \/ \E c \in Callers, j \in Jobs : StartDelete(c, j)
    \/ Die

(***************************************************************************)
(* A pool thread that runs a pipeline is scheduled, and so is the          *)
(* coroutine of a stream.  Nothing makes anybody upload, delete, reset or  *)
(* follow, nor a command fail.                                             *)
(***************************************************************************)
Fairness == \A j \in Jobs : WF_vars(PipelineStep(j)) /\ WF_vars(Poll(j))

Spec == Init /\ [][Next]_vars /\ Fairness

(***************************************************************************)
(* Properties.                                                             *)
(***************************************************************************)
\* Every variable has its type.
TypeOK ==
    /\ job \in [Jobs -> JobDocuments \cup {None}]
    /\ jobRegistry \subseteq Jobs /\ meta \subseteq Jobs /\ registry \subseteq Jobs
    /\ chunk \subseteq Jobs \X Nat
    /\ run \in [Jobs -> Runs]
    /\ \A c \in Callers :
          /\ call[c].pc \in {"idle"} \cup DeletionPcs \cup ResetPcs
          /\ call[c].todo \subseteq Jobs /\ call[c].doc \in Jobs \cup {None}
          /\ call[c].pc \in DeletionPcs => call[c].doc \in Jobs
    /\ calls \in 0..MaxCalls
    /\ stream \in [Jobs -> {"waits", "follows", "done"}]
    /\ lost \subseteq Jobs /\ touched \subseteq Jobs /\ deleted \subseteq Jobs
    /\ wiped \in BOOLEAN

Chunks(j) == {<<j, n>> : n \in 1..run[j].file.chunks}

\* A job that says ready or needs_review has its document in the list with
\* all its chunks, and a chunk that a search returns belongs to a listed
\* document, unless a deletion or a reset has touched it: the job is told
\* last, and the document is listed before its chunks are stored.
ShownIsWhole ==
    \A j \in Jobs \ touched :
        /\ j \in SearchHits => j \in ListDocuments
        /\ job[j] # None /\ job[j].status \in {"ready", "needs_review"} =>
               j \in ListDocuments /\ Chunks(j) \subseteq chunk

DeletionLeavesNothing ==
    \A j \in deleted :
        /\ j \notin meta /\ j \notin registry
        /\ run[j].file.chunks <= PageSize => j \notin SearchHits

ResetLeavesNothing ==
    wiped => /\ ListDocuments = {} /\ SearchHits = {} /\ ListParseJobs = {}
             /\ meta = {} /\ registry = {} /\ jobRegistry = {}

\* A document deleted once its pipeline was over, by a deletion of which no
\* command failed, is neither listed nor found again, if its chunks fit in the
\* page a deletion looks at; and after a reset that no upload overlapped, until
\* the next upload, no document, chunk, job or registry entry is left.
RemovalIsComplete == DeletionLeavesNothing /\ ResetLeavesNothing

\* A stored job only moves forward, one entry of its timeline at a time,
\* and one that has failed stays so; the only terminal status that is ever
\* replaced is a success, by the failure of the update that announced it.
JobMovesForward ==
    [][\A j \in Jobs :
          job[j] # None /\ job'[j] # None /\ job'[j] # job[j] =>
              /\ job'[j].entries = job[j].entries + 1
              /\ Rank(job'[j].status) >= Rank(job[j].status)
              /\ job[j].status \in Terminal => /\ job[j].status # "failed"
                                               /\ job'[j].status = "failed"]_vars

\* A client that follows a job is let go: whatever happens to the job, it
\* ends in a terminal status or is removed, unless its pipeline never ran,
\* died, or could not store that it failed.
StreamEnds ==
    \A j \in Jobs : stream[j] = "follows" ~> (stream[j] = "done" \/ j \in lost)

\* GET /connectors announces DOCUMENT_UPLOAD_KINDS as the kinds of file the
\* document upload accepts: a sound file of one of them does not fail.
AcceptedKindsParse ==
    \A j \in Jobs :
        run[j].file \in Files /\ run[j].file.route = "documents" /\ run[j].file.sound
        /\ run[j].file.extension /\ run[j].file.chunks > 0 /\ run[j].goal # "end"
            => run[j].goal # "failed"
=============================================================================
