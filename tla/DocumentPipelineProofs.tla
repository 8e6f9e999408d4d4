----------------------- MODULE DocumentPipelineProofs -----------------------
(***************************************************************************)
(* Theorems of DocumentPipeline, with their proofs.                        *)
(*                                                                         *)
(* A step concerns one upload, one call, or both by way of what is stored. *)
(* So the invariants are stated one job or one call at a time: what the    *)
(* stored job says at each point of its upload (JobFits), how much of the  *)
(* document is stored while nothing has touched it (CallFits, DocFits),    *)
(* how many chunks there are (Bounded), and what a deletion or a reset     *)
(* that nothing disturbs has still to remove (Cleans, Wipes).  The lemmas  *)
(* StepsOfOneJob and StepsOfOneCall reduce Next to the steps that matter   *)
(* to one of them.                                                         *)
(***************************************************************************)
EXTENDS DocumentPipeline, FiniteSetTheorems, TLAPS

----------------------------------------------------------------------------
(***************************************************************************)
(* Types.  An update that is on its way has a status to write, and a copy  *)
(* of the job to write it to.  TypeOK leaves the calls open; CallTypes     *)
(* closes them: a call at work is a deletion or a reset, and a deletion    *)
(* has a document.                                                         *)
(***************************************************************************)
Keys == [kind : {"job", "chunk", "meta", "registry", "job_registry"},
         job : Jobs \cup {None}, n : Nat]
CallRecords ==
    [pc : {"idle"} \cup DeletionPcs \cup ResetPcs, kind : {"none", "delete", "reset"},
     todo : SUBSET Jobs, doc : Jobs \cup {None}, found : SUBSET Keys, clean : BOOLEAN]
Calls == {c \in CallRecords :
             /\ c.pc # "idle" => c.kind \in {"delete", "reset"}
             /\ c.pc \in DeletionPcs => c.doc \in Jobs}

RunStates == {r \in Runs :
                 /\ r.pc \in {"read", "write", "enlist"} => r.goal \in Goals \ {"save", "end"}
                 /\ r.pc = "write" => r.copy \in JobDocuments}

DataTypes ==
    /\ job \in [Jobs -> JobDocuments \cup {None}]
    /\ jobRegistry \subseteq Jobs /\ meta \subseteq Jobs /\ registry \subseteq Jobs
    /\ chunk \subseteq Jobs \X Nat
    /\ calls \in 0..MaxCalls
    /\ stream \in [Jobs -> {"waits", "follows", "done"}]
    /\ lost \subseteq Jobs /\ touched \subseteq Jobs /\ deleted \subseteq Jobs
    /\ wiped \in BOOLEAN
RunTypes == run \in [Jobs -> RunStates]
CallTypes == call \in [Callers -> Calls]
Types == DataTypes /\ RunTypes /\ CallTypes

LEMMA TypesAreTypeOK == Types => TypeOK
  BY DEF Types, DataTypes, RunTypes, CallTypes, TypeOK, Calls, CallRecords, RunStates

LEMMA KeyType ==
    ASSUME NEW kind \in {"job", "chunk", "meta", "registry", "job_registry"},
           NEW j \in Jobs \cup {None}, NEW n \in Nat
    PROVE  Key(kind, j, n) \in Keys
  BY DEF Key, Keys

LEMMA IdleType == Idle \in Calls /\ Idle.pc = "idle" /\ Idle.kind = "none"
  BY DEF Idle, Calls, CallRecords, DeletionPcs

LEMMA OverIs ==
    ASSUME NEW r \in Runs
    PROVE  /\ Over(r) \in RunStates
           /\ Over(r).pc = "over" /\ Over(r).file = r.file /\ Over(r).goal = "end"
  BY DEF Over, Runs, RunStates, Pcs, Goals

LEMMA TowardIs ==
    ASSUME NEW r \in Runs, NEW goal \in Goals
    PROVE  /\ Toward(r, goal) \in RunStates
           /\ Toward(r, goal).file = r.file /\ Toward(r, goal).goal = goal
           /\ goal = "end" => Toward(r, goal).pc = "over"
           /\ goal = "save" => Toward(r, goal).pc = "meta"
           /\ goal \notin {"end", "save"} => Toward(r, goal).pc = "read"
<1>1. CASE goal = "end"
  BY <1>1, OverIs DEF Toward
<1>2. CASE goal = "save"
  <2>1. Toward(r, goal) = [r EXCEPT !.pc = "meta", !.goal = goal, !.copy = None]
    BY <1>2 DEF Toward
  <2> QED
    BY <1>2, <2>1 DEF Runs, RunStates, Pcs
<1>3. CASE goal \notin {"end", "save"}
  <2>1. Toward(r, goal) = [r EXCEPT !.pc = "read", !.goal = goal, !.copy = None, !.next = 0]
    BY <1>3 DEF Toward
  <2>2. "read" \in Pcs /\ None \in JobDocuments \cup {None} /\ 0 \in Nat
    BY DEF Pcs
  <2>3. Toward(r, goal) \in Runs
    BY <2>1, <2>2 DEF Runs
  <2>4. /\ Toward(r, goal).file = r.file /\ Toward(r, goal).goal = goal
        /\ Toward(r, goal).pc = "read"
    BY <2>1 DEF Runs
  <2> QED
    BY <1>3, <2>3, <2>4 DEF RunStates
<1> QED
  BY <1>1, <1>2, <1>3

LEMMA FollowingGoals ==
    ASSUME NEW goal \in Goals, NEW file
    PROVE  /\ FinalStatus(file) \in {"ready", "needs_review"}
           /\ AfterSave(file) \in {"reconciling", "ready", "needs_review"}
           /\ AfterUpdate(goal, file) \in Goals
<1>1. FinalStatus(file) \in {"ready", "needs_review"}
  BY DEF FinalStatus
<1>2. AfterSave(file) \in {"reconciling", "ready", "needs_review"}
  BY <1>1 DEF AfterSave
<1>3. AfterUpdate(goal, file) \in {"detected", "failed", "extracting", "validating", "persisting",
                                   "indexing", "save", "end", "ready", "needs_review"}
  BY <1>1 DEF AfterUpdate
<1> QED
  BY <1>1, <1>2, <1>3 DEF Goals, Statuses, Terminal

LEMMA NextDocumentIs ==
    ASSUME NEW c \in Calls, c.pc # "idle"
    PROVE  /\ NextDocument(c) \in Calls
           /\ NextDocument(c).pc \in {"idle", "scan_jobs", "get"}
<1>1. CASE c.kind = "delete"
  BY <1>1, IdleType DEF NextDocument
<1>2. CASE c.kind # "delete" /\ c.todo = {}
  <2>1. NextDocument(c) = [c EXCEPT !.pc = "scan_jobs", !.doc = None, !.found = {}]
    BY <1>2 DEF NextDocument
  <2> QED
    BY <2>1 DEF Calls, CallRecords, ResetPcs, DeletionPcs
<1>3. CASE c.kind # "delete" /\ c.todo # {}
  <2> DEFINE d == CHOOSE d \in c.todo : TRUE
  <2>1. d \in c.todo /\ c.todo \subseteq Jobs
    BY <1>3 DEF Calls, CallRecords
  <2>2. NextDocument(c) = [c EXCEPT !.pc = "get", !.doc = d, !.todo = @ \ {d}, !.found = {}]
    BY <1>3 DEF NextDocument
  <2> HIDE DEF d
  <2>3. [c EXCEPT !.pc = "get", !.doc = d, !.todo = @ \ {d}, !.found = {}] \in Calls
    BY <2>1 DEF Calls, CallRecords, DeletionPcs
  <2>4. [c EXCEPT !.pc = "get", !.doc = d, !.todo = @ \ {d}, !.found = {}].pc = "get"
    BY DEF Calls, CallRecords
  <2> QED
    BY <2>2, <2>3, <2>4
<1> QED
  BY <1>1, <1>2, <1>3

LEMMA TypesInit == Init => Types
<1> SUFFICES ASSUME Init PROVE Types
  OBVIOUS
<1>1. NotStarted \in RunStates
  BY DEF NotStarted, Runs, RunStates, Pcs, Goals
<1>2. RunTypes
  BY <1>1 DEF Init, RunTypes
<1>3. CallTypes
  BY IdleType DEF Init, CallTypes
<1>4. calls \in 0..MaxCalls
  BY BoundsAssumption DEF Init, BoundsAssumption
<1>5. chunk \subseteq Jobs \X Nat /\ wiped \in BOOLEAN
  BY DEF Init
<1>6. DataTypes
  BY <1>4, <1>5 DEF Init, DataTypes
<1> QED
  BY <1>2, <1>3, <1>6 DEF Types

\* An upload moves on.
LEMMA RunMoves ==
    ASSUME RunTypes, NEW j \in Jobs, NEW r \in RunStates, run' = [run EXCEPT ![j] = r]
    PROVE  RunTypes'
  BY DEF RunTypes

LEMMA RunType ==
    ASSUME Types, NEW j \in Jobs
    PROVE  run[j] \in RunStates /\ run[j] \in Runs
  BY DEF Types, RunTypes, RunStates

LEMMA UploadTypes ==
    ASSUME Types, NEW j \in Jobs, NEW file \in Files, Upload(j, file)
    PROVE  Types'
<1>1. NewJob \in JobDocuments
  BY DEF NewJob, JobDocuments, Statuses
<1>2. DataTypes'
  BY <1>1 DEF Upload, Types, DataTypes, documents
<1>3. RunTypes'
  <2>1. [run[j] EXCEPT !.pc = "list", !.file = file] \in RunStates
    BY RunType DEF Runs, RunStates, Pcs
  <2> QED
    BY <2>1 DEF Upload, Types, RunTypes
<1>4. CallTypes'
  <2> SUFFICES ASSUME NEW c \in Callers
               PROVE  [call[c] EXCEPT !.clean = FALSE] \in Calls /\ call[c] \in Calls
    BY DEF Upload, CallTypes
  <2> QED
    BY DEF Types, CallTypes, Calls, CallRecords
<1> QED
  BY <1>2, <1>3, <1>4 DEF Types

LEMMA ListNewTypes ==
    ASSUME Types, NEW j \in Jobs, ListNew(j) PROVE Types'
<1>1. [run[j] EXCEPT !.pc = "reply"] \in RunStates
  BY RunType DEF Runs, RunStates, Pcs
<1> QED
  BY <1>1 DEF ListNew, Types, RunTypes, DataTypes, CallTypes, documents, history

LEMMA ReplyTypes ==
    ASSUME Types, NEW j \in Jobs, Reply(j) PROVE Types'
<1>1. [run[j] EXCEPT !.pc = "start"] \in RunStates
  BY RunType DEF Runs, RunStates, Pcs
<1>2. Over(run[j]) \in RunStates
  BY RunType, OverIs
<1>3. RunTypes'
  BY <1>1, <1>2 DEF Reply, Types, RunTypes
<1> QED
  BY <1>3 DEF Reply, Types, DataTypes, CallTypes, jobs, documents

LEMMA StartTypes ==
    ASSUME Types, NEW j \in Jobs, Start(j) PROVE Types'
<1>1. Toward(run[j], "detecting_type") \in RunStates /\ Over(run[j]) \in RunStates
  BY RunType, OverIs, TowardIs DEF Goals, Statuses
<1>2. RunTypes'
  BY <1>1 DEF Start, Types, RunTypes
<1> QED
  BY <1>2 DEF Start, Types, DataTypes, CallTypes, jobs, documents, history

LEMMA ReadJobTypes ==
    ASSUME Types, NEW j \in Jobs, ReadJob(j) PROVE Types'
<1>1. Toward(run[j], "failed") \in RunStates /\ Over(run[j]) \in RunStates
  BY RunType, OverIs, TowardIs DEF Goals, Statuses, Terminal
<1>2. job[j] # None => [run[j] EXCEPT !.pc = "write", !.copy = job[j]] \in RunStates
  BY RunType DEF Types, DataTypes, ReadJob, Runs, RunStates, Pcs
<1>3. RunTypes'
  BY <1>1, <1>2 DEF ReadJob, Types, RunTypes
<1> QED
  BY <1>3 DEF ReadJob, Types, DataTypes, CallTypes, jobs, documents, history

LEMMA StatusOfGoal ==
    ASSUME NEW goal \in Goals \ {"save", "end"} PROVE StatusOf(goal) \in Statuses
  BY DEF StatusOf, Goals, Statuses

LEMMA WriteJobTypes ==
    ASSUME Types, NEW j \in Jobs, WriteJob(j) PROVE Types'
<1>1. run[j].goal \in Goals \ {"save", "end"} /\ run[j].copy \in JobDocuments
  BY RunType DEF WriteJob, RunStates
<1>2. [status |-> StatusOf(run[j].goal), entries |-> run[j].copy.entries + 1] \in JobDocuments
  BY <1>1, StatusOfGoal DEF JobDocuments
<1>3. job' \in [Jobs -> JobDocuments \cup {None}]
  BY <1>2 DEF WriteJob, Types, DataTypes
<1>4. [run[j] EXCEPT !.pc = "enlist"] \in RunStates
  BY <1>1, RunType DEF Runs, RunStates, Pcs
<1>5. RunTypes'
  BY <1>4 DEF WriteJob, Types, RunTypes
<1> QED
  BY <1>3, <1>5 DEF WriteJob, Types, DataTypes, CallTypes, documents, history

LEMMA EnlistTypes ==
    ASSUME Types, NEW j \in Jobs, Enlist(j) PROVE Types'
<1>1. AfterUpdate(run[j].goal, run[j].file) \in Goals
  BY RunType, FollowingGoals DEF Runs
<1>2. Toward(run[j], AfterUpdate(run[j].goal, run[j].file)) \in RunStates
  BY <1>1, RunType, TowardIs
<1>3. RunTypes'
  BY <1>2 DEF Enlist, Types, RunTypes
<1> QED
  BY <1>3 DEF Enlist, Types, DataTypes, CallTypes, documents, history

LEMMA SaveMetaTypes ==
    ASSUME Types, NEW j \in Jobs, SaveMeta(j) PROVE Types'
<1>1. [run[j] EXCEPT !.pc = "register"] \in RunStates
  BY RunType DEF Runs, RunStates, Pcs
<1>2. RunTypes'
  BY <1>1 DEF SaveMeta, Types, RunTypes
<1> QED
  BY <1>2 DEF SaveMeta, Types, DataTypes, CallTypes, jobs, history

LEMMA RegisterTypes ==
    ASSUME Types, NEW j \in Jobs, Register(j) PROVE Types'
<1>1. [run[j] EXCEPT !.pc = "chunk", !.next = 1] \in RunStates
  BY RunType DEF Runs, RunStates, Pcs
<1>2. RunTypes'
  BY <1>1 DEF Register, Types, RunTypes
<1> QED
  BY <1>2 DEF Register, Types, DataTypes, CallTypes, jobs, history

LEMMA SaveChunkTypes ==
    ASSUME Types, NEW j \in Jobs, SaveChunk(j) PROVE Types'
<1>1. run[j].next \in Nat
  BY RunType DEF Runs
<1>2. [run[j] EXCEPT !.next = run[j].next + 1] \in RunStates
  BY <1>1, RunType DEF SaveChunk, Runs, RunStates
<1>3. Toward(run[j], AfterSave(run[j].file)) \in RunStates
  BY RunType, TowardIs, FollowingGoals DEF Goals, Statuses, Terminal
<1>4. run' = [run EXCEPT ![j] = IF run[j].next < run[j].file.chunks
                                THEN [run[j] EXCEPT !.next = run[j].next + 1]
                                ELSE Toward(run[j], AfterSave(run[j].file))]
  BY DEF SaveChunk
<1>5. (IF run[j].next < run[j].file.chunks THEN [run[j] EXCEPT !.next = run[j].next + 1]
       ELSE Toward(run[j], AfterSave(run[j].file))) \in RunStates
  BY <1>2, <1>3
<1>6. RunTypes'
  BY <1>4, <1>5, RunMoves DEF Types
<1>7. chunk' \subseteq Jobs \X Nat
  BY <1>1 DEF SaveChunk, Types, DataTypes
<1> QED
  BY <1>6, <1>7 DEF SaveChunk, Types, DataTypes, CallTypes, jobs, history

LEMMA RaiseTypes ==
    ASSUME Types, NEW j \in Jobs, Raise(j) PROVE Types'
<1>1. Toward(run[j], "failed") \in RunStates /\ Over(run[j]) \in RunStates
  BY RunType, OverIs, TowardIs DEF Goals, Statuses, Terminal
<1>2. RunTypes'
  BY <1>1 DEF Raise, Types, RunTypes
<1>3. lost' \subseteq Jobs
  BY DEF Raise, Types, DataTypes
<1> QED
  BY <1>2, <1>3 DEF Raise, Types, DataTypes, CallTypes, jobs, documents

LEMMA StreamTypes ==
    ASSUME Types, NEW j \in Jobs, Follow(j) \/ Poll(j) PROVE Types'
  BY DEF Follow, Poll, Types, DataTypes, RunTypes, CallTypes, jobs, documents, history

LEMMA DieTypes ==
    ASSUME Types, Die PROVE Types'
<1>1. \A j \in Jobs : Over(run[j]) \in RunStates /\ run[j] \in RunStates
  BY RunType, OverIs
<1>2. RunTypes'
  BY <1>1 DEF Die, RunTypes
<1>3. CallTypes'
  BY IdleType DEF Die, CallTypes
<1>4. lost' \subseteq Jobs
  BY DEF Die, Types, DataTypes
<1> QED
  BY <1>2, <1>3, <1>4 DEF Die, Types, DataTypes, jobs, documents

\* The steps of deletions and resets.
LEMMA CallType ==
    ASSUME Types, NEW c \in Callers
    PROVE  call[c] \in Calls
  BY DEF Types, CallTypes

LEMMA StartDeleteTypes ==
    ASSUME Types, NEW c \in Callers, NEW j \in Jobs, StartDelete(c, j) PROVE Types'
<1>1. [Idle EXCEPT !.pc = "get", !.kind = "delete", !.doc = j, !.clean = ~Busy(j)] \in Calls
  BY DEF Idle, Calls, CallRecords, DeletionPcs, Busy
<1>2. CallTypes'
  BY <1>1 DEF StartDelete, Types, CallTypes
<1>3. calls + 1 \in 0..MaxCalls
  BY BoundsAssumption DEF StartDelete, Types, DataTypes, BoundsAssumption
<1> QED
  BY <1>2, <1>3 DEF StartDelete, Types, DataTypes, RunTypes, jobs, documents, history

LEMMA StartResetTypes ==
    ASSUME Types, NEW c \in Callers, StartReset(c) PROVE Types'
<1>1. [Idle EXCEPT !.pc = "scan", !.kind = "reset", !.clean = \A j \in Jobs : ~Busy(j)] \in Calls
  BY DEF Idle, Calls, CallRecords, DeletionPcs, ResetPcs, Busy
<1>2. CallTypes'
  BY <1>1 DEF StartReset, Types, CallTypes
<1>3. calls + 1 \in 0..MaxCalls
  BY BoundsAssumption DEF StartReset, Types, DataTypes, BoundsAssumption
<1> QED
  BY <1>2, <1>3 DEF StartReset, Types, DataTypes, RunTypes, jobs, documents, history

LEMMA GetMetaTypes ==
    ASSUME Types, NEW c \in Callers, GetMeta(c) PROVE Types'
<1>1. NextDocument(call[c]) \in Calls
  BY CallType, NextDocumentIs DEF GetMeta
<1>2. [call[c] EXCEPT !.pc = "search"] \in Calls
  BY CallType DEF GetMeta, Calls, CallRecords, DeletionPcs
<1>3. CallTypes'
  BY <1>1, <1>2 DEF GetMeta, Types, CallTypes
<1> QED
  BY <1>3 DEF GetMeta, Types, DataTypes, RunTypes, jobs, documents, history

LEMMA ChunkKeyTypes ==
    ASSUME Types, NEW S \in SUBSET chunk PROVE ChunkKeys(S) \subseteq Keys
  BY KeyType DEF Types, DataTypes, ChunkKeys

LEMMA SearchChunksTypes ==
    ASSUME Types, NEW c \in Callers, SearchChunks(c) PROVE Types'
<1>1. PICK S \in Pages(call[c].doc) :
         call' = [call EXCEPT ![c].pc = IF S = {} THEN "meta" ELSE "drop",
                              ![c].found = ChunkKeys(S)]
  BY DEF SearchChunks
<1>2. ChunkKeys(S) \subseteq Keys
  BY ChunkKeyTypes DEF Pages
<1>3. [call[c] EXCEPT !.pc = IF S = {} THEN "meta" ELSE "drop", !.found = ChunkKeys(S)] \in Calls
  <2>1. [call[c] EXCEPT !.pc = "meta", !.found = ChunkKeys(S)] \in Calls
    BY <1>2, CallType DEF SearchChunks, Calls, CallRecords, DeletionPcs
  <2>2. [call[c] EXCEPT !.pc = "drop", !.found = ChunkKeys(S)] \in Calls
    BY <1>2, CallType DEF SearchChunks, Calls, CallRecords, DeletionPcs
  <2> QED
    BY <2>1, <2>2
<1>4. CallTypes'
  BY <1>1, <1>3 DEF Types, CallTypes
<1>5. touched' \subseteq Jobs
  BY CallType DEF SearchChunks, Types, DataTypes, Calls, DeletionPcs
<1> QED
  BY <1>4, <1>5 DEF SearchChunks, Types, DataTypes, RunTypes, jobs, documents

LEMMA DropChunkTypes ==
    ASSUME Types, NEW c \in Callers, DropChunk(c) PROVE Types'
<1>1. PICK k : /\ chunk' = chunk \ {<<k.job, k.n>>}
               /\ call' = [call EXCEPT ![c].found = @ \ {k},
                             ![c].pc = IF call[c].found = {k} THEN "meta" ELSE "drop"]
  BY DEF DropChunk
<1>2. [call[c] EXCEPT !.found = @ \ {k}, !.pc = IF call[c].found = {k} THEN "meta" ELSE "drop"]
         \in Calls
  BY CallType DEF DropChunk, Calls, CallRecords, DeletionPcs
<1>3. CallTypes'
  BY <1>1, <1>2 DEF Types, CallTypes
<1> QED
  BY <1>1, <1>3 DEF DropChunk, Types, DataTypes, RunTypes, jobs, history

LEMMA PassOverTypes ==
    ASSUME Types, NEW c \in Callers, PassOver(c) PROVE Types'
<1>1. [call[c] EXCEPT !.pc = "meta", !.found = {}, !.clean = FALSE] \in Calls
  BY CallType DEF PassOver, Calls, CallRecords, DeletionPcs
<1>2. CallTypes'
  BY <1>1 DEF PassOver, Types, CallTypes
<1>3. touched' \subseteq Jobs
  BY CallType DEF PassOver, Types, DataTypes, Calls, DeletionPcs
<1> QED
  BY <1>2, <1>3 DEF PassOver, Types, DataTypes, RunTypes, jobs, documents

LEMMA DropMetaTypes ==
    ASSUME Types, NEW c \in Callers, DropMeta(c) PROVE Types'
<1>1. [call[c] EXCEPT !.pc = "unlist"] \in Calls
  BY CallType DEF DropMeta, Calls, CallRecords, DeletionPcs
<1>2. CallTypes'
  BY <1>1 DEF DropMeta, Types, CallTypes
<1> QED
  BY <1>2 DEF DropMeta, Types, DataTypes, RunTypes, jobs, history

LEMMA UnlistTypes ==
    ASSUME Types, NEW c \in Callers, Unlist(c) PROVE Types'
<1>1. NextDocument(call[c]) \in Calls
  BY CallType, NextDocumentIs DEF Unlist
<1>2. CallTypes'
  BY <1>1 DEF Unlist, Types, CallTypes
<1>3. deleted' \subseteq Jobs
  BY CallType DEF Unlist, Types, DataTypes, Calls, DeletionPcs
<1> QED
  BY <1>2, <1>3 DEF Unlist, Types, DataTypes, RunTypes, jobs

LEMMA GiveUpTypes ==
    ASSUME Types, NEW c \in Callers, GiveUp(c) PROVE Types'
  BY IdleType DEF GiveUp, Types, DataTypes, RunTypes, CallTypes, jobs, documents, history

LEMMA ScanTypes ==
    ASSUME Types, NEW c \in Callers, Scan(c) PROVE Types'
<1>1. JobKeys \subseteq Keys
  BY KeyType DEF JobKeys
<1>2. AllKeys \subseteq Keys
  BY <1>1, KeyType, ChunkKeyTypes DEF AllKeys, Types, DataTypes
<1>3. [call[c] EXCEPT !.pc = "unlink", !.found = AllKeys] \in Calls
  BY <1>2, CallType DEF Scan, Calls, CallRecords, DeletionPcs, ResetPcs
<1>4. CallTypes'
  BY <1>3 DEF Scan, Types, CallTypes
<1> QED
  BY <1>4 DEF Scan, Types, DataTypes, RunTypes, jobs, documents

LEMMA UnlinkTypes ==
    ASSUME Types, NEW c \in Callers, Unlink(c) PROVE Types'
<1>1. [call[c] EXCEPT !.pc = "members", !.found = {}] \in Calls
  BY CallType DEF Unlink, Calls, CallRecords, DeletionPcs, ResetPcs
<1>2. CallTypes'
  BY <1>1 DEF Unlink, Types, CallTypes
<1> QED
  BY <1>2 DEF Unlink, Types, DataTypes, RunTypes, history

LEMMA MembersTypes ==
    ASSUME Types, NEW c \in Callers, Members(c) PROVE Types'
<1>1. /\ [call[c] EXCEPT !.todo = registry] \in Calls
      /\ [call[c] EXCEPT !.todo = registry].pc # "idle"
  BY CallType DEF Members, Types, DataTypes, Calls, CallRecords
<1>2. NextDocument([call[c] EXCEPT !.todo = registry]) \in Calls
  BY <1>1, NextDocumentIs
<1>3. CallTypes'
  BY <1>2 DEF Members, Types, CallTypes
<1> QED
  BY <1>3 DEF Members, Types, DataTypes, RunTypes, jobs, documents, history

LEMMA ScanJobsTypes ==
    ASSUME Types, NEW c \in Callers, ScanJobs(c) PROVE Types'
<1>1. JobKeys \subseteq Keys
  BY KeyType DEF JobKeys
<1>2. [call[c] EXCEPT !.pc = "unlink_jobs", !.found = JobKeys] \in Calls
  BY <1>1, CallType DEF ScanJobs, Calls, CallRecords, DeletionPcs, ResetPcs
<1>3. CallTypes'
  BY <1>2 DEF ScanJobs, Types, CallTypes
<1> QED
  BY <1>3 DEF ScanJobs, Types, DataTypes, RunTypes, jobs, documents, history

LEMMA UnlinkJobsTypes ==
    ASSUME Types, NEW c \in Callers, UnlinkJobs(c) PROVE Types'
<1>1. [call[c] EXCEPT !.pc = "drop_jobs", !.found = {}] \in Calls
  BY CallType DEF UnlinkJobs, Calls, CallRecords, DeletionPcs, ResetPcs
<1>2. CallTypes'
  BY <1>1 DEF UnlinkJobs, Types, CallTypes
<1> QED
  BY <1>2 DEF UnlinkJobs, Types, DataTypes, RunTypes, documents, history

LEMMA DropJobsTypes ==
    ASSUME Types, NEW c \in Callers, DropJobs(c) PROVE Types'
<1>1. CallTypes'
  BY IdleType DEF DropJobs, Types, CallTypes
<1>2. wiped' \in BOOLEAN
  BY CallType DEF DropJobs, Calls, CallRecords
<1> QED
  BY <1>1, <1>2 DEF DropJobs, Types, DataTypes, RunTypes, documents

LEMMA TypesNext == Types /\ [Next]_vars => Types'
<1> SUFFICES ASSUME Types, [Next]_vars PROVE Types'
  OBVIOUS
<1>1. CASE UNCHANGED vars
  BY <1>1 DEF vars, documents, jobs, history, Types, DataTypes, RunTypes, CallTypes
<1>2. CASE \E j \in Jobs, file \in Files : Upload(j, file)
  BY <1>2, UploadTypes
<1>3. CASE \E j \in Jobs : PipelineStep(j) \/ Raise(j) \/ Follow(j) \/ Poll(j)
  BY <1>3, ListNewTypes, ReplyTypes, StartTypes, ReadJobTypes, WriteJobTypes, EnlistTypes,
     SaveMetaTypes, RegisterTypes, SaveChunkTypes, RaiseTypes, StreamTypes DEF PipelineStep
<1>4. CASE \E c \in Callers : StartReset(c) \/ CallStep(c) \/ GiveUp(c)
  BY <1>4, StartResetTypes, GetMetaTypes, SearchChunksTypes, DropChunkTypes, PassOverTypes,
     DropMetaTypes, UnlistTypes, ScanTypes, UnlinkTypes, MembersTypes, ScanJobsTypes,
     UnlinkJobsTypes, DropJobsTypes, GiveUpTypes DEF CallStep
<1>5. CASE \E c \in Callers, j \in Jobs : StartDelete(c, j)
  BY <1>5, StartDeleteTypes
<1>6. CASE Die
  BY <1>6, DieTypes
<1> QED
  BY <1>1, <1>2, <1>3, <1>4, <1>5, <1>6 DEF Next

\* Every variable keeps its type: an update that is on its way has a status
\* and a copy of the job, and a deletion has a document.
THEOREM TypeCorrect == Spec => []TypeOK
<1>1. Spec => []Types
  BY TypesInit, TypesNext, PTL DEF Spec
<1> QED
  BY <1>1, TypesAreTypeOK, PTL

----------------------------------------------------------------------------
(***************************************************************************)
(* What a step may do to one job and its upload: it is a step of that      *)
(* upload, or it leaves the upload alone and at most removes the job.      *)
(***************************************************************************)
LEMMA StepsOfOneJob ==
    ASSUME Types, Next, NEW j \in Jobs
    PROVE  \/ \E file \in Files : Upload(j, file)
           \/ PipelineStep(j)
           \/ Raise(j)
           \/ Die /\ Busy(j)
           \/ run'[j] = run[j] /\ job'[j] \in {job[j], None}
<1> DEFINE Kept == run'[j] = run[j] /\ job'[j] \in {job[j], None}
<1>1. ASSUME NEW i \in Jobs, NEW file \in Files, Upload(i, file), i # j PROVE Kept
  BY <1>1 DEF Upload, Types, DataTypes, RunTypes
<1>2. ASSUME NEW i \in Jobs, PipelineStep(i) \/ Raise(i), i # j PROVE Kept
  BY <1>2 DEF PipelineStep, ListNew, Reply, Start, ReadJob, WriteJob, Enlist, SaveMeta,
     Register, SaveChunk, Raise, Types, DataTypes, RunTypes, jobs
<1>3. ASSUME NEW i \in Jobs, Follow(i) \/ Poll(i) PROVE Kept
  BY <1>3 DEF Follow, Poll, jobs
<1>4. ASSUME NEW c \in Callers, StartReset(c) \/ CallStep(c) \/ GiveUp(c) PROVE Kept
  BY <1>4 DEF CallStep, StartReset, GetMeta, SearchChunks, DropChunk, PassOver, DropMeta, Unlist,
     Scan, Unlink, Members, ScanJobs, UnlinkJobs, DropJobs, GiveUp, jobs
<1>5. ASSUME NEW c \in Callers, NEW i \in Jobs, StartDelete(c, i) PROVE Kept
  BY <1>5 DEF StartDelete, jobs
<1>6. ASSUME Die, ~Busy(j) PROVE Kept
  BY <1>6 DEF Die, jobs
<1> QED
  BY <1>1, <1>2, <1>3, <1>4, <1>5, <1>6 DEF Next

----------------------------------------------------------------------------
(***************************************************************************)
(* The job.  MayBecome says which status an update may replace; JobFits    *)
(* says, for each point of an upload, what the stored job says if there is *)
(* one.  A job that a reset removed between a read and its write comes     *)
(* back, with the status that was on its way.                              *)
(***************************************************************************)
MayBecome(s, goal) ==
    /\ Rank(s) <= Rank(StatusOf(goal))
    /\ s \in Terminal => s # "failed" /\ goal = "failed"

JobFits(j) ==
    /\ run[j].pc = "none" => job[j] = None
    /\ job[j] # None =>
          /\ run[j].pc \in {"list", "reply", "start"} => job[j].status = "uploaded"
          /\ run[j].pc \in {"read", "write"} => MayBecome(job[j].status, run[j].goal)
          /\ run[j].pc = "write" => run[j].copy = job[j]
          /\ run[j].pc = "enlist" => job[j].status = StatusOf(run[j].goal)
          /\ run[j].pc \in {"meta", "register", "chunk"} => job[j].status = "indexing"
JobsFit == \A j \in Jobs : JobFits(j)

LEMMA RankIs ==
    /\ Rank("uploaded") = 0 /\ Rank("detecting_type") = 1 /\ Rank("extracting") = 2
    /\ Rank("validating") = 3 /\ Rank("persisting") = 4 /\ Rank("indexing") = 5
    /\ Rank("reconciling") = 6
    /\ \A s \in Terminal : Rank(s) = 7
    /\ \A s \in Statuses : Rank(s) <= 7
  BY DEF Rank, Terminal, Statuses

LEMMA AnyMayFail ==
    ASSUME NEW s \in Statuses \ {"failed"} PROVE MayBecome(s, "failed")
  BY RankIs DEF MayBecome, StatusOf, Terminal

LEMMA FirstGoal == MayBecome("uploaded", "detecting_type")
  BY RankIs DEF MayBecome, StatusOf, Terminal

LEMMA SavedGoal ==
    ASSUME NEW file PROVE MayBecome("indexing", AfterSave(file))
<1>1. AfterSave(file) \in {"reconciling", "ready", "needs_review"}
  BY FollowingGoals DEF AfterSave, FinalStatus
<1> QED
  BY <1>1, RankIs DEF MayBecome, StatusOf, Terminal

LEMMA NextGoal ==
    ASSUME NEW goal \in Goals \ {"save", "end"}, NEW file
    PROVE  /\ AfterUpdate(goal, file) = "save" => StatusOf(goal) = "indexing"
           /\ AfterUpdate(goal, file) \notin {"save", "end"} =>
                 MayBecome(StatusOf(goal), AfterUpdate(goal, file))
<1> DEFINE next == AfterUpdate(goal, file)
<1>1. FinalStatus(file) \in {"ready", "needs_review"}
  BY DEF FinalStatus
<1>2. \/ goal = "detecting_type" /\ next \in {"detected", "failed"}
      \/ goal = "detected" /\ next = "extracting"
      \/ goal = "extracting" /\ next \in {"validating", "failed"}
      \/ goal = "validating" /\ next = "persisting"
      \/ goal = "persisting" /\ next = "indexing"
      \/ goal = "indexing" /\ next = "save"
      \/ goal = "reconciling" /\ next \in {"ready", "needs_review"}
      \/ next = "end"
  BY <1>1 DEF AfterUpdate
<1> HIDE DEF next
<1>3. /\ next = "save" => StatusOf(goal) = "indexing"
      /\ next \notin {"save", "end"} => MayBecome(StatusOf(goal), next)
  BY <1>2, RankIs DEF MayBecome, StatusOf, Terminal
<1> QED
  BY <1>3 DEF next

LEMMA JobsFitInit == Init => JobsFit
  BY DEF Init, JobsFit, JobFits, NotStarted

\* An update that has read, written or listed the job, and one that follows.
LEMMA JobFitsUpdate ==
    ASSUME Types, NEW j \in Jobs, JobFits(j), ReadJob(j) \/ WriteJob(j) \/ Enlist(j)
    PROVE  JobFits(j)'
<1> USE DEF JobFits
<1>1. /\ run[j] \in Runs /\ run[j].goal \in Goals \ {"save", "end"}
      /\ job \in [Jobs -> JobDocuments \cup {None}] /\ run \in [Jobs -> RunStates]
  BY RunType DEF RunStates, ReadJob, WriteJob, Enlist, Types, DataTypes, RunTypes
<1>2. CASE ReadJob(j) /\ job[j] # None
  <2>1. run'[j] = [run[j] EXCEPT !.pc = "write", !.copy = job[j]] /\ job' = job
    BY <1>1, <1>2 DEF ReadJob, jobs
  <2> QED
    BY <1>1, <1>2, <2>1 DEF ReadJob, Runs
<1>3. CASE ReadJob(j) /\ job[j] = None
  <2>1. /\ run'[j] \in {Over(run[j]), Toward(run[j], "failed")} /\ job' = job
    BY <1>1, <1>3 DEF ReadJob, jobs
  <2>2. run'[j].pc # "none"
    BY <1>1, <2>1, OverIs, TowardIs DEF Goals, Statuses, Terminal
  <2> QED
    BY <1>3, <2>1, <2>2
<1>4. CASE WriteJob(j)
  <2>1. /\ job'[j].status = StatusOf(run[j].goal)
        /\ run'[j] = [run[j] EXCEPT !.pc = "enlist"]
    BY <1>1, <1>4 DEF WriteJob
  <2>2. run'[j].pc = "enlist" /\ run'[j].goal = run[j].goal
    BY <1>1, <2>1 DEF Runs
  <2> QED
    BY <2>1, <2>2
<1>5. CASE Enlist(j)
  <2> DEFINE next == AfterUpdate(run[j].goal, run[j].file)
  <2>1. run'[j] = Toward(run[j], next) /\ job' = job
    BY <1>1, <1>5 DEF Enlist
  <2>2. next \in Goals
    BY <1>1, FollowingGoals
  <2>3. job[j] # None => job[j].status = StatusOf(run[j].goal)
    BY <1>5 DEF Enlist
  <2>4. /\ next = "save" => StatusOf(run[j].goal) = "indexing"
        /\ next \notin {"save", "end"} => MayBecome(StatusOf(run[j].goal), next)
    BY <1>1, NextGoal
  <2>5. /\ run'[j].goal = next
        /\ next = "end" => run'[j].pc = "over"
        /\ next = "save" => run'[j].pc = "meta"
        /\ next \notin {"end", "save"} => run'[j].pc = "read"
    BY <1>1, <2>1, <2>2, TowardIs
  <2> HIDE DEF next
  <2> QED
    BY <2>1, <2>3, <2>4, <2>5
<1> QED
  BY <1>2, <1>3, <1>4, <1>5

\* The other steps of an upload.
LEMMA JobFitsOther ==
    ASSUME Types, NEW j \in Jobs, JobFits(j),
           \/ ListNew(j) \/ Reply(j) \/ Start(j) \/ SaveMeta(j) \/ Register(j)
           \/ SaveChunk(j) \/ Raise(j)
    PROVE  JobFits(j)'
<1> USE DEF JobFits
<1>1. /\ run[j] \in Runs /\ run \in [Jobs -> RunStates]
      /\ job[j] # None => job[j].status \in Statuses
  BY RunType DEF Types, DataTypes, RunTypes, JobDocuments
<1>2. job' = job
  BY DEF ListNew, Reply, Start, SaveMeta, Register, SaveChunk, Raise, jobs
<1>3. "failed" \in Goals /\ "detecting_type" \in Goals
  BY DEF Goals, Statuses, Terminal
<1>4. CASE ListNew(j) \/ Reply(j)
  BY <1>1, <1>2, <1>4, OverIs DEF ListNew, Reply, Runs
<1>5. CASE Start(j)
  BY <1>1, <1>2, <1>3, <1>5, OverIs, TowardIs, FirstGoal DEF Start
<1>6. CASE SaveMeta(j) \/ Register(j)
  BY <1>1, <1>2, <1>6 DEF SaveMeta, Register, Runs
<1>7. CASE SaveChunk(j)
  <2> DEFINE next == AfterSave(run[j].file)
  <2>1. \/ run'[j] = Toward(run[j], next)
        \/ run'[j] = [run[j] EXCEPT !.next = run[j].next + 1]
    BY <1>1, <1>7 DEF SaveChunk
  <2>2. next \in Goals /\ next \notin {"save", "end"}
    BY FollowingGoals DEF Goals, Statuses, Terminal
  <2>3. MayBecome("indexing", next)
    BY SavedGoal
  <2> HIDE DEF next
  <2>4. \/ run'[j].pc = "read" /\ run'[j].goal = next
        \/ run'[j].pc = "chunk"
    BY <1>1, <1>7, <2>1, <2>2, TowardIs DEF SaveChunk, Runs
  <2> QED
    BY <1>2, <1>7, <2>3, <2>4 DEF SaveChunk
<1>8. CASE Raise(j) /\ run[j].goal = "failed"
  BY <1>1, <1>2, <1>8, OverIs DEF Raise
<1>9. CASE Raise(j) /\ run[j].goal # "failed"
  <2>1. run'[j] = Toward(run[j], "failed")
    BY <1>1, <1>9 DEF Raise
  <2>2. run'[j].pc = "read" /\ run'[j].goal = "failed"
    BY <1>1, <1>3, <2>1, TowardIs
  <2>3. run[j].pc = "enlist" => StatusOf(run[j].goal) # "failed"
    BY <1>9 DEF StatusOf
  <2>4. job[j] # None => job[j].status # "failed"
    BY <1>9, <2>3 DEF Raise, MayBecome, Terminal
  <2>5. job[j] # None => MayBecome(job[j].status, "failed")
    BY <1>1, <2>4, AnyMayFail
  <2> QED
    BY <1>2, <2>2, <2>5
<1> QED
  BY <1>4, <1>5, <1>6, <1>7, <1>8, <1>9

LEMMA JobsFitNext == Types /\ JobsFit /\ [Next]_vars => JobsFit'
<1> SUFFICES ASSUME Types, JobsFit, [Next]_vars, NEW j \in Jobs PROVE JobFits(j)'
  BY DEF JobsFit
<1>1. JobFits(j)
  BY DEF JobsFit
<1>2. CASE UNCHANGED vars
  BY <1>1, <1>2 DEF vars, jobs, JobFits
<1>3. CASE \E file \in Files : Upload(j, file)
  <2>1. run'[j].pc = "list" /\ job'[j] = NewJob
    BY <1>3, RunType DEF Upload, Types, DataTypes, RunTypes, Runs
  <2> QED
    BY <2>1 DEF JobFits, NewJob
<1>4. CASE PipelineStep(j) \/ Raise(j)
  BY <1>1, <1>4, JobFitsUpdate, JobFitsOther DEF PipelineStep
<1>5. CASE Die /\ Busy(j)
  <2>1. run'[j].pc = "over"
    BY <1>5, RunType, OverIs DEF Die
  <2> QED
    BY <2>1 DEF JobFits
<1>6. CASE run'[j] = run[j] /\ job'[j] \in {job[j], None}
  BY <1>1, <1>6 DEF JobFits
<1> QED
  BY <1>2, <1>3, <1>4, <1>5, <1>6, StepsOfOneJob

\* The property of a step.
Forward(j) ==
    job[j] # None /\ job'[j] # None /\ job'[j] # job[j] =>
        /\ job'[j].entries = job[j].entries + 1
        /\ Rank(job'[j].status) >= Rank(job[j].status)
        /\ job[j].status \in Terminal => /\ job[j].status # "failed"
                                         /\ job'[j].status = "failed"

LEMMA ForwardStep ==
    ASSUME Types, JobsFit, [Next]_vars, NEW j \in Jobs PROVE Forward(j)
<1>1. JobFits(j)
  BY DEF JobsFit
<1>2. CASE UNCHANGED vars
  BY <1>2 DEF vars, jobs, Forward
<1>3. CASE \E file \in Files : Upload(j, file)
  BY <1>1, <1>3 DEF Upload, JobFits, Forward
<1>4. CASE WriteJob(j)
  <2> SUFFICES ASSUME job[j] # None
               PROVE  /\ job'[j].entries = job[j].entries + 1
                      /\ Rank(job'[j].status) >= Rank(job[j].status)
                      /\ job[j].status \in Terminal => /\ job[j].status # "failed"
                                                       /\ job'[j].status = "failed"
    BY DEF Forward
  <2>1. run[j].copy = job[j] /\ MayBecome(job[j].status, run[j].goal)
    BY <1>1, <1>4 DEF WriteJob, JobFits
  <2>2. job'[j].status = StatusOf(run[j].goal) /\ job'[j].entries = job[j].entries + 1
    BY <1>4, <2>1 DEF WriteJob, Types, DataTypes
  <2>3. run[j].goal \in Goals \ {"save", "end"} /\ job[j].status \in Statuses
    BY <1>4, RunType DEF WriteJob, RunStates, Types, DataTypes, JobDocuments
  <2>4. Rank(job[j].status) \in Nat /\ Rank(StatusOf(run[j].goal)) \in Nat
    BY <2>3, StatusOfGoal, RankIs DEF Statuses
  <2> QED
    BY <2>1, <2>2, <2>4 DEF MayBecome, StatusOf
<1>5. CASE (PipelineStep(j) /\ ~WriteJob(j)) \/ Raise(j) \/ Die
  BY <1>5 DEF PipelineStep, ListNew, Reply, Start, ReadJob, Enlist, SaveMeta, Register, SaveChunk,
     Raise, Die, jobs, Forward
<1>6. CASE run'[j] = run[j] /\ job'[j] \in {job[j], None}
  BY <1>6 DEF Forward
<1> QED
  BY <1>2, <1>3, <1>4, <1>5, <1>6, StepsOfOneJob

\* As long as it is stored, a job only moves forward, one entry of its
\* timeline at a time, whatever is deleted or reset meanwhile, and a failure
\* is the last thing it says.
THEOREM JobsOnlyMoveForward == Spec => JobMovesForward
<1>1. Spec => [](Types /\ JobsFit)
  BY TypesInit, TypesNext, JobsFitInit, JobsFitNext, PTL DEF Spec
<1>2. ASSUME Types, JobsFit, [Next]_vars
      PROVE  [\A j \in Jobs :
                job[j] # None /\ job'[j] # None /\ job'[j] # job[j] =>
                    /\ job'[j].entries = job[j].entries + 1
                    /\ Rank(job'[j].status) >= Rank(job[j].status)
                    /\ job[j].status \in Terminal => /\ job[j].status # "failed"
                                                     /\ job'[j].status = "failed"]_vars
  BY <1>2, ForwardStep DEF Forward
<1> QED
  BY <1>1, <1>2, PTL DEF Spec, JobMovesForward

----------------------------------------------------------------------------
(***************************************************************************)
(* The document.  CallFits says what a deletion has seen: whatever it      *)
(* removes is of a document that is touched.  DocFits says how far the     *)
(* document of an upload is stored, while nothing has touched it.          *)
(***************************************************************************)
CallFits(c) ==
    /\ call[c].pc \in {"drop", "meta", "unlist"} => call[c].doc \in touched
    /\ call[c].pc = "drop" => /\ call[c].found # {}
                              /\ \A k \in call[c].found : k.job = call[c].doc
    /\ call[c].pc = "unlink" => touched = Jobs
CallsFit == \A c \in Callers : CallFits(c)

Found(j) == \E n \in Nat : <<j, n>> \in chunk
Listed(j) == j \in registry /\ j \in meta
Whole(j) == Listed(j) /\ Chunks(j) \subseteq chunk

DocFits(j) ==
    j \notin touched =>
        /\ Found(j) => Listed(j)
        /\ job[j] # None /\ job[j].status \in {"ready", "needs_review"} => Whole(j)
        /\ run[j].pc = "register" => j \in meta
        /\ run[j].pc = "chunk" => /\ Listed(j)
                                  /\ \A n \in 1..run[j].next - 1 : <<j, n>> \in chunk
        /\ run[j].pc \in {"read", "write", "enlist"}
           /\ run[j].goal \in {"reconciling", "ready", "needs_review"} => Whole(j)
DocsFit == \A j \in Jobs : DocFits(j)

LEMMA FoundIsHit ==
    ASSUME Types, NEW j \in Jobs PROVE j \in SearchHits <=> Found(j)
<1>1. \A x \in chunk : x = <<x[1], x[2]>> /\ x[2] \in Nat
  BY DEF Types, DataTypes
<1> QED
  BY <1>1 DEF SearchHits, Found

LEMMA DocsFitImplies == Types /\ DocsFit => ShownIsWhole
  BY FoundIsHit DEF DocsFit, DocFits, ShownIsWhole, Listed, Whole, ListDocuments

\* The steps of calls.
LEMMA TouchedGrows ==
    ASSUME Types, Next PROVE touched \subseteq touched'
<1>1. ASSUME NEW j \in Jobs,
             \/ \E file \in Files : Upload(j, file)
             \/ PipelineStep(j) \/ Raise(j) \/ Follow(j) \/ Poll(j)
             \/ \E c \in Callers : StartDelete(c, j)
      PROVE  touched' = touched
  BY <1>1 DEF Upload, PipelineStep, ListNew, Reply, Start, ReadJob, WriteJob, Enlist, SaveMeta,
     Register, SaveChunk, Raise, Follow, Poll, StartDelete, history
<1>2. ASSUME NEW c \in Callers, StartReset(c) \/ CallStep(c) \/ GiveUp(c), ~Scan(c)
      PROVE  touched' = touched \/ touched' = touched \cup {call[c].doc}
  BY <1>2 DEF CallStep, StartReset, GetMeta, SearchChunks, DropChunk, PassOver, DropMeta, Unlist,
     Unlink, Members, ScanJobs, UnlinkJobs, DropJobs, GiveUp, history
<1>3. ASSUME NEW c \in Callers, Scan(c) PROVE touched \subseteq touched'
  BY <1>3 DEF Scan, Types, DataTypes
<1>4. Die => touched' = touched
  BY DEF Die
<1> QED
  BY <1>1, <1>2, <1>3, <1>4 DEF Next

\* The two steps that choose what to remove.
LEMMA SearchChunksIs ==
    ASSUME Types, NEW c \in Callers, SearchChunks(c)
    PROVE  \E S \in Pages(call[c].doc) :
              /\ call'[c].pc = IF S = {} THEN "meta" ELSE "drop"
              /\ call'[c].found = ChunkKeys(S)
              /\ call'[c].doc = call[c].doc /\ call'[c].kind = call[c].kind
              /\ call'[c].clean = call[c].clean
<1>1. PICK S \in Pages(call[c].doc) :
         call' = [call EXCEPT ![c].pc = IF S = {} THEN "meta" ELSE "drop",
                              ![c].found = ChunkKeys(S)]
  BY DEF SearchChunks
<1> QED
  BY <1>1, CallType DEF Types, CallTypes, Calls, CallRecords

LEMMA DropChunkIs ==
    ASSUME Types, NEW c \in Callers, DropChunk(c)
    PROVE  \E k :
              /\ chunk' = chunk \ {<<k.job, k.n>>}
              /\ call[c].found # {} => k \in call[c].found
              /\ call'[c].pc = IF call[c].found = {k} THEN "meta" ELSE "drop"
              /\ call'[c].found = call[c].found \ {k}
              /\ call'[c].doc = call[c].doc /\ call'[c].kind = call[c].kind
              /\ call'[c].clean = call[c].clean
<1> DEFINE k == CHOOSE k \in call[c].found : TRUE
<1>1. call[c].found # {} => k \in call[c].found
  OBVIOUS
<1>2. /\ chunk' = chunk \ {<<k.job, k.n>>}
      /\ call' = [call EXCEPT ![c].found = @ \ {k},
                              ![c].pc = IF call[c].found = {k} THEN "meta" ELSE "drop"]
  BY DEF DropChunk
<1> HIDE DEF k
<1>3. /\ call'[c].pc = IF call[c].found = {k} THEN "meta" ELSE "drop"
      /\ call'[c].found = call[c].found \ {k}
      /\ call'[c].doc = call[c].doc /\ call'[c].kind = call[c].kind
      /\ call'[c].clean = call[c].clean
  BY <1>2, CallType DEF Types, CallTypes, Calls, CallRecords
<1> QED
  BY <1>1, <1>2, <1>3

\* A call that does not move keeps what fits it.
LEMMA CallFitsKept ==
    ASSUME NEW c \in Callers, CallFits(c), touched \subseteq touched', touched' \subseteq Jobs,
           call'[c] = call[c]
    PROVE  CallFits(c)'
  BY DEF CallFits

LEMMA NextDocumentFits ==
    ASSUME Types, NEW c \in Callers, NEW d \in Calls, d.pc # "idle", call'[c] = NextDocument(d)
    PROVE  CallFits(c)'
<1>1. NextDocument(d).pc \in {"idle", "scan_jobs", "get"}
  BY NextDocumentIs
<1> QED
  BY <1>1 DEF CallFits

LEMMA CallFitsStep ==
    ASSUME Types, NEW c \in Callers, CallFits(c), CallStep(c) PROVE CallFits(c)'
<1>1. call[c] \in Calls /\ call \in [Callers -> Calls]
  BY CallType DEF Types, CallTypes
<1> USE DEF CallFits
<1>2. CASE GetMeta(c)
  <2>1. CASE call[c].doc \in meta
    BY <1>1, <1>2, <2>1 DEF GetMeta, Calls, CallRecords
  <2>2. CASE call[c].doc \notin meta
    BY <1>1, <1>2, <2>2, NextDocumentFits DEF GetMeta
  <2> QED
    BY <2>1, <2>2
<1>3. CASE SearchChunks(c)
  <2>2. PICK S \in Pages(call[c].doc) :
           /\ call'[c].pc = IF S = {} THEN "meta" ELSE "drop"
           /\ call'[c].found = ChunkKeys(S) /\ call'[c].doc = call[c].doc
    BY <1>3, SearchChunksIs
  <2>3. \A x \in S : x[1] = call[c].doc
    BY DEF Pages
  <2>4. S # {} => ChunkKeys(S) # {}
    BY DEF ChunkKeys
  <2>5. \A k \in ChunkKeys(S) : k.job = call[c].doc
    BY <2>3 DEF ChunkKeys, Key
  <2>6. touched' = touched \cup {call[c].doc}
    BY <1>3 DEF SearchChunks
  <2> QED
    BY <2>2, <2>4, <2>5, <2>6
<1>4. CASE DropChunk(c)
  <2>2. PICK k : /\ call'[c].found = call[c].found \ {k} /\ call'[c].doc = call[c].doc
                 /\ call'[c].pc = IF call[c].found = {k} THEN "meta" ELSE "drop"
    BY <1>4, DropChunkIs
  <2>3. call[c].found # {k} /\ call[c].found # {} => call[c].found \ {k} # {}
    OBVIOUS
  <2>4. touched' = touched /\ call[c].pc = "drop"
    BY <1>4 DEF DropChunk, history
  <2> QED
    BY <2>2, <2>3, <2>4
<1>5. CASE PassOver(c)
  <2>1. call'[c].pc = "meta" /\ call'[c].doc = call[c].doc
    BY <1>1, <1>5 DEF PassOver, Calls, CallRecords
  <2> QED
    BY <1>5, <2>1 DEF PassOver
<1>6. CASE DropMeta(c)
  <2>1. call'[c].pc = "unlist" /\ call'[c].doc = call[c].doc
    BY <1>1, <1>6 DEF DropMeta, Calls, CallRecords
  <2> QED
    BY <1>6, <2>1 DEF DropMeta, history
<1>7. CASE Unlist(c)
  BY <1>1, <1>7, NextDocumentFits DEF Unlist
<1>8. CASE Scan(c)
  <2>1. call'[c].pc = "unlink"
    BY <1>1, <1>8 DEF Scan, Calls, CallRecords
  <2> QED
    BY <1>8, <2>1 DEF Scan
<1>9. CASE Unlink(c) \/ ScanJobs(c) \/ UnlinkJobs(c) \/ DropJobs(c)
  <2>1. call'[c].pc \in {"members", "unlink_jobs", "drop_jobs", "idle"}
    BY <1>1, <1>9, IdleType DEF Unlink, ScanJobs, UnlinkJobs, DropJobs, Calls, CallRecords
  <2> QED
    BY <2>1
<1>10. CASE Members(c)
  <2>1. /\ [call[c] EXCEPT !.todo = registry] \in Calls
        /\ [call[c] EXCEPT !.todo = registry].pc # "idle"
    BY <1>1, <1>10 DEF Members, Types, DataTypes, Calls, CallRecords
  <2> QED
    BY <1>1, <1>10, <2>1, NextDocumentFits DEF Members
<1> QED
  BY <1>2, <1>3, <1>4, <1>5, <1>6, <1>7, <1>8, <1>9, <1>10 DEF CallStep

LEMMA CallsFitInit == Init => CallsFit
  BY IdleType DEF Init, CallsFit, CallFits

\* Which steps move a call.
LEMMA StepsOfOneCall ==
    ASSUME Types, Next, NEW c \in Callers
    PROVE  \/ CallStep(c)
           \/ StartReset(c) \/ \E j \in Jobs : StartDelete(c, j)
           \/ call'[c] = Idle
           \/ \E j \in Jobs, file \in Files :
                 /\ Upload(j, file) /\ call[c].kind = "reset"
                 /\ call'[c] = [call[c] EXCEPT !.clean = FALSE]
           \/ call'[c] = call[c]
<1>1. ASSUME NEW j \in Jobs, NEW file \in Files, Upload(j, file)
      PROVE  \/ call[c].kind = "reset" /\ call'[c] = [call[c] EXCEPT !.clean = FALSE]
             \/ call'[c] = call[c]
  BY <1>1 DEF Upload
<1>2. ASSUME NEW j \in Jobs, PipelineStep(j) \/ Raise(j) \/ Follow(j) \/ Poll(j)
      PROVE  call'[c] = call[c]
  BY <1>2 DEF PipelineStep, ListNew, Reply, Start, ReadJob, WriteJob, Enlist, SaveMeta,
     Register, SaveChunk, Raise, Follow, Poll
<1>3. ASSUME NEW d \in Callers, d # c, StartReset(d) \/ CallStep(d) \/ GiveUp(d)
      PROVE  call'[c] = call[c]
  BY <1>3 DEF CallStep, StartReset, GetMeta, SearchChunks, DropChunk, PassOver, DropMeta, Unlist,
     Scan, Unlink, Members, ScanJobs, UnlinkJobs, DropJobs, GiveUp, Types, CallTypes
<1>4. ASSUME NEW d \in Callers, NEW j \in Jobs, d # c, StartDelete(d, j)
      PROVE  call'[c] = call[c]
  BY <1>4 DEF StartDelete, Types, CallTypes
<1>5. ASSUME GiveUp(c) PROVE call'[c] = Idle
  BY <1>5 DEF GiveUp, Types, CallTypes
<1>6. ASSUME Die PROVE call'[c] = Idle
  BY <1>6 DEF Die
<1> QED
  BY <1>1, <1>2, <1>3, <1>4, <1>5, <1>6 DEF Next

LEMMA StartResetIs ==
    ASSUME Types, NEW c \in Callers, StartReset(c)
    PROVE  /\ call'[c].pc = "scan" /\ call'[c].kind = "reset"
           /\ call'[c].clean => \A j \in Jobs : ~Busy(j)
<1> DEFINE quiet == \A j \in Jobs : ~Busy(j)
<1>1. call'[c] = [Idle EXCEPT !.pc = "scan", !.kind = "reset", !.clean = quiet]
  BY DEF StartReset, Types, CallTypes
<1> HIDE DEF quiet
<1>2. call'[c].pc = "scan" /\ call'[c].kind = "reset" /\ call'[c].clean = quiet
  BY <1>1 DEF Idle
<1>3. call'[c].clean => quiet
  BY <1>2, Zenon
<1> QED
  BY <1>2, <1>3 DEF quiet

LEMMA StartDeleteIs ==
    ASSUME Types, NEW c \in Callers, NEW j \in Jobs, StartDelete(c, j)
    PROVE  /\ call'[c].pc = "get" /\ call'[c].kind = "delete" /\ call'[c].doc = j
           /\ call'[c].clean => ~Busy(j)
<1> DEFINE quiet == ~Busy(j)
<1>1. call'[c] = [Idle EXCEPT !.pc = "get", !.kind = "delete", !.doc = j, !.clean = quiet]
  BY DEF StartDelete, Types, CallTypes
<1> HIDE DEF quiet
<1>2. /\ call'[c].pc = "get" /\ call'[c].kind = "delete" /\ call'[c].doc = j
      /\ call'[c].clean = quiet
  BY <1>1 DEF Idle
<1>3. call'[c].clean => quiet
  BY <1>2, Zenon
<1> QED
  BY <1>2, <1>3 DEF quiet

LEMMA CallsFitNext == Types /\ CallsFit /\ [Next]_vars => CallsFit'
<1> SUFFICES ASSUME Types, CallsFit, [Next]_vars, NEW c \in Callers PROVE CallFits(c)'
  BY DEF CallsFit
<1>1. CallFits(c) /\ Types'
  BY TypesNext DEF CallsFit
<1>2. CASE UNCHANGED vars
  BY <1>1, <1>2 DEF vars, history, CallFits
<1>3. CASE Next
  <2>1. touched \subseteq touched' /\ touched' \subseteq Jobs
    BY <1>1, <1>3, TouchedGrows DEF Types, DataTypes
  <2>2. CASE CallStep(c)
    BY <1>1, <2>2, CallFitsStep
  <2>3. CASE StartReset(c) \/ \E j \in Jobs : StartDelete(c, j)
    <3>1. call'[c].pc \in {"scan", "get"}
      BY <2>3, StartResetIs, StartDeleteIs
    <3> QED
      BY <3>1 DEF CallFits
  <2>4. CASE call'[c] = Idle
    BY <2>4, IdleType DEF CallFits
  <2>5. CASE call'[c] = [call[c] EXCEPT !.clean = FALSE]
    <3>1. /\ call'[c].pc = call[c].pc /\ call'[c].doc = call[c].doc
          /\ call'[c].found = call[c].found
      BY <2>5, CallType DEF Calls, CallRecords
    <3> QED
      BY <1>1, <2>1, <3>1 DEF CallFits
  <2>6. CASE call'[c] = call[c]
    BY <1>1, <2>1, <2>6, CallFitsKept
  <2> QED
    BY <1>3, <2>2, <2>3, <2>4, <2>5, <2>6, StepsOfOneCall
<1> QED
  BY <1>2, <1>3

\* What is stored of one document does not change.
SameDoc(j) ==
    /\ j \in meta' <=> j \in meta
    /\ j \in registry' <=> j \in registry
    /\ \A n \in Nat : <<j, n>> \in chunk' <=> <<j, n>> \in chunk

LEMMA StepsOfOneDocument ==
    ASSUME Types, CallsFit, Next, NEW j \in Jobs, j \notin touched'
    PROVE  SaveMeta(j) \/ Register(j) \/ SaveChunk(j) \/ SameDoc(j)
<1> USE DEF SameDoc
<1>1. ASSUME NEW i \in Jobs,
             \/ \E file \in Files : Upload(i, file)
             \/ ListNew(i) \/ Reply(i) \/ Start(i) \/ ReadJob(i) \/ WriteJob(i) \/ Enlist(i)
             \/ Raise(i) \/ Follow(i) \/ Poll(i) \/ \E c \in Callers : StartDelete(c, i)
      PROVE  SameDoc(j)
  BY <1>1 DEF Upload, ListNew, Reply, Start, ReadJob, WriteJob, Enlist, Raise, Follow, Poll,
     StartDelete, documents
<1>2. ASSUME NEW i \in Jobs, i # j, SaveMeta(i) \/ Register(i) \/ SaveChunk(i)
      PROVE  SameDoc(j)
  BY <1>2 DEF SaveMeta, Register, SaveChunk
<1>3. ASSUME NEW c \in Callers, StartReset(c) \/ CallStep(c) \/ GiveUp(c)
      PROVE  SameDoc(j)
  <2>1. CallFits(c) /\ touched \subseteq touched'
    BY TouchedGrows DEF CallsFit
  <2>2. CASE \/ StartReset(c) \/ GetMeta(c) \/ SearchChunks(c) \/ PassOver(c) \/ Scan(c)
             \/ Members(c) \/ ScanJobs(c) \/ UnlinkJobs(c) \/ DropJobs(c) \/ GiveUp(c)
    BY <2>2 DEF StartReset, GetMeta, SearchChunks, PassOver, Scan, Members, ScanJobs, UnlinkJobs,
       DropJobs, GiveUp, documents
  <2>3. CASE DropChunk(c)
    <3> DEFINE k == CHOOSE k \in call[c].found : TRUE
    <3>1. k.job = call[c].doc /\ call[c].doc # j
      BY <2>1, <2>3 DEF CallFits, DropChunk
    <3>2. chunk' = chunk \ {<<k.job, k.n>>} /\ meta' = meta /\ registry' = registry
      BY <2>3 DEF DropChunk
    <3> HIDE DEF k
    <3> QED
      BY <3>1, <3>2
  <2>4. CASE DropMeta(c) \/ Unlist(c)
    <3>1. call[c].doc # j
      BY <2>1, <2>4 DEF CallFits, DropMeta, Unlist
    <3> QED
      BY <2>4, <3>1 DEF DropMeta, Unlist
  <2>5. CASE Unlink(c)
    <3>1. touched = Jobs
      BY <2>1, <2>5 DEF CallFits, Unlink
    <3> QED
      BY <2>1, <3>1
  <2> QED
    BY <1>3, <2>2, <2>3, <2>4, <2>5 DEF CallStep
<1>4. Die => SameDoc(j)
  BY DEF Die, documents
<1> QED
  BY <1>1, <1>2, <1>3, <1>4 DEF Next, PipelineStep

LEMMA SameDocIs ==
    ASSUME NEW j \in Jobs, SameDoc(j)
    PROVE  /\ Found(j)' <=> Found(j)
           /\ Listed(j)' <=> Listed(j)
           /\ Whole(j) /\ run[j].file.chunks \in Nat /\ run'[j].file = run[j].file => Whole(j)'
<1>1. (Found(j)' <=> Found(j)) /\ (Listed(j)' <=> Listed(j))
  BY DEF SameDoc, Found, Listed
<1>2. ASSUME Whole(j), run[j].file.chunks \in Nat, run'[j].file = run[j].file PROVE Whole(j)'
  <2>1. \A n \in 1..run[j].file.chunks : <<j, n>> \in chunk /\ n \in Nat
    BY <1>2 DEF Whole, Chunks
  <2>2. \A n \in 1..run'[j].file.chunks : <<j, n>> \in chunk'
    BY <1>2, <2>1 DEF SameDoc
  <2>3. Chunks(j)' \subseteq chunk'
    BY <2>2 DEF Chunks
  <2> QED
    BY <1>1, <1>2, <2>3 DEF Whole
<1> QED
  BY <1>1, <1>2

LEMMA FileIs ==
    ASSUME Types, NEW j \in Jobs PROVE run[j].file.chunks \in Nat
<1>1. run[j].file \in Files \cup {NoFile}
  BY RunType DEF Runs
<1>2. NoFile.chunks \in Nat
  BY DEF NoFile
<1> QED
  BY <1>1, <1>2, FilesAssumption DEF FilesAssumption, FileTypes

LEMMA DocsFitInit == Init => DocsFit
  BY DEF Init, DocsFit, DocFits, Found, NotStarted

\* The steps that store the document.
LEMMA DocFitsSaved ==
    ASSUME Types, NEW j \in Jobs, DocFits(j), SaveMeta(j) \/ Register(j) \/ SaveChunk(j),
           j \notin touched
    PROVE  DocFits(j)'
<1>1. /\ run[j] \in Runs /\ run \in [Jobs -> RunStates] /\ run[j].next \in Nat
      /\ run[j].file.chunks \in Nat
  BY RunType, FileIs DEF Types, RunTypes, Runs
<1>2. job' = job
  BY DEF SaveMeta, Register, SaveChunk, jobs
<1>3. CASE SaveMeta(j)
  <2>1. run'[j] = [run[j] EXCEPT !.pc = "register"] /\ meta' = meta \cup {j}
        /\ registry' = registry /\ chunk' = chunk
    BY <1>1, <1>3 DEF SaveMeta
  <2>2. run'[j].pc = "register" /\ run'[j].file = run[j].file
    BY <1>1, <2>1 DEF Runs
  <2>3. (Found(j) => Listed(j)') /\ (Found(j)' <=> Found(j)) /\ (Whole(j) => Whole(j)')
    BY <2>1, <2>2 DEF DocFits, Found, Listed, Whole, Chunks
  <2> QED
    BY <1>2, <2>1, <2>2, <2>3 DEF DocFits
<1>4. CASE Register(j)
  <2>1. run'[j] = [run[j] EXCEPT !.pc = "chunk", !.next = 1] /\ registry' = registry \cup {j}
        /\ meta' = meta /\ chunk' = chunk
    BY <1>1, <1>4 DEF Register
  <2>2. run'[j].pc = "chunk" /\ run'[j].next = 1 /\ run'[j].file = run[j].file
    BY <1>1, <2>1 DEF Runs
  <2>3. j \in meta
    BY <1>4 DEF Register, DocFits
  <2>4. Listed(j)' /\ (Whole(j) => Whole(j)')
    BY <2>1, <2>2, <2>3 DEF Listed, Whole, Chunks
  <2>5. \A n \in 1..run'[j].next - 1 : <<j, n>> \in chunk'
    BY <2>2
  <2> QED
    BY <1>2, <2>2, <2>4, <2>5 DEF DocFits
<1>5. CASE SaveChunk(j)
  <2>1. Listed(j) /\ \A n \in 1..run[j].next - 1 : <<j, n>> \in chunk
    BY <1>5 DEF SaveChunk, DocFits
  <2>2. chunk' = chunk \cup {<<j, run[j].next>>} /\ meta' = meta /\ registry' = registry
    BY <1>5 DEF SaveChunk
  <2>3. Listed(j)'
    BY <2>1, <2>2 DEF Listed
  <2>4. \A n \in 1..run[j].next : <<j, n>> \in chunk'
    <3> TAKE n \in 1..run[j].next
    <3>1. n = run[j].next \/ n \in 1..run[j].next - 1
      BY <1>1
    <3> QED
      BY <2>1, <2>2, <3>1
  <2>5. CASE run[j].next < run[j].file.chunks
    <3>1. run'[j] = [run[j] EXCEPT !.next = run[j].next + 1]
      BY <1>1, <1>5, <2>5 DEF SaveChunk
    <3>2. run'[j].pc = "chunk" /\ run'[j].next = run[j].next + 1 /\ run'[j].file = run[j].file
      BY <1>1, <1>5, <3>1 DEF SaveChunk, Runs
    <3>3. \A n \in 1..run'[j].next - 1 : <<j, n>> \in chunk'
      BY <1>1, <2>4, <3>2
    <3>4. Whole(j) => Whole(j)'
      BY <2>2, <2>3, <3>2 DEF Whole, Chunks
    <3> QED
      BY <1>2, <2>3, <3>2, <3>3, <3>4 DEF DocFits
  <2>6. CASE ~(run[j].next < run[j].file.chunks)
    <3>1. run'[j] = Toward(run[j], AfterSave(run[j].file))
      BY <1>1, <1>5, <2>6 DEF SaveChunk
    <3>2. AfterSave(run[j].file) \in Goals \ {"save", "end"}
      BY FollowingGoals DEF Goals, Statuses, Terminal
    <3>3. run'[j].pc = "read" /\ run'[j].file = run[j].file
      BY <1>1, <3>1, <3>2, TowardIs
    <3>4. \A n \in 1..run[j].file.chunks : n \in 1..run[j].next
      BY <1>1, <2>6
    <3>5. Chunks(j)' \subseteq chunk'
      BY <2>4, <3>3, <3>4 DEF Chunks
    <3> QED
      BY <2>3, <3>3, <3>5 DEF DocFits, Whole
  <2> QED
    BY <2>5, <2>6
<1> QED
  BY <1>3, <1>4, <1>5

\* The steps of an upload that leave the document alone.
LEMMA DocFitsUpdate ==
    ASSUME Types, NEW j \in Jobs, DocFits(j), j \notin touched, SameDoc(j),
           ReadJob(j) \/ WriteJob(j) \/ Enlist(j)
    PROVE  DocFits(j)'
<1>1. /\ run[j] \in Runs /\ run[j].goal \in Goals \ {"save", "end"}
      /\ job \in [Jobs -> JobDocuments \cup {None}] /\ run \in [Jobs -> RunStates]
      /\ "failed" \in Goals
  BY RunType DEF RunStates, ReadJob, WriteJob, Enlist, Types, DataTypes, RunTypes, Goals, Statuses,
     Terminal
<1>2. /\ Found(j)' <=> Found(j)
      /\ Listed(j)' <=> Listed(j)
      /\ Whole(j) /\ run'[j].file = run[j].file => Whole(j)'
  BY SameDocIs, FileIs
<1>3. /\ Found(j) => Listed(j)
      /\ job[j] # None /\ job[j].status \in {"ready", "needs_review"} => Whole(j)
      /\ run[j].goal \in {"reconciling", "ready", "needs_review"} => Whole(j)
  BY DEF DocFits, ReadJob, WriteJob, Enlist
<1>4. CASE ReadJob(j)
  <2>1. \/ run'[j] = [run[j] EXCEPT !.pc = "write", !.copy = job[j]]
        \/ run'[j] = Over(run[j])
        \/ run'[j] = Toward(run[j], "failed")
    BY <1>1, <1>4 DEF ReadJob
  <2>2. /\ run'[j].file = run[j].file
        /\ \/ run'[j].pc = "write" /\ run'[j].goal = run[j].goal
           \/ run'[j].pc = "over"
           \/ run'[j].pc = "read" /\ run'[j].goal = "failed"
    <3>1. CASE run'[j] = [run[j] EXCEPT !.pc = "write", !.copy = job[j]]
      BY <1>1, <3>1 DEF Runs
    <3>2. CASE run'[j] = Over(run[j])
      BY <1>1, <3>2, OverIs
    <3>3. CASE run'[j] = Toward(run[j], "failed")
      BY <1>1, <3>3, TowardIs
    <3> QED
      BY <2>1, <3>1, <3>2, <3>3
  <2>3. job' = job
    BY <1>4 DEF ReadJob, jobs
  <2> QED
    BY <1>2, <1>3, <2>2, <2>3 DEF DocFits
<1>5. CASE WriteJob(j)
  <2>1. job'[j].status = StatusOf(run[j].goal) /\ run'[j] = [run[j] EXCEPT !.pc = "enlist"]
    BY <1>1, <1>5 DEF WriteJob
  <2>2. /\ run'[j].pc = "enlist" /\ run'[j].goal = run[j].goal
        /\ run'[j].file = run[j].file
    BY <1>1, <2>1 DEF Runs
  <2>3. StatusOf(run[j].goal) \in {"ready", "needs_review"} =>
            run[j].goal \in {"ready", "needs_review"}
    BY DEF StatusOf
  <2> QED
    BY <1>2, <1>3, <2>1, <2>2, <2>3 DEF DocFits
<1>6. CASE Enlist(j)
  <2> DEFINE next == AfterUpdate(run[j].goal, run[j].file)
  <2>1. run'[j] = Toward(run[j], next) /\ job' = job
    BY <1>1, <1>6 DEF Enlist
  <2>2. next \in Goals
    BY <1>1, FollowingGoals
  <2>3. next \in {"reconciling", "ready", "needs_review"} => run[j].goal = "reconciling"
    BY DEF AfterUpdate
  <2> HIDE DEF next
  <2>4. /\ run'[j].file = run[j].file /\ run'[j].goal = next
        /\ run'[j].pc \in {"over", "meta", "read"}
    BY <1>1, <2>1, <2>2, TowardIs
  <2> QED
    BY <1>2, <1>3, <2>1, <2>3, <2>4 DEF DocFits
<1> QED
  BY <1>4, <1>5, <1>6

LEMMA DocFitsOther ==
    ASSUME Types, NEW j \in Jobs, DocFits(j), j \notin touched, SameDoc(j),
           \/ \E file \in Files : Upload(j, file)
           \/ ListNew(j) \/ Reply(j) \/ Start(j) \/ Raise(j) \/ Die
    PROVE  DocFits(j)'
<1>1. run[j] \in Runs /\ run \in [Jobs -> RunStates] /\ job \in [Jobs -> JobDocuments \cup {None}]
  BY RunType DEF Types, DataTypes, RunTypes
<1>2. /\ Found(j)' <=> Found(j)
      /\ Listed(j)' <=> Listed(j)
      /\ Whole(j) /\ run'[j].file = run[j].file => Whole(j)'
  BY SameDocIs, FileIs
<1>3. j \in meta' <=> j \in meta
  BY DEF SameDoc
<1>4. "failed" \in Goals /\ "detecting_type" \in Goals
  BY DEF Goals, Statuses, Terminal
<1>5. CASE \E file \in Files : Upload(j, file)
  <2>1. job'[j] = NewJob /\ run'[j].pc = "list"
    <3>1. PICK file \in Files : Upload(j, file)
      BY <1>5
    <3>2. job'[j] = NewJob
      BY <1>1, <3>1 DEF Upload
    <3>3. run'[j] = [run[j] EXCEPT !.pc = "list", !.file = file]
      BY <1>1, <3>1 DEF Upload
    <3> QED
      BY <1>1, <3>2, <3>3 DEF Runs
  <2> QED
    BY <1>2, <2>1 DEF DocFits, NewJob
<1>6. CASE ListNew(j) \/ Reply(j)
  <2>1. run'[j].file = run[j].file /\ run'[j].pc \in {"reply", "start", "over"} /\ job' = job
    BY <1>1, <1>6, OverIs DEF ListNew, Reply, Runs, jobs
  <2> QED
    BY <1>2, <2>1 DEF DocFits
<1>7. CASE Start(j)
  <2>1. /\ run'[j].file = run[j].file /\ job' = job
        /\ \/ run'[j].pc = "over"
           \/ run'[j].pc = "read" /\ run'[j].goal = "detecting_type"
    <3>1. run'[j] \in {Over(run[j]), Toward(run[j], "detecting_type")} /\ job' = job
      BY <1>1, <1>7 DEF Start, jobs
    <3> QED
      BY <1>1, <1>4, <3>1, OverIs, TowardIs
  <2> QED
    BY <1>2, <2>1 DEF DocFits
<1>8. CASE Raise(j)
  <2>1. /\ run'[j].file = run[j].file /\ job' = job
        /\ \/ run'[j].pc = "over"
           \/ run'[j].pc = "read" /\ run'[j].goal = "failed"
    <3>1. run'[j] \in {Over(run[j]), Toward(run[j], "failed")} /\ job' = job
      BY <1>1, <1>8 DEF Raise, jobs
    <3> QED
      BY <1>1, <1>4, <3>1, OverIs, TowardIs
  <2> QED
    BY <1>2, <2>1 DEF DocFits
<1>9. CASE Die
  <2>1. /\ run'[j].file = run[j].file /\ job' = job
        /\ run'[j] = run[j] \/ run'[j].pc = "over"
    BY <1>1, <1>9, OverIs DEF Die, jobs
  <2> QED
    BY <1>2, <1>3, <2>1 DEF DocFits, SameDoc
<1> QED
  BY <1>5, <1>6, <1>7, <1>8, <1>9

LEMMA DocsFitNext == Types /\ CallsFit /\ DocsFit /\ [Next]_vars => DocsFit'
<1> SUFFICES ASSUME Types, CallsFit, DocsFit, [Next]_vars, NEW j \in Jobs, j \notin touched'
             PROVE  DocFits(j)'
  BY DEF DocsFit, DocFits
<1>1. DocFits(j)
  BY DEF DocsFit
<1>2. CASE UNCHANGED vars
  BY <1>1, <1>2 DEF vars, jobs, documents, history, DocFits, Found, Listed, Whole, Chunks
<1>3. CASE Next
  <2>1. j \notin touched
    BY <1>3, TouchedGrows
  <2>2. CASE SaveMeta(j) \/ Register(j) \/ SaveChunk(j)
    BY <1>1, <2>1, <2>2, DocFitsSaved
  <2>3. CASE SameDoc(j) /\ ~(SaveMeta(j) \/ Register(j) \/ SaveChunk(j))
    <3>1. CASE ReadJob(j) \/ WriteJob(j) \/ Enlist(j)
      BY <1>1, <2>1, <2>3, <3>1, DocFitsUpdate
    <3>2. CASE \/ \E file \in Files : Upload(j, file)
               \/ ListNew(j) \/ Reply(j) \/ Start(j) \/ Raise(j) \/ Die
      BY <1>1, <2>1, <2>3, <3>2, DocFitsOther
    <3>3. CASE run'[j] = run[j] /\ job'[j] \in {job[j], None}
      <4>1. /\ Found(j)' <=> Found(j)
            /\ Listed(j)' <=> Listed(j)
            /\ Whole(j) => Whole(j)'
        BY <2>3, <3>3, SameDocIs, FileIs
      <4>2. /\ j \in meta' <=> j \in meta
            /\ \A n \in 1..run[j].next - 1 : <<j, n>> \in chunk => <<j, n>> \in chunk'
        BY <2>3, RunType DEF SameDoc, Runs
      <4> QED
        BY <1>1, <2>1, <3>3, <4>1, <4>2 DEF DocFits
    <3> QED
      BY <1>3, <2>3, <3>1, <3>2, <3>3, StepsOfOneJob DEF PipelineStep
  <2> QED
    BY <1>3, <2>2, <2>3, StepsOfOneDocument
<1> QED
  BY <1>2, <1>3

\* A job is ready only behind the whole of its document, and what a search
\* finds is listed, for any number of uploads, deletions and resets at work.
THEOREM ReadyMeansStored == Spec => []ShownIsWhole
<1>1. Spec => [](Types /\ CallsFit /\ DocsFit)
  BY TypesInit, TypesNext, CallsFitInit, CallsFitNext, DocsFitInit, DocsFitNext, PTL DEF Spec
<1> QED
  BY <1>1, DocsFitImplies, PTL

----------------------------------------------------------------------------
(***************************************************************************)
(* Removal.  An upload that is over stores nothing any more, and a page    *)
(* holds every chunk of a document that is small enough: Bounded counts    *)
(* them.                                                                   *)
(***************************************************************************)
Bounded(j) ==
    /\ run[j].pc \in {"none", "list", "reply", "start"} => run[j].goal = "end"
    /\ run[j].pc = "none" => ~Found(j)
    /\ run[j].pc \in {"meta", "register", "chunk"} => run[j].goal = "save"
    /\ run[j].goal \in {"validating", "persisting", "indexing", "save"} =>
           run[j].file.chunks >= 1
    /\ run[j].pc = "chunk" => run[j].next \in 1..run[j].file.chunks
    /\ \A n \in Nat : <<j, n>> \in chunk => n \in 1..run[j].file.chunks
AllBounded == \A j \in Jobs : Bounded(j)

\* What is stored of a document at most gets less.
Shrinks(j) ==
    /\ j \in meta' => j \in meta
    /\ j \in registry' => j \in registry
    /\ \A n \in Nat : <<j, n>> \in chunk' => <<j, n>> \in chunk

LEMMA StepsThatStore ==
    ASSUME Next, NEW j \in Jobs
    PROVE  SaveMeta(j) \/ Register(j) \/ SaveChunk(j) \/ Shrinks(j)
<1> USE DEF Shrinks
<1>1. ASSUME NEW i \in Jobs,
             \/ \E file \in Files : Upload(i, file)
             \/ ListNew(i) \/ Reply(i) \/ Start(i) \/ ReadJob(i) \/ WriteJob(i) \/ Enlist(i)
             \/ Raise(i) \/ Follow(i) \/ Poll(i) \/ \E c \in Callers : StartDelete(c, i)
      PROVE  Shrinks(j)
  BY <1>1 DEF Upload, ListNew, Reply, Start, ReadJob, WriteJob, Enlist, Raise, Follow, Poll,
     StartDelete, documents
<1>2. ASSUME NEW i \in Jobs, i # j, SaveMeta(i) \/ Register(i) \/ SaveChunk(i)
      PROVE  Shrinks(j)
  BY <1>2 DEF SaveMeta, Register, SaveChunk
<1>3. ASSUME NEW c \in Callers, StartReset(c) \/ CallStep(c) \/ GiveUp(c)
      PROVE  Shrinks(j)
  <2>1. meta' \subseteq meta /\ registry' \subseteq registry /\ chunk' \subseteq chunk
    BY <1>3 DEF CallStep, StartReset, GetMeta, SearchChunks, DropChunk, PassOver, DropMeta, Unlist,
       Scan, Unlink, Members, ScanJobs, UnlinkJobs, DropJobs, GiveUp, documents
  <2> QED
    BY <2>1
<1>4. Die => Shrinks(j)
  BY DEF Die, documents
<1> QED
  BY <1>1, <1>2, <1>3, <1>4 DEF Next, PipelineStep

LEMMA AllBoundedInit == Init => AllBounded
  BY DEF Init, AllBounded, Bounded, Found, NotStarted

\* A step of an upload that stores nothing.
LEMMA BoundedKept ==
    ASSUME Types, NEW j \in Jobs, Bounded(j), Shrinks(j), run'[j].file = run[j].file,
           run[j].pc = "none" => run'[j].pc = "none",
           run'[j].pc \in {"none", "list", "reply", "start"} => run'[j].goal = "end",
           run'[j].pc \in {"meta", "register", "chunk"} => run'[j].goal = "save",
           run'[j].goal \in {"validating", "persisting", "indexing", "save"} =>
               run[j].file.chunks >= 1,
           run'[j].pc = "chunk" => run'[j].next \in 1..run[j].file.chunks,
           run'[j].pc = "none" => run[j].pc = "none"
    PROVE  Bounded(j)'
  BY DEF Bounded, Shrinks, Found

LEMMA BoundedRoute ==
    ASSUME Types, NEW j \in Jobs, Bounded(j), Shrinks(j),
           ListNew(j) \/ Reply(j) \/ Start(j) \/ ReadJob(j) \/ WriteJob(j) \/ Raise(j) \/ Die
    PROVE  Bounded(j)'
<1>1. /\ run[j] \in Runs /\ run \in [Jobs -> RunStates]
      /\ "failed" \in Goals /\ "detecting_type" \in Goals
  BY RunType DEF Types, RunTypes, Goals, Statuses, Terminal
<1>2. \/ run'[j] = run[j]
      \/ /\ run[j].pc # "none" /\ run'[j].file = run[j].file
         /\ \/ /\ run'[j].goal = run[j].goal
               /\ \/ run[j].pc = "list" /\ run'[j].pc = "reply"
                  \/ run[j].pc = "reply" /\ run'[j].pc = "start"
                  \/ run'[j].pc \in {"write", "enlist"}
            \/ run'[j].pc = "over" /\ run'[j].goal = "end"
            \/ run'[j].pc = "read" /\ run'[j].goal \in {"failed", "detecting_type"}
  <2>1. CASE ListNew(j)
    BY <1>1, <2>1 DEF ListNew, Runs
  <2>2. CASE Reply(j)
    BY <1>1, <2>2, OverIs DEF Reply, Runs
  <2>3. CASE Start(j)
    BY <1>1, <2>3, OverIs, TowardIs DEF Start
  <2>4. CASE ReadJob(j)
    <3>1. CASE job[j] # None
      <4>1. run'[j] = [run[j] EXCEPT !.pc = "write", !.copy = job[j]]
        BY <1>1, <2>4, <3>1 DEF ReadJob
      <4> QED
        BY <1>1, <2>4, <4>1 DEF ReadJob, Runs
    <3>2. CASE job[j] = None
      BY <1>1, <2>4, <3>2, OverIs, TowardIs DEF ReadJob
    <3> QED
      BY <3>1, <3>2
  <2>5. CASE WriteJob(j)
    BY <1>1, <2>5 DEF WriteJob, Runs
  <2>6. CASE Raise(j)
    BY <1>1, <2>6, OverIs, TowardIs DEF Raise
  <2>7. CASE Die
    BY <1>1, <2>7, OverIs DEF Die, Busy
  <2> QED
    BY <2>1, <2>2, <2>3, <2>4, <2>5, <2>6, <2>7
<1> QED
  BY <1>2, BoundedKept DEF Bounded

LEMMA BoundedEnlist ==
    ASSUME Types, NEW j \in Jobs, Bounded(j), Shrinks(j), Enlist(j) PROVE Bounded(j)'
<1> DEFINE next == AfterUpdate(run[j].goal, run[j].file)
<1>1. run[j] \in Runs /\ run \in [Jobs -> RunStates] /\ run[j].goal \in Goals
  BY RunType DEF Types, RunTypes, Runs
<1>2. run'[j] = Toward(run[j], next) /\ next \in Goals
  BY <1>1, FollowingGoals DEF Enlist
<1>3. next \in {"validating", "persisting", "indexing", "save"} => run[j].file.chunks >= 1
  <2>1. \/ next = "validating" /\ run[j].file.chunks > 0
        \/ run[j].goal \in {"validating", "persisting", "indexing"}
        \/ next \notin {"validating", "persisting", "indexing", "save"}
    BY DEF AfterUpdate, FinalStatus
  <2> HIDE DEF next
  <2> QED
    BY <2>1, FileIs DEF Bounded
<1> HIDE DEF next
<1>4. /\ run'[j].file = run[j].file /\ run'[j].goal = next
      /\ \/ run'[j].pc = "over" /\ next = "end"
         \/ run'[j].pc = "meta" /\ next = "save"
         \/ run'[j].pc = "read"
  BY <1>1, <1>2, TowardIs
<1> QED
  BY <1>3, <1>4, BoundedKept DEF Enlist

LEMMA BoundedSaved ==
    ASSUME Types, NEW j \in Jobs, Bounded(j), SaveMeta(j) \/ Register(j) \/ SaveChunk(j)
    PROVE  Bounded(j)'
<1>1. /\ run[j] \in Runs /\ run \in [Jobs -> RunStates] /\ run[j].next \in Nat
      /\ run[j].file.chunks \in Nat /\ run[j].file.chunks >= 1 /\ run[j].goal = "save"
  BY RunType, FileIs DEF Types, RunTypes, Runs, Bounded, SaveMeta, Register, SaveChunk
<1>2. \A n \in Nat : <<j, n>> \in chunk => n \in 1..run[j].file.chunks
  BY DEF Bounded
<1>3. CASE SaveMeta(j)
  <2>1. run'[j] = [run[j] EXCEPT !.pc = "register"] /\ chunk' = chunk
    BY <1>1, <1>3 DEF SaveMeta
  <2>2. run'[j].pc = "register" /\ run'[j].goal = "save" /\ run'[j].file = run[j].file
    BY <1>1, <2>1 DEF Runs
  <2> QED
    BY <1>1, <1>2, <2>1, <2>2 DEF Bounded
<1>4. CASE Register(j)
  <2>1. run'[j] = [run[j] EXCEPT !.pc = "chunk", !.next = 1] /\ chunk' = chunk
    BY <1>1, <1>4 DEF Register
  <2>2. /\ run'[j].pc = "chunk" /\ run'[j].goal = "save" /\ run'[j].file = run[j].file
        /\ run'[j].next = 1
    BY <1>1, <2>1 DEF Runs
  <2> QED
    BY <1>1, <1>2, <2>1, <2>2 DEF Bounded
<1>5. CASE SaveChunk(j)
  <2>1. run[j].next \in 1..run[j].file.chunks
    BY <1>5 DEF SaveChunk, Bounded
  <2>2. \A n \in Nat : <<j, n>> \in chunk' => n \in 1..run[j].file.chunks
    BY <1>2, <1>5, <2>1 DEF SaveChunk
  <2>3. CASE run[j].next < run[j].file.chunks
    <3>1. run'[j] = [run[j] EXCEPT !.next = run[j].next + 1]
      BY <1>1, <1>5, <2>3 DEF SaveChunk
    <3>2. /\ run'[j].pc = "chunk" /\ run'[j].next = run[j].next + 1
          /\ run'[j].file = run[j].file /\ run'[j].goal = "save"
      BY <1>1, <1>5, <3>1 DEF SaveChunk, Runs
    <3>3. run'[j].next \in 1..run'[j].file.chunks
      BY <1>1, <2>3, <3>2
    <3> QED
      BY <1>1, <2>2, <3>2, <3>3 DEF Bounded
  <2>4. CASE ~(run[j].next < run[j].file.chunks)
    <3>1. run'[j] = Toward(run[j], AfterSave(run[j].file))
      BY <1>1, <1>5, <2>4 DEF SaveChunk
    <3>2. /\ AfterSave(run[j].file) \in Goals \ {"save", "end"}
          /\ AfterSave(run[j].file) \in {"reconciling", "ready", "needs_review"}
      BY FollowingGoals DEF Goals, Statuses, Terminal
    <3>3. /\ run'[j].pc = "read" /\ run'[j].file = run[j].file
          /\ run'[j].goal = AfterSave(run[j].file)
      BY <1>1, <3>1, <3>2, TowardIs
    <3> QED
      BY <2>2, <3>2, <3>3 DEF Bounded
  <2> QED
    BY <2>3, <2>4
<1> QED
  BY <1>3, <1>4, <1>5

LEMMA BoundedUpload ==
    ASSUME Types, NEW j \in Jobs, NEW file \in Files, Bounded(j), Shrinks(j), Upload(j, file)
    PROVE  Bounded(j)'
<1>1. run[j] \in Runs /\ run \in [Jobs -> RunStates]
  BY RunType DEF Types, RunTypes
<1>2. run'[j] = [run[j] EXCEPT !.pc = "list", !.file = file]
  BY <1>1 DEF Upload
<1>3. run'[j].pc = "list" /\ run'[j].goal = "end"
  BY <1>1, <1>2 DEF Upload, Runs, Bounded
<1>4. ~Found(j)
  BY DEF Bounded, Upload
<1> QED
  BY <1>3, <1>4 DEF Bounded, Shrinks, Found

LEMMA AllBoundedNext == Types /\ AllBounded /\ [Next]_vars => AllBounded'
<1> SUFFICES ASSUME Types, AllBounded, [Next]_vars, NEW j \in Jobs PROVE Bounded(j)'
  BY DEF AllBounded
<1>1. Bounded(j)
  BY DEF AllBounded
<1>2. CASE UNCHANGED vars
  BY <1>1, <1>2 DEF vars, documents, Bounded, Found
<1>3. CASE Next /\ (SaveMeta(j) \/ Register(j) \/ SaveChunk(j))
  BY <1>1, <1>3, BoundedSaved
<1>4. CASE Next /\ ~(SaveMeta(j) \/ Register(j) \/ SaveChunk(j))
  <2>1. Shrinks(j)
    BY <1>4, StepsThatStore
  <2>2. CASE run'[j] = run[j]
    BY <1>1, <2>1, <2>2 DEF Bounded, Shrinks, Found
  <2>3. CASE \E file \in Files : Upload(j, file)
    BY <1>1, <2>1, <2>3, BoundedUpload
  <2> QED
    BY <1>1, <1>4, <2>1, <2>2, <2>3, BoundedRoute, BoundedEnlist, StepsOfOneJob DEF PipelineStep
<1> QED
  BY <1>2, <1>3, <1>4

\* A page of a small document is all of it.
LEMMA PageIsAll ==
    ASSUME Types, NEW j \in Jobs, Bounded(j), run[j].file.chunks <= PageSize, NEW S \in Pages(j)
    PROVE  S = {c \in chunk : c[1] = j}
<1> DEFINE mine == {c \in chunk : c[1] = j}
           m == run[j].file.chunks
           f == [c \in mine |-> c[2]]
<1>1. m \in Nat
  BY FileIs
<1>2. \A c \in mine : c = <<j, c[2]>> /\ c[2] \in 1..m
  <2> TAKE c \in mine
  <2>1. c = <<j, c[2]>> /\ c[2] \in Nat /\ c \in chunk
    BY DEF Types, DataTypes
  <2> QED
    BY <2>1 DEF Bounded
<1>3. f \in [mine -> 1..m] /\ \A c, d \in mine : f[c] = f[d] => c = d
  BY <1>2
<1>4. f \in Injection(mine, 1..m)
  <2> HIDE DEF f, mine, m
  <2>1. DOMAIN f = mine
    BY <1>3
  <2> QED
    BY <1>3, <2>1 DEF Injection, IsInjective
<1> HIDE DEF mine, m, f
<1>5. IsFiniteSet(1..m) /\ Cardinality(1..m) = m
  BY <1>1, FS_Interval
<1>6. IsFiniteSet(mine) /\ Cardinality(mine) <= m
  BY <1>4, <1>5, FS_Injection
<1>7. Cardinality(mine) \in Nat
  BY <1>6, FS_CardinalityType
<1>8. /\ S \in SUBSET mine
      /\ Cardinality(S) = IF Cardinality(mine) < PageSize THEN Cardinality(mine) ELSE PageSize
  BY DEF Pages, mine
<1>9. Cardinality(S) = Cardinality(mine)
  BY <1>1, <1>6, <1>7, <1>8, BoundsAssumption DEF BoundsAssumption, m
<1> QED
  BY <1>6, <1>8, <1>9, FS_Subset DEF mine

(***************************************************************************)
(* A deletion that began after the pipeline and of which no command failed *)
(* (Cleans), and what it leaves (Removed).                                 *)
(***************************************************************************)
Small(j) == run[j].file.chunks <= PageSize

KindFits(c) == call[c].kind = "delete" => call[c].pc \in DeletionPcs
Cleans(c) ==
    call[c].kind = "delete" /\ call[c].clean =>
        LET j == call[c].doc
        IN  /\ run[j].pc = "over"
            /\ call[c].pc = "drop" /\ Small(j) =>
                  \A n \in Nat : <<j, n>> \in chunk => Key("chunk", j, n) \in call[c].found
            /\ call[c].pc \in {"meta", "unlist"} /\ Small(j) => ~Found(j)
            /\ call[c].pc = "unlist" => j \notin meta
Deletions == \A c \in Callers : KindFits(c) /\ Cleans(c)

Removed(j) ==
    j \in deleted => /\ run[j].pc = "over"
                     /\ j \notin meta /\ j \notin registry
                     /\ Small(j) => ~Found(j)
AllRemoved == \A j \in Jobs : Removed(j)

LEMMA OverStays ==
    ASSUME Types, Next, NEW j \in Jobs, run[j].pc = "over"
    PROVE  run'[j] = run[j] /\ Shrinks(j)
<1>1. /\ ~(\E file \in Files : Upload(j, file))
      /\ ~PipelineStep(j) /\ ~Raise(j) /\ ~Busy(j)
  BY DEF Upload, PipelineStep, ListNew, Reply, Start, ReadJob, WriteJob, Enlist, SaveMeta,
     Register, SaveChunk, Raise, Busy
<1> QED
  BY <1>1, StepsOfOneJob, StepsThatStore DEF PipelineStep

LEMMA DeletionsInit == Init => Deletions /\ AllRemoved
  BY IdleType DEF Init, Deletions, KindFits, Cleans, AllRemoved, Removed

\* A call step ends the call or keeps its kind, and never makes it clean.
LEMMA NextDocumentKeeps ==
    ASSUME NEW c \in Calls
    PROVE  \/ NextDocument(c) = Idle
           \/ NextDocument(c).kind = c.kind /\ NextDocument(c).clean = c.clean
<1>1. CASE c.kind = "delete"
  BY <1>1 DEF NextDocument
<1>2. CASE c.kind # "delete" /\ c.todo = {}
  <2>1. NextDocument(c) = [c EXCEPT !.pc = "scan_jobs", !.doc = None, !.found = {}]
    BY <1>2 DEF NextDocument
  <2> QED
    BY <2>1 DEF Calls, CallRecords
<1>3. CASE c.kind # "delete" /\ c.todo # {}
  <2> DEFINE d == CHOOSE d \in c.todo : TRUE
  <2>1. NextDocument(c) = [c EXCEPT !.pc = "get", !.doc = d, !.todo = @ \ {d}, !.found = {}]
    BY <1>3 DEF NextDocument
  <2> HIDE DEF d
  <2> QED
    BY <2>1 DEF Calls, CallRecords
<1> QED
  BY <1>1, <1>2, <1>3

LEMMA CallStepKeeps ==
    ASSUME Types, NEW c \in Callers, CallStep(c)
    PROVE  \/ call'[c] = Idle
           \/ call'[c].kind = call[c].kind /\ (call'[c].clean => call[c].clean)
<1>1. call[c] \in Calls /\ call \in [Callers -> Calls]
  BY CallType DEF Types, CallTypes
<1>2. CASE SearchChunks(c)
  BY <1>2, SearchChunksIs
<1>3. CASE DropChunk(c)
  BY <1>3, DropChunkIs
<1>4. CASE PassOver(c) \/ DropMeta(c) \/ Scan(c) \/ Unlink(c) \/ ScanJobs(c) \/ UnlinkJobs(c)
  BY <1>1, <1>4 DEF PassOver, DropMeta, Scan, Unlink, ScanJobs, UnlinkJobs, Calls, CallRecords
<1>5. CASE DropJobs(c)
  BY <1>1, <1>5 DEF DropJobs
<1>6. CASE Unlist(c)
  BY <1>1, <1>6, NextDocumentKeeps DEF Unlist
<1>7. CASE GetMeta(c)
  <2>1. \/ call'[c] = NextDocument(call[c])
        \/ call'[c] = [call[c] EXCEPT !.pc = "search"]
    BY <1>1, <1>7 DEF GetMeta
  <2> QED
    BY <1>1, <2>1, NextDocumentKeeps DEF Calls, CallRecords
<1>8. CASE Members(c)
  <2>1. /\ [call[c] EXCEPT !.todo = registry] \in Calls
        /\ [call[c] EXCEPT !.todo = registry].kind = call[c].kind
        /\ [call[c] EXCEPT !.todo = registry].clean = call[c].clean
    BY <1>1, <1>8 DEF Members, Types, DataTypes, Calls, CallRecords
  <2>2. call'[c] = NextDocument([call[c] EXCEPT !.todo = registry])
    BY <1>1, <1>8 DEF Members
  <2> QED
    BY <2>1, <2>2, NextDocumentKeeps
<1> QED
  BY <1>2, <1>3, <1>4, <1>5, <1>6, <1>7, <1>8 DEF CallStep

LEMMA KindFitsStep ==
    ASSUME Types, NEW c \in Callers, KindFits(c), CallStep(c) PROVE KindFits(c)'
<1>1. call[c] \in Calls /\ call \in [Callers -> Calls]
  BY CallType DEF Types, CallTypes
<1> USE DEF KindFits, DeletionPcs
<1>2. CASE GetMeta(c)
  BY <1>1, <1>2, IdleType DEF GetMeta, NextDocument, Calls, CallRecords
<1>3. CASE SearchChunks(c)
  BY <1>3, SearchChunksIs
<1>4. CASE DropChunk(c)
  BY <1>4, DropChunkIs
<1>5. CASE PassOver(c)
  BY <1>1, <1>5 DEF PassOver, Calls, CallRecords
<1>6. CASE DropMeta(c)
  BY <1>1, <1>6 DEF DropMeta, Calls, CallRecords
<1>7. CASE Unlist(c)
  BY <1>1, <1>7, IdleType DEF Unlist, NextDocument, Calls, CallRecords
<1>8. CASE Scan(c) \/ Unlink(c) \/ Members(c) \/ ScanJobs(c) \/ UnlinkJobs(c) \/ DropJobs(c)
  <2>1. call[c].kind = "reset"
    BY <1>1, <1>8 DEF Scan, Unlink, Members, ScanJobs, UnlinkJobs, DropJobs, Calls
  <2>2. call'[c].kind # "delete"
    BY <2>1, IdleType, CallStepKeeps
  <2> QED
    BY <2>2
<1> QED
  BY <1>2, <1>3, <1>4, <1>5, <1>6, <1>7, <1>8 DEF CallStep

\* A deletion that does not move: its document is over and at most shrinks.
LEMMA CleansKept ==
    ASSUME Types, Next, NEW c \in Callers, KindFits(c), Cleans(c), call'[c] = call[c]
    PROVE  Cleans(c)'
<1> SUFFICES ASSUME call[c].kind = "delete", call[c].clean PROVE Cleans(c)'
  BY DEF Cleans
<1> DEFINE j == call[c].doc
<1>1. j \in Jobs /\ run[j].pc = "over"
  BY CallType DEF KindFits, Cleans, Calls
<1>2. run'[j] = run[j] /\ Shrinks(j)
  BY <1>1, OverStays
<1>3. Found(j)' => Found(j)
  BY <1>2 DEF Found, Shrinks
<1> QED
  BY <1>1, <1>2, <1>3 DEF Cleans, Shrinks, Small, Found

LEMMA CleansStep ==
    ASSUME Types, AllBounded, Next, NEW c \in Callers, KindFits(c), Cleans(c), CallStep(c)
    PROVE  Cleans(c)'
<1>1. call[c] \in Calls /\ call \in [Callers -> Calls]
  BY CallType DEF Types, CallTypes
<1>2. CASE call[c].kind = "delete" /\ call[c].clean
  <2>1. PICK j \in Jobs : j = call[c].doc /\ run[j].pc = "over" /\ call[c].pc \in DeletionPcs
    BY <1>1, <1>2 DEF KindFits, Cleans, Calls
  <2>2. run'[j] = run[j] /\ (Small(j)' <=> Small(j)) /\ (Found(j)' => Found(j))
    BY <2>1, OverStays DEF Small, Found, Shrinks
  <2>3. CASE GetMeta(c)
    <3>1. \/ call'[c] = Idle
          \/ call'[c].pc = "search" /\ call'[c].doc = j
      BY <1>1, <1>2, <2>1, <2>3 DEF GetMeta, NextDocument, Calls, CallRecords
    <3> QED
      BY <2>1, <2>2, <3>1, IdleType DEF Cleans
  <2>4. CASE SearchChunks(c)
    <3>2. PICK S \in Pages(j) :
             /\ call'[c].pc = IF S = {} THEN "meta" ELSE "drop"
             /\ call'[c].found = ChunkKeys(S) /\ call'[c].doc = j
      BY <2>1, <2>4, SearchChunksIs
    <3>3. chunk' = chunk
      BY <2>4 DEF SearchChunks, documents
    <3>4. Small(j) => S = {x \in chunk : x[1] = j}
      BY <2>1, PageIsAll DEF Small, AllBounded
    <3>5. Small(j) => \A n \in Nat : <<j, n>> \in chunk => Key("chunk", j, n) \in ChunkKeys(S)
      BY <3>4 DEF ChunkKeys
    <3>6. Small(j) /\ S = {} => ~Found(j)
      <4> SUFFICES ASSUME NEW n \in Nat, <<j, n>> \in chunk, Small(j) PROVE S # {}
        BY DEF Found
      <4> QED
        BY <3>4
    <3> QED
      BY <2>1, <2>2, <3>2, <3>3, <3>5, <3>6 DEF Cleans
  <2>5. CASE DropChunk(c)
    <3>1. PICK k : /\ chunk' = chunk \ {<<k.job, k.n>>}
                   /\ call'[c].found = call[c].found \ {k} /\ call'[c].doc = j
                   /\ call'[c].pc = IF call[c].found = {k} THEN "meta" ELSE "drop"
      BY <2>1, <2>5, DropChunkIs
    <3>3. Small(j) => \A n \in Nat : <<j, n>> \in chunk => Key("chunk", j, n) \in call[c].found
      BY <1>2, <2>1, <2>5 DEF Cleans, DropChunk
    <3>4. \A n \in Nat : Key("chunk", j, n) = k => k.job = j /\ k.n = n
      BY DEF Key
    <3>5. Small(j) => \A n \in Nat : <<j, n>> \in chunk' =>
                         Key("chunk", j, n) \in call[c].found \ {k}
      BY <3>1, <3>3, <3>4
    <3>6. Small(j) /\ call[c].found = {k} => ~Found(j)'
      <4> SUFFICES ASSUME NEW n \in Nat, <<j, n>> \in chunk', Small(j) PROVE call[c].found # {k}
        BY DEF Found
      <4> QED
        BY <3>5
    <3> QED
      BY <2>1, <2>2, <3>1, <3>5, <3>6 DEF Cleans
  <2>6. CASE PassOver(c)
    <3>1. call'[c].clean = FALSE
      BY <1>1, <2>6 DEF PassOver, Calls, CallRecords
    <3> QED
      BY <3>1 DEF Cleans
  <2>7. CASE DropMeta(c)
    <3>1. call'[c].pc = "unlist" /\ call'[c].doc = j
      BY <1>1, <2>1, <2>7 DEF DropMeta, Calls, CallRecords
    <3>2. j \notin meta' /\ (Small(j) => ~Found(j))
      BY <1>2, <2>1, <2>7 DEF DropMeta, Cleans
    <3> QED
      BY <2>1, <2>2, <3>1, <3>2 DEF Cleans
  <2>8. CASE Unlist(c)
    <3>1. call'[c] = Idle
      BY <1>1, <1>2, <2>8 DEF Unlist, NextDocument
    <3> QED
      BY <3>1, IdleType DEF Cleans
  <2>9. ~(Scan(c) \/ Unlink(c) \/ Members(c) \/ ScanJobs(c) \/ UnlinkJobs(c) \/ DropJobs(c))
    BY <2>1 DEF DeletionPcs, Scan, Unlink, Members, ScanJobs, UnlinkJobs, DropJobs
  <2> QED
    BY <2>3, <2>4, <2>5, <2>6, <2>7, <2>8, <2>9 DEF CallStep
<1>3. CASE ~(call[c].kind = "delete" /\ call[c].clean)
  <2>1. ~(call'[c].kind = "delete" /\ call'[c].clean)
    BY <1>3, IdleType, CallStepKeeps
  <2> QED
    BY <2>1 DEF Cleans
<1> QED
  BY <1>2, <1>3

LEMMA DeletionsNext == Types /\ AllBounded /\ Deletions /\ [Next]_vars => Deletions'
<1> SUFFICES ASSUME Types, AllBounded, Deletions, [Next]_vars, NEW c \in Callers
             PROVE  KindFits(c)' /\ Cleans(c)'
  BY DEF Deletions
<1>1. KindFits(c) /\ Cleans(c)
  BY DEF Deletions
<1>2. CASE UNCHANGED vars
  BY <1>1, <1>2 DEF vars, documents, KindFits, Cleans, Small, Found
<1>3. CASE Next
  <2>1. CASE CallStep(c)
    BY <1>1, <1>3, <2>1, KindFitsStep, CleansStep
  <2>2. CASE StartReset(c)
    <3>1. call'[c].kind = "reset"
      BY <2>2, StartResetIs
    <3> QED
      BY <3>1 DEF KindFits, Cleans
  <2>3. CASE \E j \in Jobs : StartDelete(c, j)
    <3>1. PICK j \in Jobs : StartDelete(c, j)
      BY <2>3
    <3>2. call'[c].pc = "get" /\ call'[c].doc = j /\ (call'[c].clean => ~Busy(j))
      BY <3>1, StartDeleteIs
    <3>3. call'[c].clean => run[j].pc = "over"
      BY <3>1, <3>2 DEF StartDelete, Busy
    <3>4. run' = run
      BY <3>1 DEF StartDelete
    <3> QED
      BY <3>2, <3>3, <3>4 DEF KindFits, Cleans, DeletionPcs
  <2>4. CASE call'[c] = Idle
    BY <2>4, IdleType DEF KindFits, Cleans
  <2>5. CASE call[c].kind = "reset" /\ call'[c] = [call[c] EXCEPT !.clean = FALSE]
    <3>1. call'[c].kind = "reset"
      BY <2>5, CallType DEF Calls, CallRecords
    <3> QED
      BY <3>1 DEF KindFits, Cleans
  <2>6. CASE call'[c] = call[c]
    BY <1>1, <1>3, <2>6, CleansKept DEF KindFits
  <2> QED
    BY <1>3, <2>1, <2>2, <2>3, <2>4, <2>5, <2>6, StepsOfOneCall
<1> QED
  BY <1>2, <1>3

\* Only the last step of a deletion adds to what is deleted.
LEMMA DeletedGrows ==
    ASSUME Types, Next, NEW j \in Jobs, j \in deleted', j \notin deleted
    PROVE  \E c \in Callers : Unlist(c) /\ call[c].kind = "delete" /\ call[c].clean
                            /\ call[c].doc = j
<1>1. ASSUME NEW i \in Jobs,
             \/ \E file \in Files : Upload(i, file)
             \/ PipelineStep(i) \/ Raise(i) \/ Follow(i) \/ Poll(i)
             \/ \E c \in Callers : StartDelete(c, i)
      PROVE  deleted' = deleted
  BY <1>1 DEF Upload, PipelineStep, ListNew, Reply, Start, ReadJob, WriteJob, Enlist, SaveMeta,
     Register, SaveChunk, Raise, Follow, Poll, StartDelete, history
<1>2. ASSUME NEW c \in Callers, StartReset(c) \/ CallStep(c) \/ GiveUp(c), ~Unlist(c)
      PROVE  deleted' = deleted
  BY <1>2 DEF CallStep, StartReset, GetMeta, SearchChunks, DropChunk, PassOver, DropMeta,
     Scan, Unlink, Members, ScanJobs, UnlinkJobs, DropJobs, GiveUp, history
<1>3. Die => deleted' = deleted
  BY DEF Die
<1>4. PICK c \in Callers : Unlist(c)
  BY <1>1, <1>2, <1>3 DEF Next
<1> QED
  BY <1>4 DEF Unlist

LEMMA AllRemovedNext ==
    Types /\ AllBounded /\ Deletions /\ AllRemoved /\ [Next]_vars => AllRemoved'
<1> SUFFICES ASSUME Types, AllBounded, Deletions, AllRemoved, [Next]_vars, NEW j \in Jobs,
                    j \in deleted'
             PROVE  Removed(j)'
  BY DEF AllRemoved, Removed
<1>1. CASE UNCHANGED vars
  BY <1>1 DEF vars, documents, history, AllRemoved, Removed, Small, Found
<1>2. CASE Next /\ j \in deleted
  <2>1. /\ run[j].pc = "over" /\ j \notin meta /\ j \notin registry
        /\ Small(j) => ~Found(j)
    BY <1>2 DEF AllRemoved, Removed
  <2>2. run'[j] = run[j] /\ Shrinks(j)
    BY <1>2, <2>1, OverStays
  <2> QED
    BY <2>1, <2>2 DEF Removed, Shrinks, Small, Found
<1>3. CASE Next /\ j \notin deleted
  <2>1. PICK c \in Callers : /\ Unlist(c) /\ call[c].kind = "delete" /\ call[c].clean
                             /\ call[c].doc = j
    BY <1>3, DeletedGrows
  <2>2. /\ run[j].pc = "over" /\ j \notin meta
        /\ Small(j) => ~Found(j)
    BY <2>1 DEF Deletions, Cleans, Unlist
  <2>3. run'[j] = run[j] /\ Shrinks(j)
    BY <1>3, <2>2, OverStays
  <2>4. j \notin registry'
    BY <2>1 DEF Unlist
  <2> QED
    BY <2>2, <2>3, <2>4 DEF Removed, Shrinks, Small, Found
<1> QED
  BY <1>1, <1>2, <1>3

(***************************************************************************)
(* A reset that no upload overlaps (Wipes), and what it leaves (Wiped).    *)
(***************************************************************************)
Quiet == \A j \in Jobs : ~Busy(j)
Empty ==
    /\ meta = {} /\ registry = {} /\ chunk = {} /\ jobRegistry = {}
    /\ \A j \in Jobs : job[j] = None

Wipes(c) ==
    call[c].kind = "reset" /\ call[c].clean =>
        /\ Quiet
        /\ call[c].pc = "unlink" => AllKeys \subseteq call[c].found
        /\ call[c].pc \notin {"scan", "unlink"} => Empty
Resets == \A c \in Callers : Wipes(c)
Wiped == wiped => Quiet /\ Empty

\* While nothing runs, a step is an upload, or everything at most shrinks.
LessStored ==
    /\ meta' \subseteq meta /\ registry' \subseteq registry /\ chunk' \subseteq chunk
    /\ jobRegistry' \subseteq jobRegistry
    /\ \A j \in Jobs : job'[j] \in {job[j], None}

LEMMA QuietSteps ==
    ASSUME Types, Next, Quiet
    PROVE  \/ \E j \in Jobs, file \in Files : Upload(j, file)
           \/ Quiet' /\ LessStored
<1>1. \A j \in Jobs : run[j].pc \in {"none", "over"}
  BY DEF Quiet, Busy
<1>2. ASSUME NEW j \in Jobs, PipelineStep(j) \/ Raise(j) PROVE FALSE
  BY <1>1, <1>2 DEF PipelineStep, ListNew, Reply, Start, ReadJob, WriteJob, Enlist, SaveMeta,
     Register, SaveChunk, Raise
<1>3. ASSUME NEW j \in Jobs, Follow(j) \/ Poll(j) PROVE Quiet' /\ LessStored
  BY <1>3 DEF Follow, Poll, Quiet, Busy, LessStored, jobs, documents
<1>4. ASSUME NEW c \in Callers, StartReset(c) \/ CallStep(c) \/ GiveUp(c)
      PROVE  Quiet' /\ LessStored
  <2>1. run' = run
    BY <1>4 DEF CallStep, StartReset, GetMeta, SearchChunks, DropChunk, PassOver, DropMeta, Unlist,
       Scan, Unlink, Members, ScanJobs, UnlinkJobs, DropJobs, GiveUp
  <2>2. meta' \subseteq meta /\ registry' \subseteq registry /\ chunk' \subseteq chunk
    BY <1>4 DEF CallStep, StartReset, GetMeta, SearchChunks, DropChunk, PassOver, DropMeta, Unlist,
       Scan, Unlink, Members, ScanJobs, UnlinkJobs, DropJobs, GiveUp, documents
  <2>3. jobRegistry' \subseteq jobRegistry /\ \A j \in Jobs : job'[j] \in {job[j], None}
    BY <1>4 DEF CallStep, StartReset, GetMeta, SearchChunks, DropChunk, PassOver, DropMeta, Unlist,
       Scan, Unlink, Members, ScanJobs, UnlinkJobs, DropJobs, GiveUp, jobs
  <2> QED
    BY <2>1, <2>2, <2>3 DEF Quiet, Busy, LessStored
<1>5. ASSUME NEW c \in Callers, NEW j \in Jobs, StartDelete(c, j) PROVE Quiet' /\ LessStored
  BY <1>5 DEF StartDelete, Quiet, Busy, LessStored, jobs, documents
<1>6. ASSUME Die PROVE Quiet' /\ LessStored
  BY <1>6 DEF Die, Quiet, Busy, LessStored, jobs, documents
<1> QED
  BY <1>2, <1>3, <1>4, <1>5, <1>6 DEF Next

LEMMA LessIs ==
    ASSUME Types, LessStored
    PROVE  (Empty => Empty') /\ AllKeys' \subseteq AllKeys
<1>1. Empty => Empty'
  BY DEF LessStored, Empty
<1>2. JobKeys' \subseteq JobKeys
  BY DEF LessStored, JobKeys
<1>3. ChunkKeys(chunk)' \subseteq ChunkKeys(chunk)
  BY DEF LessStored, ChunkKeys
<1>4. {Key("meta", j, 0) : j \in meta'} \subseteq {Key("meta", j, 0) : j \in meta}
  BY DEF LessStored
<1>5. (registry' = {} \/ registry # {}) /\ (jobRegistry' = {} \/ jobRegistry # {})
  BY DEF LessStored
<1> QED
  BY <1>1, <1>2, <1>3, <1>4, <1>5 DEF AllKeys

\* What a scan found is all there is, so unlinking it leaves nothing.
LEMMA UnlinkEmpties ==
    ASSUME Types, NEW c \in Callers, Unlink(c), AllKeys \subseteq call[c].found
    PROVE  Empty'
<1>1. \A k \in AllKeys : k.job \in Named(c, k.kind)
  BY DEF Named
<1>2. \A j \in Jobs : job[j] # None => j \in Named(c, "job")
  <2> TAKE j \in Jobs
  <2>1. job[j] # None => Key("job", j, 0) \in AllKeys
    BY DEF AllKeys, JobKeys
  <2> QED
    BY <1>1, <2>1 DEF Key
<1>3. \A j \in meta : j \in Named(c, "meta")
  <2> TAKE j \in meta
  <2>1. Key("meta", j, 0) \in AllKeys
    BY DEF AllKeys
  <2> QED
    BY <1>1, <2>1 DEF Key
<1>4. registry # {} => Named(c, "registry") # {}
  <2>1. registry # {} => Key("registry", None, 0) \in AllKeys
    BY DEF AllKeys
  <2> QED
    BY <1>1, <2>1 DEF Key
<1>5. jobRegistry # {} => Named(c, "job_registry") # {}
  <2>1. jobRegistry # {} => Key("job_registry", None, 0) \in AllKeys
    BY DEF AllKeys
  <2> QED
    BY <1>1, <2>1 DEF Key
<1>6. \A x \in chunk : Key("chunk", x[1], x[2]) \in call[c].found
  BY DEF AllKeys, ChunkKeys
<1> QED
  BY <1>2, <1>3, <1>4, <1>5, <1>6 DEF Unlink, Empty

LEMMA ResetsInit == Init => Resets /\ Wiped
  BY IdleType DEF Init, Resets, Wipes, Wiped

\* A reset that does not move, or whose step leaves what is stored alone.
LEMMA WipesKept ==
    ASSUME Types, NEW c \in Callers, Wipes(c), call'[c] = call[c], LessStored,
           Quiet => Quiet'
    PROVE  Wipes(c)'
  BY LessIs DEF Wipes

\* The step of a reset that goes on.
LEMMA WipesStep ==
    ASSUME Types, NEW c \in Callers, KindFits(c), Wipes(c), CallStep(c),
           call[c].kind = "reset", call[c].clean, Quiet', LessStored
    PROVE  Wipes(c)'
<1>1. call[c] \in Calls /\ call \in [Callers -> Calls]
  BY CallType DEF Types, CallTypes
<1>2. Empty => Empty'
  BY LessIs
<1>3. CASE Scan(c)
  <2>1. call'[c] = [call[c] EXCEPT !.pc = "unlink", !.found = AllKeys]
    BY <1>1, <1>3 DEF Scan
  <2>2. call'[c].pc = "unlink" /\ call'[c].found = AllKeys
    BY <1>1, <2>1 DEF Calls, CallRecords
  <2>3. AllKeys' \subseteq AllKeys
    BY LessIs
  <2> QED
    BY <2>2, <2>3 DEF Wipes
<1>4. CASE Unlink(c)
  <2>1. AllKeys \subseteq call[c].found
    BY <1>4 DEF Wipes, Unlink
  <2>2. Empty'
    BY <1>4, <2>1, UnlinkEmpties
  <2>3. call'[c].pc = "members"
    BY <1>1, <1>4 DEF Unlink, Calls, CallRecords
  <2> QED
    BY <2>2, <2>3 DEF Wipes
<1>5. CASE ~Scan(c) /\ ~Unlink(c)
  <2>1. call[c].pc \notin {"scan", "unlink"}
    BY <1>5 DEF CallStep, GetMeta, SearchChunks, DropChunk, PassOver, DropMeta, Unlist, Scan,
       Unlink, Members, ScanJobs, UnlinkJobs, DropJobs
  <2>2. Empty'
    BY <1>2, <2>1 DEF Wipes
  <2>3. call'[c].pc # "unlink"
    <3>1. CASE GetMeta(c)
      <4>1. \/ call'[c] = NextDocument(call[c])
            \/ call'[c] = [call[c] EXCEPT !.pc = "search"]
        BY <1>1, <3>1 DEF GetMeta
      <4> QED
        BY <1>1, <3>1, <4>1, NextDocumentIs DEF GetMeta, Calls, CallRecords
    <3>2. CASE Unlist(c)
      BY <1>1, <3>2, NextDocumentIs DEF Unlist
    <3>3. CASE Members(c)
      <4>1. /\ [call[c] EXCEPT !.todo = registry] \in Calls
            /\ [call[c] EXCEPT !.todo = registry].pc # "idle"
        BY <1>1, <3>3 DEF Members, Types, DataTypes, Calls, CallRecords
      <4>2. call'[c] = NextDocument([call[c] EXCEPT !.todo = registry])
        BY <1>1, <3>3 DEF Members
      <4> QED
        BY <4>1, <4>2, NextDocumentIs
    <3>4. CASE SearchChunks(c)
      BY <3>4, SearchChunksIs
    <3>5. CASE DropChunk(c)
      BY <3>5, DropChunkIs
    <3>6. CASE PassOver(c) \/ DropMeta(c) \/ ScanJobs(c) \/ UnlinkJobs(c)
      BY <1>1, <3>6 DEF PassOver, DropMeta, ScanJobs, UnlinkJobs, Calls, CallRecords
    <3>7. CASE DropJobs(c)
      <4>1. call'[c] = Idle
        BY <1>1, <3>7 DEF DropJobs
      <4> QED
        BY <4>1, IdleType
    <3> QED
      BY <1>5, <3>1, <3>2, <3>3, <3>4, <3>5, <3>6, <3>7 DEF CallStep
  <2> QED
    BY <2>2, <2>3 DEF Wipes
<1> QED
  BY <1>3, <1>4, <1>5

LEMMA ResetsNext == Types /\ Deletions /\ Resets /\ [Next]_vars => Resets'
<1> SUFFICES ASSUME Types, Deletions, Resets, [Next]_vars, NEW c \in Callers PROVE Wipes(c)'
  BY DEF Resets
<1>1. Wipes(c) /\ KindFits(c)
  BY DEF Resets, Deletions
<1>2. CASE UNCHANGED vars
  BY <1>1, <1>2 DEF vars, documents, jobs, Wipes, Quiet, Busy, Empty, AllKeys, JobKeys, ChunkKeys
<1>3. CASE Next /\ Quiet /\ (\E j \in Jobs, file \in Files : Upload(j, file))
  <2>1. \/ call'[c].kind # "reset"
        \/ call'[c].clean = FALSE
    BY <1>3, CallType DEF Upload, Calls, CallRecords
  <2> QED
    BY <2>1 DEF Wipes
<1>4. CASE Next /\ Quiet' /\ LessStored
  <2>1. CASE CallStep(c)
    <3>1. CASE call'[c].kind = "reset" /\ call'[c].clean
      <4>1. call[c].kind = "reset" /\ call[c].clean
        BY <2>1, <3>1, CallStepKeeps, IdleType
      <4> QED
        BY <1>1, <1>4, <2>1, <4>1, WipesStep
    <3>2. CASE ~(call'[c].kind = "reset" /\ call'[c].clean)
      BY <3>2 DEF Wipes
    <3> QED
      BY <3>1, <3>2
  <2>2. CASE StartReset(c)
    <3>1. call'[c].pc = "scan"
      BY <2>2, StartResetIs
    <3> QED
      BY <1>4, <3>1 DEF Wipes
  <2>3. CASE \E j \in Jobs : StartDelete(c, j)
    <3>1. call'[c].kind = "delete"
      BY <2>3, StartDeleteIs
    <3> QED
      BY <3>1 DEF Wipes
  <2>4. CASE call'[c] = Idle
    BY <2>4, IdleType DEF Wipes
  <2>5. CASE call'[c] = [call[c] EXCEPT !.clean = FALSE]
    <3>1. call'[c].clean = FALSE
      BY <2>5, CallType DEF Calls, CallRecords
    <3> QED
      BY <3>1 DEF Wipes
  <2>6. CASE call'[c] = call[c]
    BY <1>1, <1>4, <2>6, WipesKept
  <2> QED
    BY <1>4, <2>1, <2>2, <2>3, <2>4, <2>5, <2>6, StepsOfOneCall
<1>5. CASE Next /\ ~Quiet
  <2>1. ~(call[c].kind = "reset" /\ call[c].clean)
    BY <1>1, <1>5 DEF Wipes
  <2>2. CASE StartReset(c)
    <3>1. ~call'[c].clean
      BY <1>5, <2>2, StartResetIs DEF Quiet
    <3> QED
      BY <3>1 DEF Wipes
  <2>3. CASE \E j \in Jobs : StartDelete(c, j)
    <3>1. call'[c].kind = "delete"
      BY <2>3, StartDeleteIs
    <3> QED
      BY <3>1 DEF Wipes
  <2>4. CASE CallStep(c)
    BY <2>1, <2>4, CallStepKeeps, IdleType DEF Wipes
  <2>5. CASE call'[c] = Idle
    BY <2>5, IdleType DEF Wipes
  <2>6. CASE call'[c] = [call[c] EXCEPT !.clean = FALSE]
    <3>1. call'[c].clean = FALSE
      BY <2>6, CallType DEF Calls, CallRecords
    <3> QED
      BY <3>1 DEF Wipes
  <2>7. CASE call'[c] = call[c]
    BY <2>1, <2>7 DEF Wipes
  <2> QED
    BY <1>5, <2>2, <2>3, <2>4, <2>5, <2>6, <2>7, StepsOfOneCall
<1> QED
  BY <1>2, <1>3, <1>4, <1>5, QuietSteps

LEMMA WipedNext == Types /\ Deletions /\ Resets /\ Wiped /\ [Next]_vars => Wiped'
<1> SUFFICES ASSUME Types, Deletions, Resets, Wiped, [Next]_vars, wiped' PROVE Quiet' /\ Empty'
  BY DEF Wiped
<1>1. CASE UNCHANGED vars
  BY <1>1 DEF vars, documents, jobs, history, Wiped, Quiet, Busy, Empty
<1>2. CASE Next /\ \E c \in Callers : DropJobs(c)
  <2>1. PICK c \in Callers : DropJobs(c)
    BY <1>2
  <2>2. call[c].kind = "reset" /\ call[c].clean /\ call[c].pc = "drop_jobs"
    BY <2>1, CallType DEF DropJobs, Deletions, KindFits, DeletionPcs, Calls
  <2>3. Quiet /\ Empty
    BY <2>2 DEF Resets, Wipes
  <2> QED
    BY <2>1, <2>3 DEF DropJobs, documents, Quiet, Busy, Empty
<1>3. CASE Next /\ ~(\E c \in Callers : DropJobs(c))
  <2>1. ~(\E j \in Jobs, file \in Files : Upload(j, file))
    BY DEF Upload
  <2>2. wiped
    <3>1. ASSUME NEW j \in Jobs,
                 \/ PipelineStep(j) \/ Raise(j) \/ Follow(j) \/ Poll(j)
                 \/ \E c \in Callers : StartDelete(c, j)
          PROVE  wiped' = wiped
      BY <3>1 DEF PipelineStep, ListNew, Reply, Start, ReadJob, WriteJob, Enlist, SaveMeta,
         Register, SaveChunk, Raise, Follow, Poll, StartDelete, history
    <3>2. ASSUME NEW c \in Callers, StartReset(c) \/ CallStep(c) \/ GiveUp(c)
          PROVE  wiped' = wiped
      BY <1>3, <3>2 DEF CallStep, StartReset, GetMeta, SearchChunks, DropChunk, PassOver, DropMeta,
         Unlist, Scan, Unlink, Members, ScanJobs, UnlinkJobs, GiveUp, history
    <3>3. Die => wiped' = wiped
      BY DEF Die
    <3> QED
      BY <1>3, <2>1, <3>1, <3>2, <3>3 DEF Next
  <2>3. Quiet /\ Empty
    BY <2>2 DEF Wiped
  <2> QED
    BY <1>3, <2>1, <2>3, QuietSteps, LessIs
<1> QED
  BY <1>1, <1>2, <1>3

LEMMA RemovalImplies == Types /\ AllRemoved /\ Wiped => RemovalIsComplete
<1> SUFFICES ASSUME Types, AllRemoved, Wiped PROVE RemovalIsComplete
  OBVIOUS
<1>1. \A j \in Jobs : j \in SearchHits <=> Found(j)
  BY FoundIsHit
<1>2. DeletionLeavesNothing
  BY <1>1 DEF DeletionLeavesNothing, AllRemoved, Removed, Small, Types, DataTypes
<1>3. wiped => SearchHits = {} /\ ListParseJobs = {} /\ ListDocuments = {}
  BY DEF Wiped, Empty, SearchHits, ListParseJobs, ListDocuments
<1>4. ResetLeavesNothing
  BY <1>3 DEF ResetLeavesNothing, Wiped, Empty
<1> QED
  BY <1>2, <1>4 DEF RemovalIsComplete

\* What is deleted stays away, and a reset that no upload overlaps leaves
\* nothing, whatever other deletions and resets are at work.
THEOREM RemovalsAreComplete == Spec => []RemovalIsComplete
<1> DEFINE Inv == Types /\ AllBounded /\ Deletions /\ AllRemoved /\ Resets /\ Wiped
<1>1. Init => Inv
  BY TypesInit, AllBoundedInit, DeletionsInit, ResetsInit
<1>2. Inv /\ [Next]_vars => Inv'
  BY TypesNext, AllBoundedNext, DeletionsNext, AllRemovedNext, ResetsNext, WipedNext
<1>3. Inv => RemovalIsComplete
  BY RemovalImplies
<1> QED
  BY <1>1, <1>2, <1>3, PTL DEF Spec
=============================================================================
