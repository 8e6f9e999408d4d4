-------------------------- MODULE ConnectorImport --------------------------
(***************************************************************************)
(* Imports of operations files, what is derived from them, and their       *)
(* reconciliation (agent/src/integrations/service.py and store.py, the     *)
(* routes of api.py, the command line of cli.py and the demo reset), at    *)
(* the granularity of Redis commands.                                      *)
(*                                                                         *)
(* An imported file is stored as two documents written one after the       *)
(* other: its provenance, with checksum and counts, then its rows.  A file *)
(* whose checksum the provenance already has is skipped.  After an import  *)
(* the company record and the vendor records are derived from the rows,    *)
(* and a report is computed from all of it.                                *)
(*                                                                         *)
(* An upload never awaits once its file is read, so uploads run one after  *)
(* the other on the event loop.  The reconciliation and the reset routes   *)
(* run in pool threads and the command line is another process: their      *)
(* commands fall between any two others.                                   *)
(*                                                                         *)
(* Left out: what parsing and reconciliation compute (a file has an        *)
(* outcome for each connector), quality summaries, the run log, the parse  *)
(* job of an upload, and the limit of 50 on the vendors a report reads.    *)
(* The vendors of different files have different ids.                      *)
(*                                                                         *)
(* Definitions marked "Mutation:" are plausible bugs in the definition     *)
(* that follows them, kept to show which property would notice.            *)
(***************************************************************************)
EXTENDS Integers, Sequences, FiniteSets, SequencesExt

CONSTANTS
    Callers,      \* calls that may be in progress at the same time
    Order,        \* CONNECTORS, in its order
    Ledger,       \* the connector the company is derived from
    VendorExport, \* the connector the vendors come from
    Files,        \* contents of the files clients send or configure
    Rows,         \* rows that files hold
    Outcome,      \* what parsing a file for a connector gives
    Signal,       \* rows without which a ledger makes no company
    Seeded,       \* the vendors that seed() writes
    None,         \* no file, no company, no report
    MaxCalls,     \* bound of the model: calls started
    CanFail       \* a Redis command may raise, or the process may die

Connectors == ToSet(Order)
Kinds == {"upload", "import", "derive", "reconcile", "reset"}

\* Statuses of a file that was parsed or could not be, and the others.
Parsed == [status : {"imported", "partial", "empty", "error"}, rows : SUBSET Rows]
Statuses == {"imported", "partial", "empty", "error", "skipped", "unavailable"}

ASSUME ConnectorsAssumption ==
    /\ Order \in Seq(Connectors) /\ IsInjective(Order)
    /\ {Ledger, VendorExport} \subseteq Connectors
ASSUME OutcomeAssumption ==
    /\ Outcome \in [Connectors -> [Files -> Parsed]]
    /\ \A c \in Connectors, f \in Files :
          /\ Outcome[c][f].status \in {"empty", "error"} => Outcome[c][f].rows = {}
          /\ Outcome[c][f].status = "imported" => Outcome[c][f].rows # {}
ASSUME RowsAssumption ==
    /\ IsFiniteSet(Rows)
    /\ Signal \subseteq Rows /\ Signal # {}
    /\ Seeded \cap Rows = {}
ASSUME BoundsAssumption == MaxCalls \in Nat /\ CanFail \in BOOLEAN

VARIABLES
    source,   \* atlas:source:<connector>, the provenance
    dataset,  \* atlas:dataset:<connector>, the rows; none reads as no rows
    company,  \* atlas:company:northwind, as the ledger rows it was derived from
    vendors,  \* atlas:vendor:*
    report,   \* atlas:reconciliation:latest
    call,     \* the calls in progress
    calls,    \* calls started
    orderly   \* history: no two calls have overlapped, and none has failed

vars == <<source, dataset, company, vendors, report, call, calls, orderly>>
stored == <<source, dataset, company, vendors, report>>

(***************************************************************************)
(* Documents.                                                              *)
(***************************************************************************)
NoSource == [status |-> "none", file |-> None, accepted |-> 0, reviewed |-> FALSE]
Sources == {NoSource} \cup
           [status : Statuses, file : Files \cup {None},
            accepted : 0..Cardinality(Rows), reviewed : BOOLEAN]

Provenance(status, file, accepted) ==
    [status |-> status, file |-> file, accepted |-> accepted, reviewed |-> FALSE]

\* IMPORTED_STATUSES, and _existing_good
HasData(doc) == doc.status \in {"imported", "partial", "skipped"}
Good(doc) == HasData(doc) /\ doc.accepted > 0

\* Mutation: the status is not looked at.
SameChecksumAnyStatus(doc, file) == doc.file = file

\* existing_checksum(...) == checksum
SameChecksum(doc, file) == HasData(doc) /\ doc.file = file

\* The sources a reconciliation considers.
Considered(doc) == HasData(doc)

\* mark_reconciled returns when the provenance is gone.
Marks(doc) == doc # NoSource

Reports == [company : {None} \cup SUBSET Rows, vendors : SUBSET (Rows \cup Seeded),
            data : [Connectors -> SUBSET Rows], considered : SUBSET Connectors]
BlankReport == [company |-> None, vendors |-> {},
                data |-> [c \in Connectors |-> {}], considered |-> {}]

ASSUME NoneAssumption == None \notin Files /\ None \notin Reports

(***************************************************************************)
(* Calls.  A call is between two Redis commands; pc names the next:        *)
(*   check, prior, good   GETs of the provenance before it is written      *)
(*   status               SET of the provenance alone                      *)
(*   save, rows           SETs of the provenance and of the rows           *)
(*   ledger, company      GET of the ledger's rows, SET of the company     *)
(*   export, vacate, vendor  GET of the vendors' rows, deletion and SETs   *)
(*   reconcile, vendors, data, list  GETs of a reconciliation              *)
(*   review, mark         GET and SET of mark_reconciled                   *)
(*   report               SET of the report                                *)
(*   clear, clear_rows, clear_report, clear_company, vendor  of a reset    *)
(*   respond              the call is over                                 *)
(***************************************************************************)
Pcs == {"idle", "check", "prior", "good", "status", "save", "rows", "ledger",
        "company", "export", "vacate", "vendor", "reconcile", "vendors", "data",
        "list", "review", "mark", "report", "clear", "clear_rows",
        "clear_report", "clear_company", "respond"}

CallStates == [pc : Pcs, kind : Kinds \cup {"none"},
               queue : UNION {[1..n -> Connectors] : n \in 0..Len(Order)},
               file : Files \cup {None},   \* being imported
               doc : Sources,              \* the provenance about to be SET
               rows : SUBSET (Rows \cup Seeded),  \* rows in hand
               left : SUBSET Connectors,   \* listed or reviewed yet to be
               seen : Reports,             \* the report in the making
               met : SUBSET Kinds]         \* history: what ran beside it
Idle == [pc |-> "idle", kind |-> "none", queue |-> <<>>, file |-> None,
         doc |-> NoSource, rows |-> {}, left |-> {}, seen |-> BlankReport,
         met |-> {}]

TypeOK ==
    /\ source \in [Connectors -> Sources]
    /\ dataset \in [Connectors -> SUBSET Rows]
    /\ company \in {None} \cup SUBSET Rows
    /\ vendors \subseteq Rows \cup Seeded
    /\ report \in {None} \cup Reports
    /\ call \in [Callers -> CallStates]
    /\ calls \in 0..MaxCalls
    /\ orderly \in BOOLEAN

\* Redis was seeded, nothing was imported.
Init ==
    /\ source = [c \in Connectors |-> NoSource]
    /\ dataset = [c \in Connectors |-> {}]
    /\ company = None
    /\ vendors = Seeded
    /\ report = None
    /\ call = [a \in Callers |-> Idle]
    /\ calls = 0
    /\ orderly = TRUE

At(a, pc) == call[a].pc = pc
Running == {a \in Callers : call[a].pc # "idle"}
Do(a, next) == call' = [call EXCEPT ![a] = next]

(***************************************************************************)
(* A call arrives.                                                         *)
(***************************************************************************)
Start(a, next) ==
    /\ At(a, "idle") /\ calls < MaxCalls
    /\ call' = [b \in Callers |->
          IF b = a THEN [next EXCEPT !.met = {call[e].kind : e \in Running}]
          ELSE IF b \in Running THEN [call[b] EXCEPT !.met = @ \cup {next.kind}]
          ELSE call[b]]
    /\ calls' = calls + 1
    /\ orderly' = (orderly /\ Running = {})
    /\ UNCHANGED stored

LoopFree == \A a \in Running : call[a].kind # "upload"

\* One connector, or one after the other.
Selections == {<<c>> : c \in Connectors} \cup {Order}

(* connector_import, and connector_workbook_import with one file for all. *)
Upload(a) ==
    /\ LoopFree
    /\ \E f \in Files, queue \in Selections :
          Start(a, [Idle EXCEPT !.pc = "check", !.kind = "upload",
                                !.queue = queue, !.file = f])

(* cmd_import: each connector reads the file its path names, if there is one. *)
Import(a) ==
    \E queue \in Selections :
        Start(a, [Idle EXCEPT !.pc = "check", !.kind = "import", !.queue = queue])

(* cmd_reconcile; cmd_run is cmd_import and then this. *)
Derive(a) == Start(a, [Idle EXCEPT !.pc = "ledger", !.kind = "derive"])

(* reconciliation_run *)
Reconcile(a) == Start(a, [Idle EXCEPT !.pc = "reconcile", !.kind = "reconcile"])

(* demo_reset *)
Reset(a) == Start(a, [Idle EXCEPT !.pc = "clear", !.kind = "reset", !.queue = Order])

(***************************************************************************)
(* Importing one connector: import_uploaded_file, import_connector.        *)
(***************************************************************************)
\* A call goes on, with empty hands.
Goto(h, pc) == [h EXCEPT !.pc = pc, !.doc = NoSource, !.rows = {}, !.left = {}]

\* The connector is done: the next one, or what follows the imports.
Onward(h) ==
    IF Len(h.queue) > 1
    THEN [Goto(h, "check") EXCEPT !.queue = Tail(@)]
    ELSE [Goto(h, IF h.kind = "import" THEN "respond" ELSE "ledger") EXCEPT
             !.queue = <<>>, !.file = None]

\* A file that cannot be read leaves an error: an upload writes it at once,
\* import_connector asks for a good import first.
Rejected(h, f, status) ==
    [h EXCEPT !.pc = IF h.kind = "upload" THEN "status" ELSE "good",
              !.file = f, !.doc = Provenance(status, f, 0)]

(* existing_checksum, and parsing the file unless it is there already.  The command
   line may find no file at all; then nothing is read. *)
Check(a) ==
    LET h == call[a]
        c == Head(h.queue)
    IN
    /\ At(a, "check")
    /\ \/ \E f \in IF h.kind = "upload" THEN {h.file} ELSE Files :
             Do(a, IF SameChecksum(source[c], f)
                   THEN [h EXCEPT !.pc = "prior", !.file = f]
                   ELSE IF Outcome[c][f].status = "error" THEN Rejected(h, f, "error")
                   ELSE [h EXCEPT !.pc = "save", !.file = f,
                                  !.rows = Outcome[c][f].rows,
                                  !.doc = Provenance(Outcome[c][f].status, f,
                                                     Cardinality(Outcome[c][f].rows))])
       \/ /\ h.kind = "import"
          /\ Do(a, Rejected(h, None, "unavailable"))
    /\ UNCHANGED <<stored, calls, orderly>>

(* A file that is skipped takes over the counts of the provenance, read again. *)
ReadPrior(a) ==
    LET h == call[a] IN
    /\ At(a, "prior")
    /\ Do(a, [h EXCEPT !.pc = "status",
                       !.doc = Provenance("skipped", h.file,
                                          source[Head(h.queue)].accepted)])
    /\ UNCHANGED <<stored, calls, orderly>>

(* Mutation: _fail persists whatever was attempted last. *)
ForgetGood(a) ==
    /\ At(a, "good")
    /\ Do(a, [call[a] EXCEPT !.pc = "status"])
    /\ UNCHANGED <<stored, calls, orderly>>

(* _fail: a good import keeps its provenance. *)
KeepGood(a) ==
    /\ At(a, "good")
    /\ Do(a, IF Good(source[Head(call[a].queue)]) THEN Onward(call[a])
             ELSE [call[a] EXCEPT !.pc = "status"])
    /\ UNCHANGED <<stored, calls, orderly>>

(* save_provenance *)
SaveStatus(a) ==
    LET h == call[a] IN
    /\ At(a, "status")
    /\ source' = [source EXCEPT ![Head(h.queue)] = h.doc]
    /\ Do(a, Onward(h))
    /\ UNCHANGED <<dataset, company, vendors, report, calls, orderly>>

(* save_source: the provenance ... *)
SaveSource(a) ==
    LET h == call[a] IN
    /\ At(a, "save")
    /\ source' = [source EXCEPT ![Head(h.queue)] = h.doc]
    /\ Do(a, [h EXCEPT !.pc = "rows"])
    /\ UNCHANGED <<dataset, company, vendors, report, calls, orderly>>

(* ... and then the rows. *)
SaveRows(a) ==
    LET h == call[a] IN
    /\ At(a, "rows")
    /\ dataset' = [dataset EXCEPT ![Head(h.queue)] = h.rows]
    /\ Do(a, Onward(h))
    /\ UNCHANGED <<source, company, vendors, report, calls, orderly>>

(***************************************************************************)
(* apply_company_derivation.                                               *)
(***************************************************************************)
(* derive_company_record: without its signal a ledger makes no company, and the
   vendors stay as they are too. *)
ReadLedger(a) ==
    /\ At(a, "ledger")
    /\ Do(a, IF Signal \subseteq dataset[Ledger]
             THEN [Goto(call[a], "company") EXCEPT !.rows = dataset[Ledger]]
             ELSE Goto(call[a], "reconcile"))
    /\ UNCHANGED <<stored, calls, orderly>>

SaveCompany(a) ==
    /\ At(a, "company")
    /\ company' = call[a].rows
    /\ Do(a, Goto(call[a], "export"))
    /\ UNCHANGED <<source, dataset, vendors, report, calls, orderly>>

(* _apply_uploaded_vendors: no vendors, no change ... *)
ReadExport(a) ==
    /\ At(a, "export")
    /\ Do(a, IF dataset[VendorExport] = {} THEN Goto(call[a], "reconcile")
             ELSE [Goto(call[a], "vacate") EXCEPT !.rows = dataset[VendorExport]])
    /\ UNCHANGED <<stored, calls, orderly>>

(* Mutation: the vendors that are there stay. *)
VacateNothing(a) ==
    /\ At(a, "vacate")
    /\ Do(a, [call[a] EXCEPT !.pc = "vendor"])
    /\ UNCHANGED <<stored, calls, orderly>>

(* ... or all vendors are deleted ... *)
Vacate(a) ==
    /\ At(a, "vacate")
    /\ vendors' = {}
    /\ Do(a, [call[a] EXCEPT !.pc = "vendor"])
    /\ UNCHANGED <<source, dataset, company, report, calls, orderly>>

(* ... and written one by one, by a derivation as by the seeding of a reset. *)
SaveVendor(a) ==
    LET h == call[a] IN
    /\ At(a, "vendor")
    /\ \E v \in h.rows :
          /\ vendors' = vendors \cup {v}
          /\ Do(a, IF h.rows # {v} THEN [h EXCEPT !.rows = @ \ {v}]
                   ELSE Goto(h, IF h.kind = "reset" THEN "respond" ELSE "reconcile"))
    /\ UNCHANGED <<source, dataset, company, report, calls, orderly>>

(***************************************************************************)
(* run_reconciliation.                                                     *)
(***************************************************************************)
(* The company, and its vendors if there is one ... *)
ReadCompany(a) ==
    /\ At(a, "reconcile")
    /\ Do(a, [Goto(call[a], IF company = None THEN "data" ELSE "vendors") EXCEPT
                 !.seen.company = company, !.queue = Order])
    /\ UNCHANGED <<stored, calls, orderly>>

ReadVendors(a) ==
    /\ At(a, "vendors")
    /\ Do(a, [call[a] EXCEPT !.pc = "data", !.seen.vendors = vendors])
    /\ UNCHANGED <<stored, calls, orderly>>

(* ... the rows of every connector ... *)
ReadData(a) ==
    LET h == call[a]
        c == Head(h.queue)
        more == Len(h.queue) > 1
    IN
    /\ At(a, "data")
    /\ Do(a, [h EXCEPT !.pc = IF more THEN "data" ELSE "list",
                       !.queue = Tail(@),
                       !.left = IF more THEN {} ELSE Connectors,
                       !.seen.data[c] = dataset[c]])
    /\ UNCHANGED <<stored, calls, orderly>>

(* ... and the provenances, in the order SCAN happens to give. *)
ListSources(a) ==
    LET h == call[a] IN
    /\ At(a, "list")
    /\ \E c \in h.left :
          LET considered == h.seen.considered \cup
                            (IF Considered(source[c]) THEN {c} ELSE {})
          IN  Do(a, [h EXCEPT
                  !.seen.considered = considered,
                  !.left = IF h.left = {c} THEN considered ELSE @ \ {c},
                  !.pc = IF h.left # {c} THEN "list"
                         ELSE IF considered = {} THEN "report" ELSE "review"])
    /\ UNCHANGED <<stored, calls, orderly>>

\* The next source is marked, or the report is stored.
Reviewed(h, c) ==
    [h EXCEPT !.left = @ \ {c}, !.doc = NoSource, !.queue = <<>>,
              !.pc = IF h.left = {c} THEN "report" ELSE "review"]

(* mark_reconciled reads a provenance ... *)
ReadMark(a) ==
    LET h == call[a] IN
    /\ At(a, "review")
    /\ \E c \in h.left :
          Do(a, IF Marks(source[c])
                THEN [h EXCEPT !.pc = "mark", !.queue = <<c>>,
                               !.doc = [source[c] EXCEPT !.reviewed = TRUE]]
                ELSE Reviewed(h, c))
    /\ UNCHANGED <<stored, calls, orderly>>

(* ... and writes it back reviewed. *)
SaveMark(a) ==
    LET h == call[a] IN
    /\ At(a, "mark")
    /\ source' = [source EXCEPT ![Head(h.queue)] = h.doc]
    /\ Do(a, Reviewed(h, Head(h.queue)))
    /\ UNCHANGED <<dataset, company, vendors, report, calls, orderly>>

(* save_reconciliation *)
SaveReport(a) ==
    /\ At(a, "report")
    /\ report' = call[a].seen
    /\ Do(a, Goto(call[a], "respond"))
    /\ UNCHANGED <<source, dataset, company, vendors, calls, orderly>>

(***************************************************************************)
(* full_demo_reset.                                                        *)
(***************************************************************************)
(* clear_sources deletes each provenance ... *)
ClearSource(a) ==
    /\ At(a, "clear")
    /\ source' = [source EXCEPT ![Head(call[a].queue)] = NoSource]
    /\ Do(a, [call[a] EXCEPT !.pc = "clear_rows"])
    /\ UNCHANGED <<dataset, company, vendors, report, calls, orderly>>

(* ... and its rows; ... *)
ClearRows(a) ==
    LET h == call[a] IN
    /\ At(a, "clear_rows")
    /\ dataset' = [dataset EXCEPT ![Head(h.queue)] = {}]
    /\ Do(a, [h EXCEPT !.pc = IF Len(h.queue) > 1 THEN "clear" ELSE "clear_report",
                       !.queue = Tail(@)])
    /\ UNCHANGED <<source, company, vendors, report, calls, orderly>>

(* ... then the report ... *)
ClearReport(a) ==
    /\ At(a, "clear_report")
    /\ report' = None
    /\ Do(a, Goto(call[a], "clear_company"))
    /\ UNCHANGED <<source, dataset, company, vendors, calls, orderly>>

(* ... and the company go, and seed() writes its vendors over those that are there. *)
ClearCompany(a) ==
    /\ At(a, "clear_company")
    /\ company' = None
    /\ Do(a, [call[a] EXCEPT !.pc = IF Seeded = {} THEN "respond" ELSE "vendor",
                             !.rows = Seeded])
    /\ UNCHANGED <<source, dataset, vendors, report, calls, orderly>>

(***************************************************************************)
(* The specification.                                                      *)
(***************************************************************************)
Respond(a) ==
    /\ At(a, "respond")
    /\ Do(a, Idle)
    /\ UNCHANGED <<stored, calls, orderly>>

(* A Redis command raises, or the process dies: the call ends there. *)
Fail(a) ==
    /\ CanFail
    /\ call[a].pc \notin {"idle", "respond"}
    /\ Do(a, Idle)
    /\ orderly' = FALSE
    /\ UNCHANGED <<stored, calls>>

Arrive(a) == Upload(a) \/ Import(a) \/ Derive(a) \/ Reconcile(a) \/ Reset(a)

Step(a) ==
    \/ Check(a) \/ ReadPrior(a) \/ KeepGood(a)
    \/ SaveStatus(a) \/ SaveSource(a) \/ SaveRows(a)
    \/ ReadLedger(a) \/ SaveCompany(a) \/ ReadExport(a) \/ Vacate(a) \/ SaveVendor(a)
    \/ ReadCompany(a) \/ ReadVendors(a) \/ ReadData(a) \/ ListSources(a)
    \/ ReadMark(a) \/ SaveMark(a) \/ SaveReport(a)
    \/ ClearSource(a) \/ ClearRows(a) \/ ClearReport(a) \/ ClearCompany(a)
    \/ Respond(a)

Next == \E a \in Callers : Arrive(a) \/ Step(a) \/ Fail(a)

Spec == Init /\ [][Next]_vars

(***************************************************************************)
(* Properties.                                                             *)
(***************************************************************************)
\* Imports are idempotent ("re-importing an unchanged file is skipped_unchanged",
\* README.md): whenever nothing runs, the checksum that makes the next import
\* skip a file stands beside exactly the rows of that file, and beside their
\* count, after any sequence of good, bad and skipped imports, derivations and
\* resets.  It needs calls that do not overlap or fail: provenance and rows are
\* two documents.
SkipsAreSafe ==
    orderly /\ Running = {} =>
        \A c \in Connectors : HasData(source[c]) =>
            /\ dataset[c] = Outcome[c][source[c].file].rows
            /\ source[c].accepted = Cardinality(dataset[c])

\* A failed attempt on the command line never destroys a good import
\* (import_connector: "it never clobbers previously imported data"): only an
\* upload, a reset, a file that was parsed, or a call that overlapped another
\* one takes a good import's place.
LastGoodSurvives ==
    [][\A c \in Connectors : Good(source[c]) /\ ~Good(source'[c]) =>
          \E a \in Callers : /\ call'[a] # call[a]
                             /\ \/ call[a].kind \in {"upload", "reset"}
                                \/ call[a].pc = "save"
                                \/ call[a].met # {}]_vars

Undisturbed(a, kinds) ==
    /\ At(a, "respond")
    /\ call[a].kind \in kinds
    /\ call[a].met \subseteq {"reconcile"}
DerivedFollowsImports ==
    \A a \in Callers :
        /\ Undisturbed(a, {"upload", "derive"})
        /\ Signal \subseteq dataset[Ledger]
        =>  /\ company = dataset[Ledger]
            /\ dataset[VendorExport] # {} => vendors = dataset[VendorExport]

NothingLeftPending ==
    \A a \in Callers : Undisturbed(a, {"upload", "derive", "reconcile"}) =>
        \A c \in Connectors : HasData(source[c]) => source[c].reviewed

ReportIsCurrent ==
    \A a \in Callers :
        /\ Undisturbed(a, {"upload", "derive", "reconcile"})
        /\ call[a].met = {}
        => /\ report # None
           /\ report.data = dataset
           /\ report.company = company
           /\ company # None => report.vendors = vendors
           /\ report.considered = {c \in Connectors : HasData(source[c])}

\* An import that answers is complete, whatever failed or overlapped before it,
\* unless something that writes rows, companies or vendors ran beside it.  It has
\* made its data the system of record: the company is that of the ledger's rows
\* and the vendors are exactly those of the export; it has had every source that
\* holds data reviewed, although a reconciliation beside it writes provenances
\* back that it read before; and the report it leaves, if nothing at all ran
\* beside it, is about the data that stands and considers the sources that have
\* some.
ImportsAreComplete == DerivedFollowsImports /\ NothingLeftPending /\ ReportIsCurrent

\* "Imports ... never destroy a prior good import" (README.md).
GoodImportSurvives ==
    [][\A c \in Connectors : Good(source[c]) /\ ~Good(source'[c]) =>
          \E a \in Callers : call[a].kind = "reset"]_vars
=============================================================================
