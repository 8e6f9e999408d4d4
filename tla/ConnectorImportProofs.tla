----------------------- MODULE ConnectorImportProofs -----------------------
(***************************************************************************)
(* Proofs about ConnectorImport.                                           *)
(*                                                                         *)
(* The inductive invariant ties what a call has in hand to what is stored, *)
(* in three strengths.  Some of it holds whatever else runs (Types): where *)
(* a call of a kind can be, and what it holds there.  Some holds as long   *)
(* as only reconciliations run beside a call (DerivedFits, PendingFits).   *)
(* The rest holds while a call has met no other (AloneFits, SeenFits).     *)
(* Companions turns the history `met' into what may run now: each of two   *)
(* running calls has met the other.  A step therefore disturbs only what   *)
(* the calls beside it do not rely on.                                     *)
(*                                                                         *)
(* The proof has four layers: types, action by action; what each step does *)
(* to the fields of its call; that the parts of the invariant are kept by  *)
(* a call's own steps, then by those of others; the theorems.              *)
(***************************************************************************)
EXTENDS ConnectorImport, FiniteSetTheorems, SequenceTheorems, TLAPS

(***************************************************************************)
(* The inductive invariant.                                                *)
(***************************************************************************)
\* The parts of a call: imports, derivation, reconciliation, reset.
Importing == {"check", "prior", "good", "status", "save", "rows"}
Deriving == {"ledger", "company", "export", "vacate", "vendor"}
Reviewing == {"reconcile", "vendors", "data", "list", "review", "mark", "report"}
Clearing == {"clear", "clear_rows", "clear_report", "clear_company"}

\* CallStates, with any sequence of connectors for a queue.
CallRecords == [pc : Pcs, kind : Kinds \cup {"none"}, queue : Seq(Connectors),
                file : Files \cup {None}, doc : Sources,
                rows : SUBSET (Rows \cup Seeded), left : SUBSET Connectors,
                seen : Reports, met : SUBSET Kinds]

\* The connector that is being handled.
Target(h) == Head(h.queue)

\* Where a call of a kind can be.
KindFits(h) ==
    /\ h.pc = "idle" <=> h.kind = "none"
    /\ h.pc \in Importing => h.kind \in {"upload", "import"}
    /\ h.pc = "good" => h.kind = "import"
    /\ h.pc \in Deriving => h.kind \in {"upload", "derive"} \/ (h.pc = "vendor" /\ h.kind = "reset")
    /\ h.pc \in Reviewing => h.kind \in {"upload", "derive", "reconcile"}
    /\ h.pc \in Clearing => h.kind = "reset"

\* It holds what its file gave.
ParsedAs(h) ==
    LET outcome == Outcome[Target(h)][h.file]
    IN  /\ h.file \in Files /\ h.rows = outcome.rows
        /\ h.doc = Provenance(outcome.status, h.file, Cardinality(outcome.rows))

\* What a call holds, by where it is.
HandsFit(h) ==
    /\ h.pc \in Importing \cup {"vendors", "data", "mark", "clear", "clear_rows"} => h.queue # <<>>
    /\ h.pc = "prior" \/ (h.pc \in Importing /\ h.kind = "upload") => h.file \in Files
    /\ h.pc \in {"save", "rows"} => ParsedAs(h)
    /\ h.pc = "good" => ~HasData(h.doc)
    /\ h.pc = "status" => ~HasData(h.doc) \/ h.doc.status = "skipped"
    /\ h.pc = "mark" => h.doc.reviewed
    /\ h.pc # "vendor" => h.rows \subseteq Rows
    /\ h.pc \notin {"vendors", "data", "list", "review", "mark", "report", "respond"} => h.seen = BlankReport
    /\ h.pc \in {"vendors", "data"} => h.seen.considered = {}

\* What is stored, and the calls, have their types.
DataTypes ==
    /\ source \in [Connectors -> Sources]
    /\ dataset \in [Connectors -> SUBSET Rows]
    /\ company \in {None} \cup SUBSET Rows
    /\ vendors \subseteq Rows \cup Seeded
    /\ report \in {None} \cup Reports
    /\ calls \in 0..MaxCalls
    /\ orderly \in BOOLEAN

Fitting == {h \in CallRecords : Len(h.queue) <= Len(Order) /\ KindFits(h) /\ HandsFit(h)}

Types == DataTypes /\ call \in [Callers -> Fitting]

\* Two calls that run have met, and no calls have met while all was orderly.
Companions ==
    /\ \A a, b \in Callers : a # b /\ a \in Running /\ b \in Running => call[b].kind \in call[a].met
    /\ orderly => \A a \in Callers : call[a].met = {}

\* What a call that met no other is about to write agrees with the provenance
\* it read before.
AloneFits(a) ==
    LET h == call[a]
        now == source[Target(h)]
    IN  h.met = {} =>
            /\ h.pc = "prior" => HasData(now) /\ now.file = h.file
            /\ h.pc = "status" /\ HasData(h.doc) =>
                  HasData(now) /\ now.file = h.doc.file /\ now.accepted = h.doc.accepted
            /\ h.pc = "status" /\ h.kind = "import" /\ ~HasData(h.doc) => ~Good(now)
            /\ h.pc = "rows" => now = h.doc
            /\ h.pc = "mark" => h.doc = [now EXCEPT !.reviewed = TRUE]
            /\ h.pc = "clear_rows" => now = NoSource

\* The rows beside a provenance are those of its file, unless they are the next
\* thing to be written.
Kept(c) ==
    HasData(source[c]) =>
        /\ dataset[c] = Outcome[c][source[c].file].rows
        /\ source[c].accepted = Cardinality(dataset[c])

KeptOrBeingWritten ==
    orderly => \A c \in Connectors : Kept(c) \/ \E a \in Callers : At(a, "rows") /\ Target(call[a]) = c

\* Only reconciliations ran beside the call.
Quiet(a) == call[a].kind \in {"upload", "derive", "reconcile"} /\ call[a].met \subseteq {"reconcile"}

\* The company, and the vendors, are those of the rows.
CompanyStands == Signal \subseteq dataset[Ledger] => company = dataset[Ledger]
VendorsStand ==
    Signal \subseteq dataset[Ledger] /\ dataset[VendorExport] # {} => vendors = dataset[VendorExport]

\* A derivation has the rows it read still before it, and leaves what it derived.
DerivedFits(a) ==
    LET h == call[a]
    IN  Quiet(a) /\ h.kind # "reconcile" =>
            /\ h.pc = "company" => h.rows = dataset[Ledger]
            /\ h.pc \in {"export", "vacate", "vendor", "respond"} \cup Reviewing => CompanyStands
            /\ h.pc = "vacate" => h.rows = dataset[VendorExport]
            /\ h.pc = "vendor" => vendors \cup h.rows = dataset[VendorExport]
            /\ h.pc \in {"respond"} \cup Reviewing => VendorsStand

\* Every source with data outside S is reviewed.
ReviewedBut(S) == \A c \in Connectors \ S : HasData(source[c]) => source[c].reviewed

\* A reconciliation has yet to list or to review whatever is not reviewed.
PendingFits(a) ==
    LET h == call[a]
    IN  Quiet(a) =>
            /\ h.pc = "list" => ReviewedBut(h.left \cup h.seen.considered)
            /\ h.pc \in {"review", "mark"} => ReviewedBut(h.left)
            /\ h.pc \in {"report", "respond"} => ReviewedBut({})

\* The report in the making agrees with what it was made from.
SeenFits(a) ==
    LET h == call[a]
        seen == h.seen
    IN  Quiet(a) /\ h.met = {} =>
            /\ h.pc \in {"vendors", "data", "list", "review", "mark", "report", "respond"} => seen.company = company
            /\ h.pc = "vendors" => company # None
            /\ h.pc \in {"data", "list", "review", "mark", "report", "respond"} /\ company # None =>
                  seen.vendors = vendors
            /\ h.pc = "vendors" => h.queue = Order
            /\ h.pc = "data" => \A c \in Connectors \ ToSet(h.queue) : seen.data[c] = dataset[c]
            /\ h.pc \in {"list", "review", "mark", "report", "respond"} => seen.data = dataset
            /\ h.pc = "list" => \A c \in Connectors : c \in seen.considered <=> c \notin h.left /\ HasData(source[c])
            /\ h.pc \in {"review", "mark", "report", "respond"} =>
                  seen.considered = {c \in Connectors : HasData(source[c])}
            /\ h.pc = "respond" => report = seen

Fits(a) == AloneFits(a) /\ DerivedFits(a) /\ PendingFits(a) /\ SeenFits(a)

IInv == Types /\ Companions /\ KeptOrBeingWritten /\ \A a \in Callers : Fits(a)

(***************************************************************************)
(* Queues, documents and records.                                          *)
(***************************************************************************)
LEMMA QueueIs ==
    ASSUME NEW q \in Seq(Connectors), q # <<>>
    PROVE  /\ Head(q) \in Connectors /\ Tail(q) \in Seq(Connectors)
           /\ Len(q) \in Nat /\ Len(q) >= 1 /\ Len(Tail(q)) = Len(q) - 1
           /\ Len(q) > 1 <=> Tail(q) # <<>>
           /\ ToSet(q) = {Head(q)} \cup ToSet(Tail(q))
<1>1. Head(q) = q[1] /\ \A i \in 1..(Len(q) - 1) : Tail(q)[i] = q[i + 1]
  OBVIOUS
<1>2. Len(q) \in Nat /\ Len(q) >= 1 /\ Len(Tail(q)) = Len(q) - 1 /\ Tail(q) \in Seq(Connectors)
  OBVIOUS
<1>3. q[1] \in Connectors
  BY <1>2
<1>4. Len(q) > 1 <=> Tail(q) # <<>>
  BY <1>2, EmptySeq
<1>5. ToSet(q) \subseteq {Head(q)} \cup ToSet(Tail(q))
  <2> SUFFICES ASSUME NEW i \in 1..Len(q), i # 1
               PROVE  q[i] \in ToSet(Tail(q))
    BY <1>1, <1>2 DEF ToSet
  <2>1. i - 1 \in 1..(Len(q) - 1) /\ q[i] = Tail(q)[i - 1]
    BY <1>1, <1>2
  <2> QED
    BY <2>1, <1>2 DEF ToSet
<1>6. {Head(q)} \cup ToSet(Tail(q)) \subseteq ToSet(q)
  <2>1. \A i \in 1..(Len(q) - 1) : i + 1 \in 1..Len(q)
    BY <1>2
  <2> QED
    BY <1>1, <1>2, <2>1 DEF ToSet
<1> QED
  BY <1>1, <1>2, <1>3, <1>4, <1>5, <1>6

LEMMA OrderIs ==
    /\ Order \in Seq(Connectors) /\ Order # <<>> /\ ToSet(Order) = Connectors
    /\ Len(Order) \in Nat /\ Len(Order) >= 1
<1>1. Order \in Seq(Connectors) /\ Ledger \in ToSet(Order)
  BY ConnectorsAssumption DEF Connectors
<1>2. Order # <<>>
  BY <1>1 DEF ToSet
<1> QED
  BY <1>1, <1>2 DEF Connectors

LEMMA SelectionIs ==
    ASSUME NEW q \in Selections
    PROVE  q \in Seq(Connectors) /\ q # <<>> /\ Len(q) <= Len(Order)
<1>1. CASE q = Order
  BY <1>1, OrderIs
<1>2. ASSUME NEW c \in Connectors, q = <<c>> PROVE q \in Seq(Connectors) /\ q # <<>> /\ Len(q) = 1
  BY <1>2
<1> QED
  BY <1>1, <1>2, OrderIs DEF Selections

LEMMA ProvenanceIs ==
    ASSUME NEW status \in Statuses, NEW file \in Files \cup {None}, NEW n \in 0..Cardinality(Rows)
    PROVE  /\ Provenance(status, file, n) \in Sources
           /\ Provenance(status, file, n).status = status
           /\ Provenance(status, file, n).file = file
           /\ Provenance(status, file, n).accepted = n
  BY DEF Provenance, Sources

LEMMA BlankReportType == BlankReport \in Reports
  BY DEF BlankReport, Reports

LEMMA NoSourceIs == NoSource \in Sources /\ ~HasData(NoSource)
  BY DEF NoSource, Sources, HasData

LEMMA IdleIs == Idle \in Fitting /\ Idle.pc = "idle" /\ Idle.kind = "none" /\ Idle.met = {}
<1>1. Idle \in CallRecords
  BY BlankReportType, NoSourceIs DEF Idle, CallRecords, Pcs
<1>2. Len(Idle.queue) <= Len(Order)
  BY OrderIs DEF Idle
<1> QED
  BY <1>1, <1>2 DEF Idle, Fitting, KindFits, HandsFit, Importing, Deriving, Reviewing, Clearing

LEMMA GotoIs ==
    ASSUME NEW h \in CallRecords, NEW pc \in Pcs
    PROVE  /\ Goto(h, pc) \in CallRecords
           /\ Goto(h, pc).pc = pc /\ Goto(h, pc).kind = h.kind /\ Goto(h, pc).queue = h.queue
           /\ Goto(h, pc).file = h.file /\ Goto(h, pc).seen = h.seen /\ Goto(h, pc).met = h.met
           /\ Goto(h, pc).rows = {} /\ Goto(h, pc).left = {} /\ Goto(h, pc).doc = NoSource
  BY NoSourceIs DEF Goto, CallRecords

LEMMA OnwardIs ==
    ASSUME NEW h \in Fitting, h.pc \in Importing
    PROVE  /\ Onward(h) \in Fitting
           /\ Onward(h).kind = h.kind /\ Onward(h).met = h.met
           /\ Onward(h).pc = IF Len(h.queue) > 1 THEN "check"
                             ELSE IF h.kind = "import" THEN "respond" ELSE "ledger"
<1> USE DEF Importing
<1>1. h \in CallRecords /\ h.queue \in Seq(Connectors) /\ h.queue # <<>> /\ Len(h.queue) <= Len(Order)
  BY DEF Fitting, HandsFit, CallRecords
<1>2. h.kind \in {"upload", "import"} /\ h.seen = BlankReport /\ (h.kind = "upload" => h.file \in Files)
  BY DEF Fitting, HandsFit, KindFits
<1>3. CASE Len(h.queue) > 1
  <2> DEFINE g == Goto(h, "check")
  <2>1. /\ g \in CallRecords /\ g.pc = "check" /\ g.kind = h.kind /\ g.queue = h.queue /\ g.file = h.file
        /\ g.seen = h.seen /\ g.met = h.met /\ g.rows = {}
    BY <1>1, GotoIs DEF Pcs
  <2>2. Onward(h) = [g EXCEPT !.queue = Tail(h.queue)]
    BY <1>3, <2>1 DEF Onward
  <2>3. Tail(h.queue) \in Seq(Connectors) /\ Tail(h.queue) # <<>> /\ Len(Tail(h.queue)) <= Len(Order)
    BY <1>1, <1>3, QueueIs, OrderIs
  <2> HIDE DEF g
  <2>4. Onward(h) \in CallRecords
    BY <2>1, <2>2, <2>3 DEF CallRecords
  <2>5. /\ Onward(h).pc = "check" /\ Onward(h).kind = h.kind /\ Onward(h).queue = Tail(h.queue)
        /\ Onward(h).file = h.file /\ Onward(h).seen = BlankReport /\ Onward(h).met = h.met /\ Onward(h).rows = {}
    BY <2>1, <2>2, <1>2 DEF CallRecords
  <2> QED
    BY <1>2, <1>3, <2>3, <2>4, <2>5 DEF Fitting, KindFits, HandsFit, Deriving, Reviewing, Clearing
<1>4. CASE ~(Len(h.queue) > 1)
  <2> DEFINE pc == IF h.kind = "import" THEN "respond" ELSE "ledger"
             g == Goto(h, pc)
  <2>1. /\ g \in CallRecords /\ g.pc = pc /\ g.kind = h.kind /\ g.queue = h.queue /\ g.file = h.file
        /\ g.seen = h.seen /\ g.met = h.met /\ g.rows = {}
    BY <1>1, GotoIs DEF Pcs
  <2>2. Onward(h) = [g EXCEPT !.queue = <<>>, !.file = None]
    BY <1>4, <2>1 DEF Onward
  <2> HIDE DEF g
  <2>3. <<>> \in Seq(Connectors)
    OBVIOUS
  <2>4. Onward(h) \in CallRecords
    BY <2>1, <2>2, <2>3 DEF CallRecords
  <2>5. /\ Onward(h).pc = pc /\ Onward(h).kind = h.kind /\ Onward(h).queue = <<>>
        /\ Onward(h).seen = BlankReport /\ Onward(h).met = h.met /\ Onward(h).rows = {}
    BY <2>1, <2>2, <1>2 DEF CallRecords
  <2>6. Len(Onward(h).queue) <= Len(Order)
    BY <2>5, OrderIs
  <2> QED
    BY <1>2, <1>4, <2>4, <2>5, <2>6 DEF Fitting, KindFits, HandsFit, Deriving, Reviewing, Clearing
<1> QED
  BY <1>3, <1>4

LEMMA OutcomeIs ==
    ASSUME NEW c \in Connectors, NEW f \in Files
    PROVE  /\ Outcome[c][f].status \in {"imported", "partial", "empty", "error"}
           /\ Outcome[c][f].rows \in SUBSET Rows
           /\ Cardinality(Outcome[c][f].rows) \in 0..Cardinality(Rows)
           /\ Provenance(Outcome[c][f].status, f, Cardinality(Outcome[c][f].rows)) \in Sources
<1>1. Outcome[c][f] \in Parsed
  BY OutcomeAssumption
<1>2. Outcome[c][f].status \in {"imported", "partial", "empty", "error"} /\ Outcome[c][f].rows \in SUBSET Rows
  BY <1>1 DEF Parsed
<1>3. Cardinality(Outcome[c][f].rows) \in 0..Cardinality(Rows)
  BY <1>2, FS_Subset, FS_CardinalityType, RowsAssumption
<1>4. Outcome[c][f].status \in Statuses
  BY <1>2 DEF Statuses
<1> HIDE DEF Statuses
<1> QED
  BY <1>2, <1>3, <1>4, ProvenanceIs

LEMMA RejectedIs ==
    ASSUME NEW h \in Fitting, h.pc = "check", NEW f \in Files \cup {None}, NEW status \in {"error", "unavailable"},
           h.kind = "upload" => f \in Files
    PROVE  /\ Rejected(h, f, status) \in Fitting
           /\ Rejected(h, f, status).kind = h.kind /\ Rejected(h, f, status).met = h.met
           /\ Rejected(h, f, status).pc = IF h.kind = "upload" THEN "status" ELSE "good"
           /\ Rejected(h, f, status).queue = h.queue
           /\ ~HasData(Rejected(h, f, status).doc)
<1> DEFINE doc == Provenance(status, f, 0)
           pc == IF h.kind = "upload" THEN "status" ELSE "good"
<1>1. doc \in Sources /\ doc.status = status
  <2>1. 0 \in 0..Cardinality(Rows)
    BY FS_CardinalityType, RowsAssumption
  <2> QED
    BY <2>1, ProvenanceIs DEF Statuses
<1>2. ~HasData(doc)
  BY <1>1 DEF HasData
<1> HIDE DEF doc
<1>3. h \in CallRecords /\ KindFits(h) /\ HandsFit(h) /\ Len(h.queue) <= Len(Order)
  BY DEF Fitting
<1>4. Rejected(h, f, status) = [h EXCEPT !.pc = pc, !.file = f, !.doc = doc]
  BY DEF Rejected, doc
<1>5. Rejected(h, f, status) \in CallRecords
  BY <1>1, <1>3, <1>4 DEF CallRecords, Pcs
<1>6. /\ Rejected(h, f, status).kind = h.kind /\ Rejected(h, f, status).met = h.met
      /\ Rejected(h, f, status).pc = pc /\ Rejected(h, f, status).queue = h.queue
      /\ Rejected(h, f, status).doc = doc /\ Rejected(h, f, status).file = f
      /\ Rejected(h, f, status).rows = h.rows /\ Rejected(h, f, status).seen = h.seen
  BY <1>3, <1>4 DEF CallRecords
<1>7. h.kind \in {"upload", "import"} /\ h.queue # <<>> /\ h.rows \subseteq Rows /\ h.seen = BlankReport
  BY <1>3 DEF KindFits, HandsFit, Importing
<1>8. KindFits(Rejected(h, f, status)) /\ HandsFit(Rejected(h, f, status))
  BY <1>2, <1>6, <1>7 DEF KindFits, HandsFit, Importing, Deriving, Reviewing, Clearing
<1> QED
  BY <1>2, <1>3, <1>5, <1>6, <1>8 DEF Fitting

(***************************************************************************)
(* Types.                                                                  *)
(***************************************************************************)
LEMMA CallType ==
    ASSUME Types, NEW a \in Callers
    PROVE  /\ call[a] \in Fitting /\ call[a] \in CallRecords
           /\ Len(call[a].queue) <= Len(Order) /\ KindFits(call[a]) /\ HandsFit(call[a])
  BY DEF Types, Fitting

\* A call moves on, and what is stored keeps its type.
LEMMA DoTypes ==
    ASSUME Types, NEW a \in Callers, NEW next \in Fitting, Do(a, next), DataTypes'
    PROVE  Types'
  BY DEF Types, Do

LEMMA SameData ==
    ASSUME DataTypes, UNCHANGED stored, UNCHANGED calls, orderly' \in BOOLEAN
    PROVE  DataTypes'
  BY DEF DataTypes, stored

\* A call meets others.
LEMMA MeetIs ==
    ASSUME NEW h \in Fitting, NEW kinds \in SUBSET Kinds
    PROVE  /\ [h EXCEPT !.met = kinds] \in Fitting
           /\ [h EXCEPT !.met = kinds].met = kinds
<1> DEFINE g == [h EXCEPT !.met = kinds]
<1>1. h \in CallRecords /\ Len(h.queue) <= Len(Order) /\ KindFits(h) /\ HandsFit(h)
  BY DEF Fitting
<1>2. g \in CallRecords
  BY <1>1 DEF CallRecords
<1>3. /\ g.pc = h.pc /\ g.kind = h.kind /\ g.queue = h.queue /\ g.file = h.file /\ g.doc = h.doc
      /\ g.rows = h.rows /\ g.left = h.left /\ g.seen = h.seen /\ g.met = kinds
  BY <1>1 DEF CallRecords
<1> HIDE DEF g
<1>4. KindFits(g) /\ HandsFit(g)
  BY <1>1, <1>3 DEF KindFits, HandsFit, ParsedAs, Target
<1>5. g \in Fitting /\ g.met = kinds
  BY <1>1, <1>2, <1>3, <1>4 DEF Fitting
<1> QED
  BY <1>5 DEF g

LEMMA RunningKinds ==
    ASSUME Types, NEW a \in Callers
    PROVE  /\ a \in Running <=> call[a].kind # "none"
           /\ a \in Running => call[a].kind \in Kinds
  BY CallType DEF Running, KindFits, CallRecords

LEMMA StartTypes ==
    ASSUME Types, NEW a \in Callers, NEW next \in Fitting, next.kind \in Kinds, Start(a, next)
    PROVE  Types'
<1>1. DataTypes'
  <2>1. calls' \in 0..MaxCalls /\ orderly' \in BOOLEAN
    BY BoundsAssumption DEF Start, Types, DataTypes
  <2> QED
    BY <2>1 DEF Start, Types, DataTypes, stored
<1>2. {call[e].kind : e \in Running} \in SUBSET Kinds
  BY RunningKinds DEF Running
<1>3. [next EXCEPT !.met = {call[e].kind : e \in Running}] \in Fitting
  BY <1>2, MeetIs
<1>4. ASSUME NEW b \in Callers
      PROVE  call[b] \in Fitting /\ [call[b] EXCEPT !.met = call[b].met \cup {next.kind}] \in Fitting
  <2>1. call[b].met \cup {next.kind} \in SUBSET Kinds
    BY CallType DEF CallRecords
  <2> QED
    BY <2>1, CallType, MeetIs
<1>5. call' \in [Callers -> Fitting]
  BY <1>3, <1>4 DEF Start
<1> QED
  BY <1>1, <1>5 DEF Types

\* How a call starts.
Arriving(h) ==
    /\ h.kind \in Kinds
    /\ h.pc \in {"check", "ledger", "reconcile", "clear"}
    /\ h.pc = "reconcile" => h.kind = "reconcile"

LEMMA ArrivalIs ==
    ASSUME NEW g \in CallRecords, g.rows = {}, g.seen = BlankReport, Len(g.queue) <= Len(Order),
           \/ g.pc = "check" /\ g.kind = "import" /\ g.queue # <<>>
           \/ g.pc = "check" /\ g.kind = "upload" /\ g.queue # <<>> /\ g.file \in Files
           \/ g.pc = "ledger" /\ g.kind = "derive"
           \/ g.pc = "reconcile" /\ g.kind = "reconcile"
           \/ g.pc = "clear" /\ g.kind = "reset" /\ g.queue # <<>>
    PROVE  g \in Fitting /\ Arriving(g)
<1>1. KindFits(g) /\ HandsFit(g)
  BY DEF KindFits, HandsFit, Importing, Deriving, Reviewing, Clearing
<1> QED
  BY <1>1 DEF Fitting, Kinds, Arriving

LEMMA ArriveIs ==
    ASSUME NEW a \in Callers, Arrive(a)
    PROVE  \E next \in Fitting : Arriving(next) /\ Start(a, next)
<1>1. Idle \in CallRecords /\ Idle.rows = {} /\ Idle.seen = BlankReport /\ Idle.queue = <<>> /\ Len(Idle.queue) <= Len(Order)
  BY IdleIs, OrderIs DEF Fitting, Idle
<1> USE DEF Pcs, Kinds, CallRecords
<1>2. CASE Upload(a)
  <2>1. PICK f \in Files, q \in Selections :
           Start(a, [Idle EXCEPT !.pc = "check", !.kind = "upload", !.queue = q, !.file = f])
    BY <1>2 DEF Upload
  <2> DEFINE g == [Idle EXCEPT !.pc = "check", !.kind = "upload", !.queue = q, !.file = f]
  <2>2. g \in CallRecords
    BY <1>1, SelectionIs
  <2>3. /\ g.pc = "check" /\ g.kind = "upload" /\ g.queue = q /\ g.file = f
        /\ g.rows = {} /\ g.seen = BlankReport
    BY <1>1
  <2> HIDE DEF g
  <2>4. g \in Fitting /\ Arriving(g)
    BY <2>2, <2>3, SelectionIs, ArrivalIs
  <2> QED
    BY <2>1, <2>4 DEF g
<1>3. CASE Import(a)
  <2>1. PICK q \in Selections : Start(a, [Idle EXCEPT !.pc = "check", !.kind = "import", !.queue = q])
    BY <1>3 DEF Import
  <2> DEFINE g == [Idle EXCEPT !.pc = "check", !.kind = "import", !.queue = q]
  <2>2. g \in CallRecords
    BY <1>1, SelectionIs
  <2>3. g.pc = "check" /\ g.kind = "import" /\ g.queue = q /\ g.rows = {} /\ g.seen = BlankReport
    BY <1>1
  <2> HIDE DEF g
  <2>4. g \in Fitting /\ Arriving(g)
    BY <2>2, <2>3, SelectionIs, ArrivalIs
  <2> QED
    BY <2>1, <2>4 DEF g
<1>4. CASE Derive(a)
  <2> DEFINE g == [Idle EXCEPT !.pc = "ledger", !.kind = "derive"]
  <2>2. g \in CallRecords
    BY <1>1
  <2>3. /\ g.pc = "ledger" /\ g.kind = "derive" /\ g.rows = {} /\ g.seen = BlankReport
        /\ Len(g.queue) <= Len(Order)
    BY <1>1
  <2> HIDE DEF g
  <2>4. g \in Fitting /\ Arriving(g)
    BY <2>2, <2>3, ArrivalIs
  <2> QED
    BY <1>4, <2>4 DEF g, Derive
<1>5. CASE Reconcile(a)
  <2> DEFINE g == [Idle EXCEPT !.pc = "reconcile", !.kind = "reconcile"]
  <2>2. g \in CallRecords
    BY <1>1
  <2>3. /\ g.pc = "reconcile" /\ g.kind = "reconcile" /\ g.rows = {} /\ g.seen = BlankReport
        /\ Len(g.queue) <= Len(Order)
    BY <1>1
  <2> HIDE DEF g
  <2>4. g \in Fitting /\ Arriving(g)
    BY <2>2, <2>3, ArrivalIs
  <2> QED
    BY <1>5, <2>4 DEF g, Reconcile
<1>6. CASE Reset(a)
  <2> DEFINE g == [Idle EXCEPT !.pc = "clear", !.kind = "reset", !.queue = Order]
  <2>2. g \in CallRecords
    BY <1>1, OrderIs
  <2>3. g.pc = "clear" /\ g.kind = "reset" /\ g.queue = Order /\ g.rows = {} /\ g.seen = BlankReport
    BY <1>1
  <2> HIDE DEF g
  <2>4. g \in Fitting /\ Arriving(g)
    BY <2>2, <2>3, OrderIs, ArrivalIs
  <2> QED
    BY <1>6, <2>4 DEF g, Reset
<1> QED
  BY <1>2, <1>3, <1>4, <1>5, <1>6 DEF Arrive

LEMMA ArriveTypes ==
    ASSUME Types, NEW a \in Callers, Arrive(a) PROVE Types'
  BY ArriveIs, StartTypes DEF Arriving

LEMMA CheckTypes ==
    ASSUME Types, NEW a \in Callers, Check(a) PROVE Types'
<1> DEFINE h == call[a]
           c == Head(h.queue)
<1>1. /\ h \in Fitting /\ h \in CallRecords /\ h.pc = "check" /\ h.queue # <<>> /\ h.kind \in {"upload", "import"}
      /\ h.kind = "upload" => h.file \in Files
      /\ h.rows \subseteq Rows /\ h.seen = BlankReport /\ Len(h.queue) <= Len(Order)
  BY CallType DEF Check, At, HandsFit, KindFits, Importing
<1>2. c \in Connectors
  BY <1>1, QueueIs DEF CallRecords
<1>3. DataTypes'
  BY SameData DEF Types, Check, DataTypes
<1> HIDE DEF h
<1>4. ASSUME NEW f \in Files, h.kind = "upload" => f = h.file
      PROVE  [h EXCEPT !.pc = "prior", !.file = f] \in Fitting
  BY <1>1 DEF Fitting, CallRecords, KindFits, HandsFit, Pcs, Importing, Deriving, Reviewing, Clearing
<1>5. ASSUME NEW f \in Files, Outcome[c][f].status # "error"
      PROVE  [h EXCEPT !.pc = "save", !.file = f, !.rows = Outcome[c][f].rows,
                       !.doc = Provenance(Outcome[c][f].status, f, Cardinality(Outcome[c][f].rows))] \in Fitting
  <2> DEFINE doc == Provenance(Outcome[c][f].status, f, Cardinality(Outcome[c][f].rows))
             rows == Outcome[c][f].rows
             g == [h EXCEPT !.pc = "save", !.file = f, !.rows = rows, !.doc = doc]
  <2>1. doc \in Sources /\ rows \in SUBSET Rows
    BY <1>2, OutcomeIs
  <2> HIDE DEF doc, rows
  <2>2. g \in CallRecords
    BY <1>1, <2>1 DEF CallRecords, Pcs
  <2>3. /\ g.pc = "save" /\ g.kind = h.kind /\ g.queue = h.queue /\ g.file = f /\ g.doc = doc
        /\ g.rows = rows /\ g.seen = BlankReport
    BY <1>1 DEF CallRecords
  <2> HIDE DEF g
  <2>4. ParsedAs(g)
    BY <2>3 DEF ParsedAs, Target, doc, rows
  <2>5. KindFits(g) /\ HandsFit(g)
    BY <1>1, <2>1, <2>3, <2>4 DEF KindFits, HandsFit, Importing, Deriving, Reviewing, Clearing
  <2>6. g \in Fitting
    BY <1>1, <2>2, <2>3, <2>5 DEF Fitting
  <2> QED
    BY <2>6 DEF g, doc, rows
<1>6. \E next \in Fitting : Do(a, next)
  <2>1. CASE h.kind = "import" /\ Do(a, Rejected(h, None, "unavailable"))
    BY <1>1, <2>1, RejectedIs
  <2>2. ASSUME NEW f \in Files, h.kind = "upload" => f = h.file,
               Do(a, IF SameChecksum(source[c], f)
                     THEN [h EXCEPT !.pc = "prior", !.file = f]
                     ELSE IF Outcome[c][f].status = "error" THEN Rejected(h, f, "error")
                     ELSE [h EXCEPT !.pc = "save", !.file = f, !.rows = Outcome[c][f].rows,
                                    !.doc = Provenance(Outcome[c][f].status, f, Cardinality(Outcome[c][f].rows))])
        PROVE  \E next \in Fitting : Do(a, next)
    <3>1. Rejected(h, f, "error") \in Fitting
      BY <1>1, <2>2, RejectedIs
    <3> QED
      BY <2>2, <3>1, <1>4, <1>5
  <2> QED
    BY <1>1, <2>1, <2>2 DEF Check, h
<1> QED
  BY <1>3, <1>6, DoTypes

\* What a call has in hand, by where it is.
LEMMA HandsAre ==
    ASSUME Types, NEW a \in Callers
    PROVE  LET h == call[a]
           IN  /\ h.pc \in Importing \cup {"vendors", "data", "mark", "clear", "clear_rows"} =>
                      h.queue # <<>> /\ Target(h) \in Connectors
               /\ h.pc \in Importing => h.kind \in {"upload", "import"}
               /\ h.pc \in Deriving => h.kind \in {"upload", "derive"} \/ (h.pc = "vendor" /\ h.kind = "reset")
               /\ h.pc \in Reviewing => h.kind \in {"upload", "derive", "reconcile"}
               /\ h.pc \in Clearing => h.kind = "reset"
               /\ h.pc # "idle" => h.kind \in Kinds
               /\ h.pc # "vendor" => h.rows \in SUBSET Rows
               /\ h.queue \in Seq(Connectors)
<1> DEFINE h == call[a]
<1>1. h \in CallRecords /\ KindFits(h) /\ HandsFit(h)
  BY CallType
<1> HIDE DEF h
<1>2. h.queue # <<>> => Target(h) \in Connectors
  BY <1>1, QueueIs DEF CallRecords, Target
<1> QED
  BY <1>1, <1>2 DEF h, CallRecords, KindFits, HandsFit

LEMMA ReadPriorTypes ==
    ASSUME Types, NEW a \in Callers, ReadPrior(a) PROVE Types'
<1> DEFINE h == call[a]
           n == source[Head(h.queue)].accepted
           doc == Provenance("skipped", h.file, n)
           g == [h EXCEPT !.pc = "status", !.doc = doc]
<1>1. h \in CallRecords /\ Len(h.queue) <= Len(Order) /\ KindFits(h) /\ HandsFit(h) /\ h.pc = "prior"
  BY CallType DEF ReadPrior, At
<1>2. n \in 0..Cardinality(Rows)
  <2>1. source[Head(h.queue)] \in Sources
    BY <1>1, HandsAre DEF Types, DataTypes, Target, Importing
  <2>2. 0 \in 0..Cardinality(Rows)
    BY FS_CardinalityType, RowsAssumption
  <2> QED
    BY <2>1, <2>2 DEF Sources, NoSource
<1>3. h.file \in Files
  BY <1>1 DEF HandsFit
<1>4. doc \in Sources /\ doc.status = "skipped"
  BY <1>2, <1>3, ProvenanceIs DEF Statuses
<1> HIDE DEF doc, h
<1>5. g \in CallRecords
  BY <1>1, <1>4 DEF CallRecords, Pcs
<1>6. /\ g.pc = "status" /\ g.kind = h.kind /\ g.queue = h.queue /\ g.file = h.file /\ g.doc = doc
      /\ g.rows = h.rows /\ g.seen = h.seen
  BY <1>1 DEF CallRecords
<1> HIDE DEF g
<1>7. g \in Fitting
  BY <1>1, <1>3, <1>4, <1>5, <1>6 DEF Fitting, KindFits, HandsFit, Importing, Deriving, Reviewing, Clearing
<1>8. DataTypes'
  BY SameData DEF Types, ReadPrior, DataTypes
<1> QED
  BY <1>7, <1>8, DoTypes DEF ReadPrior, g, h, doc

LEMMA KeepGoodTypes ==
    ASSUME Types, NEW a \in Callers, KeepGood(a) PROVE Types'
<1> DEFINE h == call[a]
<1>1. h \in Fitting /\ h.pc = "good" /\ HandsFit(h)
  BY CallType DEF KeepGood, At
<1>2. Onward(h) \in Fitting
  BY <1>1, OnwardIs DEF Importing
<1> HIDE DEF h
<1>3. [h EXCEPT !.pc = "status"] \in Fitting
  BY <1>1 DEF Fitting, CallRecords, KindFits, HandsFit, Pcs, Importing, Deriving, Reviewing, Clearing
<1>4. DataTypes'
  BY SameData DEF Types, KeepGood, DataTypes
<1> QED
  BY <1>2, <1>3, <1>4, DoTypes DEF KeepGood, h

LEMMA SaveStatusTypes ==
    ASSUME Types, NEW a \in Callers, SaveStatus(a) PROVE Types'
<1>1. call[a] \in Fitting /\ call[a] \in CallRecords /\ call[a].pc \in Importing
  BY CallType DEF SaveStatus, At, Importing
<1>2. Onward(call[a]) \in Fitting
  BY <1>1, OnwardIs
<1>3. DataTypes'
  BY <1>1 DEF SaveStatus, Types, DataTypes, CallRecords
<1> QED
  BY <1>2, <1>3, DoTypes DEF SaveStatus

LEMMA SaveRowsTypes ==
    ASSUME Types, NEW a \in Callers, SaveRows(a) PROVE Types'
<1>1. call[a] \in Fitting /\ call[a] \in CallRecords /\ call[a].pc \in Importing
  BY CallType DEF SaveRows, At, Importing
<1>2. Onward(call[a]) \in Fitting
  BY <1>1, OnwardIs
<1>3. DataTypes'
  BY HandsAre DEF SaveRows, At, Types, DataTypes
<1> QED
  BY <1>2, <1>3, DoTypes DEF SaveRows

LEMMA SaveSourceTypes ==
    ASSUME Types, NEW a \in Callers, SaveSource(a) PROVE Types'
<1> DEFINE h == call[a]
<1>1. h \in Fitting /\ h \in CallRecords /\ h.pc = "save"
  BY CallType DEF SaveSource, At
<1>2. DataTypes'
  BY <1>1 DEF SaveSource, Types, DataTypes, CallRecords
<1> HIDE DEF h
<1>3. [h EXCEPT !.pc = "rows"] \in Fitting
  BY <1>1 DEF Fitting, CallRecords, KindFits, HandsFit, Pcs, Importing, Deriving, Reviewing, Clearing, ParsedAs, Target
<1> QED
  BY <1>2, <1>3, DoTypes DEF SaveSource, h

\* A call goes on, with empty hands, to where its kind goes.
LEMMA GotoFits ==
    ASSUME NEW h \in Fitting, h.pc # "idle", NEW pc \in Pcs \ {"idle"},
           pc \notin Importing \cup {"vendors", "data", "mark", "clear", "clear_rows"},
           pc \in Deriving => h.kind \in {"upload", "derive"},
           pc \in Reviewing => h.kind \in {"upload", "derive", "reconcile"},
           pc \in Clearing => h.kind = "reset",
           pc # "respond" => h.seen = BlankReport
    PROVE  Goto(h, pc) \in Fitting
<1> DEFINE g == Goto(h, pc)
<1>1. h \in CallRecords /\ Len(h.queue) <= Len(Order) /\ KindFits(h) /\ HandsFit(h)
  BY DEF Fitting
<1>2. /\ g \in CallRecords /\ g.pc = pc /\ g.kind = h.kind /\ g.queue = h.queue /\ g.file = h.file
      /\ g.seen = h.seen /\ g.rows = {} /\ g.doc = NoSource
  BY <1>1, GotoIs
<1>3. ~HasData(g.doc)
  BY <1>2, NoSourceIs
<1> HIDE DEF g
<1>4. KindFits(g)
  BY <1>1, <1>2 DEF KindFits, Importing
<1>5. HandsFit(g)
  BY <1>1, <1>2, <1>3 DEF HandsFit, Importing
<1>6. g \in Fitting
  BY <1>1, <1>2, <1>4, <1>5 DEF Fitting
<1> QED
  BY <1>6 DEF g

LEMMA HoldingFits ==
    ASSUME NEW g \in Fitting, g.pc \in {"company", "vacate"}, NEW rows \in SUBSET Rows
    PROVE  [g EXCEPT !.rows = rows] \in Fitting
  BY DEF Fitting, CallRecords, KindFits, HandsFit, Importing, Deriving, Reviewing, Clearing

LEMMA ReadLedgerTypes ==
    ASSUME Types, NEW a \in Callers, ReadLedger(a) PROVE Types'
<1> DEFINE h == call[a]
<1>1. /\ h \in Fitting /\ h \in CallRecords /\ h.pc = "ledger" /\ h.kind \in {"upload", "derive"}
      /\ h.seen = BlankReport
  BY CallType DEF ReadLedger, At, KindFits, HandsFit, Deriving
<1>2. dataset[Ledger] \in SUBSET Rows
  BY ConnectorsAssumption DEF Types, DataTypes
<1>3. DataTypes'
  BY SameData DEF Types, ReadLedger, DataTypes
<1> HIDE DEF h
<1>4. Goto(h, "company") \in Fitting /\ Goto(h, "reconcile") \in Fitting
  BY <1>1, GotoFits DEF Pcs, Importing, Deriving, Reviewing, Clearing
<1>5. Goto(h, "company").pc = "company"
  BY <1>1, GotoIs DEF Pcs
<1>6. [Goto(h, "company") EXCEPT !.rows = dataset[Ledger]] \in Fitting
  BY <1>2, <1>4, <1>5, HoldingFits
<1> QED
  BY <1>3, <1>4, <1>6, DoTypes DEF ReadLedger, h

LEMMA SaveCompanyTypes ==
    ASSUME Types, NEW a \in Callers, SaveCompany(a) PROVE Types'
<1> DEFINE h == call[a]
<1>1. /\ h \in Fitting /\ h.pc = "company" /\ h.kind \in {"upload", "derive"}
      /\ h.seen = BlankReport /\ h.rows \in SUBSET Rows
  BY CallType DEF SaveCompany, At, KindFits, HandsFit, Deriving
<1>2. DataTypes'
  BY <1>1 DEF SaveCompany, Types, DataTypes
<1> HIDE DEF h
<1>3. Goto(h, "export") \in Fitting
  BY <1>1, GotoFits DEF Pcs, Importing, Deriving, Reviewing, Clearing
<1> QED
  BY <1>2, <1>3, DoTypes DEF SaveCompany, h

LEMMA ReadExportTypes ==
    ASSUME Types, NEW a \in Callers, ReadExport(a) PROVE Types'
<1> DEFINE h == call[a]
<1>1. /\ h \in Fitting /\ h \in CallRecords /\ h.pc = "export" /\ h.kind \in {"upload", "derive"}
      /\ h.seen = BlankReport
  BY CallType DEF ReadExport, At, KindFits, HandsFit, Deriving
<1>2. dataset[VendorExport] \in SUBSET Rows
  BY ConnectorsAssumption DEF Types, DataTypes
<1>3. DataTypes'
  BY SameData DEF Types, ReadExport, DataTypes
<1> HIDE DEF h
<1>4. Goto(h, "vacate") \in Fitting /\ Goto(h, "reconcile") \in Fitting
  BY <1>1, GotoFits DEF Pcs, Importing, Deriving, Reviewing, Clearing
<1>5. Goto(h, "vacate").pc = "vacate"
  BY <1>1, GotoIs DEF Pcs
<1>6. [Goto(h, "vacate") EXCEPT !.rows = dataset[VendorExport]] \in Fitting
  BY <1>2, <1>4, <1>5, HoldingFits
<1> QED
  BY <1>3, <1>4, <1>6, DoTypes DEF ReadExport, h

LEMMA VacateTypes ==
    ASSUME Types, NEW a \in Callers, Vacate(a) PROVE Types'
<1> DEFINE h == call[a]
<1>1. h \in Fitting /\ h.pc = "vacate"
  BY CallType DEF Vacate, At
<1>2. DataTypes'
  BY DEF Vacate, Types, DataTypes
<1> HIDE DEF h
<1>3. [h EXCEPT !.pc = "vendor"] \in Fitting
  BY <1>1 DEF Fitting, CallRecords, KindFits, HandsFit, Pcs, Importing, Deriving, Reviewing, Clearing
<1> QED
  BY <1>2, <1>3, DoTypes DEF Vacate, h

LEMMA SaveVendorTypes ==
    ASSUME Types, NEW a \in Callers, SaveVendor(a) PROVE Types'
<1> DEFINE h == call[a]
           pc == IF h.kind = "reset" THEN "respond" ELSE "reconcile"
<1>1. /\ h \in Fitting /\ h \in CallRecords /\ h.pc = "vendor" /\ h.kind \in {"upload", "derive", "reset"}
      /\ h.seen = BlankReport /\ h.rows \in SUBSET (Rows \cup Seeded)
  BY CallType DEF SaveVendor, At, KindFits, HandsFit, Deriving, CallRecords
<1>2. DataTypes'
  BY <1>1 DEF SaveVendor, Types, DataTypes
<1> HIDE DEF h
<1>3. Goto(h, pc) \in Fitting
  BY <1>1, GotoFits DEF Pcs, Importing, Deriving, Reviewing, Clearing
<1>4. ASSUME NEW v \in h.rows PROVE [h EXCEPT !.rows = h.rows \ {v}] \in Fitting
  BY <1>1 DEF Fitting, CallRecords, KindFits, HandsFit, Importing, Deriving, Reviewing, Clearing
<1>5. \E next \in Fitting : Do(a, next)
  BY <1>3, <1>4 DEF SaveVendor, h
<1> QED
  BY <1>2, <1>5, DoTypes

LEMMA ReadCompanyTypes ==
    ASSUME Types, NEW a \in Callers, ReadCompany(a) PROVE Types'
<1> DEFINE h == call[a]
           pc == IF company = None THEN "data" ELSE "vendors"
           g == Goto(h, pc)
           next == [g EXCEPT !.seen.company = company, !.queue = Order]
<1>1. /\ h \in CallRecords /\ h.pc = "reconcile" /\ h.kind \in {"upload", "derive", "reconcile"}
      /\ h.seen = BlankReport
  BY CallType DEF ReadCompany, At, KindFits, HandsFit, Reviewing
<1>2. DataTypes'
  BY SameData DEF Types, ReadCompany, DataTypes
<1> HIDE DEF h
<1>3. /\ g \in CallRecords /\ g.pc = pc /\ g.kind = h.kind /\ g.seen = BlankReport
      /\ g.rows = {}
  BY <1>1, GotoIs DEF Pcs
<1> DEFINE seen == [BlankReport EXCEPT !.company = company]
<1>4. seen \in Reports /\ seen.considered = {}
  BY BlankReportType DEF Types, DataTypes, Reports, BlankReport
<1> HIDE DEF g, seen
<1>5. next = [g EXCEPT !.seen = seen, !.queue = Order]
  BY <1>3 DEF CallRecords, seen
<1>6. next \in CallRecords
  BY <1>3, <1>4, <1>5, OrderIs DEF CallRecords
<1>7. /\ next.pc = pc /\ next.kind = h.kind /\ next.queue = Order /\ next.seen = seen /\ next.rows = {}
  BY <1>3, <1>5 DEF CallRecords
<1> HIDE DEF next
<1>8. next \in Fitting
  BY <1>1, <1>4, <1>6, <1>7, OrderIs
     DEF Fitting, KindFits, HandsFit, Importing, Deriving, Reviewing, Clearing
<1> QED
  BY <1>2, <1>8, DoTypes DEF ReadCompany, h, next, g

LEMMA ReadVendorsTypes ==
    ASSUME Types, NEW a \in Callers, ReadVendors(a) PROVE Types'
<1> DEFINE h == call[a]
           seen == [h.seen EXCEPT !.vendors = vendors]
           next == [h EXCEPT !.pc = "data", !.seen.vendors = vendors]
<1>1. h \in Fitting /\ h \in CallRecords /\ h.pc = "vendors" /\ h.seen \in Reports /\ h.queue # <<>>
  BY CallType DEF ReadVendors, At, CallRecords, HandsFit
<1>2. DataTypes'
  BY SameData DEF Types, ReadVendors, DataTypes
<1>3. seen \in Reports /\ seen.considered = h.seen.considered
  BY <1>1 DEF Types, DataTypes, Reports
<1> HIDE DEF h, seen
<1>4. next = [h EXCEPT !.pc = "data", !.seen = seen]
  BY <1>1 DEF CallRecords, seen
<1>5. [h EXCEPT !.pc = "data", !.seen = seen] \in Fitting
  BY <1>1, <1>3 DEF Fitting, CallRecords, KindFits, HandsFit, Pcs, Importing, Deriving, Reviewing, Clearing
<1> QED
  BY <1>2, <1>4, <1>5, DoTypes DEF ReadVendors, h

LEMMA ReadDataTypes ==
    ASSUME Types, NEW a \in Callers, ReadData(a) PROVE Types'
<1> DEFINE h == call[a]
           c == Head(h.queue)
           more == Len(h.queue) > 1
           seen == [h.seen EXCEPT !.data[c] = dataset[c]]
           pc == IF more THEN "data" ELSE "list"
           left == IF more THEN {} ELSE Connectors
           next == [h EXCEPT !.pc = pc, !.queue = Tail(@), !.left = left, !.seen.data[c] = dataset[c]]
<1>1. /\ h \in CallRecords /\ h.pc = "data" /\ h.seen \in Reports /\ h.queue # <<>>
      /\ h.queue \in Seq(Connectors) /\ Len(h.queue) <= Len(Order) /\ h.rows \subseteq Rows
      /\ h.kind \in {"upload", "derive", "reconcile"} /\ h.seen.considered = {}
  BY CallType DEF ReadData, At, CallRecords, HandsFit, KindFits, Reviewing
<1>2. DataTypes'
  BY SameData DEF Types, ReadData, DataTypes
<1>3. c \in Connectors /\ Tail(h.queue) \in Seq(Connectors) /\ Len(Tail(h.queue)) <= Len(Order)
      /\ (more => Tail(h.queue) # <<>>)
  <2> HIDE DEF h, next, seen
  <2>1. /\ c \in Connectors /\ Tail(h.queue) \in Seq(Connectors)
        /\ Len(Tail(h.queue)) = Len(h.queue) - 1 /\ Len(h.queue) \in Nat
        /\ more => Tail(h.queue) # <<>>
    BY <1>1, QueueIs
  <2> QED
    BY <1>1, <2>1, OrderIs
<1>4. seen \in Reports /\ seen.considered = {}
  <2>1. dataset[c] \in SUBSET Rows
    BY <1>3 DEF Types, DataTypes
  <2> QED
    BY <1>1, <2>1 DEF Reports
<1>5. next = [h EXCEPT !.pc = pc, !.queue = Tail(h.queue), !.left = left, !.seen = seen]
  BY <1>1 DEF CallRecords
<1>6. Do(a, next)
  BY DEF ReadData
<1> HIDE DEF h, seen, c
<1>7. next \in CallRecords
  BY <1>1, <1>3, <1>4, <1>5 DEF CallRecords, Pcs
<1>8. /\ next.pc = pc /\ next.kind = h.kind /\ next.queue = Tail(h.queue) /\ next.seen = seen
      /\ next.rows = h.rows
  BY <1>1, <1>5 DEF CallRecords
<1> HIDE DEF next
<1>9. next \in Fitting
  BY <1>1, <1>3, <1>4, <1>7, <1>8 DEF Fitting, KindFits, HandsFit, Importing, Deriving, Reviewing, Clearing
<1> QED
  BY <1>2, <1>6, <1>9, DoTypes

LEMMA ListSourcesTypes ==
    ASSUME Types, NEW a \in Callers, ListSources(a) PROVE Types'
<1> DEFINE h == call[a]
<1>1. /\ h \in CallRecords /\ h.pc = "list" /\ h.seen \in Reports /\ h.left \in SUBSET Connectors
      /\ Len(h.queue) <= Len(Order) /\ h.rows \subseteq Rows
      /\ h.kind \in {"upload", "derive", "reconcile"}
  BY CallType DEF ListSources, At, CallRecords, HandsFit, KindFits, Reviewing
<1>2. DataTypes'
  BY SameData DEF Types, ListSources, DataTypes
<1> HIDE DEF h
<1>3. ASSUME NEW considered \in SUBSET Connectors, NEW left \in SUBSET Connectors,
             NEW pc \in {"list", "report", "review"}
      PROVE  [h EXCEPT !.seen.considered = considered, !.left = left, !.pc = pc] \in Fitting
  <2> DEFINE seen == [h.seen EXCEPT !.considered = considered]
             next == [h EXCEPT !.seen = seen, !.left = left, !.pc = pc]
  <2>1. seen \in Reports
    BY <1>1 DEF Reports
  <2> HIDE DEF seen
  <2>2. next \in CallRecords
    BY <1>1, <2>1 DEF CallRecords, Pcs
  <2>3. next.pc = pc /\ next.kind = h.kind /\ next.queue = h.queue /\ next.rows = h.rows
    BY <1>1 DEF CallRecords
  <2>4. next = [h EXCEPT !.seen.considered = considered, !.left = left, !.pc = pc]
    BY <1>1 DEF CallRecords, seen
  <2> HIDE DEF next
  <2>5. next \in Fitting
    BY <1>1, <2>2, <2>3 DEF Fitting, KindFits, HandsFit, Importing, Deriving, Reviewing, Clearing
  <2> QED
    BY <2>4, <2>5
<1>4. \E next \in Fitting : Do(a, next)
  <2>1. PICK c \in h.left :
          LET considered == h.seen.considered \cup (IF Considered(source[c]) THEN {c} ELSE {})
          IN  Do(a, [h EXCEPT
                  !.seen.considered = considered,
                  !.left = IF h.left = {c} THEN considered ELSE @ \ {c},
                  !.pc = IF h.left # {c} THEN "list"
                         ELSE IF considered = {} THEN "report" ELSE "review"])
    BY DEF ListSources, h
  <2> DEFINE considered == h.seen.considered \cup (IF Considered(source[c]) THEN {c} ELSE {})
             left == IF h.left = {c} THEN considered ELSE h.left \ {c}
             pc == IF h.left # {c} THEN "list" ELSE IF considered = {} THEN "report" ELSE "review"
  <2>2. considered \in SUBSET Connectors
    BY <1>1 DEF Reports
  <2>3. left \in SUBSET Connectors /\ pc \in {"list", "report", "review"}
    BY <1>1, <2>2
  <2> HIDE DEF considered, left, pc
  <2>4. Do(a, [h EXCEPT !.seen.considered = considered, !.left = left, !.pc = pc])
    BY <1>1, <2>1 DEF considered, left, pc, CallRecords
  <2> QED
    BY <1>3, <2>2, <2>3, <2>4
<1> QED
  BY <1>2, <1>4, DoTypes

\* A source is marked, or has gone, and the call goes on to the next.
LEMMA ReviewedIs ==
    ASSUME NEW h \in Fitting, h.pc \in {"review", "mark"}, NEW c
    PROVE  /\ Reviewed(h, c) \in Fitting
           /\ Reviewed(h, c).pc = IF h.left = {c} THEN "report" ELSE "review"
           /\ Reviewed(h, c).left = h.left \ {c} /\ Reviewed(h, c).seen = h.seen
           /\ Reviewed(h, c).kind = h.kind /\ Reviewed(h, c).met = h.met
<1> DEFINE pc == IF h.left = {c} THEN "report" ELSE "review"
           g == [h EXCEPT !.left = h.left \ {c}, !.doc = NoSource, !.queue = <<>>, !.pc = pc]
<1>1. h \in CallRecords /\ HandsFit(h) /\ KindFits(h)
  BY DEF Fitting
<1>2. Reviewed(h, c) = g
  BY DEF Reviewed
<1>3. g \in CallRecords
  <2>1. <<>> \in Seq(Connectors)
    OBVIOUS
  <2> QED
    BY <1>1, <2>1, NoSourceIs DEF CallRecords, Pcs
<1>4. /\ g.pc = pc /\ g.left = h.left \ {c} /\ g.queue = <<>> /\ g.seen = h.seen /\ g.kind = h.kind
      /\ g.met = h.met /\ g.rows = h.rows
  BY <1>1 DEF CallRecords
<1> HIDE DEF g
<1>5. Len(g.queue) <= Len(Order)
  BY <1>4, OrderIs
<1>6. h.kind \in {"upload", "derive", "reconcile"} /\ h.rows \subseteq Rows
  BY <1>1 DEF KindFits, HandsFit, Reviewing
<1>7. g \in Fitting
  BY <1>3, <1>4, <1>5, <1>6 DEF Fitting, KindFits, HandsFit, Importing, Deriving, Reviewing, Clearing
<1> QED
  BY <1>2, <1>4, <1>7

\* What a call is about to write back.
LEMMA MarkIs ==
    ASSUME NEW h \in Fitting, h.pc = "review", NEW c \in Connectors, NEW doc \in Sources, doc # NoSource
    PROVE  [h EXCEPT !.pc = "mark", !.queue = <<c>>, !.doc = [doc EXCEPT !.reviewed = TRUE]] \in Fitting
<1> DEFINE marked == [doc EXCEPT !.reviewed = TRUE]
           g == [h EXCEPT !.pc = "mark", !.queue = <<c>>, !.doc = marked]
<1>1. h \in CallRecords /\ h.kind \in {"upload", "derive", "reconcile"} /\ h.rows \subseteq Rows
  BY DEF Fitting, HandsFit, KindFits, Reviewing
<1>2. marked \in Sources /\ marked.reviewed
  BY DEF Sources, NoSource
<1>3. <<c>> \in Seq(Connectors) /\ <<c>> # <<>> /\ Len(<<c>>) = 1
  OBVIOUS
<1> HIDE DEF marked
<1>4. g \in CallRecords
  BY <1>1, <1>2, <1>3 DEF CallRecords, Pcs
<1>5. /\ g.pc = "mark" /\ g.kind = h.kind /\ g.queue = <<c>> /\ g.doc = marked /\ g.rows = h.rows
  BY <1>1 DEF CallRecords
<1> HIDE DEF g
<1>6. g \in Fitting
  BY <1>1, <1>2, <1>3, <1>4, <1>5, OrderIs
     DEF Fitting, KindFits, HandsFit, Importing, Deriving, Reviewing, Clearing
<1> QED
  BY <1>6 DEF g, marked

LEMMA ReadMarkTypes ==
    ASSUME Types, NEW a \in Callers, ReadMark(a) PROVE Types'
<1>1. call[a] \in Fitting /\ call[a] \in CallRecords /\ call[a].pc = "review"
  BY CallType DEF ReadMark, At
<1>2. PICK c \in call[a].left :
         Do(a, IF Marks(source[c])
               THEN [call[a] EXCEPT !.pc = "mark", !.queue = <<c>>,
                                    !.doc = [source[c] EXCEPT !.reviewed = TRUE]]
               ELSE Reviewed(call[a], c))
  BY DEF ReadMark
<1>3. c \in Connectors /\ source[c] \in Sources
  BY <1>1 DEF CallRecords, Types, DataTypes
<1>4. Marks(source[c]) =>
         [call[a] EXCEPT !.pc = "mark", !.queue = <<c>>,
                         !.doc = [source[c] EXCEPT !.reviewed = TRUE]] \in Fitting
  BY <1>1, <1>3, MarkIs DEF Marks
<1>5. Reviewed(call[a], c) \in Fitting
  BY <1>1, ReviewedIs
<1>6. DataTypes'
  BY SameData DEF Types, ReadMark, DataTypes
<1> QED
  BY <1>2, <1>4, <1>5, <1>6, DoTypes

LEMMA SaveMarkTypes ==
    ASSUME Types, NEW a \in Callers, SaveMark(a) PROVE Types'
<1>1. call[a] \in Fitting /\ call[a] \in CallRecords /\ call[a].pc = "mark"
  BY CallType DEF SaveMark, At
<1>2. Reviewed(call[a], Head(call[a].queue)) \in Fitting
  BY <1>1, ReviewedIs
<1>3. DataTypes'
  BY <1>1 DEF SaveMark, Types, DataTypes, CallRecords
<1> QED
  BY <1>2, <1>3, DoTypes DEF SaveMark

LEMMA SaveReportTypes ==
    ASSUME Types, NEW a \in Callers, SaveReport(a) PROVE Types'
<1>1. call[a] \in Fitting /\ call[a] \in CallRecords /\ call[a].pc = "report"
  BY CallType DEF SaveReport, At
<1>2. Goto(call[a], "respond") \in Fitting
  BY <1>1, GotoFits DEF Pcs, Importing, Deriving, Reviewing, Clearing
<1>3. DataTypes'
  BY <1>1 DEF SaveReport, Types, DataTypes, CallRecords
<1> QED
  BY <1>2, <1>3, DoTypes DEF SaveReport

LEMMA ClearSourceTypes ==
    ASSUME Types, NEW a \in Callers, ClearSource(a) PROVE Types'
<1> DEFINE h == call[a]
<1>1. h \in Fitting /\ h.pc = "clear"
  BY CallType DEF ClearSource, At
<1>2. DataTypes'
  BY NoSourceIs DEF ClearSource, Types, DataTypes
<1> HIDE DEF h
<1>3. [h EXCEPT !.pc = "clear_rows"] \in Fitting
  BY <1>1 DEF Fitting, CallRecords, KindFits, HandsFit, Pcs, Importing, Deriving, Reviewing, Clearing
<1> QED
  BY <1>2, <1>3, DoTypes DEF ClearSource, h

LEMMA ClearRowsTypes ==
    ASSUME Types, NEW a \in Callers, ClearRows(a) PROVE Types'
<1> DEFINE h == call[a]
           pc == IF Len(h.queue) > 1 THEN "clear" ELSE "clear_report"
           next == [h EXCEPT !.pc = pc, !.queue = Tail(h.queue)]
<1>1. /\ h \in CallRecords /\ h.pc = "clear_rows" /\ h.kind = "reset" /\ h.queue # <<>>
      /\ h.queue \in Seq(Connectors) /\ Len(h.queue) <= Len(Order) /\ h.rows \subseteq Rows
      /\ h.seen = BlankReport
  BY CallType DEF ClearRows, At, HandsFit, KindFits, CallRecords, Clearing
<1>2. DataTypes'
  BY DEF ClearRows, Types, DataTypes
<1>3. /\ Tail(h.queue) \in Seq(Connectors) /\ Len(Tail(h.queue)) <= Len(Order)
      /\ Len(h.queue) > 1 => Tail(h.queue) # <<>>
  BY <1>1, QueueIs, OrderIs
<1>4. Do(a, next)
  BY DEF ClearRows
<1> HIDE DEF h
<1>5. next \in CallRecords
  BY <1>1, <1>3 DEF CallRecords, Pcs
<1>6. /\ next.pc = pc /\ next.kind = h.kind /\ next.queue = Tail(h.queue) /\ next.rows = h.rows
      /\ next.seen = BlankReport
  BY <1>1 DEF CallRecords
<1> HIDE DEF next
<1>7. next \in Fitting
  BY <1>1, <1>3, <1>5, <1>6 DEF Fitting, KindFits, HandsFit, Importing, Deriving, Reviewing, Clearing
<1> QED
  BY <1>2, <1>4, <1>7, DoTypes

LEMMA ClearReportTypes ==
    ASSUME Types, NEW a \in Callers, ClearReport(a) PROVE Types'
<1>1. /\ call[a] \in Fitting /\ call[a].pc = "clear_report" /\ call[a].kind = "reset"
      /\ call[a].seen = BlankReport
  BY CallType DEF ClearReport, At, KindFits, HandsFit, Clearing
<1>2. Goto(call[a], "clear_company") \in Fitting
  BY <1>1, GotoFits DEF Pcs, Importing, Deriving, Reviewing, Clearing
<1>3. DataTypes'
  BY DEF ClearReport, Types, DataTypes
<1> QED
  BY <1>2, <1>3, DoTypes DEF ClearReport

LEMMA ClearCompanyTypes ==
    ASSUME Types, NEW a \in Callers, ClearCompany(a) PROVE Types'
<1> DEFINE h == call[a]
           pc == IF Seeded = {} THEN "respond" ELSE "vendor"
           next == [h EXCEPT !.pc = pc, !.rows = Seeded]
<1>1. /\ h \in CallRecords /\ h.pc = "clear_company" /\ h.kind = "reset"
      /\ Len(h.queue) <= Len(Order) /\ h.seen = BlankReport
  BY CallType DEF ClearCompany, At, HandsFit, KindFits, CallRecords, Clearing
<1>2. DataTypes'
  BY DEF ClearCompany, Types, DataTypes
<1>3. Do(a, next)
  BY DEF ClearCompany
<1> HIDE DEF h
<1>4. next \in CallRecords
  BY <1>1 DEF CallRecords, Pcs
<1>5. /\ next.pc = pc /\ next.kind = h.kind /\ next.queue = h.queue /\ next.rows = Seeded
      /\ next.seen = BlankReport
  BY <1>1 DEF CallRecords
<1> HIDE DEF next
<1>6. next \in Fitting
  BY <1>1, <1>4, <1>5 DEF Fitting, KindFits, HandsFit, Importing, Deriving, Reviewing, Clearing
<1> QED
  BY <1>2, <1>3, <1>6, DoTypes

LEMMA RespondTypes ==
    ASSUME Types, NEW a \in Callers, Respond(a) PROVE Types'
<1>1. DataTypes'
  BY SameData DEF Types, Respond, DataTypes
<1> QED
  BY <1>1, IdleIs, DoTypes DEF Respond

LEMMA FailTypes ==
    ASSUME Types, NEW a \in Callers, Fail(a) PROVE Types'
<1>1. DataTypes'
  BY SameData DEF Types, Fail, DataTypes
<1> QED
  BY <1>1, IdleIs, DoTypes DEF Fail

LEMMA TypesInit == Init => Types
<1> SUFFICES ASSUME Init PROVE Types
  OBVIOUS
<1>1. DataTypes
  BY NoSourceIs, BoundsAssumption DEF Init, DataTypes
<1> QED
  BY <1>1, IdleIs DEF Init, Types

LEMMA TypesNext ==
    ASSUME Types, [Next]_vars PROVE Types'
<1>1. CASE UNCHANGED vars
  BY <1>1 DEF vars, Types, DataTypes
<1>2. ASSUME NEW a \in Callers, Step(a) PROVE Types'
  BY <1>2, CheckTypes, ReadPriorTypes, KeepGoodTypes, SaveStatusTypes, SaveSourceTypes, SaveRowsTypes,
     ReadLedgerTypes, SaveCompanyTypes, ReadExportTypes, VacateTypes, SaveVendorTypes, ReadCompanyTypes,
     ReadVendorsTypes, ReadDataTypes, ListSourcesTypes, ReadMarkTypes, SaveMarkTypes, SaveReportTypes,
     ClearSourceTypes, ClearRowsTypes, ClearReportTypes, ClearCompanyTypes, RespondTypes DEF Step
<1> QED
  BY <1>1, <1>2, ArriveTypes, FailTypes DEF Next

LEMMA TypesAreTypeOK == Types => TypeOK
<1> SUFFICES ASSUME Types PROVE TypeOK
  OBVIOUS
<1>1. ASSUME NEW a \in Callers PROVE call[a] \in CallStates
  <2> DEFINE h == call[a]
  <2>1. h \in CallRecords /\ Len(h.queue) <= Len(Order)
    BY CallType
  <2>2. h.queue \in [1..Len(h.queue) -> Connectors] /\ Len(h.queue) \in 0..Len(Order)
    BY <2>1, OrderIs DEF CallRecords
  <2>3. h.queue \in UNION {[1..n -> Connectors] : n \in 0..Len(Order)}
    BY <2>2
  <2> HIDE DEF h
  <2>4. h \in CallStates
    BY <2>1, <2>3 DEF CallRecords, CallStates
  <2> QED
    BY <2>4 DEF h
<1> QED
  BY <1>1 DEF Types, DataTypes, TypeOK

(***************************************************************************)
(* What steps do.                                                          *)
(***************************************************************************)
\* A step of a call moves it alone.
LEMMA DoIs ==
    ASSUME Types, NEW a \in Callers, NEW next, Do(a, next)
    PROVE  call'[a] = next /\ \A b \in Callers \ {a} : call'[b] = call[b]
  BY DEF Types, Do

LEMMA StepRuns ==
    ASSUME Types, NEW a \in Callers, Step(a) \/ Fail(a)
    PROVE  /\ a \in Running /\ call[a].kind \in Kinds
           /\ \A b \in Callers \ {a} : call'[b] = call[b]
           /\ orderly' => orderly /\ Step(a)
           /\ call'[a] = Idle \/ Step(a)
<1>1. a \in Running
  BY DEF Step, Fail, Running, At, Check, ReadPrior, KeepGood, SaveStatus, SaveSource, SaveRows,
     ReadLedger, SaveCompany, ReadExport, Vacate, SaveVendor, ReadCompany, ReadVendors, ReadData,
     ListSources, ReadMark, SaveMark, SaveReport, ClearSource, ClearRows, ClearReport, ClearCompany, Respond
<1>2. \E next : Do(a, next)
  BY DEF Step, Fail, Check, ReadPrior, KeepGood, SaveStatus, SaveSource, SaveRows,
     ReadLedger, SaveCompany, ReadExport, Vacate, SaveVendor, ReadCompany, ReadVendors, ReadData,
     ListSources, ReadMark, SaveMark, SaveReport, ClearSource, ClearRows, ClearReport, ClearCompany, Respond
<1>3. Step(a) => orderly' = orderly
  BY DEF Step, Check, ReadPrior, KeepGood, SaveStatus, SaveSource, SaveRows,
     ReadLedger, SaveCompany, ReadExport, Vacate, SaveVendor, ReadCompany, ReadVendors, ReadData,
     ListSources, ReadMark, SaveMark, SaveReport, ClearSource, ClearRows, ClearReport, ClearCompany, Respond
<1>4. Fail(a) => ~orderly' /\ call'[a] = Idle
  BY DoIs DEF Fail
<1> QED
  BY <1>1, <1>2, <1>3, <1>4, DoIs, RunningKinds

\* What each step does to its call, field by field.
LEMMA CheckIs ==
    ASSUME Types, NEW a \in Callers, Check(a)
    PROVE  LET h == call[a]
               g == call'[a]
           IN  /\ h.pc = "check" /\ g.kind = h.kind /\ g.met = h.met /\ g.queue = h.queue
               /\ \/ g.pc = "prior" /\ SameChecksum(source[Target(h)], g.file)
                  \/ g.pc = "status" /\ g.kind = "upload" /\ ~HasData(g.doc)
                  \/ g.pc \in {"good", "save"}
               /\ UNCHANGED stored
<1> DEFINE h == call[a]
           g == call'[a]
           c == Head(h.queue)
           saved(f) == [h EXCEPT !.pc = "save", !.file = f, !.rows = Outcome[c][f].rows,
                          !.doc = Provenance(Outcome[c][f].status, f, Cardinality(Outcome[c][f].rows))]
           prior(f) == [h EXCEPT !.pc = "prior", !.file = f]
           Keeps(k) == k.kind = h.kind /\ k.met = h.met /\ k.queue = h.queue
<1>1. h \in Fitting /\ h \in CallRecords /\ h.pc = "check" /\ (h.kind = "upload" => h.file \in Files)
  BY CallType DEF Check, At, HandsFit, Importing
<1> HIDE DEF h
<1>2. ASSUME NEW f \in Files PROVE Keeps(saved(f)) /\ saved(f).pc = "save"
  BY <1>1 DEF CallRecords
<1>3. ASSUME NEW f \in Files PROVE Keeps(prior(f)) /\ prior(f).pc = "prior" /\ prior(f).file = f
  BY <1>1 DEF CallRecords
<1>4. ASSUME NEW f \in Files \cup {None}, NEW status \in {"error", "unavailable"}, h.kind = "upload" => f \in Files
      PROVE  /\ Keeps(Rejected(h, f, status)) /\ ~HasData(Rejected(h, f, status).doc)
             /\ Rejected(h, f, status).pc = IF h.kind = "upload" THEN "status" ELSE "good"
  BY <1>1, <1>4, RejectedIs
<1> HIDE DEF saved, prior
<1>5. ASSUME h.kind = "import", Do(a, Rejected(h, None, "unavailable"))
      PROVE  Keeps(g) /\ g.pc = "good"
  BY <1>4, <1>5, DoIs
<1>6. ASSUME NEW f \in Files, Do(a, Rejected(h, f, "error"))
      PROVE  Keeps(g) /\ (g.pc = "good" \/ (g.pc = "status" /\ h.kind = "upload" /\ ~HasData(g.doc)))
  BY <1>4, <1>6, DoIs
<1>7. ASSUME NEW f \in Files, Do(a, saved(f)) PROVE Keeps(g) /\ g.pc = "save"
  BY <1>2, <1>7, DoIs
<1>8. ASSUME NEW f \in Files, SameChecksum(source[c], f), Do(a, prior(f))
      PROVE  Keeps(g) /\ g.pc = "prior" /\ SameChecksum(source[c], g.file)
  BY <1>3, <1>8, DoIs
<1>9. \/ h.kind = "import" /\ Do(a, Rejected(h, None, "unavailable"))
      \/ \E f \in Files : Do(a, IF SameChecksum(source[c], f) THEN prior(f)
                                ELSE IF Outcome[c][f].status = "error" THEN Rejected(h, f, "error")
                                ELSE saved(f))
  BY <1>1 DEF Check, h, prior, saved
<1>10. UNCHANGED stored
  BY DEF Check
<1> QED
  BY <1>1, <1>5, <1>6, <1>7, <1>8, <1>9, <1>10 DEF h, Target

LEMMA ReadPriorIs ==
    ASSUME Types, NEW a \in Callers, ReadPrior(a)
    PROVE  LET h == call[a]
               g == call'[a]
           IN  /\ h.pc = "prior" /\ g.pc = "status" /\ g.kind = h.kind /\ g.met = h.met /\ g.queue = h.queue
               /\ g.doc = Provenance("skipped", h.file, source[Target(h)].accepted)
               /\ UNCHANGED stored
<1> DEFINE h == call[a]
           doc == Provenance("skipped", h.file, source[Target(h)].accepted)
           next == [h EXCEPT !.pc = "status", !.doc = doc]
<1>1. h \in CallRecords /\ h.pc = "prior" /\ UNCHANGED stored
  BY CallType DEF ReadPrior, At
<1>2. call'[a] = next
  BY DoIs DEF ReadPrior, Target
<1> HIDE DEF h, doc
<1>3. next.pc = "status" /\ next.kind = h.kind /\ next.met = h.met /\ next.queue = h.queue /\ next.doc = doc
  BY <1>1 DEF CallRecords
<1> QED
  BY <1>1, <1>2, <1>3 DEF h, doc

LEMMA KeepGoodIs ==
    ASSUME Types, NEW a \in Callers, KeepGood(a)
    PROVE  LET h == call[a]
               g == call'[a]
           IN  /\ h.pc = "good" /\ g.kind = h.kind /\ g.met = h.met
               /\ \/ g.pc \in {"check", "respond"}
                  \/ g.pc = "status" /\ g.queue = h.queue /\ ~HasData(g.doc) /\ ~Good(source[Target(h)])
               /\ UNCHANGED stored
<1> DEFINE h == call[a]
           next == [h EXCEPT !.pc = "status"]
<1>1. h \in Fitting /\ h \in CallRecords /\ h.pc = "good" /\ h.kind = "import" /\ ~HasData(h.doc) /\ UNCHANGED stored
  BY CallType DEF KeepGood, At, KindFits, HandsFit
<1>2. Onward(h).kind = h.kind /\ Onward(h).met = h.met /\ Onward(h).pc \in {"check", "respond"}
  BY <1>1, OnwardIs DEF Importing
<1>3. call'[a] = Onward(h) \/ (call'[a] = next /\ ~Good(source[Target(h)]))
  BY DoIs DEF KeepGood, Target
<1> HIDE DEF h
<1>4. next.pc = "status" /\ next.kind = h.kind /\ next.met = h.met /\ next.queue = h.queue /\ next.doc = h.doc
  BY <1>1 DEF CallRecords
<1> QED
  BY <1>1, <1>2, <1>3, <1>4 DEF h

LEMMA SaveStatusIs ==
    ASSUME Types, NEW a \in Callers, SaveStatus(a)
    PROVE  LET h == call[a]
               g == call'[a]
           IN  /\ h.pc = "status" /\ g.kind = h.kind /\ g.met = h.met
               /\ g.pc = "check" \/ (g.pc = "respond" /\ h.kind = "import") \/ (g.pc = "ledger" /\ h.kind = "upload")
               /\ Target(h) \in Connectors
               /\ source' = [source EXCEPT ![Target(h)] = h.doc]
               /\ UNCHANGED <<dataset, company, vendors, report>>
<1>1. call[a] \in Fitting /\ call[a].pc = "status" /\ call[a].pc \in Importing
  BY CallType DEF SaveStatus, At, Importing
<1>2. Target(call[a]) \in Connectors /\ call[a].kind \in {"upload", "import"}
  BY <1>1, HandsAre
<1> QED
  BY <1>1, <1>2, OnwardIs, DoIs DEF SaveStatus, Target

LEMMA SaveSourceIs ==
    ASSUME Types, NEW a \in Callers, SaveSource(a)
    PROVE  LET h == call[a]
               g == call'[a]
           IN  /\ h.pc = "save" /\ g.pc = "rows" /\ g.kind = h.kind /\ g.met = h.met
               /\ g.queue = h.queue /\ g.doc = h.doc
               /\ Target(h) \in Connectors
               /\ source' = [source EXCEPT ![Target(h)] = h.doc]
               /\ UNCHANGED <<dataset, company, vendors, report>>
<1> DEFINE h == call[a]
           next == [h EXCEPT !.pc = "rows"]
<1>1. h \in CallRecords /\ h.pc = "save" /\ Target(h) \in Connectors
  BY CallType, HandsAre DEF SaveSource, At, Importing
<1>2. /\ call'[a] = next
      /\ source' = [source EXCEPT ![Target(h)] = h.doc]
      /\ UNCHANGED <<dataset, company, vendors, report>>
  BY DoIs DEF SaveSource, Target
<1> HIDE DEF h
<1>3. next.pc = "rows" /\ next.kind = h.kind /\ next.met = h.met /\ next.queue = h.queue /\ next.doc = h.doc
  BY <1>1 DEF CallRecords
<1> QED
  BY <1>1, <1>2, <1>3 DEF h

LEMMA SaveRowsIs ==
    ASSUME Types, NEW a \in Callers, SaveRows(a)
    PROVE  LET h == call[a]
               g == call'[a]
           IN  /\ h.pc = "rows" /\ g.kind = h.kind /\ g.met = h.met
               /\ g.pc = "check" \/ (g.pc = "respond" /\ h.kind = "import") \/ (g.pc = "ledger" /\ h.kind = "upload")
               /\ Target(h) \in Connectors
               /\ dataset' = [dataset EXCEPT ![Target(h)] = h.rows]
               /\ UNCHANGED <<source, company, vendors, report>>
<1>1. call[a] \in Fitting /\ call[a].pc = "rows" /\ call[a].pc \in Importing
  BY CallType DEF SaveRows, At, Importing
<1>2. Target(call[a]) \in Connectors /\ call[a].kind \in {"upload", "import"}
  BY <1>1, HandsAre
<1> QED
  BY <1>1, <1>2, OnwardIs, DoIs DEF SaveRows, Target

\* What a call holds when it goes on to derive.
LEMMA HoldingIs ==
    ASSUME NEW h \in CallRecords, NEW pc \in Pcs, NEW rows
    PROVE  LET g == [Goto(h, pc) EXCEPT !.rows = rows]
           IN  /\ g.pc = pc /\ g.kind = h.kind /\ g.met = h.met /\ g.rows = rows /\ g.left = {}
               /\ g.seen = h.seen
<1> DEFINE k == Goto(h, pc)
           g == [k EXCEPT !.rows = rows]
<1>1. /\ k \in CallRecords /\ k.pc = pc /\ k.kind = h.kind /\ k.met = h.met /\ k.left = {}
      /\ k.seen = h.seen
  BY GotoIs
<1> HIDE DEF k
<1>2. /\ g.pc = k.pc /\ g.kind = k.kind /\ g.met = k.met /\ g.rows = rows /\ g.left = k.left
      /\ g.seen = k.seen
  BY <1>1 DEF CallRecords
<1> QED
  BY <1>1, <1>2 DEF k

LEMMA ReadLedgerIs ==
    ASSUME Types, NEW a \in Callers, ReadLedger(a)
    PROVE  LET h == call[a]
               g == call'[a]
           IN  /\ h.pc = "ledger" /\ g.kind = h.kind /\ g.met = h.met
               /\ \/ g.pc = "company" /\ g.rows = dataset[Ledger]
                  \/ g.pc = "reconcile" /\ ~(Signal \subseteq dataset[Ledger])
               /\ UNCHANGED stored
<1> DEFINE h == call[a]
<1>1. h \in CallRecords /\ h.pc = "ledger" /\ UNCHANGED stored
  BY CallType DEF ReadLedger, At
<1>2. \/ call'[a] = [Goto(h, "company") EXCEPT !.rows = dataset[Ledger]]
      \/ call'[a] = Goto(h, "reconcile") /\ ~(Signal \subseteq dataset[Ledger])
  BY DoIs DEF ReadLedger
<1> HIDE DEF h
<1>3. Goto(h, "reconcile").pc = "reconcile" /\ Goto(h, "reconcile").kind = h.kind /\ Goto(h, "reconcile").met = h.met
  BY <1>1, GotoIs DEF Pcs
<1>4. LET g == [Goto(h, "company") EXCEPT !.rows = dataset[Ledger]]
      IN  g.pc = "company" /\ g.kind = h.kind /\ g.met = h.met /\ g.rows = dataset[Ledger]
  BY <1>1, HoldingIs DEF Pcs
<1> QED
  BY <1>1, <1>2, <1>3, <1>4 DEF h

LEMMA SaveCompanyIs ==
    ASSUME Types, NEW a \in Callers, SaveCompany(a)
    PROVE  LET h == call[a]
               g == call'[a]
           IN  /\ h.pc = "company" /\ g.pc = "export" /\ g.kind = h.kind /\ g.met = h.met
               /\ company' = h.rows
               /\ UNCHANGED <<source, dataset, vendors, report>>
<1>1. call[a] \in CallRecords
  BY CallType
<1> QED
  BY <1>1, DoIs, GotoIs DEF SaveCompany, At, Pcs

LEMMA ReadExportIs ==
    ASSUME Types, NEW a \in Callers, ReadExport(a)
    PROVE  LET h == call[a]
               g == call'[a]
           IN  /\ h.pc = "export" /\ g.kind = h.kind /\ g.met = h.met
               /\ \/ g.pc = "vacate" /\ g.rows = dataset[VendorExport]
                  \/ g.pc = "reconcile" /\ dataset[VendorExport] = {}
               /\ UNCHANGED stored
<1> DEFINE h == call[a]
<1>1. h \in CallRecords /\ h.pc = "export" /\ UNCHANGED stored
  BY CallType DEF ReadExport, At
<1>2. \/ call'[a] = [Goto(h, "vacate") EXCEPT !.rows = dataset[VendorExport]]
      \/ call'[a] = Goto(h, "reconcile") /\ dataset[VendorExport] = {}
  BY DoIs DEF ReadExport
<1> HIDE DEF h
<1>3. Goto(h, "reconcile").pc = "reconcile" /\ Goto(h, "reconcile").kind = h.kind /\ Goto(h, "reconcile").met = h.met
  BY <1>1, GotoIs DEF Pcs
<1>4. LET g == [Goto(h, "vacate") EXCEPT !.rows = dataset[VendorExport]]
      IN  g.pc = "vacate" /\ g.kind = h.kind /\ g.met = h.met /\ g.rows = dataset[VendorExport]
  BY <1>1, HoldingIs DEF Pcs
<1> QED
  BY <1>1, <1>2, <1>3, <1>4 DEF h

LEMMA VacateIs ==
    ASSUME Types, NEW a \in Callers, Vacate(a)
    PROVE  LET h == call[a]
               g == call'[a]
           IN  /\ h.pc = "vacate" /\ g.pc = "vendor" /\ g.kind = h.kind /\ g.met = h.met /\ g.rows = h.rows
               /\ vendors' = {}
               /\ UNCHANGED <<source, dataset, company, report>>
<1> DEFINE h == call[a]
           next == [h EXCEPT !.pc = "vendor"]
<1>1. /\ h \in CallRecords /\ h.pc = "vacate" /\ call'[a] = next /\ vendors' = {}
      /\ UNCHANGED <<source, dataset, company, report>>
  BY CallType, DoIs DEF Vacate, At
<1> HIDE DEF h
<1>2. next.pc = "vendor" /\ next.kind = h.kind /\ next.met = h.met /\ next.rows = h.rows
  BY <1>1 DEF CallRecords
<1> QED
  BY <1>1, <1>2 DEF h

LEMMA SaveVendorIs ==
    ASSUME Types, NEW a \in Callers, SaveVendor(a)
    PROVE  LET h == call[a]
               g == call'[a]
           IN  /\ h.pc = "vendor" /\ g.kind = h.kind /\ g.met = h.met
               /\ \/ g.pc = "vendor" /\ vendors' \cup g.rows = vendors \cup h.rows
                  \/ g.pc = "reconcile" /\ vendors' = vendors \cup h.rows
                  \/ g.pc = "respond" /\ h.kind = "reset"
               /\ UNCHANGED <<source, dataset, company, report>>
<1> DEFINE h == call[a]
           pc == IF h.kind = "reset" THEN "respond" ELSE "reconcile"
<1>1. h \in CallRecords /\ h.pc = "vendor" /\ UNCHANGED <<source, dataset, company, report>>
  BY CallType DEF SaveVendor, At
<1>2. PICK v \in h.rows : /\ vendors' = vendors \cup {v}
                          /\ Do(a, IF h.rows # {v} THEN [h EXCEPT !.rows = @ \ {v}] ELSE Goto(h, pc))
  BY DEF SaveVendor
<1> DEFINE next == [h EXCEPT !.rows = h.rows \ {v}]
<1>3. call'[a] = next \/ (h.rows = {v} /\ call'[a] = Goto(h, pc))
  BY <1>2, DoIs
<1> HIDE DEF h
<1>4. next.pc = h.pc /\ next.kind = h.kind /\ next.met = h.met /\ next.rows = h.rows \ {v}
  BY <1>1 DEF CallRecords
<1>5. Goto(h, pc).pc = pc /\ Goto(h, pc).kind = h.kind /\ Goto(h, pc).met = h.met
  BY <1>1, GotoIs DEF Pcs
<1> HIDE DEF next
<1> QED
  BY <1>1, <1>2, <1>3, <1>4, <1>5 DEF h

LEMMA ReadCompanyIs ==
    ASSUME Types, NEW a \in Callers, ReadCompany(a)
    PROVE  LET h == call[a]
               g == call'[a]
           IN  /\ h.pc = "reconcile" /\ g.kind = h.kind /\ g.met = h.met
               /\ g.pc = IF company = None THEN "data" ELSE "vendors"
               /\ g.queue = Order /\ g.seen.company = company
               /\ UNCHANGED stored
<1> DEFINE h == call[a]
           pc == IF company = None THEN "data" ELSE "vendors"
           k == Goto(h, pc)
           seen == [BlankReport EXCEPT !.company = company]
           next == [k EXCEPT !.seen = seen, !.queue = Order]
<1>1. h \in CallRecords /\ h.pc = "reconcile" /\ h.seen = BlankReport /\ UNCHANGED stored
  BY CallType DEF ReadCompany, At, HandsFit
<1>2. call'[a] = [Goto(h, pc) EXCEPT !.seen.company = company, !.queue = Order]
  BY DoIs DEF ReadCompany
<1> HIDE DEF h
<1>3. k \in CallRecords /\ k.pc = pc /\ k.kind = h.kind /\ k.met = h.met /\ k.seen = BlankReport
  BY <1>1, GotoIs DEF Pcs
<1>4. seen.company = company
  BY DEF BlankReport
<1> HIDE DEF k
<1>5. next = [k EXCEPT !.seen.company = company, !.queue = Order]
  BY <1>3 DEF CallRecords
<1> HIDE DEF seen
<1>6. next.pc = pc /\ next.kind = h.kind /\ next.met = h.met /\ next.queue = Order /\ next.seen = seen
  BY <1>3 DEF CallRecords
<1> HIDE DEF next
<1> QED
  BY <1>1, <1>2, <1>4, <1>5, <1>6 DEF h, k

LEMMA ReadVendorsIs ==
    ASSUME Types, NEW a \in Callers, ReadVendors(a)
    PROVE  LET h == call[a]
               g == call'[a]
           IN  /\ h.pc = "vendors" /\ g.pc = "data" /\ g.kind = h.kind /\ g.met = h.met
               /\ g.queue = h.queue /\ g.seen.company = h.seen.company /\ g.seen.vendors = vendors
               /\ UNCHANGED stored
<1> DEFINE h == call[a]
           seen == [h.seen EXCEPT !.vendors = vendors]
           next == [h EXCEPT !.pc = "data", !.seen = seen]
<1>1. h \in CallRecords /\ h.pc = "vendors" /\ h.seen \in Reports /\ UNCHANGED stored
  BY CallType DEF ReadVendors, At, CallRecords
<1>2. call'[a] = [h EXCEPT !.pc = "data", !.seen.vendors = vendors]
  BY DoIs DEF ReadVendors
<1> HIDE DEF h
<1>3. next = [h EXCEPT !.pc = "data", !.seen.vendors = vendors]
  BY <1>1 DEF CallRecords
<1>4. seen.company = h.seen.company /\ seen.vendors = vendors
  BY <1>1 DEF Reports
<1> HIDE DEF seen
<1>5. next.pc = "data" /\ next.kind = h.kind /\ next.met = h.met /\ next.queue = h.queue /\ next.seen = seen
  BY <1>1 DEF CallRecords
<1> HIDE DEF next
<1> QED
  BY <1>1, <1>2, <1>3, <1>4, <1>5 DEF h

LEMMA ReadDataIs ==
    ASSUME Types, NEW a \in Callers, ReadData(a)
    PROVE  LET h == call[a]
               g == call'[a]
               c == Target(h)
           IN  /\ h.pc = "data" /\ g.kind = h.kind /\ g.met = h.met /\ g.queue = Tail(h.queue)
               /\ g.pc = "data" \/ (g.pc = "list" /\ g.left = Connectors /\ Tail(h.queue) = <<>>)
               /\ g.seen.company = h.seen.company /\ g.seen.vendors = h.seen.vendors
               /\ g.seen.considered = {}
               /\ g.seen.data \in [Connectors -> SUBSET Rows]
               /\ \A d \in Connectors : g.seen.data[d] = IF d = c THEN dataset[d] ELSE h.seen.data[d]
               /\ ToSet(h.queue) = {c} \cup ToSet(Tail(h.queue))
               /\ UNCHANGED stored
<1> DEFINE h == call[a]
           c == Target(h)
           more == Len(h.queue) > 1
           pc == IF more THEN "data" ELSE "list"
           left == IF more THEN {} ELSE Connectors
           data == [h.seen.data EXCEPT ![c] = dataset[c]]
           seen == [h.seen EXCEPT !.data = data]
           next == [h EXCEPT !.pc = pc, !.queue = Tail(h.queue), !.left = left, !.seen = seen]
<1>1. /\ h \in CallRecords /\ h.pc = "data" /\ h.seen \in Reports /\ h.queue # <<>>
      /\ h.queue \in Seq(Connectors) /\ h.seen.considered = {} /\ UNCHANGED stored
  BY CallType DEF ReadData, At, CallRecords, HandsFit
<1>2. call'[a] = [h EXCEPT !.pc = pc, !.queue = Tail(@), !.left = left, !.seen.data[c] = dataset[c]]
  BY DoIs DEF ReadData, Target
<1>3. c \in Connectors /\ dataset[c] \in SUBSET Rows
  BY HandsAre, <1>1 DEF Types, DataTypes
<1>4. (more <=> Tail(h.queue) # <<>>) /\ ToSet(h.queue) = {c} \cup ToSet(Tail(h.queue))
  BY <1>1, QueueIs DEF Target
<1> HIDE DEF h, c
<1>5. next = [h EXCEPT !.pc = pc, !.queue = Tail(@), !.left = left, !.seen.data[c] = dataset[c]]
  BY <1>1 DEF CallRecords
<1>6. /\ data \in [Connectors -> SUBSET Rows]
      /\ \A d \in Connectors : data[d] = IF d = c THEN dataset[d] ELSE h.seen.data[d]
  BY <1>1, <1>3 DEF Reports
<1> HIDE DEF data
<1>7. /\ seen.company = h.seen.company /\ seen.vendors = h.seen.vendors /\ seen.considered = {} /\ seen.data = data
  BY <1>1 DEF Reports
<1> HIDE DEF seen
<1>8. /\ next.pc = pc /\ next.kind = h.kind /\ next.met = h.met /\ next.queue = Tail(h.queue)
      /\ next.left = left /\ next.seen = seen
  BY <1>1 DEF CallRecords
<1> HIDE DEF next
<1> QED
  BY <1>1, <1>2, <1>4, <1>5, <1>6, <1>7, <1>8 DEF h, c

LEMMA ListSourcesIs ==
    ASSUME Types, NEW a \in Callers, ListSources(a)
    PROVE  LET h == call[a]
               g == call'[a]
           IN  /\ h.pc = "list" /\ g.kind = h.kind /\ g.met = h.met
               /\ g.seen.company = h.seen.company /\ g.seen.vendors = h.seen.vendors
               /\ g.seen.data = h.seen.data
               /\ \E c \in h.left :
                     /\ c \in Connectors
                     /\ \A d \in Connectors : d \in g.seen.considered <=>
                                                  d \in h.seen.considered \/ (d = c /\ HasData(source[d]))
                     /\ \/ g.pc = "list" /\ g.left = h.left \ {c}
                        \/ g.pc = "review" /\ h.left = {c} /\ g.left = g.seen.considered
                        \/ g.pc = "report" /\ h.left = {c} /\ g.seen.considered = {}
               /\ g.seen.considered \subseteq Connectors
               /\ UNCHANGED stored
<1> DEFINE h == call[a]
<1>1. /\ h \in CallRecords /\ h.pc = "list" /\ h.seen \in Reports /\ h.left \in SUBSET Connectors
      /\ UNCHANGED stored
  BY CallType DEF ListSources, At, CallRecords
<1>2. PICK c \in h.left :
        LET considered == h.seen.considered \cup (IF Considered(source[c]) THEN {c} ELSE {})
        IN  Do(a, [h EXCEPT
                !.seen.considered = considered,
                !.left = IF h.left = {c} THEN considered ELSE @ \ {c},
                !.pc = IF h.left # {c} THEN "list"
                       ELSE IF considered = {} THEN "report" ELSE "review"])
  BY DEF ListSources
<1> HIDE DEF h
<1> DEFINE considered == h.seen.considered \cup (IF Considered(source[c]) THEN {c} ELSE {})
           left == IF h.left = {c} THEN considered ELSE h.left \ {c}
           pc == IF h.left # {c} THEN "list" ELSE IF considered = {} THEN "report" ELSE "review"
           seen == [h.seen EXCEPT !.considered = considered]
           next == [h EXCEPT !.seen = seen, !.left = left, !.pc = pc]
<1>3. c \in Connectors /\ considered \subseteq Connectors
  BY <1>1 DEF Reports
<1>4. \A d \in Connectors : d \in considered <=> d \in h.seen.considered \/ (d = c /\ HasData(source[d]))
  BY DEF Considered
<1>5. \/ pc = "list" /\ left = h.left \ {c}
      \/ pc = "review" /\ h.left = {c} /\ left = considered
      \/ pc = "report" /\ h.left = {c} /\ considered = {}
  OBVIOUS
<1> HIDE DEF considered, left, pc
<1>6. call'[a] = [h EXCEPT !.seen.considered = considered, !.left = left, !.pc = pc]
  BY <1>1, <1>2, DoIs DEF considered, left, pc, CallRecords
<1>7. next = [h EXCEPT !.seen.considered = considered, !.left = left, !.pc = pc]
  BY <1>1 DEF CallRecords
<1>8. /\ seen.company = h.seen.company /\ seen.vendors = h.seen.vendors /\ seen.considered = considered
      /\ seen.data = h.seen.data
  BY <1>1 DEF Reports
<1> HIDE DEF seen
<1>9. /\ next.pc = pc /\ next.kind = h.kind /\ next.met = h.met /\ next.left = left /\ next.seen = seen
  BY <1>1 DEF CallRecords
<1> HIDE DEF next
<1> QED
  BY <1>1, <1>3, <1>4, <1>5, <1>6, <1>7, <1>8, <1>9 DEF h

LEMMA ReadMarkIs ==
    ASSUME Types, NEW a \in Callers, ReadMark(a)
    PROVE  LET h == call[a]
               g == call'[a]
           IN  /\ h.pc = "review" /\ g.kind = h.kind /\ g.met = h.met /\ g.seen = h.seen
               /\ \E c \in h.left :
                     /\ c \in Connectors
                     /\ \/ /\ g.pc = "mark" /\ g.left = h.left /\ Target(g) = c
                           /\ g.doc = [source[c] EXCEPT !.reviewed = TRUE]
                        \/ /\ g.pc = IF h.left = {c} THEN "report" ELSE "review"
                           /\ g.left = h.left \ {c} /\ source[c] = NoSource
               /\ UNCHANGED stored
<1> DEFINE h == call[a]
<1>1. h \in Fitting /\ h \in CallRecords /\ h.pc = "review" /\ h.left \in SUBSET Connectors /\ UNCHANGED stored
  BY CallType DEF ReadMark, At, CallRecords
<1>2. PICK c \in h.left :
         Do(a, IF Marks(source[c])
               THEN [h EXCEPT !.pc = "mark", !.queue = <<c>>,
                              !.doc = [source[c] EXCEPT !.reviewed = TRUE]]
               ELSE Reviewed(h, c))
  BY DEF ReadMark
<1> DEFINE doc == [source[c] EXCEPT !.reviewed = TRUE]
           next == [h EXCEPT !.pc = "mark", !.queue = <<c>>, !.doc = doc]
<1>3. call'[a] = next \/ (source[c] = NoSource /\ call'[a] = Reviewed(h, c))
  BY <1>2, DoIs DEF Marks
<1> HIDE DEF h, doc
<1>4. /\ next.pc = "mark" /\ next.kind = h.kind /\ next.met = h.met /\ next.seen = h.seen /\ next.left = h.left
      /\ next.queue = <<c>> /\ next.doc = doc
  BY <1>1 DEF CallRecords
<1> HIDE DEF next
<1>5. Target(next) = c
  BY <1>4 DEF Target
<1>6. /\ Reviewed(h, c).pc = IF h.left = {c} THEN "report" ELSE "review"
      /\ Reviewed(h, c).left = h.left \ {c} /\ Reviewed(h, c).seen = h.seen
      /\ Reviewed(h, c).kind = h.kind /\ Reviewed(h, c).met = h.met
  BY <1>1, ReviewedIs
<1> QED
  BY <1>1, <1>3, <1>4, <1>5, <1>6 DEF h, doc

LEMMA SaveMarkIs ==
    ASSUME Types, NEW a \in Callers, SaveMark(a)
    PROVE  LET h == call[a]
               g == call'[a]
           IN  /\ h.pc = "mark" /\ g.kind = h.kind /\ g.met = h.met /\ g.seen = h.seen
               /\ Target(h) \in Connectors /\ h.doc.reviewed
               /\ g.pc = IF h.left = {Target(h)} THEN "report" ELSE "review"
               /\ g.left = h.left \ {Target(h)}
               /\ source' = [source EXCEPT ![Target(h)] = h.doc]
               /\ UNCHANGED <<dataset, company, vendors, report>>
<1>1. /\ call[a] \in Fitting /\ call[a].pc = "mark" /\ Target(call[a]) \in Connectors /\ call[a].doc.reviewed
  BY CallType, HandsAre DEF SaveMark, At, HandsFit
<1>2. call'[a] = Reviewed(call[a], Target(call[a]))
  BY DoIs DEF SaveMark, Target
<1> QED
  BY <1>1, <1>2, ReviewedIs DEF SaveMark, Target

LEMMA SaveReportIs ==
    ASSUME Types, NEW a \in Callers, SaveReport(a)
    PROVE  LET h == call[a]
               g == call'[a]
           IN  /\ h.pc = "report" /\ g.pc = "respond" /\ g.kind = h.kind /\ g.met = h.met /\ g.seen = h.seen
               /\ report' = h.seen
               /\ UNCHANGED <<source, dataset, company, vendors>>
<1>1. call[a] \in CallRecords
  BY CallType
<1> QED
  BY <1>1, DoIs, GotoIs DEF SaveReport, At, Pcs

LEMMA ClearSourceIs ==
    ASSUME Types, NEW a \in Callers, ClearSource(a)
    PROVE  LET h == call[a]
               g == call'[a]
           IN  /\ h.pc = "clear" /\ g.pc = "clear_rows" /\ g.kind = h.kind /\ g.met = h.met
               /\ g.queue = h.queue /\ h.kind = "reset" /\ Target(h) \in Connectors
               /\ source' = [source EXCEPT ![Target(h)] = NoSource]
               /\ UNCHANGED <<dataset, company, vendors, report>>
<1> DEFINE h == call[a]
           next == [h EXCEPT !.pc = "clear_rows"]
<1>1. h \in CallRecords /\ h.pc = "clear" /\ h.kind = "reset" /\ Target(h) \in Connectors
  BY CallType, HandsAre DEF ClearSource, At, Clearing
<1>2. /\ call'[a] = next /\ source' = [source EXCEPT ![Target(h)] = NoSource]
      /\ UNCHANGED <<dataset, company, vendors, report>>
  BY DoIs DEF ClearSource, Target
<1> HIDE DEF h
<1>3. next.pc = "clear_rows" /\ next.kind = h.kind /\ next.met = h.met /\ next.queue = h.queue
  BY <1>1 DEF CallRecords
<1> QED
  BY <1>1, <1>2, <1>3 DEF h

LEMMA ClearRowsIs ==
    ASSUME Types, NEW a \in Callers, ClearRows(a)
    PROVE  LET h == call[a]
               g == call'[a]
           IN  /\ h.pc = "clear_rows" /\ g.kind = h.kind /\ g.met = h.met
               /\ g.pc \in {"clear", "clear_report"} /\ h.kind = "reset" /\ Target(h) \in Connectors
               /\ dataset' = [dataset EXCEPT ![Target(h)] = {}]
               /\ UNCHANGED <<source, company, vendors, report>>
<1> DEFINE h == call[a]
           pc == IF Len(h.queue) > 1 THEN "clear" ELSE "clear_report"
           next == [h EXCEPT !.pc = pc, !.queue = Tail(h.queue)]
<1>1. h \in CallRecords /\ h.pc = "clear_rows" /\ h.kind = "reset" /\ Target(h) \in Connectors
  BY CallType, HandsAre DEF ClearRows, At, Clearing
<1>2. /\ call'[a] = next /\ dataset' = [dataset EXCEPT ![Target(h)] = {}]
      /\ UNCHANGED <<source, company, vendors, report>>
  BY DoIs DEF ClearRows, Target
<1> HIDE DEF h
<1>3. next.pc = pc /\ next.kind = h.kind /\ next.met = h.met
  BY <1>1 DEF CallRecords
<1> QED
  BY <1>1, <1>2, <1>3 DEF h

LEMMA ClearReportIs ==
    ASSUME Types, NEW a \in Callers, ClearReport(a)
    PROVE  LET h == call[a]
               g == call'[a]
           IN  /\ h.pc = "clear_report" /\ g.pc = "clear_company" /\ g.kind = h.kind /\ g.met = h.met
               /\ h.kind = "reset"
               /\ UNCHANGED <<source, dataset, company, vendors>>
<1>1. call[a] \in CallRecords /\ (call[a].pc = "clear_report" => call[a].kind = "reset")
  BY CallType, HandsAre DEF Clearing
<1> QED
  BY <1>1, DoIs, GotoIs DEF ClearReport, At, Pcs

LEMMA ClearCompanyIs ==
    ASSUME Types, NEW a \in Callers, ClearCompany(a)
    PROVE  LET h == call[a]
               g == call'[a]
           IN  /\ h.pc = "clear_company" /\ g.kind = h.kind /\ g.met = h.met
               /\ g.pc \in {"respond", "vendor"} /\ h.kind = "reset"
               /\ UNCHANGED <<source, dataset, vendors, report>>
<1> DEFINE h == call[a]
           pc == IF Seeded = {} THEN "respond" ELSE "vendor"
           next == [h EXCEPT !.pc = pc, !.rows = Seeded]
<1>1. h \in CallRecords /\ h.pc = "clear_company" /\ h.kind = "reset"
  BY CallType, HandsAre DEF ClearCompany, At, Clearing
<1>2. call'[a] = next /\ UNCHANGED <<source, dataset, vendors, report>>
  BY DoIs DEF ClearCompany
<1> HIDE DEF h
<1>3. next.pc = pc /\ next.kind = h.kind /\ next.met = h.met
  BY <1>1 DEF CallRecords
<1> QED
  BY <1>1, <1>2, <1>3 DEF h

LEMMA OverIs ==
    ASSUME Types, NEW a \in Callers, Respond(a) \/ Fail(a)
    PROVE  call'[a] = Idle /\ UNCHANGED stored
  BY DoIs DEF Respond, Fail

\* Its kind and what it met stay, until it is over.
LEMMA StepKeeps ==
    ASSUME Types, NEW a \in Callers, Step(a)
    PROVE  call'[a] = Idle \/ (call'[a].kind = call[a].kind /\ call'[a].met = call[a].met)
  BY CheckIs, ReadPriorIs, KeepGoodIs, SaveStatusIs, SaveSourceIs, SaveRowsIs, ReadLedgerIs, SaveCompanyIs,
     ReadExportIs, VacateIs, SaveVendorIs, ReadCompanyIs, ReadVendorsIs, ReadDataIs, ListSourcesIs,
     ReadMarkIs, SaveMarkIs, SaveReportIs, ClearSourceIs, ClearRowsIs, ClearReportIs, ClearCompanyIs,
     OverIs DEF Step

\* A call that arrives meets those that run, and they meet it.
LEMMA ArriveMeets ==
    ASSUME Types, NEW a \in Callers, Arrive(a)
    PROVE  /\ call[a].pc = "idle" /\ UNCHANGED stored
           /\ Arriving(call'[a])
           /\ call'[a].met = {call[e].kind : e \in Running}
           /\ orderly' => orderly /\ Running = {}
           /\ \A b \in Callers \ {a} :
                 /\ b \notin Running => call'[b] = call[b]
                 /\ b \in Running => call'[b] = [call[b] EXCEPT !.met = call[b].met \cup {call'[a].kind}]
<1>1. PICK next \in Fitting : Arriving(next) /\ Start(a, next)
  BY ArriveIs
<1>2. {call[e].kind : e \in Running} \in SUBSET Kinds
  BY RunningKinds DEF Running
<1>3. call'[a] = [next EXCEPT !.met = {call[e].kind : e \in Running}]
  BY <1>1 DEF Start
<1>4. call'[a].kind = next.kind /\ call'[a].pc = next.pc /\ call'[a].met = {call[e].kind : e \in Running}
  BY <1>1, <1>3 DEF Fitting, CallRecords
<1>5. \A b \in Callers \ {a} :
         call'[b] = IF b \in Running THEN [call[b] EXCEPT !.met = @ \cup {next.kind}] ELSE call[b]
  BY <1>1 DEF Start
<1> QED
  BY <1>1, <1>4, <1>5, DoIs DEF Start, At, Arriving

LEMMA CompanionsNext ==
    ASSUME Types, Companions, [Next]_vars
    PROVE  Companions'
<1>1. CASE UNCHANGED vars
  BY <1>1 DEF vars, Companions, Running
<1>2. ASSUME NEW a \in Callers, Step(a) \/ Fail(a) PROVE Companions'
  <2>1. call'[a] = Idle \/ (call'[a].kind = call[a].kind /\ call'[a].met = call[a].met)
    BY <1>2, StepRuns, StepKeeps
  <2>2. \A b \in Callers : call'[b].pc # "idle" => /\ b \in Running
                                                   /\ call'[b].kind = call[b].kind /\ call'[b].met = call[b].met
    BY <1>2, <2>1, StepRuns, IdleIs DEF Running
  <2>3. \A b \in Callers : call'[b].met = call[b].met \/ call'[b].met = {}
    BY <1>2, <2>1, StepRuns, IdleIs
  <2> QED
    BY <1>2, <2>2, <2>3, StepRuns DEF Companions, Running
<1>3. ASSUME NEW a \in Callers, Arrive(a) PROVE Companions'
  <2>1. \A b \in Callers \ {a} : b \in Running => /\ call'[b].kind = call[b].kind
                                                  /\ call'[b].met = call[b].met \cup {call'[a].kind}
    <3> SUFFICES ASSUME NEW b \in Callers \ {a}, b \in Running
                 PROVE  call'[b].kind = call[b].kind /\ call'[b].met = call[b].met \cup {call'[a].kind}
      OBVIOUS
    <3>1. call'[b] = [call[b] EXCEPT !.met = call[b].met \cup {call'[a].kind}] /\ call[b] \in CallRecords
      BY <1>3, ArriveMeets, CallType
    <3> QED
      BY <3>1 DEF CallRecords
  <2>2. \A b \in Callers \ {a} : call'[b].pc # "idle" => b \in Running
    BY <1>3, ArriveMeets DEF Running
  <2>3. ASSUME NEW b \in Callers, NEW d \in Callers, b # d, call'[b].pc # "idle", call'[d].pc # "idle"
        PROVE  call'[d].kind \in call'[b].met
    BY <1>3, <2>1, <2>2, <2>3, ArriveMeets DEF Companions
  <2>4. ASSUME orderly', NEW b \in Callers PROVE call'[b].met = {}
    BY <1>3, <2>4, ArriveMeets DEF Companions
  <2> QED
    BY <2>3, <2>4 DEF Companions, Running
<1> QED
  BY <1>1, <1>2, <1>3 DEF Next

(***************************************************************************)
(* The own steps of a call.                                                *)
(***************************************************************************)
LEMMA AloneOwn ==
    ASSUME Types, NEW a \in Callers, AloneFits(a), Step(a) \/ Fail(a)
    PROVE  AloneFits(a)'
<1> DEFINE h == call[a]
           g == call'[a]
<1>1. (g.pc \notin {"prior", "status", "rows", "mark", "clear_rows"}) => AloneFits(a)'
  BY DEF AloneFits
<1>2. CASE Check(a)
  <2>1. g.kind = h.kind /\ g.met = h.met /\ Target(g) = Target(h) /\ source' = source
    BY <1>2, CheckIs DEF Target, stored
  <2> QED
    BY <1>1, <1>2, <2>1, CheckIs DEF AloneFits, SameChecksum
<1>3. CASE ReadPrior(a)
  <2>1. /\ h.pc = "prior" /\ g.pc = "status" /\ g.met = h.met /\ Target(g) = Target(h) /\ source' = source
        /\ g.doc = Provenance("skipped", h.file, source[Target(h)].accepted)
    BY <1>3, ReadPriorIs DEF Target, stored
  <2>2. g.doc.status = "skipped" /\ g.doc.file = h.file /\ g.doc.accepted = source[Target(h)].accepted
    BY <2>1 DEF Provenance
  <2> QED
    BY <2>1, <2>2 DEF AloneFits, HasData
<1>4. CASE KeepGood(a)
  <2>1. \/ g.pc \in {"check", "respond"}
        \/ /\ g.pc = "status" /\ Target(g) = Target(h) /\ source' = source /\ ~HasData(g.doc)
           /\ ~Good(source[Target(h)])
    BY <1>4, KeepGoodIs DEF Target, stored
  <2> QED
    BY <1>1, <2>1 DEF AloneFits
<1>5. CASE SaveSource(a)
  <2>1. /\ g.pc = "rows" /\ Target(g) = Target(h) /\ Target(h) \in Connectors /\ g.doc = h.doc
        /\ source' = [source EXCEPT ![Target(h)] = h.doc]
    BY <1>5, SaveSourceIs DEF Target
  <2>2. source'[Target(g)] = g.doc
    BY <2>1 DEF Types, DataTypes
  <2> QED
    BY <2>1, <2>2 DEF AloneFits
<1>6. CASE ReadMark(a)
  <2>1. \/ g.pc \in {"report", "review"}
        \/ g.pc = "mark" /\ g.doc = [source[Target(g)] EXCEPT !.reviewed = TRUE] /\ source' = source
    BY <1>6, ReadMarkIs DEF stored
  <2> QED
    BY <1>1, <2>1 DEF AloneFits
<1>7. CASE ClearSource(a)
  <2>1. /\ g.pc = "clear_rows" /\ Target(g) = Target(h) /\ Target(h) \in Connectors
        /\ source' = [source EXCEPT ![Target(h)] = NoSource]
    BY <1>7, ClearSourceIs DEF Target
  <2>2. source'[Target(g)] = NoSource
    BY <2>1 DEF Types, DataTypes
  <2> QED
    BY <2>1, <2>2 DEF AloneFits
<1>8. CASE SaveStatus(a) \/ SaveRows(a) \/ ReadLedger(a) \/ SaveCompany(a) \/ ReadExport(a) \/ Vacate(a)
           \/ SaveVendor(a) \/ ReadCompany(a) \/ ReadVendors(a) \/ ReadData(a) \/ ListSources(a) \/ SaveMark(a)
           \/ SaveReport(a) \/ ClearRows(a) \/ ClearReport(a) \/ ClearCompany(a) \/ Respond(a) \/ Fail(a)
  <2>1. g.pc \notin {"prior", "status", "rows", "mark", "clear_rows"}
    BY <1>8, SaveStatusIs, SaveRowsIs, ReadLedgerIs, SaveCompanyIs, ReadExportIs, VacateIs, SaveVendorIs,
       ReadCompanyIs, ReadVendorsIs, ReadDataIs, ListSourcesIs, SaveMarkIs, SaveReportIs, ClearRowsIs,
       ClearReportIs, ClearCompanyIs, OverIs, IdleIs
  <2> QED
    BY <1>1, <2>1
<1> QED
  BY <1>2, <1>3, <1>4, <1>5, <1>6, <1>7, <1>8 DEF Step

LEMMA DerivedOwn ==
    ASSUME Types, NEW a \in Callers, DerivedFits(a), Step(a) \/ Fail(a)
    PROVE  DerivedFits(a)'
<1> DEFINE h == call[a]
           g == call'[a]
<1> USE DEF Reviewing
<1>1. CASE Check(a) \/ ReadPrior(a) \/ KeepGood(a) \/ SaveStatus(a) \/ SaveSource(a) \/ SaveRows(a)
  <2>1. g.pc \in {"check", "prior", "good", "status", "save", "rows", "ledger"} \/ (g.pc = "respond" /\ g.kind = "import")
    BY <1>1, CheckIs, ReadPriorIs, KeepGoodIs, SaveStatusIs, SaveSourceIs, SaveRowsIs, HandsAre, CallType
       DEF KindFits
  <2> QED
    BY <2>1 DEF DerivedFits, Quiet
<1>2. CASE ReadLedger(a)
  <2>1. /\ g.pc \in {"company", "reconcile"} /\ (g.pc = "company" => g.rows = dataset[Ledger])
        /\ g.pc = "reconcile" => ~(Signal \subseteq dataset[Ledger])
        /\ dataset' = dataset
    BY <1>2, ReadLedgerIs DEF stored
  <2> QED
    BY <2>1 DEF DerivedFits, CompanyStands, VendorsStand
<1>3. CASE SaveCompany(a)
  <2>1. /\ h.pc = "company" /\ g.pc = "export" /\ g.kind = h.kind /\ g.met = h.met
        /\ company' = h.rows /\ dataset' = dataset
    BY <1>3, SaveCompanyIs
  <2> QED
    BY <2>1 DEF DerivedFits, CompanyStands, Quiet
<1>4. CASE ReadExport(a)
  <2>1. /\ h.pc = "export" /\ g.kind = h.kind /\ g.met = h.met /\ g.pc \in {"vacate", "reconcile"}
        /\ g.pc = "vacate" => g.rows = dataset[VendorExport]
        /\ g.pc = "reconcile" => dataset[VendorExport] = {}
        /\ dataset' = dataset /\ company' = company
    BY <1>4, ReadExportIs DEF stored
  <2> QED
    BY <2>1 DEF DerivedFits, CompanyStands, VendorsStand, Quiet
<1>5. CASE Vacate(a)
  <2>1. /\ h.pc = "vacate" /\ g.pc = "vendor" /\ g.kind = h.kind /\ g.met = h.met /\ g.rows = h.rows
        /\ vendors' = {} /\ dataset' = dataset /\ company' = company
    BY <1>5, VacateIs
  <2> QED
    BY <2>1 DEF DerivedFits, CompanyStands, Quiet
<1>6. CASE SaveVendor(a)
  <2>1. /\ h.pc = "vendor" /\ g.kind = h.kind /\ g.met = h.met
        /\ \/ g.pc = "vendor" /\ vendors' \cup g.rows = vendors \cup h.rows
           \/ g.pc = "reconcile" /\ vendors' = vendors \cup h.rows
           \/ g.pc = "respond" /\ h.kind = "reset"
        /\ dataset' = dataset /\ company' = company
    BY <1>6, SaveVendorIs
  <2> QED
    BY <2>1 DEF DerivedFits, CompanyStands, VendorsStand, Quiet
<1>7. CASE ReadCompany(a) \/ ReadVendors(a) \/ ReadData(a) \/ ListSources(a) \/ ReadMark(a) \/ SaveMark(a) \/ SaveReport(a)
  <2>1. /\ h.pc \in Reviewing /\ g.pc \in {"respond"} \cup Reviewing /\ g.kind = h.kind /\ g.met = h.met
        /\ dataset' = dataset /\ company' = company /\ vendors' = vendors
    <3>1. CASE ReadCompany(a) \/ ReadVendors(a) \/ ReadData(a)
      BY <3>1, ReadCompanyIs, ReadVendorsIs, ReadDataIs DEF stored
    <3>2. CASE ListSources(a) \/ ReadMark(a)
      BY <3>2, ListSourcesIs, ReadMarkIs DEF stored
    <3>3. CASE SaveMark(a) \/ SaveReport(a)
      BY <3>3, SaveMarkIs, SaveReportIs DEF stored
    <3> QED
      BY <1>7, <3>1, <3>2, <3>3
  <2> QED
    BY <2>1 DEF DerivedFits, CompanyStands, VendorsStand, Quiet
<1>8. CASE ClearSource(a) \/ ClearRows(a) \/ ClearReport(a) \/ ClearCompany(a)
  <2>1. g.kind = "reset"
    BY <1>8, ClearSourceIs, ClearRowsIs, ClearReportIs, ClearCompanyIs
  <2> QED
    BY <2>1 DEF DerivedFits, Quiet
<1>9. CASE Respond(a) \/ Fail(a)
  <2>1. g.kind = "none"
    BY <1>9, OverIs, IdleIs
  <2> QED
    BY <2>1 DEF DerivedFits, Quiet
<1> QED
  BY <1>1, <1>2, <1>3, <1>4, <1>5, <1>6, <1>7, <1>8, <1>9 DEF Step

LEMMA PendingOwn ==
    ASSUME Types, NEW a \in Callers, PendingFits(a), Step(a) \/ Fail(a)
    PROVE  PendingFits(a)'
<1> DEFINE h == call[a]
           g == call'[a]
<1> USE DEF ReviewedBut
<1>1. CASE Check(a) \/ ReadPrior(a) \/ KeepGood(a) \/ SaveStatus(a) \/ SaveSource(a) \/ SaveRows(a)
  <2>1. g.pc \in {"check", "prior", "good", "status", "save", "rows", "ledger"} \/ (g.pc = "respond" /\ g.kind = "import")
    BY <1>1, CheckIs, ReadPriorIs, KeepGoodIs, SaveStatusIs, SaveSourceIs, SaveRowsIs, HandsAre, CallType
       DEF KindFits
  <2> QED
    BY <2>1 DEF PendingFits, Quiet
<1>2. CASE \/ ReadLedger(a) \/ SaveCompany(a) \/ ReadExport(a) \/ Vacate(a) \/ SaveVendor(a) \/ ReadCompany(a)
           \/ ReadVendors(a)
  <2>1. \/ g.pc \in {"company", "reconcile", "export", "vacate", "vendor", "vendors", "data"}
        \/ g.pc = "respond" /\ g.kind = "reset"
    BY <1>2, ReadLedgerIs, SaveCompanyIs, ReadExportIs, VacateIs, SaveVendorIs, ReadCompanyIs, ReadVendorsIs
  <2> QED
    BY <2>1 DEF PendingFits, Quiet
<1>3. CASE ReadData(a)
  <2>1. g.pc = "data" \/ (g.pc = "list" /\ g.left = Connectors)
    BY <1>3, ReadDataIs
  <2> QED
    BY <2>1 DEF PendingFits
<1>4. CASE ListSources(a)
  <2>1. /\ h.pc = "list" /\ g.kind = h.kind /\ g.met = h.met /\ source' = source
    BY <1>4, ListSourcesIs DEF stored
  <2>2. PICK c \in h.left :
           /\ c \in Connectors
           /\ \A d \in Connectors : d \in g.seen.considered <=>
                                        d \in h.seen.considered \/ (d = c /\ HasData(source[d]))
           /\ \/ g.pc = "list" /\ g.left = h.left \ {c}
              \/ g.pc = "review" /\ h.left = {c} /\ g.left = g.seen.considered
              \/ g.pc = "report" /\ h.left = {c} /\ g.seen.considered = {}
    BY <1>4, ListSourcesIs
  <2>3. ASSUME Quiet(a), NEW d \in Connectors, HasData(source[d]), ~source[d].reviewed
        PROVE  d \in h.left \/ d \in h.seen.considered
    BY <2>1, <2>3 DEF PendingFits
  <2> QED
    BY <2>1, <2>2, <2>3 DEF PendingFits, Quiet
<1>5. CASE ReadMark(a)
  <2>1. /\ h.pc = "review" /\ g.kind = h.kind /\ g.met = h.met /\ source' = source
    BY <1>5, ReadMarkIs DEF stored
  <2>2. PICK c \in h.left :
           \/ g.pc = "mark" /\ g.left = h.left
           \/ /\ g.pc = IF h.left = {c} THEN "report" ELSE "review"
              /\ g.left = h.left \ {c} /\ source[c] = NoSource
    BY <1>5, ReadMarkIs
  <2> QED
    BY <2>1, <2>2, NoSourceIs DEF PendingFits, Quiet
<1>6. CASE SaveMark(a)
  <2>1. /\ h.pc = "mark" /\ g.kind = h.kind /\ g.met = h.met
        /\ Target(h) \in Connectors /\ h.doc.reviewed
        /\ g.pc = IF h.left = {Target(h)} THEN "report" ELSE "review"
        /\ g.left = h.left \ {Target(h)}
        /\ source' = [source EXCEPT ![Target(h)] = h.doc]
    BY <1>6, SaveMarkIs
  <2>2. \A d \in Connectors : source'[d] = IF d = Target(h) THEN h.doc ELSE source[d]
    BY <2>1 DEF Types, DataTypes
  <2> QED
    BY <2>1, <2>2 DEF PendingFits, Quiet
<1>7. CASE SaveReport(a)
  <2>1. h.pc = "report" /\ g.pc = "respond" /\ g.kind = h.kind /\ g.met = h.met /\ source' = source
    BY <1>7, SaveReportIs
  <2> QED
    BY <2>1 DEF PendingFits, Quiet
<1>8. CASE ClearSource(a) \/ ClearRows(a) \/ ClearReport(a) \/ ClearCompany(a)
  <2>1. g.kind = "reset"
    BY <1>8, ClearSourceIs, ClearRowsIs, ClearReportIs, ClearCompanyIs
  <2> QED
    BY <2>1 DEF PendingFits, Quiet
<1>9. CASE Respond(a) \/ Fail(a)
  <2>1. g.kind = "none"
    BY <1>9, OverIs, IdleIs
  <2> QED
    BY <2>1 DEF PendingFits, Quiet
<1> QED
  BY <1>1, <1>2, <1>3, <1>4, <1>5, <1>6, <1>7, <1>8, <1>9 DEF Step

LEMMA SeenOwn ==
    ASSUME Types, NEW a \in Callers, AloneFits(a), SeenFits(a), Step(a) \/ Fail(a)
    PROVE  SeenFits(a)'
<1> DEFINE h == call[a]
           g == call'[a]
<1>1. CASE Check(a) \/ ReadPrior(a) \/ KeepGood(a) \/ SaveStatus(a) \/ SaveSource(a) \/ SaveRows(a)
  <2>1. g.pc \in {"check", "prior", "good", "status", "save", "rows", "ledger"} \/ (g.pc = "respond" /\ g.kind = "import")
    BY <1>1, CheckIs, ReadPriorIs, KeepGoodIs, SaveStatusIs, SaveSourceIs, SaveRowsIs, HandsAre, CallType
       DEF KindFits
  <2> QED
    BY <2>1 DEF SeenFits, Quiet
<1>2. CASE ReadLedger(a) \/ SaveCompany(a) \/ ReadExport(a) \/ Vacate(a) \/ SaveVendor(a)
  <2>1. \/ g.pc \in {"company", "reconcile", "export", "vacate", "vendor"}
        \/ g.pc = "respond" /\ g.kind = "reset"
    BY <1>2, ReadLedgerIs, SaveCompanyIs, ReadExportIs, VacateIs, SaveVendorIs
  <2> QED
    BY <2>1 DEF SeenFits, Quiet
<1>3. CASE ReadCompany(a)
  <2>1. /\ g.pc = IF company = None THEN "data" ELSE "vendors"
        /\ g.queue = Order /\ g.seen.company = company
        /\ company' = company
    BY <1>3, ReadCompanyIs DEF stored
  <2>2. Connectors \ ToSet(g.queue) = {}
    BY <2>1, OrderIs
  <2> QED
    BY <2>1, <2>2 DEF SeenFits
<1>4. CASE ReadVendors(a)
  <2>1. /\ h.pc = "vendors" /\ g.pc = "data" /\ g.kind = h.kind /\ g.met = h.met
        /\ g.queue = h.queue /\ g.seen.company = h.seen.company /\ g.seen.vendors = vendors
        /\ company' = company /\ vendors' = vendors
    BY <1>4, ReadVendorsIs DEF stored
  <2>2. ToSet(Order) = Connectors
    BY OrderIs
  <2> QED
    BY <2>1, <2>2 DEF SeenFits, Quiet
<1>5. CASE ReadData(a)
  <2> DEFINE c == Target(h)
  <2>1. /\ h.pc = "data" /\ g.kind = h.kind /\ g.met = h.met /\ g.queue = Tail(h.queue)
        /\ g.pc = "data" \/ (g.pc = "list" /\ g.left = Connectors /\ Tail(h.queue) = <<>>)
        /\ g.seen.company = h.seen.company /\ g.seen.vendors = h.seen.vendors
        /\ g.seen.considered = {}
        /\ g.seen.data \in [Connectors -> SUBSET Rows]
        /\ \A d \in Connectors : g.seen.data[d] = IF d = c THEN dataset[d] ELSE h.seen.data[d]
        /\ ToSet(h.queue) = {c} \cup ToSet(Tail(h.queue))
        /\ dataset' = dataset /\ company' = company /\ vendors' = vendors
    BY <1>5, ReadDataIs DEF stored
  <2>2. ASSUME Quiet(a), h.met = {}
        PROVE  \A d \in Connectors \ ToSet(Tail(h.queue)) : g.seen.data[d] = dataset[d]
    BY <2>1, <2>2 DEF SeenFits
  <2>3. ASSUME Quiet(a), h.met = {}, Tail(h.queue) = <<>>
        PROVE  g.seen.data = dataset
    <3>1. ToSet(Tail(h.queue)) = {}
      BY <2>3 DEF ToSet
    <3>2. dataset \in [Connectors -> SUBSET Rows]
      BY DEF Types, DataTypes
    <3> QED
      BY <2>1, <2>2, <2>3, <3>1, <3>2
  <2> HIDE DEF c
  <2> QED
    BY <2>1, <2>2, <2>3 DEF SeenFits, Quiet
<1>6. CASE ListSources(a)
  <2>1. /\ h.pc = "list" /\ g.kind = h.kind /\ g.met = h.met
        /\ g.seen.company = h.seen.company /\ g.seen.vendors = h.seen.vendors
        /\ g.seen.data = h.seen.data
        /\ g.seen.considered \subseteq Connectors
        /\ source' = source /\ dataset' = dataset /\ company' = company /\ vendors' = vendors
    BY <1>6, ListSourcesIs DEF stored
  <2>2. PICK c \in h.left :
           /\ c \in Connectors
           /\ \A d \in Connectors : d \in g.seen.considered <=>
                                        d \in h.seen.considered \/ (d = c /\ HasData(source[d]))
           /\ \/ g.pc = "list" /\ g.left = h.left \ {c}
              \/ g.pc = "review" /\ h.left = {c} /\ g.left = g.seen.considered
              \/ g.pc = "report" /\ h.left = {c} /\ g.seen.considered = {}
    BY <1>6, ListSourcesIs
  <2>3. ASSUME Quiet(a), h.met = {}, NEW d \in Connectors
        PROVE  d \in g.seen.considered <=> (d \notin h.left \/ d = c) /\ HasData(source[d])
    BY <2>1, <2>2, <2>3 DEF SeenFits
  <2>4. ASSUME Quiet(a), h.met = {}, g.pc \in {"review", "report"}
        PROVE  g.seen.considered = {d \in Connectors : HasData(source[d])}
    BY <2>1, <2>2, <2>3, <2>4
  <2>5. ASSUME Quiet(a), h.met = {}
        PROVE  /\ h.seen.company = company /\ (company # None => h.seen.vendors = vendors)
               /\ h.seen.data = dataset
    BY <2>1, <2>5 DEF SeenFits
  <2>6. ASSUME Quiet(a), h.met = {}, g.pc = "list", NEW d \in Connectors
        PROVE  d \in g.seen.considered <=> d \notin g.left /\ HasData(source[d])
    BY <2>2, <2>3, <2>6
  <2> QED
    BY <2>1, <2>2, <2>4, <2>5, <2>6 DEF SeenFits, Quiet
<1>7. CASE ReadMark(a)
  <2>1. /\ h.pc = "review" /\ g.kind = h.kind /\ g.met = h.met /\ g.seen = h.seen
        /\ g.pc \in {"review", "mark", "report"}
        /\ source' = source /\ dataset' = dataset /\ company' = company /\ vendors' = vendors
    BY <1>7, ReadMarkIs DEF stored
  <2> QED
    BY <2>1 DEF SeenFits, Quiet
<1>8. CASE SaveMark(a)
  <2>1. /\ h.pc = "mark" /\ g.kind = h.kind /\ g.met = h.met /\ g.seen = h.seen
        /\ Target(h) \in Connectors /\ g.pc \in {"report", "review"}
        /\ source' = [source EXCEPT ![Target(h)] = h.doc]
        /\ dataset' = dataset /\ company' = company /\ vendors' = vendors
    BY <1>8, SaveMarkIs
  <2>2. ASSUME h.met = {}, NEW d \in Connectors
        PROVE  HasData(source'[d]) <=> HasData(source[d])
    <3>1. h.doc.status = source[Target(h)].status
      <4>1. h.doc = [source[Target(h)] EXCEPT !.reviewed = TRUE]
        BY <2>1, <2>2 DEF AloneFits
      <4>2. source[Target(h)] \in Sources
        BY <2>1 DEF Types, DataTypes
      <4> QED
        BY <4>1, <4>2 DEF Sources, NoSource
    <3>2. source'[d] = IF d = Target(h) THEN h.doc ELSE source[d]
      BY <2>1 DEF Types, DataTypes
    <3> QED
      BY <3>1, <3>2 DEF HasData
  <2>3. ASSUME Quiet(a), h.met = {}
        PROVE  {d \in Connectors : HasData(source'[d])} = h.seen.considered
    BY <2>1, <2>2, <2>3 DEF SeenFits
  <2>4. ASSUME Quiet(a), h.met = {}
        PROVE  /\ h.seen.company = company /\ (company # None => h.seen.vendors = vendors)
               /\ h.seen.data = dataset
    BY <2>1, <2>4 DEF SeenFits
  <2> QED
    BY <2>1, <2>3, <2>4 DEF SeenFits, Quiet, HasData
<1>9. CASE SaveReport(a)
  <2>1. /\ h.pc = "report" /\ g.pc = "respond" /\ g.kind = h.kind /\ g.met = h.met /\ g.seen = h.seen
        /\ report' = h.seen
        /\ source' = source /\ dataset' = dataset /\ company' = company /\ vendors' = vendors
    BY <1>9, SaveReportIs
  <2> QED
    BY <2>1 DEF SeenFits, Quiet
<1>10. CASE ClearSource(a) \/ ClearRows(a) \/ ClearReport(a) \/ ClearCompany(a)
  <2>1. g.kind = "reset"
    BY <1>10, ClearSourceIs, ClearRowsIs, ClearReportIs, ClearCompanyIs
  <2> QED
    BY <2>1 DEF SeenFits, Quiet
<1>11. CASE Respond(a) \/ Fail(a)
  <2>1. g.kind = "none"
    BY <1>11, OverIs, IdleIs
  <2> QED
    BY <2>1 DEF SeenFits, Quiet
<1> QED
  BY <1>1, <1>2, <1>3, <1>4, <1>5, <1>6, <1>7, <1>8, <1>9, <1>10, <1>11 DEF Step

(***************************************************************************)
(* The steps of others.                                                    *)
(***************************************************************************)
\* A reconciliation writes reviewed provenances, and its report.
LEMMA ReconcileWrites ==
    ASSUME Types, NEW a \in Callers, Step(a) \/ Fail(a), call[a].kind = "reconcile"
    PROVE  /\ UNCHANGED <<dataset, company, vendors>>
           /\ \A c \in Connectors : source'[c] = source[c] \/ source'[c].reviewed
<1> DEFINE h == call[a]
<1>1. h.pc \notin Importing \cup Deriving \cup Clearing
  BY HandsAre
<1>2. CASE \/ Check(a) \/ ReadPrior(a) \/ KeepGood(a) \/ ReadLedger(a) \/ ReadExport(a) \/ ReadCompany(a) \/ ReadVendors(a)
           \/ ReadData(a) \/ ListSources(a) \/ ReadMark(a) \/ SaveReport(a) \/ Respond(a) \/ Fail(a)
  BY <1>2, CheckIs, ReadPriorIs, KeepGoodIs, ReadLedgerIs, ReadExportIs, ReadCompanyIs, ReadVendorsIs,
     ReadDataIs, ListSourcesIs, ReadMarkIs, SaveReportIs, OverIs DEF stored
<1>3. CASE SaveMark(a)
  <2>1. /\ source' = [source EXCEPT ![Target(h)] = h.doc] /\ h.doc.reviewed
        /\ UNCHANGED <<dataset, company, vendors>>
    BY <1>3, SaveMarkIs
  <2> QED
    BY <2>1 DEF Types, DataTypes
<1>4. CASE \/ SaveStatus(a) \/ SaveSource(a) \/ SaveRows(a) \/ SaveCompany(a) \/ Vacate(a) \/ SaveVendor(a)
           \/ ClearSource(a) \/ ClearRows(a) \/ ClearReport(a) \/ ClearCompany(a)
  <2>1. h.pc \in Importing \cup Deriving \cup Clearing
    BY <1>4, SaveStatusIs, SaveSourceIs, SaveRowsIs, SaveCompanyIs, VacateIs, SaveVendorIs, ClearSourceIs,
       ClearRowsIs, ClearReportIs, ClearCompanyIs DEF Importing, Deriving, Clearing
  <2> QED
    BY <1>1, <2>1
<1> QED
  BY <1>2, <1>3, <1>4 DEF Step

\* What another call does beside a call that is quiet leaves what it relies on.
LEMMA FitsBeside ==
    ASSUME Types, Companions, NEW a \in Callers, NEW b \in Callers, a # b, Fits(a),
           Step(b) \/ Fail(b)
    PROVE  Fits(a)'
<1>1. call'[a] = call[a] /\ b \in Running
  BY StepRuns
<1>2. a \in Running => call[b].kind \in call[a].met
  BY <1>1 DEF Companions
<1>3. CASE call[a].pc = "idle"
  <2>1. call[a].kind = "none"
    BY <1>3, RunningKinds DEF Running
  <2> QED
    BY <1>1, <1>3, <2>1 DEF Fits, AloneFits, DerivedFits, PendingFits, SeenFits, Quiet
<1>4. CASE call[a].pc # "idle"
  <2>1. call[a].met # {}
    BY <1>2, <1>4 DEF Running
  <2>2. AloneFits(a)' /\ SeenFits(a)'
    BY <1>1, <2>1 DEF AloneFits, SeenFits
  <2>3. CASE Quiet(a)
    <3>1. call[b].kind = "reconcile"
      BY <1>2, <1>4, <2>3 DEF Quiet, Running
    <3>2. /\ UNCHANGED <<dataset, company, vendors>>
          /\ \A c \in Connectors : source'[c] = source[c] \/ source'[c].reviewed
      BY <3>1, ReconcileWrites
    <3>3. DerivedFits(a)'
      BY <1>1, <3>2 DEF Fits, DerivedFits, Quiet, CompanyStands, VendorsStand
    <3>4. \A S \in SUBSET Connectors : ReviewedBut(S) => ReviewedBut(S)'
      BY <3>2 DEF ReviewedBut
    <3>5. PendingFits(a)'
      BY <1>1, <3>2 DEF Fits, PendingFits, Quiet, ReviewedBut
    <3> QED
      BY <2>2, <3>3, <3>5 DEF Fits
  <2>4. CASE ~Quiet(a)
    BY <1>1, <2>2, <2>4 DEF Fits, DerivedFits, PendingFits, Quiet
  <2> QED
    BY <2>3, <2>4
<1> QED
  BY <1>3, <1>4

LEMMA FitsArrive ==
    ASSUME Types, Companions, NEW a \in Callers, NEW b \in Callers, Fits(a), Arrive(b)
    PROVE  Fits(a)'
<1>1. UNCHANGED stored
  BY ArriveMeets
<1>2. CASE a = b
  <2>1. /\ call'[a].pc \in {"check", "ledger", "reconcile", "clear"}
        /\ call'[a].pc = "reconcile" => call'[a].kind = "reconcile"
    BY <1>2, ArriveMeets DEF Arriving
  <2> QED
    BY <2>1 DEF Fits, AloneFits, DerivedFits, PendingFits, SeenFits, Quiet, Reviewing
<1>3. CASE a # b /\ a \notin Running
  <2>1. call'[a] = call[a]
    BY <1>3, ArriveMeets
  <2> QED
    BY <1>1, <2>1 DEF stored, Fits, AloneFits, DerivedFits, PendingFits, SeenFits, Quiet, ReviewedBut, CompanyStands, VendorsStand
<1>4. CASE a # b /\ a \in Running
  <2> DEFINE kinds == call[a].met \cup {call'[b].kind}
  <2>1. call'[a] = [call[a] EXCEPT !.met = kinds] /\ call[a] \in CallRecords
    BY <1>4, ArriveMeets, CallType
  <2>2. LET h == call[a]
            g == call'[a]
        IN  /\ g.pc = h.pc /\ g.kind = h.kind /\ g.queue = h.queue /\ g.file = h.file /\ g.doc = h.doc
            /\ g.rows = h.rows /\ g.left = h.left /\ g.seen = h.seen /\ g.met # {} /\ h.met \subseteq g.met
    BY <2>1 DEF CallRecords
  <2> HIDE DEF kinds
  <2>3. AloneFits(a)' /\ SeenFits(a)'
    BY <2>2 DEF AloneFits, SeenFits
  <2>4. Quiet(a)' => Quiet(a)
    BY <2>2 DEF Quiet
  <2>5. DerivedFits(a)'
    BY <1>1, <2>2, <2>4 DEF Fits, DerivedFits, CompanyStands, VendorsStand, stored
  <2>6. PendingFits(a)'
    BY <1>1, <2>2, <2>4 DEF Fits, PendingFits, ReviewedBut, stored
  <2> QED
    BY <2>3, <2>5, <2>6 DEF Fits
<1> QED
  BY <1>2, <1>3, <1>4

LEMMA FitsNext ==
    ASSUME Types, Companions, NEW a \in Callers, Fits(a), [Next]_vars
    PROVE  Fits(a)'
<1>1. CASE UNCHANGED vars
  BY <1>1 DEF vars, Fits, AloneFits, DerivedFits, PendingFits, SeenFits, Quiet, ReviewedBut, CompanyStands, VendorsStand
<1>2. ASSUME NEW b \in Callers, Arrive(b) PROVE Fits(a)'
  BY <1>2, FitsArrive
<1>3. ASSUME NEW b \in Callers, Step(b) \/ Fail(b), a # b PROVE Fits(a)'
  BY <1>3, FitsBeside
<1>4. ASSUME Step(a) \/ Fail(a) PROVE Fits(a)'
  BY <1>4, AloneOwn, DerivedOwn, PendingOwn, SeenOwn DEF Fits
<1> QED
  BY <1>1, <1>2, <1>3, <1>4 DEF Next

\* As long as calls are orderly, the one that moves runs alone.
LEMMA OneRuns ==
    ASSUME Types, Companions, orderly, NEW a \in Running
    PROVE  call[a].met = {} /\ \A b \in Callers \ {a} : b \notin Running
  BY RunningKinds DEF Companions, Running

(***************************************************************************)
(* What is kept.                                                           *)
(***************************************************************************)
LEMMA KeptNext ==
    ASSUME Types, Companions, \A a \in Callers : AloneFits(a), KeptOrBeingWritten, [Next]_vars
    PROVE  KeptOrBeingWritten'
<1>1. CASE UNCHANGED vars
  BY <1>1 DEF vars, KeptOrBeingWritten, Kept, At
<1>2. ASSUME NEW a \in Callers, Arrive(a) PROVE KeptOrBeingWritten'
  <2> SUFFICES ASSUME orderly', NEW c \in Connectors PROVE Kept(c)'
    BY DEF KeptOrBeingWritten
  <2>1. orderly /\ Running = {} /\ UNCHANGED stored
    BY <1>2, ArriveMeets
  <2>2. Kept(c)
    BY <2>1 DEF KeptOrBeingWritten, At, Running
  <2> QED
    BY <2>1, <2>2 DEF stored, Kept
<1>3. ASSUME NEW a \in Callers, Step(a) \/ Fail(a) PROVE KeptOrBeingWritten'
  <2> DEFINE h == call[a]
             g == call'[a]
             t == Target(h)
  <2> SUFFICES ASSUME orderly' PROVE KeptOrBeingWritten'
    BY DEF KeptOrBeingWritten
  <2>1. orderly /\ Step(a) /\ a \in Running
    BY <1>3, StepRuns
  <2>2. h.met = {} /\ \A b \in Callers \ {a} : b \notin Running
    BY <2>1, OneRuns
  <2>3. \A c \in Connectors : Kept(c) \/ (h.pc = "rows" /\ t = c)
    BY <2>1, <2>2 DEF KeptOrBeingWritten, At, Running
  <2>4. AloneFits(a) /\ HandsFit(h)
    BY CallType
  <2>5. source \in [Connectors -> Sources] /\ dataset \in [Connectors -> SUBSET Rows]
    BY DEF Types, DataTypes
  <2> HIDE DEF t, h
  <2>6. CASE \/ Check(a) \/ ReadPrior(a) \/ KeepGood(a) \/ ReadLedger(a) \/ SaveCompany(a) \/ ReadExport(a) \/ Vacate(a)
             \/ SaveVendor(a) \/ ReadCompany(a) \/ ReadVendors(a) \/ ReadData(a) \/ ListSources(a) \/ ReadMark(a)
             \/ SaveReport(a) \/ ClearReport(a) \/ ClearCompany(a) \/ Respond(a)
    <3>1. h.pc # "rows"
      BY <2>6 DEF h, Check, ReadPrior, KeepGood, ReadLedger, SaveCompany, ReadExport, Vacate, SaveVendor, ReadCompany,
         ReadVendors, ReadData, ListSources, ReadMark, SaveReport, ClearReport, ClearCompany, Respond, At
    <3>2. source' = source /\ dataset' = dataset
      BY <2>6, CheckIs, ReadPriorIs, KeepGoodIs, ReadLedgerIs, SaveCompanyIs, ReadExportIs, VacateIs, SaveVendorIs,
         ReadCompanyIs, ReadVendorsIs, ReadDataIs, ListSourcesIs, ReadMarkIs, SaveReportIs, ClearReportIs,
         ClearCompanyIs, OverIs DEF stored
    <3> QED
      BY <2>3, <3>1, <3>2 DEF KeptOrBeingWritten, Kept
  <2>7. CASE SaveStatus(a)
    <3>1. /\ h.pc = "status" /\ t \in Connectors /\ source' = [source EXCEPT ![t] = h.doc] /\ dataset' = dataset
      BY <2>7, SaveStatusIs DEF h, t
    <3>2. HasData(h.doc) => /\ HasData(source[t]) /\ source[t].file = h.doc.file
                            /\ source[t].accepted = h.doc.accepted
      BY <2>2, <2>4, <3>1 DEF AloneFits, h, t
    <3> QED
      BY <2>3, <2>5, <3>1, <3>2 DEF KeptOrBeingWritten, Kept
  <2>8. CASE SaveSource(a)
    <3>1. /\ h.pc = "save" /\ g.pc = "rows" /\ t \in Connectors /\ Target(g) = t
          /\ source' = [source EXCEPT ![t] = h.doc] /\ dataset' = dataset
      BY <2>8, SaveSourceIs DEF h, t, Target
    <3> QED
      BY <2>3, <2>5, <3>1 DEF KeptOrBeingWritten, Kept, At
  <2>9. CASE SaveRows(a)
    <3>1. /\ h.pc = "rows" /\ t \in Connectors /\ source' = source /\ dataset' = [dataset EXCEPT ![t] = h.rows]
      BY <2>9, SaveRowsIs DEF h, t
    <3>2. source[t] = h.doc /\ ParsedAs(h)
      BY <2>2, <2>4, <3>1 DEF AloneFits, HandsFit, h, t
    <3>3. /\ source[t].file = h.file /\ source[t].accepted = Cardinality(h.rows)
          /\ h.rows = Outcome[t][h.file].rows
      BY <3>2 DEF ParsedAs, Provenance, t
    <3> QED
      BY <2>3, <2>5, <3>1, <3>3 DEF KeptOrBeingWritten, Kept
  <2>10. CASE SaveMark(a)
    <3>1. /\ h.pc = "mark" /\ t \in Connectors /\ source' = [source EXCEPT ![t] = h.doc] /\ dataset' = dataset
      BY <2>10, SaveMarkIs DEF h, t
    <3>2. h.doc = [source[t] EXCEPT !.reviewed = TRUE]
      BY <2>2, <2>4, <3>1 DEF AloneFits, h, t
    <3>3. h.doc.status = source[t].status /\ h.doc.file = source[t].file /\ h.doc.accepted = source[t].accepted
      BY <2>5, <3>1, <3>2 DEF Sources, NoSource
    <3> QED
      BY <2>3, <2>5, <3>1, <3>3 DEF KeptOrBeingWritten, Kept, HasData
  <2>11. CASE ClearSource(a)
    <3>1. /\ h.pc = "clear" /\ t \in Connectors /\ source' = [source EXCEPT ![t] = NoSource] /\ dataset' = dataset
      BY <2>11, ClearSourceIs DEF h, t
    <3> QED
      BY <2>3, <2>5, <3>1, NoSourceIs DEF KeptOrBeingWritten, Kept
  <2>12. CASE ClearRows(a)
    <3>1. /\ h.pc = "clear_rows" /\ t \in Connectors /\ source' = source /\ dataset' = [dataset EXCEPT ![t] = {}]
      BY <2>12, ClearRowsIs DEF h, t
    <3>2. ~HasData(source[t])
      BY <2>2, <2>4, <3>1, NoSourceIs DEF AloneFits, h, t
    <3> QED
      BY <2>3, <2>5, <3>1, <3>2 DEF KeptOrBeingWritten, Kept
  <2> QED
    BY <2>1, <2>6, <2>7, <2>8, <2>9, <2>10, <2>11, <2>12 DEF Step
<1> QED
  BY <1>1, <1>2, <1>3 DEF Next

(***************************************************************************)
(* The theorems.                                                           *)
(***************************************************************************)
LEMMA IInvInit == Init => IInv
<1> SUFFICES ASSUME Init PROVE IInv
  OBVIOUS
<1>1. Types
  BY TypesInit
<1>2. \A a \in Callers : call[a] = Idle
  BY DEF Init
<1>3. Companions
  BY <1>2, IdleIs DEF Companions, Running
<1>4. \A c \in Connectors : Kept(c)
  BY NoSourceIs DEF Init, Kept
<1>5. ASSUME NEW a \in Callers PROVE Fits(a)
  BY <1>2, IdleIs DEF Fits, AloneFits, DerivedFits, PendingFits, SeenFits, Quiet
<1> QED
  BY <1>1, <1>3, <1>4, <1>5 DEF IInv, KeptOrBeingWritten

LEMMA IInvNext == IInv /\ [Next]_vars => IInv'
  BY TypesNext, CompanionsNext, KeptNext, FitsNext DEF IInv, Fits

LEMMA Invariance == Spec => []IInv
  BY IInvInit, IInvNext, PTL DEF Spec

\* Documents and calls have their types.
THEOREM TypeCorrect == Spec => []TypeOK
<1>1. IInv => TypeOK
  BY TypesAreTypeOK DEF IInv
<1> QED
  BY <1>1, Invariance, PTL

\* After calls one at a time that all ended, of any number and on any files, the
\* checksum that makes the next import skip a file stands beside exactly the rows
\* of that file (import_uploaded_file, import_connector, save_source).
THEOREM SkipsStaySafe == Spec => []SkipsAreSafe
<1>1. IInv => SkipsAreSafe
  <2> SUFFICES ASSUME IInv, orderly, Running = {}, NEW c \in Connectors
               PROVE  Kept(c)
    BY DEF SkipsAreSafe, Kept
  <2> QED
    BY DEF IInv, KeptOrBeingWritten, At, Running
<1> QED
  BY <1>1, Invariance, PTL

\* An import, derivation or reconciliation that answers has left company, vendors,
\* reviews and report in step with the rows, whatever failed before it and however
\* many reconciliations ran beside it (apply_company_derivation, run_reconciliation).
THEOREM ImportsStayComplete == Spec => []ImportsAreComplete
<1>1. IInv => ImportsAreComplete
  <2> SUFFICES ASSUME IInv PROVE ImportsAreComplete
    OBVIOUS
  <2>1. ASSUME NEW a \in Callers, NEW kinds \in SUBSET {"upload", "derive", "reconcile"}, Undisturbed(a, kinds)
        PROVE  Quiet(a) /\ call[a].pc = "respond" /\ call[a].kind \in kinds
    BY <2>1 DEF Undisturbed, At, Quiet
  <2>2. DerivedFollowsImports
    BY <2>1 DEF DerivedFollowsImports, IInv, Fits, DerivedFits, CompanyStands, VendorsStand
  <2>3. NothingLeftPending
    BY <2>1 DEF NothingLeftPending, IInv, Fits, PendingFits, ReviewedBut
  <2>4. ReportIsCurrent
    <3> SUFFICES ASSUME NEW a \in Callers, Undisturbed(a, {"upload", "derive", "reconcile"}), call[a].met = {}
                 PROVE  /\ report # None
                        /\ report.data = dataset
                        /\ report.company = company
                        /\ company # None => report.vendors = vendors
                        /\ report.considered = {c \in Connectors : HasData(source[c])}
      BY DEF ReportIsCurrent
    <3>1. Quiet(a) /\ call[a].pc = "respond"
      BY <2>1
    <3>2. call[a].seen \in Reports
      BY CallType DEF IInv, CallRecords
    <3> QED
      BY <3>1, <3>2, NoneAssumption DEF IInv, Fits, SeenFits
  <2> QED
    BY <2>2, <2>3, <2>4 DEF ImportsAreComplete
<1> QED
  BY <1>1, Invariance, PTL

\* On the command line a failed attempt never takes a good import's place (_fail):
\* only uploads, resets, parsed files and overlapping calls can.
THEOREM LastGoodStays == Spec => LastGoodSurvives
<1> DEFINE Survives(c) ==
             Good(source[c]) /\ ~Good(source'[c]) =>
                \E a \in Callers : /\ call'[a] # call[a]
                                   /\ \/ call[a].kind \in {"upload", "reset"}
                                      \/ call[a].pc = "save"
                                      \/ call[a].met # {}
<1>1. IInv /\ [Next]_vars => [\A c \in Connectors : Survives(c)]_vars
  <2> SUFFICES ASSUME IInv, Next, NEW c \in Connectors, Good(source[c]), ~Good(source'[c])
               PROVE  \E a \in Callers : /\ call'[a] # call[a]
                                         /\ \/ call[a].kind \in {"upload", "reset"}
                                            \/ call[a].pc = "save"
                                            \/ call[a].met # {}
    OBVIOUS
  <2> USE DEF IInv
  <2>1. PICK a \in Callers : Step(a)
    <3>1. ASSUME NEW a \in Callers, Arrive(a) \/ Fail(a) PROVE source' = source
      BY <3>1, ArriveMeets, OverIs DEF stored
    <3> QED
      BY <3>1 DEF Next
  <2> DEFINE h == call[a]
             t == Target(h)
  <2>2. source \in [Connectors -> Sources] /\ AloneFits(a) /\ HandsFit(h) /\ KindFits(h)
    BY CallType DEF Types, DataTypes, Fits
  <2> SUFFICES call'[a] # h /\ (h.kind \in {"upload", "reset"} \/ h.pc = "save" \/ h.met # {})
    OBVIOUS
  <2> HIDE DEF h, t
  <2>3. CASE SaveStatus(a)
    <3>1. h.pc = "status" /\ call'[a].pc # "status" /\ t \in Connectors /\ source' = [source EXCEPT ![t] = h.doc]
      BY <2>3, SaveStatusIs DEF h, t
    <3>2. c = t
      BY <2>2, <3>1
    <3>3. ~Good(h.doc)
      BY <2>2, <3>1, <3>2
    <3>4. CASE h.met = {} /\ h.kind = "import"
      BY <2>2, <3>1, <3>2, <3>3, <3>4 DEF AloneFits, Good, h, t
    <3>5. h.kind \in {"upload", "import"}
      BY <2>2, <3>1 DEF KindFits, Importing
    <3> QED
      BY <3>1, <3>4, <3>5
  <2>4. CASE SaveSource(a)
    BY <2>4, SaveSourceIs DEF h
  <2>5. CASE SaveMark(a)
    <3>1. h.pc = "mark" /\ call'[a].pc # "mark" /\ t \in Connectors /\ source' = [source EXCEPT ![t] = h.doc]
      BY <2>5, SaveMarkIs DEF h, t
    <3>2. c = t /\ ~Good(h.doc)
      BY <2>2, <3>1
    <3>3. CASE h.met = {}
      <4>1. h.doc = [source[t] EXCEPT !.reviewed = TRUE]
        BY <2>2, <3>1, <3>3 DEF AloneFits, h, t
      <4>2. h.doc.status = source[t].status /\ h.doc.accepted = source[t].accepted
        BY <2>2, <3>1, <4>1 DEF Sources, NoSource
      <4> QED
        BY <3>2, <4>2 DEF Good, HasData
    <3> QED
      BY <3>1, <3>3
  <2>6. CASE ClearSource(a)
    BY <2>6, ClearSourceIs DEF h
  <2>7. CASE ~(SaveStatus(a) \/ SaveSource(a) \/ SaveMark(a) \/ ClearSource(a))
    <3>1. source' = source
      BY <2>1, <2>7, CheckIs, ReadPriorIs, KeepGoodIs, SaveRowsIs, ReadLedgerIs, SaveCompanyIs, ReadExportIs, VacateIs,
         SaveVendorIs, ReadCompanyIs, ReadVendorsIs, ReadDataIs, ListSourcesIs, ReadMarkIs, SaveReportIs,
         ClearRowsIs, ClearReportIs, ClearCompanyIs, OverIs DEF Step, stored
    <3> QED
      BY <3>1
  <2> QED
    BY <2>3, <2>4, <2>5, <2>6, <2>7
<1> QED
  BY <1>1, Invariance, PTL DEF Spec, LastGoodSurvives
=============================================================================
