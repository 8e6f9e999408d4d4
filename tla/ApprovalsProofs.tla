-------------------------- MODULE ApprovalsProofs --------------------------
(***************************************************************************)
(* Theorems about Approvals, for any number of threads and requests, any   *)
(* length of route and any failures.                                       *)
(*                                                                         *)
(* A document is only ever written from some handler's copy of it, and a   *)
(* copy is an older state of the same document.  So what is true of the    *)
(* stored documents is inductive once it is asked of every copy as well:   *)
(* the handlers' buffers and the pages their listings returned.            *)
(*                                                                         *)
(* The theorems of the second half are about a service that runs one       *)
(* handler at a time (Alone), where a copy is the stored document itself.  *)
(***************************************************************************)
EXTENDS Approvals, FiniteSetTheorems, TLAPS

Actions == DecisionActions \cup CreationActions \cup SystemActions

(***************************************************************************)
(* Operations on a copy.                                                   *)
(***************************************************************************)

\* Recording an entry yields a document.
LEMMA LoggedType ==
    ASSUME NEW doc \in Documents, NEW s \in Statuses,
           NEW action \in Actions, NEW by \in ActorTypes
    PROVE  /\ Logged(doc, s, action, by) \in Documents
           /\ Logged(doc, s, action, by).status = s
           /\ Logged(doc, s, action, by).steps = doc.steps
           /\ Logged(doc, s, action, by).replacedBy = doc.replacedBy
           /\ Logged(doc, s, action, by).log = Append(doc.log, Entry(action, by, s))
<1>1. Entry(action, by, s) \in Entries
  BY DEF Entry, Entries, Actions
<1>2. Append(doc.log, Entry(action, by, s)) \in Seq(Entries)
  BY <1>1 DEF Documents
<1> QED
  BY <1>2 DEF Logged, Documents

\* A document with its log extended by one entry has one more entry.
LEMMA EntriesOfAppend ==
    ASSUME NEW doc \in Documents, NEW new \in Documents, NEW e \in Entries,
           new.log = Append(doc.log, e)
    PROVE  /\ EntriesOf(new) = EntriesOf(doc) \cup {e}
           /\ Len(new.log) = Len(doc.log) + 1
           /\ LastEntry(new) = e
           /\ \A i \in 1..Len(doc.log) : new.log[i] = doc.log[i]
<1>1. doc.log \in Seq(Entries)
  BY DEF Documents
<1>2. /\ Len(new.log) = Len(doc.log) + 1
      /\ new.log[Len(doc.log) + 1] = e
      /\ \A i \in 1..Len(doc.log) : new.log[i] = doc.log[i]
  BY <1>1
<1>3. Len(doc.log) \in Nat
  BY <1>1
<1> QED
  BY <1>2, <1>3 DEF EntriesOf, LastEntry

LEMMA StampedType ==
    ASSUME NEW doc \in Documents, NEW d \in Decisions
    PROVE  Stamped(doc, d) \in [Slots -> Steps]
<1>1. StatusOf(d.action) \in Statuses
  BY DEF Decisions, DecisionActions, StatusOf, Statuses
<1>2. [status |-> StatusOf(d.action), by |-> d.by] \in Steps
  BY <1>1 DEF Decisions, Steps
<1>3. \A i \in Slots : doc.steps[i] \in Steps
  BY DEF Documents
<1> QED
  BY <1>2, <1>3 DEF Stamped

LEMMA OverallType ==
    ASSUME NEW doc \in Documents, doc.status # "absent", NEW d \in Decisions
    PROVE  Overall(doc, d) \in Statuses
<1>1. StatusOf(d.action) \in Statuses
  BY DEF Decisions, DecisionActions, StatusOf, Statuses
<1>2. doc.status \in Statuses
  BY DEF Documents
<1>3. \A steps : Recomputed(doc.status, steps) \in Statuses
  BY <1>2 DEF Recomputed, Statuses
<1> QED
  BY <1>1, <1>3 DEF Overall

LEMMA DecidedType ==
    ASSUME NEW doc \in Documents, doc.status # "absent", NEW d \in Decisions
    PROVE  /\ Decided(doc, d) \in Documents
           /\ Decided(doc, d).status = Overall(doc, d)
           /\ Decided(doc, d).steps = Stamped(doc, d)
           /\ Decided(doc, d).replacedBy = doc.replacedBy
           /\ Decided(doc, d).log =
                 Append(doc.log, Entry(d.action, d.by, Overall(doc, d)))
<1>1. Overall(doc, d) \in Statuses
  BY OverallType
<1>2. d.action \in Actions /\ d.by \in ActorTypes
  BY DEF Decisions, Actions
<1> DEFINE l == Logged(doc, Overall(doc, d), d.action, d.by)
<1>3. /\ l \in Documents
      /\ l.status = Overall(doc, d)
      /\ l.replacedBy = doc.replacedBy
      /\ l.log = Append(doc.log, Entry(d.action, d.by, Overall(doc, d)))
  BY <1>1, <1>2, LoggedType
<1>4. Stamped(doc, d) \in [Slots -> Steps]
  BY StampedType
<1>5. Decided(doc, d) = [l EXCEPT !.steps = Stamped(doc, d)]
  BY DEF Decided
<1> HIDE DEF l
<1> QED
  BY <1>3, <1>4, <1>5 DEF Documents

LEMMA ReplacedType ==
    ASSUME NEW doc \in Documents, NEW new \in Requests
    PROVE  /\ Replaced(doc, new) \in Documents
           /\ Replaced(doc, new).status = "superseded"
           /\ Replaced(doc, new).steps = doc.steps
           /\ Replaced(doc, new).log =
                 Append(doc.log, Entry("replaced", "system", "superseded"))
<1>1. "superseded" \in Statuses /\ "replaced" \in Actions /\ "system" \in ActorTypes
  BY DEF Statuses, Actions, SystemActions, ActorTypes
<1> DEFINE l == Logged(doc, "superseded", "replaced", "system")
<1>2. /\ l \in Documents /\ l.status = "superseded" /\ l.steps = doc.steps
      /\ l.log = Append(doc.log, Entry("replaced", "system", "superseded"))
  BY <1>1, LoggedType
<1>3. Replaced(doc, new) = [l EXCEPT !.replacedBy = new]
  BY DEF Replaced
<1> HIDE DEF l
<1> QED
  BY <1>2, <1>3 DEF Documents

LEMMA ExpiredType ==
    ASSUME NEW doc \in Documents
    PROVE  /\ Expired(doc) \in Documents
           /\ Expired(doc).status = "expired"
           /\ Expired(doc).steps = doc.steps
           /\ Expired(doc).log =
                 Append(doc.log, Entry("lapsed", "system", "expired"))
<1>1. "expired" \in Statuses /\ "lapsed" \in Actions /\ "system" \in ActorTypes
  BY DEF Statuses, Actions, SystemActions, ActorTypes
<1> QED
  BY <1>1, LoggedType DEF Expired

LEMMA WithExceptionType ==
    ASSUME NEW doc \in Documents, doc.status # "absent", NEW by \in ActorTypes
    PROVE  /\ WithException(doc, by) \in Documents
           /\ WithException(doc, by).status = doc.status
           /\ WithException(doc, by).steps = doc.steps
           /\ WithException(doc, by).log =
                 Append(doc.log, Entry("exception_requested", by, doc.status))
<1>1. doc.status \in Statuses /\ "exception_requested" \in Actions
  BY DEF Documents, Actions, SystemActions
<1> QED
  BY <1>1, LoggedType DEF WithException

LEMMA AbsentType == Absent \in Documents
<1>1. NoStep \in Steps
  BY DEF NoStep, Steps
<1>2. [i \in Slots |-> NoStep] \in [Slots -> Steps]
  BY <1>1
<1>3. << >> \in Seq(Entries)
  OBVIOUS
<1> QED
  BY <1>2, <1>3 DEF Absent, Documents

LEMMA NewDocumentType ==
    ASSUME NEW n \in 0..MaxSteps, NEW v \in Verdicts, NEW b \in BOOLEAN
    PROVE  NewDocument(n, v, b) \in Documents
<1>1. InitialStatus(n, v, b) \in Statuses
  BY DEF InitialStatus, Statuses, Verdicts
<1>2. InitialLog(n, v, b) \in Seq(Entries)
  <2>1. \A a \in CreationActions, s \in Statuses : Entry(a, "system", s) \in Entries
    BY DEF Entry, Entries, ActorTypes
  <2>2. /\ {"recommended", "routed", "auto_cleared"} = CreationActions
        /\ "pending_approval" \in Statuses
    BY DEF CreationActions, Statuses
  <2> DEFINE e1 == Entry("recommended", "system", InitialStatus(n, v, b))
             e2 == Entry("recommended", "system", "pending_approval")
             e3 == Entry(IF n > 0 \/ b THEN "routed" ELSE "auto_cleared",
                         "system", InitialStatus(n, v, b))
  <2>3. e1 \in Entries /\ e2 \in Entries /\ e3 \in Entries
    BY <1>1, <2>1, <2>2
  <2>4. InitialLog(n, v, b) = IF v \in {"REJECT", "DEFER"} THEN <<e1>> ELSE <<e2, e3>>
    BY DEF InitialLog
  <2> HIDE DEF e1, e2, e3
  <2> QED
    BY <2>3, <2>4
<1>3. [i \in Slots |-> IF i <= n THEN OpenStep ELSE NoStep] \in [Slots -> Steps]
  <2>1. OpenStep \in Steps /\ NoStep \in Steps
    BY DEF OpenStep, NoStep, Steps, Statuses
  <2> QED
    BY <2>1
<1> QED
  BY <1>1, <1>2, <1>3 DEF NewDocument, Documents

(***************************************************************************)
(* Type correctness.                                                       *)
(***************************************************************************)

\* What the program counter of a handler says about the rest of it.
HandlerInv(h) ==
    /\ h.pc \in {"expire", "lapse", "act", "replace", "audit"} =>
          h.rid \in Requests /\ h.buf.status # "absent"
    /\ h.pc \in {"expire", "lapse", "replace", "audit"} => Len(h.buf.log) > 0
    /\ h.op = "create" => h.new \in Requests
    /\ h.pc \in {"supersede", "replace", "created"} => h.op = "create"
    /\ h.pc = "created" => h.buf.status # "absent"

TypeInv == TypeOK /\ \A t \in Threads : HandlerInv(handler[t])

LEMMA IdleType == Idle \in Handlers /\ HandlerInv(Idle)
<1>1. EmptyPage \in [Requests -> Documents]
  BY AbsentType DEF EmptyPage
<1>2. Idle \in Handlers
  BY <1>1, AbsentType DEF Idle, Handlers
<1> QED
  BY <1>2 DEF Idle, HandlerInv

\* Every operation leaves a document that is present and has a last entry.
LEMMA OperationLog ==
    ASSUME NEW doc \in Documents
    PROVE  /\ Expired(doc) \in Documents
           /\ Expired(doc).status # "absent"
           /\ Len(Expired(doc).log) > 0
           /\ \A new \in Requests :
                 /\ Replaced(doc, new) \in Documents
                 /\ Replaced(doc, new).status # "absent"
                 /\ Len(Replaced(doc, new).log) > 0
           /\ doc.status # "absent" =>
                 /\ \A by \in ActorTypes :
                       /\ WithException(doc, by) \in Documents
                       /\ WithException(doc, by).status # "absent"
                       /\ Len(WithException(doc, by).log) > 0
                 /\ \A d \in Decisions :
                       /\ Decided(doc, d) \in Documents
                       /\ Decided(doc, d).status # "absent"
                       /\ Len(Decided(doc, d).log) > 0
<1>1. \A e : Len(Append(doc.log, e)) > 0
  <2>1. doc.log \in Seq(Entries)
    BY DEF Documents
  <2> QED
    BY <2>1
<1>2. \A d \in Decisions : doc.status # "absent" => Overall(doc, d) # "absent"
  BY OverallType DEF Statuses
<1> QED
  BY <1>1, <1>2, ExpiredType, ReplacedType, WithExceptionType, DecidedType

\* A step that only moves one handler, to a state of its type.
LEMMA GotoType ==
    ASSUME TypeInv, NEW t \in Threads, NEW h \in Handlers, HandlerInv(h),
           handler' = [handler EXCEPT ![t] = h]
    PROVE  /\ handler' \in [Threads -> Handlers]
           /\ \A u \in Threads : HandlerInv(handler'[u])
BY DEF TypeInv, TypeOK

\* The entry a handler is about to audit is an entry.
LEMMA LastEntryType ==
    ASSUME NEW doc \in Documents, Len(doc.log) > 0
    PROVE  LastEntry(doc) \in Entries
<1>1. doc.log \in Seq(Entries)
  BY DEF Documents
<1> QED
  BY <1>1 DEF LastEntry

LEMMA TypeInit == Init => TypeInv
BY AbsentType, IdleType, BoundsAssumption DEF Init, TypeInv, TypeOK

LEMMA TypeBegin ==
    ASSUME TypeInv, NEW t \in Threads, NEW h \in Handlers, HandlerInv(h),
           Begin(t, h), UNCHANGED <<docs, audit, lapsed>>,
           issued' \subseteq Requests
    PROVE  TypeInv'
<1>1. /\ handler' \in [Threads -> Handlers]
      /\ \A u \in Threads : HandlerInv(handler'[u])
  BY GotoType DEF Begin
<1>2. calls' \in 0..MaxCalls
  BY BoundsAssumption DEF Begin, TypeInv, TypeOK
<1> QED
  BY <1>1, <1>2 DEF TypeInv, TypeOK

LEMMA TypeGoto ==
    ASSUME TypeInv, NEW t \in Threads, NEW h \in Handlers, HandlerInv(h),
           Goto(t, h), docs' \in [Requests -> Documents],
           audit' \subseteq Requests \X Entries,
           UNCHANGED <<lapsed, issued, calls>>
    PROVE  TypeInv'
<1>1. /\ handler' \in [Threads -> Handlers]
      /\ \A u \in Threads : HandlerInv(handler'[u])
  BY GotoType DEF Goto
<1> QED
  BY <1>1 DEF TypeInv, TypeOK

LEMMA TypeOpen ==
    ASSUME TypeInv, NEW t \in Threads, NEW op \in Operations,
           NEW r \in Requests, Open(t, op, r)
    PROVE  TypeInv'
<1>1. docs[r] \in Documents /\ docs[r].status # "absent"
  BY DEF TypeInv, TypeOK, Open, Stored
<1>2. /\ Expired(docs[r]) \in Documents
      /\ Expired(docs[r]).status # "absent"
      /\ Len(Expired(docs[r]).log) > 0
  BY <1>1, OperationLog
<1> DEFINE e == [Idle EXCEPT !.pc = "expire", !.op = op, !.rid = r,
                             !.buf = Expired(docs[r])]
           a == [Idle EXCEPT !.pc = "act", !.op = op, !.rid = r, !.buf = docs[r]]
<1>3. e \in Handlers /\ HandlerInv(e)
  BY <1>2, IdleType DEF Handlers, HandlerInv, Operations
<1>4. a \in Handlers /\ HandlerInv(a)
  BY <1>1, IdleType DEF Handlers, HandlerInv, Operations
<1>5. Begin(t, e) \/ Begin(t, a)
  BY DEF Open
<1>6. UNCHANGED <<docs, audit, lapsed>> /\ issued' \subseteq Requests
  BY DEF Open, TypeInv, TypeOK
<1> HIDE DEF e, a
<1> QED
  BY <1>3, <1>4, <1>5, <1>6, TypeBegin

\* A listing starts from copies of stored documents.
LEMMA TypeListing ==
    ASSUME TypeInv, NEW op \in {"list", "create"}, NEW new \in Requests \cup {None},
           op = "create" => new \in Requests, NEW S \in SUBSET Requests
    PROVE  /\ Listing(op, new, S) \in Handlers
           /\ HandlerInv(Listing(op, new, S))
<1> DEFINE page == [q \in Requests |-> IF q \in S THEN docs[q] ELSE Absent]
<1>1. page \in [Requests -> Documents]
  BY AbsentType DEF TypeInv, TypeOK
<1>2. Listing(op, new, S) = [Idle EXCEPT !.pc = "refresh", !.op = op, !.new = new,
                                         !.todo = S, !.page = page]
  BY DEF Listing
<1> HIDE DEF page
<1> QED
  BY <1>1, <1>2, IdleType DEF Handlers, HandlerInv

LEMMA TypeStart ==
    ASSUME TypeInv, NEW t \in Threads,
           StartList(t) \/ \E r \in Requests : StartCreate(t, r)
    PROVE  TypeInv'
<1>1. CASE StartList(t)
  <2>1. PICK S \in Pages(Stored) : Begin(t, Listing("list", None, S))
    BY <1>1 DEF StartList
  <2>2. S \in SUBSET Requests
    BY <2>1 DEF Pages, Stored
  <2>3. UNCHANGED <<docs, audit, lapsed>> /\ issued' \subseteq Requests
    BY <1>1 DEF StartList, TypeInv, TypeOK
  <2> QED
    BY <2>1, <2>2, <2>3, TypeListing, TypeBegin
<1>2. ASSUME NEW r \in Requests, StartCreate(t, r) PROVE TypeInv'
  <2>1. PICK S \in Pages(Pending) : Begin(t, Listing("create", r, S))
    BY <1>2 DEF StartCreate
  <2>2. S \in SUBSET Requests
    BY <2>1 DEF Pages, Pending
  <2>3. UNCHANGED <<docs, audit, lapsed>> /\ issued' \subseteq Requests
    BY <1>2 DEF StartCreate, TypeInv, TypeOK
  <2> QED
    BY <2>1, <2>2, <2>3, TypeListing, TypeBegin
<1> QED
  BY <1>1, <1>2

\* The steps of a running handler that write no document.
LEMMA TypeMove ==
    ASSUME TypeInv, NEW t \in Threads,
           \/ AuditExpiry(t) \/ Refuse(t) \/ AppendAudit(t)
           \/ \E q \in Requests : RefreshExpire(t, q) \/ RefreshKeep(t, q)
                                  \/ LoadPrior(t, q)
           \/ RefreshDone(t) \/ AuditNew(t) \/ Fail(t) \/ DropFromPage(t)
    PROVE  TypeInv'
<1> DEFINE h == handler[t]
<1>0. h \in Handlers /\ HandlerInv(h) /\ docs' = docs
  BY DEF TypeInv, TypeOK, AuditExpiry, Refuse, AppendAudit, RefreshExpire,
         RefreshKeep, LoadPrior, RefreshDone, AuditNew, Fail, DropFromPage
<1>1. CASE AuditExpiry(t)
  <2>1. h.rid \in Requests /\ LastEntry(h.buf) \in Entries
    BY <1>0, <1>1, LastEntryType DEF AuditExpiry, At, HandlerInv, Handlers
  <2>2. PICK g : /\ g \in {Idle, [h EXCEPT !.pc = "act"],
                           [h EXCEPT !.pc = "refresh", !.rid = None, !.buf = Absent]}
                 /\ Goto(t, g)
    BY <1>1 DEF AuditExpiry
  <2>3. g \in Handlers /\ HandlerInv(g)
    BY <1>0, <1>1, <2>2, IdleType, AbsentType
       DEF Handlers, HandlerInv, AuditExpiry, At
  <2> QED
    BY <1>0, <1>1, <2>1, <2>2, <2>3, TypeGoto DEF AuditExpiry, TypeInv, TypeOK
<1>2. CASE Refuse(t) \/ Fail(t)
  BY <1>0, <1>2, IdleType, TypeGoto DEF Refuse, Fail, TypeInv, TypeOK
<1>3. CASE AppendAudit(t)
  <2>1. h.rid \in Requests /\ LastEntry(h.buf) \in Entries
    BY <1>0, <1>3, LastEntryType DEF AppendAudit, At, HandlerInv, Handlers
  <2>2. PICK g : /\ \/ g = Idle
                    \/ /\ h.op = "create"
                       /\ g = [h EXCEPT !.pc = "supersede", !.rid = None,
                                        !.buf = Absent]
                 /\ Goto(t, g)
    BY <1>3 DEF AppendAudit
  <2>3. g \in Handlers /\ HandlerInv(g)
    BY <1>0, <2>2, IdleType, AbsentType DEF Handlers, HandlerInv
  <2> QED
    BY <1>0, <1>3, <2>1, <2>2, <2>3, TypeGoto DEF AppendAudit, TypeInv, TypeOK
<1>4. ASSUME NEW q \in Requests, RefreshExpire(t, q) PROVE TypeInv'
  <2> DEFINE g == [h EXCEPT !.pc = "expire", !.rid = q, !.todo = @ \ {q},
                            !.buf = Expired(h.page[q])]
  <2>1. h.page[q] \in Documents
    BY <1>0 DEF Handlers
  <2>2. g \in Handlers /\ HandlerInv(g)
    BY <1>0, <1>4, <2>1, OperationLog DEF Handlers, HandlerInv, RefreshExpire, At
  <2> QED
    BY <1>0, <1>4, <2>2, TypeGoto DEF RefreshExpire, TypeInv, TypeOK
<1>5. ASSUME NEW q \in Requests, RefreshKeep(t, q) PROVE TypeInv'
  <2> DEFINE g == [h EXCEPT !.todo = @ \ {q}]
  <2>1. g \in Handlers /\ HandlerInv(g)
    BY <1>0 DEF Handlers, HandlerInv
  <2> QED
    BY <1>0, <1>5, <2>1, TypeGoto DEF RefreshKeep, TypeInv, TypeOK
<1>6. ASSUME NEW q \in Requests, LoadPrior(t, q) PROVE TypeInv'
  <2> DEFINE g1 == [h EXCEPT !.todo = @ \ {q}]
             g2 == [h EXCEPT !.pc = "replace", !.rid = q, !.todo = @ \ {q},
                             !.buf = Replaced(docs[q], h.new)]
  <2>1. h.op = "create" /\ h.new \in Requests /\ docs[q] \in Documents
    BY <1>0, <1>6 DEF LoadPrior, At, HandlerInv, TypeInv, TypeOK
  <2>2. g1 \in Handlers /\ HandlerInv(g1)
    BY <1>0 DEF Handlers, HandlerInv
  <2>3. g2 \in Handlers /\ HandlerInv(g2)
    BY <1>0, <2>1, OperationLog DEF Handlers, HandlerInv
  <2> QED
    BY <1>0, <1>6, <2>2, <2>3, TypeGoto DEF LoadPrior, TypeInv, TypeOK
<1>7. CASE RefreshDone(t)
  <2> DEFINE prior == {q \in Requests : /\ h.page[q].status # "absent"
                                        /\ q # h.new
                                        /\ Topic[q] = Topic[h.new]}
             g == [h EXCEPT !.pc = "supersede", !.page = EmptyPage, !.todo = prior]
  <2>1. EmptyPage \in [Requests -> Documents]
    BY AbsentType DEF EmptyPage
  <2>2. h.op = "create" => g \in Handlers /\ HandlerInv(g)
    BY <1>0, <2>1 DEF Handlers, HandlerInv
  <2>3. \/ h.op = "create" /\ Goto(t, g)
        \/ Goto(t, Idle)
    BY <1>7 DEF RefreshDone
  <2> HIDE DEF g
  <2> QED
    BY <1>0, <1>7, <2>2, <2>3, IdleType, TypeGoto DEF RefreshDone, TypeInv, TypeOK
<1>8. CASE AuditNew(t)
  <2>1. /\ h.new \in Requests
        /\ Entry("request_created", "system", h.buf.status) \in Entries
    BY <1>0, <1>8 DEF AuditNew, At, HandlerInv, Handlers, Documents, Entry,
                      Entries, SystemActions, ActorTypes
  <2> QED
    BY <1>0, <1>8, <2>1, IdleType, TypeGoto DEF AuditNew, TypeInv, TypeOK
<1>9. CASE DropFromPage(t)
  <2> DEFINE g == [h EXCEPT !.pc = "refresh", !.rid = None, !.buf = Absent,
                            !.page = [@ EXCEPT ![h.rid] = Absent]]
  <2>1. g \in Handlers /\ HandlerInv(g)
    BY <1>0, AbsentType DEF Handlers, HandlerInv
  <2> QED
    BY <1>0, <1>9, <2>1, TypeGoto DEF DropFromPage, TypeInv, TypeOK
<1> QED
  BY <1>1, <1>2, <1>3, <1>4, <1>5, <1>6, <1>7, <1>8, <1>9

\* The steps of a running handler that write a document.
LEMMA TypeWrite ==
    ASSUME TypeInv, NEW t \in Threads,
           \/ SaveExpiry(t) \/ Decide(t) \/ AttachException(t)
           \/ SavePrior(t) \/ SaveNew(t)
    PROVE  TypeInv'
<1> DEFINE h == handler[t]
<1>0. h \in Handlers /\ HandlerInv(h)
  BY DEF TypeInv, TypeOK
<1>1. \A r \in Requests, doc \in Documents :
         Set(r, doc) => docs' \in [Requests -> Documents]
  BY DEF Set, TypeInv, TypeOK
<1>2. CASE SaveExpiry(t)
  <2>1. h.rid \in Requests /\ h.buf \in Documents
    BY <1>0, <1>2 DEF SaveExpiry, At, HandlerInv, Handlers
  <2>2. /\ [h EXCEPT !.pc = "lapse"] \in Handlers
        /\ HandlerInv([h EXCEPT !.pc = "lapse"])
    BY <1>0, <1>2 DEF SaveExpiry, At, HandlerInv, Handlers
  <2> QED
    BY <1>1, <1>2, <2>1, <2>2, TypeGoto DEF SaveExpiry, TypeInv, TypeOK
<1>3. CASE SavePrior(t)
  <2>1. h.rid \in Requests /\ h.buf \in Documents
    BY <1>0, <1>3 DEF SavePrior, At, HandlerInv, Handlers
  <2>2. /\ [h EXCEPT !.pc = "audit"] \in Handlers
        /\ HandlerInv([h EXCEPT !.pc = "audit"])
    BY <1>0, <1>3 DEF SavePrior, At, HandlerInv, Handlers
  <2> QED
    BY <1>1, <1>3, <2>1, <2>2, TypeGoto DEF SavePrior, TypeInv, TypeOK
<1>4. CASE Decide(t)
  <2>1. PICK d \in Decisions :
           /\ Set(h.rid, Decided(h.buf, d))
           /\ Goto(t, [h EXCEPT !.pc = "audit", !.buf = Decided(h.buf, d)])
    BY <1>4 DEF Decide
  <2>2. h.rid \in Requests /\ h.buf \in Documents /\ h.buf.status # "absent"
    BY <1>0, <1>4 DEF Decide, At, HandlerInv, Handlers
  <2>3. /\ Decided(h.buf, d) \in Documents
        /\ Decided(h.buf, d).status # "absent"
        /\ Len(Decided(h.buf, d).log) > 0
    BY <2>2, OperationLog
  <2>4. /\ [h EXCEPT !.pc = "audit", !.buf = Decided(h.buf, d)] \in Handlers
        /\ HandlerInv([h EXCEPT !.pc = "audit", !.buf = Decided(h.buf, d)])
    BY <1>0, <2>2, <2>3 DEF HandlerInv, Handlers
  <2> QED
    BY <1>1, <1>4, <2>1, <2>2, <2>3, <2>4, TypeGoto DEF Decide, TypeInv, TypeOK
<1>5. CASE AttachException(t)
  <2>1. PICK by \in ActorTypes :
           /\ Set(h.rid, WithException(h.buf, by))
           /\ Goto(t, [h EXCEPT !.pc = "audit", !.buf = WithException(h.buf, by)])
    BY <1>5 DEF AttachException
  <2>2. h.rid \in Requests /\ h.buf \in Documents /\ h.buf.status # "absent"
    BY <1>0, <1>5 DEF AttachException, At, HandlerInv, Handlers
  <2>3. /\ WithException(h.buf, by) \in Documents
        /\ WithException(h.buf, by).status # "absent"
        /\ Len(WithException(h.buf, by).log) > 0
    BY <2>2, OperationLog
  <2>4. /\ [h EXCEPT !.pc = "audit", !.buf = WithException(h.buf, by)] \in Handlers
        /\ HandlerInv([h EXCEPT !.pc = "audit", !.buf = WithException(h.buf, by)])
    BY <1>0, <2>2, <2>3 DEF HandlerInv, Handlers
  <2> QED
    BY <1>1, <1>5, <2>1, <2>2, <2>3, <2>4, TypeGoto
       DEF AttachException, TypeInv, TypeOK
<1>6. CASE SaveNew(t)
  <2>1. PICK n \in 0..MaxSteps, v \in Verdicts, b \in BOOLEAN :
           /\ Set(h.new, NewDocument(n, v, b))
           /\ Goto(t, [h EXCEPT !.pc = "created", !.buf = NewDocument(n, v, b)])
    BY <1>6 DEF SaveNew
  <2>2. h.op = "create" /\ h.new \in Requests
    BY <1>0, <1>6 DEF SaveNew, At, HandlerInv
  <2>3. /\ NewDocument(n, v, b) \in Documents
        /\ NewDocument(n, v, b).status # "absent"
    BY NewDocumentType DEF NewDocument, InitialStatus
  <2>4. /\ [h EXCEPT !.pc = "created", !.buf = NewDocument(n, v, b)] \in Handlers
        /\ HandlerInv([h EXCEPT !.pc = "created", !.buf = NewDocument(n, v, b)])
    BY <1>0, <2>2, <2>3 DEF HandlerInv, Handlers
  <2> QED
    BY <1>1, <1>6, <2>1, <2>2, <2>3, <2>4, TypeGoto DEF SaveNew, TypeInv, TypeOK
<1> QED
  BY <1>2, <1>3, <1>4, <1>5, <1>6

LEMMA TypeStep == TypeInv /\ [Next]_vars => TypeInv'
<1> SUFFICES ASSUME TypeInv, [Next]_vars PROVE TypeInv'
  OBVIOUS
<1>1. CASE UNCHANGED vars
  BY <1>1 DEF TypeInv, TypeOK, vars, Handlers, HandlerInv
<1>2. ASSUME NEW t \in Threads, NEW r \in Requests, NEW op \in Operations,
             Open(t, op, r)
      PROVE  TypeInv'
  BY <1>2, TypeOpen
<1>3. ASSUME NEW r \in Requests, Lapse(r) PROVE TypeInv'
  BY <1>3 DEF Lapse, TypeInv, TypeOK, Handlers, HandlerInv
<1> QED
  BY <1>1, <1>2, <1>3, TypeStart, TypeMove, TypeWrite DEF Next, Step

\* Every reachable state is of its type: handlers, their copies and the stored
\* documents keep the shape the code's models declare.
THEOREM TypeCorrect == Spec => []TypeOK
<1>1. Init => TypeInv
  BY TypeInit
<1>2. TypeInv /\ [Next]_vars => TypeInv'
  BY TypeStep
<1>3. TypeInv => TypeOK
  BY DEF TypeInv
<1> QED
  BY <1>1, <1>2, <1>3, PTL DEF Spec

(***************************************************************************)
(* What every copy of a document satisfies.                                *)
(***************************************************************************)

\* A copy of request r, L being the requests whose deadline has passed.
CopyOK(r, doc, L) ==
    /\ SignoffIsGenuine(doc)
    /\ LegalWalk(doc)
    /\ LapseRespected(doc)
    /\ HasLapsed(doc) => r \in L

\* Appending a non-approval, or the status the document already has, keeps
\* every approval genuine.
LEMMA AppendGenuine ==
    ASSUME NEW doc \in Documents, NEW new \in Documents, NEW e \in Entries,
           new.log = Append(doc.log, e), new.steps = doc.steps,
           new.status = doc.status \/ new.status \notin SignedOff,
           SignoffIsGenuine(doc)
    PROVE  SignoffIsGenuine(new)
<1>1. EntriesOf(new) = EntriesOf(doc) \cup {e}
  BY EntriesOfAppend
<1>2. PersonSigned(doc) => PersonSigned(new)
  BY <1>1 DEF PersonSigned
<1>3. AutoCleared(doc) => AutoCleared(new)
  BY <1>1 DEF AutoCleared
<1> QED
  BY <1>2, <1>3 DEF SignoffIsGenuine

\* Appending an entry that records a legal move extends a legal walk.
LEMMA AppendLegal ==
    ASSUME NEW doc \in Documents, NEW new \in Documents, NEW e \in Entries,
           new.log = Append(doc.log, e), e.after = new.status,
           new.status # "absent",
           doc.status = "absent" \/ CanTransition(doc.status, new.status),
           LegalWalk(doc)
    PROVE  LegalWalk(new)
<1>1. /\ Len(new.log) = Len(doc.log) + 1
      /\ LastEntry(new) = e
      /\ \A i \in 1..Len(doc.log) : new.log[i] = doc.log[i]
  BY EntriesOfAppend
<1>2. Len(doc.log) \in Nat
  BY DEF Documents
<1>3. new.log[Len(doc.log) + 1] = e
  BY <1>1 DEF LastEntry
<1>4. ASSUME NEW i \in 1..(Len(new.log) - 1)
      PROVE  CanTransition(new.log[i].after, new.log[i + 1].after)
  <2>1. CASE i = Len(doc.log)
    <3>1. new.log[i].after = doc.status
      BY <1>1, <1>2, <2>1 DEF LegalWalk, LastEntry
    <3>2. doc.status # "absent"
      BY <1>1, <1>2, <2>1 DEF LegalWalk
    <3> QED
      BY <1>3, <2>1, <3>1, <3>2
  <2>2. CASE i # Len(doc.log)
    <3>1. i \in 1..(Len(doc.log) - 1)
      BY <1>1, <1>2, <2>2
    <3>2. new.log[i] = doc.log[i] /\ new.log[i + 1] = doc.log[i + 1]
      BY <1>1, <1>2, <3>1
    <3> QED
      BY <3>1, <3>2 DEF LegalWalk
  <2> QED
    BY <2>1, <2>2
<1>5. Len(new.log) > 0
  BY <1>1, <1>2
<1> QED
  BY <1>1, <1>4, <1>5 DEF LegalWalk

\* An entry that is not a lazy expiry leaves HasLapsed as it was.
LEMMA AppendLapse ==
    ASSUME NEW doc \in Documents, NEW new \in Documents, NEW e \in Entries,
           new.log = Append(doc.log, e)
    PROVE  HasLapsed(new) <=> HasLapsed(doc) \/ e.action = "lapsed"
<1>1. EntriesOf(new) = EntriesOf(doc) \cup {e}
  BY EntriesOfAppend
<1> QED
  BY <1>1 DEF HasLapsed

LEMMA AbsentOK == \A r, L : CopyOK(r, Absent, L)
<1>1. EntriesOf(Absent) = {} /\ Len(Absent.log) = 0
  BY DEF EntriesOf, Absent
<1>2. Absent.status = "absent" /\ \A i \in Slots : Absent.steps[i].status = "none"
  BY DEF Absent, NoStep
<1> QED
  BY <1>1, <1>2 DEF CopyOK, SignoffIsGenuine, LegalWalk, LapseRespected, HasLapsed,
                    PersonSigned, SignedOff

\* refresh_status keeps a copy good.
LEMMA ExpiredOK ==
    ASSUME NEW doc \in Documents, NEW r, NEW L, CopyOK(r, doc, L),
           doc.status = "pending_approval", r \in L
    PROVE  CopyOK(r, Expired(doc), L)
<1> DEFINE new == Expired(doc)
           e == Entry("lapsed", "system", "expired")
<1>1. /\ new \in Documents /\ new.status = "expired" /\ new.steps = doc.steps
      /\ new.log = Append(doc.log, e)
  BY ExpiredType
<1>2. e \in Entries /\ e.after = "expired"
  BY DEF Entry, Entries, SystemActions, ActorTypes, Statuses
<1>3. CanTransition(doc.status, new.status)
  BY <1>1 DEF CanTransition, Statuses
<1> HIDE DEF new, e
<1>4. SignoffIsGenuine(new)
  BY <1>1, <1>2, AppendGenuine DEF CopyOK, SignedOff
<1>5. LegalWalk(new)
  BY <1>1, <1>2, <1>3, AppendLegal DEF CopyOK
<1> QED
  BY <1>1, <1>4, <1>5 DEF CopyOK, LapseRespected, new

\* supersede_request keeps a copy good.
LEMMA ReplacedOK ==
    ASSUME NEW doc \in Documents, NEW r, NEW L, CopyOK(r, doc, L),
           NEW q \in Requests
    PROVE  CopyOK(r, Replaced(doc, q), L)
<1> DEFINE new == Replaced(doc, q)
           e == Entry("replaced", "system", "superseded")
<1>1. /\ new \in Documents /\ new.status = "superseded" /\ new.steps = doc.steps
      /\ new.log = Append(doc.log, e)
  BY ReplacedType
<1>2. e \in Entries /\ e.after = "superseded" /\ e.action = "replaced"
  BY DEF Entry, Entries, SystemActions, ActorTypes, Statuses
<1>3. doc.status = "absent" \/ CanTransition(doc.status, new.status)
  BY <1>1 DEF CanTransition, Statuses, Documents
<1> HIDE DEF new, e
<1>4. SignoffIsGenuine(new)
  BY <1>1, <1>2, AppendGenuine DEF CopyOK, SignedOff
<1>5. LegalWalk(new)
  BY <1>1, <1>2, <1>3, AppendLegal DEF CopyOK
<1>6. HasLapsed(new) <=> HasLapsed(doc)
  BY <1>1, <1>2, AppendLapse
<1> QED
  BY <1>1, <1>4, <1>5, <1>6 DEF CopyOK, LapseRespected, new

\* request_exception keeps a copy good.
LEMMA WithExceptionOK ==
    ASSUME NEW doc \in Documents, NEW r, NEW L, CopyOK(r, doc, L),
           doc.status # "absent", NEW by \in ActorTypes
    PROVE  CopyOK(r, WithException(doc, by), L)
<1> DEFINE new == WithException(doc, by)
           e == Entry("exception_requested", by, doc.status)
<1>1. /\ new \in Documents /\ new.status = doc.status /\ new.steps = doc.steps
      /\ new.log = Append(doc.log, e)
  BY WithExceptionType
<1>2. e \in Entries /\ e.after = doc.status /\ e.action = "exception_requested"
  BY DEF Entry, Entries, SystemActions, Documents
<1>3. CanTransition(doc.status, new.status)
  BY <1>1 DEF CanTransition
<1> HIDE DEF new, e
<1>4. SignoffIsGenuine(new)
  BY <1>1, <1>2, AppendGenuine DEF CopyOK
<1>5. LegalWalk(new)
  BY <1>1, <1>2, <1>3, AppendLegal DEF CopyOK
<1>6. HasLapsed(new) <=> HasLapsed(doc)
  BY <1>1, <1>2, AppendLapse
<1> QED
  BY <1>1, <1>4, <1>5, <1>6 DEF CopyOK, LapseRespected, new

\* record_decision: a step that ends up signed was signed by a person, now or
\* before.
LEMMA StampedSigned ==
    ASSUME NEW doc \in Documents, NEW d \in Decisions, Accepts(doc, d),
           SignoffIsGenuine(doc), NEW i \in Slots,
           Stamped(doc, d)[i].status \in SignedOff
    PROVE  /\ Stamped(doc, d)[i].by = "human"
           /\ PersonSigned(doc) \/ (d.action \in HumanSignoffActions /\ d.by = "human")
<1>1. CASE Chosen(doc, d.sel, i)
  <2>1. Stamped(doc, d)[i] = [status |-> StatusOf(d.action), by |-> d.by]
    BY <1>1 DEF Stamped
  <2>2. d.action \in HumanSignoffActions
    BY <2>1 DEF StatusOf, SignedOff, HumanSignoffActions
  <2> QED
    BY <2>1, <2>2 DEF Accepts
<1>2. CASE ~Chosen(doc, d.sel, i)
  <2>1. Stamped(doc, d)[i] = doc.steps[i]
    BY <1>2 DEF Stamped
  <2> QED
    BY <2>1 DEF SignoffIsGenuine
<1> QED
  BY <1>1, <1>2

\* A request without a route keeps none.
LEMMA StampedNone ==
    ASSUME NEW doc \in Documents, NEW d \in Decisions, NEW i \in Slots
    PROVE  Stamped(doc, d)[i].status = "none" <=> doc.steps[i].status = "none"
<1>1. StatusOf(d.action) # "none"
  BY DEF StatusOf, Decisions, DecisionActions
<1>2. Chosen(doc, d.sel, i) => doc.steps[i].status # "none"
  BY DEF Chosen, Matches
<1> QED
  BY <1>1, <1>2 DEF Stamped

\* The overall status becomes an approval only by a sign-off, by a route that
\* a person signed, or because there is no route and it already was one.
LEMMA OverallSigned ==
    ASSUME NEW doc \in Documents, NEW d \in Decisions, Accepts(doc, d),
           SignoffIsGenuine(doc), Overall(doc, d) \in SignedOff
    PROVE  \/ PersonSigned(doc)
           \/ d.action \in HumanSignoffActions /\ d.by = "human"
           \/ /\ doc.status \in SignedOff
              /\ \A i \in Slots : Stamped(doc, d)[i].status = "none"
<1> DEFINE st == Stamped(doc, d)
           given == {st[i].status : i \in Slots} \ {"none"}
<1>1. CASE d.sel = WholeRequest \/ d.action = "reopened"
  <2>1. StatusOf(d.action) \in SignedOff
    BY <1>1 DEF Overall
  <2>2. d.action \in HumanSignoffActions
    BY <2>1 DEF StatusOf, SignedOff, HumanSignoffActions
  <2> QED
    BY <2>2 DEF Accepts
<1>2. CASE ~(d.sel = WholeRequest \/ d.action = "reopened")
  <2>1. Recomputed(doc.status, st) \in SignedOff
    BY <1>2 DEF Overall
  <2>2. CASE given = {}
    BY <2>1, <2>2 DEF Recomputed
  <2>3. CASE given # {}
    <3>1. given \subseteq SignedOff
      BY <2>1, <2>3 DEF Recomputed, SignedOff
    <3>2. PICK i \in Slots : st[i].status \in given
      BY <2>3
    <3> QED
      BY <3>1, <3>2, StampedSigned
  <2> QED
    BY <2>2, <2>3
<1> QED
  BY <1>1, <1>2

LEMMA DecidedGenuine ==
    ASSUME NEW doc \in Documents, doc.status # "absent", NEW d \in Decisions,
           Accepts(doc, d), SignoffIsGenuine(doc)
    PROVE  SignoffIsGenuine(Decided(doc, d))
<1> DEFINE new == Decided(doc, d)
           e == Entry(d.action, d.by, Overall(doc, d))
<1>1. /\ new \in Documents /\ new.status = Overall(doc, d)
      /\ new.steps = Stamped(doc, d) /\ new.log = Append(doc.log, e)
  BY DecidedType
<1>2. e \in Entries /\ e.action = d.action /\ e.by = d.by
  BY OverallType DEF Entry, Entries, Decisions
<1> HIDE DEF new, e
<1>3. EntriesOf(new) = EntriesOf(doc) \cup {e}
  BY <1>1, <1>2, EntriesOfAppend
<1>4. PersonSigned(doc) \/ (d.action \in HumanSignoffActions /\ d.by = "human")
         => PersonSigned(new)
  BY <1>2, <1>3 DEF PersonSigned, IsHumanSignoff
<1>5. AutoCleared(doc) => AutoCleared(new)
  BY <1>3 DEF AutoCleared
<1>6. ASSUME NEW i \in Slots, new.steps[i].status \in SignedOff
      PROVE  new.steps[i].by = "human" /\ PersonSigned(new)
  BY <1>1, <1>4, <1>6, StampedSigned
<1>7. ASSUME new.status \in SignedOff
      PROVE  \/ PersonSigned(new)
             \/ /\ AutoCleared(new)
                /\ \A i \in Slots : new.steps[i].status = "none"
  <2>1. CASE PersonSigned(doc) \/ (d.action \in HumanSignoffActions /\ d.by = "human")
    BY <1>4, <2>1
  <2>2. CASE /\ ~PersonSigned(doc) /\ doc.status \in SignedOff
             /\ \A i \in Slots : Stamped(doc, d)[i].status = "none"
    <3>1. AutoCleared(doc)
      BY <2>2 DEF SignoffIsGenuine
    <3> QED
      BY <1>1, <1>5, <2>2, <3>1
  <2> QED
    BY <1>1, <1>7, <2>1, <2>2, OverallSigned
<1> QED
  BY <1>6, <1>7 DEF SignoffIsGenuine, new

\* record_decision keeps a copy good, if the copy is not a lapsed request that
\* get_request failed to expire.
LEMMA DecidedOK ==
    ASSUME NEW doc \in Documents, doc.status # "absent", NEW d \in Decisions,
           Accepts(doc, d), NEW r, NEW L, CopyOK(r, doc, L),
           ~(HasLapsed(doc) /\ doc.status = "pending_approval")
    PROVE  CopyOK(r, Decided(doc, d), L)
<1> DEFINE new == Decided(doc, d)
           e == Entry(d.action, d.by, Overall(doc, d))
<1>1. /\ new \in Documents /\ new.status = Overall(doc, d)
      /\ new.log = Append(doc.log, e)
  BY DecidedType
<1>2. e \in Entries /\ e.after = Overall(doc, d) /\ e.action = d.action
  BY OverallType DEF Entry, Entries, Decisions
<1>3. new.status # "absent"
  BY <1>1, OverallType DEF Statuses
<1>4. CanTransition(doc.status, new.status)
  BY <1>1 DEF Accepts
<1>5. SignoffIsGenuine(new)
  BY DecidedGenuine DEF CopyOK
<1> HIDE DEF new, e
<1>6. LegalWalk(new)
  BY <1>1, <1>2, <1>3, <1>4, AppendLegal DEF CopyOK
<1>7. d.action # "lapsed"
  BY DEF Decisions, DecisionActions
<1>8. HasLapsed(new) <=> HasLapsed(doc)
  BY <1>1, <1>2, <1>7, AppendLapse
<1>9. HasLapsed(doc) => new.status \in {"expired", "pending_approval", "superseded"}
  BY <1>4 DEF CopyOK, LapseRespected, CanTransition, Statuses
<1> QED
  BY <1>5, <1>6, <1>8, <1>9 DEF CopyOK, LapseRespected, new

\* A new request is born good: approved only if it is auto-cleared and nobody
\* is on its route.
LEMMA NewDocumentOK ==
    ASSUME NEW n \in 0..MaxSteps, NEW v \in Verdicts, NEW b \in BOOLEAN, NEW r, NEW L
    PROVE  CopyOK(r, NewDocument(n, v, b), L)
<1> DEFINE new == NewDocument(n, v, b)
           s == InitialStatus(n, v, b)
           e1 == Entry("recommended", "system", s)
           e2 == Entry("recommended", "system", "pending_approval")
           e3 == Entry(IF n > 0 \/ b THEN "routed" ELSE "auto_cleared", "system", s)
<1>1. /\ new.status = s
      /\ new.steps = [i \in Slots |-> IF i <= n THEN OpenStep ELSE NoStep]
      /\ new.log = IF v \in {"REJECT", "DEFER"} THEN <<e1>> ELSE <<e2, e3>>
  BY DEF NewDocument, InitialLog
<1>2. /\ e1.after = s /\ e1.action = "recommended"
      /\ e2.after = "pending_approval" /\ e2.action = "recommended"
      /\ e3.after = s /\ e3.action = IF n > 0 \/ b THEN "routed" ELSE "auto_cleared"
  BY DEF Entry
<1>3. /\ s \in Statuses
      /\ s \in SignedOff => n = 0 /\ ~b /\ v \notin {"REJECT", "DEFER"}
      /\ v \notin {"REJECT", "DEFER"} => s \in {"pending_approval"} \cup SignedOff
  BY BoundsAssumption DEF InitialStatus, Statuses, SignedOff, Verdicts
<1> HIDE DEF new, s, e1, e2, e3
<1>4. EntriesOf(new) = IF v \in {"REJECT", "DEFER"} THEN {e1} ELSE {e2, e3}
  <2>1. CASE v \in {"REJECT", "DEFER"}
    <3>1. new.log = <<e1>>
      BY <1>1, <2>1
    <3>2. 1..Len(new.log) = {1} /\ new.log[1] = e1
      BY <3>1
    <3> QED
      BY <2>1, <3>2 DEF EntriesOf
  <2>2. CASE v \notin {"REJECT", "DEFER"}
    <3>1. new.log = <<e2, e3>>
      BY <1>1, <2>2
    <3>2. 1..Len(new.log) = {1, 2} /\ new.log[1] = e2 /\ new.log[2] = e3
      BY <3>1
    <3> QED
      BY <2>2, <3>2 DEF EntriesOf
  <2> QED
    BY <2>1, <2>2
<1>5. SignoffIsGenuine(new)
  <2>1. \A i \in Slots : new.steps[i].status \notin SignedOff
    BY <1>1 DEF OpenStep, NoStep, SignedOff
  <2>2. new.status \in SignedOff => AutoCleared(new)
    BY <1>1, <1>2, <1>3, <1>4, BoundsAssumption DEF AutoCleared
  <2>3. new.status \in SignedOff => \A i \in Slots : new.steps[i].status = "none"
    BY <1>1, <1>3 DEF Slots, NoStep
  <2> QED
    BY <2>1, <2>2, <2>3 DEF SignoffIsGenuine
<1>6. LegalWalk(new)
  <2>1. new.status # "absent"
    BY <1>1, <1>3 DEF Statuses
  <2>2. CASE v \in {"REJECT", "DEFER"}
    <3>1. new.log = <<e1>>
      BY <1>1, <2>2
    <3>2. Len(new.log) = 1 /\ new.log[1] = e1
      BY <3>1
    <3> QED
      BY <1>1, <1>2, <2>1, <3>2 DEF LegalWalk, LastEntry
  <2>3. CASE v \notin {"REJECT", "DEFER"}
    <3>1. new.log = <<e2, e3>>
      BY <1>1, <2>3
    <3>2. Len(new.log) = 2 /\ new.log[1] = e2 /\ new.log[2] = e3
      BY <3>1
    <3>3. CanTransition(e2.after, e3.after)
      BY <1>2, <1>3, <2>3 DEF CanTransition, SignedOff, Statuses
    <3>4. \A i \in 1..(Len(new.log) - 1) : i = 1
      BY <3>2
    <3> QED
      BY <1>1, <1>2, <2>1, <3>2, <3>3, <3>4 DEF LegalWalk, LastEntry
  <2> QED
    BY <2>2, <2>3
<1>7. ~HasLapsed(new)
  BY <1>2, <1>4 DEF HasLapsed
<1> QED
  BY <1>5, <1>6, <1>7 DEF CopyOK, LapseRespected, new

(***************************************************************************)
(* The inductive invariant: every stored document and every copy is good.  *)
(***************************************************************************)

\* The copies a handler holds.  At "act" the copy has been through
\* refresh_status, so it is not a lapsed request that still looks pending.
CopiesOK(h, L) ==
    /\ h.rid \in Requests => CopyOK(h.rid, h.buf, L)
    /\ \A q \in Requests : CopyOK(q, h.page[q], L)
    /\ h.pc = "act" =>
          ~(HasLapsed(h.buf) /\ h.buf.status = "pending_approval")
    /\ h.pc \in {"expire", "lapse"} => h.buf.status = "expired"

DocInv ==
    /\ TypeInv
    /\ \A r \in Requests : CopyOK(r, docs[r], lapsed)
    /\ \A t \in Threads : CopiesOK(handler[t], lapsed)

LEMMA IdleCopies == \A L : CopiesOK(Idle, L)
<1>1. Idle.rid = None /\ Idle.pc = "idle"
  BY DEF Idle
<1>2. \A q \in Requests : Idle.page[q] = Absent
  BY DEF Idle, EmptyPage
<1> QED
  BY <1>1, <1>2, AbsentOK, NoneAssumption DEF CopiesOK

\* Deadlines only pass: a good copy stays good.
LEMMA LapsedGrows ==
    ASSUME NEW r, NEW doc, NEW L, NEW M, L \subseteq M, CopyOK(r, doc, L)
    PROVE  CopyOK(r, doc, M)
BY DEF CopyOK

\* A step that moves one handler to good copies and writes at most one good
\* document preserves the invariant.
LEMMA CopiesKept ==
    ASSUME DocInv, TypeInv', NEW t \in Threads, NEW h, CopiesOK(h, lapsed),
           handler' = [handler EXCEPT ![t] = h], lapsed' = lapsed,
           \/ docs' = docs
           \/ \E r \in Requests, doc \in Documents :
                 CopyOK(r, doc, lapsed) /\ Set(r, doc)
    PROVE  DocInv'
<1>1. \A r \in Requests : CopyOK(r, docs'[r], lapsed)
  BY DEF DocInv, TypeInv, TypeOK, Set
<1>2. \A u \in Threads : CopiesOK(handler'[u], lapsed)
  BY DEF DocInv, TypeInv, TypeOK
<1> QED
  BY <1>1, <1>2 DEF DocInv

LEMMA DocInit == Init => DocInv
<1> SUFFICES ASSUME Init PROVE DocInv
  OBVIOUS
<1>1. TypeInv
  BY TypeInit
<1>2. \A r \in Requests : CopyOK(r, docs[r], lapsed)
  BY AbsentOK DEF Init
<1>3. \A t \in Threads : CopiesOK(handler[t], lapsed)
  BY IdleCopies DEF Init
<1> QED
  BY <1>1, <1>2, <1>3 DEF DocInv

\* The beginning of a call: copies are taken of stored documents.
LEMMA DocBegin ==
    ASSUME DocInv, TypeInv', NEW t \in Threads,
           \/ \E r \in Requests, op \in Operations : Open(t, op, r)
           \/ StartList(t)
           \/ \E r \in Requests : StartCreate(t, r)
    PROVE  DocInv'
<1>0. /\ Idle \in Handlers /\ lapsed \in SUBSET Requests
      /\ \A r \in Requests : docs[r] \in Documents /\ CopyOK(r, docs[r], lapsed)
  BY IdleType DEF DocInv, TypeInv, TypeOK
<1>1. ASSUME NEW r \in Requests, NEW op \in Operations, Open(t, op, r)
      PROVE  DocInv'
  <2> DEFINE e == [Idle EXCEPT !.pc = "expire", !.op = op, !.rid = r,
                               !.buf = Expired(docs[r])]
             a == [Idle EXCEPT !.pc = "act", !.op = op, !.rid = r, !.buf = docs[r]]
  <2>1. CASE NeedsExpiry(r, docs[r]) /\ Begin(t, e)
    <3>1. CopyOK(r, Expired(docs[r]), lapsed) /\ Expired(docs[r]).status = "expired"
      BY <1>0, <2>1, ExpiredOK, ExpiredType DEF NeedsExpiry
    <3>2. CopiesOK(e, lapsed)
      BY <1>0, <3>1, IdleCopies DEF CopiesOK, Handlers
    <3> QED
      BY <1>1, <2>1, <3>2, CopiesKept DEF Begin, Open
  <2>2. CASE ~NeedsExpiry(r, docs[r]) /\ Begin(t, a)
    <3>1. ~(HasLapsed(docs[r]) /\ docs[r].status = "pending_approval")
      BY <1>0, <2>2 DEF NeedsExpiry, CopyOK
    <3>2. CopiesOK(a, lapsed)
      BY <1>0, <3>1, IdleCopies DEF CopiesOK, Handlers
    <3> QED
      BY <1>1, <2>2, <3>2, CopiesKept DEF Begin, Open
  <2> QED
    BY <1>1, <2>1, <2>2 DEF Open
<1>2. ASSUME NEW op \in {"list", "create"}, NEW new \in Requests \cup {None},
             NEW S
      PROVE  CopiesOK(Listing(op, new, S), lapsed)
  <2> DEFINE page == [q \in Requests |-> IF q \in S THEN docs[q] ELSE Absent]
             l == Listing(op, new, S)
  <2>1. /\ l.pc = "refresh" /\ l.rid = None /\ l.page = page
    BY <1>0 DEF Listing, Idle
  <2>2. \A q \in Requests : CopyOK(q, page[q], lapsed)
    BY <1>0, AbsentOK
  <2> HIDE DEF l, page
  <2> QED
    BY <2>1, <2>2, NoneAssumption DEF CopiesOK, l
<1>3. CASE StartList(t)
  <2>1. PICK S \in Pages(Stored) : Begin(t, Listing("list", None, S))
    BY <1>3 DEF StartList
  <2> QED
    BY <1>2, <1>3, <2>1, CopiesKept DEF StartList, Begin
<1>4. ASSUME NEW r \in Requests, StartCreate(t, r) PROVE DocInv'
  <2>1. PICK S \in Pages(Pending) : Begin(t, Listing("create", r, S))
    BY <1>4 DEF StartCreate
  <2> QED
    BY <1>2, <1>4, <2>1, CopiesKept DEF StartCreate, Begin
<1> QED
  BY <1>1, <1>3, <1>4

\* The steps of a running handler that write no document.
LEMMA DocMove ==
    ASSUME DocInv, TypeInv', NEW t \in Threads,
           \/ AuditExpiry(t) \/ Refuse(t) \/ AppendAudit(t)
           \/ \E q \in Requests : RefreshExpire(t, q) \/ RefreshKeep(t, q)
                                  \/ LoadPrior(t, q)
           \/ RefreshDone(t) \/ AuditNew(t) \/ Fail(t) \/ DropFromPage(t)
    PROVE  DocInv'
<1> DEFINE h == handler[t]
<1>0. /\ h \in Handlers /\ HandlerInv(h) /\ CopiesOK(h, lapsed)
      /\ docs' = docs /\ lapsed' = lapsed
      /\ \A r \in Requests : docs[r] \in Documents /\ CopyOK(r, docs[r], lapsed)
  BY DEF DocInv, TypeInv, TypeOK, AuditExpiry, Refuse, AppendAudit, RefreshExpire,
         RefreshKeep, LoadPrior, RefreshDone, AuditNew, Fail, DropFromPage
<1>1. SUFFICES \E g : Goto(t, g) /\ CopiesOK(g, lapsed)
  BY <1>0, CopiesKept DEF Goto
<1>2. CASE Refuse(t) \/ Fail(t) \/ AuditNew(t)
  BY <1>2, IdleCopies DEF Refuse, Fail, AuditNew
<1>3. CASE AuditExpiry(t)
  <2> DEFINE a == [h EXCEPT !.pc = "act"]
             b == [h EXCEPT !.pc = "refresh", !.rid = None, !.buf = Absent]
  <2>1. Goto(t, Idle) \/ Goto(t, a) \/ Goto(t, b)
    BY <1>3 DEF AuditExpiry
  <2>2. h.buf.status = "expired"
    BY <1>0, <1>3 DEF AuditExpiry, At, CopiesOK
  <2>3. CopiesOK(a, lapsed)
    BY <1>0, <2>2 DEF CopiesOK, Handlers
  <2>4. CopiesOK(b, lapsed)
    BY <1>0, NoneAssumption DEF CopiesOK, Handlers
  <2> QED
    BY <2>1, <2>3, <2>4, IdleCopies
<1>4. CASE AppendAudit(t)
  <2> DEFINE b == [h EXCEPT !.pc = "supersede", !.rid = None, !.buf = Absent]
  <2>1. Goto(t, Idle) \/ Goto(t, b)
    BY <1>4 DEF AppendAudit
  <2>2. CopiesOK(b, lapsed)
    BY <1>0, NoneAssumption DEF CopiesOK, Handlers
  <2> QED
    BY <2>1, <2>2, IdleCopies
<1>5. ASSUME NEW q \in Requests, RefreshExpire(t, q)
      PROVE  \E g : Goto(t, g) /\ CopiesOK(g, lapsed)
  <2> DEFINE g == [h EXCEPT !.pc = "expire", !.rid = q, !.todo = @ \ {q},
                            !.buf = Expired(h.page[q])]
  <2>1. h.page[q] \in Documents /\ CopyOK(q, h.page[q], lapsed)
    BY <1>0 DEF Handlers, CopiesOK
  <2>2. CopyOK(q, Expired(h.page[q]), lapsed)
    BY <1>5, <2>1, ExpiredOK DEF RefreshExpire, NeedsExpiry
  <2>3. Expired(h.page[q]).status = "expired"
    BY <2>1, ExpiredType
  <2>4. CopiesOK(g, lapsed)
    BY <1>0, <2>2, <2>3 DEF CopiesOK, Handlers
  <2> QED
    BY <1>5, <2>4 DEF RefreshExpire
<1>6. ASSUME NEW q \in Requests, RefreshKeep(t, q)
      PROVE  \E g : Goto(t, g) /\ CopiesOK(g, lapsed)
  <2>1. CopiesOK([h EXCEPT !.todo = @ \ {q}], lapsed)
    BY <1>0 DEF CopiesOK, Handlers
  <2> QED
    BY <1>6, <2>1 DEF RefreshKeep
<1>7. ASSUME NEW q \in Requests, LoadPrior(t, q)
      PROVE  \E g : Goto(t, g) /\ CopiesOK(g, lapsed)
  <2> DEFINE a == [h EXCEPT !.todo = @ \ {q}]
             b == [h EXCEPT !.pc = "replace", !.rid = q, !.todo = @ \ {q},
                            !.buf = Replaced(docs[q], h.new)]
  <2>1. h.new \in Requests
    BY <1>0, <1>7 DEF LoadPrior, At, HandlerInv
  <2>2. CopyOK(q, Replaced(docs[q], h.new), lapsed)
    BY <1>0, <2>1, ReplacedOK
  <2>3. CopiesOK(a, lapsed)
    BY <1>0, <1>7 DEF CopiesOK, Handlers, LoadPrior, At
  <2>4. CopiesOK(b, lapsed)
    BY <1>0, <2>2 DEF CopiesOK, Handlers
  <2> QED
    BY <1>7, <2>3, <2>4 DEF LoadPrior
<1>8. CASE RefreshDone(t)
  <2> DEFINE prior == {q \in Requests : /\ h.page[q].status # "absent"
                                        /\ q # h.new
                                        /\ Topic[q] = Topic[h.new]}
             b == [h EXCEPT !.pc = "supersede", !.page = EmptyPage, !.todo = prior]
  <2>1. Goto(t, Idle) \/ Goto(t, b)
    BY <1>8 DEF RefreshDone
  <2>2. CopiesOK(b, lapsed)
    BY <1>0, AbsentOK DEF CopiesOK, Handlers, EmptyPage
  <2> QED
    BY <2>1, <2>2, IdleCopies
<1>9. CASE DropFromPage(t)
  <2> DEFINE b == [h EXCEPT !.pc = "refresh", !.rid = None, !.buf = Absent,
                            !.page = [@ EXCEPT ![h.rid] = Absent]]
  <2>1. CopiesOK(b, lapsed)
    BY <1>0, AbsentOK, NoneAssumption DEF CopiesOK, Handlers
  <2> QED
    BY <1>9, <2>1 DEF DropFromPage
<1> QED
  BY <1>2, <1>3, <1>4, <1>5, <1>6, <1>7, <1>8, <1>9

\* The steps of a running handler that write a document.
LEMMA DocWrite ==
    ASSUME DocInv, TypeInv', NEW t \in Threads,
           \/ SaveExpiry(t) \/ Decide(t) \/ AttachException(t)
           \/ SavePrior(t) \/ SaveNew(t)
    PROVE  DocInv'
<1> DEFINE h == handler[t]
<1>0. /\ h \in Handlers /\ HandlerInv(h) /\ CopiesOK(h, lapsed)
      /\ lapsed' = lapsed
  BY DEF DocInv, TypeInv, TypeOK, SaveExpiry, Decide, AttachException, SavePrior,
         SaveNew
<1>1. ASSUME NEW g, Goto(t, g), CopiesOK(g, lapsed),
             NEW r \in Requests, NEW doc \in Documents, Set(r, doc),
             CopyOK(r, doc, lapsed)
      PROVE  DocInv'
  BY <1>0, <1>1, CopiesKept DEF Goto
<1>2. h.pc \in {"expire", "act", "replace"} =>
         /\ h.rid \in Requests /\ h.buf \in Documents /\ h.buf.status # "absent"
         /\ CopyOK(h.rid, h.buf, lapsed)
  BY <1>0 DEF HandlerInv, CopiesOK, Handlers
<1>3. CASE SaveExpiry(t)
  <2>1. CopiesOK([h EXCEPT !.pc = "lapse"], lapsed)
    BY <1>0, <1>3 DEF CopiesOK, Handlers, SaveExpiry, At
  <2> QED
    BY <1>1, <1>2, <1>3, <2>1 DEF SaveExpiry, At
<1>4. CASE SavePrior(t)
  <2>1. CopiesOK([h EXCEPT !.pc = "audit"], lapsed)
    BY <1>0, <1>4 DEF CopiesOK, Handlers
  <2> QED
    BY <1>1, <1>2, <1>4, <2>1 DEF SavePrior, At
<1>5. CASE Decide(t)
  <2>1. PICK d \in Decisions :
           /\ Accepts(h.buf, d)
           /\ Set(h.rid, Decided(h.buf, d))
           /\ Goto(t, [h EXCEPT !.pc = "audit", !.buf = Decided(h.buf, d)])
    BY <1>5 DEF Decide
  <2>2. ~(HasLapsed(h.buf) /\ h.buf.status = "pending_approval")
    BY <1>0, <1>5 DEF Decide, At, CopiesOK
  <2>3. CopyOK(h.rid, Decided(h.buf, d), lapsed) /\ Decided(h.buf, d) \in Documents
    BY <1>2, <1>5, <2>1, <2>2, DecidedOK, DecidedType DEF Decide, At
  <2>4. CopiesOK([h EXCEPT !.pc = "audit", !.buf = Decided(h.buf, d)], lapsed)
    BY <1>0, <2>3 DEF CopiesOK, Handlers
  <2> QED
    BY <1>1, <1>2, <1>5, <2>1, <2>3, <2>4 DEF Decide, At
<1>6. CASE AttachException(t)
  <2>1. PICK by \in ActorTypes :
           /\ Set(h.rid, WithException(h.buf, by))
           /\ Goto(t, [h EXCEPT !.pc = "audit", !.buf = WithException(h.buf, by)])
    BY <1>6 DEF AttachException
  <2>2. /\ CopyOK(h.rid, WithException(h.buf, by), lapsed)
        /\ WithException(h.buf, by) \in Documents
    BY <1>2, <1>6, WithExceptionOK, WithExceptionType DEF AttachException, At
  <2>3. CopiesOK([h EXCEPT !.pc = "audit", !.buf = WithException(h.buf, by)], lapsed)
    BY <1>0, <2>2 DEF CopiesOK, Handlers
  <2> QED
    BY <1>1, <1>2, <1>6, <2>1, <2>2, <2>3 DEF AttachException, At
<1>7. CASE SaveNew(t)
  <2>1. PICK n \in 0..MaxSteps, v \in Verdicts, b \in BOOLEAN :
           /\ Set(h.new, NewDocument(n, v, b))
           /\ Goto(t, [h EXCEPT !.pc = "created", !.buf = NewDocument(n, v, b)])
    BY <1>7 DEF SaveNew
  <2>2. h.new \in Requests
    BY <1>0, <1>7 DEF SaveNew, At, HandlerInv
  <2>3. /\ NewDocument(n, v, b) \in Documents
        /\ \A r : CopyOK(r, NewDocument(n, v, b), lapsed)
    BY NewDocumentType, NewDocumentOK
  <2>4. CopiesOK([h EXCEPT !.pc = "created", !.buf = NewDocument(n, v, b)], lapsed)
    BY <1>0, <2>3 DEF CopiesOK, Handlers
  <2> QED
    BY <1>1, <2>1, <2>2, <2>3, <2>4
<1> QED
  BY <1>3, <1>4, <1>5, <1>6, <1>7

LEMMA DocStep == DocInv /\ [Next]_vars => DocInv'
<1> SUFFICES ASSUME DocInv, [Next]_vars PROVE DocInv'
  OBVIOUS
<1>0. TypeInv'
  BY TypeStep DEF DocInv
<1>1. CASE UNCHANGED vars
  BY <1>0, <1>1 DEF DocInv, vars
<1>2. ASSUME NEW r \in Requests, Lapse(r) PROVE DocInv'
  <2>1. lapsed \subseteq lapsed' /\ docs' = docs /\ handler' = handler
    BY <1>2 DEF Lapse
  <2>2. \A q \in Requests : CopyOK(q, docs'[q], lapsed')
    BY <2>1, LapsedGrows DEF DocInv
  <2>3. \A t \in Threads : CopiesOK(handler'[t], lapsed')
    BY <2>1, LapsedGrows DEF DocInv, CopiesOK
  <2> QED
    BY <1>0, <2>2, <2>3 DEF DocInv
<1> QED
  BY <1>0, <1>1, <1>2, DocBegin, DocMove, DocWrite DEF Next, Step

\* No approval is fabricated, however handlers interleave or fail: an approved
\* request was signed by a person, or cleared because its route is empty.
THEOREM ApprovalsAreGenuine == Spec => []NoFabricatedApproval
<1>1. DocInv => NoFabricatedApproval
  BY DEF DocInv, CopyOK, NoFabricatedApproval
<1> QED
  BY <1>1, DocInit, DocStep, PTL DEF Spec

\* The decisions kept in any document are a legal walk of the lifecycle that
\* ends in its status, even when handlers overwrite each other.
THEOREM LogsAreLegal == Spec => []DecisionLogIsLegal
<1>1. DocInv => DecisionLogIsLegal
  BY DEF DocInv, CopyOK, DecisionLogIsLegal
<1> QED
  BY <1>1, DocInit, DocStep, PTL DEF Spec

\* A request the service expired is never approved or rejected afterwards.
THEOREM LapsesAreFinal == Spec => []LapsedIsFinal
<1>1. DocInv => LapsedIsFinal
  BY DEF DocInv, CopyOK, LapsedIsFinal
<1> QED
  BY <1>1, DocInit, DocStep, PTL DEF Spec

(***************************************************************************)
(* One handler at a time.  Without overlap a handler's copy is never stale: *)
(* what it writes is an operation applied to the stored document itself.   *)
(***************************************************************************)

\* No two handlers ever run at the same time.
Alone == \A t, u \in Threads : t = u

\* The documents D: request r is stored in them.
IsIn(r, D) == r \in Requests /\ D[r].status # "absent"

\* The copy in a handler's buffer is the stored document, or what the next SET
\* will make of it.
CopyFits(h, D) ==
    /\ h.pc = "expire" => /\ D[h.rid].status = "pending_approval"
                          /\ h.buf = Expired(D[h.rid])
    /\ h.pc \in {"lapse", "act", "audit"} => IsIn(h.rid, D) /\ h.buf = D[h.rid]
    /\ h.pc = "replace" => /\ IsIn(h.rid, D) /\ D[h.rid].status # "superseded"
                           /\ h.buf = Replaced(D[h.rid], h.new)

\* What a listing returned is stored, and as it was where it is not handled yet.
PageFits(h, D) ==
    /\ h.pc \in {"refresh", "expire", "lapse"} =>
          /\ \A q \in Requests : h.page[q].status # "absent" => IsIn(q, D)
          /\ \A q \in h.todo : IsIn(q, D) /\ h.page[q] = D[q]
    /\ h.pc \in {"expire", "lapse"} => h.rid \notin h.todo
    /\ h.op = "create" /\ h.pc \in {"supersede", "replace", "audit"} =>
          \A q \in h.todo : IsIn(q, D)

\* The request a creation is for has its id, among I, and no document.
NewFits(h, D, I) ==
    h.op = "create" /\ h.pc # "created" => h.new \in I /\ ~IsIn(h.new, D)

Fits(h, D, I) == CopyFits(h, D) /\ PageFits(h, D) /\ NewFits(h, D, I)

SeqInv ==
    /\ \A r \in Requests : IsIn(r, docs) => r \in issued
    /\ \A t \in Threads : Fits(handler[t], docs, issued)

LEMMA IdleFits == \A D, I : Fits(Idle, D, I)
BY DEF Fits, CopyFits, PageFits, NewFits, Idle

LEMMA SeqInit == Init => SeqInv
<1> SUFFICES ASSUME Init PROVE SeqInv
  OBVIOUS
<1>1. \A t \in Threads : Fits(handler[t], docs, issued)
  BY IdleFits DEF Init
<1>2. \A r \in Requests : ~IsIn(r, docs)
  BY DEF Init, IsIn, Absent
<1> QED
  BY <1>1, <1>2 DEF SeqInv

\* A listing starts from copies of stored documents.
LEMMA ListingFits ==
    ASSUME NEW op \in {"list", "create"}, NEW new, NEW S \in SUBSET Stored, NEW I,
           op = "create" => new \in I /\ ~IsIn(new, docs)
    PROVE  Fits(Listing(op, new, S), docs, I)
<1> DEFINE l == Listing(op, new, S)
<1>1. /\ l.pc = "refresh" /\ l.op = op /\ l.new = new /\ l.todo = S
      /\ l.page = [q \in Requests |-> IF q \in S THEN docs[q] ELSE Absent]
  BY DEF Listing, Idle
<1>2. \A q \in S : IsIn(q, docs)
  BY DEF IsIn, Stored
<1>3. \A q \in Requests : l.page[q] = IF q \in S THEN docs[q] ELSE Absent
  BY <1>1
<1> HIDE DEF l
<1>4. CopyFits(l, docs)
  BY <1>1 DEF CopyFits
<1>5. PageFits(l, docs)
  BY <1>1, <1>2, <1>3 DEF PageFits, Absent, IsIn, Stored
<1>6. NewFits(l, docs, I)
  BY <1>1 DEF NewFits
<1> QED
  BY <1>4, <1>5, <1>6 DEF Fits, l

\* The beginning of a call: copies are taken of stored documents.
LEMMA SeqBegin ==
    ASSUME Alone, TypeInv, SeqInv, NEW t \in Threads,
           \/ \E r \in Requests, op \in Operations : Open(t, op, r)
           \/ StartList(t)
           \/ \E r \in Requests : StartCreate(t, r)
    PROVE  SeqInv'
<1>0. /\ docs' = docs /\ issued \subseteq issued'
      /\ handler \in [Threads -> Handlers]
  BY DEF Open, StartList, StartCreate, TypeInv, TypeOK
<1>1. SUFFICES Fits(handler'[t], docs, issued')
  BY <1>0 DEF SeqInv, Alone
<1>2. ASSUME NEW r \in Requests, NEW op \in Operations, Open(t, op, r)
      PROVE  Fits(handler'[t], docs, issued')
  <2> DEFINE g == handler'[t]
  <2>0. \/ /\ NeedsExpiry(r, docs[r])
           /\ g = [Idle EXCEPT !.pc = "expire", !.op = op, !.rid = r,
                                !.buf = Expired(docs[r])]
        \/ g = [Idle EXCEPT !.pc = "act", !.op = op, !.rid = r, !.buf = docs[r]]
    BY <1>0, <1>2 DEF Open, Begin
  <2>1. /\ g.rid = r /\ g.op = op /\ g.todo = {} /\ g.page = EmptyPage
        /\ \/ g.pc = "expire" /\ docs[r].status = "pending_approval"
              /\ g.buf = Expired(docs[r])
           \/ g.pc = "act" /\ g.buf = docs[r]
    BY <2>0 DEF Idle, NeedsExpiry
  <2>2. IsIn(r, docs) /\ op # "create"
    BY <1>2 DEF Open, Operations, Stored, IsIn
  <2>3. \A q \in Requests : g.page[q].status = "absent"
    BY <2>1 DEF EmptyPage, Absent
  <2> HIDE DEF g
  <2>4. CopyFits(g, docs) /\ PageFits(g, docs) /\ NewFits(g, docs, issued')
    BY <2>1, <2>2, <2>3 DEF CopyFits, PageFits, NewFits
  <2> QED
    BY <2>4 DEF Fits, g
<1>3. CASE StartList(t)
  <2>1. PICK S \in Pages(Stored) : Begin(t, Listing("list", None, S))
    BY <1>3 DEF StartList
  <2>2. S \in SUBSET Stored
    BY <2>1 DEF Pages
  <2> QED
    BY <1>0, <2>1, <2>2, ListingFits DEF Begin
<1>4. ASSUME NEW r \in Requests, StartCreate(t, r)
      PROVE  Fits(handler'[t], docs, issued')
  <2>1. PICK S \in Pages(Pending) : Begin(t, Listing("create", r, S))
    BY <1>4 DEF StartCreate
  <2>2. S \in SUBSET Stored
    BY <2>1 DEF Pages, Pending, Stored
  <2>3. r \in issued' /\ ~IsIn(r, docs)
    BY <1>4 DEF StartCreate, SeqInv
  <2> QED
    BY <1>0, <2>1, <2>2, <2>3, ListingFits DEF Begin
<1> QED
  BY <1>2, <1>3, <1>4

\* The steps of a running handler that write no document.
LEMMA SeqMove ==
    ASSUME Alone, TypeInv, SeqInv, NEW t \in Threads,
           \/ AuditExpiry(t) \/ Refuse(t) \/ AppendAudit(t)
           \/ \E q \in Requests : RefreshExpire(t, q) \/ RefreshKeep(t, q)
                                  \/ LoadPrior(t, q)
           \/ RefreshDone(t) \/ AuditNew(t) \/ Fail(t) \/ DropFromPage(t)
    PROVE  SeqInv'
<1> DEFINE h == handler[t]
<1>0. /\ h \in Handlers /\ HandlerInv(h) /\ Fits(h, docs, issued)
      /\ handler \in [Threads -> Handlers]
      /\ docs' = docs /\ issued' = issued
  BY DEF SeqInv, TypeInv, TypeOK, AuditExpiry, Refuse, AppendAudit, RefreshExpire,
         RefreshKeep, LoadPrior, RefreshDone, AuditNew, Fail, DropFromPage
<1>1. SUFFICES \E g : Goto(t, g) /\ Fits(g, docs, issued)
  BY <1>0 DEF SeqInv, Alone, Goto
<1>2. CASE Refuse(t) \/ Fail(t) \/ AuditNew(t)
  BY <1>2, IdleFits DEF Refuse, Fail, AuditNew
<1>3. CASE AuditExpiry(t)
  <2> DEFINE a == [h EXCEPT !.pc = "act"]
             b == [h EXCEPT !.pc = "refresh", !.rid = None, !.buf = Absent]
  <2>1. \/ Goto(t, Idle)
        \/ Goto(t, a) /\ h.op \in {"decide", "exception"}
        \/ Goto(t, b)
    BY <1>3 DEF AuditExpiry
  <2>2. h.pc = "lapse"
    BY <1>3 DEF AuditExpiry, At
  <2>3. ASSUME h.op \in {"decide", "exception"} PROVE Fits(a, docs, issued)
    BY <1>0, <2>2, <2>3 DEF Fits, CopyFits, PageFits, NewFits, Handlers
  <2>4. Fits(b, docs, issued)
    BY <1>0, <2>2 DEF Fits, CopyFits, PageFits, NewFits, Handlers
  <2> QED
    BY <2>1, <2>3, <2>4, IdleFits
<1>4. CASE AppendAudit(t)
  <2> DEFINE b == [h EXCEPT !.pc = "supersede", !.rid = None, !.buf = Absent]
  <2>1. \/ Goto(t, Idle)
        \/ Goto(t, b) /\ h.op = "create" /\ h.pc = "audit"
    BY <1>4 DEF AppendAudit, At
  <2>2. ASSUME h.op = "create", h.pc = "audit" PROVE Fits(b, docs, issued)
    BY <1>0, <2>2 DEF Fits, CopyFits, PageFits, NewFits, Handlers
  <2> QED
    BY <2>1, <2>2, IdleFits
<1>5. ASSUME NEW q \in Requests, RefreshExpire(t, q)
      PROVE  \E g : Goto(t, g) /\ Fits(g, docs, issued)
  <2> DEFINE g == [h EXCEPT !.pc = "expire", !.rid = q, !.todo = @ \ {q},
                            !.buf = Expired(h.page[q])]
  <2>1. /\ h.pc = "refresh" /\ q \in h.todo
        /\ h.page[q].status = "pending_approval"
    BY <1>5 DEF RefreshExpire, At, NeedsExpiry
  <2>2. h.page[q] = docs[q]
    BY <1>0, <2>1 DEF Fits, PageFits
  <2>3. Fits(g, docs, issued)
    BY <1>0, <2>1, <2>2 DEF Fits, CopyFits, PageFits, NewFits, Handlers
  <2> QED
    BY <1>5, <2>3 DEF RefreshExpire
<1>6. ASSUME NEW q \in Requests, RefreshKeep(t, q)
      PROVE  \E g : Goto(t, g) /\ Fits(g, docs, issued)
  <2>1. Fits([h EXCEPT !.todo = @ \ {q}], docs, issued)
    BY <1>0 DEF Fits, CopyFits, PageFits, NewFits, Handlers
  <2> QED
    BY <1>6, <2>1 DEF RefreshKeep
<1>7. ASSUME NEW q \in Requests, LoadPrior(t, q)
      PROVE  \E g : Goto(t, g) /\ Fits(g, docs, issued)
  <2> DEFINE a == [h EXCEPT !.todo = @ \ {q}]
             b == [h EXCEPT !.pc = "replace", !.rid = q, !.todo = @ \ {q},
                            !.buf = Replaced(docs[q], h.new)]
  <2>1. h.op = "create" /\ h.pc = "supersede" /\ q \in h.todo
    BY <1>0, <1>7 DEF LoadPrior, At, HandlerInv
  <2>2. Fits(a, docs, issued)
    BY <1>0, <2>1 DEF Fits, CopyFits, PageFits, NewFits, Handlers
  <2>3. ASSUME docs[q].status # "superseded" PROVE Fits(b, docs, issued)
    BY <1>0, <2>1, <2>3 DEF Fits, CopyFits, PageFits, NewFits, Handlers
  <2> QED
    BY <1>7, <2>2, <2>3 DEF LoadPrior
<1>8. CASE RefreshDone(t)
  <2> DEFINE prior == {q \in Requests : /\ h.page[q].status # "absent"
                                        /\ q # h.new
                                        /\ Topic[q] = Topic[h.new]}
             b == [h EXCEPT !.pc = "supersede", !.page = EmptyPage, !.todo = prior]
  <2>1. Goto(t, Idle) \/ Goto(t, b)
    BY <1>8 DEF RefreshDone
  <2>2. h.pc = "refresh"
    BY <1>8 DEF RefreshDone, At
  <2>3. \A q \in prior : IsIn(q, docs)
    BY <1>0, <2>2 DEF Fits, PageFits
  <2> HIDE DEF prior
  <2>4. Fits(b, docs, issued)
    BY <1>0, <2>2, <2>3 DEF Fits, CopyFits, PageFits, NewFits, Handlers
  <2> QED
    BY <2>1, <2>4, IdleFits DEF prior
<1>9. CASE DropFromPage(t)
  <2> DEFINE b == [h EXCEPT !.pc = "refresh", !.rid = None, !.buf = Absent,
                            !.page = [@ EXCEPT ![h.rid] = Absent]]
  <2>1. h.pc \in {"expire", "lapse"} /\ h.op \in {"list", "create"}
    BY <1>9 DEF DropFromPage, At
  <2>2. \A q \in Requests : b.page[q] = IF q = h.rid THEN Absent ELSE h.page[q]
    BY <1>0 DEF Handlers
  <2>3. /\ b.pc = "refresh" /\ b.op = h.op /\ b.new = h.new /\ b.todo = h.todo
    BY <1>0 DEF Handlers
  <2> HIDE DEF b
  <2>4. Fits(b, docs, issued)
    BY <1>0, <2>1, <2>2, <2>3
       DEF Fits, CopyFits, PageFits, NewFits, Absent, Handlers
  <2> QED
    BY <1>9, <2>4 DEF DropFromPage, b
<1> QED
  BY <1>2, <1>3, <1>4, <1>5, <1>6, <1>7, <1>8, <1>9

\* What one operation makes of the document doc.
MadeFrom(doc, new) ==
    \/ doc.status = "pending_approval" /\ new = Expired(doc)
    \/ /\ doc.status # "absent"
       /\ \/ \E d \in Decisions : Accepts(doc, d) /\ new = Decided(doc, d)
          \/ \E by \in ActorTypes : new = WithException(doc, by)
          \/ /\ doc.status # "superseded"
             /\ \E q \in Requests : new = Replaced(doc, q)
    \/ /\ doc.status = "absent"
       /\ \E n \in 0..MaxSteps, v \in Verdicts, b \in BOOLEAN :
             new = NewDocument(n, v, b)

\* What an operation makes is a stored document.
LEMMA MadeFromType ==
    ASSUME NEW doc \in Documents, NEW new, MadeFrom(doc, new)
    PROVE  new \in Documents /\ new.status # "absent"
<1>1. CASE doc.status = "absent"
  BY <1>1, NewDocumentType DEF MadeFrom, NewDocument, InitialStatus
<1>2. CASE doc.status # "absent"
  BY <1>2, OperationLog DEF MadeFrom
<1> QED
  BY <1>1, <1>2

\* A step puts what one operation makes of a stored document in its place: the
\* creation of it, or an operation that the handler of t has still to audit.
Updates(t) ==
    \E r \in Requests, new \in Documents :
        /\ Set(r, new) /\ MadeFrom(docs[r], new)
        /\ \/ docs[r].status = "absent"
           \/ /\ handler'[t].pc \in {"lapse", "audit"}
              /\ handler'[t].rid = r /\ handler'[t].buf = new

\* The steps of a running handler that write a document.
LEMMA SeqWrite ==
    ASSUME Alone, TypeInv, SeqInv, NEW t \in Threads,
           \/ SaveExpiry(t) \/ Decide(t) \/ AttachException(t)
           \/ SavePrior(t) \/ SaveNew(t)
    PROVE  /\ SeqInv'
           /\ Updates(t)
<1> DEFINE h == handler[t]
<1>0. /\ h \in Handlers /\ HandlerInv(h) /\ Fits(h, docs, issued)
      /\ handler \in [Threads -> Handlers] /\ docs \in [Requests -> Documents]
      /\ \A r \in Requests : IsIn(r, docs) => r \in issued
      /\ issued' = issued
  BY DEF SeqInv, TypeInv, TypeOK, SaveExpiry, Decide, AttachException, SavePrior,
         SaveNew
<1>1. ASSUME NEW g, Goto(t, g), Fits(g, docs', issued),
             NEW r \in Requests, NEW new, r \in issued,
             Set(r, new), MadeFrom(docs[r], new),
             \/ docs[r].status = "absent"
             \/ g.pc \in {"lapse", "audit"} /\ g.rid = r /\ g.buf = new
      PROVE  SeqInv' /\ Updates(t)
  <2>1. new \in Documents /\ new.status # "absent"
    BY <1>0, <1>1, MadeFromType
  <2>2. \A q \in Requests : docs'[q] = IF q = r THEN new ELSE docs[q]
    BY <1>0, <1>1 DEF Set
  <2>3. \A q \in Requests : IsIn(q, docs') => q \in issued'
    BY <1>0, <1>1, <2>2 DEF IsIn
  <2>4. \A u \in Threads : handler'[u] = g
    BY <1>0, <1>1 DEF Alone, Goto
  <2> QED
    BY <1>0, <1>1, <2>1, <2>3, <2>4 DEF SeqInv, Updates
\* A write of a stored document keeps what else is stored.
<1>2. ASSUME NEW r \in Requests, NEW new, Set(r, new), IsIn(r, docs),
             MadeFrom(docs[r], new)
      PROVE  /\ docs'[r] = new /\ r \in issued
             /\ \A q \in Requests : q # r => docs'[q] = docs[q]
             /\ \A q : IsIn(q, docs') <=> IsIn(q, docs)
  <2>1. new.status # "absent"
    BY <1>0, <1>2, MadeFromType
  <2> QED
    BY <1>0, <1>2, <2>1 DEF Set, IsIn
<1>3. CASE SaveExpiry(t)
  <2> DEFINE g == [h EXCEPT !.pc = "lapse"]
  <2>1. h.pc = "expire" /\ h.rid \in Requests /\ Set(h.rid, h.buf) /\ Goto(t, g)
    BY <1>0, <1>3 DEF SaveExpiry, At, HandlerInv
  <2>2. /\ IsIn(h.rid, docs) /\ MadeFrom(docs[h.rid], h.buf)
        /\ h.rid \notin h.todo
    BY <1>0, <2>1 DEF Fits, CopyFits, PageFits, MadeFrom, IsIn
  <2>3. /\ docs'[h.rid] = h.buf /\ h.rid \in issued
        /\ \A q \in Requests : q # h.rid => docs'[q] = docs[q]
        /\ \A q : IsIn(q, docs') <=> IsIn(q, docs)
    BY <1>2, <2>1, <2>2
  <2>4. Fits(g, docs', issued)
    BY <1>0, <2>1, <2>2, <2>3 DEF Fits, CopyFits, PageFits, NewFits, Handlers
  <2> QED
    BY <1>0, <1>1, <2>1, <2>2, <2>3, <2>4 DEF Handlers
<1>4. CASE SavePrior(t)
  <2> DEFINE g == [h EXCEPT !.pc = "audit"]
  <2>1. /\ h.pc = "replace" /\ h.rid \in Requests /\ h.new \in Requests
        /\ Set(h.rid, h.buf) /\ Goto(t, g)
    BY <1>0, <1>4 DEF SavePrior, At, HandlerInv
  <2>2. IsIn(h.rid, docs) /\ MadeFrom(docs[h.rid], h.buf)
    BY <1>0, <2>1 DEF Fits, CopyFits, MadeFrom, IsIn
  <2>3. /\ docs'[h.rid] = h.buf /\ h.rid \in issued
        /\ \A q : IsIn(q, docs') <=> IsIn(q, docs)
    BY <1>2, <2>1, <2>2
  <2>4. Fits(g, docs', issued)
    BY <1>0, <2>1, <2>2, <2>3 DEF Fits, CopyFits, PageFits, NewFits, Handlers
  <2> QED
    BY <1>0, <1>1, <2>1, <2>2, <2>3, <2>4 DEF Handlers
<1>5. ASSUME h.pc = "act", h.op \in {"decide", "exception"}, NEW new,
             Set(h.rid, new), MadeFrom(h.buf, new),
             Goto(t, [h EXCEPT !.pc = "audit", !.buf = new])
      PROVE  SeqInv' /\ Updates(t)
  <2> DEFINE g == [h EXCEPT !.pc = "audit", !.buf = new]
  <2>1. h.rid \in Requests /\ IsIn(h.rid, docs) /\ h.buf = docs[h.rid]
    BY <1>0, <1>5 DEF Fits, CopyFits, IsIn
  <2>2. /\ docs'[h.rid] = new /\ h.rid \in issued
        /\ \A q : IsIn(q, docs') <=> IsIn(q, docs)
    BY <1>2, <1>5, <2>1
  <2>3. Fits(g, docs', issued)
    BY <1>0, <1>5, <2>1, <2>2 DEF Fits, CopyFits, PageFits, NewFits, Handlers
  <2>4. g.pc = "audit" /\ g.rid = h.rid /\ g.buf = new
    BY <1>0 DEF Handlers
  <2> HIDE DEF g
  <2> QED
    BY <1>1, <1>5, <2>1, <2>2, <2>3, <2>4 DEF g
<1>6. CASE Decide(t)
  <2>1. PICK d \in Decisions :
           /\ Accepts(h.buf, d)
           /\ Set(h.rid, Decided(h.buf, d))
           /\ Goto(t, [h EXCEPT !.pc = "audit", !.buf = Decided(h.buf, d)])
    BY <1>6 DEF Decide
  <2>2. h.pc = "act" /\ h.op = "decide" /\ h.buf.status # "absent"
    BY <1>0, <1>6 DEF Decide, At, HandlerInv
  <2>3. MadeFrom(h.buf, Decided(h.buf, d))
    BY <2>1, <2>2 DEF MadeFrom
  <2> QED
    BY <1>5, <2>1, <2>2, <2>3
<1>7. CASE AttachException(t)
  <2>1. PICK by \in ActorTypes :
           /\ Set(h.rid, WithException(h.buf, by))
           /\ Goto(t, [h EXCEPT !.pc = "audit", !.buf = WithException(h.buf, by)])
    BY <1>7 DEF AttachException
  <2>2. h.pc = "act" /\ h.op = "exception" /\ h.buf.status # "absent"
    BY <1>0, <1>7 DEF AttachException, At, HandlerInv
  <2>3. MadeFrom(h.buf, WithException(h.buf, by))
    BY <2>2 DEF MadeFrom
  <2> QED
    BY <1>5, <2>1, <2>2, <2>3
<1>8. CASE SaveNew(t)
  <2>1. PICK n \in 0..MaxSteps, v \in Verdicts, b \in BOOLEAN :
           /\ Set(h.new, NewDocument(n, v, b))
           /\ Goto(t, [h EXCEPT !.pc = "created", !.buf = NewDocument(n, v, b)])
    BY <1>8 DEF SaveNew
  <2> DEFINE new == NewDocument(n, v, b)
             g == [h EXCEPT !.pc = "created", !.buf = new]
  <2>2. h.pc = "supersede" /\ h.op = "create" /\ h.new \in Requests
    BY <1>0, <1>8 DEF SaveNew, At, HandlerInv
  <2>3. /\ h.new \in issued /\ MadeFrom(docs[h.new], new)
        /\ docs[h.new].status = "absent"
    BY <1>0, <2>2 DEF Fits, NewFits, IsIn, MadeFrom
  <2>4. g.pc = "created"
    BY <1>0 DEF Handlers
  <2> HIDE DEF new
  <2>5. Fits(g, docs', issued)
    BY <2>4 DEF Fits, CopyFits, PageFits, NewFits
  <2> QED
    BY <1>1, <2>1, <2>2, <2>3, <2>5 DEF new
<1> QED
  BY <1>3, <1>4, <1>6, <1>7, <1>8

\* The inductive invariant of the sequential service.
AloneInv == DocInv /\ SeqInv

LEMMA AloneStep == Alone /\ AloneInv /\ [Next]_vars => AloneInv'
<1> SUFFICES ASSUME Alone, AloneInv, [Next]_vars PROVE SeqInv'
  BY DocStep DEF AloneInv
<1>0. TypeInv /\ SeqInv
  BY DEF AloneInv, DocInv
<1>1. CASE UNCHANGED vars \/ \E r \in Requests : Lapse(r)
  BY <1>0, <1>1 DEF vars, Lapse, SeqInv
<1> QED
  BY <1>0, <1>1, SeqBegin, SeqMove, SeqWrite DEF Next, Step

\* One step changes no document, or puts what one operation makes of a stored
\* document in its place.
LEMMA Writes ==
    ASSUME Alone, AloneInv, [Next]_vars
    PROVE  \/ docs' = docs
           \/ \E r \in Requests, new \in Documents :
                 Set(r, new) /\ MadeFrom(docs[r], new)
<1>0. TypeInv /\ SeqInv
  BY DEF AloneInv, DocInv
<1>1. CASE UNCHANGED vars \/ \E r \in Requests : Lapse(r)
  BY <1>1 DEF vars, Lapse
<1>2. ASSUME NEW t \in Threads,
             \/ SaveExpiry(t) \/ Decide(t) \/ AttachException(t)
             \/ SavePrior(t) \/ SaveNew(t)
      PROVE  \E r \in Requests, new \in Documents :
                Set(r, new) /\ MadeFrom(docs[r], new)
  BY <1>0, <1>2, SeqWrite DEF Updates
<1>3. ASSUME NEW t \in Threads,
             \/ \E r \in Requests, op \in Operations : Open(t, op, r)
             \/ StartList(t)
             \/ \E r \in Requests : StartCreate(t, r)
             \/ AuditExpiry(t) \/ Refuse(t) \/ AppendAudit(t)
             \/ \E q \in Requests : RefreshExpire(t, q) \/ RefreshKeep(t, q)
                                    \/ LoadPrior(t, q)
             \/ RefreshDone(t) \/ AuditNew(t) \/ Fail(t) \/ DropFromPage(t)
      PROVE  docs' = docs
  BY <1>3 DEF Open, StartList, StartCreate, AuditExpiry, Refuse, AppendAudit,
              RefreshExpire, RefreshKeep, LoadPrior, RefreshDone, AuditNew, Fail,
              DropFromPage
<1> QED
  BY <1>1, <1>2, <1>3 DEF Next, Step

(***************************************************************************)
(* The documents implement the lifecycle.                                  *)
(***************************************************************************)

\* What a sign-off adds to the log is what makes a request signed.
LEMMA AppendSigned ==
    ASSUME NEW doc \in Documents, NEW new \in Documents, NEW e \in Entries,
           new.log = Append(doc.log, e)
    PROVE  /\ PersonSigned(new) <=> PersonSigned(doc) \/ IsHumanSignoff(e)
           /\ AutoCleared(new) <=> AutoCleared(doc) \/ e.action = "auto_cleared"
<1>1. EntriesOf(new) = EntriesOf(doc) \cup {e}
  BY EntriesOfAppend
<1> QED
  BY <1>1 DEF PersonSigned, AutoCleared

\* An operation on the stored document doc is one move of the lifecycle: it
\* signs the request, or it produces no approval that nobody signed.
Moves(doc, new) ==
    /\ CanTransition(doc.status, new.status)
    /\ AutoCleared(new) <=> AutoCleared(doc)
    /\ \/ /\ PersonSigned(new) <=> PersonSigned(doc)
          /\ new.status \in SignedOff => new.status = doc.status \/ PersonSigned(doc)
       \/ /\ PersonSigned(new)
          /\ doc.status # "superseded" /\ new.status # "superseded"

LEMMA SystemMoves ==
    ASSUME NEW doc \in Documents, doc.status # "absent", NEW new \in Documents,
           NEW e \in Entries, new.log = Append(doc.log, e),
           e.action \in SystemActions,
           CanTransition(doc.status, new.status),
           new.status = doc.status \/ new.status \notin SignedOff
    PROVE  Moves(doc, new)
<1>1. ~IsHumanSignoff(e) /\ e.action # "auto_cleared"
  BY DEF IsHumanSignoff, HumanSignoffActions, SystemActions
<1> QED
  BY <1>1, AppendSigned DEF Moves

LEMMA DecisionMoves ==
    ASSUME NEW doc \in Documents, doc.status # "absent", NEW d \in Decisions,
           Accepts(doc, d), SignoffIsGenuine(doc)
    PROVE  Moves(doc, Decided(doc, d))
<1> DEFINE new == Decided(doc, d)
           e == Entry(d.action, d.by, Overall(doc, d))
<1>1. /\ new \in Documents /\ new.status = Overall(doc, d)
      /\ new.log = Append(doc.log, e)
  BY DecidedType
<1>2. e \in Entries /\ e.action = d.action /\ e.by = d.by
  BY OverallType DEF Entry, Entries, Decisions
<1> HIDE DEF new, e
<1>3. d.action # "auto_cleared"
  BY DEF Decisions, DecisionActions
<1>4. /\ PersonSigned(new) <=> PersonSigned(doc) \/ IsHumanSignoff(e)
      /\ AutoCleared(new) <=> AutoCleared(doc)
  BY <1>1, <1>2, <1>3, AppendSigned
<1>5. CanTransition(doc.status, new.status) /\ doc.status # "superseded"
  BY <1>1 DEF Accepts
<1>6. CASE d.action \in HumanSignoffActions
  <2>1. IsHumanSignoff(e)
    BY <1>2, <1>6 DEF Accepts, IsHumanSignoff
  <2>2. StatusOf(d.action) # "superseded"
    BY <1>6 DEF StatusOf, HumanSignoffActions
  <2>3. Recomputed(doc.status, Stamped(doc, d)) # "superseded"
    BY <1>5 DEF Recomputed
  <2> QED
    BY <1>1, <1>4, <1>5, <2>1, <2>2, <2>3 DEF Overall, Moves, new
<1>7. CASE d.action \notin HumanSignoffActions
  <2>1. ~IsHumanSignoff(e)
    BY <1>2, <1>7 DEF IsHumanSignoff
  <2>2. ASSUME new.status \in SignedOff, ~PersonSigned(doc)
        PROVE  new.status = doc.status
    <3>1. \A i \in Slots : Stamped(doc, d)[i].status = "none"
      BY <1>1, <1>7, <2>2, OverallSigned
    <3>2. StatusOf(d.action) \notin SignedOff
      BY <1>7 DEF StatusOf, HumanSignoffActions, SignedOff
    <3>3. Recomputed(doc.status, Stamped(doc, d)) = doc.status
      BY <3>1 DEF Recomputed
    <3> QED
      BY <1>1, <2>2, <3>2, <3>3 DEF Overall
  <2> QED
    BY <1>4, <1>5, <2>1, <2>2 DEF Moves, new
<1> QED
  BY <1>6, <1>7

LEMMA OperationMoves ==
    ASSUME NEW doc \in Documents, doc.status # "absent", NEW new,
           MadeFrom(doc, new), SignoffIsGenuine(doc)
    PROVE  Moves(doc, new)
<1>0. doc.status \in Statuses
  BY DEF Documents
<1>1. CASE doc.status = "pending_approval" /\ new = Expired(doc)
  <2>1. /\ new \in Documents /\ new.status = "expired"
        /\ new.log = Append(doc.log, Entry("lapsed", "system", "expired"))
    BY <1>1, ExpiredType
  <2>2. /\ Entry("lapsed", "system", "expired") \in Entries
        /\ Entry("lapsed", "system", "expired").action \in SystemActions
    BY DEF Entry, Entries, SystemActions, ActorTypes, Statuses
  <2>3. CanTransition(doc.status, new.status) /\ new.status \notin SignedOff
    BY <1>1, <2>1 DEF CanTransition, Statuses, SignedOff
  <2> QED
    BY <2>1, <2>2, <2>3, SystemMoves
<1>2. CASE \E d \in Decisions : Accepts(doc, d) /\ new = Decided(doc, d)
  BY <1>2, DecisionMoves
<1>3. ASSUME NEW by \in ActorTypes, new = WithException(doc, by)
      PROVE  Moves(doc, new)
  <2>1. /\ new \in Documents /\ new.status = doc.status
        /\ new.log = Append(doc.log, Entry("exception_requested", by, doc.status))
    BY <1>3, WithExceptionType
  <2>2. /\ Entry("exception_requested", by, doc.status) \in Entries
        /\ Entry("exception_requested", by, doc.status).action \in SystemActions
    BY <1>0 DEF Entry, Entries, SystemActions
  <2>3. CanTransition(doc.status, new.status)
    BY <2>1 DEF CanTransition
  <2> QED
    BY <2>1, <2>2, <2>3, SystemMoves
<1>4. ASSUME NEW q \in Requests, new = Replaced(doc, q) PROVE Moves(doc, new)
  <2>1. /\ new \in Documents /\ new.status = "superseded"
        /\ new.log = Append(doc.log, Entry("replaced", "system", "superseded"))
    BY <1>4, ReplacedType
  <2>2. /\ Entry("replaced", "system", "superseded") \in Entries
        /\ Entry("replaced", "system", "superseded").action \in SystemActions
    BY DEF Entry, Entries, SystemActions, ActorTypes, Statuses
  <2>3. CanTransition(doc.status, new.status) /\ new.status \notin SignedOff
    BY <1>0, <2>1 DEF CanTransition, Statuses, SignedOff
  <2> QED
    BY <2>1, <2>2, <2>3, SystemMoves
<1> QED
  BY <1>1, <1>2, <1>3, <1>4 DEF MadeFrom

\* A new request is unsigned, and approved only if it is auto-cleared.
LEMMA CreationMoves ==
    ASSUME NEW n \in 0..MaxSteps, NEW v \in Verdicts, NEW b \in BOOLEAN
    PROVE  /\ NewDocument(n, v, b).status \in
                 {"draft", "pending_approval", "rejected"} \cup SignedOff
           /\ NewDocument(n, v, b).status \in SignedOff =>
                 AutoCleared(NewDocument(n, v, b))
           /\ ~PersonSigned(NewDocument(n, v, b))
<1> DEFINE new == NewDocument(n, v, b)
           s == InitialStatus(n, v, b)
           e1 == Entry("recommended", "system", s)
           e2 == Entry("recommended", "system", "pending_approval")
           e3 == Entry(IF n > 0 \/ b THEN "routed" ELSE "auto_cleared", "system", s)
<1>1. /\ new.status = s
      /\ new.log = IF v \in {"REJECT", "DEFER"} THEN <<e1>> ELSE <<e2, e3>>
      /\ new \in Documents
  BY NewDocumentType DEF NewDocument, InitialLog
<1>2. e1.by = "system" /\ e2.by = "system" /\ e3.by = "system"
  BY DEF Entry
<1>3. s \in {"draft", "pending_approval", "rejected"} \cup SignedOff
  BY DEF InitialStatus, SignedOff
<1> HIDE DEF new, s, e1, e2, e3
<1>4. \A i \in 1..Len(new.log) : new.log[i] \in {e1, e2, e3}
  <2>1. CASE v \in {"REJECT", "DEFER"}
    BY <1>1, <2>1
  <2>2. CASE v \notin {"REJECT", "DEFER"}
    BY <1>1, <2>2
  <2> QED
    BY <2>1, <2>2
<1>5. ~PersonSigned(new)
  BY <1>2, <1>4 DEF PersonSigned, EntriesOf, IsHumanSignoff
<1>6. \A L : CopyOK(None, new, L)
  BY NewDocumentOK DEF new
<1>7. new.status \in SignedOff => AutoCleared(new)
  BY <1>5, <1>6 DEF CopyOK, SignoffIsGenuine
<1> QED
  BY <1>1, <1>3, <1>5, <1>7 DEF new

\* The state of the lifecycle that the documents stand for.
StatusMap == [r \in Requests |-> docs[r].status]
SignedMap == [r \in Requests |-> PersonSigned(docs[r])]
RoutedMap == [r \in Requests |-> r \in Stored /\ ~AutoCleared(docs[r])]

LEMMA LifecycleInit == Init => Lifecycle!Init
<1> SUFFICES ASSUME Init PROVE Lifecycle!Init
  OBVIOUS
<1>1. \A r \in Requests : docs[r] = Absent
  BY DEF Init
<1>2. EntriesOf(Absent) = {} /\ Absent.status = "absent"
  BY DEF EntriesOf, Absent
<1>3. \A r \in Requests : /\ docs[r].status = "absent"
                          /\ PersonSigned(docs[r]) = FALSE
                          /\ (r \in Stored /\ ~AutoCleared(docs[r])) = FALSE
  BY <1>1, <1>2 DEF PersonSigned, Stored
<1> QED
  BY <1>3 DEF Lifecycle!Init

LEMMA LifecycleStep ==
    ASSUME Alone, AloneInv, [Next]_vars
    PROVE  [Lifecycle!Next]_<<StatusMap, SignedMap, RoutedMap>>
<1>0. /\ docs \in [Requests -> Documents]
      /\ \A r \in Requests : CopyOK(r, docs[r], lapsed)
  BY DEF AloneInv, DocInv, TypeInv, TypeOK
<1>1. CASE docs' = docs
  BY <1>1 DEF StatusMap, SignedMap, RoutedMap, Stored
<1>2. ASSUME NEW r \in Requests, NEW new \in Documents, Set(r, new),
             MadeFrom(docs[r], new)
      PROVE  Lifecycle!Next
  <2> DEFINE doc == docs[r]
  <2>1. /\ doc \in Documents /\ SignoffIsGenuine(doc) /\ LegalWalk(doc)
        /\ new.status # "absent"
    BY <1>0, <1>2, MadeFromType DEF CopyOK
  <2>2. \A q \in Requests : docs'[q] = IF q = r THEN new ELSE docs[q]
    BY <1>0, <1>2 DEF Set
  <2>3. StatusMap' = [StatusMap EXCEPT ![r] = new.status]
    BY <2>2 DEF StatusMap
  <2>4. SignedMap' = [SignedMap EXCEPT ![r] = PersonSigned(new)]
    BY <2>2, Zenon DEF SignedMap
  <2>5. RoutedMap' = [RoutedMap EXCEPT ![r] = ~AutoCleared(new)]
    BY <2>1, <2>2 DEF RoutedMap, Stored
  <2>6. /\ StatusMap[r] = doc.status /\ SignedMap[r] = PersonSigned(doc)
        /\ RoutedMap[r] = (r \in Stored /\ ~AutoCleared(doc))
    BY DEF StatusMap, SignedMap, RoutedMap
  <2>7. [SignedMap EXCEPT ![r] = SignedMap[r]] = SignedMap
    BY DEF SignedMap
  <2>8. PersonSigned(new) \in BOOLEAN /\ PersonSigned(doc) \in BOOLEAN
    BY DEF PersonSigned
  <2>9. CASE doc.status = "absent"
    <3>1. PICK n \in 0..MaxSteps, v \in Verdicts, b \in BOOLEAN :
             new = NewDocument(n, v, b)
      BY <1>2, <2>9 DEF MadeFrom
    <3>2. /\ new.status \in {"draft", "pending_approval", "rejected"} \cup SignedOff
          /\ new.status \in SignedOff => AutoCleared(new)
          /\ ~PersonSigned(new)
      BY <3>1, CreationMoves
    <3>3. ~PersonSigned(doc)
      BY <2>1, <2>9 DEF LegalWalk, PersonSigned, EntriesOf
    <3>4. PersonSigned(new) = SignedMap[r]
      BY <2>6, <2>8, <3>2, <3>3
    <3>5. (~AutoCleared(new)) \in BOOLEAN
      BY DEF AutoCleared
    <3>6. Lifecycle!Create(r)
      BY <2>3, <2>4, <2>5, <2>6, <2>7, <2>9, <3>2, <3>4, <3>5
         DEF Lifecycle!Create, Lifecycle!SignedOff, SignedOff,
             StatusMap, SignedMap, RoutedMap
    <3> QED
      BY <3>6 DEF Lifecycle!Next
  <2>10. CASE doc.status # "absent"
    <3>1. Moves(doc, new)
      BY <1>2, <2>1, <2>10, OperationMoves
    <3>2. RoutedMap' = RoutedMap
      BY <2>5, <2>6, <2>10, <3>1 DEF RoutedMap, Stored, Moves
    <3>3. /\ new.status \in Lifecycle!Statuses
          /\ Lifecycle!CanTransition(doc.status, new.status)
      BY <2>1, <3>1 DEF Moves, CanTransition, Lifecycle!CanTransition, Statuses,
                        Lifecycle!Statuses, Documents
    <3>4. CASE /\ PersonSigned(new) <=> PersonSigned(doc)
               /\ new.status \in SignedOff =>
                     new.status = doc.status \/ PersonSigned(doc)
      <4>1. PersonSigned(new) = SignedMap[r]
        BY <2>6, <2>8, <3>4
      <4>2. Lifecycle!Move(r)
        BY <2>3, <2>4, <2>6, <2>7, <2>10, <3>2, <3>3, <3>4, <4>1
           DEF Lifecycle!Move, Lifecycle!SignedOff, SignedOff,
               StatusMap, SignedMap, RoutedMap
      <4> QED
        BY <4>2 DEF Lifecycle!Next
    <3>5. CASE /\ PersonSigned(new)
               /\ doc.status # "superseded" /\ new.status # "superseded"
      <4>1. SignedMap' = [SignedMap EXCEPT ![r] = TRUE]
        BY <2>4, <3>5
      <4>2. Lifecycle!SignOff(r)
        BY <2>3, <2>6, <2>10, <3>2, <3>3, <3>5, <4>1
           DEF Lifecycle!SignOff, StatusMap, SignedMap, RoutedMap
      <4> QED
        BY <4>2 DEF Lifecycle!Next
    <3> QED
      BY <3>1, <3>4, <3>5 DEF Moves
  <2> QED
    BY <2>9, <2>10
<1> QED
  BY <1>1, <1>2, Writes

\* With one handler at a time the stored documents implement the lifecycle of
\* ApprovalLifecycle, whatever Redis command fails: created by the engine, moved
\* along the transition table, signed off by a person only.
THEOREM ImplementsTheLifecycle ==
    ASSUME Alone PROVE Spec => ImplementsLifecycle
<1>1. Init => Lifecycle!Init
  BY LifecycleInit
<1>2. Init => AloneInv
  BY DocInit, SeqInit DEF AloneInv
<1>3. AloneInv /\ [Next]_vars => AloneInv'
  BY AloneStep
<1>4. AloneInv /\ [Next]_vars => [Lifecycle!Next]_<<StatusMap, SignedMap, RoutedMap>>
  BY LifecycleStep
<1> QED
  BY <1>1, <1>2, <1>3, <1>4, PTL
     DEF Spec, ImplementsLifecycle, Lifecycle!Spec, Lifecycle!vars,
         StatusMap, SignedMap, RoutedMap


(***************************************************************************)
(* What is recorded stays recorded.                                        *)
(***************************************************************************)

\* An operation on a stored document appends one entry to its log.
LEMMA MadeFromLog ==
    ASSUME NEW doc \in Documents, doc.status # "absent", NEW new,
           MadeFrom(doc, new)
    PROVE  \E e \in Entries : new.log = Append(doc.log, e)
<1>0. doc.status \in Statuses
  BY DEF Documents
<1>1. CASE new = Expired(doc)
  <2>1. Entry("lapsed", "system", "expired") \in Entries
    BY DEF Entry, Entries, SystemActions, ActorTypes, Statuses
  <2> QED
    BY <1>1, <2>1, ExpiredType
<1>2. ASSUME NEW d \in Decisions, new = Decided(doc, d)
      PROVE  \E e \in Entries : new.log = Append(doc.log, e)
  <2>1. Entry(d.action, d.by, Overall(doc, d)) \in Entries
    BY OverallType DEF Entry, Entries, Decisions
  <2> QED
    BY <1>2, <2>1, DecidedType
<1>3. ASSUME NEW by \in ActorTypes, new = WithException(doc, by)
      PROVE  \E e \in Entries : new.log = Append(doc.log, e)
  <2>1. Entry("exception_requested", by, doc.status) \in Entries
    BY <1>0 DEF Entry, Entries, SystemActions
  <2> QED
    BY <1>3, <2>1, WithExceptionType
<1>4. ASSUME NEW q \in Requests, new = Replaced(doc, q)
      PROVE  \E e \in Entries : new.log = Append(doc.log, e)
  <2>1. Entry("replaced", "system", "superseded") \in Entries
    BY DEF Entry, Entries, SystemActions, ActorTypes, Statuses
  <2> QED
    BY <1>4, <2>1, ReplacedType
<1> QED
  BY <1>1, <1>2, <1>3, <1>4 DEF MadeFrom

\* The entries of a new request are those of its creation.
LEMMA CreationEntries ==
    ASSUME NEW n \in 0..MaxSteps, NEW v \in Verdicts, NEW b \in BOOLEAN,
           NEW e \in EntriesOf(NewDocument(n, v, b))
    PROVE  e.action \in CreationActions
<1> DEFINE log == NewDocument(n, v, b).log
           e1 == Entry("recommended", "system", InitialStatus(n, v, b))
           e2 == Entry("recommended", "system", "pending_approval")
           e3 == Entry(IF n > 0 \/ b THEN "routed" ELSE "auto_cleared",
                       "system", InitialStatus(n, v, b))
<1>1. log = IF v \in {"REJECT", "DEFER"} THEN <<e1>> ELSE <<e2, e3>>
  BY DEF NewDocument, InitialLog
<1>2. /\ e1.action \in CreationActions /\ e2.action \in CreationActions
      /\ e3.action \in CreationActions
  BY DEF Entry, CreationActions
<1>3. PICK i \in 1..Len(log) : e = log[i]
  BY DEF EntriesOf
<1> HIDE DEF log, e1, e2, e3
<1>4. log[i] \in {e1, e2, e3}
  <2>1. CASE v \in {"REJECT", "DEFER"}
    BY <1>1, <2>1
  <2>2. CASE v \notin {"REJECT", "DEFER"}
    BY <1>1, <2>2
  <2> QED
    BY <2>1, <2>2
<1> QED
  BY <1>2, <1>3, <1>4

\* No decision of a document is rewritten or lost.
LogsGrow ==
    \A r \in Requests :
        /\ Len(docs[r].log) <= Len(docs'[r].log)
        /\ \A i \in 1..Len(docs[r].log) : docs'[r].log[i] = docs[r].log[i]

LEMMA LogsOnlyGrow ==
    ASSUME Alone, AloneInv, [Next]_vars
    PROVE  LogsGrow
<1>0. /\ docs \in [Requests -> Documents]
      /\ \A r \in Requests : Len(docs[r].log) \in Nat /\ LegalWalk(docs[r])
  BY DEF AloneInv, DocInv, TypeInv, TypeOK, Documents, CopyOK
<1>1. CASE docs' = docs
  BY <1>0, <1>1 DEF LogsGrow
<1>2. ASSUME NEW r \in Requests, NEW new \in Documents, Set(r, new),
             MadeFrom(docs[r], new)
      PROVE  LogsGrow
  <2>1. \A q \in Requests : docs'[q] = IF q = r THEN new ELSE docs[q]
    BY <1>0, <1>2 DEF Set
  <2>2. Len(new.log) \in Nat
    BY DEF Documents
  <2>3. CASE docs[r].status = "absent"
    <3>1. Len(docs[r].log) = 0
      BY <1>0, <2>3 DEF LegalWalk
    <3> QED
      BY <1>0, <2>1, <2>2, <3>1 DEF LogsGrow
  <2>4. CASE docs[r].status # "absent"
    <3>1. PICK e \in Entries : new.log = Append(docs[r].log, e)
      BY <1>0, <1>2, <2>4, MadeFromLog
    <3>2. /\ Len(new.log) = Len(docs[r].log) + 1
          /\ \A i \in 1..Len(docs[r].log) : new.log[i] = docs[r].log[i]
      BY <1>0, <3>1, EntriesOfAppend
    <3> QED
      BY <1>0, <2>1, <3>2 DEF LogsGrow
  <2> QED
    BY <2>3, <2>4
<1> QED
  BY <1>1, <1>2, Writes

\* The entries of request r's document are in the audit stream A, or the handler
\* that wrote the last one is about to append it.
Audited(r, doc, A, H) ==
    \A e \in EntriesOf(doc) :
        \/ e.action \in CreationActions
        \/ <<r, e>> \in A
        \/ \E t \in Threads : /\ H[t].pc \in {"lapse", "audit"}
                             /\ H[t].rid = r
                             /\ e = LastEntry(H[t].buf)

AuditInv == \A r \in Requests : Audited(r, docs[r], audit, handler)

\* A handler that is not about to append leaves nothing to append.
LEMMA NothingPending ==
    ASSUME Alone, AuditInv, NEW t \in Threads,
           handler[t].pc \notin {"lapse", "audit"}
    PROVE  \A r \in Requests : \A H : Audited(r, docs[r], audit, H)
BY DEF Alone, AuditInv, Audited

\* A write leaves every entry audited, or audited by the next XADD.
LEMMA AuditWrite ==
    ASSUME Alone, AloneInv, AuditInv, NEW t \in Threads,
           Updates(t), audit' = audit, handler[t].pc \notin {"lapse", "audit"}
    PROVE  AuditInv'
<1>0. docs \in [Requests -> Documents]
  BY DEF AloneInv, DocInv, TypeInv, TypeOK
<1>1. PICK r \in Requests, new \in Documents :
         /\ Set(r, new) /\ MadeFrom(docs[r], new)
         /\ \/ docs[r].status = "absent"
            \/ /\ handler'[t].pc \in {"lapse", "audit"}
               /\ handler'[t].rid = r /\ handler'[t].buf = new
  BY DEF Updates
<1>2. \A q \in Requests : docs'[q] = IF q = r THEN new ELSE docs[q]
  BY <1>0, <1>1 DEF Set
<1>3. \A q \in Requests : Audited(q, docs[q], audit, handler')
  BY NothingPending
<1>4. Audited(r, new, audit, handler')
  <2>1. CASE docs[r].status = "absent"
    <3>1. \A e \in EntriesOf(new) : e.action \in CreationActions
      BY <1>1, <2>1, CreationEntries DEF MadeFrom
    <3> QED
      BY <3>1 DEF Audited
  <2>2. CASE docs[r].status # "absent"
    <3>1. PICK last \in Entries : new.log = Append(docs[r].log, last)
      BY <1>0, <1>1, <2>2, MadeFromLog
    <3>2. EntriesOf(new) = EntriesOf(docs[r]) \cup {last} /\ LastEntry(new) = last
      BY <1>0, <3>1, EntriesOfAppend
    <3> QED
      BY <1>1, <1>3, <2>2, <3>2 DEF Audited
  <2> QED
    BY <2>1, <2>2
<1> QED
  BY <1>1, <1>2, <1>3, <1>4 DEF AuditInv

LEMMA AuditStep ==
    ASSUME Alone, ~CanFail, AloneInv, AuditInv, [Next]_vars
    PROVE  AuditInv'
<1>0. TypeInv /\ SeqInv
  BY DEF AloneInv, DocInv
<1>1. CASE UNCHANGED vars \/ \E r \in Requests : Lapse(r)
  BY <1>1 DEF vars, Lapse, AuditInv
<1>2. ASSUME NEW t \in Threads,
             \/ SaveExpiry(t) \/ Decide(t) \/ AttachException(t)
             \/ SavePrior(t) \/ SaveNew(t)
      PROVE  AuditInv'
  <2>1. audit' = audit /\ handler[t].pc \notin {"lapse", "audit"}
    BY <1>2 DEF SaveExpiry, Decide, AttachException, SavePrior, SaveNew, At
  <2> QED
    BY <1>0, <1>2, <2>1, SeqWrite, AuditWrite
<1>3. ASSUME NEW t \in Threads,
             \/ \E r \in Requests, op \in Operations : Open(t, op, r)
             \/ StartList(t)
             \/ \E r \in Requests : StartCreate(t, r)
             \/ Refuse(t) \/ RefreshDone(t) \/ AuditNew(t)
             \/ \E q \in Requests : RefreshExpire(t, q) \/ RefreshKeep(t, q)
                                    \/ LoadPrior(t, q)
      PROVE  AuditInv'
  <2>1. /\ docs' = docs /\ audit \subseteq audit'
        /\ handler[t].pc \notin {"lapse", "audit"}
    BY <1>3 DEF Open, StartList, StartCreate, Begin, Refuse, RefreshDone, AuditNew,
                RefreshExpire, RefreshKeep, LoadPrior, At
  <2>2. \A q \in Requests : Audited(q, docs[q], audit, handler')
    BY <2>1, NothingPending
  <2> QED
    BY <2>1, <2>2 DEF AuditInv, Audited
<1>4. ASSUME NEW t \in Threads, AuditExpiry(t) \/ AppendAudit(t)
      PROVE  AuditInv'
  <2>1. /\ docs' = docs
        /\ audit' = audit \cup {<<handler[t].rid, LastEntry(handler[t].buf)>>}
    BY <1>4 DEF AuditExpiry, AppendAudit
  <2>2. ASSUME NEW q \in Requests, NEW e \in EntriesOf(docs[q])
        PROVE  e.action \in CreationActions \/ <<q, e>> \in audit'
    <3>1. CASE \E u \in Threads : /\ handler[u].rid = q
                                 /\ e = LastEntry(handler[u].buf)
      BY <2>1, <3>1 DEF Alone
    <3>2. CASE e.action \in CreationActions \/ <<q, e>> \in audit
      BY <2>1, <3>2
    <3> QED
      BY <2>2, <3>1, <3>2 DEF AuditInv, Audited
  <2>3. \A q \in Requests : Audited(q, docs[q], audit', handler')
    BY <2>2 DEF Audited
  <2> QED
    BY <2>1, <2>3 DEF AuditInv
<1> QED
  BY <1>1, <1>2, <1>3, <1>4 DEF Next, Step, Fail, DropFromPage

\* With one handler at a time and no failing command, no step rewrites or loses
\* a recorded decision, and every decision is in the audit stream or about to be.
THEOREM DecisionsStay ==
    ASSUME Alone, ~CanFail PROVE Spec => DecisionsAreImmutable
<1>1. Init => AloneInv /\ AuditInv
  <2>1. Init => AloneInv
    BY DocInit, SeqInit DEF AloneInv
  <2>2. Init => AuditInv
    BY DEF Init, AuditInv, Audited, EntriesOf, Absent
  <2> QED
    BY <2>1, <2>2
<1>2. AloneInv /\ AuditInv /\ [Next]_vars => AloneInv' /\ AuditInv'
  BY AloneStep, AuditStep
<1>3. AuditInv => AuditComplete
  BY DEF AuditInv, Audited, AuditComplete
<1>4. AloneInv /\ [Next]_vars => LogsGrow
  BY LogsOnlyGrow
<1> QED
  BY <1>1, <1>2, <1>3, <1>4, PTL DEF Spec, DecisionsAreImmutable, LogsGrow

(***************************************************************************)
(* A creation leaves no earlier request of its topic waiting.              *)
(***************************************************************************)

\* One listing returns every request there is.
FitsOnePage == IsFiniteSet(Requests) /\ Cardinality(Requests) <= PageLimit

\* The pending requests of D are listed by the creation that h runs, and those
\* of its topic that it has not superseded yet are still to do.
ListsPending(h, D) ==
    /\ h.op = "create" /\ h.pc \in {"refresh", "expire", "lapse"} =>
          \A q \in Requests : D[q].status = "pending_approval" =>
             h.page[q].status # "absent"
    /\ h.op = "create" /\ h.pc \in {"supersede", "replace", "audit"} =>
          \A q \in Requests \ {h.new} :
             D[q].status = "pending_approval" /\ Topic[q] = Topic[h.new] =>
                q \in h.todo \/ (h.pc = "replace" /\ q = h.rid)

PendingInv == \A t \in Threads : ListsPending(handler[t], docs)

\* A page that holds everything returns the whole pool.
LEMMA WholePage ==
    ASSUME FitsOnePage, NEW pool \in SUBSET Requests, NEW S \in Pages(pool)
    PROVE  S = pool
<1>1. /\ IsFiniteSet(pool) /\ Cardinality(pool) \in Nat
      /\ Cardinality(pool) <= Cardinality(Requests) /\ Cardinality(Requests) \in Nat
  BY FS_Subset, FS_CardinalityType DEF FitsOnePage
<1>2. S \subseteq pool /\ Cardinality(S) = Cardinality(pool)
  BY <1>1, BoundsAssumption DEF Pages, FitsOnePage
<1> QED
  BY <1>1, <1>2, FS_Subset

\* A creation begins with every pending request on its page.
LEMMA PendingBegin ==
    ASSUME Alone, FitsOnePage, TypeInv, NEW t \in Threads,
           \/ \E r \in Requests, op \in Operations : Open(t, op, r)
           \/ StartList(t)
           \/ \E r \in Requests : StartCreate(t, r)
    PROVE  PendingInv'
<1>0. docs' = docs /\ handler \in [Threads -> Handlers]
  BY DEF Open, StartList, StartCreate, TypeInv, TypeOK
<1>1. SUFFICES ListsPending(handler'[t], docs)
  BY <1>0 DEF PendingInv, Alone
<1>2. ASSUME NEW r \in Requests, NEW op \in Operations, Open(t, op, r)
      PROVE  ListsPending(handler'[t], docs)
  <2>1. handler'[t].op = op
    BY <1>0, <1>2 DEF Open, Begin, Idle
  <2> QED
    BY <2>1 DEF ListsPending, Operations
<1>3. CASE StartList(t)
  <2>1. handler'[t].op = "list"
    BY <1>0, <1>3 DEF StartList, Begin, Listing, Idle
  <2> QED
    BY <2>1 DEF ListsPending
<1>4. ASSUME NEW r \in Requests, StartCreate(t, r)
      PROVE  ListsPending(handler'[t], docs)
  <2>1. PICK S \in Pages(Pending) : Begin(t, Listing("create", r, S))
    BY <1>4 DEF StartCreate
  <2>2. S = Pending
    BY <2>1, WholePage DEF Pending
  <2> DEFINE l == Listing("create", r, S)
  <2>3. handler'[t] = l
    BY <1>0, <2>1 DEF Begin
  <2>4. l.pc = "refresh"
        /\ l.page = [q \in Requests |-> IF q \in S THEN docs[q] ELSE Absent]
    BY DEF Listing, Idle
  <2>5. \A q \in Requests : docs[q].status = "pending_approval" =>
           l.page[q].status # "absent"
    BY <2>2, <2>4 DEF Pending
  <2> HIDE DEF l
  <2> QED
    BY <2>3, <2>4, <2>5 DEF ListsPending
<1> QED
  BY <1>2, <1>3, <1>4

\* The steps of a running handler keep track of every pending request.
LEMMA PendingMove ==
    ASSUME Alone, TypeInv, PendingInv, NEW t \in Threads,
           \/ AuditExpiry(t) \/ Refuse(t) \/ AppendAudit(t)
           \/ \E q \in Requests : RefreshExpire(t, q) \/ RefreshKeep(t, q)
                                  \/ LoadPrior(t, q)
           \/ RefreshDone(t) \/ AuditNew(t)
    PROVE  PendingInv'
<1> DEFINE h == handler[t]
<1>0. /\ h \in Handlers /\ HandlerInv(h) /\ ListsPending(h, docs)
      /\ handler \in [Threads -> Handlers] /\ docs' = docs
  BY DEF PendingInv, TypeInv, TypeOK, AuditExpiry, Refuse, AppendAudit,
         RefreshExpire, RefreshKeep, LoadPrior, RefreshDone, AuditNew
<1>1. SUFFICES \E g : Goto(t, g) /\ ListsPending(g, docs)
  BY <1>0 DEF PendingInv, Alone, Goto
<1>2. ListsPending(Idle, docs)
  BY DEF ListsPending, Idle
<1>3. CASE Refuse(t) \/ AuditNew(t)
  BY <1>2, <1>3 DEF Refuse, AuditNew
<1>4. CASE AuditExpiry(t)
  <2> DEFINE a == [h EXCEPT !.pc = "act"]
             b == [h EXCEPT !.pc = "refresh", !.rid = None, !.buf = Absent]
  <2>1. (Goto(t, Idle) \/ Goto(t, a) \/ Goto(t, b)) /\ h.pc = "lapse"
    BY <1>4 DEF AuditExpiry, At
  <2>2. ListsPending(a, docs) /\ ListsPending(b, docs)
    BY <1>0, <2>1 DEF ListsPending, Handlers
  <2> QED
    BY <1>2, <2>1, <2>2
<1>5. CASE AppendAudit(t)
  <2> DEFINE b == [h EXCEPT !.pc = "supersede", !.rid = None, !.buf = Absent]
  <2>1. (Goto(t, Idle) \/ Goto(t, b)) /\ h.pc = "audit"
    BY <1>5 DEF AppendAudit, At
  <2>2. ListsPending(b, docs)
    BY <1>0, <2>1 DEF ListsPending, Handlers
  <2> QED
    BY <1>2, <2>1, <2>2
<1>6. ASSUME NEW q \in Requests, RefreshExpire(t, q) \/ RefreshKeep(t, q)
      PROVE  \E g : Goto(t, g) /\ ListsPending(g, docs)
  <2> DEFINE a == [h EXCEPT !.pc = "expire", !.rid = q, !.todo = @ \ {q},
                            !.buf = Expired(h.page[q])]
             b == [h EXCEPT !.todo = @ \ {q}]
  <2>1. (Goto(t, a) \/ Goto(t, b)) /\ h.pc = "refresh"
    BY <1>6 DEF RefreshExpire, RefreshKeep, At
  <2>2. ListsPending(a, docs) /\ ListsPending(b, docs)
    BY <1>0, <2>1 DEF ListsPending, Handlers
  <2> QED
    BY <2>1, <2>2
<1>7. ASSUME NEW q \in Requests, LoadPrior(t, q)
      PROVE  \E g : Goto(t, g) /\ ListsPending(g, docs)
  <2> DEFINE a == [h EXCEPT !.todo = @ \ {q}]
             b == [h EXCEPT !.pc = "replace", !.rid = q, !.todo = @ \ {q},
                            !.buf = Replaced(docs[q], h.new)]
  <2>1. /\ h.pc = "supersede"
        /\ \/ Goto(t, a) /\ docs[q].status = "superseded"
           \/ Goto(t, b)
    BY <1>7 DEF LoadPrior, At
  <2>2. ASSUME docs[q].status = "superseded" PROVE ListsPending(a, docs)
    BY <1>0, <2>1, <2>2 DEF ListsPending, Handlers
  <2>3. ListsPending(b, docs)
    BY <1>0, <2>1 DEF ListsPending, Handlers
  <2> QED
    BY <2>1, <2>2, <2>3
<1>8. CASE RefreshDone(t)
  <2> DEFINE prior == {q \in Requests : /\ h.page[q].status # "absent"
                                        /\ q # h.new
                                        /\ Topic[q] = Topic[h.new]}
             b == [h EXCEPT !.pc = "supersede", !.page = EmptyPage, !.todo = prior]
  <2>1. /\ h.pc = "refresh"
        /\ Goto(t, Idle) \/ (Goto(t, b) /\ h.op = "create")
    BY <1>8 DEF RefreshDone, At
  <2>2. /\ b.pc = "supersede" /\ b.todo = prior /\ b.new = h.new
    BY <1>0 DEF Handlers
  <2>3. h.op = "create" => \A q \in Requests \ {h.new} :
           docs[q].status = "pending_approval" /\ Topic[q] = Topic[h.new] => q \in prior
    BY <1>0, <2>1 DEF ListsPending
  <2> HIDE DEF b, prior
  <2>4. h.op = "create" => ListsPending(b, docs)
    BY <2>2, <2>3 DEF ListsPending
  <2> QED
    BY <1>2, <2>1, <2>4 DEF b, prior
<1> QED
  BY <1>3, <1>4, <1>5, <1>6, <1>7, <1>8

\* The writes of a running handler: what it supersedes or expires is no longer
\* pending.
LEMMA PendingWrite ==
    ASSUME Alone, TypeInv, SeqInv, PendingInv, NEW t \in Threads,
           \/ SaveExpiry(t) \/ Decide(t) \/ AttachException(t)
           \/ SavePrior(t) \/ SaveNew(t)
    PROVE  PendingInv'
<1> DEFINE h == handler[t]
<1>0. /\ h \in Handlers /\ HandlerInv(h) /\ ListsPending(h, docs)
      /\ Fits(h, docs, issued)
      /\ handler \in [Threads -> Handlers] /\ docs \in [Requests -> Documents]
  BY DEF PendingInv, SeqInv, TypeInv, TypeOK
<1>1. SUFFICES \E g : Goto(t, g) /\ ListsPending(g, docs')
  BY <1>0 DEF PendingInv, Alone, Goto
<1>2. CASE SaveExpiry(t) \/ SavePrior(t)
  <2> DEFINE a == [h EXCEPT !.pc = "lapse"]
             b == [h EXCEPT !.pc = "audit"]
  <2>1. /\ Set(h.rid, h.buf)
        /\ \/ h.pc = "expire" /\ Goto(t, a)
           \/ h.pc = "replace" /\ Goto(t, b)
    BY <1>2 DEF SaveExpiry, SavePrior, At
  <2>2. h.rid \in Requests /\ (h.pc = "replace" => h.new \in Requests)
    BY <1>0, <2>1 DEF HandlerInv
  <2>3. h.buf.status \in {"expired", "superseded"}
    <3>1. docs[h.rid] \in Documents
      BY <1>0, <2>2
    <3> QED
      BY <1>0, <2>1, <2>2, <3>1, ExpiredType, ReplacedType DEF Fits, CopyFits
  <2>4. \A q \in Requests : docs'[q].status = "pending_approval" =>
           q # h.rid /\ docs[q].status = "pending_approval"
    BY <1>0, <2>1, <2>2, <2>3 DEF Set
  <2>5. h.pc = "expire" => ListsPending(a, docs')
    BY <1>0, <2>4 DEF ListsPending, Handlers
  <2>6. h.pc = "replace" => ListsPending(b, docs')
    BY <1>0, <2>4 DEF ListsPending, Handlers
  <2> QED
    BY <2>1, <2>5, <2>6
<1>3. CASE Decide(t) \/ AttachException(t)
  <2>1. /\ \E new : Goto(t, [h EXCEPT !.pc = "audit", !.buf = new])
        /\ h.op # "create"
    BY <1>3 DEF Decide, AttachException
  <2>2. \A new : ListsPending([h EXCEPT !.pc = "audit", !.buf = new], docs')
    BY <1>0, <2>1 DEF ListsPending, Handlers
  <2> QED
    BY <2>1, <2>2
<1>4. CASE SaveNew(t)
  <2>1. \E new : Goto(t, [h EXCEPT !.pc = "created", !.buf = new])
    BY <1>4 DEF SaveNew
  <2>2. \A new : ListsPending([h EXCEPT !.pc = "created", !.buf = new], docs')
    BY <1>0 DEF ListsPending, Handlers
  <2> QED
    BY <2>1, <2>2
<1> QED
  BY <1>2, <1>3, <1>4

LEMMA PendingStep ==
    ASSUME Alone, ~CanFail, FitsOnePage, AloneInv, PendingInv, [Next]_vars
    PROVE  PendingInv'
<1>0. TypeInv /\ SeqInv
  BY DEF AloneInv, DocInv
<1>1. CASE UNCHANGED vars \/ \E r \in Requests : Lapse(r)
  BY <1>1 DEF vars, Lapse, PendingInv
<1> QED
  BY <1>0, <1>1, PendingBegin, PendingMove, PendingWrite
     DEF Next, Step, Fail, DropFromPage

\* When a request is stored, no other of its topic waits for approval.
OneLive ==
    \A r \in Requests : docs[r].status = "absent" /\ docs'[r].status # "absent"
       => \A q \in Requests \ {r} :
             Topic[q] = Topic[r] => docs'[q].status # "pending_approval"

LEMMA OneLiveStep ==
    ASSUME Alone, AloneInv, PendingInv, [Next]_vars
    PROVE  OneLive
<1>0. /\ TypeInv /\ SeqInv /\ docs \in [Requests -> Documents]
  BY DEF AloneInv, DocInv, TypeInv, TypeOK
<1>1. CASE docs' = docs
  BY <1>1 DEF OneLive
<1>2. ASSUME NEW t \in Threads, SaveNew(t) PROVE OneLive
  <2> DEFINE h == handler[t]
  <2>1. /\ h.pc = "supersede" /\ h.op = "create" /\ h.todo = {} /\ h.new \in Requests
        /\ ListsPending(h, docs)
    BY <1>0, <1>2 DEF SaveNew, At, TypeInv, HandlerInv, PendingInv
  <2>2. \A q \in Requests \ {h.new} : docs'[q] = docs[q]
    BY <1>0, <1>2 DEF SaveNew, Set
  <2>3. \A q \in Requests \ {h.new} :
           Topic[q] = Topic[h.new] => docs[q].status # "pending_approval"
    BY <2>1 DEF ListsPending
  <2> QED
    BY <2>2, <2>3 DEF OneLive
<1>3. ASSUME NEW t \in Threads,
             \/ SaveExpiry(t) \/ Decide(t) \/ AttachException(t) \/ SavePrior(t)
      PROVE  OneLive
  <2> DEFINE h == handler[t]
  <2>1. /\ Fits(h, docs, issued) /\ HandlerInv(h)
        /\ h.pc \in {"expire", "act", "replace"}
        /\ \E new : Set(h.rid, new)
    BY <1>0, <1>3 DEF SeqInv, TypeInv, SaveExpiry, Decide, AttachException,
                      SavePrior, At
  <2>2. docs[h.rid].status # "absent"
    BY <2>1 DEF Fits, CopyFits, IsIn
  <2>3. \A q \in Requests : docs[q].status = "absent" => docs'[q] = docs[q]
    BY <1>0, <2>1, <2>2 DEF Set
  <2> QED
    BY <2>3 DEF OneLive
<1>4. ASSUME ~UNCHANGED docs
      PROVE  \E t \in Threads : \/ SaveExpiry(t) \/ Decide(t) \/ AttachException(t)
                                \/ SavePrior(t) \/ SaveNew(t)
  BY <1>4 DEF Next, Step, vars, Open, StartList, StartCreate, AuditExpiry, Refuse,
              AppendAudit, RefreshExpire, RefreshKeep, LoadPrior, RefreshDone,
              AuditNew, Fail, DropFromPage, Lapse
<1> QED
  BY <1>1, <1>2, <1>3, <1>4

\* With one handler at a time, no failing command and listings that fit one page,
\* a request is stored only once every other of its topic has stopped waiting.
THEOREM OneRequestWaits ==
    ASSUME Alone, ~CanFail, FitsOnePage PROVE Spec => CreateLeavesOneLive
<1>1. Init => AloneInv /\ PendingInv
  <2>1. Init => AloneInv
    BY DocInit, SeqInit DEF AloneInv
  <2>2. Init => PendingInv
    BY DEF Init, PendingInv, ListsPending, Idle
  <2> QED
    BY <2>1, <2>2
<1>2. AloneInv /\ PendingInv /\ [Next]_vars => AloneInv' /\ PendingInv'
  BY AloneStep, PendingStep
<1>3. AloneInv /\ PendingInv /\ [Next]_vars => OneLive
  BY OneLiveStep
<1> QED
  BY <1>1, <1>2, <1>3, PTL DEF Spec, CreateLeavesOneLive, OneLive
=============================================================================
