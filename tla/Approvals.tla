----------------------------- MODULE Approvals -----------------------------
(***************************************************************************)
(* The approvals service of the finance council (agent/src/approvals.py,   *)
(* and the part of agent/src/governance.py that creates requests), at the  *)
(* granularity of the Redis commands it issues.                            *)
(*                                                                         *)
(* A request lives in Redis as ONE JSON document.  Every handler reads the *)
(* whole document (JSON.GET), changes its own copy and writes the whole    *)
(* copy back (JSON.SET), then appends what it did to the audit stream      *)
(* (XADD).  Nothing locks or watches the document, and the routes of       *)
(* api.py run in a pool of threads beside the debate graph, so the     *)
(* commands of two handlers interleave freely.                             *)
(*                                                                         *)
(* Data the properties do not tell apart is left out: names, rationales,   *)
(* amounts, conditions, obligations, exceptions (a list nothing reads) and *)
(* dashboard notifications.  Local computation between two commands is one *)
(* step with the command it prepares; call arguments are chosen at the     *)
(* step that first uses them.                                              *)
(*                                                                         *)
(* Definitions marked "Mutation:" are not part of the specification: each  *)
(* is a plausible bug in the definition that follows it, kept to show which *)
(* property would notice.                                                  *)
(***************************************************************************)
EXTENDS Integers, Sequences, FiniteSets

CONSTANTS
    Threads,    \* handlers that may be running at the same time
    Requests,   \* the request ids that uuid4 will hand out
    None,       \* no request
    Topic,      \* the normalised title a request will be created with
    MaxSteps,   \* longest approval route
    PageLimit,  \* documents a listing returns (the code asks for 100)
    Selectors,  \* step_sequence / approver_role arguments clients send
    MaxCalls,   \* bound of the model: how many calls are started
    CanFail     \* a Redis command may raise, or the process may die

Slots == 1..MaxSteps

ASSUME NoneAssumption == None \notin Requests
ASSUME BoundsAssumption ==
    /\ MaxSteps \in Nat
    /\ PageLimit \in Nat \ {0}
    /\ MaxCalls \in Nat
    /\ CanFail \in BOOLEAN
ASSUME SelectorsAssumption == Selectors \subseteq [seq : Nat, role : Nat]

VARIABLES
    docs,     \* atlas:approval:<id>, the stored document of each request
    audit,    \* atlas:stream:audit, as the set of <<request, entry>>
    lapsed,   \* requests whose expires_at is in the past
    handler,  \* the running call of each thread
    issued,   \* ids already handed out
    calls     \* calls started so far

vars == <<docs, audit, lapsed, handler, issued, calls>>

(***************************************************************************)
(* Documents.                                                              *)
(***************************************************************************)
Statuses == {"draft", "pending_approval", "approved", "rejected",
             "conditionally_approved", "expired", "superseded"}
SignedOff == {"approved", "conditionally_approved"}

\* record_decision distinguishes only human actors from all others.
ActorTypes == {"human", "system"}

HumanSignoffActions == {"approved", "conditionally_approved"}

DecisionActions == {"approved", "conditionally_approved", "rejected",
                    "expired", "superseded", "reopened"}

\* _ACTION_TO_STATUS
StatusOf(action) == IF action = "reopened" THEN "pending_approval" ELSE action

\* Entries the service writes itself.  "lapsed" and "replaced" are the code's
\* "expired" and "superseded" with provenance "system", told apart from the same
\* words in a client's decision.
CreationActions == {"recommended", "routed", "auto_cleared"}
SystemActions == {"lapsed", "replaced", "exception_requested",
                  "request_created"}

Entries == [action : DecisionActions \cup CreationActions \cup SystemActions,
            by : ActorTypes,
            after : Statuses]
Entry(action, by, after) == [action |-> action, by |-> by, after |-> after]

\* A step of the route; roles are unique in a route, so step i stands for its
\* role too.  "none" marks a slot beyond the end of the route.
Steps == [status : Statuses \cup {"none"}, by : ActorTypes \cup {"nobody"}]
NoStep == [status |-> "none", by |-> "nobody"]
OpenStep == [status |-> "pending_approval", by |-> "nobody"]

Documents == [status : Statuses \cup {"absent"},
              steps : [Slots -> Steps],
              log : Seq(Entries),
              replacedBy : Requests \cup {None}]
Absent == [status |-> "absent",
           steps |-> [i \in Slots |-> NoStep],
           log |-> <<>>,
           replacedBy |-> None]
Stored == {r \in Requests : docs[r].status # "absent"}

\* Mutation: a late decision may still be taken on an expired request.
CanTransitionLate(from, to) ==
    \/ from = to
    \/ from \in {"draft", "pending_approval", "expired"} /\ to \in Statuses
    \/ from = "conditionally_approved" /\ to # "draft"
    \/ from \in {"approved", "rejected"} /\ to = "superseded"

\* _VALID_TRANSITIONS and can_transition
CanTransition(from, to) ==
    \/ from = to
    \/ from = "draft" /\ to \in Statuses
    \/ from = "pending_approval" /\ to \in Statuses \ {"draft"}
    \/ /\ from = "conditionally_approved"
       /\ to \in {"approved", "rejected", "expired", "superseded"}
    \/ from \in {"approved", "rejected"} /\ to = "superseded"
    \/ from = "expired" /\ to \in {"superseded", "pending_approval"}

\* Mutation: the decisions are assigned, not appended to.
LoggedAfresh(doc, s, action, by) ==
    [doc EXCEPT !.status = s, !.log = <<Entry(action, by, s)>>]

\* req.status = s; req.decisions.append(ApprovalDecision(...))
Logged(doc, s, action, by) ==
    [doc EXCEPT !.status = s, !.log = Append(@, Entry(action, by, s))]

(***************************************************************************)
(* What each operation does to its copy of a document.                     *)
(***************************************************************************)
\* refresh_status: only a pending request past its deadline expires.
NeedsExpiry(r, doc) == doc.status = "pending_approval" /\ r \in lapsed
Expired(doc) == Logged(doc, "expired", "lapsed", "system")

\* supersede_request
Replaced(doc, new) ==
    [Logged(doc, "superseded", "replaced", "system") EXCEPT !.replacedBy = new]

\* request_exception
WithException(doc, by) == Logged(doc, doc.status, "exception_requested", by)

\* record_decision's arguments: an action, who acts, and the step it is about.
WholeRequest == [seq |-> 0, role |-> 0]
Decisions == [action : DecisionActions,
              by : ActorTypes,
              sel : Selectors \cup {WholeRequest}]

\* A step matches by its sequence number whatever its status, by its role only
\* while it is pending.
Matches(doc, sel, i) ==
    /\ doc.steps[i].status # "none"
    /\ \/ sel.seq = i
       \/ sel.role = i /\ doc.steps[i].status = "pending_approval"

\* The first matching step, or every pending step when no step is named.
Chosen(doc, sel, i) ==
    IF sel = WholeRequest
    THEN doc.steps[i].status = "pending_approval"
    ELSE Matches(doc, sel, i) /\ \A j \in 1..(i - 1) : ~Matches(doc, sel, j)

\* Mutation: a step is stamped with the action instead of its status.
StampedWithAction(doc, d) ==
    [i \in Slots |-> IF Chosen(doc, d.sel, i)
                     THEN [status |-> d.action, by |-> d.by]
                     ELSE doc.steps[i]]

\* The chosen steps take the status of the action and its actor.
Stamped(doc, d) ==
    [i \in Slots |-> IF Chosen(doc, d.sel, i)
                     THEN [status |-> StatusOf(d.action), by |-> d.by]
                     ELSE doc.steps[i]]

\* _recompute_status_from_steps
Recomputed(status, steps) ==
    LET given == {steps[i].status : i \in Slots} \ {"none"}
    IN  IF given = {} THEN status
        ELSE IF "rejected" \in given THEN "rejected"
        ELSE IF given \subseteq SignedOff
             THEN IF "conditionally_approved" \in given
                  THEN "conditionally_approved" ELSE "approved"
        ELSE "pending_approval"

Overall(doc, d) ==
    IF d.sel = WholeRequest \/ d.action = "reopened"
    THEN StatusOf(d.action)
    ELSE Recomputed(doc.status, Stamped(doc, d))

\* Mutation: the actor of a sign-off is not checked.
AcceptsAnyActor(doc, d) ==
    /\ doc.status # "superseded"
    /\ CanTransition(doc.status, Overall(doc, d))

\* Mutation: the transition is not checked.
AcceptsAnyMove(doc, d) ==
    /\ d.action \in HumanSignoffActions => d.by = "human"
    /\ doc.status # "superseded"

\* The checks that end in PermissionError or ValueError.
Accepts(doc, d) ==
    /\ d.action \in HumanSignoffActions => d.by = "human"
    /\ doc.status # "superseded"
    /\ CanTransition(doc.status, Overall(doc, d))

Decided(doc, d) ==
    [Logged(doc, Overall(doc, d), d.action, d.by) EXCEPT
        !.steps = Stamped(doc, d)]

\* _build_request and _determine_status_and_decisions: n approvers on the route,
\* the council's verdict, whether a blocking control is engaged.  The entries of
\* the exceptions that engaged controls ask for are left out with the exceptions.
Verdicts == {"REJECT", "DEFER", "CONDITIONAL", "APPROVE"}

\* Mutation: only a blocking control keeps a request waiting for its approvers.
InitialStatusUnrouted(n, verdict, blocking) ==
    IF verdict = "REJECT" THEN "rejected"
    ELSE IF verdict = "DEFER" THEN "draft"
    ELSE IF blocking THEN "pending_approval"
    ELSE IF verdict = "CONDITIONAL" THEN "conditionally_approved"
    ELSE "approved"

InitialStatus(n, verdict, blocking) ==
    IF verdict = "REJECT" THEN "rejected"
    ELSE IF verdict = "DEFER" THEN "draft"
    ELSE IF n > 0 \/ blocking THEN "pending_approval"
    ELSE IF verdict = "CONDITIONAL" THEN "conditionally_approved"
    ELSE "approved"

InitialLog(n, verdict, blocking) ==
    LET s == InitialStatus(n, verdict, blocking)
    IN  IF verdict \in {"REJECT", "DEFER"}
        THEN <<Entry("recommended", "system", s)>>
        ELSE <<Entry("recommended", "system", "pending_approval"),
               Entry(IF n > 0 \/ blocking THEN "routed" ELSE "auto_cleared",
                     "system", s)>>

NewDocument(n, verdict, blocking) ==
    [status |-> InitialStatus(n, verdict, blocking),
     steps |-> [i \in Slots |-> IF i <= n THEN OpenStep ELSE NoStep],
     log |-> InitialLog(n, verdict, blocking),
     replacedBy |-> None]

(***************************************************************************)
(* Handlers.  A handler is between two Redis commands; pc names the next:  *)
(*   expire    SET of the copy that refresh_status expired                 *)
(*   lapse     XADD of that expiry                                         *)
(*   act       SET of the operation itself (its copy is in buf)            *)
(*   refresh   refreshing the documents of a listing (todo, page)          *)
(*   supersede GET of the next prior request, or SET of the new one        *)
(*   replace   SET of a superseded prior request                           *)
(*   audit     XADD of what was just written                               *)
(*   created   XADD of the creation                                        *)
(***************************************************************************)
Operations == {"get", "decide", "exception"}
Handlers == [pc : {"idle", "expire", "lapse", "act", "refresh", "supersede",
                   "replace", "audit", "created"},
             op : Operations \cup {"none", "list", "create"},
             rid : Requests \cup {None},   \* the document in buf
             new : Requests \cup {None},   \* the request being created
             buf : Documents,              \* the handler's copy
             page : [Requests -> Documents], \* what a listing returned
             todo : SUBSET Requests]       \* listed, not handled yet

EmptyPage == [q \in Requests |-> Absent]
Idle == [pc |-> "idle", op |-> "none", rid |-> None, new |-> None,
         buf |-> Absent, page |-> EmptyPage, todo |-> {}]

TypeOK ==
    /\ docs \in [Requests -> Documents]
    /\ audit \subseteq Requests \X Entries
    /\ lapsed \subseteq Requests
    /\ handler \in [Threads -> Handlers]
    /\ issued \subseteq Requests
    /\ calls \in 0..MaxCalls

Init ==
    /\ docs = [r \in Requests |-> Absent]
    /\ audit = {}
    /\ lapsed = {}
    /\ handler = [t \in Threads |-> Idle]
    /\ issued = {}
    /\ calls = 0

At(t, pc) == handler[t].pc = pc
LastEntry(doc) == doc.log[Len(doc.log)]

Begin(t, h) ==
    /\ At(t, "idle")
    /\ calls < MaxCalls
    /\ calls' = calls + 1
    /\ handler' = [handler EXCEPT ![t] = h]

Set(r, doc) == docs' = [docs EXCEPT ![r] = doc]
Goto(t, h) == handler' = [handler EXCEPT ![t] = h]

(* get_request(refresh=True), the first command of three of the routes. *)
Open(t, op, r) ==
    /\ r \in Stored
    /\ \/ /\ NeedsExpiry(r, docs[r])
          /\ Begin(t, [Idle EXCEPT !.pc = "expire", !.op = op, !.rid = r,
                                   !.buf = Expired(docs[r])])
       \/ /\ ~NeedsExpiry(r, docs[r])
          /\ op # "get"      \* nothing left to do for a plain read
          /\ Begin(t, [Idle EXCEPT !.pc = "act", !.op = op, !.rid = r,
                                   !.buf = docs[r]])
    /\ UNCHANGED <<docs, audit, lapsed, issued>>

(* refresh_status saves the expiry it computed ... *)
SaveExpiry(t) ==
    /\ At(t, "expire")
    /\ Set(handler[t].rid, handler[t].buf)
    /\ Goto(t, [handler[t] EXCEPT !.pc = "lapse"])
    /\ UNCHANGED <<audit, lapsed, issued, calls>>

(* ... audits it, and its caller goes on. *)
AuditExpiry(t) ==
    LET h == handler[t] IN
    /\ At(t, "lapse")
    /\ audit' = audit \cup {<<h.rid, LastEntry(h.buf)>>}
    /\ Goto(t, IF h.op = "get" THEN Idle
               ELSE IF h.op \in {"decide", "exception"} THEN [h EXCEPT !.pc = "act"]
               ELSE [h EXCEPT !.pc = "refresh", !.rid = None, !.buf = Absent])
    /\ UNCHANGED <<docs, lapsed, issued, calls>>

(* record_decision: SET of the decided copy. *)
Decide(t) ==
    LET h == handler[t] IN
    /\ At(t, "act") /\ h.op = "decide"
    /\ \E d \in Decisions :
          /\ Accepts(h.buf, d)
          /\ Set(h.rid, Decided(h.buf, d))
          /\ Goto(t, [h EXCEPT !.pc = "audit", !.buf = Decided(h.buf, d)])
    /\ UNCHANGED <<audit, lapsed, issued, calls>>

(* record_decision raises: nothing more is written. *)
Refuse(t) ==
    /\ At(t, "act") /\ handler[t].op = "decide"
    /\ \E d \in Decisions : ~Accepts(handler[t].buf, d)
    /\ Goto(t, Idle)
    /\ UNCHANGED <<docs, audit, lapsed, issued, calls>>

(* request_exception: SET of the copy with the exception attached. *)
AttachException(t) ==
    LET h == handler[t] IN
    /\ At(t, "act") /\ h.op = "exception"
    /\ \E by \in ActorTypes :
          /\ Set(h.rid, WithException(h.buf, by))
          /\ Goto(t, [h EXCEPT !.pc = "audit", !.buf = WithException(h.buf, by)])
    /\ UNCHANGED <<audit, lapsed, issued, calls>>

(* Mutation: supersede_request ends the whole creation. *)
AppendAuditAndStop(t) ==
    /\ At(t, "audit")
    /\ audit' = audit \cup {<<handler[t].rid, LastEntry(handler[t].buf)>>}
    /\ Goto(t, Idle)
    /\ UNCHANGED <<docs, lapsed, issued, calls>>

(* The XADD at the end of save_request. *)
AppendAudit(t) ==
    LET h == handler[t] IN
    /\ At(t, "audit")
    /\ audit' = audit \cup {<<h.rid, LastEntry(h.buf)>>}
    /\ Goto(t, IF h.op = "create"
               THEN [h EXCEPT !.pc = "supersede", !.rid = None, !.buf = Absent]
               ELSE Idle)
    /\ UNCHANGED <<docs, lapsed, issued, calls>>

(* list_requests: one search returns copies of at most PageLimit documents,
   in no particular order. *)
Pages(pool) ==
    {S \in SUBSET pool : Cardinality(S) = IF Cardinality(pool) < PageLimit
                                          THEN Cardinality(pool) ELSE PageLimit}
\* Mutation: the prior requests are looked up by the wrong status.
PendingDrafts == {r \in Requests : docs[r].status = "draft"}
Pending == {r \in Requests : docs[r].status = "pending_approval"}
Listing(op, new, S) ==
    [Idle EXCEPT !.pc = "refresh", !.op = op, !.new = new, !.todo = S,
                 !.page = [q \in Requests |-> IF q \in S THEN docs[q] ELSE Absent]]

StartList(t) ==
    /\ \E S \in Pages(Stored) : S # {} /\ Begin(t, Listing("list", None, S))
    /\ UNCHANGED <<docs, audit, lapsed, issued>>

(* govern_recommendation: supersede_prior_pending lists the pending requests
   before the new request, whose id is fresh, is stored. *)
StartCreate(t, r) ==
    /\ r \notin issued
    /\ issued' = issued \cup {r}
    /\ \E S \in Pages(Pending) : Begin(t, Listing("create", r, S))
    /\ UNCHANGED <<docs, audit, lapsed>>

(* refresh_status on a listed copy, which may be stale by now. *)
RefreshExpire(t, q) ==
    LET h == handler[t] IN
    /\ At(t, "refresh") /\ q \in h.todo /\ NeedsExpiry(q, h.page[q])
    /\ Goto(t, [h EXCEPT !.pc = "expire", !.rid = q, !.todo = @ \ {q},
                         !.buf = Expired(h.page[q])])
    /\ UNCHANGED <<docs, audit, lapsed, issued, calls>>

RefreshKeep(t, q) ==
    LET h == handler[t] IN
    /\ At(t, "refresh") /\ q \in h.todo /\ ~NeedsExpiry(q, h.page[q])
    /\ Goto(t, [h EXCEPT !.todo = @ \ {q}])
    /\ UNCHANGED <<docs, audit, lapsed, issued, calls>>

(* The listing is returned; a creation keeps those of its own topic. *)
RefreshDone(t) ==
    LET h == handler[t]
        prior == {q \in Requests : /\ h.page[q].status # "absent"
                                   /\ q # h.new
                                   /\ Topic[q] = Topic[h.new]}
    IN
    /\ At(t, "refresh") /\ h.todo = {}
    /\ Goto(t, IF h.op = "create"
               THEN [h EXCEPT !.pc = "supersede", !.page = EmptyPage,
                              !.todo = prior]
               ELSE Idle)
    /\ UNCHANGED <<docs, audit, lapsed, issued, calls>>

(* supersede_request: a fresh GET, then the SET of the superseded copy. *)
LoadPrior(t, q) ==
    LET h == handler[t] IN
    /\ At(t, "supersede") /\ q \in h.todo
    /\ Goto(t, IF docs[q].status = "superseded"
               THEN [h EXCEPT !.todo = @ \ {q}]
               ELSE [h EXCEPT !.pc = "replace", !.rid = q, !.todo = @ \ {q},
                              !.buf = Replaced(docs[q], h.new)])
    /\ UNCHANGED <<docs, audit, lapsed, issued, calls>>

SavePrior(t) ==
    /\ At(t, "replace")
    /\ Set(handler[t].rid, handler[t].buf)
    /\ Goto(t, [handler[t] EXCEPT !.pc = "audit"])
    /\ UNCHANGED <<audit, lapsed, issued, calls>>

(* Every prior request is superseded: the new one is stored ... *)
SaveNew(t) ==
    LET h == handler[t] IN
    /\ At(t, "supersede") /\ h.todo = {}
    /\ \E n \in 0..MaxSteps, verdict \in Verdicts, blocking \in BOOLEAN :
          /\ Set(h.new, NewDocument(n, verdict, blocking))
          /\ Goto(t, [h EXCEPT !.pc = "created",
                               !.buf = NewDocument(n, verdict, blocking)])
    /\ UNCHANGED <<audit, lapsed, issued, calls>>

(* ... and its creation audited. *)
AuditNew(t) ==
    LET h == handler[t] IN
    /\ At(t, "created")
    /\ audit' = audit \cup
           {<<h.new, Entry("request_created", "system", h.buf.status)>>}
    /\ Goto(t, Idle)
    /\ UNCHANGED <<docs, lapsed, issued, calls>>

(* The deadline of a stored request passes. *)
Lapse(r) ==
    /\ r \in Stored \ lapsed
    /\ lapsed' = lapsed \cup {r}
    /\ UNCHANGED <<docs, audit, handler, issued, calls>>

(* A Redis command raises, or the process dies: the handler ends there. *)
Fail(t) ==
    /\ CanFail
    /\ ~At(t, "idle")
    /\ Goto(t, Idle)
    /\ UNCHANGED <<docs, audit, lapsed, issued, calls>>

(* list_requests swallows what refresh_status raises and drops the document. *)
DropFromPage(t) ==
    LET h == handler[t] IN
    /\ CanFail
    /\ At(t, "expire") \/ At(t, "lapse")
    /\ h.op \in {"list", "create"}
    /\ Goto(t, [h EXCEPT !.pc = "refresh", !.rid = None, !.buf = Absent,
                         !.page = [@ EXCEPT ![h.rid] = Absent]])
    /\ UNCHANGED <<docs, audit, lapsed, issued, calls>>

\* The commands a running handler issues, in the absence of failures.
Step(t) ==
    \/ SaveExpiry(t) \/ AuditExpiry(t)
    \/ Decide(t) \/ Refuse(t) \/ AttachException(t) \/ AppendAudit(t)
    \/ \E q \in Requests : RefreshExpire(t, q) \/ RefreshKeep(t, q)
                           \/ LoadPrior(t, q)
    \/ RefreshDone(t) \/ SavePrior(t) \/ SaveNew(t) \/ AuditNew(t)

Next ==
    \/ \E t \in Threads :
          \/ \E r \in Requests, op \in Operations : Open(t, op, r)
          \/ StartList(t)
          \/ \E r \in Requests : StartCreate(t, r)
          \/ Step(t)
          \/ Fail(t)
          \/ DropFromPage(t)
    \/ \E r \in Requests : Lapse(r)

Spec == Init /\ [][Next]_vars

\* A thread of the pool that runs a handler keeps running it.
FairSpec == Spec /\ \A t \in Threads : WF_vars(Step(t))

(***************************************************************************)
(* Properties of the documents, whatever handlers interleave or fail.      *)
(***************************************************************************)
EntriesOf(doc) == {doc.log[i] : i \in 1..Len(doc.log)}
IsHumanSignoff(e) == e.action \in HumanSignoffActions /\ e.by = "human"
PersonSigned(doc) == \E e \in EntriesOf(doc) : IsHumanSignoff(e)
AutoCleared(doc) == \E e \in EntriesOf(doc) : e.action = "auto_cleared"
HasLapsed(doc) == \E e \in EntriesOf(doc) : e.action = "lapsed"

SignoffIsGenuine(doc) ==
    /\ doc.status \in SignedOff =>
          \/ PersonSigned(doc)
          \/ /\ AutoCleared(doc)
             /\ \A i \in Slots : doc.steps[i].status = "none"
    /\ \A i \in Slots : doc.steps[i].status \in SignedOff =>
          doc.steps[i].by = "human" /\ PersonSigned(doc)

\* The no-fake-human-approval rule (approvals.py, module text and
\* record_decision): a stored approval was auto-cleared with nobody on the
\* route, or a person's sign-off is among its decisions; and every signed step
\* was signed by a person.
NoFabricatedApproval == \A r \in Requests : SignoffIsGenuine(docs[r])

LegalWalk(doc) ==
    /\ doc.status = "absent" => Len(doc.log) = 0
    /\ doc.status # "absent" =>
          Len(doc.log) > 0 /\ LastEntry(doc).after = doc.status
    /\ \A i \in 1..(Len(doc.log) - 1) :
          CanTransition(doc.log[i].after, doc.log[i + 1].after)

\* The decisions kept in a document are one legal walk of _VALID_TRANSITIONS
\* that ends in the document's status, whatever handlers interleaved to write it.
DecisionLogIsLegal == \A r \in Requests : LegalWalk(docs[r])

LapseRespected(doc) ==
    HasLapsed(doc) => doc.status \in {"expired", "pending_approval", "superseded"}

\* A request that refresh_status expired is never approved, conditionally
\* approved or rejected afterwards: reopening it only brings it back until the
\* next read (refresh_status does not move expires_at).
LapsedIsFinal == \A r \in Requests : LapseRespected(docs[r])

(***************************************************************************)
(* Properties that hold only when handlers do not overlap or do not fail.  *)
(***************************************************************************)
\* Named for the property below: a decision in a document is in the audit stream,
\* or its handler is about to append it (save_request writes the document first).
AuditComplete ==
    \A r \in Requests : \A e \in EntriesOf(docs[r]) :
        \/ e.action \in CreationActions
        \/ <<r, e>> \in audit
        \/ \E t \in Threads : /\ handler[t].pc \in {"lapse", "audit"}
                             /\ handler[t].rid = r
                             /\ e = LastEntry(handler[t].buf)

\* A recorded decision is never rewritten or lost (governance_models.py calls an
\* ApprovalDecision "an immutable record of an action taken on a request"), and
\* none stays out of the audit stream: it is there, or its handler is about to
\* append it (save_request).
DecisionsAreImmutable ==
    [][/\ \A r \in Requests :
             /\ Len(docs[r].log) <= Len(docs'[r].log)
             /\ \A i \in 1..Len(docs[r].log) : docs'[r].log[i] = docs[r].log[i]
       /\ AuditComplete']_vars

\* Superseded is the end of the lifecycle (its row of _VALID_TRANSITIONS is
\* empty, and record_decision refuses a superseded request).
SupersededIsFinal ==
    [][\A r \in Requests : docs[r].status = "superseded" =>
                             docs'[r].status = "superseded"]_vars

\* supersede_prior_pending: when a request is stored, no other request of its
\* topic is still waiting for approval.
CreateLeavesOneLive ==
    [][\A r \in Requests : docs[r].status = "absent" /\ docs'[r].status # "absent"
          => \A q \in Requests \ {r} :
                Topic[q] = Topic[r] => docs'[q].status # "pending_approval"]_vars

\* A creation that began to supersede its predecessors does store its request.
CreationsComplete ==
    \A r \in Requests : r \in issued ~> r \in Stored

\* An approval status is entered by a person's sign-off or by auto-clearance,
\* never by another action ("the system cannot approve on a person's behalf").
ApprovalEnteredByPerson ==
    \A r \in Requests : \A i \in 1..Len(docs[r].log) :
        LET e == docs[r].log[i] IN
        /\ e.after \in SignedOff
        /\ i = 1 \/ docs[r].log[i - 1].after \notin SignedOff
        => e.action = "auto_cleared" \/ IsHumanSignoff(e)

\* The documents implement the lifecycle that ApprovalLifecycle states.
Lifecycle == INSTANCE ApprovalLifecycle WITH
    status <- [r \in Requests |-> docs[r].status],
    signed <- [r \in Requests |-> PersonSigned(docs[r])],
    routed <- [r \in Requests |-> r \in Stored /\ ~AutoCleared(docs[r])]

ImplementsLifecycle == Lifecycle!Spec
=============================================================================
