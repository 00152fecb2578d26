------------------------- MODULE AssessmentWorkflow -------------------------
(***************************************************************************)
(* Concurrent HTTP requests working on one compliance assessment.          *)
(*                                                                         *)
(* Every request runs one use case of application/use_cases/               *)
(* assessment_use_cases.py over its own database session: get_by_id reads  *)
(* the row, one method of the ComplianceAssessment aggregate is called,    *)
(* save() fetches the row again, puts the aggregate on it and flushes the  *)
(* columns that differ, the registered events go to the publisher, and     *)
(* only then does get_session commit.  Nothing compares the version column *)
(* on the way, so requests that overlap each store what they made of the   *)
(* row they first read.                                                    *)
(*                                                                         *)
(* One aggregate is modelled: the use cases write one row each and no      *)
(* statement spans two assessments.                                        *)
(***************************************************************************)
EXTENDS Integers, FiniteSets, Sequences

CONSTANTS
    Requests,     \* the HTTP requests; each stands for its clock too
    Users,        \* the users who send them
    UserOf,       \* UserOf[r]: the user of request r
    Scores,       \* the scores submitted with /complete
    MaxSessions,  \* the sessions that may be open at once
    None          \* the NULL column

ASSUME WorkflowAssumption ==
    /\ IsFiniteSet(Requests)
    /\ UserOf \in [Requests -> Users]
    /\ Scores \subseteq Int
    /\ MaxSessions \in Nat \ {0}
    /\ None \notin Int \cup Requests \cup Users

Statuses == {"absent", "scheduled", "in_progress", "pending_review", "completed"}

VARIABLES
    db,         \* the committed row of compliance_assessments
    lock,       \* the request whose flushed UPDATE still locks the row, or None
    pc,         \* pc[r]: where request r stands in its use case
    op,         \* op[r]: the use case r runs, or None
    loaded,     \* loaded[r]: the row as get_by_id read it
    entity,     \* entity[r]: r's aggregate after the domain method
    existing,   \* existing[r]: the row as save() found it
    published,  \* requests whose event went to the publisher, in that order
    writes      \* requests whose changes to the row were committed, in that order

vars == <<db, lock, pc, op, loaded, entity, existing, published, writes>>

-----------------------------------------------------------------------------
(* Rows.  The stored columns, and beside them the findings the aggregate   *)
(* carries in memory: _to_model and _update_model never write them and     *)
(* _to_domain never reads them back.                                       *)

NoRow == [status |-> "absent", score |-> None, completedAt |-> None,
          approvedBy |-> None, approvedAt |-> None, updatedBy |-> None,
          version |-> 0, findings |-> {}]

NewRow == [NoRow EXCEPT !.status = "scheduled", !.version = 1]

Rows == [status : Statuses, score : Scores \cup {None},
         completedAt : Requests \cup {None}, approvedBy : Users \cup {None},
         approvedAt : Requests \cup {None}, updatedBy : Users \cup {None},
         version : Nat, findings : SUBSET Requests]

ToDomain(row) == [row EXCEPT !.findings = {}]

\* _update_model assigns every column; the ORM puts into the UPDATE those whose
\* value differs from the one it fetched.
Column(stored, found, new) == IF new = found THEN stored ELSE new

\* The regulation links are synchronised too; no use case changes them.
Update(stored, found, new) ==
    [status      |-> Column(stored.status, found.status, new.status),
     score       |-> Column(stored.score, found.score, new.score),
     completedAt |-> Column(stored.completedAt, found.completedAt, new.completedAt),
     approvedBy  |-> Column(stored.approvedBy, found.approvedBy, new.approvedBy),
     approvedAt  |-> Column(stored.approvedAt, found.approvedAt, new.approvedAt),
     updatedBy   |-> Column(stored.updatedBy, found.updatedBy, new.updatedBy),
     version     |-> Column(stored.version, found.version, new.version),
     findings    |-> stored.findings]

-----------------------------------------------------------------------------
(* The aggregate's methods: what each refuses, and the row it leaves.      *)

ValidScore_NoUpperBound(s) == s >= 0
ValidScore(s) == s >= 0 /\ s <= 100

CanStart(row) == row.status = "scheduled"
CanAddFinding(row) == row.status \in {"in_progress", "pending_review"}
CanComplete_NoStatusCheck(row) == row.status # "absent"
CanComplete(row) == row.status = "in_progress"
CanApprove_Unreviewed(row) == row.status \in {"in_progress", "pending_review"}
CanApprove(row) == row.status = "pending_review"

\* mark_updated(by)
Marked(row, r) == [row EXCEPT !.updatedBy = UserOf[r], !.version = @ + 1]

Started(row, r) == Marked([row EXCEPT !.status = "in_progress"], r)

\* add_finding marks the aggregate updated and the use case marks it again.
WithFinding(row, r) ==
    Marked([row EXCEPT !.findings = @ \cup {r}, !.version = @ + 1], r)

Completed(row, r, s) ==
    Marked([row EXCEPT !.status = "pending_review", !.score = s, !.completedAt = r], r)

Approved(row, r) ==
    Marked([row EXCEPT !.status = "completed", !.approvedBy = UserOf[r],
                       !.approvedAt = r], r)

\* start() and complete() register an event; add_finding() and approve() do not.
RegistersEvent(o) == o \in {"start", "complete"}

-----------------------------------------------------------------------------
(* Sessions.  A request is "idle" until its session opens, "dirty" once    *)
(* the aggregate has changed in memory, "merged" once save() has put it on *)
(* the row it fetched, "flushed" once its UPDATE has gone through,         *)
(* "published" once the events left, and then "committed" or               *)
(* "rolled_back"; "refused" if it raised before it changed anything.       *)

Working == {"dirty", "merged", "flushed", "published"}
Ended == {"committed", "rolled_back", "refused"}

Open == {r \in Requests : pc[r] \in Working}

\* The database outlives the process: the assessment may have been created before.
Init ==
    /\ db \in {NoRow, NewRow}
    /\ lock = None
    /\ pc = [r \in Requests |-> "idle"]
    /\ op = [r \in Requests |-> None]
    /\ loaded = [r \in Requests |-> NoRow]
    /\ entity = [r \in Requests |-> NoRow]
    /\ existing = [r \in Requests |-> NoRow]
    /\ published = << >>
    /\ writes = << >>

\* get_by_id and the method: what it does depends on the row read and on nothing
\* that can change meanwhile, so that they are one step.
Execute(r, o, row) ==
    /\ pc[r] = "idle"
    /\ Cardinality(Open) < MaxSessions
    /\ pc' = [pc EXCEPT ![r] = "dirty"]
    /\ op' = [op EXCEPT ![r] = o]
    /\ loaded' = [loaded EXCEPT ![r] = db]
    /\ entity' = [entity EXCEPT ![r] = row]
    /\ UNCHANGED <<db, lock, existing, published, writes>>

\* A create makes a fresh id: only one request can be the modelled row's author.
CreateAssessment(r) ==
    /\ db = NoRow
    /\ \A q \in Requests : op[q] = "create" => pc[q] = "rolled_back"
    /\ Execute(r, "create", NewRow)

StartAssessment(r) ==
    /\ CanStart(db)
    /\ Execute(r, "start", Started(ToDomain(db), r))

AddFinding(r) ==
    /\ CanAddFinding(db)
    /\ Execute(r, "add_finding", WithFinding(ToDomain(db), r))

CompleteAssessment(r) ==
    \E s \in Scores :
        /\ CanComplete(db)
        /\ ValidScore(s)
        /\ Execute(r, "complete", Completed(ToDomain(db), r, s))

ApproveAssessment(r) ==
    /\ CanApprove(db)
    /\ Execute(r, "approve", Approved(ToDomain(db), r))

\* 404 or 400: the row, the entity or a regulation is missing, or the aggregate
\* refuses the method; the session is rolled back with nothing in it.
Refuses(o) ==
    CASE o = "create"      -> TRUE
      [] o = "start"       -> ~CanStart(db)
      [] o = "add_finding" -> ~CanAddFinding(db)
      [] o = "complete"    -> ~CanComplete(db) \/ \E s \in Scores : ~ValidScore(s)
      [] o = "approve"     -> ~CanApprove(db)

Refuse(r) ==
    /\ pc[r] = "idle"
    /\ \E o \in {"create", "start", "add_finding", "complete", "approve"} : Refuses(o)
    /\ pc' = [pc EXCEPT ![r] = "refused"]
    /\ UNCHANGED <<db, lock, op, loaded, entity, existing, published, writes>>

\* session.get() in save().  The session keeps the row get_by_id read only as long
\* as the interpreter has not collected it; nothing refers to it any more, so the
\* row is fetched once again and what committed meanwhile is found.
Merge(r) ==
    /\ pc[r] = "dirty"
    /\ \E row \in {db, loaded[r]} : existing' = [existing EXCEPT ![r] = row]
    /\ pc' = [pc EXCEPT ![r] = "merged"]
    /\ UNCHANGED <<db, lock, op, loaded, entity, published, writes>>

\* The aggregate differs in a stored column from the row that was found.
Changes(r) == Update(existing[r], existing[r], entity[r]) # existing[r]

\* As if save() ended the transaction.
Flush_Commits(r) ==
    /\ pc[r] = "merged"
    /\ db' = Update(db, existing[r], entity[r])
    /\ pc' = [pc EXCEPT ![r] = "flushed"]
    /\ UNCHANGED <<lock, op, loaded, entity, existing, published, writes>>

\* save() ends in session.flush(): an UPDATE waits for the row lock and then keeps
\* it to the end of the transaction; without a change there is no UPDATE.
Flush(r) ==
    /\ pc[r] = "merged"
    /\ \/ Changes(r) /\ lock = None /\ lock' = r
       \/ ~Changes(r) /\ UNCHANGED lock
    /\ pc' = [pc EXCEPT ![r] = "flushed"]
    /\ UNCHANGED <<db, op, loaded, entity, existing, published, writes>>

Send(r) ==
    /\ published' = IF RegistersEvent(op[r]) THEN Append(published, r) ELSE published
    /\ pc' = [pc EXCEPT ![r] = "published"]
    /\ UNCHANGED <<db, lock, op, loaded, entity, existing, writes>>

\* As if the events left before the row was saved.
Publish_BeforeSave(r) == pc[r] = "merged" /\ Send(r)

\* _publish_events(saved), the use case's last await.
Publish(r) == pc[r] = "flushed" /\ Send(r)

\* session.close(): the locks and the request's copies of the row are gone.
Close(r, end) ==
    /\ lock' = IF lock = r THEN None ELSE lock
    /\ pc' = [pc EXCEPT ![r] = end]
    /\ loaded' = [loaded EXCEPT ![r] = NoRow]
    /\ entity' = [entity EXCEPT ![r] = NoRow]
    /\ existing' = [existing EXCEPT ![r] = NoRow]

\* get_session commits after the endpoint has returned.
Commit(r) ==
    /\ pc[r] = "published"
    /\ db' = Update(db, existing[r], entity[r])
    /\ writes' = IF Changes(r) THEN Append(writes, r) ELSE writes
    /\ Close(r, "committed")
    /\ UNCHANGED <<op, published>>

\* As if the failing request's connection stayed open.
RollBack_LeaksLock(r) ==
    /\ pc[r] \in Working
    /\ pc' = [pc EXCEPT ![r] = "rolled_back"]
    /\ UNCHANGED <<db, lock, op, loaded, entity, existing, published, writes>>

\* The flush, the publisher or the COMMIT fails, or the connection is lost: the
\* session is closed without a commit.
RollBack(r) ==
    /\ pc[r] \in Working
    /\ Close(r, "rolled_back")
    /\ UNCHANGED <<db, op, published, writes>>

Next ==
    \E r \in Requests :
        \/ CreateAssessment(r)
        \/ StartAssessment(r)
        \/ AddFinding(r)
        \/ CompleteAssessment(r)
        \/ ApproveAssessment(r)
        \/ Refuse(r)
        \/ Merge(r)
        \/ Flush(r)
        \/ Publish(r)
        \/ Commit(r)
        \/ RollBack(r)

Spec == Init /\ [][Next]_vars

\* The event loop resumes every ready request and the database grants a free
\* row lock; nobody is obliged to send a request or to fail.
Fairness == \A r \in Requests : WF_vars(Merge(r) \/ Flush(r) \/ Publish(r) \/ Commit(r))

FairSpec == Spec /\ Fairness

-----------------------------------------------------------------------------
(* Properties.                                                             *)

\* Every column keeps to its domain, a stored score is one the aggregate accepts,
\* and the row lock is None or a request.  (database columns, session state)
TypeOK ==
    /\ db \in Rows
    /\ db.score \in {None} \cup (Scores \cap 0..100)
    /\ lock \in Requests \cup {None}
    /\ pc \in [Requests -> {"idle"} \cup Working \cup Ended]
    /\ op \in [Requests -> {None, "create", "start", "add_finding", "complete", "approve"}]
    /\ loaded \in [Requests -> Rows]
    /\ entity \in [Requests -> Rows]
    /\ existing \in [Requests -> Rows]
    /\ published \in Seq(Requests)
    /\ writes \in Seq(Requests)

\* The stamps of the row were left by requests that committed, a completion by a
\* /complete and an approval by an /approve: what was rolled back is never seen,
\* not through the copy of another session either.
\* (get_session, save(), complete(), approve())
OnlyCommittedWork ==
    /\ db.completedAt # None =>
           pc[db.completedAt] = "committed" /\ op[db.completedAt] = "complete"
    /\ db.approvedAt # None =>
           pc[db.approvedAt] = "committed" /\ op[db.approvedAt] = "approve"

\* The events of the requests that changed the row were all published, once each
\* and in the order of the changes: they leave while the row lock is held.
\* (events.md "Events from a single aggregate root are published in order")
EventsFollowWrites ==
    LET Registered == {j \in 1..Len(writes) : RegistersEvent(op[writes[j]])}
        Kept == {k \in 1..Len(published) : \E j \in 1..Len(writes) : writes[j] = published[k]}
    IN \E sent \in [Registered -> Kept] :
          /\ {sent[j] : j \in Registered} = Kept
          /\ \A j \in Registered : published[sent[j]] = writes[j]
          /\ \A i, j \in Registered : i < j => sent[i] < sent[j]

\* No request waits for the row lock for ever: whoever holds it publishes and
\* commits, or rolls back.  (session.flush, get_session)
RequestsEnd == \A r \in Requests : pc[r] = "dirty" ~> pc[r] \in Ended

\* What the stored row promises its readers.  It holds when MaxSessions = 1.
\* (domain-model.md "Status lifecycle")
Lifecycle == INSTANCE AssessmentLifecycle WITH
    status <- db.status, score <- db.score, approvedBy <- db.approvedBy

LifecycleKept == Lifecycle!Spec

\* The row is still the one that r's session read, and the one it found when saving.
UpToDate(r) == loaded[r] = db /\ existing[r] = db

\* With any number of open sessions, every step of the stored row is a step of the
\* lifecycle, unless a session commits that another one has overtaken.
\* (the use cases, _update_model)
OvertakenAlone ==
    [][\/ \E r \in Requests : pc[r] = "published" /\ pc'[r] = "committed" /\ ~UpToDate(r)
       \/ Lifecycle!Next
       \/ UNCHANGED Lifecycle!vars]_vars

\* What the documentation says of the stored status alone: it only moves forward
\* along SCHEDULED, IN_PROGRESS, PENDING_REVIEW, COMPLETED.  (domain-model.md)
StatusOnlyAdvances ==
    [][\/ db'.status = db.status
       \/ <<db.status, db'.status>> \in
              {<<"absent", "scheduled">>, <<"scheduled", "in_progress">>,
               <<"in_progress", "pending_review">>, <<"pending_review", "completed">>}]_vars

\* A finding whose request committed is in the row a later reader gets.
\* (docs/api/assessments.md "Retrieves a compliance assessment by its ID,
\* including all findings")
FindingsRead ==
    \A r \in Requests :
        op[r] = "add_finding" /\ pc[r] = "committed" => r \in ToDomain(db).findings

\* An event is published only for a request that is still to commit or has
\* committed.  (docs/architecture/events.md "events are published only when the
\* aggregate is persisted")
NoPhantomEvent ==
    \A i \in 1..Len(published) : pc[published[i]] # "rolled_back"

=============================================================================
