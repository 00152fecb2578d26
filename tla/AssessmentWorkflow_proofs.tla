---------------------- MODULE AssessmentWorkflow_proofs ----------------------
(***************************************************************************)
(* What holds of AssessmentWorkflow for every set of requests, users and   *)
(* scores and every number of sessions.                                    *)
(*                                                                         *)
(* The argument: an aggregate differs from the row its request read by one *)
(* method only, and it carries no stamp but those of committed requests    *)
(* and its own.  Whatever columns of it a commit stores, into whatever row *)
(* stands there by then, stamps of uncommitted requests cannot get in; and *)
(* if that row is still the one that was read, the commit is the method.   *)
(***************************************************************************)
EXTENDS AssessmentWorkflow, TLAPS

AcceptedScore(row) == row.score \in {None} \cup (Scores \cap 0..100)

\* One method of the aggregate leads from the one row to the other.
Moves(row, new) ==
    \/ /\ row.status = "absent" /\ new.status = "scheduled"
       /\ new.score = row.score /\ new.approvedBy = row.approvedBy
    \/ /\ row.status = "scheduled" /\ new.status = "in_progress"
       /\ new.score = row.score /\ new.approvedBy = row.approvedBy
    \/ /\ new.status = row.status
       /\ new.score = row.score /\ new.approvedBy = row.approvedBy
    \/ /\ row.status = "in_progress" /\ new.status = "pending_review"
       /\ new.score \in Scores /\ new.approvedBy = row.approvedBy
    \/ /\ row.status = "pending_review" /\ new.status = "completed"
       /\ new.score = row.score /\ new.approvedBy \in Users

\* A stamp of a column: none, or left by a request that committed this use case.
Left(stamp, o) == stamp = None \/ (pc[stamp] = "committed" /\ op[stamp] = o)

\* A stamp of r's aggregate: one that was there before, or r's own.
Carried(stamp, o, r) == Left(stamp, o) \/ (stamp = r /\ op[r] = o)

\* What a request that has executed use case o may hold of the row it read.
Result(new, row, r, o) ==
    /\ new \in Rows
    /\ AcceptedScore(new)
    /\ Moves(row, new)
    /\ new.completedAt = row.completedAt \/ (new.completedAt = r /\ o = "complete")
    /\ new.approvedAt = row.approvedAt \/ (new.approvedAt = r /\ o = "approve")

Copy(r) ==
    /\ AcceptedScore(entity[r])
    /\ pc[r] \in Working =>
           /\ Moves(loaded[r], entity[r])
           /\ Carried(entity[r].completedAt, "complete", r)
           /\ Carried(entity[r].approvedAt, "approve", r)

IInv ==
    /\ TypeOK
    /\ Left(db.completedAt, "complete")
    /\ Left(db.approvedAt, "approve")
    /\ \A r \in Requests : Copy(r)

-----------------------------------------------------------------------------
(* The UPDATE and the aggregate's methods.                                 *)

\* An UPDATE leaves a well-formed row, and in every column a value of the stored row
\* or of the aggregate.  (_update_model and the ORM's changed columns)
LEMMA UpdateMixes ==
    ASSUME NEW stored \in Rows, NEW found \in Rows, NEW new \in Rows,
           AcceptedScore(stored), AcceptedScore(new)
    PROVE  LET row == Update(stored, found, new) IN
           /\ row \in Rows
           /\ AcceptedScore(row)
           /\ row.completedAt \in {stored.completedAt, new.completedAt}
           /\ row.approvedAt \in {stored.approvedAt, new.approvedAt}
BY DEF Update, Column, Rows, AcceptedScore

\* Every method leaves a well-formed row.
LEMMA MethodsTyped ==
    ASSUME NEW d \in Rows, NEW r \in Requests
    PROVE  /\ Started(d, r) \in Rows
           /\ WithFinding(d, r) \in Rows
           /\ \A s \in Scores : Completed(d, r, s) \in Rows
           /\ Approved(d, r) \in Rows
<1>1. /\ d.version + 1 \in Nat /\ d.version + 1 + 1 \in Nat
      /\ d.findings \cup {r} \in SUBSET Requests
      /\ UserOf[r] \in Users
  BY WorkflowAssumption DEF Rows
<1>2. {"in_progress", "pending_review", "completed"} \subseteq Statuses
  BY DEF Statuses
<1>3. Started(d, r) \in Rows
  BY <1>1, <1>2 DEF Started, Marked, Rows
<1>4. WithFinding(d, r) \in Rows
  BY <1>1 DEF WithFinding, Marked, Rows
<1>5. \A s \in Scores : Completed(d, r, s) \in Rows
  BY <1>1, <1>2 DEF Completed, Marked, Rows
<1>6. Approved(d, r) \in Rows
  BY <1>1, <1>2 DEF Approved, Marked, Rows
<1> QED
  BY <1>3, <1>4, <1>5, <1>6

\* Each use case leaves its request with the row it read, moved by one method and
\* stamped by that request alone.  (the constructor, start, add_finding, complete,
\* approve)
LEMMA MethodsKeep ==
    ASSUME NEW row \in Rows, AcceptedScore(row), NEW r \in Requests
    PROVE  /\ row = NoRow => Result(NewRow, row, r, "create")
           /\ CanStart(row) => Result(Started(ToDomain(row), r), row, r, "start")
           /\ Result(WithFinding(ToDomain(row), r), row, r, "add_finding")
           /\ \A s \in Scores : CanComplete(row) /\ ValidScore(s)
                  => Result(Completed(ToDomain(row), r, s), row, r, "complete")
           /\ CanApprove(row) => Result(Approved(ToDomain(row), r), row, r, "approve")
<1> DEFINE d == ToDomain(row)
<1>1. /\ d \in Rows
      /\ d.status = row.status /\ d.score = row.score
      /\ d.completedAt = row.completedAt
      /\ d.approvedBy = row.approvedBy /\ d.approvedAt = row.approvedAt
  BY DEF ToDomain, Rows
<1>2. row = NoRow => Result(NewRow, row, r, "create")
  <2>1. /\ NoRow.status = "absent" /\ NoRow.score = None /\ NoRow.completedAt = None
        /\ NoRow.approvedBy = None /\ NoRow.approvedAt = None
    BY DEF NoRow
  <2>2. /\ NewRow.status = "scheduled" /\ NewRow.score = None
        /\ NewRow.completedAt = None
        /\ NewRow.approvedBy = None /\ NewRow.approvedAt = None
    BY DEF NewRow, NoRow
  <2>3. NewRow \in Rows
    BY DEF NewRow, NoRow, Rows, Statuses
  <2> QED
    BY <2>1, <2>2, <2>3 DEF Result, AcceptedScore, Moves
<1> HIDE DEF d
<1>3. ASSUME CanStart(row)
      PROVE  Result(Started(d, r), row, r, "start")
  <2> DEFINE new == Started(d, r)
  <2>1. /\ new.status = "in_progress" /\ new.score = d.score
        /\ new.completedAt = d.completedAt
        /\ new.approvedBy = d.approvedBy /\ new.approvedAt = d.approvedAt
    BY <1>1 DEF Started, Marked, Rows
  <2> QED
    BY <1>1, <1>3, <2>1, MethodsTyped DEF CanStart, Result, AcceptedScore, Moves
<1>4. Result(WithFinding(d, r), row, r, "add_finding")
  <2> DEFINE new == WithFinding(d, r)
  <2>1. /\ new.status = d.status /\ new.score = d.score
        /\ new.completedAt = d.completedAt
        /\ new.approvedBy = d.approvedBy /\ new.approvedAt = d.approvedAt
    BY <1>1 DEF WithFinding, Marked, Rows
  <2> QED
    BY <1>1, <2>1, MethodsTyped DEF Result, AcceptedScore, Moves
<1>5. ASSUME NEW s \in Scores, CanComplete(row), ValidScore(s)
      PROVE  Result(Completed(d, r, s), row, r, "complete")
  <2> DEFINE new == Completed(d, r, s)
  <2>1. /\ new.status = "pending_review" /\ new.score = s /\ new.completedAt = r
        /\ new.approvedBy = d.approvedBy /\ new.approvedAt = d.approvedAt
    BY <1>1 DEF Completed, Marked, Rows
  <2>2. s \in Scores \cap 0..100
    BY <1>5, WorkflowAssumption DEF ValidScore
  <2> QED
    BY <1>1, <1>5, <2>1, <2>2, MethodsTyped
    DEF CanComplete, Result, AcceptedScore, Moves
<1>6. ASSUME CanApprove(row)
      PROVE  Result(Approved(d, r), row, r, "approve")
  <2> DEFINE new == Approved(d, r)
  <2>1. /\ new.status = "completed" /\ new.score = d.score
        /\ new.completedAt = d.completedAt
        /\ new.approvedBy = UserOf[r] /\ new.approvedAt = r
    BY <1>1 DEF Approved, Marked, Rows
  <2>2. UserOf[r] \in Users
    BY WorkflowAssumption
  <2> QED
    BY <1>1, <1>6, <2>1, <2>2, MethodsTyped DEF CanApprove, Result, AcceptedScore, Moves
<1> QED
  BY <1>2, <1>3, <1>4, <1>5, <1>6 DEF d

-----------------------------------------------------------------------------
(* Stamps outlive every step.                                              *)

\* A request that committed stays so, and its use case is what it was.
Lasting == \A q \in Requests :
               pc[q] = "committed" => pc'[q] = "committed" /\ op'[q] = op[q]

LEMMA LeftLasts ==
    ASSUME Lasting, NEW stamp \in Requests \cup {None}, NEW o, Left(stamp, o)
    PROVE  Left(stamp, o)'
BY DEF Lasting, Left

\* A copy that a step does not touch stays good, when its request goes on.
LEMMA CopyLasts ==
    ASSUME Lasting, TypeOK, NEW r \in Requests, Copy(r),
           entity'[r] = entity[r], loaded'[r] = loaded[r], op'[r] = op[r],
           pc'[r] \in Working => pc[r] \in Working
    PROVE  Copy(r)'
<1>1. AcceptedScore(entity[r])'
  BY DEF Copy, AcceptedScore
<1>2. ASSUME pc'[r] \in Working
      PROVE  /\ Moves(loaded[r], entity[r])'
             /\ Carried(entity[r].completedAt, "complete", r)'
             /\ Carried(entity[r].approvedAt, "approve", r)'
  <2>1. /\ Moves(loaded[r], entity[r])
        /\ Carried(entity[r].completedAt, "complete", r)
        /\ Carried(entity[r].approvedAt, "approve", r)
    BY <1>2 DEF Copy
  <2>2. Moves(loaded[r], entity[r])'
    BY <2>1 DEF Moves
  <2>3. /\ entity[r].completedAt \in Requests \cup {None}
        /\ entity[r].approvedAt \in Requests \cup {None}
    BY DEF TypeOK, Rows
  <2>4. Carried(entity[r].completedAt, "complete", r)'
    BY <2>1, <2>3, LeftLasts DEF Carried, Left
  <2>5. Carried(entity[r].approvedAt, "approve", r)'
    BY <2>1, <2>3, LeftLasts DEF Carried, Left
  <2> QED
    BY <2>2, <2>4, <2>5
<1> QED
  BY <1>1, <1>2 DEF Copy, Working

-----------------------------------------------------------------------------
(* The invariant.                                                          *)

LEMMA InitIInv == Init => IInv
<1> SUFFICES ASSUME Init PROVE IInv
  OBVIOUS
<1>1. NoRow \in Rows /\ NewRow \in Rows
  BY DEF NoRow, NewRow, Rows, Statuses
<1>2. /\ AcceptedScore(NoRow) /\ AcceptedScore(NewRow)
      /\ NoRow.completedAt = None /\ NoRow.approvedAt = None
      /\ NewRow.completedAt = None /\ NewRow.approvedAt = None
  BY DEF NoRow, NewRow, AcceptedScore
<1>3. TypeOK
  BY <1>1, <1>2 DEF Init, TypeOK, AcceptedScore
<1>4. Left(db.completedAt, "complete") /\ Left(db.approvedAt, "approve")
  BY <1>2 DEF Init, Left
<1>5. \A r \in Requests : Copy(r)
  BY <1>2 DEF Init, Copy, Working
<1> QED
  BY <1>3, <1>4, <1>5 DEF IInv

\* A session that opens holds what its method made of the stored row.
LEMMA ExecuteKeeps ==
    ASSUME IInv, NEW r \in Requests, NEW row,
           NEW o \in {"create", "start", "add_finding", "complete", "approve"},
           Execute(r, o, row), Result(row, db, r, o)
    PROVE  IInv'
<1>1. TypeOK'
  BY DEF Execute, Result, IInv, TypeOK, Working
<1>2. Lasting
  BY DEF Execute, IInv, TypeOK, Lasting
<1>3. /\ db.completedAt \in Requests \cup {None}
      /\ db.approvedAt \in Requests \cup {None}
  BY DEF IInv, TypeOK, Rows
<1>4. Left(db.completedAt, "complete")' /\ Left(db.approvedAt, "approve")'
  <2>1. db' = db
    BY DEF Execute
  <2> QED
    BY <1>2, <1>3, <2>1, LeftLasts DEF IInv
<1>5. ASSUME NEW q \in Requests PROVE Copy(q)'
  <2>1. CASE q = r
    <3>1. /\ loaded'[r] = db /\ entity'[r] = row /\ op'[r] = o /\ db' = db
      BY DEF Execute, IInv, TypeOK
    <3>2. AcceptedScore(entity[r])' /\ Moves(loaded[r], entity[r])'
      BY <3>1 DEF Result, AcceptedScore, Moves
    <3>3. Carried(entity[r].completedAt, "complete", r)'
      BY <1>4, <3>1 DEF Result, Carried, Left
    <3>4. Carried(entity[r].approvedAt, "approve", r)'
      BY <1>4, <3>1 DEF Result, Carried, Left
    <3> QED
      BY <2>1, <3>2, <3>3, <3>4 DEF Copy
  <2>2. CASE q # r
    BY <1>2, <2>2, CopyLasts DEF Execute, IInv, TypeOK
  <2> QED
    BY <2>1, <2>2
<1> QED
  BY <1>1, <1>4, <1>5 DEF IInv

\* A step that leaves the row and what is read of it alone: only r goes on, and
\* nothing commits.
LEMMA QuietKeeps ==
    ASSUME IInv, TypeOK', UNCHANGED <<db, op, loaded, entity>>, NEW r \in Requests,
           NEW next, pc' = [pc EXCEPT ![r] = next], pc[r] # "committed",
           next \in Working => pc[r] \in Working
    PROVE  IInv'
<1>1. Lasting
  BY DEF IInv, TypeOK, Lasting
<1>2. /\ db.completedAt \in Requests \cup {None}
      /\ db.approvedAt \in Requests \cup {None}
  BY DEF IInv, TypeOK, Rows
<1>3. Left(db.completedAt, "complete")' /\ Left(db.approvedAt, "approve")'
  BY <1>1, <1>2, LeftLasts DEF IInv
<1>4. ASSUME NEW q \in Requests PROVE Copy(q)'
  BY <1>1, CopyLasts DEF IInv, TypeOK
<1> QED
  BY <1>3, <1>4 DEF IInv

\* A session that closes leaves its own copy empty and the others' as they were.
LEMMA CloseKeeps ==
    ASSUME IInv, NEW r \in Requests, pc[r] \in Working,
           NEW end \in Ended, Close(r, end), UNCHANGED op
    PROVE  /\ Lasting
           /\ \A q \in Requests : Copy(q)'
<1>1. Lasting
  BY DEF Close, Working, IInv, TypeOK, Lasting
<1>2. ASSUME NEW q \in Requests PROVE Copy(q)'
  <2>1. CASE q = r
    <3>1. entity'[r] = NoRow /\ pc'[r] \notin Working
      BY DEF Close, Ended, Working, IInv, TypeOK
    <3> QED
      BY <2>1, <3>1 DEF Copy, AcceptedScore, NoRow
  <2>2. CASE q # r
    BY <1>1, <2>2, CopyLasts DEF Close, IInv, TypeOK
  <2> QED
    BY <2>1, <2>2
<1> QED
  BY <1>1, <1>2

\* What session.close() leaves is well typed.
LEMMA CloseTyped ==
    ASSUME TypeOK, NEW r \in Requests, NEW end \in Ended, Close(r, end)
    PROVE  /\ lock' \in Requests \cup {None}
           /\ pc' \in [Requests -> {"idle"} \cup Working \cup Ended]
           /\ loaded' \in [Requests -> Rows]
           /\ entity' \in [Requests -> Rows]
           /\ existing' \in [Requests -> Rows]
<1>1. NoRow \in Rows
  BY DEF NoRow, Rows, Statuses
<1> QED
  BY <1>1 DEF Close, TypeOK

LEMMA CommitKeeps ==
    ASSUME IInv, NEW r \in Requests, Commit(r)
    PROVE  IInv'
<1>1. Close(r, "committed") /\ "committed" \in Ended /\ pc[r] \in Working
  BY DEF Commit, Ended, Working
<1>2. /\ Lasting
      /\ \A q \in Requests : Copy(q)'
  BY <1>1, CloseKeeps DEF Commit
<1>3. /\ db' \in Rows /\ AcceptedScore(db')
      /\ db'.completedAt \in {db.completedAt, entity[r].completedAt}
      /\ db'.approvedAt \in {db.approvedAt, entity[r].approvedAt}
  <2>1. /\ db \in Rows /\ existing[r] \in Rows /\ entity[r] \in Rows
        /\ AcceptedScore(db) /\ AcceptedScore(entity[r])
    BY DEF IInv, TypeOK, Copy, AcceptedScore
  <2>2. db' = Update(db, existing[r], entity[r])
    BY DEF Commit
  <2> QED
    BY <2>1, <2>2, UpdateMixes
<1>4. TypeOK'
  <2>1. writes' \in Seq(Requests)
    BY DEF Commit, IInv, TypeOK
  <2> QED
    BY <1>1, <1>3, <2>1, CloseTyped DEF Commit, IInv, TypeOK, AcceptedScore
<1>5. pc'[r] = "committed" /\ op' = op
  BY <1>1 DEF Commit, Close, IInv, TypeOK
<1>6. /\ Carried(entity[r].completedAt, "complete", r)
      /\ Carried(entity[r].approvedAt, "approve", r)
      /\ Left(db.completedAt, "complete") /\ Left(db.approvedAt, "approve")
  BY <1>1 DEF IInv, Copy
<1>7. /\ {db.completedAt, entity[r].completedAt} \subseteq Requests \cup {None}
      /\ {db.approvedAt, entity[r].approvedAt} \subseteq Requests \cup {None}
  BY DEF IInv, TypeOK, Rows
<1>8. Left(db.completedAt, "complete")'
  BY <1>2, <1>3, <1>5, <1>6, <1>7 DEF Carried, Left, Lasting
<1>9. Left(db.approvedAt, "approve")'
  BY <1>2, <1>3, <1>5, <1>6, <1>7 DEF Carried, Left, Lasting
<1> QED
  BY <1>2, <1>4, <1>8, <1>9 DEF IInv

LEMMA RollBackKeeps ==
    ASSUME IInv, NEW r \in Requests, RollBack(r)
    PROVE  IInv'
<1>1. Close(r, "rolled_back") /\ "rolled_back" \in Ended /\ pc[r] \in Working
  BY DEF RollBack, Ended
<1>2. /\ Lasting
      /\ \A q \in Requests : Copy(q)'
  BY <1>1, CloseKeeps DEF RollBack
<1>3. TypeOK'
  BY <1>1, CloseTyped DEF RollBack, IInv, TypeOK
<1>4. /\ db.completedAt \in Requests \cup {None}
      /\ db.approvedAt \in Requests \cup {None}
  BY DEF IInv, TypeOK, Rows
<1>5. Left(db.completedAt, "complete")' /\ Left(db.approvedAt, "approve")'
  <2>1. db' = db
    BY DEF RollBack
  <2> QED
    BY <1>2, <1>4, <2>1, LeftLasts DEF IInv
<1> QED
  BY <1>2, <1>3, <1>5 DEF IInv

LEMMA StepIInv == IInv /\ [Next]_vars => IInv'
<1> SUFFICES ASSUME IInv, [Next]_vars PROVE IInv'
  OBVIOUS
<1>0. db \in Rows /\ AcceptedScore(db)
  BY DEF IInv, TypeOK, AcceptedScore
<1>1. ASSUME NEW r \in Requests, CreateAssessment(r) PROVE IInv'
  BY <1>0, <1>1, MethodsKeep, ExecuteKeeps DEF CreateAssessment
<1>2. ASSUME NEW r \in Requests, StartAssessment(r) PROVE IInv'
  BY <1>0, <1>2, MethodsKeep, ExecuteKeeps DEF StartAssessment
<1>3. ASSUME NEW r \in Requests, AddFinding(r) PROVE IInv'
  BY <1>0, <1>3, MethodsKeep, ExecuteKeeps DEF AddFinding
<1>4. ASSUME NEW r \in Requests, CompleteAssessment(r) PROVE IInv'
  <2>1. PICK s \in Scores : /\ CanComplete(db) /\ ValidScore(s)
                            /\ Execute(r, "complete", Completed(ToDomain(db), r, s))
    BY <1>4 DEF CompleteAssessment
  <2> QED
    BY <1>0, <2>1, MethodsKeep, ExecuteKeeps
<1>5. ASSUME NEW r \in Requests, ApproveAssessment(r) PROVE IInv'
  BY <1>0, <1>5, MethodsKeep, ExecuteKeeps DEF ApproveAssessment
<1>6. ASSUME NEW r \in Requests, Refuse(r) PROVE IInv'
  <2>1. TypeOK'
    BY <1>6 DEF Refuse, IInv, TypeOK, Ended
  <2> QED
    BY <1>6, <2>1, QuietKeeps DEF Refuse, Working
<1>7. ASSUME NEW r \in Requests, Merge(r) PROVE IInv'
  <2>1. TypeOK'
    BY <1>7 DEF Merge, IInv, TypeOK, Working
  <2> QED
    BY <1>7, <2>1, QuietKeeps DEF Merge, Working
<1>8. ASSUME NEW r \in Requests, Flush(r) PROVE IInv'
  <2>1. TypeOK'
    BY <1>8 DEF Flush, IInv, TypeOK, Working
  <2> QED
    BY <1>8, <2>1, QuietKeeps DEF Flush, Working
<1>9. ASSUME NEW r \in Requests, Publish(r) PROVE IInv'
  <2>1. published' \in Seq(Requests)
    BY <1>9 DEF Publish, Send, IInv, TypeOK
  <2>2. TypeOK'
    BY <1>9, <2>1 DEF Publish, Send, IInv, TypeOK, Working
  <2> QED
    BY <1>9, <2>2, QuietKeeps DEF Publish, Send, Working
<1>10. ASSUME NEW r \in Requests, Commit(r) PROVE IInv'
  BY <1>10, CommitKeeps
<1>11. ASSUME NEW r \in Requests, RollBack(r) PROVE IInv'
  BY <1>11, RollBackKeeps
<1>12. CASE UNCHANGED vars
  BY <1>12 DEF vars, IInv, TypeOK, Left, Copy, Carried, Moves, AcceptedScore
<1> QED
  BY <1>1, <1>2, <1>3, <1>4, <1>5, <1>6, <1>7, <1>8, <1>9, <1>10, <1>11, <1>12 DEF Next

THEOREM Invariance == Spec => []IInv
BY InitIInv, StepIInv, PTL DEF Spec

-----------------------------------------------------------------------------
(* The theorems.                                                           *)

\* However many requests overlap, every stored column keeps to its domain and a
\* stored score is one the aggregate accepts.  (database columns, complete())
THEOREM TypeCorrect == Spec => []TypeOK
<1>1. IInv => TypeOK
  BY DEF IInv
<1> QED
  BY <1>1, Invariance, PTL

\* However many requests overlap, the completion and the approval of the row were
\* left by a /complete and an /approve that committed.  (get_session, save())
THEOREM NothingUncommittedShows == Spec => []OnlyCommittedWork
<1>1. IInv => OnlyCommittedWork
  BY DEF IInv, Left, OnlyCommittedWork
<1> QED
  BY <1>1, Invariance, PTL

\* A commit onto the row that was read and found stores what the method left.
LEMMA UpToDateMoves ==
    ASSUME IInv, NEW r \in Requests, Commit(r), UpToDate(r)
    PROVE  Moves(db, db')
<1>1. Moves(db, entity[r])
  BY DEF Commit, Working, UpToDate, IInv, Copy
<1>2. db' = Update(db, db, entity[r])
  BY DEF Commit, UpToDate
<1>3. /\ db'.status = entity[r].status /\ db'.score = entity[r].score
      /\ db'.approvedBy = entity[r].approvedBy
  BY <1>2 DEF Update, Column
<1> QED
  BY <1>1, <1>3 DEF Moves

\* A move of the stored row is a step of the lifecycle, or a stutter.
LEMMA MovesRefine ==
    ASSUME Moves(db, db')
    PROVE  Lifecycle!Next \/ UNCHANGED Lifecycle!vars
BY DEF Moves, Lifecycle!Next, Lifecycle!vars, Lifecycle!Create, Lifecycle!Start,
       Lifecycle!Complete, Lifecycle!Approve

\* Only a commit touches the row.  (get_session)
LEMMA OnlyCommitWrites ==
    ASSUME [Next]_vars
    PROVE  db' = db \/ \E r \in Requests : Commit(r)
BY DEF vars, Next, CreateAssessment, StartAssessment, AddFinding, CompleteAssessment,
       ApproveAssessment, Execute, Refuse, Merge, Flush, Publish, Send, RollBack

\* However many requests overlap, a step of the stored row that is no step of the
\* lifecycle is the commit of a session that was overtaken after its read.
\* (the use cases, _update_model)
THEOREM OnlyOvertakenBreak == Spec => OvertakenAlone
<1> DEFINE Allowed ==
       \/ \E r \in Requests : pc[r] = "published" /\ pc'[r] = "committed" /\ ~UpToDate(r)
       \/ Lifecycle!Next
       \/ UNCHANGED Lifecycle!vars
<1>1. IInv /\ [Next]_vars => [Allowed]_vars
  <2> SUFFICES ASSUME IInv, [Next]_vars PROVE Allowed
    OBVIOUS
  <2>1. CASE db' = db
    BY <2>1 DEF Lifecycle!vars
  <2>2. ASSUME NEW r \in Requests, Commit(r), UpToDate(r) PROVE Allowed
    BY <2>2, UpToDateMoves, MovesRefine
  <2>3. ASSUME NEW r \in Requests, Commit(r), ~UpToDate(r) PROVE Allowed
    <3>1. pc[r] = "published" /\ pc'[r] = "committed"
      BY <2>3 DEF Commit, Close, IInv, TypeOK
    <3> QED
      BY <2>3, <3>1
  <2> QED
    BY <2>1, <2>2, <2>3, OnlyCommitWrites
<1> QED
  BY <1>1, Invariance, PTL DEF Spec, OvertakenAlone

-----------------------------------------------------------------------------
(* Events.  A request that changed the row keeps its lock from the flush   *)
(* to the commit, and its event leaves in between: whoever published while *)
(* it held the lock comes after every writer before it.                    *)

\* r's event is the k-th that was published; r's change the j-th committed.
Published(r, k) == k \in 1..Len(published) /\ published[k] = r
Wrote(r, j) == j \in 1..Len(writes) /\ writes[j] = r

\* An event is published once, by a request past its publish that registers one.
SentOnce ==
    /\ \A r \in Requests, k, l \in 1..Len(published) :
           Published(r, k) /\ Published(r, l) => k = l
    /\ \A r \in Requests, k \in 1..Len(published) :
           Published(r, k) => /\ pc[r] \in {"published", "committed", "rolled_back"}
                              /\ RegistersEvent(op[r])

\* Whoever has passed the publish with an event to send has sent it.
SentAll ==
    \A r \in Requests :
        pc[r] \in {"published", "committed"} /\ RegistersEvent(op[r])
            => \E k \in 1..Len(published) : Published(r, k)

WritersCommitted == \A r \in Requests, j \in 1..Len(writes) : Wrote(r, j) => pc[r] = "committed"

\* A flushed change holds the row lock until its transaction ends.
Locks(r) == pc[r] \in {"flushed", "published"} /\ Changes(r) => lock = r
Locked == \A r \in Requests : Locks(r)

\* The events of two writers stand in the order of their changes, and the event of a
\* request that is about to change the row behind those of all the writers.
InOrder ==
    \A q, r \in Requests, k, l \in 1..Len(published), i \in 1..Len(writes) :
        Published(q, k) /\ Published(r, l) /\ Wrote(q, i) =>
            /\ \A j \in 1..Len(writes) : Wrote(r, j) /\ i < j => k < l
            /\ pc[r] = "published" /\ Changes(r) => k < l

EventInv == SentOnce /\ SentAll /\ WritersCommitted /\ Locked /\ InOrder

LEMMA InitEvents == Init => EventInv
<1> SUFFICES ASSUME Init PROVE EventInv
  OBVIOUS
<1>1. /\ Len(published) = 0 /\ Len(writes) = 0
      /\ \A r \in Requests : pc[r] = "idle"
  BY DEF Init
<1>2. SentOnce /\ SentAll /\ WritersCommitted /\ InOrder
  BY <1>1 DEF SentOnce, SentAll, WritersCommitted, InOrder
<1>3. Locked
  BY <1>1 DEF Locked, Locks
<1> QED
  BY <1>2, <1>3 DEF EventInv

\* What the step of r leaves of every other request.
OthersStay(r) ==
    \A q \in Requests \ {r} :
        pc'[q] = pc[q] /\ op'[q] = op[q] /\ existing'[q] = existing[q] /\ entity'[q] = entity[q]

LEMMA ChangesStay ==
    ASSUME NEW q \in Requests, existing'[q] = existing[q], entity'[q] = entity[q]
    PROVE  Changes(q)' <=> Changes(q)
BY DEF Changes

\* The locks are kept by whoever goes on with its copies as they are.
LEMMA LocksStay ==
    ASSUME Locked, NEW r \in Requests, OthersStay(r),
           \/ lock' = lock
           \/ lock = None /\ lock' = r
           \/ lock = r /\ lock' = None
    PROVE  \A q \in Requests \ {r} : Locks(q)'
<1> SUFFICES ASSUME NEW q \in Requests \ {r}, Locks(q) PROVE Locks(q)'
  BY DEF Locked
<1>1. Changes(q)' <=> Changes(q)
  BY ChangesStay DEF OthersStay
<1> QED
  BY <1>1, WorkflowAssumption DEF OthersStay, Locks

\* A step that publishes nothing and commits no change: it leaves the order as it is,
\* unless its request gets ready to commit.
LEMMA QuietEvents ==
    ASSUME EventInv, NEW r \in Requests, OthersStay(r), UNCHANGED <<published, writes>>,
           pc'[r] \notin {"published", "committed"}, pc[r] # "committed",
           pc[r] \in {"published", "rolled_back"} => pc'[r] = "rolled_back" /\ op'[r] = op[r],
           Locked'
    PROVE  EventInv'
<1>1. SentOnce'
  BY DEF EventInv, SentOnce, Published, OthersStay
<1>2. SentAll'
  BY DEF EventInv, SentAll, Published, OthersStay
<1>3. WritersCommitted'
  BY DEF EventInv, WritersCommitted, Wrote, OthersStay
<1>4. InOrder'
  <2>1. \A q \in Requests : pc'[q] = "published" /\ Changes(q)'
                                => pc[q] = "published" /\ Changes(q)
    BY ChangesStay DEF OthersStay
  <2> QED
    BY <2>1 DEF EventInv, InOrder, Published, Wrote
<1> QED
  BY <1>1, <1>2, <1>3, <1>4 DEF EventInv

LEMMA ExecuteEvents ==
    ASSUME TypeOK, EventInv, NEW r \in Requests, NEW o, NEW row, Execute(r, o, row)
    PROVE  EventInv'
<1>1. OthersStay(r) /\ pc[r] = "idle" /\ pc'[r] = "dirty"
  BY DEF Execute, OthersStay, TypeOK
<1>2. Locked'
  <2>1. Locks(r)'
    BY <1>1 DEF Locks
  <2> QED
    BY <1>1, <2>1, LocksStay DEF Execute, EventInv, Locked
<1> QED
  BY <1>1, <1>2, QuietEvents DEF Execute

LEMMA RefuseEvents ==
    ASSUME TypeOK, EventInv, NEW r \in Requests, Refuse(r)
    PROVE  EventInv'
<1>1. OthersStay(r) /\ pc[r] = "idle" /\ pc'[r] = "refused"
  BY DEF Refuse, OthersStay, TypeOK
<1>2. Locked'
  <2>1. Locks(r)'
    BY <1>1 DEF Locks
  <2> QED
    BY <1>1, <2>1, LocksStay DEF Refuse, EventInv, Locked
<1> QED
  BY <1>1, <1>2, QuietEvents DEF Refuse

LEMMA MergeEvents ==
    ASSUME TypeOK, EventInv, NEW r \in Requests, Merge(r)
    PROVE  EventInv'
<1>1. OthersStay(r) /\ pc[r] = "dirty" /\ pc'[r] = "merged"
  BY DEF Merge, OthersStay, TypeOK
<1>2. Locked'
  <2>1. Locks(r)'
    BY <1>1 DEF Locks
  <2> QED
    BY <1>1, <2>1, LocksStay DEF Merge, EventInv, Locked
<1> QED
  BY <1>1, <1>2, QuietEvents DEF Merge

\* The UPDATE of a change waits until the lock is free.
LEMMA FlushEvents ==
    ASSUME TypeOK, EventInv, NEW r \in Requests, Flush(r)
    PROVE  EventInv'
<1>1. OthersStay(r) /\ pc[r] = "merged" /\ pc'[r] = "flushed"
  BY DEF Flush, OthersStay, TypeOK
<1>2. Locked'
  <2>1. Changes(r)' <=> Changes(r)
    BY ChangesStay DEF Flush
  <2>2. Locks(r)'
    BY <2>1 DEF Flush, Locks
  <2>3. lock' = lock \/ (lock = None /\ lock' = r)
    BY DEF Flush
  <2> QED
    BY <1>1, <2>2, <2>3, LocksStay DEF EventInv, Locked
<1> QED
  BY <1>1, <1>2, QuietEvents DEF Flush

\* The lock of a session that closes is free, the others' are held.
LEMMA CloseLocks ==
    ASSUME TypeOK, Locked, NEW r \in Requests, NEW end \in Ended, Close(r, end), UNCHANGED op
    PROVE  OthersStay(r) /\ Locked' /\ pc'[r] = end
<1>1. OthersStay(r) /\ pc'[r] = end
  BY DEF Close, OthersStay, TypeOK
<1>2. Locks(r)'
  BY <1>1 DEF Locks, Ended
<1>3. lock' = lock \/ (lock = r /\ lock' = None)
  BY DEF Close
<1> QED
  BY <1>1, <1>2, <1>3, LocksStay DEF Locked

LEMMA RollBackEvents ==
    ASSUME TypeOK, EventInv, NEW r \in Requests, RollBack(r)
    PROVE  EventInv'
<1>1. "rolled_back" \in Ended /\ pc[r] \in Working
  BY DEF RollBack, Ended
<1>2. OthersStay(r) /\ Locked' /\ pc'[r] = "rolled_back"
  BY <1>1, CloseLocks DEF RollBack, EventInv
<1> QED
  BY <1>1, <1>2, QuietEvents DEF RollBack, Working

\* An event goes to the end of those published; its request has not changed the row.
LEMMA PublishEvents ==
    ASSUME TypeOK, EventInv, NEW r \in Requests, Publish(r)
    PROVE  EventInv'
<1>1. /\ OthersStay(r) /\ pc[r] = "flushed" /\ pc'[r] = "published" /\ op' = op
      /\ lock' = lock /\ writes' = writes
  BY DEF Publish, Send, OthersStay, TypeOK
<1>2. \A q \in Requests : Changes(q)' <=> Changes(q)
  BY ChangesStay DEF Publish, Send
<1>3. Locked'
  BY <1>1, <1>2 DEF EventInv, Locked, Locks, OthersStay
<1>4. WritersCommitted'
  BY <1>1 DEF EventInv, WritersCommitted, Wrote, OthersStay
<1>5. \A k \in 1..Len(published) : ~Published(r, k)
  BY <1>1 DEF EventInv, SentOnce
<1>6. \A j \in 1..Len(writes) : ~Wrote(r, j)
  BY <1>1 DEF EventInv, WritersCommitted
<1>7. CASE ~RegistersEvent(op[r])
  <2>1. published' = published
    BY <1>7 DEF Publish, Send
  <2>2. SentOnce'
    BY <1>1, <2>1 DEF EventInv, SentOnce, Published, OthersStay
  <2>3. SentAll'
    BY <1>1, <1>7, <2>1 DEF EventInv, SentAll, Published, OthersStay
  <2>4. InOrder'
    BY <1>1, <1>2, <1>5, <2>1 DEF EventInv, InOrder, Published, Wrote, OthersStay
  <2> QED
    BY <1>3, <1>4, <2>2, <2>3, <2>4 DEF EventInv
<1>8. CASE RegistersEvent(op[r])
  <2> DEFINE n == Len(published) + 1
  <2>1. published' = Append(published, r) /\ published \in Seq(Requests)
    BY <1>8 DEF Publish, Send, TypeOK
  <2>2. /\ Len(published') = n /\ Len(published) \in Nat
        /\ \A k \in 1..Len(published) : published'[k] = published[k]
        /\ published'[n] = r
    BY <2>1
  <2>3. \A q \in Requests, k \in 1..Len(published') :
            Published(q, k)' <=> Published(q, k) \/ (k = n /\ q = r)
    BY <2>2 DEF Published
  <2>4. 1..Len(published) \subseteq 1..Len(published') /\ n \in 1..Len(published')
    BY <2>2
  <2>5. \A q \in Requests : \A k : Published(q, k) => k \in 1..Len(published) /\ k < n
    BY <2>2 DEF Published
  <2> HIDE DEF n
  <2>6. SentOnce'
    BY <1>1, <1>5, <1>8, <2>3, <2>5 DEF EventInv, SentOnce, OthersStay
  <2>7. SentAll'
    BY <1>1, <1>8, <2>3, <2>4 DEF EventInv, SentAll, OthersStay
  <2>8. ASSUME NEW p \in Requests, NEW q \in Requests,
               NEW k \in 1..Len(published'), NEW l \in 1..Len(published'),
               NEW i \in 1..Len(writes),
               Published(p, k)', Published(q, l)', Wrote(p, i)
        PROVE  /\ \A j \in 1..Len(writes) : Wrote(q, j) /\ i < j => k < l
               /\ pc'[q] = "published" /\ Changes(q) => k < l
    <3>1. Published(p, k) /\ k \in 1..Len(published) /\ k < n
      BY <1>6, <2>3, <2>5, <2>8
    <3>2. CASE q = r
      BY <1>5, <1>6, <2>3, <2>8, <3>1, <3>2
    <3>3. CASE q # r
      <4>1. Published(q, l) /\ l \in 1..Len(published) /\ pc'[q] = pc[q]
        BY <1>1, <2>3, <2>5, <2>8, <3>3 DEF OthersStay
      <4> QED
        BY <2>8, <3>1, <4>1 DEF EventInv, InOrder
    <3> QED
      BY <3>2, <3>3
  <2>9. \A q \in Requests, j \in 1..Len(writes) : Wrote(q, j)' <=> Wrote(q, j)
    BY <1>1 DEF Wrote
  <2>10. InOrder'
    BY <1>1, <1>2, <2>8, <2>9 DEF InOrder
  <2> QED
    BY <1>3, <1>4, <2>6, <2>7, <2>10 DEF EventInv
<1> QED
  BY <1>7, <1>8

\* The change of the session that holds the lock comes after all the writers' before,
\* and no other session is about to change the row.
LEMMA CommitEvents ==
    ASSUME TypeOK, EventInv, NEW r \in Requests, Commit(r)
    PROVE  EventInv'
<1>1. "committed" \in Ended /\ pc[r] = "published" /\ published' = published /\ op' = op
  BY DEF Commit, Ended
<1>2. OthersStay(r) /\ Locked' /\ pc'[r] = "committed"
  BY <1>1, CloseLocks DEF Commit, EventInv
<1>3. SentOnce'
  BY <1>1, <1>2 DEF EventInv, SentOnce, Published, OthersStay
<1>4. SentAll'
  BY <1>1, <1>2 DEF EventInv, SentAll, Published, OthersStay
<1>5. \A q \in Requests : pc'[q] = "published" /\ Changes(q)'
                              => q # r /\ pc[q] = "published" /\ Changes(q)
  BY <1>2, ChangesStay DEF OthersStay
<1>6. CASE ~Changes(r)
  <2>1. writes' = writes
    BY <1>6 DEF Commit
  <2>2. WritersCommitted'
    BY <1>2, <2>1 DEF EventInv, WritersCommitted, Wrote, OthersStay
  <2>3. InOrder'
    BY <1>1, <1>5, <2>1 DEF EventInv, InOrder, Published, Wrote
  <2> QED
    BY <1>2, <1>3, <1>4, <2>2, <2>3 DEF EventInv
<1>7. CASE Changes(r)
  <2> DEFINE n == Len(writes) + 1
  <2>1. writes' = Append(writes, r) /\ writes \in Seq(Requests)
    BY <1>7 DEF Commit, TypeOK
  <2>2. /\ Len(writes') = n /\ Len(writes) \in Nat
        /\ \A j \in 1..Len(writes) : writes'[j] = writes[j]
        /\ writes'[n] = r
    BY <2>1
  <2>3. \A q \in Requests, j \in 1..Len(writes') :
            Wrote(q, j)' <=> Wrote(q, j) \/ (j = n /\ q = r)
    BY <2>2 DEF Wrote
  <2>4. \A q \in Requests : \A j : Wrote(q, j) => j \in 1..Len(writes) /\ j < n
    BY <2>2 DEF Wrote
  <2>5. ~(n < n) /\ \A j \in 1..Len(writes) : ~(n < j)
    BY <2>2
  <2> HIDE DEF n
  <2>6. WritersCommitted'
    BY <1>2, <2>3, <2>4 DEF EventInv, WritersCommitted, OthersStay
  <2>7. \A q \in Requests : ~(pc'[q] = "published" /\ Changes(q)')
    BY <1>1, <1>5, <1>7 DEF EventInv, Locked, Locks
  <2>8. \A q \in Requests, k \in 1..Len(published') : Published(q, k)' <=> Published(q, k)
    BY <1>1 DEF Published
  <2>9. ASSUME NEW p \in Requests, NEW q \in Requests,
               NEW k \in 1..Len(published), NEW l \in 1..Len(published),
               NEW i \in 1..Len(writes'), NEW j \in 1..Len(writes'),
               Published(p, k), Published(q, l), Wrote(p, i)', Wrote(q, j)', i < j
        PROVE  k < l
    <3>1. Wrote(p, i) /\ i \in 1..Len(writes)
      BY <2>3, <2>4, <2>5, <2>9
    <3>2. CASE Wrote(q, j)
      BY <2>4, <2>9, <3>1, <3>2 DEF EventInv, InOrder
    <3>3. CASE q = r
      BY <1>1, <1>7, <2>9, <3>1, <3>3 DEF EventInv, InOrder
    <3> QED
      BY <2>3, <2>9, <3>2, <3>3
  <2>10. InOrder'
    <3> SUFFICES ASSUME NEW p \in Requests, NEW q \in Requests,
                        NEW k \in 1..Len(published), NEW l \in 1..Len(published),
                        NEW i \in 1..Len(writes'),
                        Published(p, k), Published(q, l), Wrote(p, i)'
                 PROVE  \A j \in 1..Len(writes') : Wrote(q, j)' /\ i < j => k < l
      BY <1>1, <2>7, <2>8 DEF InOrder
    <3> QED
      BY <2>9
  <2> QED
    BY <1>2, <1>3, <1>4, <2>6, <2>10 DEF EventInv
<1> QED
  BY <1>6, <1>7

LEMMA StepEvents == TypeOK /\ EventInv /\ [Next]_vars => EventInv'
<1> SUFFICES ASSUME TypeOK, EventInv, [Next]_vars PROVE EventInv'
  OBVIOUS
<1>1. ASSUME NEW r \in Requests,
             \/ CreateAssessment(r) \/ StartAssessment(r) \/ AddFinding(r)
             \/ CompleteAssessment(r) \/ ApproveAssessment(r)
      PROVE  EventInv'
  BY <1>1, ExecuteEvents
  DEF CreateAssessment, StartAssessment, AddFinding, CompleteAssessment, ApproveAssessment
<1>2. ASSUME NEW r \in Requests,
             \/ Refuse(r) \/ Merge(r) \/ Flush(r) \/ Publish(r) \/ Commit(r) \/ RollBack(r)
      PROVE  EventInv'
  BY <1>2, RefuseEvents, MergeEvents, FlushEvents, PublishEvents, CommitEvents, RollBackEvents
<1>3. CASE UNCHANGED vars
  <2>1. \A r \in Requests : Changes(r)' <=> Changes(r)
    BY <1>3, ChangesStay DEF vars
  <2> QED
    BY <1>3, <2>1 DEF vars, EventInv, SentOnce, SentAll, WritersCommitted, Locked, Locks,
                      InOrder, Published, Wrote
<1> QED
  BY <1>1, <1>2, <1>3 DEF Next

\* The positions of the writers' events are in the order of their changes.
LEMMA EventsInOrder ==
    ASSUME TypeOK, EventInv
    PROVE  EventsFollowWrites
<1> DEFINE Registered == {j \in 1..Len(writes) : RegistersEvent(op[writes[j]])}
           Kept == {k \in 1..Len(published) :
                        \E j \in 1..Len(writes) : writes[j] = published[k]}
           sent == [j \in Registered |->
                        CHOOSE k \in 1..Len(published) : Published(writes[j], k)]
<1>1. /\ \A j \in 1..Len(writes) : writes[j] \in Requests /\ Wrote(writes[j], j)
      /\ \A k \in 1..Len(published) : published[k] \in Requests /\ Published(published[k], k)
  BY DEF TypeOK, Wrote, Published
<1>2. ASSUME NEW j \in Registered
      PROVE  sent[j] \in 1..Len(published) /\ Published(writes[j], sent[j])
  <2>1. pc[writes[j]] = "committed"
    BY <1>1 DEF EventInv, WritersCommitted
  <2>2. \E k \in 1..Len(published) : Published(writes[j], k)
    BY <1>1, <2>1 DEF EventInv, SentAll
  <2> QED
    BY <2>2
<1>3. \A j \in Registered : sent[j] \in Kept /\ published[sent[j]] = writes[j]
  BY <1>2 DEF Published
<1>4. ASSUME NEW k \in Kept
      PROVE  \E j \in Registered : sent[j] = k
  <2>1. PICK j \in 1..Len(writes) : writes[j] = published[k]
    OBVIOUS
  <2>2. Published(writes[j], k) /\ writes[j] \in Requests
    BY <1>1, <2>1
  <2>3. RegistersEvent(op[writes[j]])
    BY <2>2 DEF EventInv, SentOnce
  <2>4. j \in Registered
    BY <2>3
  <2> HIDE DEF sent
  <2>5. sent[j] = k
    BY <1>2, <2>2, <2>4 DEF EventInv, SentOnce
  <2> QED
    BY <2>4, <2>5
<1>5. ASSUME NEW i \in Registered, NEW j \in Registered, i < j
      PROVE  sent[i] < sent[j]
  <2> HIDE DEF sent
  <2>1. /\ Published(writes[i], sent[i]) /\ Published(writes[j], sent[j])
        /\ sent[i] \in 1..Len(published) /\ sent[j] \in 1..Len(published)
    BY <1>2
  <2>2. /\ Wrote(writes[i], i) /\ Wrote(writes[j], j)
        /\ writes[i] \in Requests /\ writes[j] \in Requests
    BY <1>1
  <2> QED
    BY <1>5, <2>1, <2>2 DEF EventInv, InOrder
<1>6. sent \in [Registered -> Kept]
  BY <1>3
<1> HIDE DEF sent
<1>7. {sent[j] : j \in Registered} = Kept
  BY <1>3, <1>4
<1> QED
  BY <1>3, <1>5, <1>6, <1>7 DEF EventsFollowWrites

\* However many requests overlap, the events of those that changed the row leave once
\* each and in the order of their changes.  (save(), _publish_events, get_session)
THEOREM EventsLeaveInOrder == Spec => []EventsFollowWrites
<1>1. IInv => TypeOK
  BY DEF IInv
<1>2. Spec => []EventInv
  BY <1>1, Invariance, InitEvents, StepEvents, PTL DEF Spec
<1>3. TypeOK /\ EventInv => EventsFollowWrites
  BY EventsInOrder
<1> QED
  BY <1>1, <1>2, <1>3, Invariance, PTL

=============================================================================
