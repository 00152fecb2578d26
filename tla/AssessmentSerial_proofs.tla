----------------------- MODULE AssessmentSerial_proofs -----------------------
(***************************************************************************)
(* One session at a time, AssessmentWorkflow implements the documented     *)
(* lifecycle of AssessmentLifecycle, for every set of requests, users and  *)
(* scores.  Then nobody can overtake the open session: the row it read is  *)
(* the row it finds when saving and the row it commits onto.               *)
(***************************************************************************)
EXTENDS AssessmentWorkflow_proofs, FiniteSetTheorems

\* At most one session is open, and it works from the row as it is stored.
SerialInv ==
    /\ \A q, r \in Open : q = r
    /\ \A r \in Open : loaded[r] = db /\ (pc[r] # "dirty" => existing[r] = db)

-----------------------------------------------------------------------------
\* With one session allowed, a session opens only when none is open.
LEMMA OpensAlone ==
    ASSUME MaxSessions = 1, Cardinality(Open) < MaxSessions
    PROVE  Open = {}
<1>1. IsFiniteSet(Requests) /\ Open \in SUBSET Requests
  BY WorkflowAssumption DEF Open
<1>2. IsFiniteSet(Open)
  BY <1>1, FS_Subset
<1>3. Cardinality(Open) \in Nat
  BY <1>2, FS_CardinalityType
<1>4. Cardinality(Open) = 0
  BY <1>3
<1> QED
  BY <1>2, <1>4, FS_EmptySet

LEMMA InitSerial == Init => SerialInv
BY DEF Init, SerialInv, Open, Working

LEMMA ExecuteSerial ==
    ASSUME MaxSessions = 1, IInv, NEW r \in Requests, NEW o, NEW row,
           Execute(r, o, row)
    PROVE  SerialInv'
<1>1. Open = {}
  BY OpensAlone DEF Execute
<1>2. Open' = {r}
  BY <1>1 DEF Execute, IInv, TypeOK, Open, Working
<1>3. loaded'[r] = db /\ pc'[r] = "dirty" /\ db' = db
  BY DEF Execute, IInv, TypeOK
<1> QED
  BY <1>2, <1>3 DEF SerialInv

\* save() finds the row its session read.
LEMMA MergeSerial ==
    ASSUME IInv, SerialInv, NEW r \in Requests, Merge(r)
    PROVE  SerialInv'
<1>1. r \in Open /\ loaded[r] = db
  BY DEF Merge, Open, Working, SerialInv
<1>2. existing'[r] = db
  BY <1>1 DEF Merge, IInv, TypeOK
<1>3. Open' = Open
  BY DEF Merge, IInv, TypeOK, Open, Working
<1>4. \A q \in Open : q = r
  BY <1>1 DEF SerialInv
<1> QED
  BY <1>1, <1>2, <1>3, <1>4 DEF Merge, SerialInv

\* A request between two later states of an open session.
LEMMA GoesOnSerial ==
    ASSUME IInv, SerialInv, NEW r \in Requests, Flush(r) \/ Publish(r)
    PROVE  SerialInv'
<1>1. Open' = Open
  BY DEF Flush, Publish, Send, IInv, TypeOK, Open, Working
<1>2. UNCHANGED <<db, loaded, existing>>
  BY DEF Flush, Publish, Send
<1>3. \A q \in Open : pc'[q] # "dirty" => pc[q] # "dirty"
  BY DEF Flush, Publish, Send, IInv, TypeOK, Open
<1> QED
  BY <1>1, <1>2, <1>3 DEF SerialInv

\* The last open session closes.
LEMMA CloseSerial ==
    ASSUME IInv, SerialInv, NEW r \in Requests, pc[r] \in Working,
           NEW end \in Ended, Close(r, end)
    PROVE  SerialInv'
<1>1. r \in Open /\ \A q \in Open : q = r
  BY DEF Open, SerialInv
<1>2. pc' = [pc EXCEPT ![r] = end] /\ end \notin Working
  BY DEF Close, Ended, Working
<1>3. Open' = {}
  BY <1>1, <1>2 DEF Open, IInv, TypeOK
<1> QED
  BY <1>3 DEF SerialInv

LEMMA StepSerial ==
    ASSUME MaxSessions = 1
    PROVE  IInv /\ SerialInv /\ [Next]_vars => SerialInv'
<1> SUFFICES ASSUME IInv, SerialInv, [Next]_vars PROVE SerialInv'
  OBVIOUS
<1>1. ASSUME NEW r \in Requests, CreateAssessment(r) PROVE SerialInv'
  BY <1>1, ExecuteSerial DEF CreateAssessment
<1>2. ASSUME NEW r \in Requests, StartAssessment(r) PROVE SerialInv'
  BY <1>2, ExecuteSerial DEF StartAssessment
<1>3. ASSUME NEW r \in Requests, AddFinding(r) PROVE SerialInv'
  BY <1>3, ExecuteSerial DEF AddFinding
<1>4. ASSUME NEW r \in Requests, CompleteAssessment(r) PROVE SerialInv'
  BY <1>4, ExecuteSerial DEF CompleteAssessment
<1>5. ASSUME NEW r \in Requests, ApproveAssessment(r) PROVE SerialInv'
  BY <1>5, ExecuteSerial DEF ApproveAssessment
<1>6. ASSUME NEW r \in Requests, Refuse(r) PROVE SerialInv'
  <2>1. Open' = Open /\ \A q \in Open : pc'[q] = pc[q]
    BY <1>6 DEF Refuse, IInv, TypeOK, Open, Working
  <2> QED
    BY <1>6, <2>1 DEF Refuse, SerialInv
<1>7. ASSUME NEW r \in Requests, Merge(r) PROVE SerialInv'
  BY <1>7, MergeSerial
<1>8. ASSUME NEW r \in Requests, Flush(r) \/ Publish(r) PROVE SerialInv'
  BY <1>8, GoesOnSerial
<1>9. ASSUME NEW r \in Requests, Commit(r) PROVE SerialInv'
  BY <1>9, CloseSerial DEF Commit, Working, Ended
<1>10. ASSUME NEW r \in Requests, RollBack(r) PROVE SerialInv'
  BY <1>10, CloseSerial DEF RollBack, Ended
<1>11. CASE UNCHANGED vars
  BY <1>11 DEF vars, SerialInv, Open
<1> QED
  BY <1>1, <1>2, <1>3, <1>4, <1>5, <1>6, <1>7, <1>8, <1>9, <1>10, <1>11 DEF Next

-----------------------------------------------------------------------------
\* No session commits after another has overtaken it, as if save() compared a version.
NeverOvertaken == [][\A r \in Requests : Commit(r) => UpToDate(r)]_vars

\* However many sessions are open, nothing but overtaken commits keeps the stored row
\* from its lifecycle: a check of the row's version in save() and at commit would give
\* back the documented one.  (_update_model, domain-model.md)
THEOREM VersionCheckWouldDo == Spec /\ NeverOvertaken => LifecycleKept
<1>1. Init => Lifecycle!Init
  <2>1. NoRow.status = "absent" /\ NoRow.score = None /\ NoRow.approvedBy = None
    BY DEF NoRow
  <2>2. NewRow.status = "scheduled" /\ NewRow.score = None /\ NewRow.approvedBy = None
    BY DEF NoRow, NewRow
  <2> QED
    BY <2>1, <2>2 DEF Init, Lifecycle!Init
<1>2. ASSUME IInv, [Next]_vars, [\A r \in Requests : Commit(r) => UpToDate(r)]_vars
      PROVE  [Lifecycle!Next]_(Lifecycle!vars)
  <2>1. CASE db' = db
    BY <2>1 DEF Lifecycle!vars
  <2>2. ASSUME db' # db, NEW r \in Requests, Commit(r)
        PROVE  [Lifecycle!Next]_(Lifecycle!vars)
    <3>1. UpToDate(r)
      BY <1>2, <2>2 DEF vars
    <3> QED
      BY <1>2, <2>2, <3>1, UpToDateMoves, MovesRefine
  <2> QED
    BY <1>2, <2>1, <2>2, OnlyCommitWrites
<1> QED
  BY <1>1, <1>2, Invariance, PTL
  DEF Spec, NeverOvertaken, LifecycleKept, Lifecycle!Spec

\* With one session at a time, the stored status goes through SCHEDULED,
\* IN_PROGRESS, PENDING_REVIEW and COMPLETED in this order, a score comes with a
\* completion only and an approver with an approval only.
\* (docs/architecture/domain-model.md, the use cases, save())
THEOREM SerialKeepsLifecycle ==
    ASSUME MaxSessions = 1
    PROVE  Spec => LifecycleKept
<1>1. IInv /\ SerialInv /\ [Next]_vars =>
          [\A r \in Requests : Commit(r) => UpToDate(r)]_vars
  BY DEF Commit, SerialInv, Open, Working, UpToDate
<1>2. Init => SerialInv
  BY InitSerial
<1>3. IInv /\ SerialInv /\ [Next]_vars => SerialInv'
  BY StepSerial
<1>4. Spec => NeverOvertaken
  BY <1>1, <1>2, <1>3, Invariance, PTL DEF Spec, NeverOvertaken
<1> QED
  BY <1>4, VersionCheckWouldDo, PTL

=============================================================================
