------------------------ MODULE AssessmentLifecycle ------------------------
(***************************************************************************)
(* The promise of the compliance-assessment aggregate, as seen by a reader *)
(* of the stored row: docs/architecture/domain-model.md states the one-way *)
(* lifecycle SCHEDULED -> IN_PROGRESS -> PENDING_REVIEW -> COMPLETED, and  *)
(* each step of it stores what it must.  AssessmentWorkflow is the         *)
(* detailed specification; it implements this one when requests do not     *)
(* overlap.                                                                *)
(***************************************************************************)
CONSTANTS Users,   \* those who may approve
          Scores,  \* the scores a client may submit
          None     \* the NULL column

VARIABLES status,    \* compliance_assessments.status, or "absent" before the INSERT
          score,     \* overall_score
          approvedBy \* approved_by

vars == <<status, score, approvedBy>>

Init == status \in {"absent", "scheduled"} /\ score = None /\ approvedBy = None

Create == /\ status = "absent"
          /\ status' = "scheduled"
          /\ UNCHANGED <<score, approvedBy>>

Start == /\ status = "scheduled"
         /\ status' = "in_progress"
         /\ UNCHANGED <<score, approvedBy>>

Complete(s) == /\ status = "in_progress"
               /\ status' = "pending_review"
               /\ score' = s
               /\ UNCHANGED approvedBy

Approve(u) == /\ status = "pending_review"
              /\ status' = "completed"
              /\ approvedBy' = u
              /\ UNCHANGED score

Next == \/ Create
        \/ Start
        \/ \E s \in Scores : Complete(s)
        \/ \E u \in Users : Approve(u)

Spec == Init /\ [][Next]_vars
=============================================================================
