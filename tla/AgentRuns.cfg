\* Three requests, two specialists of which one asks for approvals, the code's
\* three attempts, one reset at any moment.
SPECIFICATION FairSpec
CONSTANTS
  Tasks = {t1, t2, t3}
  Specialists = {legal, approval}
  Approval = approval
  Supervisor = supervisor
  Decisions = {approve, reject}
  None = None
  Pending = Pending
  MaxAttempts = 3
  MaxResets = 1
INVARIANTS TypeOK RoutedByOwnDecision OwnVerdict SettledReports ApprovalKept
PROPERTY RunsEnd
CHECK_DEADLOCK FALSE
