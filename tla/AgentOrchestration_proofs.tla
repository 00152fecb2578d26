---------------------- MODULE AgentOrchestration_proofs ----------------------
(***************************************************************************)
(* What the responses of the agents service say, for any number of         *)
(* requests, specialists and resets.                                       *)
(*                                                                         *)
(* The shared AgentStates may hold anything when a coroutine resumes; the  *)
(* invariant therefore speaks of what the coroutine carries itself (its    *)
(* role, its attempt, its task) and never of the shared state, beyond its  *)
(* types: every value a response needs is written in the step that reads   *)
(* it.                                                                     *)
(***************************************************************************)
EXTENDS AgentOrchestration, TLAPS

AgentStates == [status : Statuses, routing : Specialists \union {None},
                evaluation : BOOLEAN \union {None}]

Runs == [at : {"unmade", "asking", "backoff", "answered"},
         role : Roles \union {None}, attempt : 0..MaxAttempts,
         direct : BOOLEAN, sound : BOOLEAN, decided : Specialists \union {None}]

\* A run that was routed is where it was routed to.
AtDecided(x) == x.decided # None /\ ~x.direct => x.role = x.decided

Suspended ==
  \A t \in Tasks :
     /\ run[t].at = "asking" => run[t].role = Supervisor /\ run[t].decided = None
     /\ run[t].at = "backoff" => /\ ~run[t].sound
                                 /\ run[t].role \in Specialists
                                 /\ run[t].attempt \in 1..MaxAttempts

\* The response is given once, by the agent the run is in.
Reported ==
  \A t \in Tasks :
     /\ report[t] # None <=> run[t].at = "answered"
     /\ report[t] # None => report[t].role = run[t].role

Inv == /\ TypeOK /\ RoutedByOwnDecision /\ OwnVerdict /\ SettledReports /\ ApprovalKept
       /\ Suspended /\ Reported

-----------------------------------------------------------------------------
LEMMA FirstAttempt == 0 \in 0..MaxAttempts /\ 1 \in 0..MaxAttempts /\ 1 \in 1..MaxAttempts
  BY AgentsAssumption

LEMMA InitInv == Init => Inv
  <1> SUFFICES ASSUME Init PROVE Inv
    OBVIOUS
  <1>1. Fresh \in AgentStates
    BY DEF Fresh, AgentStates, Statuses
  <1>2. NotMade \in Runs
    BY FirstAttempt DEF NotMade, Runs
  <1>3. TypeOK
    BY <1>1, <1>2, AgentsAssumption DEF Init, TypeOK, AgentStates, Runs
  <1>4. \A t \in Tasks : run[t].at = "unmade" /\ run[t].decided = None
    BY DEF Init, NotMade
  <1>5. \A t \in Tasks : report[t] = None /\ approvals[t] = None
    BY DEF Init
  <1> QED
    BY <1>3, <1>4, <1>5 DEF Inv, RoutedByOwnDecision, OwnVerdict, SettledReports,
       ApprovalKept, Suspended, Reported

\* The states that a run's beginning and end, and a routing, leave.
LEMMA AgentTypes ==
  ASSUME NEW a \in [Roles -> AgentStates], NEW r \in Roles, NEW d \in Specialists,
         NEW passed \in BOOLEAN
  PROVE  /\ Begun(a, r) \in [Roles -> AgentStates]
         /\ AskedOf(a, r) \in [Roles -> AgentStates]
         /\ Routed(a, d) \in [Roles -> AgentStates]
         /\ Ended(a, r, passed) \in [Roles -> AgentStates]
         /\ Ended(a, r, passed)[r].evaluation = passed
         /\ Ended(a, r, passed)[r].routing = a[r].routing
         /\ Ended(a, r, passed)[r].status =
              IF a[r].status = "waiting" THEN "waiting" ELSE "completed"
  <1>1. a[r] \in AgentStates
    OBVIOUS
  <1> QED
    BY <1>1 DEF Begun, AskedOf, Routed, Ended, AgentStates, Statuses

\* The other tasks are not concerned: if t's records fit, all do.
LEMMA OneTask ==
  ASSUME Inv, NEW t \in Tasks, NEW x \in Runs,
         NEW rep \in Reports \union {None},
         NEW app \in Decisions \union {None, Pending},
         NEW ts \in {"pending", "in_progress", "waiting", "completed"},
         agent' \in [Roles -> AgentStates],
         run' = [run EXCEPT ![t] = x],
         report' = [report EXCEPT ![t] = rep],
         approvals' = [approvals EXCEPT ![t] = app],
         taskStatus' = [taskStatus EXCEPT ![t] = ts],
         resets' \in 0..MaxResets,
         AtDecided(x),
         x.at = "asking" => x.role = Supervisor /\ x.decided = None,
         x.at = "backoff" => ~x.sound /\ x.role \in Specialists /\ x.attempt \in 1..MaxAttempts,
         rep # None <=> x.at = "answered",
         rep # None => /\ rep.role = x.role
                       /\ x.role # Supervisor => rep.passed = x.sound
                       /\ rep.status \in {"waiting", "completed"}
                       /\ rep.role = Approval /\ rep.passed => rep.status = "waiting",
         app # None <=> rep # None /\ rep.role = Approval /\ rep.passed
  PROVE  Inv'
  <1>1. TypeOK'
    BY DEF Inv, TypeOK, AgentStates, Runs
  <1>2. /\ run'[t] = x /\ report'[t] = rep /\ approvals'[t] = app
        /\ \A u \in Tasks \ {t} : /\ run'[u] = run[u] /\ report'[u] = report[u]
                                  /\ approvals'[u] = approvals[u]
    BY DEF Inv, TypeOK
  <1>3. RoutedByOwnDecision'
    BY <1>2 DEF Inv, RoutedByOwnDecision, AtDecided
  <1>4. OwnVerdict'
    BY <1>2 DEF Inv, OwnVerdict
  <1>5. SettledReports'
    BY <1>2 DEF Inv, SettledReports
  <1>6. ApprovalKept'
    BY <1>2 DEF Inv, ApprovalKept
  <1>7. Suspended'
    BY <1>2 DEF Inv, Suspended
  <1>8. Reported'
    BY <1>2 DEF Inv, Reported
  <1> QED
    BY <1>1, <1>3, <1>4, <1>5, <1>6, <1>7, <1>8 DEF Inv

-----------------------------------------------------------------------------
\* A response, of a specialist whose attempt ended it or of the supervisor.
LEMMA AnswersKeeps ==
  ASSUME Inv, NEW t \in Tasks, NEW x \in Runs, NEW a \in [Roles -> AgentStates],
         NEW passed \in BOOLEAN, x.role \in Roles, AtDecided(x),
         x.role # Supervisor => passed = x.sound,
         x.role = Approval /\ passed => a[Approval].status = "waiting",
         NEW app \in Decisions \union {None, Pending},
         approvals' = [approvals EXCEPT ![t] = app],
         app # None <=> x.role = Approval /\ passed,
         Answers(t, x, a, passed), resets' = resets
  PROVE  Inv'
  <1> DEFINE b == Ended(a, x.role, passed)
             y == [x EXCEPT !.at = "answered"]
             rep == [role |-> x.role, status |-> b[x.role].status,
                     passed |-> b[x.role].evaluation]
             ts == IF x.direct /\ x.role = Approval /\ passed THEN "waiting" ELSE "completed"
  <1>1. Approval \in Specialists /\ Supervisor \notin Specialists
    BY AgentsAssumption
  <1>2. /\ b \in [Roles -> AgentStates]
        /\ b[x.role].evaluation = passed
        /\ b[x.role].status = IF a[x.role].status = "waiting" THEN "waiting" ELSE "completed"
    BY <1>1, AgentTypes
  <1>3. y \in Runs /\ y.at = "answered" /\ y.role = x.role /\ y.sound = x.sound /\ AtDecided(y)
    BY DEF Runs, AtDecided
  <1>4. /\ rep \in Reports
        /\ rep.role = x.role /\ rep.passed = passed
        /\ rep.status \in {"waiting", "completed"}
        /\ rep.role = Approval /\ rep.passed => rep.status = "waiting"
    BY <1>2 DEF Reports, Statuses
  <1>5. rep # None
    BY <1>4, NoReport
  <1>6. ts \in {"pending", "in_progress", "waiting", "completed"}
    OBVIOUS
  <1>7. /\ agent' = b /\ run' = [run EXCEPT ![t] = y] /\ report' = [report EXCEPT ![t] = rep]
        /\ taskStatus' = [taskStatus EXCEPT ![t] = ts] /\ resets' \in 0..MaxResets
    BY DEF Answers, Inv, TypeOK
  <1> HIDE DEF b, y, rep, ts
  <1> QED
    BY <1>2, <1>3, <1>4, <1>5, <1>6, <1>7, OneTask

-----------------------------------------------------------------------------
LEMMA AttemptKeeps ==
  ASSUME Inv, NEW t \in Tasks, NEW x \in Runs, NEW a \in [Roles -> AgentStates],
         x.role \in Specialists, x.attempt \in 1..MaxAttempts, AtDecided(x),
         run[t].at # "answered",
         Attempt(t, x, a), resets' = resets
  PROVE  Inv'
  <1>1. Approval \in Specialists /\ Supervisor \notin Specialists /\ x.role \in Roles
        /\ Approval \in Roles
    BY AgentsAssumption DEF Roles
  <1>2. report[t] = None /\ approvals[t] = None
    BY DEF Inv, Reported, ApprovalKept
  <1>3. x.sound \in BOOLEAN /\ MaxAttempts \in Nat
    BY AgentsAssumption DEF Runs
  <1>4. CASE Succeeds(t, x, a)
    <2> DEFINE c == AskedOf(a, x.role)
               app == IF x.role = Approval THEN Pending ELSE None
    <2>1. c \in [Roles -> AgentStates]
      BY <1>1, AgentTypes
    <2>2. x.role = Approval => c[Approval].status = "waiting"
      BY <1>1 DEF AskedOf, AgentStates
    <2>3. x.sound = TRUE /\ Answers(t, x, c, TRUE)
      BY <1>3, <1>4 DEF Succeeds
    <2>4. approvals' = [approvals EXCEPT ![t] = app]
      BY <1>2, <1>4 DEF Succeeds, Requested, Inv, TypeOK
    <2>5. app \in Decisions \union {None, Pending} /\ (app # None <=> x.role = Approval)
      BY AgentsAssumption
    <2> HIDE DEF c, app
    <2> QED
      BY <1>1, <2>1, <2>2, <2>3, <2>4, <2>5, AnswersKeeps
  <1>5. CASE Retries(t, x, a)
    <2> DEFINE y == [x EXCEPT !.at = "backoff", !.attempt = @ + 1]
               c == [a EXCEPT ![x.role].status = "retrying"]
    <2>a. x.attempt + 1 \in 1..MaxAttempts /\ x.attempt + 1 \in 0..MaxAttempts
      BY <1>3, <1>5 DEF Retries
    <2>1. y \in Runs /\ y.at = "backoff" /\ y.sound = x.sound /\ y.role = x.role
          /\ y.attempt \in 1..MaxAttempts
      BY <2>a DEF Runs
    <2>2. AtDecided(y)
      BY DEF AtDecided, Runs
    <2>3. c \in [Roles -> AgentStates]
      BY <1>1 DEF AgentStates, Statuses
    <2>4. /\ agent' = c /\ run' = [run EXCEPT ![t] = y]
          /\ taskStatus' = [taskStatus EXCEPT ![t] = "in_progress"]
          /\ approvals' = [approvals EXCEPT ![t] = None]
          /\ report' = [report EXCEPT ![t] = None]
          /\ ~y.sound /\ resets' \in 0..MaxResets
      BY <1>2, <1>5, <2>1 DEF Retries, Inv, TypeOK
    <2> HIDE DEF y, c
    <2> QED
      BY <2>1, <2>2, <2>3, <2>4, OneTask
  <1>6. CASE FallsBack(t, x, a)
    <2>1. x.sound = FALSE /\ Answers(t, x, a, FALSE)
      BY <1>3, <1>6 DEF FallsBack
    <2>2. approvals' = [approvals EXCEPT ![t] = None]
      BY <1>2, <1>6 DEF FallsBack, Inv, TypeOK
    <2> QED
      BY <1>1, <2>1, <2>2, AnswersKeeps
  <1> QED
    BY <1>4, <1>5, <1>6 DEF Attempt

LEMMA AsksKeeps ==
  ASSUME Inv, NEW t \in Tasks, NEW x \in Runs, x.decided = None,
         run[t].at = "unmade", Asks(t, x), resets' = resets
  PROVE  Inv'
  <1> DEFINE y == [x EXCEPT !.at = "asking", !.role = Supervisor]
  <1>1. Supervisor \in Roles
    BY DEF Roles
  <1>2. report[t] = None /\ approvals[t] = None
    BY DEF Inv, Reported, ApprovalKept
  <1>3. y \in Runs /\ y.at = "asking" /\ y.role = Supervisor /\ y.decided = None
    BY <1>1 DEF Runs
  <1>4. AtDecided(y)
    BY <1>3 DEF AtDecided
  <1>5. agent \in [Roles -> AgentStates]
    BY DEF Inv, TypeOK, AgentStates
  <1>6. Begun(agent, Supervisor) \in [Roles -> AgentStates]
    BY <1>1, <1>5 DEF Begun, AgentStates, Statuses
  <1>7. /\ agent' = Begun(agent, Supervisor) /\ run' = [run EXCEPT ![t] = y]
        /\ taskStatus' = [taskStatus EXCEPT ![t] = "in_progress"]
        /\ approvals' = [approvals EXCEPT ![t] = None]
        /\ report' = [report EXCEPT ![t] = None] /\ resets' \in 0..MaxResets
    BY <1>2 DEF Asks, Inv, TypeOK
  <1> HIDE DEF y
  <1> QED
    BY <1>3, <1>4, <1>6, <1>7, OneTask

LEMMA DecideKeeps ==
  ASSUME Inv, NEW t \in Tasks, NEW d \in Specialists, Decide(t, d)
  PROVE  Inv'
  <1> DEFINE a == Routed(agent, d)
             x == [run[t] EXCEPT !.decided = d]
             b == Ended(a, Supervisor, TRUE)
  <1>1. /\ run[t].at = "asking" /\ run[t].role = Supervisor
        /\ report[t] = None /\ approvals[t] = None /\ resets' = resets
    BY DEF Decide, Inv, Suspended, Reported, ApprovalKept
  <1>2. Supervisor \in Roles /\ d \in Roles /\ Approval # Supervisor /\ MaxAttempts \in Nat \ {0}
    BY AgentsAssumption DEF Roles
  <1>3. agent \in [Roles -> AgentStates] /\ run[t] \in Runs
    BY DEF Inv, TypeOK, AgentStates, Runs
  <1>4. a \in [Roles -> AgentStates] /\ a[Supervisor].routing = d
    BY <1>2, <1>3, AgentTypes DEF Routed, AgentStates
  <1>5. b \in [Roles -> AgentStates] /\ b[Supervisor].routing = d
    BY <1>2, <1>4, AgentTypes
  <1>6. x \in Runs /\ x.role = Supervisor /\ x.decided = d
    BY <1>1, <1>3 DEF Runs
  <1>7. CASE x.direct
    <2>1. Answers(t, x, a, TRUE) /\ approvals' = [approvals EXCEPT ![t] = None]
      BY <1>1, <1>7 DEF Decide, Inv, TypeOK
    <2>2. AtDecided(x)
      BY <1>7 DEF AtDecided
    <2> HIDE DEF a, x, b
    <2> QED
      BY <1>1, <1>2, <1>4, <1>6, <2>1, <2>2, AnswersKeeps
  <1>8. CASE ~x.direct
    <2> DEFINE y == [x EXCEPT !.role = d, !.attempt = 1]
    <2>1. Attempt(t, y, Begun(b, d))
      BY <1>5, <1>8 DEF Decide
    <2>2. y \in Runs /\ y.role = d /\ y.attempt = 1 /\ y.decided = d
      BY <1>2, <1>6, FirstAttempt DEF Runs
    <2>3. AtDecided(y)
      BY <2>2 DEF AtDecided
    <2>4. Begun(b, d) \in [Roles -> AgentStates]
      BY <1>2, <1>5, AgentTypes
    <2>5. y.attempt \in 1..MaxAttempts
      BY <1>2, <2>2
    <2> HIDE DEF a, x, b, y
    <2> QED
      BY <1>1, <2>1, <2>2, <2>3, <2>4, <2>5, AttemptKeeps
  <1> QED
    BY <1>7, <1>8

LEMMA RunDirectKeeps ==
  ASSUME Inv, NEW t \in Tasks, NEW r \in Roles, RunDirect(t, r)
  PROVE  Inv'
  <1>1. run[t].at = "unmade" /\ resets' = resets
    BY DEF RunDirect
  <1>2. PICK s \in BOOLEAN :
          LET x == [NotMade EXCEPT !.direct = TRUE, !.sound = s, !.role = r, !.attempt = 1]
          IN IF r = Supervisor THEN Asks(t, x) ELSE Attempt(t, x, Begun(agent, r))
    BY DEF RunDirect
  <1> DEFINE x == [NotMade EXCEPT !.direct = TRUE, !.sound = s, !.role = r, !.attempt = 1]
  <1>3. MaxAttempts \in Nat \ {0}
    BY AgentsAssumption
  <1>4. x \in Runs /\ x.role = r /\ x.attempt = 1 /\ x.decided = None
    BY FirstAttempt DEF NotMade, Runs
  <1>5. AtDecided(x)
    BY <1>4 DEF AtDecided
  <1>6. CASE r = Supervisor
    <2>1. Asks(t, x)
      BY <1>2, <1>6
    <2> HIDE DEF x
    <2> QED
      BY <1>1, <1>4, <2>1, AsksKeeps
  <1>7. CASE r # Supervisor
    <2>1. Attempt(t, x, Begun(agent, r))
      BY <1>2, <1>7
    <2>2. agent \in [Roles -> AgentStates]
      BY DEF Inv, TypeOK, AgentStates
    <2>3. Begun(agent, r) \in [Roles -> AgentStates]
      BY <2>2 DEF Begun, AgentStates, Statuses
    <2>4. r \in Specialists
      BY <1>7 DEF Roles
    <2> HIDE DEF x
    <2> QED
      BY <1>1, <1>3, <1>4, <1>5, <2>1, <2>3, <2>4, AttemptKeeps
  <1> QED
    BY <1>6, <1>7

LEMMA NextKeeps ==
  ASSUME Inv, [Next]_vars
  PROVE  Inv'
  <1>0. agent \in [Roles -> AgentStates] /\ run \in [Tasks -> Runs]
    BY DEF Inv, TypeOK, AgentStates, Runs
  <1>1. CASE UNCHANGED vars
    BY <1>1 DEF vars, Inv, TypeOK, RoutedByOwnDecision, OwnVerdict, SettledReports,
       ApprovalKept, Suspended, Reported
  <1>2. ASSUME NEW t \in Tasks, RunWorkflow(t) PROVE Inv'
    <2>1. PICK s \in BOOLEAN : Asks(t, [NotMade EXCEPT !.sound = s])
      BY <1>2 DEF RunWorkflow
    <2>2. /\ [NotMade EXCEPT !.sound = s] \in Runs
          /\ [NotMade EXCEPT !.sound = s].decided = None
      BY FirstAttempt DEF NotMade, Runs
    <2>3. PICK x \in Runs : x.decided = None /\ Asks(t, x)
      BY <2>1, <2>2
    <2> QED
      BY <1>2, <2>3, AsksKeeps DEF RunWorkflow
  <1>3. ASSUME NEW t \in Tasks, Wake(t) PROVE Inv'
    <2>1. /\ run[t].at = "backoff" /\ run[t].role \in Specialists
          /\ run[t].attempt \in 1..MaxAttempts /\ AtDecided(run[t])
      BY <1>3 DEF Wake, Inv, Suspended, RoutedByOwnDecision, AtDecided
    <2> QED
      BY <1>0, <1>3, <2>1, AttemptKeeps DEF Wake
  <1>4. ASSUME NEW t \in Tasks, NEW d \in Decisions, Resolve(t, d) PROVE Inv'
    <2>1. d # None
      BY AgentsAssumption
    <2> QED
      BY <1>4, <2>1 DEF Resolve, Inv, TypeOK, RoutedByOwnDecision, OwnVerdict, SettledReports,
         ApprovalKept, Suspended, Reported
  <1>5. CASE ResetAll
    <2>1. Fresh \in AgentStates
      BY DEF Fresh, AgentStates, Statuses
    <2>2. agent' \in [Roles -> AgentStates]
      BY <1>5, <2>1 DEF ResetAll
    <2>3. resets' \in 0..MaxResets
      BY <1>5, AgentsAssumption DEF ResetAll, Inv, TypeOK
    <2>4. TypeOK'
      BY <1>5, <2>2, <2>3 DEF ResetAll, Inv, TypeOK, AgentStates
    <2> QED
      BY <1>5, <2>4 DEF ResetAll, Inv, RoutedByOwnDecision, OwnVerdict, SettledReports,
         ApprovalKept, Suspended, Reported
  <1> QED
    BY <1>1, <1>2, <1>3, <1>4, <1>5, RunDirectKeeps, DecideKeeps DEF Next

\* The invariant holds of every behaviour of the agents service.
THEOREM Invariance == Spec => []Inv
  <1>1. Inv /\ [Next]_vars => Inv'
    BY NextKeeps
  <1> QED
    BY InitInv, <1>1, PTL DEF Spec

\* States, runs and responses keep to their types; no attempt is beyond max_retries.
\* (base_agent.py _run_with_retry)
THEOREM TypeCorrect == Spec => []TypeOK
  <1>1. Inv => TypeOK
    BY DEF Inv
  <1> QED
    BY Invariance, <1>1, PTL

\* A workflow enters the agent its own model call named.  (orchestrator.py _supervisor_node)
THEOREM RoutingOwn == Spec => []RoutedByOwnDecision
  <1>1. Inv => RoutedByOwnDecision
    BY DEF Inv
  <1> QED
    BY Invariance, <1>1, PTL

\* A response gives the verdict on its own task.  (orchestrator.py _run_agent)
THEOREM VerdictOwn == Spec => []OwnVerdict
  <1>1. Inv => OwnVerdict
    BY DEF Inv
  <1> QED
    BY Invariance, <1>1, PTL

\* A response shows a settled agent, whatever others did to the shared status.
\* (base_agent.py run)
THEOREM ReportsSettled == Spec => []SettledReports
  <1>1. Inv => SettledReports
    BY DEF Inv
  <1> QED
    BY Invariance, <1>1, PTL

\* An approval asked for is kept, and no other exists.
\* (human_approval.py _pending_approvals)
THEOREM ApprovalsKept == Spec => []ApprovalKept
  <1>1. Inv => ApprovalKept
    BY DEF Inv
  <1> QED
    BY Invariance, <1>1, PTL
=============================================================================
