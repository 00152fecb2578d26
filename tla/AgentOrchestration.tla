------------------------- MODULE AgentOrchestration -------------------------
(***************************************************************************)
(* The agents service: one AgentOrchestrator for the whole process         *)
(* (agents/interfaces/api.py) whose agents each keep ONE AgentState that   *)
(* every task running in them reads and writes, that `reset_all' replaces, *)
(* and whose human-approval agent keeps the approvals asked for.           *)
(*                                                                         *)
(* Coroutines of one event loop give up control at two awaits only: the    *)
(* supervisor's language-model call and the sleep before a second or later *)
(* attempt; what lies between two of them is one action.                   *)
(***************************************************************************)
EXTENDS Naturals

CONSTANTS Tasks,        \* every POST builds a Task with an id of its own
          Specialists,  \* the agents a task can be routed to
          Approval,     \* the HumanApprovalAgent among them
          Supervisor,   \* the SupervisorAgent
          Decisions,    \* what POST /agents/approve may carry
          None, Pending,
          MaxAttempts,  \* BaseAgent.max_retries
          MaxResets     \* bound: how often POST /agents/reset is called

ASSUME AgentsAssumption ==
  /\ Approval \in Specialists /\ Supervisor \notin Specialists
  /\ None \notin Specialists \union Decisions \union {Pending, Supervisor}
  /\ Pending \notin Decisions
  /\ MaxAttempts \in Nat \ {0} /\ MaxResets \in Nat

VARIABLES agent,      \* role -> its AgentState: status, routing, evaluation
          run,        \* task -> where the request that carries it stands
          taskStatus, \* task -> Task.status
          approvals,  \* task -> its entry of _pending_approvals
          report,     \* task -> what the response says of the agent's run
          resets
vars == <<agent, run, taskStatus, approvals, report, resets>>

Roles == Specialists \union {Supervisor}

Statuses == {"idle", "running", "retrying", "waiting", "completed"}

(* What the response copies of the agent's state. *)
Reports == [role : Roles, status : Statuses, passed : BOOLEAN]

ASSUME NoReport == None \notin Reports

(* AgentState as the constructor and reset_state build it. *)
Fresh == [status |-> "idle", routing |-> None, evaluation |-> None]

(* A request not made yet; `sound': the attempts of its agent succeed.     *)
(* They do or do not for the agent and the input together (legal and       *)
(* approval raise at input_data that is no JSON object; agents that pass   *)
(* their tools arguments those do not take raise always), so it is left    *)
(* free.  `decided' records what the supervisor's model call gave this     *)
(* task.                                                                   *)
NotMade == [at |-> "unmade", role |-> None, attempt |-> 0,
            direct |-> FALSE, sound |-> TRUE, decided |-> None]

Init == /\ agent = [r \in Roles |-> Fresh]
        /\ run = [t \in Tasks |-> NotMade]
        /\ taskStatus = [t \in Tasks |-> "pending"]
        /\ approvals = [t \in Tasks |-> None]
        /\ report = [t \in Tasks |-> None]
        /\ resets = 0
-----------------------------------------------------------------------------
Begun(a, r) == [a EXCEPT ![r].status = "running"]

\* As if the verdict of a failed run left an earlier one alone.
Ended_KeepsVerdict(a, r, passed) ==
  [a EXCEPT ![r].evaluation = IF passed \/ @ = None THEN passed ELSE @,
            ![r].status = IF @ = "waiting" THEN @ ELSE "completed"]

\* As if a run completed only an agent that still reads `running'.
Ended_OnlyRunning(a, r, passed) ==
  [a EXCEPT ![r].evaluation = passed,
            ![r].status = IF @ = "running" THEN "completed" ELSE @]

(* The end of BaseAgent.run: whoever left WAITING_FOR_INPUT in the shared  *)
(* state, it stays.                                                        *)
Ended(a, r, passed) ==
  [a EXCEPT ![r].evaluation = passed,
            ![r].status = IF @ = "waiting" THEN @ ELSE "completed"]

\* As if a decision already there were kept.
Routed_Sticky(a, d) ==
  IF a[Supervisor].routing = None THEN [a EXCEPT ![Supervisor].routing = d] ELSE a

(* SupervisorAgent._execute after its model call has answered d. *)
Routed(a, d) == [a EXCEPT ![Supervisor].routing = d]

(* HumanApprovalAgent._execute: the request is stored, then the status.    *)
AskedOf(a, r) == IF r = Approval THEN [a EXCEPT ![r].status = "waiting"] ELSE a
Requested(r, t) ==
  IF r = Approval THEN [approvals EXCEPT ![t] = Pending] ELSE approvals

(* The agent's run is over: the response copies the scalars of the shared  *)
(* state, and a workflow's _finalize completes the task, waiting or not    *)
(* (no agent's run can end FAILED, so `errors' is empty).                  *)
Answers(t, x, a, passed) ==
  LET b == Ended(a, x.role, passed)
  IN /\ agent' = b
     /\ run' = [run EXCEPT ![t] = [x EXCEPT !.at = "answered"]]
     /\ report' = [report EXCEPT ![t] = [role |-> x.role,
                                         status |-> b[x.role].status,
                                         passed |-> b[x.role].evaluation]]
     /\ taskStatus' = [taskStatus EXCEPT ![t] =
          IF x.direct /\ x.role = Approval /\ passed THEN "waiting" ELSE "completed"]

(* One attempt of _run_with_retry in a specialist. *)
Succeeds(t, x, a) == /\ x.sound
                     /\ approvals' = Requested(x.role, t)
                     /\ Answers(t, x, AskedOf(a, x.role), TRUE)

\* As if max_retries counted the attempts after the first.
Retries_OneMore(t, x, a) ==
  /\ ~x.sound /\ x.attempt <= MaxAttempts
  /\ agent' = [a EXCEPT ![x.role].status = "retrying"]
  /\ run' = [run EXCEPT ![t] = [x EXCEPT !.at = "backoff", !.attempt = @ + 1]]
  /\ taskStatus' = [taskStatus EXCEPT ![t] = "in_progress"]
  /\ UNCHANGED <<approvals, report>>

\* As if no attempt were counted.
Retries_Uncounted(t, x, a) ==
  /\ ~x.sound /\ x.attempt < MaxAttempts
  /\ agent' = [a EXCEPT ![x.role].status = "retrying"]
  /\ run' = [run EXCEPT ![t] = [x EXCEPT !.at = "backoff"]]
  /\ taskStatus' = [taskStatus EXCEPT ![t] = "in_progress"]
  /\ UNCHANGED <<approvals, report>>

Retries(t, x, a) ==
  /\ ~x.sound /\ x.attempt < MaxAttempts
  /\ agent' = [a EXCEPT ![x.role].status = "retrying"]
  /\ run' = [run EXCEPT ![t] = [x EXCEPT !.at = "backoff", !.attempt = @ + 1]]
  /\ taskStatus' = [taskStatus EXCEPT ![t] = "in_progress"]
  /\ UNCHANGED <<approvals, report>>

FallsBack(t, x, a) == /\ ~x.sound /\ x.attempt >= MaxAttempts
                      /\ Answers(t, x, a, FALSE)
                      /\ UNCHANGED approvals

Attempt(t, x, a) == Succeeds(t, x, a) \/ Retries(t, x, a) \/ FallsBack(t, x, a)

(* The supervisor's run begins and waits for the model. *)
Asks(t, x) == /\ agent' = Begun(agent, Supervisor)
              /\ run' = [run EXCEPT ![t] = [x EXCEPT !.at = "asking", !.role = Supervisor]]
              /\ taskStatus' = [taskStatus EXCEPT ![t] = "in_progress"]
              /\ UNCHANGED <<approvals, report>>

(* POST /agents/workflow *)
RunWorkflow(t) == /\ run[t].at = "unmade"
                  /\ \E s \in BOOLEAN : Asks(t, [NotMade EXCEPT !.sound = s])
                  /\ UNCHANGED resets

(* POST /agents/workflow/direct *)
RunDirect(t, r) ==
  /\ run[t].at = "unmade"
  /\ \E s \in BOOLEAN :
       LET x == [NotMade EXCEPT !.direct = TRUE, !.sound = s, !.role = r, !.attempt = 1]
       IN IF r = Supervisor THEN Asks(t, x) ELSE Attempt(t, x, Begun(agent, r))
  /\ UNCHANGED resets

(* The model has answered, or failed and left the rule-based text: the     *)
(* first agent name found in it is the decision.  The workflow reads the   *)
(* decision back from the supervisor's state and enters that agent.        *)
Decide(t, d) ==
  /\ run[t].at = "asking"
  /\ LET a == Routed(agent, d)
         x == [run[t] EXCEPT !.decided = d]
         b == Ended(a, Supervisor, TRUE)
         next == b[Supervisor].routing
     IN IF x.direct
        THEN Answers(t, x, a, TRUE) /\ UNCHANGED approvals
        ELSE Attempt(t, [x EXCEPT !.role = next, !.attempt = 1], Begun(b, next))
  /\ UNCHANGED resets

(* The sleep before the next attempt is over. *)
Wake(t) == /\ run[t].at = "backoff"
           /\ Attempt(t, run[t], agent)
           /\ UNCHANGED resets

(* POST /agents/approve for a request that exists; a second decision       *)
(* replaces the first.                                                     *)
Resolve(t, d) == /\ approvals[t] # None
                 /\ approvals' = [approvals EXCEPT ![t] = d]
                 /\ UNCHANGED <<agent, run, taskStatus, report, resets>>

\* As if the reset took the approvals along.
ResetAll_Approvals == /\ resets < MaxResets
                      /\ resets' = resets + 1
                      /\ agent' = [r \in Roles |-> Fresh]
                      /\ approvals' = [t \in Tasks |-> None]
                      /\ UNCHANGED <<run, taskStatus, report>>

(* POST /agents/reset: new AgentStates, whoever is running. *)
ResetAll == /\ resets < MaxResets
            /\ resets' = resets + 1
            /\ agent' = [r \in Roles |-> Fresh]
            /\ UNCHANGED <<run, taskStatus, approvals, report>>

Next == \/ \E t \in Tasks : \/ RunWorkflow(t) \/ Wake(t)
                            \/ \E r \in Roles : RunDirect(t, r)
                            \/ \E d \in Specialists : Decide(t, d)
                            \/ \E d \in Decisions : Resolve(t, d)
        \/ ResetAll

Spec == Init /\ [][Next]_vars

(* A sleep ends; a model call answers or raises (the client gives up by    *)
(* itself).                                                                *)
Fairness == \A t \in Tasks : /\ WF_vars(Wake(t))
                             /\ WF_vars(\E d \in Specialists : Decide(t, d))
FairSpec == Spec /\ Fairness
-----------------------------------------------------------------------------
(* The types of the variables; an attempt is never beyond max_retries. *)
TypeOK ==
  /\ agent \in [Roles -> [status : Statuses, routing : Specialists \union {None},
                          evaluation : BOOLEAN \union {None}]]
  /\ run \in [Tasks -> [at : {"unmade", "asking", "backoff", "answered"},
                        role : Roles \union {None}, attempt : 0..MaxAttempts,
                        direct : BOOLEAN, sound : BOOLEAN,
                        decided : Specialists \union {None}]]
  /\ taskStatus \in [Tasks -> {"pending", "in_progress", "waiting", "completed"}]
  /\ approvals \in [Tasks -> Decisions \union {None, Pending}]
  /\ report \in [Tasks -> Reports \union {None}]
  /\ resets \in 0..MaxResets

(* A workflow goes to the agent that its own model call named: the routing *)
(* decision is handed over through the supervisor's shared state, which    *)
(* other workflows overwrite and /agents/reset replaces while this one     *)
(* waits for the model (orchestrator.py _supervisor_node).                 *)
RoutedByOwnDecision ==
  \A t \in Tasks : run[t].decided # None /\ ~run[t].direct
                     => run[t].role = run[t].decided

(* A response never passes off another task's result: it says `passed'     *)
(* exactly when this task's own attempts succeeded, although the           *)
(* evaluation it is copied from lies in the shared state                   *)
(* (orchestrator.py _run_agent, base_agent.py run).                        *)
OwnVerdict ==
  \A t \in Tasks : report[t] # None /\ report[t].role # Supervisor
                     => report[t].passed = run[t].sound

(* A response shows a settled agent: whatever other runs and resets did to *)
(* the shared status, it reads completed or waiting for input, and it      *)
(* reads waiting after an approval was asked for (base_agent.py run).      *)
SettledReports ==
  \A t \in Tasks : report[t] # None =>
     /\ report[t].status \in {"waiting", "completed"}
     /\ report[t].role = Approval /\ report[t].passed => report[t].status = "waiting"

(* An approval asked for can always be decided: the request of a run that  *)
(* answered `passed' is kept, whatever is reset, and the request of a run  *)
(* that failed does not exist (human_approval.py _pending_approvals).      *)
ApprovalKept ==
  \A t \in Tasks :
     approvals[t] # None <=>
       report[t] # None /\ report[t].role = Approval /\ report[t].passed

(* Every request made is answered, even when the agent it runs in is reset *)
(* or used by others between its attempts.                                 *)
RunsEnd == \A t \in Tasks : run[t].at # "unmade" ~> run[t].at = "answered"
=============================================================================
