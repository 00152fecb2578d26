---------------------------- MODULE TaskScheduler ----------------------------
(***************************************************************************)
(* The asyncio task scheduler of application/services/scheduler.py.        *)
(*                                                                         *)
(* schedule_* puts a new Task object under a name, replacing whatever was  *)
(* there; the loop wakes once a second and spawns a coroutine for every    *)
(* due task that is not running; the coroutine retries the task's function *)
(* and, for a one-shot, cancels its own name at the end.  start() and      *)
(* shutdown() may be called at any time, also while the other is awaiting. *)
(* Code between two awaits is one step.  Clock time is abstracted to       *)
(* due[i], set when i's interval, expression or delay has come round.      *)
(***************************************************************************)
EXTENDS Integers, FiniteSets, Sequences

CONSTANTS
    MaxTasks,  \* the Task objects that may ever be created
    MaxLoops,  \* the loop coroutines that may ever be started
    MaxRuns,   \* how often one task may become due
    Names,     \* the names tasks are scheduled under
    Retries,   \* Task.retries
    MaxPolls,  \* the one-second polls of shutdown(), 10 in the code
    None

ASSUME SchedulerAssumption ==
    /\ {MaxTasks, MaxLoops, MaxRuns, Retries} \subseteq Nat
    /\ MaxPolls \in Nat \ {0}
    /\ None \notin Names

Tasks == 1..MaxTasks  \* in the order of their creation
Loops == 1..MaxLoops  \* likewise

\* "interval" stands for a well-formed cron expression too; "bad_cron" has five
\* fields, which is all schedule_cron checks, and one that int() rejects.
Kinds == {"interval", "once", "bad_cron"}

VARIABLES
    tasks,      \* _tasks.values(): the listed tasks, in the dict's order
    name,       \* name[i]: the name task i was scheduled under, or None
    kind,       \* kind[i]: task_type, "unborn" before the Task exists
    isRunning,  \* isRunning[i]: is_running
    runCount,   \* runCount[i]: run_count; last_run is set iff it is not 0
    due,        \* due[i]: the time of i's next run has come
    worker,     \* worker[i]: _run_task(i) is "executing", "sleeping" or "none"
    attempt,    \* attempt[i]: the attempt it is at, 0 when there is none
    metrics,    \* _metrics
    running,    \* _running
    loops,      \* loops[l]: "unborn", "live", "cancelled" or "ended"
    current,    \* _loop_task, or 0 for None
    stopping,   \* shutdown() is "joining" the loop, "draining", or "idle"
    polls       \* the polls it has left after this sleep

taskVars == <<tasks, name, kind, isRunning, runCount, due, worker, attempt, metrics>>
loopVars == <<running, loops, current, stopping, polls>>
vars == <<tasks, name, kind, isRunning, runCount, due, worker, attempt, metrics,
          running, loops, current, stopping, polls>>

-----------------------------------------------------------------------------
(* The dict of tasks: a name keeps its place when its task is replaced.    *)

Listed(i) == \E k \in 1..Len(tasks) : tasks[k] = i

Replace(i, n) == [k \in 1..Len(tasks) |-> IF name[tasks[k]] = n THEN i ELSE tasks[k]]

Put_Appends(i, n) == Append(tasks, i)

Put(i, n) == IF \E k \in 1..Len(tasks) : name[tasks[k]] = n
             THEN Replace(i, n)
             ELSE Append(tasks, i)

Without(n) ==
    IF \E k \in 1..Len(tasks) : name[tasks[k]] = n
    THEN LET k == CHOOSE k \in 1..Len(tasks) : name[tasks[k]] = n
         IN  SubSeq(tasks, 1, k - 1) \o SubSeq(tasks, k + 1, Len(tasks))
    ELSE tasks

\* The loop walks the dict and gives up for this second at a task whose
\* expression raises.
Reached(i) ==
    \E k \in 1..Len(tasks) :
        /\ tasks[k] = i
        /\ \A j \in 1..k : kind[tasks[j]] # "bad_cron"

Startable_Running == {i \in Tasks : Reached(i) /\ due[i]}

Startable == {i \in Tasks : Reached(i) /\ due[i] /\ ~isRunning[i]}

-----------------------------------------------------------------------------
Init ==
    /\ tasks = << >>
    /\ name = [i \in Tasks |-> None]
    /\ kind = [i \in Tasks |-> "unborn"]
    /\ isRunning = [i \in Tasks |-> FALSE]
    /\ runCount = [i \in Tasks |-> 0]
    /\ due = [i \in Tasks |-> FALSE]
    /\ worker = [i \in Tasks |-> "none"]
    /\ attempt = [i \in Tasks |-> 0]
    /\ metrics = [runs |-> 0, successes |-> 0, failures |-> 0]
    /\ running = FALSE
    /\ loops = [l \in Loops |-> "unborn"]
    /\ current = 0
    /\ stopping = "idle"
    /\ polls = 0

\* schedule_interval, schedule_cron, schedule_once.
Schedule(i, n, k) ==
    /\ \A j \in Tasks : kind[j] = "unborn" <=> j >= i
    /\ tasks' = Put(i, n)
    /\ name' = [name EXCEPT ![i] = n]
    /\ kind' = [kind EXCEPT ![i] = k]
    /\ UNCHANGED <<isRunning, runCount, due, worker, attempt, metrics, loopVars>>

\* cancel(): the listed task goes, its coroutine does not.
Cancel(n) ==
    /\ \E k \in 1..Len(tasks) : name[tasks[k]] = n
    /\ tasks' = Without(n)
    /\ UNCHANGED <<name, kind, isRunning, runCount, due, worker, attempt, metrics,
                   loopVars>>

\* The clock, for the tasks the loop looks at.  A one-shot is due once: the loop never starts it after last_run.
TimePasses(i) ==
    /\ Listed(i)
    /\ kind[i] \in {"interval", "once"}
    /\ kind[i] = "once" => runCount[i] = 0
    /\ runCount[i] < MaxRuns
    /\ ~due[i]
    /\ due' = [due EXCEPT ![i] = TRUE]
    /\ UNCHANGED <<tasks, name, kind, isRunning, runCount, worker, attempt, metrics,
                   loopVars>>

-----------------------------------------------------------------------------
(* _run_task.                                                              *)

\* As if every task were cancelled when its run ends.
Finish_Cancels(i) ==
    /\ isRunning' = [isRunning EXCEPT ![i] = FALSE]
    /\ worker' = [worker EXCEPT ![i] = "none"]
    /\ tasks' = Without(name[i])
    /\ attempt' = [attempt EXCEPT ![i] = 0]
    /\ UNCHANGED <<name, kind, runCount, due, loopVars>>

\* is_running is cleared, and a one-shot cancels the task of its name.
Finish(i) ==
    /\ isRunning' = [isRunning EXCEPT ![i] = FALSE]
    /\ worker' = [worker EXCEPT ![i] = "none"]
    /\ tasks' = IF kind[i] = "once" THEN Without(name[i]) ELSE tasks
    /\ attempt' = [attempt EXCEPT ![i] = 0]
    /\ UNCHANGED <<name, kind, runCount, due, loopVars>>

Succeed(i) ==
    /\ worker[i] = "executing"
    /\ metrics' = [metrics EXCEPT !.successes = @ + 1]
    /\ Finish(i)

FailLast(i) ==
    /\ worker[i] = "executing"
    /\ attempt[i] = Retries
    /\ metrics' = [metrics EXCEPT !.failures = @ + 1]
    /\ Finish(i)

FailAttempt(i) ==
    /\ worker[i] = "executing"
    /\ attempt[i] < Retries
    /\ worker' = [worker EXCEPT ![i] = "sleeping"]
    /\ attempt' = [attempt EXCEPT ![i] = @ + 1]
    /\ UNCHANGED <<tasks, name, kind, isRunning, runCount, due, metrics, loopVars>>

Retry(i) ==
    /\ worker[i] = "sleeping"
    /\ worker' = [worker EXCEPT ![i] = "executing"]
    /\ UNCHANGED <<tasks, name, kind, isRunning, runCount, due, attempt, metrics,
                   loopVars>>

\* CancelledError out of the function is no Exception: the coroutine ends there.
Die(i) ==
    /\ worker[i] = "executing"
    /\ worker' = [worker EXCEPT ![i] = "none"]
    /\ attempt' = [attempt EXCEPT ![i] = 0]
    /\ UNCHANGED <<tasks, name, kind, isRunning, runCount, due, metrics, loopVars>>

-----------------------------------------------------------------------------
(* start(), the loop and shutdown().                                       *)

Start_KeepsLoop(l) ==
    /\ ~running
    /\ \A m \in Loops : loops[m] = "unborn" <=> m >= l
    /\ running' = TRUE
    /\ loops' = [loops EXCEPT ![l] = IF current = 0 THEN "live" ELSE @]
    /\ current' = IF current = 0 THEN l ELSE current
    /\ UNCHANGED <<taskVars, stopping, polls>>

Start(l) ==
    /\ ~running
    /\ \A m \in Loops : loops[m] = "unborn" <=> m >= l
    /\ running' = TRUE
    /\ loops' = [loops EXCEPT ![l] = "live"]
    /\ current' = l
    /\ UNCHANGED <<taskVars, stopping, polls>>

\* The body of the loop, from one sleep to the next.
StartDue ==
    /\ isRunning' = [i \in Tasks |-> isRunning[i] \/ i \in Startable]
    /\ runCount' = [i \in Tasks |-> IF i \in Startable THEN runCount[i] + 1 ELSE runCount[i]]
    /\ due' = [i \in Tasks |-> due[i] /\ i \notin Startable]
    /\ worker' = [i \in Tasks |-> IF i \in Startable THEN "executing" ELSE worker[i]]
    /\ metrics' = [metrics EXCEPT !.runs = @ + Cardinality(Startable)]
    /\ UNCHANGED <<tasks, name, kind, attempt, loopVars>>

Tick_AfterStop(l) == loops[l] = "live" /\ StartDue

Tick(l) ==
    /\ loops[l] = "live"
    /\ running
    /\ StartDue

EndLoop_Cancelled(l) ==
    /\ loops[l] = "cancelled"
    /\ loops' = [loops EXCEPT ![l] = "ended"]
    /\ UNCHANGED <<taskVars, running, current, stopping, polls>>

\* `while self._running` is false, or the CancelledError breaks the loop.
EndLoop(l) ==
    /\ \/ loops[l] = "live" /\ ~running
       \/ loops[l] = "cancelled"
    /\ loops' = [loops EXCEPT ![l] = "ended"]
    /\ UNCHANGED <<taskVars, running, current, stopping, polls>>

Quiet_Always == TRUE

Quiet == \A i \in Tasks : Listed(i) => ~isRunning[i]

\* The first of the ten polls: done at once if no listed task runs.
Drain ==
    /\ stopping' = IF Quiet THEN "idle" ELSE "draining"
    /\ polls' = IF Quiet THEN 0 ELSE MaxPolls - 1

\* A second call while the first is awaiting finds _running false, unless start()
\* came between: one shutdown() at a time is modelled.
Shutdown ==
    /\ running
    /\ stopping = "idle"
    /\ running' = FALSE
    /\ IF current = 0
       THEN Drain /\ UNCHANGED loops
       ELSE /\ loops' = [loops EXCEPT ![current] = IF @ = "live" THEN "cancelled" ELSE @]
            /\ stopping' = "joining"
            /\ UNCHANGED polls
    /\ UNCHANGED <<taskVars, current>>

\* `await self._loop_task` returns, and _loop_task is cleared, whatever start()
\* has put there meanwhile.
Joined ==
    /\ stopping = "joining"
    /\ \A l \in Loops : loops[l] # "cancelled"
    /\ current' = 0
    /\ Drain
    /\ UNCHANGED <<taskVars, running, loops>>

Poll_Forever ==
    /\ stopping = "draining"
    /\ stopping' = IF Quiet THEN "idle" ELSE "draining"
    /\ UNCHANGED <<taskVars, running, loops, current, polls>>

Poll ==
    /\ stopping = "draining"
    /\ stopping' = IF polls = 0 \/ Quiet THEN "idle" ELSE "draining"
    /\ polls' = IF polls = 0 \/ Quiet THEN 0 ELSE polls - 1
    /\ UNCHANGED <<taskVars, running, loops, current>>

-----------------------------------------------------------------------------
Work(i) == Succeed(i) \/ FailLast(i) \/ FailAttempt(i) \/ Retry(i) \/ Die(i)

Next ==
    \/ \E i \in Tasks, n \in Names, k \in Kinds : Schedule(i, n, k)
    \/ \E n \in Names : Cancel(n)
    \/ \E i \in Tasks : TimePasses(i)
    \/ \E i \in Tasks : Work(i)
    \/ \E l \in Loops : Start(l) \/ Tick(l) \/ EndLoop(l)
    \/ Shutdown
    \/ Joined
    \/ Poll

Spec == Init /\ [][Next]_vars

\* The clock advances and the event loop resumes every coroutine whose sleep is
\* over.  Nothing makes a task's function return.
Fairness ==
    /\ \A i \in Tasks : WF_vars(TimePasses(i))
    /\ \A l \in Loops : WF_vars(Tick(l)) /\ WF_vars(EndLoop(l))
    /\ WF_vars(Joined \/ Poll)

FairSpec == Spec /\ Fairness

-----------------------------------------------------------------------------
(* Properties.                                                             *)

\* The Task objects, the metrics and the scheduler's fields keep to their domains,
\* and no name is listed twice.  (_tasks is a dict)
TypeOK ==
    /\ tasks \in Seq(Tasks)
    /\ \A j, k \in 1..Len(tasks) : name[tasks[j]] = name[tasks[k]] => j = k
    /\ name \in [Tasks -> Names \cup {None}]
    /\ kind \in [Tasks -> Kinds \cup {"unborn"}]
    /\ isRunning \in [Tasks -> BOOLEAN]
    /\ runCount \in [Tasks -> Nat]
    /\ due \in [Tasks -> BOOLEAN]
    /\ worker \in [Tasks -> {"none", "executing", "sleeping"}]
    /\ attempt \in [Tasks -> 0..Retries]
    /\ metrics \in [runs : Nat, successes : Nat, failures : Nat]
    /\ running \in BOOLEAN
    /\ loops \in [Loops -> {"unborn", "live", "cancelled", "ended"}]
    /\ current \in 0..MaxLoops
    /\ stopping \in {"idle", "joining", "draining"}
    /\ polls \in 0..MaxPolls

\* Every run is counted once, as a success, as a failure, or by the flag of a task
\* still marked as running, whether that task is still listed, was cancelled or
\* replaced, or lost its coroutine.  (_metrics against is_running)
Accounted ==
    metrics.runs = metrics.successes + metrics.failures
                   + Cardinality({i \in Tasks : isRunning[i]})

\* No run begins once shutdown() has been called, also by a loop that shutdown()
\* forgot because start() came while it awaited the one before.
\* (shutdown, `while self._running`)
NoRunAfterStop == [][metrics'.runs > metrics.runs => running]_vars

\* Task i leaves the dict only by a cancel of its name, by a task that takes its place,
\* or at the end of a one-shot of its name.
LeavesByName(i) ==
    Listed(i) /\ ~Listed(i)' =>
        \/ Cancel(name[i])
        \/ \E j \in Tasks : j # i /\ Listed(j)' /\ name'[j] = name[i]
        \/ \E j \in Tasks : /\ kind[j] = "once" /\ name[j] = name[i]
                            /\ worker[j] = "executing" /\ worker'[j] = "none"

\* Task i, once out of the dict, stays out and begins no other run.
StaysOut(i) ==
    kind[i] # "unborn" /\ ~Listed(i) => ~Listed(i)' /\ runCount'[i] = runCount[i]

\* A task leaves the dict when a task of its name is cancelled, replaced, or a one-shot
\* that ends, be it a predecessor it replaced while that ran; and then for good: its
\* coroutine may go on beside the next one of its name, but it begins no other run.
\* (schedule_*, cancel, _run_task's cancel by name, the snapshot of _scheduler_loop)
RetiredForGood == [][\A i \in Tasks : LeavesByName(i) /\ StaysOut(i)]_vars

\* shutdown() returns in this step, not because its polls ran out.
Returns ==
    /\ stopping' = "idle"
    /\ stopping # "idle" \/ (running /\ ~running')
    /\ ~(stopping = "draining" /\ polls = 0)

\* When shutdown() returns with polls to spare, no listed task has a coroutine.
\* (shutdown, _run_task: is_running outlives every await of the coroutine)
DrainsListed == [][Returns => \A i \in Tasks : Listed(i) => worker[i] = "none"]_vars

\* shutdown() returns, also when a task's function never does.  (range(10))
ShutdownEnds == stopping # "idle" ~> stopping = "idle"

\* After shutdown() every loop ends, the forgotten ones too, unless start() is
\* called again.  (`while self._running`, _loop_task.cancel())
LoopsEnd == ~running ~> (running \/ \A l \in Loops : loops[l] \in {"unborn", "ended"})

\* No task stays listed and reached for ever under a started scheduler without
\* having run: whatever start() and shutdown() did before, there is a live loop.
\* (_scheduler_loop, start)
EveryTaskRuns ==
    \A i \in Tasks : MaxRuns > 0 =>
        ~<>[](running /\ Reached(i) /\ runCount[i] = 0)

\* What shutdown's docstring says: when it returns with polls to spare, it has
\* drained the active tasks, listed or not.
\* (scheduler.py "Gracefully stop the scheduler, draining active tasks.")
DrainsActive == [][Returns => \A i \in Tasks : worker[i] = "none"]_vars

=============================================================================
