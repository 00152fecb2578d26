------------------------- MODULE TaskScheduler_proofs -------------------------
(***************************************************************************)
(* What holds of TaskScheduler for every number of tasks, loops and        *)
(* retries.  The accounting of the runs is inductive together with one     *)
(* more fact, that a task with a coroutine is marked as running: the       *)
(* coroutine's last step can then clear exactly one mark for the success   *)
(* or failure it counts.                                                   *)
(***************************************************************************)
EXTENDS TaskScheduler, FiniteSetTheorems, SequenceTheorems, TLAPS

Marked == {i \in Tasks : isRunning[i]}

\* A task with a coroutine is marked as running.  (is_running)
WorkersMarked == \A i \in Tasks : worker[i] # "none" => isRunning[i]

RunTypeOK ==
    /\ isRunning \in [Tasks -> BOOLEAN]
    /\ worker \in [Tasks -> {"none", "executing", "sleeping"}]
    /\ metrics \in [runs : Nat, successes : Nat, failures : Nat]

IInv == RunTypeOK /\ Accounted /\ WorkersMarked

\* Any set of tasks is finite and has a size.
LEMMA TasksFinite ==
    ASSUME NEW S \in SUBSET Tasks
    PROVE  IsFiniteSet(S) /\ Cardinality(S) \in Nat
<1>1. IsFiniteSet(Tasks)
  BY SchedulerAssumption, FS_Interval DEF Tasks
<1>2. IsFiniteSet(S)
  BY <1>1, FS_Subset
<1> QED
  BY <1>2, FS_CardinalityType

LEMMA InitIInv == Init => IInv
<1> SUFFICES ASSUME Init PROVE IInv
  OBVIOUS
<1>1. RunTypeOK /\ WorkersMarked
  BY DEF Init, RunTypeOK, WorkersMarked
<1>2. Cardinality(Marked) = 0
  <2>1. Marked = {}
    BY DEF Init, Marked
  <2> QED
    BY <2>1, FS_EmptySet
<1>3. metrics.runs = 0 /\ metrics.successes = 0 /\ metrics.failures = 0
  BY DEF Init
<1>4. Accounted
  <2>1. metrics.runs = metrics.successes + metrics.failures + Cardinality(Marked)
    BY <1>2, <1>3
  <2> QED
    BY <2>1 DEF Accounted, Marked
<1> QED
  BY <1>1, <1>4 DEF IInv

\* The end of a run clears one mark, and only that.  (_run_task)
LEMMA FinishUnmarks ==
    ASSUME IInv, NEW i \in Tasks, worker[i] = "executing", Finish(i)
    PROVE  /\ isRunning' \in [Tasks -> BOOLEAN]
           /\ worker' \in [Tasks -> {"none", "executing", "sleeping"}]
           /\ WorkersMarked'
           /\ Cardinality(Marked) \in Nat
           /\ Cardinality(Marked') \in Nat
           /\ Cardinality(Marked) = Cardinality(Marked') + 1
<1>1. isRunning[i] /\ i \in Marked
  BY DEF IInv, WorkersMarked, Marked
<1>2. Marked' = Marked \ {i}
  BY DEF Finish, IInv, RunTypeOK, Marked
<1>3. /\ IsFiniteSet(Marked) /\ Cardinality(Marked) \in Nat
      /\ Cardinality(Marked') \in Nat
  BY <1>2, TasksFinite DEF Marked
<1>4. Cardinality(Marked') = Cardinality(Marked) - 1
  BY <1>1, <1>2, <1>3, FS_RemoveElement
<1>5. /\ isRunning' \in [Tasks -> BOOLEAN]
      /\ worker' \in [Tasks -> {"none", "executing", "sleeping"}]
      /\ WorkersMarked'
  BY DEF Finish, IInv, RunTypeOK, WorkersMarked
<1> QED
  BY <1>3, <1>4, <1>5

\* A wake-up of the loop marks the tasks it starts, none of which was marked.
\* (_scheduler_loop)
LEMMA StartDueMarks ==
    ASSUME IInv, StartDue
    PROVE  IInv'
<1>1. Startable \in SUBSET Tasks /\ Startable \cap Marked = {}
  BY DEF Startable, Marked
<1>2. Marked' = Marked \cup Startable
  BY <1>1 DEF StartDue, IInv, RunTypeOK, Marked
<1>3. /\ IsFiniteSet(Marked) /\ Cardinality(Marked) \in Nat
      /\ IsFiniteSet(Startable) /\ Cardinality(Startable) \in Nat
  BY <1>1, TasksFinite DEF Marked
<1>4. Cardinality(Marked') = Cardinality(Marked) + Cardinality(Startable)
  <2>1. Marked \cap Startable = {}
    BY <1>1
  <2>2. Cardinality(Marked \cup Startable)
          = Cardinality(Marked) + Cardinality(Startable) - Cardinality(Marked \cap Startable)
    BY <1>3, FS_Union
  <2>3. Cardinality(Marked \cap Startable) = 0
    BY <2>1, FS_EmptySet
  <2> QED
    BY <1>2, <1>3, <2>2, <2>3
<1>5. /\ metrics.runs \in Nat /\ metrics.successes \in Nat /\ metrics.failures \in Nat
      /\ metrics.runs = metrics.successes + metrics.failures + Cardinality(Marked)
  BY DEF IInv, RunTypeOK, Accounted, Marked
<1>6. /\ metrics'.runs = metrics.runs + Cardinality(Startable)
      /\ metrics'.successes = metrics.successes
      /\ metrics'.failures = metrics.failures
  BY DEF StartDue, IInv, RunTypeOK
<1>7. Accounted'
  BY <1>3, <1>4, <1>5, <1>6 DEF Accounted, Marked
<1>8. RunTypeOK'
  <2>1. metrics.runs + Cardinality(Startable) \in Nat
    BY <1>3, <1>5
  <2> QED
    BY <2>1 DEF StartDue, IInv, RunTypeOK
<1>9. WorkersMarked'
  BY DEF StartDue, IInv, RunTypeOK, WorkersMarked
<1> QED
  BY <1>7, <1>8, <1>9 DEF IInv

\* The marks and the metrics have not changed, and no coroutine began.
LEMMA QuietKeeps ==
    ASSUME IInv, UNCHANGED <<isRunning, metrics>>,
           worker' \in [Tasks -> {"none", "executing", "sleeping"}],
           \A i \in Tasks : worker'[i] # "none" => worker[i] # "none"
    PROVE  IInv'
BY DEF IInv, RunTypeOK, Accounted, WorkersMarked

LEMMA StepIInv == IInv /\ [Next]_vars => IInv'
<1> SUFFICES ASSUME IInv, [Next]_vars PROVE IInv'
  OBVIOUS
<1>1. /\ metrics.runs \in Nat /\ metrics.successes \in Nat /\ metrics.failures \in Nat
      /\ metrics.runs = metrics.successes + metrics.failures + Cardinality(Marked)
  BY DEF IInv, RunTypeOK, Accounted, Marked
<1>2. worker \in [Tasks -> {"none", "executing", "sleeping"}]
  BY DEF IInv, RunTypeOK
<1>3. ASSUME NEW i \in Tasks, Succeed(i) PROVE IInv'
  <2>1. worker[i] = "executing" /\ Finish(i)
    BY <1>3 DEF Succeed
  <2>2. /\ metrics'.runs = metrics.runs
        /\ metrics'.successes = metrics.successes + 1
        /\ metrics'.failures = metrics.failures
        /\ metrics' \in [runs : Nat, successes : Nat, failures : Nat]
    <3>1. metrics.successes + 1 \in Nat
      BY <1>1
    <3> QED
      BY <1>3, <3>1 DEF Succeed, IInv, RunTypeOK
  <2>3. Accounted'
    BY <1>1, <2>1, <2>2, FinishUnmarks DEF Accounted, Marked
  <2> QED
    BY <2>1, <2>2, <2>3, FinishUnmarks DEF IInv, RunTypeOK
<1>4. ASSUME NEW i \in Tasks, FailLast(i) PROVE IInv'
  <2>1. worker[i] = "executing" /\ Finish(i)
    BY <1>4 DEF FailLast
  <2>2. /\ metrics'.runs = metrics.runs
        /\ metrics'.successes = metrics.successes
        /\ metrics'.failures = metrics.failures + 1
        /\ metrics' \in [runs : Nat, successes : Nat, failures : Nat]
    <3>1. metrics.failures + 1 \in Nat
      BY <1>1
    <3> QED
      BY <1>4, <3>1 DEF FailLast, IInv, RunTypeOK
  <2>3. Accounted'
    BY <1>1, <2>1, <2>2, FinishUnmarks DEF Accounted, Marked
  <2> QED
    BY <2>1, <2>2, <2>3, FinishUnmarks DEF IInv, RunTypeOK
<1>5. ASSUME NEW i \in Tasks, FailAttempt(i) \/ Retry(i) \/ Die(i) PROVE IInv'
  <2>1. UNCHANGED <<isRunning, metrics>>
    BY <1>5 DEF FailAttempt, Retry, Die
  <2>2. /\ worker' \in [Tasks -> {"none", "executing", "sleeping"}]
        /\ \A j \in Tasks : worker'[j] # "none" => worker[j] # "none"
    BY <1>2, <1>5 DEF FailAttempt, Retry, Die
  <2> QED
    BY <2>1, <2>2, QuietKeeps
<1>6. ASSUME NEW l \in Loops, Tick(l) PROVE IInv'
  BY <1>6, StartDueMarks DEF Tick
<1>7. ASSUME UNCHANGED <<isRunning, metrics, worker>> PROVE IInv'
  BY <1>2, <1>7, QuietKeeps
<1>8. ASSUME NEW i \in Tasks, NEW n \in Names, NEW k \in Kinds, Schedule(i, n, k)
      PROVE  IInv'
  BY <1>7, <1>8 DEF Schedule
<1>9. ASSUME NEW n \in Names, Cancel(n) PROVE IInv'
  BY <1>7, <1>9 DEF Cancel
<1>10. ASSUME NEW i \in Tasks, TimePasses(i) PROVE IInv'
  BY <1>7, <1>10 DEF TimePasses
<1>11. ASSUME NEW l \in Loops, Start(l) \/ EndLoop(l) PROVE IInv'
  BY <1>7, <1>11 DEF Start, EndLoop, taskVars
<1>12. ASSUME Shutdown \/ Joined \/ Poll PROVE IInv'
  BY <1>7, <1>12 DEF Shutdown, Joined, Poll, taskVars
<1>13. CASE UNCHANGED vars
  BY <1>7, <1>13 DEF vars
<1> QED
  BY <1>3, <1>4, <1>5, <1>6, <1>8, <1>9, <1>10, <1>11, <1>12, <1>13 DEF Next, Work

THEOREM Invariance == Spec => []IInv
BY InitIInv, StepIInv, PTL DEF Spec

-----------------------------------------------------------------------------
\* Whatever is cancelled, replaced or lost, every run is counted as a success, as
\* a failure, or by the mark of a task.  (_metrics against is_running)
THEOREM AlwaysAccounted == Spec => []Accounted
<1>1. IInv => Accounted
  BY DEF IInv
<1> QED
  BY <1>1, Invariance, PTL

\* No loop begins a run after shutdown() was called, a forgotten loop included.
\* (shutdown, `while self._running`)
THEOREM NeverRunsAfterStop == Spec => NoRunAfterStop
<1>1. IInv /\ [Next]_vars => [metrics'.runs > metrics.runs => running]_vars
  <2> SUFFICES ASSUME IInv, Next, metrics'.runs > metrics.runs PROVE running
    OBVIOUS
  <2>1. metrics \in [runs : Nat, successes : Nat, failures : Nat]
    BY DEF IInv, RunTypeOK
  <2>2. ASSUME metrics'.runs = metrics.runs PROVE running
    BY <2>1, <2>2
  <2>3. ASSUME NEW i \in Tasks, Work(i) PROVE running
    <3>1. metrics'.runs = metrics.runs
      BY <2>1, <2>3 DEF Work, Succeed, FailLast, FailAttempt, Retry, Die
    <3> QED
      BY <2>2, <3>1
  <2>4. ASSUME NEW l \in Loops, Tick(l) PROVE running
    BY <2>4 DEF Tick
  <2>5. ASSUME UNCHANGED metrics PROVE running
    BY <2>2, <2>5
  <2> QED
    BY <2>3, <2>4, <2>5
    DEF Next, Schedule, Cancel, TimePasses, Start, EndLoop, Shutdown, Joined, Poll,
        taskVars
<1> QED
  BY <1>1, Invariance, PTL DEF Spec, NoRunAfterStop

\* A shutdown() that returns with polls to spare leaves no listed task with a
\* coroutine.  (shutdown, is_running)
THEOREM AlwaysDrainsListed == Spec => DrainsListed
<1> DEFINE Drained == Returns => \A i \in Tasks : Listed(i) => worker[i] = "none"
<1>1. IInv /\ [Next]_vars => [Drained]_vars
  <2> SUFFICES ASSUME IInv, Next, Returns PROVE \A i \in Tasks : Listed(i) => worker[i] = "none"
    OBVIOUS
  <2>1. Quiet
    BY DEF Returns, Next, Work, Succeed, FailLast, Finish, FailAttempt, Retry, Die,
           Schedule, Cancel, TimePasses, Start, Tick, StartDue, EndLoop, Shutdown,
           Joined, Poll, Drain, loopVars
  <2> QED
    BY <2>1 DEF Quiet, IInv, WorkersMarked
<1> QED
  BY <1>1, Invariance, PTL DEF Spec, DrainsListed

-----------------------------------------------------------------------------
(* The types.  That a name is listed once is inductive together with the   *)
(* fact that a listed task exists: a Task that is scheduled is then not    *)
(* listed yet, under its name or any other.                                *)

\* A listed task has been created.
ListedBorn == \A k \in 1..Len(tasks) : kind[tasks[k]] # "unborn"

TypeIInv == TypeOK /\ ListedBorn

\* A list of tasks that exist, none two of them under one name.
IsDict(list, named, of) ==
    /\ list \in Seq(Tasks)
    /\ \A j, k \in 1..Len(list) : named[list[j]] = named[list[k]] => j = k
    /\ \A k \in 1..Len(list) : of[list[k]] # "unborn"

LEMMA DictTyped ==
    ASSUME TypeIInv
    PROVE  /\ IsDict(tasks, name, kind) /\ Len(tasks) \in Nat
           /\ \A k \in 1..Len(tasks) : tasks[k] \in Tasks
BY LenProperties, ElementOfSeq DEF TypeIInv, TypeOK, ListedBorn, IsDict

\* Taking a listed name out closes the gap that its task leaves.  (dict.pop)
LEMMA WithoutForm ==
    ASSUME TypeIInv, NEW k \in 1..Len(tasks)
    PROVE  LET list == Without(name[tasks[k]])
           IN  /\ list \in Seq(Tasks) /\ Len(list) = Len(tasks) - 1
               /\ \A m \in 1..(Len(tasks) - 1) :
                      list[m] = tasks[IF m < k THEN m ELSE m + 1]
<1> DEFINE n == name[tasks[k]]
           before == SubSeq(tasks, 1, k - 1)
           after == SubSeq(tasks, k + 1, Len(tasks))
           list == before \o after
<1>1. /\ tasks \in Seq(Tasks) /\ Len(tasks) \in Nat
      /\ \A m \in 1..Len(tasks) : tasks[m] \in Tasks
      /\ \A j, m \in 1..Len(tasks) : name[tasks[j]] = name[tasks[m]] => j = m
  BY DictTyped DEF IsDict
<1>2. Without(n) = list
  <2>1. (CHOOSE m \in 1..Len(tasks) : name[tasks[m]] = n) = k
    BY <1>1
  <2> QED
    BY <2>1 DEF Without
<1>3. /\ before \in Seq(Tasks) /\ Len(before) = k - 1
      /\ \A m \in 1..(k - 1) : before[m] = tasks[m]
  <2>1. k - 1 \in Int /\ \A m \in 1..(k - 1) : tasks[m] \in Tasks
    BY <1>1
  <2>2. /\ before \in Seq(Tasks)
        /\ Len(before) = IF 1 <= k - 1 THEN k - 1 - 1 + 1 ELSE 0
        /\ \A m \in 1..(k - 1 - 1 + 1) : before[m] = tasks[1 + m - 1]
    BY <2>1, SubSeqProperties
  <2> QED
    BY <1>1, <2>2
<1>4. /\ after \in Seq(Tasks) /\ Len(after) = Len(tasks) - k
      /\ \A m \in 1..(Len(tasks) - k) : after[m] = tasks[k + m]
  <2>1. /\ k + 1 \in Int /\ Len(tasks) \in Int
        /\ \A m \in (k + 1)..Len(tasks) : tasks[m] \in Tasks
    BY <1>1
  <2>2. /\ after \in Seq(Tasks)
        /\ Len(after) = IF k + 1 <= Len(tasks) THEN Len(tasks) - (k + 1) + 1 ELSE 0
        /\ \A m \in 1..(Len(tasks) - (k + 1) + 1) : after[m] = tasks[k + 1 + m - 1]
    BY <2>1, SubSeqProperties
  <2> QED
    BY <1>1, <2>2
<1> HIDE DEF before, after
<1>5. /\ list \in Seq(Tasks) /\ Len(list) = Len(tasks) - 1
      /\ \A m \in 1..(Len(tasks) - 1) :
             list[m] = IF m <= k - 1 THEN before[m] ELSE after[m - (k - 1)]
  <2>1. Len(before) + Len(after) = Len(tasks) - 1
    BY <1>1, <1>3, <1>4
  <2>2. /\ list \in Seq(Tasks) /\ Len(list) = Len(before) + Len(after)
        /\ \A m \in 1..(Len(before) + Len(after)) :
               list[m] = IF m <= Len(before) THEN before[m] ELSE after[m - Len(before)]
    BY <1>3, <1>4, ConcatProperties
  <2> HIDE DEF list
  <2> QED
    BY <1>3, <2>1, <2>2
<1>6. \A m \in 1..(Len(tasks) - 1) : list[m] = tasks[IF m < k THEN m ELSE m + 1]
  BY <1>1, <1>3, <1>4, <1>5
<1> QED
  BY <1>2, <1>5, <1>6

\* Taking a name out of the dict leaves a dict, and in it every task that does not
\* have the name.  (cancel)
LEMMA WithoutIsDict ==
    ASSUME TypeIInv, NEW n
    PROVE  /\ IsDict(Without(n), name, kind)
           /\ \A m \in 1..Len(Without(n)) : \E j \in 1..Len(tasks) : Without(n)[m] = tasks[j]
           /\ \A j \in 1..Len(tasks) :
                  name[tasks[j]] # n => \E m \in 1..Len(Without(n)) : Without(n)[m] = tasks[j]
<1>1. /\ tasks \in Seq(Tasks) /\ Len(tasks) \in Nat
      /\ \A k \in 1..Len(tasks) : tasks[k] \in Tasks
      /\ \A j, k \in 1..Len(tasks) : name[tasks[j]] = name[tasks[k]] => j = k
      /\ \A k \in 1..Len(tasks) : kind[tasks[k]] # "unborn"
  BY DictTyped DEF IsDict
<1>2. CASE ~\E k \in 1..Len(tasks) : name[tasks[k]] = n
  BY <1>1, <1>2 DEF Without, IsDict
<1>3. CASE \E k \in 1..Len(tasks) : name[tasks[k]] = n
  <2>1. PICK k \in 1..Len(tasks) : name[tasks[k]] = n
    BY <1>3
  <2> DEFINE list == Without(n)
             at(m) == IF m < k THEN m ELSE m + 1
             back(j) == IF j < k THEN j ELSE j - 1
  <2>2. /\ list \in Seq(Tasks) /\ Len(list) = Len(tasks) - 1
        /\ \A m \in 1..(Len(tasks) - 1) : list[m] = tasks[at(m)]
    BY <2>1, WithoutForm
  <2> HIDE DEF list
  <2>3. \A m \in 1..Len(list) : at(m) \in 1..Len(tasks) /\ list[m] = tasks[at(m)]
    BY <1>1, <2>2
  <2>4. \A m, j \in 1..Len(list) : at(m) = at(j) => m = j
    BY <1>1, <2>2
  <2>5. \A j \in 1..Len(tasks) : j # k => back(j) \in 1..Len(list) /\ at(back(j)) = j
    BY <1>1, <2>2
  <2> HIDE DEF at, back
  <2>6. IsDict(list, name, kind)
    <3>1. ASSUME NEW m \in 1..Len(list), NEW j \in 1..Len(list),
                 name[list[m]] = name[list[j]]
          PROVE  m = j
      <4>1. /\ at(m) \in 1..Len(tasks) /\ at(j) \in 1..Len(tasks)
            /\ name[tasks[at(m)]] = name[tasks[at(j)]]
        BY <2>3, <3>1
      <4>2. at(m) = at(j)
        BY <1>1, <4>1
      <4> QED
        BY <2>4, <4>2
    <3>2. \A m \in 1..Len(list) : kind[list[m]] # "unborn"
      BY <1>1, <2>3
    <3> QED
      BY <2>2, <3>1, <3>2 DEF IsDict
  <2>7. \A j \in 1..Len(tasks) : name[tasks[j]] # n => j # k /\ list[back(j)] = tasks[j]
    BY <2>1, <2>3, <2>5
  <2> QED
    BY <2>3, <2>5, <2>6, <2>7 DEF list
<1> QED
  BY <1>2, <1>3

\* Putting a new Task into the dict leaves a dict, whether it takes the place of
\* the task of its name or comes last.  (schedule_*)
LEMMA PutIsDict ==
    ASSUME TypeIInv, NEW i \in Tasks, NEW n \in Names, NEW k \in Kinds, Schedule(i, n, k)
    PROVE  /\ IsDict(tasks', name', kind')
           /\ \E m \in 1..Len(tasks') : tasks'[m] = i
           /\ \A m \in 1..Len(tasks') :
                  tasks'[m] = i \/ \E j \in 1..Len(tasks) : tasks'[m] = tasks[j]
           /\ \A j \in 1..Len(tasks) :
                  name[tasks[j]] # n => \E m \in 1..Len(tasks') : tasks'[m] = tasks[j]
<1>1. /\ tasks \in Seq(Tasks) /\ Len(tasks) \in Nat
      /\ \A m \in 1..Len(tasks) : tasks[m] \in Tasks
      /\ \A j, m \in 1..Len(tasks) : name[tasks[j]] = name[tasks[m]] => j = m
      /\ \A m \in 1..Len(tasks) : kind[tasks[m]] # "unborn"
  BY DictTyped DEF IsDict
<1>2. kind[i] = "unborn"
  <2>1. i >= i
    BY DEF Tasks
  <2> QED
    BY <2>1 DEF Schedule
<1>3. \A m \in 1..Len(tasks) : tasks[m] # i
  BY <1>1, <1>2
<1>4. /\ name' = [name EXCEPT ![i] = n] /\ kind' = [kind EXCEPT ![i] = k]
      /\ tasks' = Put(i, n) /\ k # "unborn"
      /\ name \in [Tasks -> Names \cup {None}] /\ kind \in [Tasks -> Kinds \cup {"unborn"}]
  BY DEF Schedule, TypeIInv, TypeOK, Kinds
<1>5. CASE \E m \in 1..Len(tasks) : name[tasks[m]] = n
  <2>1. tasks' = Replace(i, n)
    BY <1>4, <1>5 DEF Put
  <2>2. tasks' \in [1..Len(tasks) -> Tasks]
    BY <1>1, <2>1 DEF Replace
  <2>3. tasks' \in Seq(Tasks)
    BY <1>1, <2>2, SeqDef
  <2>4. Len(tasks') = Len(tasks)
    BY <1>1, <2>2, <2>3
  <2>5. \A m \in 1..Len(tasks) : tasks'[m] = IF name[tasks[m]] = n THEN i ELSE tasks[m]
    BY <2>1 DEF Replace
  <2>6. \A m \in 1..Len(tasks) : name'[tasks'[m]] = name[tasks[m]] /\ kind'[tasks'[m]] # "unborn"
    BY <1>1, <1>3, <1>4, <2>5
  <2>7. IsDict(tasks', name', kind')
    BY <1>1, <2>3, <2>4, <2>6 DEF IsDict
  <2> QED
    BY <1>5, <2>4, <2>5, <2>7
<1>6. CASE ~\E m \in 1..Len(tasks) : name[tasks[m]] = n
  <2>1. tasks' = Append(tasks, i)
    BY <1>4, <1>6 DEF Put
  <2>2. /\ tasks' \in Seq(Tasks) /\ Len(tasks') = Len(tasks) + 1
        /\ \A m \in 1..Len(tasks) : tasks'[m] = tasks[m]
        /\ tasks'[Len(tasks) + 1] = i
    BY <1>1, <2>1, AppendProperties
  <2>3. /\ \A m \in 1..Len(tasks) : /\ name'[tasks'[m]] = name[tasks[m]]
                                    /\ name[tasks[m]] # n
                                    /\ kind'[tasks'[m]] # "unborn"
        /\ name'[tasks'[Len(tasks) + 1]] = n /\ kind'[tasks'[Len(tasks) + 1]] # "unborn"
    BY <1>1, <1>3, <1>4, <1>6, <2>2
  <2>4. \A m \in 1..Len(tasks') : m \in 1..Len(tasks) \/ m = Len(tasks) + 1
    BY <1>1, <2>2
  <2>5. IsDict(tasks', name', kind')
    BY <1>1, <2>2, <2>3, <2>4 DEF IsDict
  <2>6. Len(tasks) + 1 \in 1..Len(tasks') /\ \A m \in 1..Len(tasks) : m \in 1..Len(tasks')
    BY <1>1, <2>2
  <2> QED
    BY <2>2, <2>4, <2>5, <2>6
<1> QED
  BY <1>5, <1>6

\* The domains of what the dict does not hold.
FieldsOK ==
    /\ name \in [Tasks -> Names \cup {None}]
    /\ kind \in [Tasks -> Kinds \cup {"unborn"}]
    /\ isRunning \in [Tasks -> BOOLEAN]
    /\ runCount \in [Tasks -> Nat]
    /\ due \in [Tasks -> BOOLEAN]
    /\ worker \in [Tasks -> {"none", "executing", "sleeping"}]
    /\ attempt \in [Tasks -> 0..Retries]
    /\ metrics \in [runs : Nat, successes : Nat, failures : Nat]

StopOK ==
    /\ running \in BOOLEAN
    /\ loops \in [Loops -> {"unborn", "live", "cancelled", "ended"}]
    /\ current \in 0..MaxLoops
    /\ stopping \in {"idle", "joining", "draining"}
    /\ polls \in 0..MaxPolls

LEMMA TypeParts == TypeIInv <=> IsDict(tasks, name, kind) /\ FieldsOK /\ StopOK
BY DEF TypeIInv, TypeOK, ListedBorn, IsDict, FieldsOK, StopOK

\* The same in the next state.
LEMMA TypePartsNext ==
    ASSUME IsDict(tasks', name', kind'), FieldsOK', StopOK'
    PROVE  TypeIInv'
BY DEF TypeIInv, TypeOK, ListedBorn, IsDict, FieldsOK, StopOK

\* The coroutine of a task changes the dict only to take a name out.  (_run_task)
LEMMA WorkTyped ==
    ASSUME TypeIInv, NEW i \in Tasks, Work(i)
    PROVE  TypeIInv'
<1>1. FieldsOK /\ StopOK /\ IsDict(tasks, name, kind)
  BY TypeParts
<1>2. UNCHANGED loopVars /\ UNCHANGED <<name, kind, runCount, due>>
  BY DEF Work, Succeed, FailLast, FailAttempt, Retry, Die, Finish
<1>3. StopOK'
  BY <1>1, <1>2 DEF StopOK, loopVars
<1>4. IsDict(tasks', name', kind')
  <2>1. tasks' = tasks \/ tasks' = Without(name[i])
    BY DEF Work, Succeed, FailLast, FailAttempt, Retry, Die, Finish
  <2> QED
    BY <1>1, <1>2, <2>1, WithoutIsDict
<1>5. /\ isRunning' \in [Tasks -> BOOLEAN]
      /\ worker' \in [Tasks -> {"none", "executing", "sleeping"}]
  BY <1>1 DEF FieldsOK, Work, Succeed, FailLast, FailAttempt, Retry, Die, Finish
<1>6. attempt' \in [Tasks -> 0..Retries]
  <2>1. Retries \in Nat /\ attempt \in [Tasks -> 0..Retries]
    BY <1>1, SchedulerAssumption DEF FieldsOK
  <2> QED
    BY <2>1 DEF Work, Succeed, FailLast, FailAttempt, Retry, Die, Finish
<1>7. metrics' \in [runs : Nat, successes : Nat, failures : Nat]
  <2>1. metrics \in [runs : Nat, successes : Nat, failures : Nat]
    BY <1>1 DEF FieldsOK
  <2>2. metrics.successes + 1 \in Nat /\ metrics.failures + 1 \in Nat
    BY <2>1
  <2> QED
    BY <2>1, <2>2 DEF Work, Succeed, FailLast, FailAttempt, Retry, Die, Finish
<1>8. FieldsOK'
  BY <1>1, <1>2, <1>5, <1>6, <1>7 DEF FieldsOK
<1> QED
  BY <1>3, <1>4, <1>8, TypePartsNext

\* A wake-up of the loop counts the tasks it starts.  (_scheduler_loop)
LEMMA StartDueTyped ==
    ASSUME TypeIInv, StartDue
    PROVE  TypeIInv'
<1>1. FieldsOK /\ StopOK /\ IsDict(tasks, name, kind)
  BY TypeParts
<1>2. StopOK'
  BY <1>1 DEF StopOK, StartDue, loopVars
<1>3. IsDict(tasks', name', kind')
  BY <1>1 DEF StartDue
<1>4. metrics' \in [runs : Nat, successes : Nat, failures : Nat]
  <2>1. Cardinality(Startable) \in Nat
    BY TasksFinite DEF Startable
  <2>2. metrics \in [runs : Nat, successes : Nat, failures : Nat]
    BY <1>1 DEF FieldsOK
  <2>3. metrics.runs + Cardinality(Startable) \in Nat
    BY <2>1, <2>2
  <2> QED
    BY <2>2, <2>3 DEF StartDue
<1>5. /\ isRunning' \in [Tasks -> BOOLEAN]
      /\ due' \in [Tasks -> BOOLEAN]
      /\ worker' \in [Tasks -> {"none", "executing", "sleeping"}]
      /\ runCount' \in [Tasks -> Nat]
  BY <1>1 DEF FieldsOK, StartDue
<1>6. FieldsOK'
  BY <1>1, <1>4, <1>5 DEF FieldsOK, StartDue
<1> QED
  BY <1>2, <1>3, <1>6, TypePartsNext

\* start(), the end of a loop and shutdown() do not touch the tasks.
LEMMA LoopStepsTyped ==
    ASSUME TypeIInv, UNCHANGED taskVars,
           Shutdown \/ Joined \/ Poll \/ \E l \in Loops : Start(l) \/ EndLoop(l)
    PROVE  TypeIInv'
<1>1. FieldsOK /\ StopOK /\ IsDict(tasks, name, kind)
  BY TypeParts
<1>2. FieldsOK' /\ IsDict(tasks', name', kind')
  BY <1>1 DEF FieldsOK, taskVars
<1>3. MaxPolls \in Nat /\ MaxPolls # 0 /\ MaxLoops \in Nat
  BY SchedulerAssumption
<1>4. ASSUME Drain PROVE stopping' \in {"idle", "joining", "draining"} /\ polls' \in 0..MaxPolls
  BY <1>3, <1>4 DEF Drain
<1>5. /\ running \in BOOLEAN /\ current \in 0..MaxLoops
      /\ loops \in [Loops -> {"unborn", "live", "cancelled", "ended"}]
      /\ stopping \in {"idle", "joining", "draining"} /\ polls \in 0..MaxPolls
  BY <1>1 DEF StopOK
<1>6. ASSUME Shutdown PROVE StopOK'
  <2>1. running' \in BOOLEAN /\ current' \in 0..MaxLoops
    BY <1>5, <1>6 DEF Shutdown
  <2>2. loops' \in [Loops -> {"unborn", "live", "cancelled", "ended"}]
    BY <1>5, <1>6 DEF Shutdown, Drain
  <2>3. stopping' \in {"idle", "joining", "draining"} /\ polls' \in 0..MaxPolls
    BY <1>4, <1>5, <1>6 DEF Shutdown
  <2> QED
    BY <2>1, <2>2, <2>3 DEF StopOK
<1>7. ASSUME Joined PROVE StopOK'
  <2>1. current' = 0 /\ UNCHANGED <<running, loops>> /\ Drain
    BY <1>7 DEF Joined
  <2> QED
    BY <1>3, <1>4, <1>5, <2>1 DEF StopOK
<1>8. ASSUME Poll PROVE StopOK'
  <2>1. polls' \in 0..MaxPolls
    <3>1. CASE polls = 0 \/ Quiet
      BY <1>3, <1>8, <3>1 DEF Poll
    <3>2. CASE ~(polls = 0 \/ Quiet)
      BY <1>3, <1>5, <1>8, <3>2 DEF Poll
    <3> QED
      BY <3>1, <3>2
  <2>2. stopping' \in {"idle", "joining", "draining"} /\ UNCHANGED <<running, loops, current>>
    BY <1>8 DEF Poll
  <2> QED
    BY <1>5, <2>1, <2>2 DEF StopOK
<1>9. ASSUME NEW l \in Loops, Start(l) \/ EndLoop(l) PROVE StopOK'
  <2>1. running' \in BOOLEAN /\ UNCHANGED <<stopping, polls>>
    BY <1>5, <1>9 DEF Start, EndLoop
  <2>2. loops' \in [Loops -> {"unborn", "live", "cancelled", "ended"}]
    BY <1>5, <1>9 DEF Start, EndLoop
  <2>3. current' \in 0..MaxLoops
    BY <1>3, <1>5, <1>9 DEF Start, EndLoop, Loops
  <2> QED
    BY <1>5, <2>1, <2>2, <2>3 DEF StopOK
<1>10. StopOK'
  BY <1>6, <1>7, <1>8, <1>9
<1> QED
  BY <1>2, <1>10, TypePartsNext

LEMMA StepTyped == TypeIInv /\ [Next]_vars => TypeIInv'
<1> SUFFICES ASSUME TypeIInv, [Next]_vars PROVE TypeIInv'
  OBVIOUS
<1>1. FieldsOK /\ StopOK /\ IsDict(tasks, name, kind)
  BY TypeParts
<1>2. ASSUME NEW i \in Tasks, NEW n \in Names, NEW k \in Kinds, Schedule(i, n, k)
      PROVE  TypeIInv'
  <2>1. IsDict(tasks', name', kind')
    BY <1>2, PutIsDict
  <2>2. FieldsOK'
    BY <1>1, <1>2 DEF FieldsOK, Schedule
  <2>3. StopOK'
    BY <1>1, <1>2 DEF StopOK, Schedule, loopVars
  <2> QED
    BY <2>1, <2>2, <2>3, TypePartsNext
<1>3. ASSUME NEW n \in Names, Cancel(n) PROVE TypeIInv'
  <2>1. IsDict(tasks', name', kind')
    BY <1>3, WithoutIsDict DEF Cancel
  <2>2. FieldsOK' /\ StopOK'
    BY <1>1, <1>3 DEF FieldsOK, StopOK, Cancel, loopVars
  <2> QED
    BY <2>1, <2>2, TypePartsNext
<1>4. ASSUME NEW i \in Tasks, TimePasses(i) PROVE TypeIInv'
  <2>1. IsDict(tasks', name', kind') /\ FieldsOK' /\ StopOK'
    BY <1>1, <1>4 DEF FieldsOK, StopOK, TimePasses, loopVars
  <2> QED
    BY <2>1, TypePartsNext
<1>5. ASSUME NEW i \in Tasks, Work(i) PROVE TypeIInv'
  BY <1>5, WorkTyped
<1>6. ASSUME NEW l \in Loops, Tick(l) PROVE TypeIInv'
  BY <1>6, StartDueTyped DEF Tick
<1>7. ASSUME NEW l \in Loops, Start(l) \/ EndLoop(l) PROVE TypeIInv'
  BY <1>7, LoopStepsTyped DEF Start, EndLoop
<1>8. ASSUME Shutdown \/ Joined \/ Poll PROVE TypeIInv'
  BY <1>8, LoopStepsTyped DEF Shutdown, Joined, Poll
<1>9. CASE UNCHANGED vars
  <2>1. IsDict(tasks', name', kind') /\ FieldsOK' /\ StopOK'
    BY <1>1, <1>9 DEF FieldsOK, StopOK, vars
  <2> QED
    BY <2>1, TypePartsNext
<1> QED
  BY <1>2, <1>3, <1>4, <1>5, <1>6, <1>7, <1>8, <1>9 DEF Next

LEMMA InitTyped == Init => TypeIInv
<1> SUFFICES ASSUME Init PROVE TypeIInv
  OBVIOUS
<1>1. IsDict(tasks, name, kind)
  BY EmptySeq DEF Init, IsDict
<1>2. FieldsOK
  BY SchedulerAssumption DEF Init, FieldsOK
<1>3. StopOK
  <2>1. 0 \in 0..MaxLoops /\ 0 \in 0..MaxPolls
    BY SchedulerAssumption
  <2> QED
    BY <2>1 DEF Init, StopOK
<1> QED
  BY <1>1, <1>2, <1>3, TypeParts

\* The Task objects, the metrics and the scheduler's fields keep to their domains,
\* and no name is ever listed twice, whatever is replaced, cancelled or cancels
\* itself at the end of its run.  (_tasks)
THEOREM TypeCorrect == Spec => []TypeOK
<1>1. TypeIInv => TypeOK
  BY DEF TypeIInv
<1> QED
  BY <1>1, InitTyped, StepTyped, PTL DEF Spec

-----------------------------------------------------------------------------
(* What becomes of a task that leaves the dict.                            *)

\* The dict lists no less than before.
LEMMA KeptLeavesNone ==
    ASSUME NEW i \in Tasks, UNCHANGED tasks
    PROVE  LeavesByName(i) /\ (runCount' = runCount => StaysOut(i))
BY DEF LeavesByName, StaysOut, Listed

LEMMA ScheduleRetires ==
    ASSUME TypeIInv, NEW t \in Tasks, NEW n \in Names, NEW k \in Kinds, Schedule(t, n, k),
           NEW i \in Tasks
    PROVE  LeavesByName(i) /\ StaysOut(i)
<1>1. kind[t] = "unborn" /\ runCount' = runCount
  <2>1. t >= t
    BY DEF Tasks
  <2> QED
    BY <2>1 DEF Schedule
<1>2. Listed(t)' /\ name'[t] = n
  <2>1. Listed(t)'
    BY PutIsDict DEF Listed
  <2>2. name'[t] = n
    BY DEF Schedule, TypeIInv, TypeOK
  <2> QED
    BY <2>1, <2>2
<1>3. Listed(i) => kind[i] # "unborn"
  BY DEF TypeIInv, ListedBorn, Listed
<1>4. Listed(i)' => i = t \/ Listed(i)
  BY PutIsDict DEF Listed
<1>5. Listed(i) /\ ~Listed(i)' => name[i] = n
  BY PutIsDict DEF Listed
<1> QED
  BY <1>1, <1>2, <1>3, <1>4, <1>5 DEF LeavesByName, StaysOut

\* A name is taken out.
LEMMA WithoutRetires ==
    ASSUME TypeIInv, NEW n, tasks' = Without(n), NEW i \in Tasks
    PROVE  /\ Listed(i) /\ ~Listed(i)' => name[i] = n
           /\ Listed(i)' => Listed(i)
BY WithoutIsDict DEF Listed

LEMMA CancelRetires ==
    ASSUME TypeIInv, NEW n \in Names, Cancel(n), NEW i \in Tasks
    PROVE  LeavesByName(i) /\ StaysOut(i)
<1>1. tasks' = Without(n) /\ runCount' = runCount
  BY DEF Cancel
<1> QED
  BY <1>1, WithoutRetires DEF LeavesByName, StaysOut

LEMMA WorkRetires ==
    ASSUME TypeIInv, NEW j \in Tasks, Work(j), NEW i \in Tasks
    PROVE  LeavesByName(i) /\ StaysOut(i)
<1>1. runCount' = runCount
  BY DEF Work, Succeed, FailLast, FailAttempt, Retry, Die, Finish
<1>2. CASE tasks' = tasks
  BY <1>1, <1>2, KeptLeavesNone
<1>3. CASE tasks' # tasks
  <2>1. /\ tasks' = Without(name[j]) /\ kind[j] = "once"
        /\ worker[j] = "executing" /\ worker'[j] = "none"
    BY <1>3 DEF Work, Succeed, FailLast, FailAttempt, Retry, Die, Finish, TypeIInv, TypeOK
  <2> QED
    BY <1>1, <2>1, WithoutRetires DEF LeavesByName, StaysOut
<1> QED
  BY <1>2, <1>3

\* A wake-up of the loop starts listed tasks only.  (_scheduler_loop)
LEMMA TickRetires ==
    ASSUME TypeIInv, StartDue, NEW i \in Tasks
    PROVE  LeavesByName(i) /\ StaysOut(i)
<1>1. ~Listed(i) => runCount'[i] = runCount[i]
  BY DEF StartDue, Startable, Reached, Listed
<1>2. ~Listed(i) => ~Listed(i)'
  BY DEF StartDue, Listed
<1>3. UNCHANGED tasks
  BY DEF StartDue
<1> QED
  BY <1>1, <1>2, <1>3, KeptLeavesNone DEF StaysOut

\* A task leaves the dict when its name is cancelled, replaced, or given up by a
\* one-shot that ends, and then never comes back and begins no other run, whatever its
\* coroutine still does beside its successor's.
\* (schedule_*, cancel, _run_task's cancel by name, _scheduler_loop)
THEOREM RetiredStayRetired == Spec => RetiredForGood
<1>1. TypeIInv /\ [Next]_vars => [\A i \in Tasks : LeavesByName(i) /\ StaysOut(i)]_vars
  <2> SUFFICES ASSUME TypeIInv, Next, NEW i \in Tasks PROVE LeavesByName(i) /\ StaysOut(i)
    OBVIOUS
  <2>1. ASSUME NEW t \in Tasks, NEW n \in Names, NEW k \in Kinds, Schedule(t, n, k)
        PROVE  LeavesByName(i) /\ StaysOut(i)
    BY <2>1, ScheduleRetires
  <2>2. ASSUME NEW n \in Names, Cancel(n) PROVE LeavesByName(i) /\ StaysOut(i)
    BY <2>2, CancelRetires
  <2>3. ASSUME NEW j \in Tasks, TimePasses(j) PROVE LeavesByName(i) /\ StaysOut(i)
    BY <2>3, KeptLeavesNone DEF TimePasses
  <2>4. ASSUME NEW j \in Tasks, Work(j) PROVE LeavesByName(i) /\ StaysOut(i)
    BY <2>4, WorkRetires
  <2>5. ASSUME NEW l \in Loops, Tick(l) PROVE LeavesByName(i) /\ StaysOut(i)
    BY <2>5, TickRetires DEF Tick
  <2>6. CASE UNCHANGED taskVars
    BY <2>6, KeptLeavesNone DEF taskVars
  <2> QED
    BY <2>1, <2>2, <2>3, <2>4, <2>5, <2>6 DEF Next, Start, EndLoop, Shutdown, Joined, Poll
<1> QED
  BY <1>1, InitTyped, StepTyped, PTL DEF Spec, RetiredForGood
=============================================================================
