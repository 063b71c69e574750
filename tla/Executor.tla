------------------------------ MODULE Executor ------------------------------
(***************************************************************************)
(* The async executor of axtask (async/modules/axtask/src/executor.rs) and *)
(* the future that wraps a user task (async2/.../future.rs). TASK_QUEUE is *)
(* a VecDeque of runnables under a SpinNoIrq lock; the schedule closure    *)
(* given to async_task::spawn pushes a runnable at the back when it was    *)
(* woken while running (a yield) and at the front otherwise.  run_all pops *)
(* and runs runnables until the queue is empty.  On one CPU each queue     *)
(* operation and each poll of a kernel future is one step; a user task's   *)
(* poll lasts from run_task until the task exits.                          *)
(***************************************************************************)
EXTENDS Integers, Sequences, SequencesExt

CONSTANTS
    KernelFutures,  \* futures that await executor::yield_now
    LoopingFutures, \* the kernel futures that yield in an endless loop
    UserFutures,    \* UserTaskFuture(task, task_loop()), one per user task
    MaxYields       \* how many times a kernel future awaits yield_now

ASSUME LoopingFutures \subseteq KernelFutures

Futures == KernelFutures \cup UserFutures

VARIABLES
    queue,      \* TASK_QUEUE, the runnables in order
    fstate,     \* where each future is: New, Queued, Running or Done
    yieldsLeft, \* yield_now awaits a kernel future has still to make
    inRunAll    \* run_all is looping

vars == <<queue, fstate, yieldsLeft, inRunAll>>

\* task_future_init: TASK_QUEUE = Some(VecDeque::new())
Init ==
    /\ queue = <<>>
    /\ fstate = [f \in Futures |-> "New"]
    /\ yieldsLeft = [f \in KernelFutures |-> MaxYields]
    /\ inRunAll = FALSE

\* TaskQueue::push and TaskQueue::push_preempt
Push(q, f) == Append(q, f)
PushPreempt(q, f) == <<f>> \o q

\* Mutant: the two branches of the schedule closure swapped.
ScheduleSwapped(q, f, wokenWhileRunning) ==
    IF wokenWhileRunning THEN PushPreempt(q, f) ELSE Push(q, f)

\* The schedule closure of spawn: woken_while_running selects push.
Schedule(q, f, wokenWhileRunning) ==
    IF wokenWhileRunning THEN Push(q, f) ELSE PushPreempt(q, f)

\* spawn followed by runnable.schedule() (spawn_user_task for a user task):
\* Runnable::schedule reports woken_while_running = false.
Spawn(f) ==
    /\ fstate[f] = "New"
    /\ queue' = Schedule(queue, f, FALSE)
    /\ fstate' = [fstate EXCEPT ![f] = "Queued"]
    /\ UNCHANGED <<yieldsLeft, inRunAll>>

\* A caller enters run_all.
RunAllEnter ==
    /\ ~inRunAll
    /\ inRunAll' = TRUE
    /\ UNCHANGED <<queue, fstate, yieldsLeft>>

Running == {f \in Futures : fstate[f] = "Running"}

\* Mutant: fetch reads the front without popping it.
FetchPeek(q) == q

\* TaskQueue::fetch: pop_front
Fetch(q) == Tail(q)

\* Mutant: the last yield_now counted off by one, one poll too many.
StillYieldingOffByOne(f) == f \in LoopingFutures \/ yieldsLeft[f] >= 0

\* The future's poll reaches a yield_now whose YieldFuture is still false.
StillYielding(f) == f \in LoopingFutures \/ yieldsLeft[f] > 0

\* One pass of run_all on a kernel future: fetch pops the front and
\* task.run() polls it. A pending yield_now sets its flag and wakes itself
\* while running, so async_task schedules it with woken_while_running and
\* it goes to the back; with no yield left the future returns Ready.
RunKernel ==
    /\ inRunAll
    /\ Running = {}
    /\ queue # <<>>
    /\ Head(queue) \in KernelFutures
    /\ LET f == Head(queue) IN
       IF StillYielding(f)
       THEN /\ queue' = Schedule(Fetch(queue), f, TRUE)
            /\ yieldsLeft' = [yieldsLeft EXCEPT ![f] =
                                 IF f \in LoopingFutures THEN @ ELSE @ - 1]
            /\ UNCHANGED fstate
       ELSE /\ queue' = Fetch(queue)
            /\ fstate' = [fstate EXCEPT ![f] = "Done"]
            /\ UNCHANGED yieldsLeft
    /\ UNCHANGED inRunAll

\* run_all fetches a UserTaskFuture and polls it: run_task(tid) switches to
\* the task and task_loop returns to user space.
RunUser ==
    /\ inRunAll
    /\ Running = {}
    /\ queue # <<>>
    /\ Head(queue) \in UserFutures
    /\ queue' = Fetch(queue)
    /\ fstate' = [fstate EXCEPT ![Head(queue)] = "Running"]
    /\ UNCHANGED <<yieldsLeft, inRunAll>>

\* Mutant: task_loop without the zombie check; the poll never returns.
UserExitNoBreak(f) ==
    /\ fstate[f] = "Running"
    /\ f \in UserFutures
    /\ UNCHANGED vars

\* The user task traps in after exit made it a zombie: task_loop breaks and
\* the poll returns Ready. A trap without exit loops in task_loop and
\* changes nothing here.
UserExit(f) ==
    /\ fstate[f] = "Running"
    /\ f \in UserFutures
    /\ fstate' = [fstate EXCEPT ![f] = "Done"]
    /\ UNCHANGED <<queue, yieldsLeft, inRunAll>>

\* fetch finds the queue empty: run_all returns.
RunAllReturn ==
    /\ inRunAll
    /\ Running = {}
    /\ queue = <<>>
    /\ inRunAll' = FALSE
    /\ UNCHANGED <<queue, fstate, yieldsLeft>>

Next ==
    \/ \E f \in Futures : Spawn(f) \/ UserExit(f)
    \/ RunAllEnter
    \/ RunKernel
    \/ RunUser
    \/ RunAllReturn

\* run_all loops until the queue is empty; a user task eventually exits.
Fairness ==
    /\ WF_vars(RunKernel)
    /\ WF_vars(RunUser)
    /\ WF_vars(RunAllReturn)
    /\ \A f \in UserFutures : WF_vars(UserExit(f))

Spec == Init /\ [][Next]_vars /\ Fairness

-----------------------------------------------------------------------------
TypeOK ==
    /\ queue \in Seq(Futures)
    /\ fstate \in [Futures -> {"New", "Queued", "Running", "Done"}]
    /\ yieldsLeft \in [KernelFutures -> 0..MaxYields]
    /\ inRunAll \in BOOLEAN

\* The executor implements ExecutorSpec: the ready set is the set of
\* runnables in TASK_QUEUE, and the future being polled is the active one.
Abs == INSTANCE ExecutorSpec WITH
    ready <- ToSet(queue),
    active <- Running,
    finished <- {f \in Futures : fstate[f] = "Done"},
    draining <- inRunAll

ImplementsExecutorSpec == Abs!AbsSpec

\* While run_all is looping, every runnable in TASK_QUEUE eventually reaches
\* its front and is run: a future that yields in an endless loop must go
\* behind the others, and a freshly scheduled one must not be overtaken for
\* ever.
EveryQueuedReachesFront ==
    \A f \in Futures :
        (inRunAll /\ f \in ToSet(queue)) ~> (queue # <<>> /\ Head(queue) = f)

\* Each runnable is in TASK_QUEUE at most once and exactly when its future
\* is Queued: async_task schedules a woken runnable only once, and the
\* executor must neither lose nor duplicate it across push and push_preempt.
QueueMatchesFutures ==
    /\ \A i, j \in 1..Len(queue) : queue[i] = queue[j] => i = j
    /\ ToSet(queue) = {f \in Futures : fstate[f] = "Queued"}

=============================================================================
