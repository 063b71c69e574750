------------------------------ MODULE RunQueue ------------------------------
(***************************************************************************)
(* The run queue of axtask (src/async/async2/modules/axtask/src/          *)
(* run_queue.rs) with the FIFO scheduler it is built with, the kernel     *)
(* stack pool, the exit path of api.rs and Task::init of task.rs.         *)
(*                                                                         *)
(* Every entry point takes RUN_QUEUE, a SpinNoIrq lock that disables IRQs *)
(* on the single CPU, and keeps it until the reschedule is over, so each  *)
(* entry point, including the whole resched/switch_to recursion, is one   *)
(* atomic step here.  The reschedule is computed by the operators        *)
(* Resched / PickNext / SwitchTo over a record of the run-queue state.    *)
(***************************************************************************)
EXTENDS Naturals, Sequences, FiniteSets, SequencesExt, Functions

CONSTANTS
  Users,       \* user tasks Task::init may create (model values)
  Main,        \* the "main" init task, tid 1 (created first by init())
  Idle,        \* the idle task, tid 3 (created after main and gc)
  WaitQueues,  \* the wait queues tasks may block on
  KStackNum    \* KSTACK_NUM: size of the kernel stack pool

ASSUME /\ Main \notin Users /\ Idle \notin Users /\ Main # Idle
       /\ KStackNum \in Nat \ {0}

Tasks == Users \cup {Main, Idle}

\* Task::is_kernel_task: the tasks named gc, idle or main (gc is built by
\* AxRunQueue::new but never added to the scheduler, so it never appears).
KernelTasks == {Main, Idle}

\* The tid argument of resched: 0 lets any task be picked.
AnyTid == "any"

\* Indices alloc_stack hands out: stack 0 is reserved for idle.
StackIdx == 1..(KStackNum - 1)

States == {"Unborn", "Ready", "Running", "Blocked", "Exited"}

VARIABLES
  state,       \* TaskInner state of every task ("Unborn": not yet created)
  curr,        \* the CurrentTask pointer
  queue,       \* FifoScheduler ready queue
  wq,          \* wait queue -> sequence of blocked tasks
  alarms,      \* tasks with a pending set_alarm_wakeup
  exited,      \* EXITED_TASKS
  started,     \* TaskInner::is_started
  stackOf,     \* TaskInner::stack_idx
  kstackUsed,  \* indices i with kstack_state[i] = true
  dir,         \* tasks in TID2TASK
  zombie,      \* tasks with is_zombie set
  taskNub,     \* AxRunQueue::task_nub
  halted,      \* "no", or why the machine stopped
  children,    \* Task::children of every task, in push order
  mainPc       \* where main is in run_testcase: "spawn", the task it
               \* waits for, or "recycle"

vars == <<state, curr, queue, wq, alarms, exited, started, stackOf,
          kstackUsed, dir, zombie, taskNub, halted, children, mainPc>>

-----------------------------------------------------------------------------
(* FifoScheduler (scheduler crate): add_task and put_prev_task append,   *)
(* pick_next_task pops the front, remove_task unlinks the task.          *)

SchedAdd(q, t) == Append(q, t)

SchedRemove(q, t) == Remove(q, t)

-----------------------------------------------------------------------------
(* The run-queue state the reschedule reads and writes.                   *)

RQ == [st |-> state, cur |-> curr, q |-> queue, started |-> started,
       stackOf |-> stackOf, used |-> kstackUsed, halted |-> halted]

\* Writes the run-queue record back; r is evaluated once.
Commit(r) ==
  \E v \in {r} :
    /\ state' = v.st
    /\ curr' = v.cur
    /\ queue' = v.q
    /\ started' = v.started
    /\ stackOf' = v.stackOf
    /\ kstackUsed' = v.used
    /\ halted' = v.halted

\* Holders of a task's Arc other than the CurrentTask pointer and the
\* ready queue: TID2TASK, EXITED_TASKS, the wait queues, the timer list and
\* the IDLE_TASK static.
Held(exitedQ, dirS, wqF, alarmS) ==
  dirS \cup ToSet(exitedQ) \cup alarmS \cup {Idle}
       \cup UNION {ToSet(wqF[w]) : w \in WaitQueues}

\* Mutant: alloc_stack without the !kstack_state[i] test.
AllocStackNoStateTest(used) ==
  IF StackIdx = {} THEN 0
  ELSE CHOOSE i \in StackIdx : \A j \in StackIdx : i <= j

\* Mutant: alloc_stack looping over 1..KSTACK_NUM - 1, one stack short.
AllocStackShort(used) ==
  LET free == (StackIdx \ {KStackNum - 1}) \ used
  IN IF free = {} THEN 0
     ELSE CHOOSE i \in free : \A j \in free : i <= j

\* alloc_stack: the first free index from 1, or 0 when it panics.
AllocStack(used) ==
  IF StackIdx \ used = {} THEN 0
  ELSE CHOOSE i \in StackIdx \ used : \A j \in StackIdx \ used : i <= j

\* Mutant: put_prev testing !is_blocked() instead of is_running().
PutPrevNotBlocked(r) ==
  IF r.st[r.cur] # "Blocked"
  THEN [r EXCEPT !.st[r.cur] = "Ready",
                 !.q = IF r.cur = Idle THEN @ ELSE SchedAdd(@, r.cur)]
  ELSE r

\* Mutant: prev is requeued but never marked Ready.
PutPrevNoReady(r) ==
  IF r.st[r.cur] = "Running"
  THEN [r EXCEPT !.q = IF r.cur = Idle THEN @ ELSE SchedAdd(@, r.cur)]
  ELSE r

\* resched, lines 337-343: a still-running prev becomes Ready and, unless
\* it is idle, goes back to the scheduler.
PutPrev(r) ==
  IF r.st[r.cur] = "Running"
  THEN [r EXCEPT !.st[r.cur] = "Ready",
                 !.q = IF r.cur = Idle THEN @ ELSE SchedAdd(@, r.cur)]
  ELSE r

\* The pick loop of resched (monolithic): returns <<next, queue>>.  A task
\* with tid 3 (idle) is popped and skipped; a task not wanted is put back
\* and remembered; meeting a remembered task ends the loop with that task
\* if it has started, else with idle, and in both cases it is not put back.
RECURSIVE PickNext(_, _, _, _)
PickNext(q, want, seen, isStarted) ==
  IF q = <<>> THEN <<Idle, q>>
  ELSE LET t == Head(q) IN
       IF t = Idle THEN PickNext(Tail(q), want, seen, isStarted)
       ELSE IF t \in seen
            THEN <<IF isStarted[t] THEN t ELSE Idle, Tail(q)>>
       ELSE IF want \in {AnyTid, t} THEN <<t, Tail(q)>>
       ELSE PickNext(SchedAdd(Tail(q), t), want, seen \cup {t}, isStarted)

RECURSIVE Resched(_, _, _), SwitchTo(_, _, _)

\* switch_to(prev = r.cur, next).  A kernel task is made current and the
\* switch immediately reschedules again; a started user task resumes on
\* its own stack; a new one gets a stack from the pool (or the kernel
\* panics).  The assert that prev is still held elsewhere panics too.
SwitchTo(r, next, held) ==
  LET r1 == [r EXCEPT !.st[next] = "Running"]
      prev == r.cur
      idx == AllocStack(r.used)
  IN
  IF prev = next THEN r1
  ELSE IF prev \notin held \cup ToSet(r.q)
       THEN [r1 EXCEPT !.halted = "refcount"]
  ELSE IF next \in KernelTasks
       THEN Resched([r1 EXCEPT !.cur = next], AnyTid, held)
  ELSE IF r.started[next] THEN [r1 EXCEPT !.cur = next]
  ELSE IF idx = 0 THEN [r1 EXCEPT !.halted = "nostack"]
  ELSE [r1 EXCEPT !.cur = next, !.started[next] = TRUE,
                  !.stackOf[next] = idx, !.used = @ \cup {idx}]

\* resched(preempt, tid): the FIFO scheduler ignores preempt.
Resched(r, want, held) ==
  LET r1 == PutPrev(r)
      p == PickNext(r1.q, want, {}, r1.started)
  IN SwitchTo([r1 EXCEPT !.q = p[2]], p[1], held)

\* unblock_task(task, resched): only a Blocked task is made Ready.
UnblockTask(r, t) ==
  IF r.st[t] = "Blocked"
  THEN [r EXCEPT !.st[t] = "Ready", !.q = SchedAdd(@, t)]
  ELSE r

-----------------------------------------------------------------------------
Init ==
  /\ state = [t \in Tasks |-> CASE t = Main -> "Running"
                                [] t = Idle -> "Ready"
                                [] OTHER -> "Unborn"]
  /\ curr = Main
  /\ queue = <<>>
  /\ wq = [w \in WaitQueues |-> <<>>]
  /\ alarms = {}
  /\ exited = <<>>
  /\ started = [t \in Tasks |-> FALSE]
  /\ stackOf = [t \in Tasks |-> 0]
  /\ kstackUsed = {}
  /\ dir = {Idle}
  /\ zombie = {}
  /\ taskNub = 0
  /\ halted = "no"
  /\ children = [t \in Tasks |-> <<>>]
  /\ mainPc = "spawn"

Running == halted = "no"

\* Mutant: Task::init without RUN_QUEUE.taskadd().
SpawnNoTaskadd(u) ==
  /\ Running
  /\ curr = Main
  /\ state[u] = "Unborn"
  /\ state' = [state EXCEPT ![u] = "Ready"]
  /\ queue' = SchedAdd(queue, u)
  /\ dir' = dir \cup {u}
  /\ children' = [children EXCEPT ![Idle] = Append(@, u)]
  /\ UNCHANGED <<curr, wq, alarms, exited, started, stackOf, kstackUsed,
                 zombie, halted, taskNub>>

\* AxRunQueue::taskadd
TaskAdd(n) == n + 1

\* Mutant: exit_current_task without its tasksub() call.
TaskSubNoop(n) == n

\* AxRunQueue::tasksub
TaskSub(n) == n - 1

\* Task::init, called by run_testcase on main: the new task becomes a child
\* of TID2TASK[KERNEL_PROCESS_ID] (the idle task, inserted under key 1 by
\* init_kernel_task), is registered in TID2TASK, counted by taskadd and
\* handed to the scheduler.
Spawn(u) ==
  /\ Running
  /\ curr = Main
  /\ state[u] = "Unborn"
  /\ state' = [state EXCEPT ![u] = "Ready"]
  /\ queue' = SchedAdd(queue, u)
  /\ dir' = dir \cup {u}
  /\ taskNub' = TaskAdd(taskNub)
  /\ children' = [children EXCEPT ![Idle] = Append(@, u)]
  /\ UNCHANGED <<curr, wq, alarms, exited, started, stackOf, kstackUsed,
                 zombie, halted>>

Held0 == Held(exited, dir, wq, alarms)

\* yield_current
Yield ==
  /\ Running
  /\ Commit(Resched(RQ, AnyTid, Held0))
  /\ UNCHANGED <<children, wq, alarms, exited, dir, zombie, taskNub>>

\* block_current(|t| w.push(t)): Blocked first, then queued on w.
Block(w) ==
  /\ Running
  /\ curr # Idle
  /\ LET wq1 == [wq EXCEPT ![w] = Append(@, curr)]
     IN /\ wq' = wq1
        /\ Commit(Resched([RQ EXCEPT !.st[curr] = "Blocked"], AnyTid,
                          Held(exited, dir, wq1, alarms)))
  /\ UNCHANGED <<children, alarms, exited, dir, zombie, taskNub>>

\* WaitQueue::notify_one(resched): pop the first waiter and unblock it.
NotifyOne(w) ==
  /\ Running
  /\ curr # Idle
  /\ wq[w] # <<>>
  /\ wq' = [wq EXCEPT ![w] = Tail(@)]
  /\ Commit(UnblockTask(RQ, Head(wq[w])))
  /\ UNCHANGED <<children, alarms, exited, dir, zombie, taskNub>>

\* WaitQueue::notify_all(resched): unblock every waiter in queue order.
NotifyAll(w) ==
  /\ Running
  /\ curr # Idle
  /\ wq[w] # <<>>
  /\ wq' = [wq EXCEPT ![w] = <<>>]
  /\ Commit(FoldLeft(UnblockTask, RQ, wq[w]))
  /\ UNCHANGED <<children, alarms, exited, dir, zombie, taskNub>>

\* Mutant: sleep_until that blocks without arming the alarm.
SleepUntilNoAlarm ==
  /\ Running
  /\ curr # Idle
  /\ alarms' = alarms
  /\ Commit(Resched([RQ EXCEPT !.st[curr] = "Blocked"], AnyTid,
                    Held(exited, dir, wq, alarms)))
  /\ UNCHANGED <<children, wq, exited, dir, zombie, taskNub>>

\* sleep_until(deadline) with now < deadline: the alarm is armed before
\* the task is marked Blocked, both under the lock.
SleepUntil ==
  /\ Running
  /\ curr # Idle
  /\ alarms' = alarms \cup {curr}
  /\ Commit(Resched([RQ EXCEPT !.st[curr] = "Blocked"], AnyTid,
                    Held(exited, dir, wq, alarms \cup {curr})))
  /\ UNCHANGED <<children, wq, exited, dir, zombie, taskNub>>

\* timers::check_events from on_timer_tick: an expired alarm unblocks its
\* task (deadlines are abstracted, so any armed alarm may expire).
AlarmFire(t) ==
  /\ Running
  /\ t \in alarms
  /\ alarms' = alarms \ {t}
  /\ Commit(UnblockTask(RQ, t))
  /\ UNCHANGED <<children, wq, exited, dir, zombie, taskNub>>

\* Mutant: remove_task that forgets scheduler.remove_task.
RemoveTaskKeepQueued(t) ==
  /\ Running
  /\ curr # Idle
  /\ t # Idle
  /\ state[t] \notin {"Running", "Unborn"}
  /\ IF state[t] = "Ready"
     THEN /\ state' = [state EXCEPT ![t] = "Exited"]
          /\ exited' = Append(exited, t)
          /\ queue' = queue
     ELSE UNCHANGED <<state, exited, queue>>
  /\ UNCHANGED <<curr, wq, alarms, started, stackOf, kstackUsed, dir,
                 zombie, taskNub, halted, children>>

\* Mutant: remove_task without its is_ready() test: a Blocked task is
\* marked Exited and queued for gc while it still waits.
RemoveTaskAnyState(t) ==
  /\ Running
  /\ curr # Idle
  /\ t # Idle
  /\ state[t] \notin {"Running", "Unborn"}
  /\ IF state[t] \in {"Ready", "Blocked"}
     THEN /\ state' = [state EXCEPT ![t] = "Exited"]
          /\ exited' = Append(exited, t)
          /\ queue' = SchedRemove(queue, t)
     ELSE UNCHANGED <<state, exited, queue>>
  /\ UNCHANGED <<curr, wq, alarms, started, stackOf, kstackUsed, dir,
                 zombie, taskNub, halted, children>>

\* remove_task(task): a Ready task is marked Exited, queued for gc and
\* unlinked from the scheduler; any other task is left alone.
RemoveTask(t) ==
  /\ Running
  /\ curr # Idle
  /\ t # Idle
  /\ state[t] \notin {"Running", "Unborn"}
  /\ IF state[t] = "Ready"
     THEN /\ state' = [state EXCEPT ![t] = "Exited"]
          /\ exited' = Append(exited, t)
          /\ queue' = SchedRemove(queue, t)
     ELSE UNCHANGED <<state, exited, queue>>
  /\ UNCHANGED <<curr, wq, alarms, started, stackOf, kstackUsed, dir,
                 zombie, taskNub, halted, children>>

\* UserTaskFuture::poll -> run_task(tid): resched asking for task u.
RunTask(u) ==
  /\ Running
  /\ curr = Main
  /\ state[u] # "Unborn"
  /\ Commit(Resched(RQ, u, Held0))
  /\ UNCHANGED <<children, wq, alarms, exited, dir, zombie, taskNub>>

\* exit_current_task (api.rs) followed by exit_current: the task leaves
\* TID2TASK and task_nub; the last one halts the machine, any other one is
\* marked Exited, queued for gc and rescheduled away asking for tid 1.
ExitCurrentTask ==
  /\ Running
  /\ curr \in Users
  /\ zombie' = zombie \cup {curr}
  /\ dir' = dir \ {curr}
  /\ taskNub' = TaskSub(taskNub)
  /\ IF TaskSub(taskNub) = 0
     THEN /\ exited' = <<>>
          /\ halted' = "terminated"
          /\ UNCHANGED <<state, curr, queue, started, stackOf, kstackUsed>>
     ELSE LET ex1 == Append(exited, curr)
          IN /\ exited' = ex1
             /\ Commit(Resched([RQ EXCEPT !.st[curr] = "Exited"], Main,
                               Held(ex1, dir \ {curr}, wq, alarms)))
  \* user tasks have no children (no clone in this kernel), so the
  \* reparenting loop moves nothing
  /\ UNCHANGED <<wq, alarms, children>>

\* After terminate() or a panic nothing runs any more.
Stopped ==
  /\ halted # "no"
  /\ UNCHANGED vars

\* Any kernel code may call the axtask API; main's place in run_testcase
\* belongs to the boot flow below.
Next ==
  /\ \/ \E u \in Users : Spawn(u)
     \/ Yield
     \/ \E w \in WaitQueues : Block(w) \/ NotifyOne(w) \/ NotifyAll(w)
     \/ SleepUntil
     \/ \E t \in Tasks : AlarmFire(t) \/ RemoveTask(t)
     \/ \E u \in Users : RunTask(u)
     \/ ExitCurrentTask
     \/ Stopped
  /\ UNCHANGED mainPc

Spec == Init /\ [][Next]_vars

(***************************************************************************)
(* The boot flow of monolithic_userboot: main runs run_batch_testcases,   *)
(* which calls run_testcase for each testcase: Task::init, then a loop of  *)
(* wait_pid and yield_now_task.  idle runs run_idle, a yield_now loop; a   *)
(* user task enters the kernel scheduler only through syscall_exit (the   *)
(* only task syscall).  Users stands for the testcases, one task each.    *)
(***************************************************************************)

\* wait_pid(tid) over the children of the caller, in order: a child
\* missing from TID2TASK panics on unwrap, the wanted child answers
\* "Exited" once it is a zombie, else "Running"; no match is "NotExist".
RECURSIVE WaitPidStatus(_, _)
WaitPidStatus(kids, tid) ==
  IF kids = <<>> THEN "NotExist"
  ELSE IF Head(kids) \notin dir THEN "panic"
  ELSE IF Head(kids) = tid
       THEN IF Head(kids) \in zombie THEN "Exited" ELSE "Running"
  ELSE WaitPidStatus(Tail(kids), tid)

\* run_testcase, first half: Task::init for the next testcase.
RunTestcase(u) ==
  /\ mainPc = "spawn"
  /\ Spawn(u)
  /\ mainPc' = u

\* One turn of run_testcase's loop, run by main: a successful wait_pid
\* drops the child from main's children and leaves for
\* recycle_user_process; otherwise main calls yield_now_task.
MainWaitLoop ==
  /\ Running
  /\ curr = Main
  /\ mainPc \in Users
  /\ LET st == WaitPidStatus(children[Main], mainPc) IN
     CASE st = "panic" ->
            /\ halted' = "unwrap"
            /\ UNCHANGED <<state, curr, queue, started, stackOf, kstackUsed,
                           children, mainPc>>
       [] st = "Exited" ->
            /\ children' = [children EXCEPT ![Main] =
                               SelectSeq(@, LAMBDA c : c # mainPc)]
            /\ mainPc' = "recycle"
            /\ UNCHANGED <<state, curr, queue, started, stackOf, kstackUsed,
                           halted>>
       [] OTHER ->
            /\ Commit(Resched(RQ, AnyTid, Held0))
            /\ UNCHANGED <<children, mainPc>>
  /\ UNCHANGED <<wq, alarms, exited, dir, zombie, taskNub>>

\* run_idle
IdleLoop == curr = Idle /\ Yield /\ UNCHANGED mainPc

\* syscall_exit -> exit_current_task
SyscallExit == ExitCurrentTask /\ UNCHANGED mainPc

BootNext ==
  \/ \E u \in Users : RunTestcase(u)
  \/ MainWaitLoop
  \/ IdleLoop
  \/ SyscallExit
  \/ Stopped

\* main starts in run_batch_testcases and loops; idle loops on yield_now;
\* a user program eventually calls exit.  Weak fairness of each.
BootSpec == Init /\ [][BootNext]_vars
  /\ WF_vars(\E u \in Users : RunTestcase(u))
  /\ WF_vars(MainWaitLoop) /\ WF_vars(IdleLoop) /\ WF_vars(SyscallExit)

-----------------------------------------------------------------------------
TypeOK ==
  /\ state \in [Tasks -> States]
  /\ curr \in Tasks
  /\ queue \in Seq(Tasks)
  /\ wq \in [WaitQueues -> Seq(Tasks)]
  /\ alarms \subseteq Tasks
  /\ exited \in Seq(Tasks)
  /\ started \in [Tasks -> BOOLEAN]
  /\ stackOf \in [Tasks -> 0..(KStackNum - 1)]
  /\ kstackUsed \subseteq StackIdx
  /\ dir \subseteq Tasks
  /\ zombie \subseteq Users
  /\ taskNub \in Nat
  /\ halted \in {"no", "terminated", "refcount", "nostack", "unwrap"}
  /\ children \in [Tasks -> Seq(Users)]
  /\ mainPc \in {"spawn", "recycle"} \cup Users

\* Every user task that switch_to has started runs on a stack of its own
\* from the pool, marked used in kstack_state and never stack 0 (idle's):
\* alloc_stack must skip the stacks that started tasks hold, across any
\* order of spawns, run_task picks and exits (free_stack is never called).
StacksOwned ==
  \A t \in Users :
    started[t] =>
      /\ stackOf[t] \in kstackUsed
      /\ \A u \in Users \ {t} : started[u] => stackOf[u] # stackOf[t]

\* alloc_stack panics ("no stack available") only when every pool stack
\* is held by a task that switch_to has started, running or exited: with
\* free_stack never called, the panic comes with the KSTACK_NUM-th user
\* task to start, whatever order spawns, exits and picks came in.
PoolSpentAtPanic ==
  halted = "nostack" =>
    {stackOf[t] : t \in {u \in Users : started[u]}} = StackIdx

\* task_nub counts exactly the user tasks Task::init has created and
\* exit_current_task has not yet retired: taskadd and tasksub pair up
\* across every order of spawns and exits, so exit_current halts the
\* machine on the exit of the last live user task and on no other.
TaskNubCounts ==
  taskNub = Cardinality({u \in Users : state[u] # "Unborn"} \ zombie)

\* The run queue implements Scheduling: under every sequence of API calls
\* each task goes through its lifecycle as Scheduling allows (created
\* Ready, run only from Ready, woken only from Blocked, removed only from
\* Ready, never back from Exited), with CurrentTask as the running task,
\* across the kernel-task recursion of resched and the pick loop.
Sched == INSTANCE Scheduling
           WITH st <- state, running <- curr,
                phase <- IF halted = "no" THEN "up" ELSE "down"

ImplementsScheduling == Sched!SchedSpec

\* Exactly the CurrentTask is Running while the machine runs: resched marks
\* prev Ready and switch_to marks next Running, across the kernel-task
\* recursion of switch_to and the self-switch shortcut.
OneRunning ==
  Running => {t \in Tasks : state[t] = "Running"} = {curr}

\* The FIFO queue holds each task at most once and only Ready tasks: no
\* put_prev_task, unblock_task or pick-loop put-back ever queues a task
\* twice or leaves a Blocked, Running or Exited task in it.
QueueSound ==
  /\ IsInjective(queue)
  /\ \A i \in 1..Len(queue) : state[queue[i]] = "Ready"

\* No Ready task is lost: every Ready task other than idle (which the
\* scheduler never holds) is in the FIFO queue, so pick_next_task can still
\* return it.
NoLostTask ==
  Running => \A t \in Tasks \ {Idle} : state[t] = "Ready" => t \in ToSet(queue)

\* No lost wake-up: a Blocked task is waiting in exactly one place, a wait
\* queue (once) or the timer list, so exactly one notify or alarm can
\* make it Ready again.
BlockedWaitsOnce ==
  \A t \in Tasks : state[t] = "Blocked" =>
    Cardinality(UNION {{<<w, i>> : i \in {j \in 1..Len(wq[w]) : wq[w][j] = t}}
                       : w \in WaitQueues})
      + (IF t \in alarms THEN 1 ELSE 0) = 1

\* switch_to's assert that the previous task is still referenced besides
\* the CurrentTask pointer (so set_current's drop never frees it) never
\* fails.
PrevStillHeld == halted # "refcount"

\* Exit is final: once exit_current_task has made a task a zombie, no step
\* (the reschedule exit_current runs itself, a later put_prev, unblock or
\* pick) makes it Ready, Running or current again while the machine runs.
ExitIsFinal ==
  [][halted' = "no" =>
        \A t \in zombie' : state'[t] = "Exited" /\ curr' # t]_vars

\* run_batch_testcases runs every testcase of its list: each one is
\* eventually created by run_testcase (or the machine panics).
AllTestcasesRun ==
  \/ <>(\A u \in Users : state[u] # "Unborn")
  \/ <>(halted \notin {"no", "terminated"})

=============================================================================
