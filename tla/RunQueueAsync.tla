--------------------------- MODULE RunQueueAsync ---------------------------
(***************************************************************************)
(* The run queue of the async/async snapshot (src/async/async/modules/    *)
(* axtask/src/run_queue.rs), built for the executor of executor.rs: a     *)
(* task is switched to by run_task(tid) when its future is polled.  It    *)
(* differs from the async2 run queue in three ways the model keeps:       *)
(*   - the pick loop takes a task only when tid == tasktid, so a resched  *)
(*     with tid 0 (yield, block, sleep, exit) never takes a queued task;  *)
(*   - meeting a remembered task always ends the loop with idle;          *)
(*   - switch_to only records the new current task (the trap frame goes   *)
(*     to the single kernel stack) and returns to its caller, so          *)
(*     exit_current reaches its unreachable!() after resched.             *)
(* As in RunQueue, RUN_QUEUE is a SpinNoIrq lock on one CPU and every     *)
(* entry point is one atomic step.                                        *)
(***************************************************************************)
EXTENDS Naturals, Sequences, FiniteSets, SequencesExt, Functions

CONSTANTS
  Users,       \* user tasks Task::init may create (model values)
  Main,        \* the "main" init task
  Idle,        \* the idle task (IDLE_TASK)
  WaitQueues   \* the wait queues tasks may block on

ASSUME Main \notin Users /\ Idle \notin Users /\ Main # Idle

Tasks == Users \cup {Main, Idle}

\* resched's tid argument 0: no task id equals it.
AnyTid == "zero"

States == {"Unborn", "Ready", "Running", "Blocked", "Exited"}

VARIABLES
  state,    \* TaskInner state ("Unborn": not yet created)
  curr,     \* the CurrentTask pointer
  queue,    \* FifoScheduler ready queue
  wq,       \* wait queue -> sequence of blocked tasks
  alarms,   \* tasks with a pending set_alarm_wakeup
  exited,   \* EXITED_TASKS
  dir,      \* tasks in TID2TASK
  zombie,   \* tasks with is_zombie set
  taskNub,  \* AxRunQueue::task_nub
  halted    \* "no", or why the machine stopped

vars == <<state, curr, queue, wq, alarms, exited, dir, zombie, taskNub,
          halted>>

SchedAdd(q, t) == Append(q, t)

SchedRemove(q, t) == Remove(q, t)

RQ == [st |-> state, cur |-> curr, q |-> queue, halted |-> halted]

\* Writes the run-queue record back; r is evaluated once.
Commit(r) ==
  \E v \in {r} :
    /\ state' = v.st
    /\ curr' = v.cur
    /\ queue' = v.q
    /\ halted' = v.halted

\* Holders of a task's Arc besides CurrentTask and the ready queue.
Held(exitedQ, dirS, wqF, alarmS) ==
  dirS \cup ToSet(exitedQ) \cup alarmS \cup {Idle}
       \cup UNION {ToSet(wqF[w]) : w \in WaitQueues}

\* Mutant: prev is requeued but never marked Ready.
PutPrevNoReady(r) ==
  IF r.st[r.cur] = "Running"
  THEN [r EXCEPT !.q = IF r.cur = Idle THEN @ ELSE SchedAdd(@, r.cur)]
  ELSE r

\* resched, lines 252-257: a running prev becomes Ready and, unless it is
\* idle, goes back to the scheduler.
PutPrev(r) ==
  IF r.st[r.cur] = "Running"
  THEN [r EXCEPT !.st[r.cur] = "Ready",
                 !.q = IF r.cur = Idle THEN @ ELSE SchedAdd(@, r.cur)]
  ELSE r

\* Mutant: a pick loop that takes the first task whatever its tid.
PickNextFirst(q, want, seen) ==
  IF q = <<>> THEN <<Idle, q>> ELSE <<Head(q), Tail(q)>>

\* The pick loop (monolithic), lines 263-287: returns <<next, queue>>.  A
\* task whose tid is not the wanted one is put back and remembered;
\* popping a remembered task ends the loop with idle, and that task is not
\* put back.
RECURSIVE PickNext(_, _, _)
PickNext(q, want, seen) ==
  IF q = <<>> THEN <<Idle, q>>
  ELSE LET t == Head(q) IN
       IF t \in seen THEN <<Idle, Tail(q)>>
       ELSE IF want = t THEN <<t, Tail(q)>>
       ELSE PickNext(SchedAdd(Tail(q), t), want, seen \cup {t})

\* switch_to: next is marked Running; unless it is prev, the strong_count
\* assert on prev is checked and next becomes the current task.
SwitchTo(r, next, held) ==
  LET r1 == [r EXCEPT !.st[next] = "Running"] IN
  IF r.cur = next THEN r1
  ELSE IF r.cur \notin held \cup ToSet(r.q)
       THEN [r1 EXCEPT !.halted = "refcount"]
  ELSE [r1 EXCEPT !.cur = next]

Resched(r, want, held) ==
  LET r1 == PutPrev(r)
      p == PickNext(r1.q, want, {})
  IN SwitchTo([r1 EXCEPT !.q = p[2]], p[1], held)

\* unblock_task: only a Blocked task is made Ready and queued.
UnblockTask(r, t) ==
  IF r.st[t] = "Blocked"
  THEN [r EXCEPT !.st[t] = "Ready", !.q = SchedAdd(@, t)]
  ELSE r

-----------------------------------------------------------------------------
\* init: main is Running and current; idle exists but is never queued.
Init ==
  /\ state = [t \in Tasks |-> CASE t = Main -> "Running"
                                [] t = Idle -> "Ready"
                                [] OTHER -> "Unborn"]
  /\ curr = Main
  /\ queue = <<>>
  /\ wq = [w \in WaitQueues |-> <<>>]
  /\ alarms = {}
  /\ exited = <<>>
  /\ dir = {Idle}
  /\ zombie = {}
  /\ taskNub = 0
  /\ halted = "no"

Running == halted = "no"

Held0 == Held(exited, dir, wq, alarms)

\* Mutant: Task::init without taskadd.
SpawnNoTaskadd(u) ==
  /\ Running
  /\ curr = Main
  /\ state[u] = "Unborn"
  /\ state' = [state EXCEPT ![u] = "Ready"]
  /\ queue' = SchedAdd(queue, u)
  /\ dir' = dir \cup {u}
  /\ UNCHANGED <<curr, wq, alarms, exited, zombie, halted, taskNub>>

\* Task::init on main: TID2TASK insert, taskadd, add_task.
Spawn(u) ==
  /\ Running
  /\ curr = Main
  /\ state[u] = "Unborn"
  /\ state' = [state EXCEPT ![u] = "Ready"]
  /\ queue' = SchedAdd(queue, u)
  /\ dir' = dir \cup {u}
  /\ taskNub' = taskNub + 1
  /\ UNCHANGED <<curr, wq, alarms, exited, zombie, halted>>

\* yield_current (also preempt_resched: the FIFO scheduler ignores the
\* preempt flag).
Yield ==
  /\ Running
  /\ Commit(Resched(RQ, AnyTid, Held0))
  /\ UNCHANGED <<wq, alarms, exited, dir, zombie, taskNub>>

\* block_current(|t| w.push(t))
Block(w) ==
  /\ Running
  /\ curr # Idle
  /\ LET wq1 == [wq EXCEPT ![w] = Append(@, curr)]
     IN /\ wq' = wq1
        /\ Commit(Resched([RQ EXCEPT !.st[curr] = "Blocked"], AnyTid,
                          Held(exited, dir, wq1, alarms)))
  /\ UNCHANGED <<alarms, exited, dir, zombie, taskNub>>

\* WaitQueue::notify_one / notify_all are left out: a notifier must be a
\* running task other than idle while a task waits, and here every
\* resched with tid 0 (the one block_current runs) ends in idle, which
\* only run_task, called on main, could leave.

\* Mutant: sleep_until that blocks without arming the alarm.
SleepUntilNoAlarm ==
  /\ Running
  /\ curr # Idle
  /\ alarms' = alarms
  /\ Commit(Resched([RQ EXCEPT !.st[curr] = "Blocked"], AnyTid,
                    Held(exited, dir, wq, alarms)))
  /\ UNCHANGED <<wq, exited, dir, zombie, taskNub>>

\* sleep_until with now < deadline
SleepUntil ==
  /\ Running
  /\ curr # Idle
  /\ alarms' = alarms \cup {curr}
  /\ Commit(Resched([RQ EXCEPT !.st[curr] = "Blocked"], AnyTid,
                    Held(exited, dir, wq, alarms \cup {curr})))
  /\ UNCHANGED <<wq, exited, dir, zombie, taskNub>>

\* on_timer_tick -> check_events: an armed alarm expires.
AlarmFire(t) ==
  /\ Running
  /\ t \in alarms
  /\ alarms' = alarms \ {t}
  /\ Commit(UnblockTask(RQ, t))
  /\ UNCHANGED <<wq, exited, dir, zombie, taskNub>>

\* Mutant: remove_task without scheduler.remove_task.
RemoveTaskKeepQueued(t) ==
  /\ Running
  /\ curr # Idle
  /\ t # Idle
  /\ state[t] \notin {"Running", "Unborn"}
  /\ IF state[t] = "Ready"
     THEN /\ state' = [state EXCEPT ![t] = "Exited"]
          /\ exited' = Append(exited, t)
          /\ queue' = queue
     ELSE UNCHANGED <<state, exited, queue>>
  /\ UNCHANGED <<curr, wq, alarms, dir, zombie, taskNub, halted>>

\* remove_task: a Ready task is marked Exited, queued for gc, unlinked.
RemoveTask(t) ==
  /\ Running
  /\ curr # Idle
  /\ t # Idle
  /\ state[t] \notin {"Running", "Unborn"}
  /\ IF state[t] = "Ready"
     THEN /\ state' = [state EXCEPT ![t] = "Exited"]
          /\ exited' = Append(exited, t)
          /\ queue' = SchedRemove(queue, t)
     ELSE UNCHANGED <<state, exited, queue>>
  /\ UNCHANGED <<curr, wq, alarms, dir, zombie, taskNub, halted>>

\* UserTaskFuture::poll -> run_task(tid), polled by the executor on main.
RunTask(u) ==
  /\ Running
  /\ curr = Main
  /\ state[u] # "Unborn"
  /\ Commit(Resched(RQ, u, Held0))
  /\ UNCHANGED <<wq, alarms, exited, dir, zombie, taskNub>>

\* exit_current_task (api.rs) up to exit_current: the task becomes a
\* zombie, leaves TID2TASK and is subtracted from task_nub.
ExitTaskBookkeeping ==
  /\ zombie' = zombie \cup {curr}
  /\ dir' = dir \ {curr}
  /\ taskNub' = taskNub - 1

\* exit_current_task then exit_current: the last task terminates the
\* machine; any other is marked Exited, queued for gc and rescheduled with
\* tid 0, after which switch_to returns and unreachable!() panics.
ExitCurrentTask ==
  /\ Running
  /\ curr \in Users
  /\ ExitTaskBookkeeping
  /\ IF taskNub - 1 = 0
     THEN /\ exited' = <<>>
          /\ halted' = "terminated"
          /\ UNCHANGED <<state, curr, queue>>
     ELSE LET ex1 == Append(exited, curr)
              r == Resched([RQ EXCEPT !.st[curr] = "Exited"], AnyTid,
                           Held(ex1, dir \ {curr}, wq, alarms))
          IN /\ exited' = ex1
             /\ Commit([r EXCEPT !.halted = IF @ = "no" THEN "unreachable"
                                                        ELSE @])
  /\ UNCHANGED <<wq, alarms>>

Stopped ==
  /\ halted # "no"
  /\ UNCHANGED vars

Next ==
  \/ \E u \in Users : Spawn(u) \/ RunTask(u)
  \/ Yield
  \/ SleepUntil
  \/ \E w \in WaitQueues : Block(w)
  \/ \E t \in Tasks : AlarmFire(t) \/ RemoveTask(t)
  \/ ExitCurrentTask
  \/ Stopped

Spec == Init /\ [][Next]_vars

-----------------------------------------------------------------------------
TypeOK ==
  /\ state \in [Tasks -> States]
  /\ curr \in Tasks
  /\ queue \in Seq(Tasks)
  /\ wq \in [WaitQueues -> Seq(Tasks)]
  /\ alarms \subseteq Tasks
  /\ exited \in Seq(Tasks)
  /\ dir \subseteq Tasks
  /\ zombie \subseteq Users
  /\ taskNub \in Nat
  /\ halted \in {"no", "terminated", "refcount", "unreachable"}

\* Exactly the CurrentTask is Running while the machine runs.
OneRunning ==
  Running => {t \in Tasks : state[t] = "Running"} = {curr}

\* The FIFO queue holds only Ready tasks, each at most once, across the
\* put-backs of the exact-tid pick loop.
QueueSound ==
  /\ IsInjective(queue)
  /\ \A i \in 1..Len(queue) : state[queue[i]] = "Ready"

\* A Blocked task waits in exactly one wait queue slot or on one alarm.
BlockedWaitsOnce ==
  \A t \in Tasks : state[t] = "Blocked" =>
    Cardinality(UNION {{<<w, i>> : i \in {j \in 1..Len(wq[w]) : wq[w][j] = t}}
                       : w \in WaitQueues})
      + (IF t \in alarms THEN 1 ELSE 0) = 1

\* What the executor relies on: polling a task's UserTaskFuture, whose
\* run_task(tid) is the only resched that names a task, switches to that
\* task whenever it is queued, wherever it is in the queue and whatever
\* the put-backs of the pick loop do to the tasks before it.
RunTaskPicks ==
  [][\A u \in Users :
       (RunTask(u) /\ u \in ToSet(queue) /\ halted' = "no") => curr' = u]_vars

\* No Ready task is lost: every Ready task but idle is in the FIFO queue.
NoLostTask ==
  Running => \A t \in Tasks \ {Idle} : state[t] = "Ready" => t \in ToSet(queue)

\* exit_current is declared -> ! and ends in unreachable!(): the resched
\* it runs must never return to it.
ExitNeverReturns == halted # "unreachable"

=============================================================================
