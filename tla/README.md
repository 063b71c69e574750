# TLA+ models of the rCore-OS 2024 summer axtask kernel

This directory holds TLA+ models of the task-management core of the kernel
under `src/async/`: the run queue and its reschedule, the kernel stack pool,
task creation and exit, the wait and sleep paths, the boot flow that runs
the testcases, the async executor, the
file-descriptor table with its syscalls, the RISC-V trap loop that dispatches them, and the command-line splitter. Each module is written from the Rust source. `PROJECT.json` maps
every definition to the lines it models.

## 1. The system (inventory)

The repository holds four snapshots of a monolithic ArceOS-based kernel:
`async/`, `async2/`, `sync/` and `syncwz/`. Together they form one kernel:

| Component | Source | State | Operations |
|---|---|---|---|
| Run queue | `async2/modules/axtask/src/run_queue.rs` | `RUN_QUEUE` (SpinNoIrq): FIFO `scheduler`, `kstack_state`, `task_nub`, `cur_stack`; `CurrentTask`; `IDLE_TASK`; `EXITED_TASKS` | `add_task`, `yield_current`, `exit_current`, `remove_task`, `block_current`, `unblock_task`, `sleep_until`, `run_task`, `resched`, `switch_to`, `alloc_stack`/`free_stack`, `preempt_yield` |
| FIFO scheduler | `scheduler` crate (not in the repository) | ready queue | `add_task`, `put_prev_task`, `pick_next_task`, `remove_task` |
| Task | `syncwz/modules/axtask/src/task.rs` | `TaskInner` state, `is_started`, `stack_idx`, zombie flag, `children`, `TID2TASK` | `Task::init`, `new_task_inner`, `new_init_task`, `set_current` |
| Task API | `async/modules/axtask/src/api.rs` | — | `init_kernel_task`, `exit_current_task`, `wait_pid`, `yield_now`, `sleep_until`, `join`, `on_timer_tick`, `run_idle` |
| Boot flow | `syncwz/apps/monolithic_userboot`, `async2/ulib/axcomp`, `sync/.../api.rs` | list of testcases | `run_batch_testcases`, `run_testcase` (Task::init, then a loop of wait_pid and yield), `recycle_user_process` |
| Syscalls | `sync/.../syscall_task`, `syncwz/.../syscall_fs` | fd tables | `exit`; `openat`, `close`, `read`, `write` |
| Executor | `async/modules/axtask/src/executor.rs`, `async2/.../future.rs` | `TASK_QUEUE` of runnables | `spawn`, `run_all`, `spawn_user_task`, `UserTaskFuture::poll` (which calls `run_task(tid)`) |
| Variant run queue | `async/modules/axtask/src/run_queue.rs` | as above, one kernel stack | same API; the pick loop needs `tid == tasktid` exactly |
| Signals | `syncwz/modules/axtask/src/signal.rs` | `signal_modules` | `send_signal_to_thread` |
| Trap entry, contexts | `async2/modules/axtrap`, `syncwz/.../ctx.rs` | trap frames, registers | `task_entry`, save and restore |

How the parts interact:
- There is one CPU. `RUN_QUEUE` is a `SpinNoIrq` lock, so each run-queue entry point runs with IRQs off. That includes the whole `resched` → `switch_to` → `resched` recursion, so each entry point is atomic.
- Task ids follow creation order: main = 1, gc = 2 (built, never scheduled), idle = 3.
  - The pick loop skips tid 3.
  - `init_kernel_task` files idle under key 1 (`KERNEL_PROCESS_ID`) in `TID2TASK`.
  - `Task::init` makes every new task a child of that entry.
- User tasks reach the scheduler only by trapping into `syscall_exit` → `exit_current_task`.
- The main task runs the testcases. The idle task loops on `yield_now`.

Hard behaviours in the code:
- **The pick loop.** A task that is not wanted is put back and remembered. Meeting a remembered task ends the loop; that task is returned if started, otherwise idle is returned. Either way the popped task is not put back.
- **`switch_to` to a kernel task.** It reschedules again at once.
- **The reference-count assert** on prev in `switch_to`.
- **The stack pool.** `free_stack` has no caller, so stacks are never returned.
- **`exit_current`.** It halts the machine when `task_nub` reaches 0.
- **`wait_pid` and `recycle_user_process`.** Both unwrap `TID2TASK` entries that the exit path removed; both are masked, because main's `wait_pid` looks in main's own children, which `Task::init` never fills, so it never succeeds and `recycle_user_process` never runs.
- **The variant pick loop.** It never matches tid 0.

## 2. Modules

| Module | Models |
|---|---|
| `RunQueue.tla` | The run queue with the FIFO scheduler, the stack pool, `Task::init`, `exit_current_task`, wait queues and alarms. It also holds the boot flow. |
| `RunQueueAsync.tla` | The `async/async` run queue variant. Its pick loop needs `tid == tasktid`, with no idle skip and no recursion, and `switch_to` returns to its caller. |
| `Executor.tla` | `TASK_QUEUE` and the schedule closure of `spawn`, `spawn_user_task`, `run_all`, `yield_now` (`YieldFuture`), `UserTaskFuture::poll` and `task_loop`. |
| `ExecutorSpec.tla` | What the executor promises, without the queue: sets of ready, active and finished futures, and whether a drain is in progress. |
| `FdTable.tla` | One task's fd table: `Task::alloc_fd`, `syscall_openat`, `syscall_close`, `syscall_read`, `syscall_write` and the table cleared by `exit_current_task`. It has no `Next`; `Trap` composes its actions. |
| `Trap.tla` | One user task's trap loop on RISC-V (`async2/modules/axtrap/src/arch/riscv/mod.rs`): `riscv_trap_return`, the user trap, `riscv_trap_handler` by `scause`, the syscalls it dispatches (on `FdTable`), and kernel-mode interrupts. |
| `Args.tla` | `get_args`, one loop iteration per step, plus a reference split to check it against. |
| `MCRunQueue.tla`, `MCRunQueueAsync.tla`, `MCExecutor.tla`, `MCArgs.tla` | Model values and symmetry for TLC. `Trap` needs none, and `MCTrap.cfg` runs it directly. |

### State

The variables of `RunQueue` and what they stand for in the code:

| Variable | Code |
|---|---|
| `state` | `TaskInner` state. `"Unborn"` means the task is not yet created. |
| `curr` | `CurrentTask` |
| `queue` | the FIFO ready queue |
| `wq` | wait queues |
| `alarms` | pending `set_alarm_wakeup` |
| `exited` | `EXITED_TASKS` |
| `started`, `stackOf` | `is_started`, `stack_idx` |
| `kstackUsed` | `kstack_state` |
| `dir` | `TID2TASK` |
| `zombie` | the zombie flag |
| `taskNub` | `task_nub` |
| `children` | `Task::children` |
| `mainPc` | where main is in `run_testcase` |
| `halted` | `terminate()` or the panic that stopped the machine: `refcount` (switch_to's assert), `nostack` (alloc_stack), `unwrap` (wait_pid) |

### Operators and actions

The reschedule is computed by recursive operators over a record of the run-queue state:
- `PutPrev` is resched lines 337-343.
- `PickNext` is the pick loop, lines 344-383.
- `SwitchTo` is `switch_to`, recursing into `Resched` for a kernel task.

`Commit` writes the result back. One action per API entry point:

| Action | Code |
|---|---|
| `Spawn` | `Task::init` |
| `Yield` | `yield_current` |
| `Block` | `block_current` |
| `NotifyOne`, `NotifyAll` | wait queues |
| `SleepUntil` | `sleep_until` |
| `AlarmFire` | `on_timer_tick` → `check_events` |
| `RemoveTask` | `remove_task` |
| `RunTask` | `run_task`, via `UserTaskFuture::poll` |
| `ExitCurrentTask` | `exit_current_task` + `exit_current` |
| `Stopped` | the halted machine |

Specifications:
- **`Spec` (the API model).** Any kernel code may make these calls. The code's asserts are turned into guards:
  - idle never blocks, sleeps or exits;
  - only users exit;
  - `Task::init` and `run_task` are called on main.
- **`BootSpec` (the boot flow).** It has only the real callers:
  - `RunTestcase` and `MainWaitLoop` (main);
  - `IdleLoop`;
  - `SyscallExit`.

### The other modules

- **`Executor`.**
  - Variables: `queue` is `TASK_QUEUE`; `fstate` says where each future is; `yieldsLeft` counts the `yield_now` awaits a kernel future still makes; `inRunAll` means `run_all` is looping.
  - `Schedule` is the closure: `Push` (back) when `woken_while_running`, otherwise `PushPreempt` (front). `Spawn` is `spawn_user_task`, whose `runnable.schedule()` goes to the front.
  - `RunKernel` is one pass of `run_all` on a kernel future. A pending `YieldFuture` wakes itself while running and goes to the back; otherwise the future finishes. A future in `LoopingFutures` yields for ever, as `run_idle` does.
  - `RunUser` is a poll of `UserTaskFuture`. It stays active until `UserExit`, where `task_loop` sees the zombie flag and breaks. `RunAllReturn` is `fetch` finding the queue empty.
  - The refinement mapping to `ExecutorSpec`: ready is the set of queued runnables, active is the running future, finished is the set of done futures, and draining is `inRunAll`.
- **`FdTable`.**
  - Errors are `-errno`, as `deal_result` returns them. A file is abstracted to its kind: std stream, file or directory.
  - `AllocFd` returns the first `None` slot. If there is none, it returns EMFILE at the limit or pushes a new slot.
  - `Openat` can fail in the path, the allocation or the open. A failed open leaves the pushed `None` slot.
  - `Close` returns EPERM for an fd that is not open. `ReadWrite` checks buffer, fd and directory in the code's order, and the file's own answer is a choice.
- **`Trap`.**
  - CPU state: `mode` (user or supervisor), `stvec` (`__trap_from_user` or `__trap_from_kernel`), `sie` (`sstatus.SIE`), `inKTrap` (inside `riscv_kernel_trap_handler`). Trap-frame state: `sepcOff` (`tf.sepc` relative to the trapping instruction) and `a0`. `pc` says where the task is in `task_entry`'s loop.
  - `Init` is the state `task_entry` starts in: the `RUN_QUEUE` `SpinNoIrq` guard taken by the switch is still held (`force_unlock` drops the lock, not the IRQ state), so IRQs are off, and `init_interrupt` has set the kernel entry.
  - `SetUserEntry`, `DisableBeforeReturn`, `ReturnToUser` are the three steps of `riscv_trap_return` (mod.rs 76-89). `UserTrap(c)` is the hardware: IRQs off, jump to `stvec`.
  - `Handle` is `riscv_trap_handler` up to the syscall: `set_kernel_trap_entry`, then breakpoint (`sepc += 2`), interrupt, ecall (IRQs on, `sepc += 4`), page fault (`HandlePageFault`: `handle_page_fault` maps the page or panics), other (panic). `Syscall` is `handle_syscall` with `deal_result` written into `a0`: `exit` (the fd table cleared, the task gone) or a file syscall of `FdTable`. `SyscallDisable` is the `disable_irqs` after it.
  - `KernelIrq`/`KernelIrqReturn` are an interrupt taken in kernel code with IRQs on and the return from `riscv_kernel_trap_handler`; `handle_irq` itself is not in the repository.
- **`Scheduling` and the refinement.** `RunQueue` maps to it with `st` as `state`, `running` as `CurrentTask`, and the machine up while `halted = "no"`. One `RunQueue` step is one `Scheduling` step: a resched that recurses through main and idle ends as one `Switch`; `NotifyAll` is one `Wake` of a set. A panic step is `Stop`, which promises nothing of the state it leaves.
- **`Args`.** `Scan` is one pass of `for pos in 0..len`: a quote flips `in_quote`, and a space outside quotes ends a non-empty argument. `Finish` pushes the last argument. `CommentArgs` is the split the comment at `api.rs:71-72` asks for: the maximal runs of bytes that are not a space preceded by an even number of quotes, each with its quotes removed. `SplitAtUnquotedSpaces` compares the code with it with the quote bytes set aside (where the splits fall); `NoQuoteInArgs` is the comment's other half (no quote byte kept), which the code breaks.

## 3. Runs

| Run | cfg | Expect | Shows |
|---|---|---|---|
| rq_api | `MCRunQueue.cfg` | pass | `OneRunning` (exactly the current task is Running, across the kernel-task recursion), `QueueSound` (the queue holds Ready tasks, each at most once), `BlockedWaitsOnce` (a Blocked task waits in exactly one wait queue or on one alarm), `StacksOwned` (every started user task has its own pool stack, marked used), `PoolSpentAtPanic` (alloc_stack panics only when every pool stack is held by a started task, running or exited: the leak makes the third user task to start panic), `TaskNubCounts` (`task_nub` equals the number of created user tasks not yet exited, so only the last exit halts), `ExitIsFinal` (a zombie never becomes Ready or current again), `ImplementsScheduling` (the run queue refines `Scheduling`; `remove_task` on a Blocked task would break it) |
| rq_lost_task | `MCRunQueue_NoLostTask.cfg` | violation | the pick loop drops a Ready task (finding) |
| rq_refcount_panic | `MCRunQueue_PrevStillHeld.cfg` | violation | `run_task` for a removed task drops main, and the `strong_count` assert in `switch_to` fails (finding) |
| rqa_api | `MCRunQueueAsync.cfg` | pass | the same safety properties for the variant, plus `RunTaskPicks`: `run_task(tid)`, called by the executor's `UserTaskFuture::poll`, switches to a queued task tid wherever it sits in the queue |
| rqa_lost_task | `MCRunQueueAsync_NoLostTask.cfg` | violation | any `resched` with tid 0 rotates the queue and drops its head (finding) |
| rqa_exit_returns | `MCRunQueueAsync_ExitNeverReturns.cfg` | violation | `exit_current` reaches `unreachable!()` because `switch_to` returns (finding) |
| boot_testcases | `MCRunQueue_AllTestcasesRun.cfg` | violation | the first testcase's exit brings `task_nub` to 0 and `exit_current` terminates the machine; the second is never created (finding). The list userboot configures has one testcase; the run uses two, as `JUNIOR_TESTCASES` would |
| exec_api | `MCExecutor.cfg` | pass | `ImplementsExecutorSpec`: the executor refines `ExecutorSpec`, fairness included. `EveryQueuedReachesFront`: while `run_all` loops, every queued runnable reaches the front, next to a future that yields for ever and with spawns going to the front. `QueueMatchesFutures`: across push, push_preempt and fetch, the queue holds each queued future exactly once. |
| trap_api | `MCTrap.cfg` (module `Trap`) | pass | `TrapEntryMatchesMode`: every trap enters through the entry written for its mode, whatever interrupt hits between `set_user_trap_entry`, `disable_irqs`, the ecall's `enable_irqs` and the syscall. `OpenatLowestFree`: a successful `openat` returns the lowest fd that is not open, also after closes and failed opens have left empty slots, and EMFILE only when all `FdLimit` fds are open |
| args_split | `MCArgs.cfg` | pass | `SplitAtUnquotedSpaces`: for every command line of up to 5 bytes over quote, space and one letter, `get_args` splits where the comment says (spaces outside quotes, no empty argument), the quote bytes set aside |
| args_quotes | `MCArgs_NoQuoteInArgs.cfg` | violation | `get_args` keeps the quote bytes in its arguments, against the comment at `api.rs:71` (finding) |

Bounds:
- **Users and wait queues.** Three user tasks and one wait queue in the API run (5,825 states), and in the variant; the boot flow uses two testcases. This is enough for every branch of the pick loop:
  - skip idle;
  - put back a task that is not wanted;
  - meet a seen task, started or not;
  - find the queue empty.
  It is also enough for the kernel-task recursion and for both outcomes of exit.
- **Stack pool.** `KStackNum = 3` gives a scaled-down pool of two user stacks, one fewer than the user tasks, so the `no stack available` panic is reached. The code has `KSTACK_NUM = 10`; the leak does not depend on the size.
- **Symmetry.** Symmetry over the user tasks is used in the safety runs only.
- **Boot flow.** It uses two testcases, the fewest that show the halt.
- **Executor.** Two kernel futures (one yields twice and finishes, one yields for ever) and two user tasks. This covers a yield next to a front-pushed spawn, the endless yielder, and a user poll that blocks the drain.
- **Trap and FdTable.** Every `scause` and every file syscall outcome at every step, with kernel interrupts wherever IRQs are on (413,112 states). `FdLimit = 5` (the code has 1025) with fds 0 to 5. The three std fds leave two free slots, so reuse, the limit and an fd past the table are all reached.
- **Args.** Every line of up to 5 bytes over quote, space and one letter: 364 lines, which include unbalanced quotes and leading, trailing and doubled spaces.

Fairness:
- `BootSpec` assumes weak fairness of main's loop, idle's loop and the user task's exit.
- Main and idle loop forever in `run_testcase` and `run_idle`.
- A testcase program eventually calls exit.
- The API model is checked for safety only; `ImplementsScheduling` is a safety property (no fairness in `SchedSpec`).
- `Trap` is checked for safety only: whether the user program traps again, and when interrupts arrive, is up to the program and the timer.
- `Executor` assumes weak fairness of `run_all`'s loop (it runs until the queue is empty) and of each user task's exit; a looping kernel future is never required to finish.
## 4. Not modelled, and why

- **`preempt_yield`.** `has_been_preempted` is never set under `src`, and `get_max_pri_task_id` is not in the repository.
- **CPU affinity.** On one CPU the mask always admits the task.
- **The gc task.** It is never added to the scheduler, so `gc_entry` never runs.
- **Signals.** `signal_modules` is never filled, so `send_signal_to_thread` always returns `NotFound`.
- **The success branch of `wait_pid`.** Main's children are never filled, so it is unreachable from the boot flow. `WaitPidStatus` still models the unwrap panic. `recycle_user_process` is unreachable for the same reason (it runs only after `wait_pid` returns Ok) and is not modelled; its unwrap of an exited child's entry (`api.rs:35`) and the `TaskId::clear` while user tasks might live (`api.rs:52`) can never be reached. `join` has no caller under `src` and is not modelled; it would return at once for a user task, which has no wait-for-exit queue (`task.rs:407`).
- **Register save and restore.** `trap.S` and `handle_irq` are not in the repository; `Trap` keeps only `sepc` and `a0` of the trap frame. `ctx.rs`'s `Context::store_old`/`load_new` have no caller.
- **Time statistics, page tables and ELF loading.** These are data movement with no effect on the modelled state.
- **What a file does.** `FileIO`, `new_fd`, `new_dir` and the lazy mapping of user buffers belong to code that is not under `src`. `FdTable` makes their answers a choice. The end address `buf.add(count) - 1` for `count = 0` depends on that code and is not checked.
- **Executor composed with a run queue.** `UserTaskFuture::poll` (async2 `future.rs`) calls `run_task`, but `executor.rs` exists only in the `async/async` snapshot, whose run queue has a different pick loop; composing the two would join code that is never built together.
- **`remove_task`** has no caller under `src`. In the API model it marks a Ready task Exited without `tasksub`, so `task_nub` would keep counting it; `TaskNubCounts` counts only exits through `exit_current_task` for this reason.
- **`run_all` called again.** `run_all` and `spawn_user_task` have no caller under `src`, so no driver decides whether a future spawned after `run_all` returns is ever polled.

Observations made while modelling, with no run spent on them because each is one step or plain from reading:
- **`preempt_resched`.** In the variant it is `resched(true, 0)`, the same step as a yield under the FIFO scheduler.
- **`sleep_until` with an already-passed deadline.** It returns without a state change (a stutter).

## 5. Plan for the next sittings

1. `handle_breakpoint`'s `sepc += 2` is right only for `c.ebreak` (mod.rs:93); no property can tell the encodings apart in the model.
2. `wait_pid`, `recycle_user_process` and reparenting, if a caller that fills a task's children (a clone or fork) appears.
