------------------------------- MODULE Trap -------------------------------
(***************************************************************************)
(* One user task's trap loop on RISC-V (async2/modules/axtrap/.../mod.rs): *)
(* task_entry's loop of riscv_trap_return and riscv_trap_handler, the      *)
(* kernel trap handler, and the syscalls the handler dispatches, with the  *)
(* file syscalls and exit acting on the task's fd table (FdTable).         *)
(* The hardware part is what RISC-V does on a trap: the CPU enters         *)
(* supervisor mode with interrupts off and jumps to stvec; in user mode    *)
(* supervisor interrupts are always taken. The CPU state kept is the mode, *)
(* stvec, sstatus.SIE and the trap frame's sepc and a0; sepc is kept       *)
(* relative to the instruction that trapped.                               *)
(***************************************************************************)
EXTENDS Integers, Sequences, SequencesExt

CONSTANTS
    FdLimit,    \* fd_manager.get_limit()
    MaxFd       \* largest fd number a syscall is called with

VARIABLES
    fdTable, ret, exited,   \* FdTable's
    mode,       \* privilege mode: "User" or "Kernel"
    stvec,      \* trap vector: "UserEntry" (__trap_from_user) or "KernelEntry"
    sie,        \* sstatus.SIE, supervisor interrupts enabled
    inKTrap,    \* in riscv_kernel_trap_handler, taken from kernel code
    pc,         \* where the task is in its loop
    cause,      \* scause of the last user trap
    sysc,       \* the syscall of the last ecall
    sepcOff,    \* tf.sepc minus the address of the trapping instruction
    a0,         \* tf.regs.a0
    halted      \* "no", or the panic or fault that stopped the CPU

Fd == INSTANCE FdTable

fdVars == <<fdTable, ret, exited>>
cpuVars == <<mode, stvec, sie, inKTrap>>
vars == <<fdVars, cpuVars, pc, cause, sysc, sepcOff, a0, halted>>

Causes == {"Breakpoint", "Interrupt", "UserEnvCall", "PageFault", "Other"}
Syscalls == {"exit", "openat", "close", "read", "write"}

\* task_entry runs with RUN_QUEUE's SpinNoIrq guard still taken across the
\* switch (force_unlock releases the lock, not the IRQ state), so IRQs are
\* off; init_interrupt has set the kernel trap entry.
Init ==
    /\ Fd!Init
    /\ mode = "Kernel"
    /\ stvec = "KernelEntry"
    /\ sie = FALSE
    /\ inKTrap = FALSE
    /\ pc = "Top"
    /\ cause = "none"
    /\ sysc = "none"
    /\ sepcOff = 0
    /\ a0 = 0
    /\ halted = "no"

Kernel(p) == halted = "no" /\ ~inKTrap /\ pc = p

\* riscv_trap_return: set_user_trap_entry(), then disable_irqs().
SetUserEntry ==
    /\ Kernel("Top")
    /\ stvec' = "UserEntry"
    /\ pc' = "DisableIrqs"
    /\ UNCHANGED <<fdVars, mode, sie, inKTrap, cause, sysc, sepcOff, a0, halted>>

DisableBeforeReturn ==
    /\ Kernel("DisableIrqs")
    /\ sie' = FALSE
    /\ pc' = "Return"
    /\ UNCHANGED <<fdVars, mode, stvec, inKTrap, cause, sysc, sepcOff, a0, halted>>

\* __return_to_user: sret to the user program at tf.sepc.
ReturnToUser ==
    /\ Kernel("Return")
    /\ mode' = "User"
    /\ pc' = "User"
    /\ UNCHANGED <<fdVars, stvec, sie, inKTrap, cause, sysc, sepcOff, a0, halted>>

\* A trap from user mode: the hardware turns IRQs off and jumps to stvec.
\* Entering __trap_from_kernel with the user's registers is a fault.
UserTrap(c) ==
    /\ halted = "no"
    /\ pc = "User"
    /\ mode' = "Kernel"
    /\ sie' = FALSE
    /\ IF stvec = "UserEntry"
       THEN /\ pc' = "Handler"
            /\ cause' = c
            /\ sepcOff' = 0
            /\ UNCHANGED halted
       ELSE /\ halted' = "wrongEntry"
            /\ UNCHANGED <<pc, cause, sepcOff>>
    /\ UNCHANGED <<fdVars, stvec, inKTrap, sysc, a0>>

\* tf.sepc += 4: ecall is a 4-byte instruction.
EcallLen == 4

\* Mutant: riscv_trap_handler without its set_kernel_trap_entry() call.
SetKernelTrapEntryMissing == stvec

\* set_kernel_trap_entry()
SetKernelTrapEntry == "KernelEntry"

\* handle_page_fault: the memory set maps the page (then the TLB is
\* flushed and the task resumes at the same instruction), or the kernel
\* panics "handle page fault failed".
HandlePageFault ==
  \/ pc' = "Top" /\ UNCHANGED halted
  \/ halted' = "pageFault" /\ UNCHANGED pc

\* riscv_trap_handler, up to the syscall: the kernel trap entry is set,
\* then by scause: a breakpoint skips a 2-byte c.ebreak; an interrupt goes
\* to handle_irq; an ecall enables IRQs and skips the 4-byte ecall; a page
\* fault is handled or panics; anything else panics.
Handle ==
    /\ Kernel("Handler")
    /\ stvec' = SetKernelTrapEntry
    /\ CASE cause = "Breakpoint" ->
                /\ sepcOff' = sepcOff + 2
                /\ pc' = "Top"
                /\ UNCHANGED <<sie, halted>>
         [] cause = "Interrupt" ->
                /\ pc' = "Top"
                /\ UNCHANGED <<sie, sepcOff, halted>>
         [] cause = "UserEnvCall" ->
                /\ sie' = TRUE
                /\ sepcOff' = sepcOff + EcallLen
                /\ pc' = "Syscall"
                /\ UNCHANGED halted
         [] cause = "PageFault" ->
                /\ HandlePageFault
                /\ UNCHANGED <<sie, sepcOff>>
         [] OTHER ->
                /\ halted' = "unhandledTrap"
                /\ UNCHANGED <<sie, sepcOff, pc>>
    /\ UNCHANGED <<fdVars, mode, inKTrap, cause, sysc, a0>>

\* task_syscall: EXIT is syscall_exit, and exit_current_task clears the fd
\* table and switches away for good.
TaskSyscall ==
    /\ Fd!Exit
    /\ sysc' = "exit"
    /\ pc' = "Exited"
    /\ UNCHANGED a0

\* fs_syscall: OPENAT, CLOSE, READ, WRITE on the fd table.
FsSyscall ==
    \/ \E kind \in {"File", "Dir"}, pathOk, openOk \in BOOLEAN :
          /\ Fd!Openat(kind, pathOk, openOk)
          /\ sysc' = "openat"
    \/ \E fd \in 0..MaxFd : Fd!Close(fd) /\ sysc' = "close"
    \/ \E fd \in 0..MaxFd, isWrite, bufOk \in BOOLEAN,
          fileRet \in {1, Fd!EPIPE, Fd!EAGAIN, Fd!EINVAL, Fd!EPERM} :
          /\ Fd!ReadWrite(fd, isWrite, bufOk, fileRet)
          /\ sysc' = IF isWrite THEN "write" ELSE "read"

\* handle_syscall(a7, args) dispatches; deal_result's value (the fd or
\* length, or -errno) is written to tf.regs.a0.
Syscall ==
    /\ Kernel("Syscall")
    /\ \/ TaskSyscall
       \/ FsSyscall /\ a0' = ret' /\ pc' = "SyscallDone"
    /\ UNCHANGED <<cpuVars, cause, sepcOff, halted>>

\* Mutant: disable_irqs() after the syscall left out.
AfterSyscallIrqsOn == sie

\* axhal::arch::disable_irqs() after handle_syscall.
AfterSyscallIrqs == FALSE

\* The rest of the ecall branch, then task.set_tf(tf) and the loop.
SyscallDisable ==
    /\ Kernel("SyscallDone")
    /\ sie' = AfterSyscallIrqs
    /\ pc' = "Top"
    /\ UNCHANGED <<fdVars, mode, stvec, inKTrap, cause, sysc, sepcOff, a0, halted>>

\* An interrupt taken in kernel code with IRQs on: the hardware turns
\* them off and jumps to stvec; __trap_from_user entered from the kernel
\* is a fault, __trap_from_kernel calls riscv_kernel_trap_handler, which
\* hands the interrupt to handle_irq.
KernelIrq ==
    /\ halted = "no"
    /\ mode = "Kernel"
    /\ sie
    /\ ~inKTrap
    /\ pc # "Exited"
    /\ sie' = FALSE
    /\ IF stvec = "KernelEntry"
       THEN inKTrap' = TRUE /\ UNCHANGED halted
       ELSE halted' = "wrongEntry" /\ UNCHANGED inKTrap
    /\ UNCHANGED <<fdVars, mode, stvec, pc, cause, sysc, sepcOff, a0>>

\* riscv_kernel_trap_handler returns; sret restores SIE.
KernelIrqReturn ==
    /\ inKTrap
    /\ inKTrap' = FALSE
    /\ sie' = TRUE
    /\ UNCHANGED <<fdVars, mode, stvec, pc, cause, sysc, sepcOff, a0, halted>>

Next ==
    \/ SetUserEntry \/ DisableBeforeReturn \/ ReturnToUser
    \/ \E c \in Causes : UserTrap(c)
    \/ Handle \/ Syscall \/ SyscallDisable
    \/ KernelIrq \/ KernelIrqReturn

Spec == Init /\ [][Next]_vars

-----------------------------------------------------------------------------
TypeOK ==
    /\ Fd!TypeOK
    /\ mode \in {"User", "Kernel"}
    /\ stvec \in {"UserEntry", "KernelEntry"}
    /\ sie \in BOOLEAN
    /\ inKTrap \in BOOLEAN
    /\ cause \in Causes \cup {"none"}
    /\ sysc \in Syscalls \cup {"none"}
    /\ sepcOff \in {0, 2, 4}
    /\ a0 \in Int

\* Every trap goes through the entry written for the mode it comes from:
\* in user mode stvec is __trap_from_user, and whenever kernel code runs
\* with IRQs on it is __trap_from_kernel. riscv_trap_return switches stvec
\* to the user entry before it turns IRQs off, and the ecall branch turns
\* them on for the syscall, so the order of these steps decides it.
TrapEntryMatchesMode ==
    /\ mode = "User" => stvec = "UserEntry"
    /\ (mode = "Kernel" /\ sie /\ ~inKTrap) => stvec = "KernelEntry"
    /\ halted # "wrongEntry"

\* openat returns the lowest fd that is not open (FdTable).
OpenatLowestFree == Fd!OpenatLowestFree

=============================================================================
