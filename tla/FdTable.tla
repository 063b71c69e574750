------------------------------ MODULE FdTable ------------------------------
(***************************************************************************)
(* The file-descriptor table of a user task (Task::fd_manager.fd_table,    *)
(* syncwz/modules/axtask/src/task.rs) and the file syscalls that use it    *)
(* (syncwz/api/linux_syscall_api/src/syscall_fs/imp/io.rs). The table is a *)
(* Vec<Option<Arc<dyn FileIO>>>; an entry is abstracted to the kind of     *)
(* file it holds. A task runs one syscall at a time and the table is held  *)
(* locked through it, so each syscall is one step. What the file system   *)
(* answers (path lookup, lazy mapping of the user buffer, opening, reading *)
(* and writing) is a nondeterministic choice. Trap composes these actions *)
(* as the syscalls its trap handler dispatches.                            *)
(***************************************************************************)
EXTENDS Integers, Sequences, SequencesExt

CONSTANTS
    FdLimit,    \* fd_manager.get_limit() (FD_LIMIT_ORIGIN = 1025 in the code)
    MaxFd       \* largest fd number a syscall is called with

None == "None"
Kinds == {"Std", "File", "Dir"}   \* Stdin/Stdout/Stderr, a file, a directory
\* deal_result returns -errno for a SyscallError (axerrno::LinuxError).
EPERM == -1
ENOENT == -2
EBADF == -9
EAGAIN == -11
EFAULT == -14
EISDIR == -21
EINVAL == -22
EMFILE == -24
EPIPE == -32
Errors == {EPERM, ENOENT, EBADF, EAGAIN, EFAULT, EISDIR, EINVAL, EMFILE, EPIPE}

VARIABLES
    fdTable,    \* fd_table, index i + 1 holds fd i
    ret,        \* what the last syscall returned to the user: an fd, a length or -errno
    exited      \* exit_current_task has cleared the table

vars == <<fdTable, ret, exited>>

\* Task::init: stdin, stdout and stderr at fds 0, 1 and 2.
Init ==
    /\ fdTable = <<"Std", "Std", "Std">>
    /\ ret = 0
    /\ exited = FALSE

IsOpen(fd) == fd < Len(fdTable) /\ fdTable[fd + 1] # None

FreeSlots(t) == {i \in 1..Len(t) : t[i] = None}

\* Mutant: the limit test off by one.
AllocFdOverLimit(t) ==
    IF FreeSlots(t) # {} THEN <<t, Min(FreeSlots(t)) - 1>>
    ELSE IF Len(t) > FdLimit THEN <<t, EMFILE>>
    ELSE <<Append(t, None), Len(t)>>

\* Mutant: a new slot always pushed, free slots never reused.
AllocFdNoReuse(t) ==
    IF Len(t) >= FdLimit THEN <<t, EMFILE>>
    ELSE <<Append(t, None), Len(t)>>

\* Task::alloc_fd: the first None slot; else, below the limit, push a None
\* and return its index. Returns the table and the fd or EMFILE.
AllocFd(t) ==
    IF FreeSlots(t) # {} THEN <<t, Min(FreeSlots(t)) - 1>>
    ELSE IF Len(t) >= FdLimit THEN <<t, EMFILE>>
    ELSE <<Append(t, None), Len(t)>>

\* syscall_openat: deal_with_path may fail (EINVAL); then alloc_fd
\* (EMFILE); then new_dir or new_fd, which may fail (ENOENT) and leave the
\* slot alloc_fd pushed as None.
Openat(kind, pathOk, openOk) ==
    /\ ~exited
    /\ IF ~pathOk
       THEN /\ ret' = EINVAL
            /\ UNCHANGED fdTable
       ELSE LET a == AllocFd(fdTable) IN
            IF a[2] = EMFILE
            THEN /\ ret' = EMFILE
                 /\ UNCHANGED fdTable
            ELSE IF openOk
                 THEN /\ fdTable' = [a[1] EXCEPT ![a[2] + 1] = kind]
                      /\ ret' = a[2]
                 ELSE /\ fdTable' = a[1]
                      /\ ret' = ENOENT
    /\ UNCHANGED exited

\* syscall_close: EPERM when fd is out of range or not open.
Close(fd) ==
    /\ ~exited
    /\ IF IsOpen(fd)
       THEN /\ fdTable' = [fdTable EXCEPT ![fd + 1] = None]
            /\ ret' = 0
       ELSE /\ ret' = EPERM
            /\ UNCHANGED fdTable
    /\ UNCHANGED exited

\* syscall_read and syscall_write: a null buffer or a buffer that cannot be
\* mapped is EFAULT, an fd that is not open EBADF; a directory is EISDIR for
\* read and EBADF for write; otherwise the file answers with a length or an
\* error.
ReadWrite(fd, isWrite, bufOk, fileRet) ==
    /\ ~exited
    /\ ret' = CASE ~bufOk -> EFAULT
                [] ~IsOpen(fd) -> EBADF
                [] fdTable[fd + 1] = "Dir" -> IF isWrite THEN EBADF ELSE EISDIR
                [] OTHER -> fileRet
    /\ fileRet \in IF isWrite THEN {1, EPIPE, EAGAIN, EINVAL, EPERM}
                              ELSE {1, EAGAIN, EINVAL, EPERM}
    /\ UNCHANGED <<fdTable, exited>>

\* exit_current_task: fd_table.lock().clear()
Exit ==
    /\ ~exited
    /\ fdTable' = <<>>
    /\ exited' = TRUE
    /\ UNCHANGED ret

-----------------------------------------------------------------------------
TypeOK ==
    /\ Len(fdTable) <= FdLimit
    /\ \A i \in 1..Len(fdTable) : fdTable[i] \in Kinds \cup {None}
    /\ ret \in Int
    /\ exited \in BOOLEAN

\* openat gives the lowest-numbered descriptor that is not open, as POSIX
\* requires, also after failed opens have left empty slots behind; and it
\* reports EMFILE only when all FdLimit descriptors are open.
OpenatLowestFree ==
    [][\A kind \in {"File", "Dir"} :
        Openat(kind, TRUE, TRUE) =>
            IF \E fd \in 0..(FdLimit - 1) : ~IsOpen(fd)
            THEN ret' = Min({fd \in 0..(FdLimit - 1) : ~IsOpen(fd)})
            ELSE ret' = EMFILE]_vars

=============================================================================
