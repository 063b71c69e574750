----------------------------- MODULE Scheduling -----------------------------
(***************************************************************************)
(* What the axtask run queue promises its callers, without its queues,    *)
(* stacks or the pick loop: one task runs; a task is created Ready; only  *)
(* a Ready task is switched to, and the task it replaces becomes Ready,   *)
(* Blocked or Exited; a Blocked task becomes Ready only when it is woken; *)
(* a task is removed only while Ready; and Exited is final. The machine  *)
(* may stop (terminate or panic) in any step, and then nothing changes.   *)
(***************************************************************************)
CONSTANTS Tasks

VARIABLES
    st,         \* each task's TaskState, "Unborn" before it is created
    running,    \* the task on the CPU
    phase       \* "up", or "down" once the machine has stopped

schedVars == <<st, running, phase>>

AbsStates == {"Unborn", "Ready", "Running", "Blocked", "Exited"}

SchedInit ==
    /\ running \in Tasks
    /\ st \in [Tasks -> {"Unborn", "Ready", "Running"}]
    /\ \A t \in Tasks : st[t] = "Running" <=> t = running
    /\ phase = "up"

Create(t) ==
    /\ st[t] = "Unborn"
    /\ st' = [st EXCEPT ![t] = "Ready"]
    /\ UNCHANGED running

\* A notify or an alarm makes some Blocked tasks Ready.
Wake(S) ==
    /\ S # {}
    /\ \A t \in S : st[t] = "Blocked"
    /\ st' = [t \in Tasks |-> IF t \in S THEN "Ready" ELSE st[t]]
    /\ UNCHANGED running

Remove(t) ==
    /\ st[t] = "Ready"
    /\ st' = [st EXCEPT ![t] = "Exited"]
    /\ UNCHANGED running

\* The running task stops (yields, blocks, sleeps or exits) and a Ready
\* task, possibly the same one after a yield, runs.
Switch(next, how) ==
    /\ next = running \/ st[next] = "Ready"
    /\ st' = [st EXCEPT ![running] = how, ![next] = "Running"]
    /\ running' = next

\* The machine stops: what the interrupted step left is not promised.
Stop ==
    /\ phase' = "down"
    /\ st' \in [Tasks -> AbsStates]
    /\ running' \in Tasks

SchedNext ==
    \/ /\ phase = "up"
       /\ \/ \E S \in SUBSET Tasks : Wake(S)
          \/ \E t \in Tasks :
                \/ Create(t) \/ Remove(t)
                \/ \E how \in {"Ready", "Blocked", "Exited"} : Switch(t, how)
       /\ UNCHANGED phase
    \/ phase = "up" /\ Stop

SchedSpec == SchedInit /\ [][SchedNext]_schedVars

=============================================================================
