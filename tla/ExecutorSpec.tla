---------------------------- MODULE ExecutorSpec ----------------------------
(***************************************************************************)
(* What the axtask executor promises, without its queue: a spawned future  *)
(* is ready until it is polled; a poll either finishes it or leaves it     *)
(* ready again (a yield); a user task's poll lasts until the task exits;   *)
(* one future is polled at a time, only during a drain; and a drain ends   *)
(* only when nothing is ready or being polled.                             *)
(***************************************************************************)
CONSTANTS
    Futures,     \* every future that may be spawned
    UserFutures  \* the ones wrapping a user task's task_loop

VARIABLES
    ready,       \* futures spawned and waiting for a poll
    active,      \* the future being polled, as a set of at most one
    finished,    \* futures whose poll returned Ready
    draining     \* an executor drain is in progress

absVars == <<ready, active, finished, draining>>

Spawned == ready \cup active \cup finished

AbsInit ==
    /\ ready = {}
    /\ active = {}
    /\ finished = {}
    /\ draining = FALSE

AbsSpawn(f) ==
    /\ f \notin Spawned
    /\ ready' = ready \cup {f}
    /\ UNCHANGED <<active, finished, draining>>

AbsStartDrain ==
    /\ ~draining
    /\ draining' = TRUE
    /\ UNCHANGED <<ready, active, finished>>

\* A poll that returns: the future yields (stays ready) or finishes.
AbsPoll(f) ==
    /\ draining
    /\ active = {}
    /\ f \in ready \ UserFutures
    /\ \/ UNCHANGED <<ready, finished>>
       \/ /\ ready' = ready \ {f}
          /\ finished' = finished \cup {f}
    /\ UNCHANGED <<active, draining>>

\* A user task's poll starts, and ends when the task exits.
AbsEnterUser(f) ==
    /\ draining
    /\ active = {}
    /\ f \in ready \cap UserFutures
    /\ ready' = ready \ {f}
    /\ active' = {f}
    /\ UNCHANGED <<finished, draining>>

AbsLeaveUser(f) ==
    /\ active = {f}
    /\ active' = {}
    /\ finished' = finished \cup {f}
    /\ UNCHANGED <<ready, draining>>

AbsEndDrain ==
    /\ draining
    /\ ready = {}
    /\ active = {}
    /\ draining' = FALSE
    /\ UNCHANGED <<ready, active, finished>>

AbsNext ==
    \/ \E f \in Futures :
        AbsSpawn(f) \/ AbsPoll(f) \/ AbsEnterUser(f) \/ AbsLeaveUser(f)
    \/ AbsStartDrain
    \/ AbsEndDrain

\* While a drain runs, a ready user task is eventually entered and a user
\* task eventually exits; a drain ends once there is nothing left. A kernel
\* future may yield for ever, so finishing one is not promised.
AbsSpec ==
    /\ AbsInit
    /\ [][AbsNext]_absVars
    /\ \A f \in Futures :
        /\ WF_absVars(AbsEnterUser(f))
        /\ WF_absVars(AbsLeaveUser(f))
    /\ WF_absVars(AbsEndDrain)

=============================================================================
