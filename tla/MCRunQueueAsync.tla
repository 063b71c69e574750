--------------------------- MODULE MCRunQueueAsync ---------------------------
(* RunQueueAsync instantiated for TLC: three user tasks, one wait queue.    *)
EXTENDS RunQueueAsync, TLC

CONSTANTS u1, u2, u3, w1

MCUsers == {u1, u2, u3}
MCWaitQueues == {w1}

UserSymmetry == Permutations(MCUsers)
=============================================================================
