----------------------------- MODULE MCRunQueue -----------------------------
(* RunQueue instantiated for TLC: three user tasks and one wait queue for*)
(* the API model, two testcases for the boot flow.                        *)
EXTENDS RunQueue, TLC

CONSTANTS u1, u2, u3, w1

MCUsers == {u1, u2, u3}
MCTestcases == {u1, u2}
MCWaitQueues == {w1}

UserSymmetry == Permutations(MCUsers)
=============================================================================
