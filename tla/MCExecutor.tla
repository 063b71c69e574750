----------------------------- MODULE MCExecutor -----------------------------
(* Two kernel futures, one of which yields for ever, and two user task     *)
(* futures: enough for a yield to meet a spawn at the front of the queue,  *)
(* a user poll to hold the executor while others wait, and run_all to      *)
(* return and be entered again.                                            *)
EXTENDS Executor

CONSTANTS k1, k2, t1, t2

MCKernelFutures == {k1, k2}
MCLoopingFutures == {k2}
MCUserFutures == {t1, t2}
=============================================================================
