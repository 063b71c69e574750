CONSTANTS
  u1 = u1
  u2 = u2
  u3 = u3
  w1 = w1
  Main = Main
  Idle = Idle
  Users <- MCUsers
  WaitQueues <- MCWaitQueues
SYMMETRY UserSymmetry
SPECIFICATION Spec
INVARIANT NoLostTask
