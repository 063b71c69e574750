CONSTANTS
    k1 = k1
    k2 = k2
    t1 = t1
    t2 = t2
    KernelFutures <- MCKernelFutures
    LoopingFutures <- MCLoopingFutures
    UserFutures <- MCUserFutures
    MaxYields = 2
SPECIFICATION Spec
INVARIANTS
    TypeOK
    QueueMatchesFutures
PROPERTIES
    ImplementsExecutorSpec
    EveryQueuedReachesFront
