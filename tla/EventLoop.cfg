\* Two foreign threads and the loop thread itself hand over three functors.
SPECIFICATION PromptSpec
CONSTANTS
    t1 = t1
    t2 = t2
    a = a
    b = b
    c = c
    Threads <- MCThreads
    Tasks <- MCTasks
INVARIANTS
    TypeOK
    ExactlyOnceInOrder
    NoLostWakeup
PROPERTIES
    ImplementsTaskExecutor
    PromptExecution
    EveryTaskRunsOrLoopExits
    StopIsObeyed
\* After loop() has returned and every functor was handed over nothing is left to do.
CHECK_DEADLOCK FALSE
