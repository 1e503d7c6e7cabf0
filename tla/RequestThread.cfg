CONSTANT Tasks <- MCTasks
SPECIFICATION FairThreadSpec
INVARIANTS WakeupAccounting Fifo
PROPERTIES ImplementsDispatcher EveryTaskReleased DestructorReturns
CHECK_DEADLOCK FALSE
