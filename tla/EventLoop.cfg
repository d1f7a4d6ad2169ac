CONSTANTS
    p1 = p1  p2 = p2
    t1 = t1  t2 = t2  t3 = t3
    Producer <- MCProducer
    Task <- MCTask
    Loop = Loop
    NoTask = NoTask
SPECIFICATION FairSpec
INVARIANTS TypeOK NoLostWakeup NoLostQuit NothingRepeated
PROPERTIES ImplementsExecutor EveryFunctorRuns QuitStopsLoop
CHECK_DEADLOCK FALSE
