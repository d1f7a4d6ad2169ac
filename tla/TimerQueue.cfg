CONSTANTS
    flush = flush  check = check  retry = retry
    Timer <- ThreeTimers
    Interval <- MCInterval
    Delay <- MCDelay
    NoTimer = NoTimer
SPECIFICATION TimerFairSpec
INVARIANT TimerInv
PROPERTY EveryTimerRuns
