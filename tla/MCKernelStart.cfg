SPECIFICATION Spec
CONSTANTS
    N = 3
    Sleepers = {2}
    MaxSleep = 1
INVARIANTS CallsAnswered ReadyForInterrupts InterruptsEnded StackArgumentsKept
PROPERTIES SleeperWakes 
CHECK_DEADLOCK FALSE
