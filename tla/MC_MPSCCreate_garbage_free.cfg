CONSTANTS
    NMaxProducers <- MCC_NMaxProducers

SPECIFICATION FairSpec

INVARIANT NoInvalidFree

\* mpsc_create returns, or the process ends.
CHECK_DEADLOCK FALSE
