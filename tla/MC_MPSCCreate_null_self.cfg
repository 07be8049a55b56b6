CONSTANTS
    NMaxProducers <- MCC_NMaxProducers

SPECIFICATION FairSpec

INVARIANT NullSelfNotDereferenced

\* mpsc_create returns, or the process ends.
CHECK_DEADLOCK FALSE
