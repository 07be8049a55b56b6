CONSTANTS
    NMaxProducers <- MCC_NMaxProducers

SPECIFICATION FairSpec

INVARIANT TypeOK
INVARIANT ReleasesExactlyWhatItHolds

\* mpsc_create returns, or the process ends.
CHECK_DEADLOCK FALSE
