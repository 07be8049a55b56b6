CONSTANTS
    NMaxProducers <- MC_NMaxProducers
    BufferSize <- MC_BufferSize
    MaxSends <- MC_MaxSends
    ErrorHandlingEnabled = FALSE

SPECIFICATION FairSpec

PROPERTY NoRegistrationAfterJoin

\* The program ends: mpsc_join returns and the channel is destroyed.
CHECK_DEADLOCK FALSE
