CONSTANTS
    NMaxProducers <- MC_NMaxProducers
    BufferSize <- MC_BufferSize
    MaxSends <- MC_MaxSends
    ErrorHandlingEnabled = TRUE

SPECIFICATION FairSpec

INVARIANT NoStrandedWaiter
