CONSTANTS
    NMaxProducers <- MC2_NMaxProducers
    BufferSize <- MC_BufferSize
    MaxSends <- MC2_MaxSends
    ErrorHandlingEnabled = TRUE

SPECIFICATION FairSpec

INVARIANT MessageConservation
INVARIANT FifoHandoff
PROPERTY ImplementsSlotChannel

\* The program ends: mpsc_join returns and the channel is destroyed.
CHECK_DEADLOCK FALSE
