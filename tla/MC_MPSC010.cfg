CONSTANTS
    NMaxProducers <- MC010_NMaxProducers
    BufferSize <- MC010_BufferSize
    MaxSends <- MC010_MaxSends
    MaxDepth <- MC010_MaxDepth
    ErrorHandlingEnabled = TRUE

SPECIFICATION FairSpec

INVARIANT TypeOK
PROPERTY ImplementsSlotChannel010
PROPERTY JoinReturns010

\* The program ends: mpsc_join returns and the channel is destroyed.
CHECK_DEADLOCK FALSE
