CONSTANTS
    NMaxProducers <- MC010_NMaxProducers
    BufferSize <- MC010_BufferSize
    MaxSends <- MC010_MaxSends
    MaxDepth <- MC010_MaxDepth
    ErrorHandlingEnabled = FALSE

SPECIFICATION Spec

INVARIANT ClosedOnlyByConsumerOrJoin

CHECK_DEADLOCK FALSE
