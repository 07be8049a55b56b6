CONSTANTS
    NMaxProducers <- MC_NMaxProducers
    BufferSize <- MC_BufferSize
    MaxSends <- MC_MaxSends
    ErrorHandlingEnabled = FALSE

SPECIFICATION FairSpec

INVARIANT TypeOK
INVARIANT WaitQueueConsistent
INVARIANT NoStrandedWaiter
INVARIANT MessageConservation
INVARIANT FifoHandoff
INVARIANT TerminalAfterDrain
PROPERTY NoAcceptAfterClose
PROPERTY JoinReturns
PROPERTY ImplementsSlotChannel
PROPERTY JoinLoopCountStable

\* The program ends: mpsc_join returns and the channel is destroyed.
CHECK_DEADLOCK FALSE
