\* empty_messages.c on two producers: main's final assert, the header
\* comment's claim on deliveries after close, and termination.
CONSTANTS
    NMaxProducers <- MCE_NMaxProducers
    BufferSize <- MCE_BufferSize
    ErrorHandlingEnabled = FALSE
    MaxSends <- MCE_MaxSends
    MaxIter <- MCE_MaxIter
    MessageThreshold <- MCE_MessageThreshold
SPECIFICATION ExampleSpec
INVARIANT ExampleTypeOK
INVARIANT TotalMatchesConsumerCount
INVARIANT AtMostOneAfterClose
PROPERTY ExampleTerminates
\* The process ends: main returns after its assert, or an assert aborts it.
CHECK_DEADLOCK FALSE
