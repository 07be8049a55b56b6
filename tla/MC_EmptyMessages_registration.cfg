\* empty_messages.c: can a registration of main's loop be refused?
CONSTANTS
    NMaxProducers <- MCE_NMaxProducers
    BufferSize <- MCE_BufferSize
    ErrorHandlingEnabled = FALSE
    MaxSends <- MCE_MaxSends
    MaxIter <- MCE_MaxIter
    MessageThreshold <- MCE_MessageThreshold
SPECIFICATION ExampleSpec
INVARIANT RegistrationsAccepted
\* The process ends: main returns after its assert, or an assert aborts it.
CHECK_DEADLOCK FALSE
