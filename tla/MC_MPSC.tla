------------------------------- MODULE MC_MPSC -------------------------------
(* Small instances of MPSC for TLC.                                         *)
EXTENDS MPSC

\* Abort policy: three producer slots, one send each, payloads of 0 or 1 byte.
MC_NMaxProducers == 3
MC_BufferSize == 1
MC_MaxSends == 1
\* Two producer slots, two sends each: a producer re-enters send.
MC2_NMaxProducers == 2
MC2_MaxSends == 2
=============================================================================
