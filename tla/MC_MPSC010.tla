------------------------------ MODULE MC_MPSC010 ------------------------------
(* Small instances of the earlier revision MPSC010 for TLC.                *)
EXTENDS MPSC010

\* Two producers: one task can return before main registers the other.
MC010_NMaxProducers == 2
MC010_BufferSize == 1
MC010_MaxSends == 1
\* Deep enough for the busy retry to recurse twice.
MC010_MaxDepth == 3

=============================================================================
