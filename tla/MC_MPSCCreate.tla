---------------------------- MODULE MC_MPSCCreate ----------------------------
(* mpsc_create for TLC, with n_max_producers up to 2.                     *)
EXTENDS MPSCCreate

\* Two producer condition variables: a failure at index 0 and at index 1.
MCC_NMaxProducers == 2

=============================================================================
