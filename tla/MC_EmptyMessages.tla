-------------------------- MODULE MC_EmptyMessages --------------------------
(* A small instance of empty_messages.c for TLC: two producers (the code   *)
(* has four), n_max_iter in 1 .. 2 (the code draws it from 1 .. 15) and a  *)
(* threshold of 2 (the code's is 20).  In the instance the threshold can   *)
(* be reached by one producer alone, by both, or not at all; in the code   *)
(* one producer sends at most 15, so reaching 20 takes two or more, and    *)
(* whether it is reached depends on the draws, as here.                    *)
EXTENDS EmptyMessages

MCE_NMaxProducers == 2
MCE_BufferSize == 0
MCE_MaxIter == 2
MCE_MaxSends == 3
MCE_MessageThreshold == 2
=============================================================================
