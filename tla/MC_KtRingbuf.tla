---------------------------- MODULE MC_KtRingbuf ----------------------------
(***************************************************************************)
(* Model-checking instance of KtRingbuf.  A ring of 4 slots (capacity 3)   *)
(* with 2-bit counters, so that head and tail wrap around the counter     *)
(* width, and around the ring, every 4 words.                              *)
(***************************************************************************)
EXTENDS KtRingbuf

MC_Size       == 4
MC_CounterMod == 4

=============================================================================
