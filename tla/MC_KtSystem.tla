----------------------------- MODULE MC_KtSystem -----------------------------
(* KtSystem with rings of 4 slots, hence 3 pool indices: enough for the   *)
(* tx ring, the free ring and the heap to each hold several at once, for  *)
(* the heap to need a sift, and for the sender's burst of 8 to cross the  *)
(* end of the tx ring's array.  Counters wrap at 8, so positions wrap too.*)
EXTENDS KtSystem

MC_Size == 4
MC_CounterMod == 8
MC_TxTimes == 1 .. 3
=============================================================================
