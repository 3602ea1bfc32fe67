------------------------------- MODULE KtRing -------------------------------
(***************************************************************************)
(* The bounded ring kt_ringbuf of src/src/kt_ringbuf.c, specialised to     *)
(* 8-byte elements (the only element size the code implements).  This     *)
(* module holds the ring's state as a record and the pure operators the   *)
(* code's static helpers compute; KtRingbuf runs them as concurrent       *)
(* threads and KtSystem uses them as the shim's and the sender's ring     *)
(* operations.                                                             *)
(*                                                                         *)
(* The head/tail counters are u32; their arithmetic is taken modulo       *)
(* CounterMod, a power of two that Size divides (2^32 in the build; a     *)
(* smaller power of two in the models so that the counters wrap).         *)
(***************************************************************************)
EXTENDS Naturals, Sequences, Bitwise

CONSTANTS
  Size,        \* count passed to kt_ringbuf_create: the number of slots
  CounterMod,  \* 2^w for the w-bit head/tail counters
  Zero         \* the content of a slot never written (shm pages are zeroed)

ASSUME Size \in Nat \ {0, 1}
ASSUME CounterMod \in Nat /\ CounterMod % Size = 0

(* kt_ringbuf_create: mask = count - 1, capacity = mask. *)
Mask     == Size - 1
Capacity == Mask

(* x & mask for every head or tail value and offset the ring computes,   *)
(* tabulated once (a constant definition) since Bitwise's & recurses.    *)
MaskTable == [x \in 0 .. CounterMod + Size |-> x & Mask]

MaskOf(x) == MaskTable[x]

(* u32 wrap-around of a head/tail expression. *)
U32(x) == x % CounterMod

(* KT_RB_BEHAVIOR_FIXED / KT_RB_BEHAVIOR_VARIABLE. *)
RB_FIXED    == "FIXED"
RB_VARIABLE == "VARIABLE"

(***************************************************************************)
(* The data array ring = (u64 * )(rb + 1).  The wrap-around branch of the  *)
(* copy loops runs its first loop for all n elements, so it indexes       *)
(* ring[size] .. ring[idx + n - 1]: the slots Size .. 2*Size-3 stand for   *)
(* the words after the array, in the same page and never written by any   *)
(* other code.                                                             *)
(***************************************************************************)
SlotIdx == 0 .. (2 * Size - 3)

(* kt_ringbuf_create: every counter 0, every slot still zero. *)
RingCreate ==
  [ slots    |-> [j \in SlotIdx |-> Zero],
    prodHead |-> 0, prodTail |-> 0,
    consHead |-> 0, consTail |-> 0 ]

RingType(Vals) ==
  [ slots: [SlotIdx -> Vals \cup {Zero}],
    prodHead: 0 .. CounterMod - 1, prodTail: 0 .. CounterMod - 1,
    consHead: 0 .. CounterMod - 1, consTail: 0 .. CounterMod - 1 ]

(* n clamped to what is available: step 4 of both move_*_head helpers. *)
Clamp(n, avail, behavior) ==
  IF n > avail THEN (IF behavior = RB_FIXED THEN 0 ELSE avail) ELSE n

(* __kt_ringbuf_move_prod_head: free_entries = capacity - (old_head - cons_tail). *)
FreeEntries(oldHead, consTail) == U32(Capacity - U32(oldHead - consTail))

(* __kt_ringbuf_move_cons_head: entries = prod_tail - old_head. *)
Entries(oldHead, prodTail) == U32(prodTail - oldHead)

(***************************************************************************)
(* __kt_ringbuf_enqueue_elems: idx = prod_head & mask; both branches store *)
(* src[i] into ring[idx + i] for i < n, the wrap-around branch included    *)
(* (its first loop runs to n, so its second loop never runs).              *)
(***************************************************************************)
EnqueueElems(slots, prodHead, vals, n) ==
  LET idx == MaskOf(prodHead)
  IN  [j \in SlotIdx |-> IF idx <= j /\ j < idx + n THEN vals[j - idx + 1]
                                                     ELSE slots[j]]

(* __kt_ringbuf_dequeue_elems: dst[i] = ring[idx + i], idx = cons_head & (size-1). *)
DequeueElems(slots, consHead, n) ==
  LET idx == MaskOf(consHead)
  IN  [i \in 1 .. n |-> slots[idx + i - 1]]

(***************************************************************************)
(* A whole kt_ringbuf_enqueue_burst / kt_ringbuf_dequeue_burst call as one *)
(* step, for a ring with one producer and one consumer: move the head,    *)
(* copy, publish the tail.  EnqCount / DeqCount are the calls' results.    *)
(***************************************************************************)
EnqCount(r, n) == Clamp(n, FreeEntries(r.prodHead, r.consTail), RB_VARIABLE)

RingEnqueue(r, vals, n) ==
  LET k == EnqCount(r, n)
  IN  IF k = 0 THEN r
      ELSE [r EXCEPT !.slots    = EnqueueElems(r.slots, r.prodHead, vals, k),
                     !.prodHead = U32(r.prodHead + k),
                     !.prodTail = U32(r.prodHead + k)]

DeqCount(r, n) == Clamp(n, Entries(r.consHead, r.prodTail), RB_VARIABLE)

RingDequeued(r, n) == DequeueElems(r.slots, r.consHead, DeqCount(r, n))

RingDequeue(r, n) ==
  LET k == DeqCount(r, n)
  IN  [r EXCEPT !.consHead = U32(r.consHead + k),
                !.consTail = U32(r.consHead + k)]

(* What the ring holds: the published elements from cons.tail to prod.tail, *)
(* each at its position modulo Size.                                       *)
Contents(r) ==
  [k \in 1 .. U32(r.prodTail - r.consTail) |-> r.slots[MaskOf(r.consTail + k - 1)]]

=============================================================================
