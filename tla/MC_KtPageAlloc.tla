--------------------------- MODULE MC_KtPageAlloc ---------------------------
(* Instances of the page allocator for TLC.  A ring request is that of     *)
(* the daemon's kt_ringbuf_create: 128 + 128 one-byte elements asked for, *)
(* filled with 8-byte words (1152 bytes used).                            *)
EXTENDS KtPageAlloc

RingReq     == [req |-> 256, used |-> 1152]

\* A 16 KiB arena: 3 pages; requests of 1, 2 and 3 pages, one not page-sized.
MC_SmallRequests ==
  {RingReq, [req |-> 5000, used |-> 5000], [req |-> 4096, used |-> 4096],
   [req |-> 12288, used |-> 12288]}

\* One request for 220 pages, one more than the 1 MiB arena has room for.
MC_OversizeRequests == {[req |-> 220 * 4096, used |-> 220 * 4096]}

=============================================================================
