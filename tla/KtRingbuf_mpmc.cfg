\* Two producers and two consumers, bursts of one word: the shape of the
\* free ring (the sender returns one index, the shim claims one index),
\* with a second thread on each side for the CAS loop's multi-writer case.
\* Four words pass a 4-slot ring (capacity 3) with 2-bit counters: a slot is
\* reused and the counters wrap.  FifoSpec is the refinement to RingFifo;
\* EveryCallReturns the liveness of the CAS loops and tail spin-waits.
CONSTANTS
  Size <- MC_Size
  CounterMod <- MC_CounterMod
  Zero = 0
  Producers = {p1, p2}
  Consumers = {c1, c2}
  ProdBurst = {1}
  ConsBurst = {1}
  MaxVal = 4

SPECIFICATION Spec
PROPERTIES FifoSpec EveryCallReturns
