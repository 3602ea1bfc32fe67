------------------------------ MODULE KtRingbuf ------------------------------
(***************************************************************************)
(* kt_ringbuf_enqueue_burst and kt_ringbuf_dequeue_burst                   *)
(* (src/src/kt_ringbuf.c) run by concurrent producer and consumer threads. *)
(* Each call is split at the points where another thread can observe or   *)
(* change the shared counters: the relaxed load of the own head, the      *)
(* acquire load of the other side's tail together with the CAS on the own *)
(* head, the copy of the elements, and the wait for the own tail followed *)
(* by its release store.  The code promises (spec.md 4.2) to be correct   *)
(* for one producer and one consumer and, through the CAS loop, for       *)
(* several; the model checks it against the FIFO of RingFifo.             *)
(***************************************************************************)
EXTENDS Naturals, Sequences, KtRing

CONSTANTS
  Producers,   \* threads calling kt_ringbuf_enqueue_burst
  Consumers,   \* threads calling kt_ringbuf_dequeue_burst
  ProdBurst,   \* the n the producers pass
  ConsBurst,   \* the n the consumers pass
  MaxVal       \* bound: values 1 .. MaxVal are enqueued, each once

ASSUME Producers \cap Consumers = {}
ASSUME ProdBurst \subseteq Nat \ {0} /\ ConsBurst \subseteq Nat \ {0}
ASSUME Zero \notin 1 .. MaxVal

Threads == Producers \cup Consumers

VARIABLES
  ring,      \* the struct kt_ringbuf in shared memory
  pc,        \* where each thread is inside its current call
  want,      \* the n of the current call (max in the move_*_head loops)
  old,       \* old_head of the current call
  cnt,       \* n after move_*_head: the elements claimed by the call
  vals,      \* a producer's obj_table
  nextVal,   \* the next value a producer puts in its obj_table
  received   \* everything each consumer has copied out, in order

vars == <<ring, pc, want, old, cnt, vals, nextVal, received>>

Values == 1 .. MaxVal

Init ==
  /\ ring = RingCreate
  /\ pc = [t \in Threads |-> "idle"]
  /\ want = [t \in Threads |-> 0]
  /\ old = [t \in Threads |-> 0]
  /\ cnt = [t \in Threads |-> 0]
  /\ vals = [p \in Producers |-> <<>>]
  /\ nextVal = 1
  /\ received = [c \in Consumers |-> <<>>]

(* Thread t moves from program point from to program point to. *)
Goto(t, from, to) == pc[t] = from /\ pc' = [pc EXCEPT ![t] = to]

(* The call of thread t returns: its locals go out of scope. *)
Return(t) ==
  /\ want' = [want EXCEPT ![t] = 0]
  /\ old' = [old EXCEPT ![t] = 0]
  /\ cnt' = [cnt EXCEPT ![t] = 0]

------------------------------------------------------------------------------
(* Producer: kt_ringbuf_enqueue_burst(rb, obj_table, 8, n, NULL).           *)

(* Entry and the relaxed load of prod.head (line 69). *)
ProdStart(p) ==
  \E m \in ProdBurst :
    /\ nextVal + m <= MaxVal + 1
    /\ Goto(p, "idle", "move")
    /\ want' = [want EXCEPT ![p] = m]
    /\ vals' = [vals EXCEPT ![p] = [k \in 1 .. m |-> nextVal + k - 1]]
    /\ nextVal' = nextVal + m
    /\ old' = [old EXCEPT ![p] = ring.prodHead]
    /\ UNCHANGED <<ring, cnt, received>>

(* One turn of the do-while loop (lines 70-90): load cons.tail, clamp n,   *)
(* return 0 when nothing fits, else CAS prod.head from old_head; a failed  *)
(* CAS stores the current head in old_head and the loop runs again.       *)
ProdMove(p) ==
  LET k == Clamp(want[p], FreeEntries(old[p], ring.consTail), RB_VARIABLE)
  IN  /\ pc[p] = "move"
      /\ \/ /\ k = 0
            /\ Goto(p, "move", "idle") /\ Return(p)
            /\ vals' = [vals EXCEPT ![p] = <<>>]
            /\ UNCHANGED ring
         \/ /\ k > 0 /\ ring.prodHead = old[p]
            /\ Goto(p, "move", "copy")
            /\ ring' = [ring EXCEPT !.prodHead = U32(old[p] + k)]
            /\ cnt' = [cnt EXCEPT ![p] = k]
            /\ UNCHANGED <<want, old, vals>>
         \/ /\ k > 0 /\ ring.prodHead # old[p]
            /\ old' = [old EXCEPT ![p] = ring.prodHead]
            /\ UNCHANGED <<ring, pc, cnt, want, vals>>
      /\ UNCHANGED <<nextVal, received>>

(* __kt_ringbuf_enqueue_elems (line 158). *)
ProdCopy(p) ==
  /\ Goto(p, "copy", "publish")
  /\ ring' = [ring EXCEPT !.slots = EnqueueElems(ring.slots, old[p], vals[p], cnt[p])]
  /\ UNCHANGED <<want, old, cnt, vals, nextVal, received>>

(* Mutant: the wait for earlier producers (line 161) left out. *)
ProdPublishNoWait(p) ==
  /\ Goto(p, "publish", "idle")
  /\ ring' = [ring EXCEPT !.prodTail = U32(old[p] + cnt[p])]
  /\ Return(p) /\ vals' = [vals EXCEPT ![p] = <<>>]
  /\ UNCHANGED <<nextVal, received>>

(* Mutant: the tail wait compares prod.tail with prod_next instead of prod_head. *)
ProdPublishAtNext(p) ==
  /\ ring.prodTail = U32(old[p] + cnt[p])
  /\ Goto(p, "publish", "idle")
  /\ ring' = [ring EXCEPT !.prodTail = U32(old[p] + cnt[p])]
  /\ Return(p) /\ vals' = [vals EXCEPT ![p] = <<>>]
  /\ UNCHANGED <<nextVal, received>>

(* Spin until prod.tail = prod_head, then store-release prod.tail = prod_next *)
(* (lines 161-164).                                                         *)
ProdPublish(p) ==
  /\ ring.prodTail = old[p]
  /\ Goto(p, "publish", "idle")
  /\ ring' = [ring EXCEPT !.prodTail = U32(old[p] + cnt[p])]
  /\ Return(p) /\ vals' = [vals EXCEPT ![p] = <<>>]
  /\ UNCHANGED <<nextVal, received>>

------------------------------------------------------------------------------
(* Consumer: kt_ringbuf_dequeue_burst(rb, obj_table, 8, n, NULL).           *)

ConsStart(c) ==
  \E m \in ConsBurst :
    /\ Goto(c, "idle", "move")
    /\ want' = [want EXCEPT ![c] = m]
    /\ old' = [old EXCEPT ![c] = ring.consHead]
    /\ UNCHANGED <<ring, cnt, vals, nextVal, received>>

(* __kt_ringbuf_move_cons_head's loop (lines 188-208). *)
ConsMove(c) ==
  LET k == Clamp(want[c], Entries(old[c], ring.prodTail), RB_VARIABLE)
  IN  /\ pc[c] = "move"
      /\ \/ /\ k = 0
            /\ Goto(c, "move", "idle") /\ Return(c)
            /\ UNCHANGED ring
         \/ /\ k > 0 /\ ring.consHead = old[c]
            /\ Goto(c, "move", "copy")
            /\ ring' = [ring EXCEPT !.consHead = U32(old[c] + k)]
            /\ cnt' = [cnt EXCEPT ![c] = k]
            /\ UNCHANGED <<want, old>>
         \/ /\ k > 0 /\ ring.consHead # old[c]
            /\ old' = [old EXCEPT ![c] = ring.consHead]
            /\ UNCHANGED <<ring, pc, cnt, want>>
      /\ UNCHANGED <<vals, nextVal, received>>

(* __kt_ringbuf_dequeue_elems (line 273): the caller's obj_table. *)
ConsCopy(c) ==
  /\ Goto(c, "copy", "publish")
  /\ received' = [received EXCEPT ![c] = @ \o DequeueElems(ring.slots, old[c], cnt[c])]
  /\ UNCHANGED <<ring, want, old, cnt, vals, nextVal>>

(* Spin until cons.tail = cons_head, then store-release cons.tail (276-279). *)
ConsPublish(c) ==
  /\ ring.consTail = old[c]
  /\ Goto(c, "publish", "idle")
  /\ ring' = [ring EXCEPT !.consTail = U32(old[c] + cnt[c])]
  /\ Return(c)
  /\ UNCHANGED <<vals, nextVal, received>>

------------------------------------------------------------------------------
Next ==
  \/ \E p \in Producers : ProdStart(p) \/ ProdMove(p) \/ ProdCopy(p) \/ ProdPublish(p)
  \/ \E c \in Consumers : ConsStart(c) \/ ConsMove(c) \/ ConsCopy(c) \/ ConsPublish(c)

(* A thread inside a call keeps being scheduled; nobody has to call again. *)
Fairness ==
  /\ \A p \in Producers : WF_vars(ProdMove(p)) /\ WF_vars(ProdCopy(p)) /\ WF_vars(ProdPublish(p))
  /\ \A c \in Consumers : WF_vars(ConsMove(c)) /\ WF_vars(ConsCopy(c)) /\ WF_vars(ConsPublish(c))

Spec == Init /\ [][Next]_vars /\ Fairness

------------------------------------------------------------------------------
(* Refinement mapping to RingFifo.  A producer's words join the queue at    *)
(* its successful CAS: until its copy they are read from its obj_table.    *)
(* A consumer takes its words at its successful CAS: until its copy they   *)
(* are the words at the claimed positions.                                 *)

WordAt(q) ==
  LET writers == {p \in Producers : pc[p] = "copy" /\ U32(q - old[p]) < cnt[p]}
  IN  IF writers # {}
        THEN LET p == CHOOSE w \in writers : TRUE IN vals[p][U32(q - old[p]) + 1]
        ELSE ring.slots[MaskOf(q)]

AbsQueue == [k \in 1 .. U32(ring.prodHead - ring.consHead) |-> WordAt(U32(ring.consHead + k - 1))]

AbsReceived ==
  [c \in Consumers |->
     IF pc[c] = "copy"
       THEN received[c] \o [k \in 1 .. cnt[c] |-> ring.slots[MaskOf(U32(old[c] + k - 1))]]
       ELSE received[c]]

Fifo == INSTANCE RingFifo WITH queue <- AbsQueue, received <- AbsReceived

------------------------------------------------------------------------------
(* Properties.                                                              *)

(* The ring behaves as a bounded FIFO for any interleaving of the calls of  *)
(* all threads: every word a consumer copies out of the ring is the next   *)
(* word enqueued, never a stale, overwritten or out-of-bounds slot, and    *)
(* the queue never holds more than capacity words.                         *)
FifoSpec == Fifo!Spec

(* Every enqueue_burst and dequeue_burst call returns: the CAS retries and  *)
(* the spin on the own tail (waiting for the threads that claimed earlier  *)
(* to publish) cannot go on forever.                                       *)
EveryCallReturns == \A t \in Threads : pc[t] # "idle" ~> pc[t] = "idle"

=============================================================================
