------------------------------ MODULE RingFifo ------------------------------
(***************************************************************************)
(* What kt_ringbuf promises its callers (spec.md 4.2): a bounded FIFO of   *)
(* 64-bit words; an enqueue burst appends up to Capacity - Len(queue)      *)
(* words, a dequeue burst hands the oldest words to one consumer, in       *)
(* order, and nothing is lost, duplicated or altered on the way.           *)
(***************************************************************************)
EXTENDS Naturals, Sequences

CONSTANTS Capacity, Consumers, Values

VARIABLES
  queue,     \* the words enqueued and not yet claimed by a consumer
  received   \* received[c]: every word consumer c has dequeued, in order

vars == <<queue, received>>

Init ==
  /\ queue = <<>>
  /\ received = [c \in Consumers |-> <<>>]

(* An enqueue burst: some new words, all of them Values, appended to the   *)
(* tail without passing the capacity.                                      *)
Enqueue ==
  /\ Len(queue) < Len(queue') /\ Len(queue') <= Capacity
  /\ SubSeq(queue', 1, Len(queue)) = queue
  /\ \A i \in Len(queue) + 1 .. Len(queue') : queue'[i] \in Values
  /\ UNCHANGED received

(* A dequeue burst of k words by consumer c. *)
Dequeue(c) ==
  \E k \in 1 .. Len(queue) :
    /\ queue' = SubSeq(queue, k + 1, Len(queue))
    /\ received' = [received EXCEPT ![c] = @ \o SubSeq(queue, 1, k)]

Next == Enqueue \/ \E c \in Consumers : Dequeue(c)

Spec == Init /\ [][Next]_vars

=============================================================================
