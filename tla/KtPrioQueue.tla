----------------------------- MODULE KtPrioQueue -----------------------------
(***************************************************************************)
(* The array-backed binary min-heap kt_prio_queue of src/src/kt_queue.c,   *)
(* as a record [elems, size] and one operator per function.  elems is the *)
(* malloc'd array of Cap nodes [prio, data]; slots at or beyond size keep *)
(* whatever they last held.                                                *)
(***************************************************************************)
EXTENDS Integers

CONSTANTS
  Cap,       \* cap passed to kt_prio_queue_init
  Int64Max,  \* INT64_MAX: larger than every priority the model uses
  NoNode     \* an element of the malloc'd array never written

Slots == 0 .. Cap - 1

(* kt_prio_queue_init: size 0, cap slots of uninitialised memory. *)
PQInit == [elems |-> [i \in Slots |-> NoNode], size |-> 0]

PQType(Prios, Data) ==
  [elems: [Slots -> [prio: Prios \cup {Int64Max}, data: Data] \cup {NoNode}],
   size: 0 .. Cap]

(* kt_prio_queue_is_empty *)
PQIsEmpty(q) == q.size = 0

(* _kt_prio_queue_parent / _left / _right (only used for i > 0 as parent). *)
Parent(i) == (i - 1) \div 2
Left(i)   == 2 * i + 1
Right(i)  == 2 * i + 2

(* _kt_prio_queue_swap on two slots of the array. *)
Swap(e, i, j) == [e EXCEPT ![i] = e[j], ![j] = e[i]]

(* kt_prio_queue_getmin: the priority in slot 0, whatever it holds. *)
PQGetMin(q) == q.elems[0].prio

(* _kt_prio_queue_reorder: sift slot i up while it is smaller than its parent. *)
RECURSIVE SiftUp(_, _)
SiftUp(e, i) ==
  IF i > 0 /\ e[i].prio < e[Parent(i)].prio
    THEN SiftUp(Swap(e, i, Parent(i)), Parent(i))
    ELSE e

(* kt_prio_queue_decrease_key: a larger new value is logged and ignored. *)
PQDecreaseKey(q, i, new) ==
  IF new > q.elems[i].prio THEN q
  ELSE [q EXCEPT !.elems = SiftUp([q.elems EXCEPT ![i].prio = new], i)]

(* kt_prio_queue_insert: -1 when full; else append with INT64_MAX and       *)
(* decrease it to prio.  PQInsertOk is the call's result = 0.              *)
(* Mutant: the full check as size > cap, one insert too late. *)
PQInsertOkPastCap(q) == ~(q.size > Cap)

PQInsertOk(q) == q.size # Cap

PQInsert(q, prio, data) ==
  IF ~PQInsertOk(q) THEN q
  ELSE PQDecreaseKey([elems |-> [q.elems EXCEPT ![q.size] = [prio |-> Int64Max, data |-> data]],
                      size  |-> q.size + 1],
                     q.size, prio)

(***************************************************************************)
(* _kt_prio_queue_heapify(q, i) as written: the else branch of the second *)
(* comparison sets min_idx back to i, discarding a smaller left child     *)
(* whenever the right child is not smaller still.                          *)
(***************************************************************************)
RECURSIVE Heapify(_, _, _)
Heapify(e, size, i) ==
  LET m1 == IF Left(i) < size /\ e[Left(i)].prio < e[i].prio THEN Left(i) ELSE i
      m2 == IF Right(i) < size /\ e[Right(i)].prio < e[m1].prio THEN Right(i) ELSE i
  IN  IF m2 # i THEN Heapify(Swap(e, i, m2), size, m2) ELSE e

(* kt_prio_queue_extract_min returns -1 on an empty heap. *)
PQExtractOk(q) == q.size > 0

(* kt_prio_queue_extract_min (size > 0): data of slot 0 goes to the caller, *)
(* the last node moves to slot 0, size shrinks, heapify from the root.     *)
(* Mutant: the caller is handed the node's priority instead of its data. *)
PQMinDataPrio(q) == q.elems[0].prio

PQMinData(q) == q.elems[0].data

PQExtractMin(q) ==
  LET e == [q.elems EXCEPT ![0] = q.elems[q.size - 1]]
  IN  [elems |-> Heapify(e, q.size - 1, 0), size |-> q.size - 1]

=============================================================================
