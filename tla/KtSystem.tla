------------------------------ MODULE KtSystem ------------------------------
(***************************************************************************)
(* The transmit fabric: the interception shim's sendmsg (src/libktsn.c)    *)
(* in the application and the sender daemon's main loop (src/ktsnd.c),     *)
(* sharing the tx ring, the free ring and the metadata pool.  Pool indices *)
(* circulate: free ring -> shim -> tx ring -> sender's heap -> NIC -> free  *)
(* ring.  Each ring has one producer and one consumer, whose only shared   *)
(* variables are the tails, each written in one store: a ring call is one  *)
(* step here (KtRingbuf checks the calls' inner interleavings).            *)
(***************************************************************************)
EXTENDS Integers, Sequences, FiniteSets, KtRing

CONSTANTS
  SenderBurst,  \* n of the sender's dequeue_burst on the tx ring (8)
  TxDelta,      \* tx_delta_ns: the send window before a deadline
  TxTimes,      \* the txtimes the application puts in SCM_TXTIME
  MaxTime,      \* bound: the clock stops at MaxTime
  MaxSends,     \* bound: number of sendmsg calls
  Int64Max,     \* INT64_MAX, above every txtime
  NoNode,       \* a heap slot never written
  MbufPool,     \* bound: rte_mbufs in the sender's DPDK mempool (10240)
  NicMayRefuse, \* rte_eth_tx_burst may return 0 (port not started, queue full)
  AppMayCrash,  \* the application process may be killed inside sendmsg
  Talker,       \* the application is tsn_perf's talker (else any txtimes)
  NMsgs,        \* the talker's n_msgs (-n)
  Interval,     \* the talker's interval (-i)
  WakeupDelay,  \* the talker's wakeup_delay (-w)
  FirstTxTime   \* the talker's first txtime, now_norm + 2 s

ASSUME TxTimes \subseteq 0 .. MaxTime /\ MaxTime < Int64Max

(* ktsnd.c:239-246: the free ring gets indices 0 .. capacity-1, the mbuf   *)
(* and metadata pools capacity slots each.                                 *)
Idx == 0 .. Capacity - 1

ASSUME Zero \in Idx

(* Mutant: the heap one slot smaller than the pools. *)
HeapCapShort == Capacity - 1

(* ktsnd.c:253: kt_prio_queue_init(kt_ringbuf_get_capacity(free_ring)). *)
HeapCap == Capacity

PQ == INSTANCE KtPrioQueue WITH Cap <- HeapCap

VARIABLES
  txRing,    \* RB_tx: shim produces, sender consumes
  freeRing,  \* RB_free: sender produces, shim consumes
  txtime,    \* the metadata pool's txtime field, per index
  pq,        \* the sender's prio_queue of (txtime, index)
  spc,       \* the sender's place in its loop: "drain" or "dispatch"
  apc,       \* the application thread: "idle", or "stage" inside sendmsg
  aidx,      \* the index sendmsg took from the free ring
  atx,       \* the txtime of the SCM_TXTIME cmsg of that call
  now,       \* the clock kt_get_realtime_ns reads
  sends,     \* sendmsg calls so far
  mbufs,     \* free rte_mbufs in the DPDK mempool
  counter,   \* the sender's count of frames handed to tx_burst
  inHeap,    \* ghost: indices the sender dequeued and has not yet extracted
  talker     \* the talker's counter and txtime (tsn_perf.c do_talker)

vars == <<txRing, freeRing, txtime, pq, spc, apc, aidx, atx, now, sends, mbufs,
          counter, inHeap, talker>>

(* tsn_perf.c:187-201: the talker's first txtime and its counter, which   *)
(* starts at 1.                                                            *)
TalkerInit == [count |-> 1, txtime |-> FirstTxTime]

(* ktsnd.c:236-262, 298: both rings created, the free ring filled one   *)
(* index per call, metadata zeroed (fresh shm), the DPDK mempool full,  *)
(* counter 0; the shim attaches later.                                     *)
Init ==
  /\ txRing = RingCreate
  /\ freeRing = RingEnqueue(RingCreate, [k \in 1 .. Capacity |-> k - 1], Capacity)
  /\ txtime = [i \in Idx |-> 0]
  /\ pq = PQ!PQInit
  /\ spc = "drain"
  /\ apc = "idle"
  /\ aidx = Zero
  /\ atx = 0
  /\ now = 0
  /\ sends = 0
  /\ mbufs = MbufPool
  /\ counter = 0
  /\ inHeap = {}
  /\ talker = TalkerInit

------------------------------------------------------------------------------
(* The shim's sendmsg on a socket with SO_TXTIME, an SCM_TXTIME cmsg and a *)
(* destination on a local subnet (libktsn.c:273-353); the other paths     *)
(* forward to libc and touch no shared state.                              *)

(* tsn_perf.c:203-205: the talker's loop runs while counter < n_msgs,     *)
(* each turn after clock_nanosleep until txtime - wakeup_delay (a sleep    *)
(* to a time already past returns at once); its txtimes stay within the   *)
(* checked horizon TxTimes.  Any other application calls when it likes.   *)
AppReady ==
  \/ ~Talker
  \/ /\ talker.count < NMsgs /\ talker.txtime \in TxTimes
     /\ now >= talker.txtime - WakeupDelay

(* The txtimes the application may put in SCM_TXTIME (tsn_perf.c:208-209). *)
AppTxTimes == IF Talker THEN {talker.txtime} ELSE TxTimes

(* tsn_perf.c:214-230: counter++ only when sendmsg returned at least 1,   *)
(* txtime += interval either way.                                           *)
TalkerAfter(ok) ==
  talker' = IF Talker
              THEN [count  |-> talker.count + (IF ok THEN 1 ELSE 0),
                    txtime |-> talker.txtime + Interval]
              ELSE talker

(* libktsn.c:318-324: claim one index from the free ring, or -ENOBUFS. *)
ShimAcquire ==
  /\ apc = "idle" /\ sends < MaxSends /\ AppReady
  /\ sends' = sends + 1
  /\ \E t \in AppTxTimes :
       IF DeqCount(freeRing, 1) = 0
         THEN UNCHANGED <<freeRing, apc, aidx, atx>> /\ TalkerAfter(FALSE)
         ELSE /\ aidx' = RingDequeued(freeRing, 1)[1]
              /\ freeRing' = RingDequeue(freeRing, 1)
              /\ atx' = t
              /\ apc' = "stage"
              /\ UNCHANGED talker
  /\ UNCHANGED <<txRing, txtime, pq, spc, now, mbufs, counter, inHeap>>

(* libktsn.c:327-352: fill mbuf and metadata, enqueue the index on the tx  *)
(* ring; if it does not fit, return -ENOBUFS (the index is not returned). *)
ShimStage ==
  /\ apc = "stage"
  /\ txtime' = [txtime EXCEPT ![aidx] = atx]
  /\ txRing' = RingEnqueue(txRing, <<aidx>>, 1)
  /\ apc' = "idle"
  /\ TalkerAfter(EnqCount(txRing, 1) = 1)
  /\ UNCHANGED <<freeRing, pq, spc, aidx, atx, now, sends, mbufs, counter, inHeap>>

(* The application is killed (a signal, a fault elsewhere in the process) *)
(* between the free-ring dequeue of libktsn.c:319 and the tx-ring enqueue *)
(* of line 345.  The index it held lives only on its stack, so it is gone; *)
(* a new process that loads the shim attaches the same rings and may call *)
(* sendmsg again.                                                           *)
AppCrash ==
  /\ AppMayCrash /\ apc = "stage"
  /\ apc' = "idle"
  /\ UNCHANGED <<txRing, freeRing, txtime, pq, spc, aidx, atx, now, sends, mbufs,
                 counter, inHeap, talker>>

------------------------------------------------------------------------------
(* The sender's loop (ktsnd.c:301-405), one step per half of an iteration. *)

(* The heap after inserting each dequeued index with its metadata txtime, *)
(* in order (ktsnd.c:307-312); a failed insert is ignored.                 *)
RECURSIVE InsertAll(_, _)
InsertAll(q, idxs) ==
  IF idxs = <<>> THEN q
  ELSE InsertAll(PQ!PQInsert(q, txtime[Head(idxs)], Head(idxs)), Tail(idxs))

(* ktsnd.c:303-313: dequeue up to SenderBurst indices and insert them. *)
Drain ==
  /\ spc = "drain"
  /\ LET deq == RingDequeued(txRing, SenderBurst)
     IN  /\ pq' = InsertAll(pq, deq)
         /\ inHeap' = inHeap \cup {deq[k] : k \in DOMAIN deq}
  /\ txRing' = RingDequeue(txRing, SenderBurst)
  /\ spc' = "dispatch"
  /\ UNCHANGED <<freeRing, txtime, apc, aidx, atx, now, sends, mbufs, counter, talker>>

(* Mutant: kt_get_time_diff_ns(txtime, now), the arguments swapped. *)
DiffSwapped == now - PQ!PQGetMin(pq)

(* diff = kt_get_time_diff_ns(now, txtime) of the heap's root (ktsnd.c:  *)
(* 318-321, kt_common.c:10-13).                                           *)
Diff == PQ!PQGetMin(pq) - now

(* rte_eth_tx_burst's nb_tx, which the sender ignores (ktsnd.c:387-388): *)
(* 1, or 0 when the port refuses the frame, as a port whose port_init     *)
(* failed (ktsnd.c:270-275, logged and ignored) or a full descriptor ring *)
(* does.  A refused rte_mbuf is never freed; a sent one is freed by the   *)
(* driver, and since the mempool (10240) is ten times the descriptor ring *)
(* (1024) the frames in flight never exhaust it, so it counts as free.    *)
NbTx == IF NicMayRefuse THEN {0, 1} ELSE {1}

(* ktsnd.c:366-395, case 3 after the extract: rte_pktmbuf_alloc from the  *)
(* mempool; on NULL the error is logged and prepare_packet writes the     *)
(* frame through the NULL pointer, which kills the sender; else the frame *)
(* goes to tx_burst, the index back to the free ring, and counter++.      *)
Transmit(i) ==
  IF mbufs = 0
    THEN /\ spc' = "crashed"
         /\ UNCHANGED <<freeRing, mbufs, counter>>
    ELSE /\ spc' = "drain"
         /\ \E nb \in NbTx : mbufs' = mbufs - 1 + nb
         /\ freeRing' = RingEnqueue(freeRing, <<i>>, 1)
         /\ counter' = counter + 1

(* ktsnd.c:316-404: nothing queued, or the root too early (case 1), or    *)
(* missed (case 2: extracted, its index discarded), or due (case 3:       *)
(* extracted and transmitted).                                             *)
Dispatch ==
  /\ spc = "dispatch"
  /\ \/ /\ PQ!PQIsEmpty(pq)
        /\ UNCHANGED <<pq, freeRing, inHeap, mbufs, counter>> /\ spc' = "drain"
     \/ /\ ~PQ!PQIsEmpty(pq) /\ Diff > TxDelta
        /\ UNCHANGED <<pq, freeRing, inHeap, mbufs, counter>> /\ spc' = "drain"
     \/ /\ ~PQ!PQIsEmpty(pq) /\ Diff < 0
        /\ pq' = PQ!PQExtractMin(pq)
        /\ inHeap' = inHeap \ {PQ!PQMinData(pq)}
        /\ UNCHANGED <<freeRing, mbufs, counter>> /\ spc' = "drain"
     \/ /\ ~PQ!PQIsEmpty(pq) /\ 0 <= Diff /\ Diff <= TxDelta
        /\ pq' = PQ!PQExtractMin(pq)
        /\ inHeap' = inHeap \ {PQ!PQMinData(pq)}
        /\ Transmit(PQ!PQMinData(pq))
  /\ UNCHANGED <<txRing, txtime, apc, aidx, atx, now, sends, talker>>

(* Time passes. *)
Tick ==
  /\ now < MaxTime
  /\ now' = now + 1
  /\ UNCHANGED <<txRing, freeRing, txtime, pq, spc, apc, aidx, atx, sends, mbufs, counter, inHeap,
                 talker>>

Next == ShimAcquire \/ ShimStage \/ AppCrash \/ Drain \/ Dispatch \/ Tick

(* The sender's loop never blocks and runs on its own lcore, the clock     *)
(* always advances; the application need not call sendmsg again, but     *)
(* does finish a call it started.                                          *)
Fairness ==
  WF_vars(Drain) /\ WF_vars(Dispatch) /\ WF_vars(Tick) /\ WF_vars(ShimStage)

Spec == Init /\ [][Next]_vars /\ Fairness

------------------------------------------------------------------------------
(* Where the pool indices are. *)

Occurrences(seq, i) == Cardinality({k \in DOMAIN seq : seq[k] = i})

HeapOcc(i) == Cardinality({k \in 0 .. pq.size - 1 : pq.elems[k].data = i})

(* Copies of index i in the free ring, the tx ring, the heap and sendmsg. *)
Copies(i) ==
  Occurrences(Contents(freeRing), i) + Occurrences(Contents(txRing), i)
    + HeapOcc(i) + (IF apc = "stage" /\ aidx = i THEN 1 ELSE 0)

TypeOK ==
  /\ txRing \in RingType(Idx) /\ freeRing \in RingType(Idx)
  /\ txtime \in [Idx -> TxTimes \cup {0}]
  /\ pq \in PQ!PQType(TxTimes \cup {0, Int64Max}, Idx)
  /\ spc \in {"drain", "dispatch", "crashed"} /\ apc \in {"idle", "stage"}
  /\ aidx \in Idx /\ atx \in TxTimes \cup {0}
  /\ now \in 0 .. MaxTime /\ sends \in 0 .. MaxSends
  /\ mbufs \in 0 .. MbufPool /\ counter \in 0 .. MaxSends /\ inHeap \subseteq Idx
  /\ talker \in [count : 1 .. NMsgs, txtime : FirstTxTime .. MaxTime + Interval]

(* No pool index is ever lost: each one is always in the free ring, held  *)
(* by a sendmsg call, in the tx ring or in the sender's heap, whichever   *)
(* path (sent, dropped as late, refused) the packet took.  Otherwise the  *)
(* shim's sendmsg eventually fails with -ENOBUFS for good.                *)
NoLostIndex == \A i \in Idx : Copies(i) >= 1

(* Neither silent drop of the fabric happens: when sendmsg holds an index *)
(* the tx ring has room for it (libktsn.c:345-350 would return -ENOBUFS  *)
(* and leak it), and when the sender drains, its heap has room for all it *)
(* dequeues (a failed kt_prio_queue_insert at ktsnd.c:311 is ignored).   *)
CapacityNeverExceeded ==
  /\ apc = "stage" => EnqCount(txRing, 1) = 1
  /\ spc = "drain" => pq.size + DeqCount(txRing, SenderBurst) <= HeapCap

(* The sender serves deadlines in order: a packet leaves the heap (sent or *)
(* dropped) only when no packet it holds has an earlier txtime.           *)
EarliestDeadlineFirst ==
  [][pq'.size < pq.size =>
       \A k \in 0 .. pq.size - 1 : PQ!PQGetMin(pq) <= pq.elems[k].prio]_vars


(* The sender loop keeps up with the shim: whenever packets sit on the tx *)
(* ring or in the heap, the busy loop of ktsnd.c:301-405 eventually      *)
(* drains the ring and sends or drops every node, also after a burst has *)
(* wrapped the ring and after an application died inside sendmsg.  A    *)
(* root that is never judged due or late (case 1 forever) would keep the *)
(* whole heap back.                                                       *)
SenderEmptiesQueues ==
  (DeqCount(txRing, SenderBurst) > 0 \/ pq.size > 0)
    ~> (DeqCount(txRing, SenderBurst) = 0 /\ pq.size = 0)

(* The sender survives a frame the NIC does not take: a per-packet driver *)
(* error is logged and the loop goes on (the failure semantics of the     *)
(* sender loop), so the sender never dereferences a NULL rte_mbuf.         *)
SenderSurvivesNicErrors == spc # "crashed"

------------------------------------------------------------------------------
(* Refinement mapping to KtTxFabric: a packet is pending from the step    *)
(* that puts its index on the tx ring until the sender extracts it, with  *)
(* the txtime of its metadata slot; the frames emitted are the sender's  *)
(* counter.                                                                *)
InFlight == {Contents(txRing)[k] : k \in DOMAIN Contents(txRing)} \cup inHeap

Fabric == INSTANCE KtTxFabric
            WITH Slots <- Idx,
                 pending <- {[slot |-> i, txtime |-> txtime[i]] : i \in InFlight},
                 emitted <- counter

(* The shim and the sender together implement the fabric's promise: a    *)
(* sendmsg the shim accepts takes a pool slot no other pending packet    *)
(* holds, and the sender hands each packet to the NIC at most once and   *)
(* only while diff = txtime - now lies in [0, tx_delta], or discards it  *)
(* only after its txtime; the txtime it judges is the one the shim wrote. *)
ImplementsFabric == Fabric!Spec

=============================================================================
