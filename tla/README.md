# TLA+ models of KuberneTSN

This directory holds TLA+ models of the KuberneTSN transmit path and the TLC
configurations that check them. `PROJECT.json` lists the components, runs,
mutants, the definition-to-source map, findings and hazards.

## The system

An application runs with `libktsn.so` preloaded (`src/libktsn.c`). The shim
intercepts `socket`, `setsockopt`, `sendmsg` and `close`. A `sendmsg` on a
socket with `SO_TXTIME`, carrying an `SCM_TXTIME` cmsg and addressed to a
local subnet, does not reach the kernel. Instead the shim:

1. takes a pool index from the **free ring**;
2. copies the payload into `mbuf_pool[index]` and the txtime and addresses
   into `metadata_pool[index]`;
3. enqueues the index on the **tx ring**.

The sender daemon (`src/ktsnd.c`) creates both rings and the two pools in a
shared-memory arena (`kt_memory.c`, page allocator `kt_alloc.c`). It fills
the free ring with every index `0 .. capacity-1`, then loops:

- **Drain.** Dequeue up to 8 indices from the tx ring. Insert each into a
  min-heap keyed by its metadata txtime (`kt_queue.c`).
- **Dispatch.** Look at the heap's root:
  - too early (`diff > tx_delta`): skip this iteration;
  - missed (`diff < 0`): extract the root and discard it;
  - otherwise: extract the root, frame it into a DPDK mbuf, transmit it, and
    enqueue the index on the free ring again.

The rings (`kt_ringbuf.c`) are DPDK-style. Each has u32 producer and
consumer head/tail counters. A head is claimed by CAS, the elements are
copied, then a thread spins until its side's tail reaches its own old head
and store-releases the new tail.

Pool indices therefore circulate: free ring -> shim -> tx ring -> heap ->
NIC -> free ring. Two things are shared between processes: the two rings,
and the pools indexed by the index a thread currently owns.

Around this path:

- **Start-up.** The daemon creates two POSIX shared-memory segments with
  `O_CREAT | O_EXCL` (`kt_memory.c`): `ktsnd_data_memory` (1 MiB, managed
  by the page allocator) and `ktsnd_meta_memory` (one page holding
  `struct kt_mem_layout`, the offsets of the rings and pools). The shim's
  `__libc_start_main` attaches both by name before the application's `main`
  runs, and reads the offsets once. On SIGINT the daemon destroys (unlinks)
  both.
- **Socket table.** The shim keeps one `kt_socket` record per descriptor
  (`prio`, `txtime`). `socket`, `setsockopt(SO_TXTIME / SO_PRIORITY)` and
  `close` maintain it; `sendmsg` reads it to choose between the tx ring and
  the kernel.

## Modules

| Module | Models | State / actions |
|---|---|---|
| `KtRing` | `kt_ringbuf.c` as operators | ring record `[slots, prodHead, prodTail, consHead, consTail]`; `FreeEntries`, `Entries`, `Clamp`, `EnqueueElems`, `DequeueElems` line by line; `RingEnqueue`/`RingDequeue` are a whole call done in one step |
| `KtRingbuf` | concurrent calls on one ring | per thread `pc`, `want`, `old`, `cnt`; actions `ProdStart/Move/Copy/Publish`, `ConsStart/Move/Copy/Publish`, one per program step (load head, CAS-loop turn, copy, tail wait + store) |
| `RingFifo` | what a ring promises | a bounded FIFO: `Enqueue` appends, `Dequeue(c)` hands a prefix to consumer c |
| `KtPrioQueue` | `kt_queue.c` as operators | `[elems, size]`; `SiftUp`, `Heapify` (RECURSIVE, as written), `PQInsert`, `PQExtractMin` |
| `KtSystem` | `sendmsg` + the sender loop | `txRing`, `freeRing`, `txtime` (metadata), `pq`, `spc`, `apc`/`aidx`/`atx` (one application thread), `now`, `sends`, `mbufs` (the DPDK mempool), `counter` (frames handed to `tx_burst`), ghost `inHeap`, `talker` (tsn_perf's counter and txtime); actions `ShimAcquire` (guarded by `AppReady`, the talker's loop condition and sleep), `ShimStage` (then `TalkerAfter`), `AppCrash` (the process killed inside `sendmsg`), `Drain`, `Dispatch` (with `Transmit`: mbuf alloc, `tx_burst` returning `NbTx`, index back on the free ring), `Tick`; refinement mapping to `KtTxFabric` |
| `KtTxFabric` | what the transmit path promises (spec.md 4.4, 4.5, section 8) | a set of pending packets `[slot, txtime]`, `emitted`, `now`; `Accept` takes a free slot, `Emit` inside `[txtime - TxDelta, txtime]`, `Drop` after txtime, `Tick` |
| `KtPageAlloc` | `kt_alloc.c` | layout computed by `Sizing` (the do-while of init), `MaskOffset`, `DataOffset`; per page `free`, `reserved`, `mask`, and `pageFree`; `AllocCall`/`AllocReturn` (the first-fit search `FindAligned`, RECURSIVE), `Free`; ghost `live` blocks |
| `KtShimSockets` | the shim's socket table (`libktsn.c`) | kernel `kOpen`/`kTxtime` per descriptor, shim `rec`; `Socket`, `SetTxtime`, `SetPrio`, `Sendmsg` (routing only), `Close`; ghosts `appTxtime`/`appPrio` record what the application set. Interface discovery as operators: `QueryInterfaces` (the `getifaddrs` fold of `query_interfaces`), `SameSubnet`, `GetByNet`, over a constant `IfAddrs` list |
| `KtLifecycle` | segment lifetime (`kt_memory.c`, `ktsnd.c` main, the shim's start-up) | `named` (generation under each name), `written` (layouts written); daemon `DaemonStart/CreateData/CreateCtrl/Init/Stop/Crash`; application `AppStart/AttachData/AttachCtrl/Exit`; `ShmCreate`/`ShmDestroy` and the `MapOutcomes` of `ftruncate`+`mmap` after a successful `shm_open` |

Each `MC_*` module fixes the constants for TLC.

### Modelling choices

- **The wrap-around copy.** `EnqueueElems`/`DequeueElems` keep the code's
  wrap branch as written. Its first loop runs to `n`, so it touches slots
  `size .. 2*size-3` past the array. These slots exist in the model
  (`SlotIdx`) and hold `Zero` at the start. In the daemon the bytes after the
  ring's array are zero-filled shm that nothing else writes: the allocation
  is rounded up to a page, so the ring has its page to itself.
- **Masking.** `x & mask` uses `Bitwise`, tabulated once in `MaskTable`.
- **Counter width.** u32 counters are reduced modulo `CounterMod`, a small
  multiple of `Size`. The differences the code takes only depend on the
  counters modulo 2^32, and `CounterMod` divides 2^32, so the same wrap
  arithmetic is exercised with a counter that wraps after 4 or 8 operations.
- **Atomic ring calls in KtSystem.** Each ring there has one producer thread
  and one consumer thread; the other side observes only the single release
  store of a tail, so no interleaving inside a call is visible. `KtRingbuf`
  checks the interleavings inside the calls separately.
- **What `KtSystem` leaves out.** Payloads, sizes, MACs and IPs. Only the
  txtime is kept, because it is what the sender schedules on.
- **Allocator.** The layout is computed from the code's own arithmetic with
  the x86-64 struct sizes (`sizeof(struct kt_page_allocator)` 40,
  `sizeof(struct kt_page)` 24). The `next` pointers are the ring `i -> i+1`,
  last -> 0 that init builds (`Walk`). A call is split into `AllocCall` and
  `AllocReturn` so that a search that never ends shows as a call that never
  returns (`FindAligned` returns `Hang` when a turn bound of `PageCount + 2`
  is exhausted; every terminating search needs at most `PageCount` turns).
  `Free` is the allocator's API; no caller in the repository frees, so
  `CallerFrees` turns it on only in `alloc_small`.
- **Socket table.** Descriptors are small numbers and the kernel hands out
  the lowest free one, as POSIX requires; that reuse is what makes stale
  records matter. `sendmsg` is modelled up to its routing decision; the ring
  part is `KtSystem`'s. `socket()`'s missing return value is not enumerated
  (see hazards): the model's application receives the descriptor.
- **Lifecycle.** A segment is a generation number under a name; a create
  makes a new generation, an unlink removes the name, and a mapping keeps
  its generation. Daemon crash and application exit are actions at any
  step; the daemon's `rte_pktmbuf_pool_create` may fail.

## Runs

| Run | cfg | Expect | What it shows |
|---|---|---|---|
| ring_mpmc | `KtRingbuf_mpmc.cfg` | pass | 2 producers and 2 consumers, bursts of 1: the ring refines `RingFifo` (`FifoSpec`) under every interleaving of CAS, copy and tail publish, and every call returns (`EveryCallReturns`) |
| sys_fabric | `KtSystem_fabric.cfg` | pass | `TypeOK`; `CapacityNeverExceeded` (no silent drop at a full tx ring or heap); `SenderEmptiesQueues` (the busy loop eventually drains the tx ring and sends or drops every heap node); five sends, so the sender's burst wraps the tx ring, and applications that may be killed inside `sendmsg` |
| sys_wrap | `KtSystem_wrap.cfg` | violation | the same five sends: the burst that wraps the tx ring reads the word past the array instead of slot 0, a pending packet vanishes unsent and undropped and index 0 is in the heap twice, so shim + sender do not refine `KtTxFabric` (`ImplementsFabric`) |
| sys_lost_index | `KtSystem_lost.cfg` | violation | a late drop never returns its index (`NoLostIndex`) |
| sys_edf | `KtSystem_edf.cfg` | violation | tsn_perf's talker run as `-i 50000 -w 100000` (interval one `tx_delta`, waking two ahead) stages three packets, and the sender dispatches while holding an earlier deadline (`EarliestDeadlineFirst`) |
| sys_nic | `KtSystem_nic.cfg` | violation | a frame the NIC refuses leaks its rte_mbuf; with a one-mbuf mempool the next due packet is framed through `NULL` (`SenderSurvivesNicErrors`) |
| alloc_small | `KtPageAlloc_small.cfg` | pass | 16 KiB arena (3 pages), up to 8 allocs of 1-3 pages with frees between: page list, mask and `page_free` agree and blocks are disjoint (`AllocatorConsistent`), every object lies in its block and the arena (`ObjectsInArena`), every alloc returns (`AllocReturns`) |
| alloc_arena_full | `KtPageAlloc_arena_full.cfg` | violation | the real 1 MiB arena: an alloc of 220 pages succeeds and ends past the mapping (`ObjectsInArena`) |
| shim_table | `KtShimSockets_table.cfg` | pass | up to 10 calls on two descriptors: the record `sendmsg` reads is the one the socket's own `setsockopt` calls wrote, across close and descriptor reuse (`RecordDescribesSocket`) |
| shim_txtime | `KtShimSockets_txtime.cfg` | violation | after `SO_TXTIME` returned 0, a send the shim hands to the kernel (off the host, or to the subnet of a NIC's second address, which discovery skips) fails with EINVAL (`TxtimeSendAccepted`) |
| life_layout | `KtLifecycle_layout.cfg` | violation | an application started during the daemon's initialisation runs with offsets never written; TLC's trace has the daemon still laying out the arena (`AppSeesLayout`) |
| life_restart | `KtLifecycle_restart.cfg` | violation | a daemon killed after a create or whose ftruncate/mmap fails after `shm_open`, blocks every restart (`DaemonRestarts`) |

Each property of a passing run has a mutant in `PROJECT.json`: a plausible
bug in a mapped definition that TLC shows breaks it.

- **Ring.** A producer publishing its tail without waiting for earlier
  producers (`ProdPublishNoWait`) breaks `FifoSpec`; waiting for `prod_next`
  instead of `prod_head` (`ProdPublishAtNext`) breaks `EveryCallReturns`.
- **System.** Handing back the node's priority as its data breaks `TypeOK`;
  a heap one slot smaller than the pool breaks `CapacityNeverExceeded`;
  swapping the arguments of `kt_get_time_diff_ns` (`DiffSwapped`) breaks
  `SenderEmptiesQueues`: a root whose txtime has passed is judged too early
  for ever and holds the heap back.
- **Allocator.** Resetting `reserved` before crediting `page_free`
  (`FreeResetFirst`) breaks `AllocatorConsistent`; dropping the round-up in
  `pages_needed` (`PagesNeededFloor`) breaks `ObjectsInArena`; not moving
  `index` past the page that broke a run (`FindAlignedNoAdvance`) breaks
  `AllocReturns`.
- **Socket table.** A `close` that leaves the record in the list
  (`CloseKeepsRecord`) breaks `RecordDescribesSocket`.

## Findings

1. **Wrap-around copy.** `__kt_ringbuf_dequeue_elems` (and
   `__kt_ringbuf_enqueue_elems`) copy past the array when a burst wraps.
   The sender's 8-element dequeue returns the zero word after the array
   instead of the index at slot 0: that index is lost for good, and pool
   slot 0 is used by two packets at once. `sys_wrap` shows it on the whole
   transmit path: after five sends a pending packet is neither sent nor
   dropped, against the fabric's promise. The daemon's 128-slot ring
   wraps the same way once every 128 packets.
2. **Late drop leaks its index.** A late packet is extracted with a `NULL`
   out-pointer and its index is never returned to the free ring. With 127
   indices, the 127th deadline miss makes every `sendmsg` fail with
   `-ENOBUFS`.
3. **Heap sift-down.** `_kt_prio_queue_heapify` sets `min_idx = i` in both
   else branches. The sender can then serve a later deadline first, and the
   hidden packet may be dropped as late. The trace is the repository's own
   talker: `tsn_perf -t -i 50000 -w 100000` stages messages 1-3 before the
   sender drains, and message 3 leaves while message 2 is in the heap.
   With these timings that needs the busy sender to leave a due packet
   for a whole `tx_delta` (a preempted lcore); the model's sender is
   untimed. A talker that wakes further ahead needs no stall.
4. **Allocator past the arena.** init sizes `page_count` for the whole
   arena and multiplies the page-list size by `sizeof(struct kt_page)` twice
   (line 48). With 1 MiB and 4 KiB pages the data region starts at byte
   151552; 219 pages fit but 255 are managed. The daemon's own allocations
   use pages 0..67 (two rings of one page, a 64-page mbuf pool, a 2-page
   metadata pool), so today's daemon is not hit.
5. **SO_TXTIME never reaches the kernel.** `setsockopt` returns 0 for
   `SO_TXTIME` and `SO_PRIORITY` without calling the real `setsockopt`.
   Every send the shim does not divert (no local interface for the address)
   carries an `SCM_TXTIME` cmsg the kernel refuses with EINVAL. Not
   forwarding is what spec.md 4.5 prescribes for the diverted path; the
   spec is silent on the sends that are not diverted, so this is a gap in
   the spec rather than a slip in line 240.
6. **Start-up race.** The shim reads `kt_mem_layout` as soon as the ctrl
   segment exists; the daemon creates it before writing the offsets. An
   application started in that window places both rings and pools at offset
   0, on the allocator's header.
7. **No restart after a crash.** Segments are created `O_EXCL` and unlinked
   only on SIGINT. A crash, or an early `return -1` after a create, leaves
   the names, and every later start fails.
8. **NIC errors kill the sender.** `nb_tx` of `rte_eth_tx_burst` is
   ignored, so a refused frame's rte_mbuf is never freed; and when
   `rte_pktmbuf_alloc` returns `NULL` the sender logs it and frames the
   packet through the `NULL` pointer. A port that refuses frames (its
   `port_init` failed, which `main` only logs) drains the mempool and then
   the daemon dies.

## Bounds

- **Rings.** 4 slots, so capacity 3 and 3 pool indices in `KtSystem`.
  - A dequeue burst of 8 can wrap: it starts at slot 3 with two entries.
  - The heap holds 3 nodes, so a root has two children after an extract.
  - Counters wrap at 4 (`KtRingbuf`) or 8 (`KtSystem`).
- **KtRingbuf.** 4 words in total (`MaxVal`): more than the capacity, so a
  slot is reused and the counters wrap. A consumer publishing early would
  need a fifth word to show (see the hazard at `kt_ringbuf.c:276`).
- **Mempool.** `MbufPool = 1` in `sys_nic` (one refused frame empties it);
  in the other KtSystem runs the NIC takes every frame and the pool of
  10240 never runs out, so it is not a bound there.
- **Time.** `TxTimes = 1..3`, `MaxTime = 3`, `TxDelta = 1`: all three
  dispatch cases occur (too early, due, late).
- **Sends.** `MaxSends = 5`, the fewest with which the sender's burst
  wraps the tx ring (three sends and two sent move the consumer head to
  slot 3; two more fill slots 3 and 0). The passing run keeps the wrap: its
  properties hold through it, and `sys_wrap` shows what it breaks. About
  288k states, 100 s, most of it the liveness check; 6 sends no longer
  finish in the time a run is given.
- **Talker.** In `sys_edf` the application is tsn_perf's talker with
  `NMsgs = 4` (three messages), `Interval = 1` and `WakeupDelay = 2`, one
  time unit being `tx_delta` = 50 µs. In the other runs `Talker = FALSE` and
  the application may send any txtime at any time, which includes every
  talker configuration.
- **Heap.** It is driven by the sender in `KtSystem`: 3 nodes, txtimes
  1..3 with ties, so both sift directions and equal keys occur.
- **Allocator.** A 16 KiB arena with 4 KiB pages is the largest that fits
  its metadata without running past the mapping (3 pages). Requests of 1, 2
  and 3 pages, one of 5000 bytes (not page-sized) and the ring request
  (256 asked for, 1152 written); 4 calls reach a full arena, `page_free`
  short, and a fragmented arena where the search fails; `alloc_small` allows 8
  calls so that frees and re-allocations follow a full arena. The violation run
  uses the real 1 MiB / 4 KiB constants.
- **Socket table.** Two descriptors, so that a closed one is handed out
  again; two priorities; 10 calls, enough for socket, setsockopt, close,
  socket on the same number and setsockopt and send on both. The interface
  list has a loopback, a packet-family entry, a NIC and a second address of
  the same NIC (4-bit addresses); the destinations are on lo, the NIC, the
  alias subnet and off the host.
- **Lifecycle.** One application; one daemon start for the race, two for
  the restart.

## Fairness

- **KtRingbuf.** Weak fairness on every step of a thread inside a call
  (move, copy, publish). Nobody is obliged to call.
- **KtSystem.** Weak fairness on `Drain` and `Dispatch` (a busy loop on a
  dedicated lcore), on `Tick` (real time advances) and on `ShimStage` (a
  `sendmsg` that took an index finishes unless the process is killed);
  none on `ShimAcquire` or `AppCrash`.
- **KtTxFabric.** Weak fairness on `Retire(p)` for each packet: a packet
  whose window has come is emitted or dropped, which is what the sender's
  busy loop gives.
- **KtPageAlloc.** Weak fairness on `AllocReturn`: a call in progress runs
  on. Callers need not call.
- **KtShimSockets, KtLifecycle.** Safety only; no fairness.

Runs that end because their bounds are used up (`MaxCalls`, starts) say
`CHECK_DEADLOCK FALSE`: the callers really may stop.

### Refinement

`KtSystem` maps onto `KtTxFabric`: a packet is pending from the step that
puts its index on the tx ring until the sender extracts it, with the
txtime in its metadata slot; `emitted` is the sender's `counter`. The shim's
`ShimStage` is `Accept`, a due extract is `Emit`, a late one `Drop`, `Tick`
is `Tick`, and every other step (including `AppCrash`, which loses an
index the fabric never saw) is a stutter. `sys_wrap` checks
`ImplementsFabric == Fabric!Spec` as a property, liveness included (weak
fairness on each packet's `Retire`), and TLC finds it violated by the
wrap-around copy of finding 1: a pending packet leaves the tx ring without
an `Emit` or a `Drop`. The refinement holds in every behaviour up to that
burst; no passing run can check it without cutting the ring's wrap away. The abstract module is
written from the specification, not from code, and has no map entries.

## Not modelled

- **Legacy socket daemon** (`ktsnd_socket.c`). Its ring of 100 elements
  masks with 99 (not a power of two minus one), so the initial fill of the
  free ring overwrites slots; and its loop only serves the heap after a
  non-empty dequeue. Both are listed as hazards. Modelling it needs a run of
  its own, and this project already uses the twelve runs it keeps.
- **Crashes inside the rings.** A process killed between a ring's head CAS
  and its tail store stalls every later caller on that ring; it is listed as
  a hazard. An application killed inside `sendmsg` is the `AppCrash` action.
- **Frame size.** `sendmsg` copies `iov_len` bytes into a 2048-byte
  `kt_mbuf` with no bound (`libktsn.c:333`), and the sender writes 42 header
  bytes plus the payload into an rte_mbuf; payload sizes are data the models
  abstract away. Listed as a hazard.
- **Multi-iov and non-IPv4 sends.** spec.md says they are forwarded; the
  shim reads `msg_iov[0]` only and casts the name to `sockaddr_in`, so such
  a send is diverted with its first buffer only. Payload layout is data
  the models abstract away, and showing it would need a violation run of
  its own.
- **MAC query.** `query_and_add_mac_address` uses the shim's own `socket()`,
  which has no return statement; its undefined value is not enumerated.
- **Out of reach.** Of the example applications only tsn_perf's talker
  loop is modelled; its argument parsing, its listener and `opcua_sub.c`
  only receive or format and change no state of the transmit path. DPDK itself
  (port set-up, the driver) is modelled only by what `tx_burst` and
  `rte_pktmbuf_alloc` return.
