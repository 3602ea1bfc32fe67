----------------------------- MODULE KtLifecycle -----------------------------
(***************************************************************************)
(* The lifetime of the two shared-memory segments that connect the sender *)
(* daemon and the applications: "ktsnd_data_memory" (the arena with rings *)
(* and pools) and "ktsnd_meta_memory" (struct kt_mem_layout, the offsets  *)
(* of the rings and pools in the arena).  The daemon (src/ktsnd.c main)    *)
(* creates both with O_CREAT | O_EXCL, lays out the arena and writes the   *)
(* offsets, loops, and on SIGINT destroys (unmaps and unlinks) both.  The  *)
(* shim (src/libktsn.c __libc_start_main) attaches both by name before the *)
(* application's main runs and reads the offsets once.  A process can be  *)
(* killed at any step; a segment outlives the process that created it     *)
(* until it is unlinked.  A segment is identified by its generation: each  *)
(* successful create makes a new object under the name.                   *)
(***************************************************************************)
EXTENDS Naturals

CONSTANTS
  Apps,        \* application processes started with the shim preloaded
  MaxStarts,   \* bound: daemon starts
  MaxAppRuns   \* bound: starts of each application

Names == {"data", "ctrl"}

None == 0   \* no segment under the name / not mapped

VARIABLES
  named,       \* the generation of the segment under each name, or None
  nextGen,     \* the generation the next create makes
  written,     \* generations of ctrl segments whose kt_mem_layout is written
  dpc,         \* daemon: where main is
  dSeg,        \* daemon: the generations it created, per name
  starts,      \* daemon starts so far
  startFailed, \* a daemon start returned early because a create failed
  apc,         \* each application: where start-up is
  aSeg,        \* each application: the generations it mapped, per name
  aLayoutOk,   \* each application: the offsets it read had been written
  appRuns

vars == <<named, nextGen, written, dpc, dSeg, starts, startFailed,
          apc, aSeg, aLayoutOk, appRuns>>

NoSeg == [n \in Names |-> None]

Init ==
  /\ named = NoSeg /\ nextGen = 1 /\ written = {}
  /\ dpc = "down" /\ dSeg = NoSeg /\ starts = 0 /\ startFailed = FALSE
  /\ apc = [a \in Apps |-> "down"] /\ aSeg = [a \in Apps |-> NoSeg]
  /\ aLayoutOk = [a \in Apps |-> FALSE] /\ appRuns = [a \in Apps |-> 0]

------------------------------------------------------------------------------
(* _kt_memory_alloc with O_CREAT | O_EXCL | O_RDWR (kt_memory_create):     *)
(* shm_open fails with EEXIST when the name exists; else a new object.    *)
ShmCreateOk(n) == named[n] = None

ShmCreate(n) ==
  /\ named' = [named EXCEPT ![n] = nextGen]
  /\ nextGen' = nextGen + 1

(* _kt_memory_alloc with O_RDWR (kt_memory_attach): shm_open fails with    *)
(* ENOENT when no object has the name, else maps the object it names.      *)
ShmAttachOk(n) == named[n] # None

(* The daemon is started (by hand or by a supervisor) when none is alive. *)
DaemonStart ==
  /\ dpc = "down" /\ starts < MaxStarts
  /\ dpc' = "createData" /\ starts' = starts + 1 /\ dSeg' = NoSeg
  /\ UNCHANGED <<named, nextGen, written, startFailed, apc, aSeg, aLayoutOk, appRuns>>

(* The rest of _kt_memory_alloc (lines 29-49) after shm_open succeeded:   *)
(* ftruncate and mmap succeed, or one of them fails (/dev/shm full, no    *)
(* address space) and the error path frees the struct and returns NULL,  *)
(* neither closing the descriptor nor unlinking the name.                  *)
MapOutcomes == {"mapped", "failed"}

(* A create of main (lines 214-228): on failure main returns -1 at once, *)
(* leaving whatever it created before.  A start counts as failed here    *)
(* only when shm_open finds the name taken.                               *)
DaemonCreate(n, from, to) ==
  /\ dpc = from
  /\ IF ShmCreateOk(n)
       THEN /\ ShmCreate(n)
            /\ \E r \in MapOutcomes :
                 \/ r = "mapped" /\ dSeg' = [dSeg EXCEPT ![n] = nextGen] /\ dpc' = to
                 \/ r = "failed" /\ dpc' = "down" /\ UNCHANGED dSeg
            /\ UNCHANGED startFailed
       ELSE /\ dpc' = "down" /\ startFailed' = TRUE
            /\ UNCHANGED <<named, nextGen, dSeg>>
  /\ UNCHANGED <<written, starts, apc, aSeg, aLayoutOk, appRuns>>

DaemonCreateData == DaemonCreate("data", "createData", "createCtrl")

DaemonCreateCtrl == DaemonCreate("ctrl", "createCtrl", "init")

(* Lines 230-262: allocator, rings and pools laid out, the offsets written *)
(* to kt_mem_layout; then rte_pktmbuf_pool_create, whose failure makes main *)
(* return -1 without destroying the segments.                              *)
DaemonInit ==
  /\ dpc = "init"
  /\ written' = written \cup {dSeg["ctrl"]}
  /\ \E ok \in BOOLEAN : dpc' = IF ok THEN "running" ELSE "down"
  /\ UNCHANGED <<named, nextGen, dSeg, starts, startFailed, apc, aSeg, aLayoutOk, appRuns>>

(* kt_memory_destroy (lines 82-90): munmap, shm_unlink of the name, close; *)
(* the object goes once no process maps it, the name at once.              *)
ShmDestroy(nm, n) == [nm EXCEPT ![n] = None]

(* SIGINT: the loop ends (line 301) and both segments are destroyed      *)
(* (lines 410-411), ctrl first.                                            *)
DaemonStop ==
  /\ dpc = "running"
  /\ named' = ShmDestroy(ShmDestroy(named, "ctrl"), "data")
  /\ dpc' = "down"
  /\ UNCHANGED <<nextGen, written, dSeg, starts, startFailed, apc, aSeg, aLayoutOk, appRuns>>

(* The daemon is killed at any step: nothing is destroyed. *)
DaemonCrash ==
  /\ dpc # "down"
  /\ dpc' = "down"
  /\ UNCHANGED <<named, nextGen, written, dSeg, starts, startFailed, apc, aSeg, aLayoutOk, appRuns>>

------------------------------------------------------------------------------
(* An application is started with the shim preloaded. *)
AppStart(a) ==
  /\ apc[a] = "down" /\ appRuns[a] < MaxAppRuns
  /\ apc' = [apc EXCEPT ![a] = "attachData"]
  /\ appRuns' = [appRuns EXCEPT ![a] = @ + 1]
  /\ aSeg' = [aSeg EXCEPT ![a] = NoSeg]
  /\ UNCHANGED <<named, nextGen, written, dpc, dSeg, starts, startFailed, aLayoutOk>>

(* An attach of __libc_start_main (lines 489-500): on failure it returns  *)
(* -1 and the application's main never runs; the attach's own ftruncate  *)
(* or mmap failing does the same.  After the ctrl attach the shim reads   *)
(* the offsets (lines 502-507) and calls main.                             *)
AppAttach(a, n, from, to) ==
  /\ apc[a] = from
  /\ IF ShmAttachOk(n)
       THEN \E r \in MapOutcomes :
              \/ /\ r = "mapped"
                 /\ aSeg' = [aSeg EXCEPT ![a][n] = named[n]]
                 /\ apc' = [apc EXCEPT ![a] = to]
                 /\ aLayoutOk' = IF n = "ctrl"
                                   THEN [aLayoutOk EXCEPT ![a] = named[n] \in written]
                                   ELSE aLayoutOk
              \/ /\ r = "failed"
                 /\ apc' = [apc EXCEPT ![a] = "down"]
                 /\ UNCHANGED <<aSeg, aLayoutOk>>
       ELSE /\ apc' = [apc EXCEPT ![a] = "down"]
            /\ UNCHANGED <<aSeg, aLayoutOk>>
  /\ UNCHANGED <<named, nextGen, written, dpc, dSeg, starts, startFailed, appRuns>>

AppAttachData(a) == AppAttach(a, "data", "attachData", "attachCtrl")

AppAttachCtrl(a) == AppAttach(a, "ctrl", "attachCtrl", "running")

(* The application exits or is killed; the shim never detaches. *)
AppExit(a) ==
  /\ apc[a] # "down"
  /\ apc' = [apc EXCEPT ![a] = "down"]
  /\ UNCHANGED <<named, nextGen, written, dpc, dSeg, starts, startFailed, aSeg, aLayoutOk, appRuns>>

Next ==
  \/ DaemonStart \/ DaemonCreateData \/ DaemonCreateCtrl \/ DaemonInit
  \/ DaemonStop \/ DaemonCrash
  \/ \E a \in Apps :
       AppStart(a) \/ AppAttachData(a) \/ AppAttachCtrl(a) \/ AppExit(a)

Spec == Init /\ [][Next]_vars

------------------------------------------------------------------------------
(* An application's main runs only with ring and pool offsets the daemon  *)
(* has written: the shim never reads a kt_mem_layout that is still the    *)
(* zero-filled page ftruncate made, which would place both rings and both *)
(* pools on top of the allocator's header at offset 0.                     *)
AppSeesLayout == \A a \in Apps : apc[a] = "running" => aLayoutOk[a]

(* A daemon started while no daemon is alive gets its segments: no start *)
(* fails on a name left behind by an earlier daemon.                       *)
DaemonRestarts == ~startFailed

=============================================================================
