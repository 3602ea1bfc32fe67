----------------------------- MODULE KtPageAlloc -----------------------------
(***************************************************************************)
(* The page allocator of src/src/kt_alloc.c.  kt_page_allocator_init lays *)
(* out, at the start of the arena, the allocator struct, the page list and *)
(* the free-pages mask, then the page-aligned data region; alloc hands out *)
(* runs of contiguous free pages (first fit), free gives a run back.  The  *)
(* layout is computed from the code's own arithmetic; page i's state is   *)
(* page_list[i].free, page_list[i].reserved and free_pages_mask[i].        *)
(* Callers are the ring and pool allocations of the daemons: each call     *)
(* asks for req bytes and then writes used bytes into the object.          *)
(***************************************************************************)
EXTENDS Integers, FiniteSets, FiniteSetsExt

CONSTANTS
  ArenaSize,        \* size passed to kt_page_allocator_make
  PageSize,         \* page_size (getpagesize())
  SizeofAllocator,  \* sizeof(struct kt_page_allocator)
  SizeofPage,       \* sizeof(struct kt_page)
  Requests,         \* the calls' [req, used] byte counts
  MaxCalls,         \* bound: number of alloc calls
  CallerFrees,      \* whether callers call free (no caller in the repository does)
  NoCall            \* no alloc call in progress

(* kt_page_allocator_init's early return: both sizes powers of two. *)
IsPow2(x) == \E k \in 0 .. 30 : x = 2^k
ASSUME IsPow2(ArenaSize) /\ IsPow2(PageSize)

(* The do-while of init (lines 31-43): sizes for page_count pages, then    *)
(* page_count--, until the metadata fits; the sizes are those of the last *)
(* turn, computed before the decrement.                                    *)
RECURSIVE Sizing(_)
Sizing(pc) ==
  LET listSize == pc * SizeofPage
      maskSize == pc
      total    == SizeofAllocator + listSize + maskSize
  IN  IF pc - 1 = 0 THEN [pageCount |-> 0, listSize |-> 0, maskSize |-> 0]
      ELSE IF ArenaSize < total THEN Sizing(pc - 1)
      ELSE [pageCount |-> pc - 1, listSize |-> listSize, maskSize |-> maskSize]

Layout == Sizing(ArenaSize \div PageSize)

ASSUME Layout.pageCount > 0

PageCount == Layout.pageCount

Pages == 0 .. PageCount - 1

(* Line 48: the mask placed page_list_size * sizeof(struct kt_page) bytes *)
(* after the page list.                                                    *)
MaskOffset == SizeofAllocator + Layout.listSize * SizeofPage

(* Lines 49-55: after the mask, rounded up to a page boundary (the arena  *)
(* itself, an mmap, starts on one).                                        *)
DataOffset ==
  ((MaskOffset + Layout.maskSize + PageSize - 1) \div PageSize) * PageSize

(* alloc->data + page_list[i].offset, offset = i * page_size (line 71). *)
PageAddr(i) == DataOffset + i * PageSize

(* Results of page_alloc_find_aligned_pages. *)
NoPage == -1   \* NULL
Hang   == -2   \* the search loop never ends

VARIABLES
  free,      \* page_list[i].free
  reserved,  \* page_list[i].reserved
  mask,      \* free_pages_mask[i]
  pageFree,  \* page_free
  pending,   \* the request of the alloc call in progress, or NoCall
  calls,     \* alloc calls made
  live       \* blocks handed out and not freed: [start, pages, used]

vars == <<free, reserved, mask, pageFree, pending, calls, live>>

(* Lines 57-75: every page free, none reserved. *)
Init ==
  /\ free = [i \in Pages |-> 1]
  /\ reserved = [i \in Pages |-> 0]
  /\ mask = [i \in Pages |-> 1]
  /\ pageFree = PageCount
  /\ pending = NoCall
  /\ calls = 0
  /\ live = {}

------------------------------------------------------------------------------
(* page_alloc_search_first_free_page_from (lines 81-100). *)
SearchFrom(m, start) ==
  LET found == {i \in start .. PageCount - 1 : m[i] = 1}
  IN  IF start >= PageCount \/ found = {} THEN NoPage ELSE Min(found)

(* The inner for loop of find_aligned_pages (lines 138-157): the first    *)
(* page after p, within the n needed, that is out of range or in use, or *)
(* 0 when all n pages from p are free.                                    *)
FirstBad(m, p, n) ==
  LET bad == {pf \in 1 .. n - 1 : ~(p + pf < PageCount /\ m[p + pf] = 1)}
  IN  IF bad = {} THEN 0 ELSE p + Min(bad)

(* Mutant: index not moved past the page that broke the run. *)
RECURSIVE FindAlignedNoAdvance(_, _, _, _)
FindAlignedNoAdvance(m, n, idx, fuel) ==
  LET p == SearchFrom(m, idx)
  IN  CASE fuel = 0 -> Hang
        [] p = NoPage -> NoPage
        [] n = 1 -> p
        [] n >= 2 /\ FirstBad(m, p, n) = 0 -> p
        [] OTHER -> FindAlignedNoAdvance(m, n, p, fuel - 1)

(* page_alloc_find_aligned_pages (lines 119-162).  Each turn of the while *)
(* restarts the search at index; the loop never ends when a turn leaves  *)
(* index where it was, which a turn bound of PageCount + 2 detects.       *)
RECURSIVE FindAligned(_, _, _, _)
FindAligned(m, n, idx, fuel) ==
  LET p == SearchFrom(m, idx)
  IN  CASE fuel = 0 -> Hang
        [] p = NoPage -> NoPage
        [] n = 1 -> p
        [] n >= 2 /\ FirstBad(m, p, n) = 0 -> p
        [] n >= 2 -> FindAligned(m, n, FirstBad(m, p, n), fuel - 1)
        [] OTHER -> FindAligned(m, n, p, fuel - 1)

(* Mutant: the division without rounding up. *)
PagesNeededFloor(size) == size \div PageSize

(* Line 171. *)
PagesNeeded(size) == size \div PageSize + (IF size % PageSize # 0 THEN 1 ELSE 0)

(* Lines 176-192: NULL when page_free is short or no run is found. *)
AllocResult(n) ==
  IF pageFree < n THEN NoPage ELSE FindAligned(mask, n, 0, PageCount + 2)

(* The pages the next pointers walk from p: page_list[i].next is page i+1, *)
(* the last page's is page 0 (lines 69, 75).                              *)
Walk(p, n) == {(p + k) % PageCount : k \in 0 .. n - 1}

(* The caller enters page_alloc_alloc with a request. *)
AllocCall ==
  /\ pending = NoCall /\ calls < MaxCalls
  /\ \E r \in Requests : pending' = r
  /\ calls' = calls + 1
  /\ UNCHANGED <<free, reserved, mask, pageFree, live>>

(* page_alloc_alloc returns (lines 164-216): mark the run used in the page *)
(* list and the mask, take it from page_free, return data + offset.        *)
AllocReturn ==
  /\ pending # NoCall
  /\ LET n == PagesNeeded(pending.req)
         p == AllocResult(n)
     IN  /\ p # Hang
         /\ IF p = NoPage
              THEN UNCHANGED <<free, reserved, mask, pageFree, live>>
              ELSE /\ free' = [i \in Pages |-> IF i \in Walk(p, n) THEN 0 ELSE free[i]]
                   /\ reserved' = [reserved EXCEPT ![p] = n]
                   /\ mask' = [i \in Pages |-> IF p <= i /\ i < p + n THEN 0 ELSE mask[i]]
                   /\ pageFree' = pageFree - n
                   /\ live' = live \cup {[start |-> p, pages |-> n, used |-> pending.used]}
  /\ pending' = NoCall
  /\ UNCHANGED calls

(* Mutant: reserved reset before page_free is credited with it. *)
FreeResetFirst(b) ==
  LET idx == b.start
      r   == reserved[idx]
  IN  IF free[idx] = 1 THEN UNCHANGED <<free, reserved, mask, pageFree>>
      ELSE /\ free' = [i \in Pages |-> IF i = idx \/ i \in Walk(idx, r) THEN 1 ELSE free[i]]
           /\ pageFree' = pageFree + 0
           /\ mask' = [i \in Pages |-> IF idx <= i /\ i < idx + r THEN 1 ELSE mask[i]]
           /\ reserved' = [reserved EXCEPT ![idx] = 0]

(* page_alloc_free(ptr) for a block alloc returned (lines 218-255): the  *)
(* page index from the pointer; nothing if that page is free; else the    *)
(* reserved pages freed along the next pointers, credited to page_free,  *)
(* set in the mask, and reserved reset.                                    *)
FreeBlock(b) ==
  LET idx == b.start
      r   == reserved[idx]
  IN  IF free[idx] = 1 THEN UNCHANGED <<free, reserved, mask, pageFree>>
      ELSE /\ free' = [i \in Pages |-> IF i = idx \/ i \in Walk(idx, r) THEN 1 ELSE free[i]]
           /\ pageFree' = pageFree + r
           /\ mask' = [i \in Pages |-> IF idx <= i /\ i < idx + r THEN 1 ELSE mask[i]]
           /\ reserved' = [reserved EXCEPT ![idx] = 0]

Free ==
  /\ CallerFrees /\ pending = NoCall
  /\ \E b \in live : FreeBlock(b) /\ live' = live \ {b}
  /\ UNCHANGED <<pending, calls>>

Next == AllocCall \/ AllocReturn \/ Free

(* A call in progress keeps running; callers need not call. *)
Spec == Init /\ [][Next]_vars /\ WF_vars(AllocReturn)

------------------------------------------------------------------------------
InRun(b, i) == b.start <= i /\ i < b.start + b.pages

(* The three records of which pages are in use, page_list[i].free, the    *)
(* free_pages_mask and page_free, agree with each other and with the      *)
(* blocks handed out, and no two live blocks share a page, after any      *)
(* sequence of allocs and frees.                                           *)
AllocatorConsistent ==
  /\ \A i \in Pages : free[i] = mask[i]
  /\ \A i \in Pages : mask[i] = 0 <=> \E b \in live : InRun(b, i)
  /\ pageFree = Cardinality({i \in Pages : mask[i] = 1})
  /\ \A b1, b2 \in live : b1 # b2 => \A i \in Pages : ~(InRun(b1, i) /\ InRun(b2, i))

(* Every object a caller writes lies inside its block, and every block   *)
(* lies in the arena after the allocator's metadata: no caller's bytes   *)
(* overlap the page list or mask, another block, or memory past the       *)
(* mapping.                                                                 *)
ObjectsInArena ==
  \A b \in live :
    /\ MaskOffset + Layout.maskSize <= PageAddr(b.start)
    /\ b.used <= b.pages * PageSize
    /\ PageAddr(b.start + b.pages) <= ArenaSize

(* Every alloc call returns, with a block or NULL. *)
AllocReturns == pending # NoCall ~> pending = NoCall

=============================================================================
