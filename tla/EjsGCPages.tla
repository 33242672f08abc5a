----------------------------- MODULE EjsGCPages -----------------------------
(***************************************************************************)
(* The page allocator of runtime/ejs-gc.c: the pages of an arena, cut into *)
(* cells of one size class each, the per-class page lists heap_pages[],    *)
(* the arena's list of empty pages, the large object store, and the        *)
(* collect-and-retry logic of _ejs_gc_alloc.                               *)
(*                                                                         *)
(* One arena stands for all of them: alloc_new_page tries them in turn and *)
(* fails when the last one is full and no other can be mapped.  A size is  *)
(* its class c, for objects of 2^(c+3) bytes: class 1 is 16 bytes, class 5 *)
(* 256 bytes.  Which cells die is the mutator's business (see EjsGC): a    *)
(* sweep frees any set of cells.                                           *)
(***************************************************************************)
EXTENDS Integers, FiniteSets, EjsList

CONSTANTS
    MaxPages,  \* page slots of the arena
    Class,     \* the size classes the program asks for
    NumCells,  \* NumCells[c]: cells of class c on a page
    LosId      \* large objects that can be mapped at a time

ASSUME PagesAssumption == MaxPages \in Nat \ {0}
ASSUME ClassAssumption == Class \subseteq 1 .. 12
ASSUME NilAssumption == Nil \notin Int
ASSUME CellsAssumption == NumCells \in [Class -> Nat \ {0, 1}]

VARIABLES
    num_pages,   \* pages handed out by the arena's bump pointer
    cell_class,  \* the class each page is formatted for
    freeBits,    \* the cells of each page with CELL_FREE set
    num_free,    \* num_free_cells of each page
    bump,        \* bump_ptr as a cell index, or Nil
    lists,       \* heap_pages[] and free_pages (see EjsList)
    los_list,    \* the class of each mapped large object, or Nil
    phase,       \* "idle", "alloc", "sweep", or "undefined" after an access
                 \* outside heap_pages[]
    cursor,      \* the page the sweep comes to next
    req          \* the allocation in progress

pageVars == <<num_pages, cell_class, freeBits, num_free, bump, lists, los_list>>
vars == <<num_pages, cell_class, freeBits, num_free, bump, lists, los_list, phase,
          cursor, req>>

Page == 1 .. MaxPages
Pages == 1 .. num_pages  \* the pages that have a PageInfo

OBJECT_SIZE_LOW_LIMIT_BITS  == 4
OBJECT_SIZE_HIGH_LIMIT_BITS == 8
HeapPagesIndex == 0 .. (OBJECT_SIZE_HIGH_LIMIT_BITS - OBJECT_SIZE_LOW_LIMIT_BITS)

\* ffs(2^(c+3)): the position of the bit, counted from 1.
Ffs(c) == c + OBJECT_SIZE_LOW_LIMIT_BITS

Cells(c) == 0 .. NumCells[c] - 1
NoReq == [class |-> Nil, bucket |-> 0, num_allocs |-> 0]

Init ==
    /\ num_pages = 0
    /\ cell_class = [p \in Page |-> Nil]
    /\ freeBits = [p \in Page |-> {}]
    /\ num_free = [p \in Page |-> 0]
    /\ bump = [p \in Page |-> Nil]
    /\ lists = [prev |-> [p \in Page |-> Nil], next |-> [p \in Page |-> Nil],
                head |-> [l \in HeapPagesIndex |-> Nil],
                tail |-> [l \in HeapPagesIndex |-> Nil], free_pages |-> Nil]
    /\ los_list = [l \in LosId |-> Nil]
    /\ phase = "idle" /\ cursor = 1 /\ req = NoReq

-----------------------------------------------------------------------------
(* _ejs_gc_alloc                                                           *)

\* The call: it counts the allocation and collects first when enough bytes, or
\* EJS_GC_EVERY_N_ALLOC allocations, have been asked for.
_ejs_gc_alloc(c) ==
    /\ phase = "idle"
    /\ \/ /\ phase' = "alloc"
          /\ req' = [class |-> c, bucket |-> Ffs(c), num_allocs |-> 1]
       \/ /\ phase' = "sweep"
          /\ req' = [class |-> c, bucket |-> Ffs(c), num_allocs |-> 0]
    /\ cursor' = 1
    /\ UNCHANGED pageVars

\* GC.collect()
_ejs_gc_collect ==
    /\ phase = "idle" /\ phase' = "sweep"
    /\ cursor' = 1 /\ req' = NoReq
    /\ UNCHANGED pageVars

\* Fault: the retry is not remembered.
RetryForever(bucket) ==
    /\ phase' = "sweep" /\ req' = [req EXCEPT !.bucket = bucket]
    /\ cursor' = 1
    /\ UNCHANGED pageVars

\* What happens when no memory is found: collect once and retry, then throw.
OutOfMemory(bucket) ==
    /\ IF req.num_allocs = 0
       THEN phase' = "idle" /\ req' = NoReq
       ELSE /\ phase' = "sweep"
            /\ req' = [req EXCEPT !.bucket = bucket, !.num_allocs = 0]
    /\ cursor' = 1
    /\ UNCHANGED pageVars

Done == phase' = "idle" /\ req' = NoReq /\ UNCHANGED cursor

\* mmap may fail whenever it likes.
alloc_from_los ==
    /\ phase = "alloc" /\ req.bucket > OBJECT_SIZE_HIGH_LIMIT_BITS
    /\ \/ \E l \in LosId :
            /\ los_list[l] = Nil
            /\ los_list' = [los_list EXCEPT ![l] = req.class]
            /\ Done
            /\ UNCHANGED <<num_pages, cell_class, freeBits, num_free, bump, lists>>
       \/ OutOfMemory(req.bucket)

\* The first free cell, or the one at the bump pointer, which is dropped when it
\* comes to the last cell of the page.
CellTaken(p, bits, bmp) ==
    IF bmp # Nil THEN bmp ELSE CHOOSE i \in bits : \A j \in bits : i <= j
BumpAfter(bmp, n) == IF bmp = Nil \/ bmp + 2 >= n THEN Nil ELSE bmp + 1

\* alloc_from_page on page p of list b, whose bitmap, count, bump pointer and
\* class are given; then a page that is full moves to the end of the list.
alloc_from_page(p, b, ls, class, bits, n, bmp) ==
    /\ cell_class' = [cell_class EXCEPT ![p] = class]
    /\ freeBits' = [freeBits EXCEPT ![p] = bits \ {CellTaken(p, bits, bmp)}]
    /\ num_free' = [num_free EXCEPT ![p] = n - 1]
    /\ bump' = [bump EXCEPT ![p] = BumpAfter(bmp, NumCells[class])]
    /\ lists' = IF n = 1 /\ ls.head[b] # ls.tail[b]
                THEN _ejs_list_append_node(_ejs_list_pop_head(ls, b), b, p)
                ELSE ls

\* Fault: a recycled page keeps its free count.
StaleCount(p, b, ls) ==
    alloc_from_page(p, b, _ejs_list_prepend_node(ls, b, p), req.class,
                    Cells(req.class),
                    IF cell_class[p] = Nil THEN NumCells[req.class] ELSE num_free[p], 0)

\* A page fresh from free_pages or from the bump pointer is formatted for the
\* class and put at the head of the list.
alloc_page_from_arena(p, b, ls) ==
    alloc_from_page(p, b, _ejs_list_prepend_node(ls, b, p), req.class,
                    Cells(req.class), NumCells[req.class], 0)

AllocFromPages ==
    /\ phase = "alloc" /\ req.bucket <= OBJECT_SIZE_HIGH_LIMIT_BITS
    /\ LET b == req.bucket - OBJECT_SIZE_LOW_LIMIT_BITS
           h == lists.head[b]
           hasRoom == IF h = Nil THEN FALSE ELSE num_free[h] # 0
       IN  \/ /\ b \notin HeapPagesIndex
              /\ phase' = "undefined"
              /\ UNCHANGED <<pageVars, cursor, req>>
           \/ /\ b \in HeapPagesIndex /\ hasRoom
              /\ alloc_from_page(h, b, lists, cell_class[h], freeBits[h], num_free[h], bump[h])
              /\ Done
              /\ UNCHANGED <<num_pages, los_list>>
           \/ /\ b \in HeapPagesIndex /\ ~hasRoom
              /\ \/ /\ lists.free_pages # Nil
                    /\ alloc_page_from_arena(lists.free_pages, b,
                                             EJS_LIST_DETACH(lists, lists.free_pages))
                    /\ Done
                    /\ UNCHANGED <<num_pages, los_list>>
                 \/ /\ lists.free_pages = Nil /\ num_pages < MaxPages
                    /\ num_pages' = num_pages + 1
                    /\ alloc_page_from_arena(num_pages', b, lists)
                    /\ Done
                    /\ UNCHANGED los_list
                 \/ /\ lists.free_pages = Nil /\ num_pages = MaxPages
                    /\ OutOfMemory(b)

-----------------------------------------------------------------------------
(* The sweep, seen from the pages.                                         *)

\* Some of the page's objects are garbage.  _ejs_finalize_obj frees them one by
\* one; when the page is empty it leaves the list of its class for free_pages.
\* A page that is empty already is skipped.
sweep_heap(dead) ==
    /\ phase = "sweep" /\ cursor \in Pages
    /\ cursor' = cursor + 1
    /\ LET p == cursor
           all == Cells(cell_class[p])
       IN  /\ dead \subseteq all \ freeBits[p]
           /\ freeBits' = [freeBits EXCEPT ![p] = @ \union dead]
           /\ num_free' = [num_free EXCEPT ![p] = @ + Cardinality(dead)]
           /\ lists' = IF dead # {} /\ num_free'[p] = NumCells[cell_class[p]]
                       THEN EJS_LIST_PREPEND(_ejs_list_detach_node(lists,
                               Ffs(cell_class[p]) - OBJECT_SIZE_LOW_LIMIT_BITS, p), p)
                       ELSE lists
    /\ UNCHANGED <<num_pages, cell_class, bump, los_list, phase, req>>

\* The large objects that died are unmapped, and the caller goes on.
SweepLos(dead) ==
    /\ phase = "sweep" /\ cursor = num_pages + 1
    /\ dead \subseteq {l \in LosId : los_list[l] # Nil}
    /\ los_list' = [l \in LosId |-> IF l \in dead THEN Nil ELSE los_list[l]]
    /\ phase' = IF req = NoReq THEN "idle" ELSE "alloc"
    /\ cursor' = 1
    /\ UNCHANGED <<num_pages, cell_class, freeBits, num_free, bump, lists, req>>

AllocStep == AllocFromPages \/ alloc_from_los
SweepStep ==
    \/ \E dead \in SUBSET UNION {Cells(c) : c \in Class} : sweep_heap(dead)
    \/ \E dead \in SUBSET LosId : SweepLos(dead)

Next ==
    \/ \E c \in Class : _ejs_gc_alloc(c)
    \/ _ejs_gc_collect
    \/ AllocStep
    \/ SweepStep

Spec == Init /\ [][Next]_vars
\* The allocator is a plain call that runs until it returns or throws.
FairSpec == Spec /\ WF_vars(AllocStep \/ SweepStep)
-----------------------------------------------------------------------------
(* Properties.                                                             *)

PageOrNil == Page \union {Nil}

\* The type invariant: page headers, the links of the lists, the request.
TypeOK ==
    /\ num_pages \in 0 .. MaxPages
    /\ cell_class \in [Page -> Class \union {Nil}]
    /\ \A p \in Pages : cell_class[p] # Nil /\ freeBits[p] \subseteq Cells(cell_class[p])
    /\ num_free \in [Page -> Int]
    /\ bump \in [Page -> Nat \union {Nil}]
    /\ lists.prev \in [Page -> PageOrNil] /\ lists.next \in [Page -> PageOrNil]
    /\ lists.head \in [HeapPagesIndex -> PageOrNil]
    /\ lists.tail \in [HeapPagesIndex -> PageOrNil]
    /\ lists.free_pages \in PageOrNil
    /\ los_list \in [LosId -> Class \union {Nil}]
    /\ phase \in {"idle", "alloc", "sweep", "undefined"}
    /\ cursor \in 1 .. num_pages + 1
    /\ req.class \in Class \union {Nil} /\ req.bucket \in Int /\ req.num_allocs \in 0 .. 1

\* The free count of a page is the number of its free cells, which is what the
\* assertions of alloc_from_page (num_free_cells > 0, and a cell is found) need.
NumFreeIsExact == \A p \in Pages : num_free[p] = Cardinality(freeBits[p])

\* A page that still has a bump pointer has never handed out the cells from it
\* on, and keeps two or more of them: the bump allocation always takes a free
\* cell, whatever the sweep has freed behind it.
BumpRegionIsFree ==
    \A p \in Pages : bump[p] # Nil =>
        /\ bump[p] .. NumCells[cell_class[p]] - 1 \subseteq freeBits[p]
        /\ bump[p] + 2 <= NumCells[cell_class[p]]

\* Every call of _ejs_gc_alloc for more than 64 bytes returns a cell or a large object
\* or throws: a collection that gained nothing is not repeated, also when the retry,
\* which subtracts OBJECT_SIZE_LOW_LIMIT_BITS from the bucket a second time, goes on
\* with the list of the smallest class.  (For smaller objects that second subtraction
\* leaves the bounds of heap_pages[], and nothing is claimed.)
AllocReturns ==
    phase = "alloc" /\ req.class >= OBJECT_SIZE_LOW_LIMIT_BITS ~> phase = "idle"

\* The header of a page tells the truth about its cells through formatting,
\* allocation, sweeping and recycling: links and fields are in range, num_free_cells
\* counts the free ones, and nothing behind bump_ptr is in use.
HeadersExact == TypeOK /\ NumFreeIsExact /\ BumpRegionIsFree
=============================================================================
