-------------------------- MODULE EjsGCPages_proofs --------------------------
(***************************************************************************)
(* The headers of the pages are exact, for every arena size, set of size   *)
(* classes and number of cells on a page.                                  *)
(*                                                                         *)
(* The argument does not need the page lists to be well formed: a page may *)
(* even stand in two of them, since _ejs_gc_alloc computes the bucket of a *)
(* retry from a bucket.  It needs only that every link leads to a page     *)
(* that has been handed out.                                               *)
(***************************************************************************)
EXTENDS EjsGCPages, FiniteSetTheorems, WellFoundedInduction, TLAPS

\* The lists' record with the nodes Q; Nil is one of Q.
ListState(Q) ==
    [prev : [Page -> Q], next : [Page -> Q], head : [HeapPagesIndex -> Q],
     tail : [HeapPagesIndex -> Q], free_pages : Q]

\* Every link leads to a page that has a PageInfo, or nowhere.
LinksInv == lists \in ListState(Pages \union {Nil})

\* Objects of class c live on pages: the list of c is one of heap_pages[].
Small(c) == Ffs(c) - OBJECT_SIZE_LOW_LIMIT_BITS \in HeapPagesIndex

\* A header: the class, the free cells, their number and the bump pointer.
HeaderInv(c, bits, n, bmp) ==
    /\ c \in Class /\ Small(c)
    /\ bits \subseteq Cells(c)
    /\ n = Cardinality(bits)
    /\ bmp \in Nat \union {Nil}
    /\ bmp # Nil => bmp .. NumCells[c] - 1 \subseteq bits /\ bmp + 2 <= NumCells[c]

HeadersInv ==
    /\ cell_class \in [Page -> Class \union {Nil}]
    /\ freeBits \in [Page -> SUBSET Nat]
    /\ num_free \in [Page -> Int]
    /\ bump \in [Page -> Nat \union {Nil}]
    /\ \A p \in Pages : HeaderInv(cell_class[p], freeBits[p], num_free[p], bump[p])

\* An allocation in progress has a class; only a collection that the program
\* asked for has none.  A large class never gets a small bucket, not even when
\* the bucket is computed again.
CallInv ==
    /\ req \in [class : Class \union {Nil}, bucket : Int, num_allocs : 0 .. 1]
    /\ req.class = Nil => req = NoReq
    /\ req.class # Nil => Small(req.class) \/ req.bucket > OBJECT_SIZE_HIGH_LIMIT_BITS
    /\ phase = "alloc" => req.class \in Class
    /\ phase \in {"idle", "alloc", "sweep", "undefined"}
    /\ cursor \in 1 .. num_pages + 1

PagesInv ==
    /\ num_pages \in 0 .. MaxPages
    /\ LinksInv /\ HeadersInv /\ CallInv
    /\ los_list \in [LosId -> Class \union {Nil}]

-----------------------------------------------------------------------------
(* The list operations keep the links inside a set of nodes.               *)

LEMMA AppendType ==
    ASSUME NEW Q, Nil \in Q, Q \subseteq PageOrNil,
           NEW s \in ListState(Q), NEW l \in HeapPagesIndex, NEW n \in Q \ {Nil}
    PROVE  _ejs_list_append_node(s, l, n) \in ListState(Q)
<1>1. n \in Page /\ s.tail[l] \in Q
  BY DEF ListState, PageOrNil
<1>2. CASE s.tail[l] = Nil
  BY <1>1, <1>2 DEF _ejs_list_append_node, ListState
<1>3. CASE s.tail[l] # Nil
  <2>1. s.tail[l] \in Page
    BY <1>1, <1>3 DEF PageOrNil
  <2> QED
    BY <1>1, <1>3, <2>1 DEF _ejs_list_append_node, ListState
<1> QED
  BY <1>2, <1>3

LEMMA PrependType ==
    ASSUME NEW Q, Nil \in Q, Q \subseteq PageOrNil,
           NEW s \in ListState(Q), NEW l \in HeapPagesIndex, NEW n \in Q \ {Nil}
    PROVE  _ejs_list_prepend_node(s, l, n) \in ListState(Q)
<1>1. n \in Page /\ s.head[l] \in Q
  BY DEF ListState, PageOrNil
<1>2. CASE s.head[l] = Nil
  BY <1>1, <1>2 DEF _ejs_list_prepend_node, ListState
<1>3. CASE s.head[l] # Nil
  <2>1. s.head[l] \in Page
    BY <1>1, <1>3 DEF PageOrNil
  <2> QED
    BY <1>1, <1>3, <2>1 DEF _ejs_list_prepend_node, ListState
<1> QED
  BY <1>2, <1>3

LEMMA PopType ==
    ASSUME NEW Q, Nil \in Q, Q \subseteq PageOrNil,
           NEW s \in ListState(Q), NEW l \in HeapPagesIndex
    PROVE  _ejs_list_pop_head(s, l) \in ListState(Q)
<1> DEFINE h == s.head[l]
<1>1. h \in Q
  BY DEF ListState
<1>2. CASE h = Nil
  BY <1>2 DEF _ejs_list_pop_head
<1>3. CASE h # Nil
  <2>1. h \in Page /\ s.next[h] \in Q
    BY <1>1, <1>3 DEF PageOrNil, ListState
  <2> DEFINE t == IF s.tail[l] = h THEN Nil ELSE s.tail[l]
             x == s.next[h]
  <2>2. t \in Q /\ x \in Q
    BY <2>1 DEF ListState
  <2>3. _ejs_list_pop_head(s, l) =
            [s EXCEPT !.head[l] = x, !.tail[l] = t, !.next[h] = Nil, !.prev[h] = Nil]
    BY <1>3 DEF _ejs_list_pop_head
  <2> HIDE DEF h, t, x
  <2>4. /\ [s.head EXCEPT ![l] = x] \in [HeapPagesIndex -> Q]
        /\ [s.tail EXCEPT ![l] = t] \in [HeapPagesIndex -> Q]
        /\ [s.next EXCEPT ![h] = Nil] \in [Page -> Q]
        /\ [s.prev EXCEPT ![h] = Nil] \in [Page -> Q]
    BY <2>2 DEF ListState
  <2>5. _ejs_list_pop_head(s, l) =
            [s EXCEPT !.head = [s.head EXCEPT ![l] = x], !.tail = [s.tail EXCEPT ![l] = t],
                      !.next = [s.next EXCEPT ![h] = Nil], !.prev = [s.prev EXCEPT ![h] = Nil]]
    BY <2>3 DEF ListState
  <2> QED
    BY <2>4, <2>5 DEF ListState
<1> QED
  BY <1>2, <1>3

LEMMA UnlinkType ==
    ASSUME NEW Q, Nil \in Q, Q \subseteq PageOrNil,
           NEW s \in ListState(Q), NEW n \in Q \ {Nil}
    PROVE  Unlink(s, n) \in ListState(Q)
<1>1. n \in Page /\ s.next[n] \in Q /\ s.prev[n] \in Q
  BY DEF ListState, PageOrNil
<1>2. DOMAIN s.prev = Page /\ DOMAIN s.next = Page
  BY DEF ListState
<1> QED
  BY <1>1, <1>2 DEF Unlink, ListState

LEMMA DetachType ==
    ASSUME NEW Q, Nil \in Q, Q \subseteq PageOrNil,
           NEW s \in ListState(Q), NEW l \in HeapPagesIndex, NEW n \in Q \ {Nil}
    PROVE  _ejs_list_detach_node(s, l, n) \in ListState(Q)
<1>1. n \in Page /\ s.next[n] \in Q /\ s.prev[n] \in Q
  BY DEF ListState, PageOrNil
<1>2. Unlink(s, n) \in ListState(Q)
  BY UnlinkType
<1> QED
  BY <1>1, <1>2 DEF _ejs_list_detach_node, ListState

LEMMA MacroTypes ==
    ASSUME NEW Q, Nil \in Q, Q \subseteq PageOrNil,
           NEW s \in ListState(Q), NEW n \in Q \ {Nil}
    PROVE  EJS_LIST_PREPEND(s, n) \in ListState(Q) /\ EJS_LIST_DETACH(s, n) \in ListState(Q)
<1>1. n \in Page /\ s.next[n] \in Q /\ s.free_pages \in Q /\ DOMAIN s.prev = Page
  BY DEF ListState, PageOrNil
<1>2. Unlink(s, n) \in ListState(Q)
  BY UnlinkType
<1>3. EJS_LIST_PREPEND(s, n) \in ListState(Q)
  BY <1>1 DEF EJS_LIST_PREPEND, ListState
<1>4. EJS_LIST_DETACH(s, n) \in ListState(Q)
  BY <1>1, <1>2 DEF EJS_LIST_DETACH, ListState
<1> QED
  BY <1>3, <1>4

-----------------------------------------------------------------------------
(* Headers.                                                                *)

LEMMA NilIsNone ==
    Nil \notin Class /\ Nil \notin Page
<1>1. ASSUME NEW c \in Class PROVE c # Nil
  <2>1. c \in Int
    BY ClassAssumption
  <2> QED
    BY <2>1, NilAssumption
<1>2. ASSUME NEW p \in Page PROVE p # Nil
  <2>1. p \in Int
    BY PagesAssumption DEF Page
  <2> QED
    BY <2>1, NilAssumption
<1> QED
  BY <1>1, <1>2

LEMMA CellsFinite ==
    ASSUME NEW c \in Class
    PROVE  /\ IsFiniteSet(Cells(c)) /\ Cardinality(Cells(c)) = NumCells[c]
           /\ Cells(c) \subseteq Nat /\ NumCells[c] \in Nat /\ NumCells[c] >= 2
<1>1. NumCells[c] \in Nat \ {0, 1}
  BY CellsAssumption
<1>2. NumCells[c] - 1 \in Int /\ 0 \in Int /\ 0 <= NumCells[c] - 1
  BY <1>1
<1>3. IsFiniteSet(Cells(c))
  BY <1>2, FS_Interval DEF Cells
<1>4. Cardinality(0 .. NumCells[c] - 1) =
          IF 0 > NumCells[c] - 1 THEN 0 ELSE (NumCells[c] - 1) - 0 + 1
  BY <1>2, FS_Interval, Zenon
<1>5. Cardinality(Cells(c)) = NumCells[c]
  BY <1>1, <1>4 DEF Cells
<1> QED
  BY <1>1, <1>3, <1>5 DEF Cells

\* A set of natural numbers has a least member, which a search finds.
LEMMA LeastNumber ==
    ASSUME NEW S \in SUBSET Nat, S # {}
    PROVE  (CHOOSE i \in S : \A j \in S : i <= j) \in S
<1>1. \E x \in S : \A y \in S : ~(<<y, x>> \in OpToRel(<, Nat))
  BY NatLessThanWellFounded, WFMin
<1>2. PICK x \in S : \A y \in S : ~(<<y, x>> \in OpToRel(<, Nat))
  BY <1>1
<1>3. ASSUME NEW y \in S PROVE x <= y
  <2>1. x \in Nat /\ y \in Nat /\ <<y, x>> \in Nat \X Nat
    OBVIOUS
  <2>2. ~(y < x)
    BY <1>2, <2>1 DEF OpToRel
  <2> QED
    BY <2>1, <2>2
<1> QED
  BY <1>3

\* alloc_from_page finds a free cell wherever the count promises one: its two
\* assertions hold.  The header is exact afterwards.
LEMMA TakeCell ==
    ASSUME NEW p, NEW c, NEW bits, NEW n, NEW bmp, HeaderInv(c, bits, n, bmp), n # 0
    PROVE  /\ CellTaken(p, bits, bmp) \in bits
           /\ HeaderInv(c, bits \ {CellTaken(p, bits, bmp)}, n - 1, BumpAfter(bmp, NumCells[c]))
<1>1. /\ c \in Class /\ Small(c) /\ bits \subseteq Cells(c) /\ n = Cardinality(bits)
      /\ bmp \in Nat \union {Nil}
      /\ bmp # Nil => bmp .. NumCells[c] - 1 \subseteq bits /\ bmp + 2 <= NumCells[c]
  BY DEF HeaderInv
<1>2. NumCells[c] \in Nat /\ Cells(c) \subseteq Nat /\ IsFiniteSet(Cells(c))
  BY <1>1, CellsFinite
<1>3. IsFiniteSet(bits) /\ bits \in SUBSET Nat
  BY <1>1, <1>2, FS_Subset
<1>4. bits # {}
  BY <1>1, FS_EmptySet
<1> DEFINE t == CellTaken(p, bits, bmp)
<1>5. t \in bits /\ (bmp # Nil => t = bmp)
  <2>1. CASE bmp = Nil
    BY <1>3, <1>4, <2>1, LeastNumber DEF CellTaken
  <2>2. CASE bmp # Nil
    BY <1>1, <1>2, <2>2 DEF CellTaken
  <2> QED
    BY <2>1, <2>2
<1> HIDE DEF t
<1>6. Cardinality(bits \ {t}) = n - 1
  BY <1>1, <1>3, <1>5, FS_RemoveElement
<1> DEFINE b == BumpAfter(bmp, NumCells[c])
<1>7. b # Nil => bmp # Nil /\ b = bmp + 1 /\ bmp + 3 <= NumCells[c]
  BY <1>1, <1>2 DEF BumpAfter
<1>8. b \in Nat \union {Nil}
  BY <1>1 DEF BumpAfter
<1> HIDE DEF b
<1>9. ASSUME b # Nil
      PROVE  b .. NumCells[c] - 1 \subseteq bits \ {t} /\ b + 2 <= NumCells[c]
  <2>1. bmp \in Nat /\ b = bmp + 1 /\ t = bmp /\ bmp + 3 <= NumCells[c]
    BY <1>1, <1>5, <1>7, <1>9
  <2>2. b .. NumCells[c] - 1 \subseteq bmp .. NumCells[c] - 1 /\ t \notin b .. NumCells[c] - 1
    BY <1>2, <2>1
  <2>3. bmp .. NumCells[c] - 1 \subseteq bits
    BY <1>1, <1>7, <1>9
  <2> QED
    BY <1>2, <2>1, <2>2, <2>3
<1>10. HeaderInv(c, bits \ {t}, n - 1, b)
  BY <1>1, <1>6, <1>8, <1>9 DEF HeaderInv
<1> QED
  BY <1>5, <1>10 DEF t, b

\* A page that is formatted, fresh or recycled, starts from an exact header.
LEMMA FreshHeader ==
    ASSUME NEW c \in Class, Small(c)
    PROVE  HeaderInv(c, Cells(c), NumCells[c], 0) /\ NumCells[c] # 0
<1>1. /\ Cardinality(Cells(c)) = NumCells[c]
      /\ NumCells[c] \in Nat /\ NumCells[c] >= 2
  BY CellsFinite
<1> QED
  BY <1>1 DEF HeaderInv, Cells

\* alloc_from_page, with the move of a full page to the end of its list.
LEMMA AllocOnPage ==
    ASSUME PagesInv, num_pages' \in 0 .. MaxPages,
           NEW p \in Pages', Pages' \subseteq Pages \union {p},
           NEW b \in HeapPagesIndex, NEW ls \in ListState(Pages' \union {Nil}),
           NEW c, NEW bits, NEW n, NEW bmp, HeaderInv(c, bits, n, bmp), n # 0,
           alloc_from_page(p, b, ls, c, bits, n, bmp)
    PROVE  LinksInv' /\ HeadersInv'
<1> DEFINE Q == Pages' \union {Nil}
           t == CellTaken(p, bits, bmp)
           a == BumpAfter(bmp, NumCells[c])
<1>1. p \in Page /\ Pages' \subseteq Page /\ Q \subseteq PageOrNil /\ Nil \in Q /\ p # Nil
  BY PagesAssumption, NilAssumption DEF Page, Pages, PageOrNil
<1>2. HeaderInv(c, bits \ {t}, n - 1, a)
  BY TakeCell
<1>3. /\ c \in Class /\ bits \ {t} \in SUBSET Nat /\ n - 1 \in Int /\ a \in Nat \union {Nil}
  <2>1. c \in Class /\ bits \subseteq Cells(c) /\ n = Cardinality(bits) /\ a \in Nat \union {Nil}
    BY <1>2 DEF HeaderInv
  <2>2. IsFiniteSet(Cells(c)) /\ Cells(c) \subseteq Nat
    BY <2>1, CellsFinite
  <2>3. n \in Nat
    BY <2>1, <2>2, FS_Subset, FS_CardinalityType
  <2> QED
    BY <2>1, <2>2, <2>3
<1>4. lists' \in ListState(Q)
  <2>1. _ejs_list_pop_head(ls, b) \in ListState(Q)
    BY <1>1, PopType
  <2>2. _ejs_list_append_node(_ejs_list_pop_head(ls, b), b, p) \in ListState(Q)
    BY <1>1, <2>1, AppendType
  <2> QED
    BY <2>2 DEF alloc_from_page
<1>5. /\ cell_class' = [cell_class EXCEPT ![p] = c]
      /\ freeBits' = [freeBits EXCEPT ![p] = bits \ {t}]
      /\ num_free' = [num_free EXCEPT ![p] = n - 1]
      /\ bump' = [bump EXCEPT ![p] = a]
  BY DEF alloc_from_page
<1> HIDE DEF t, a
<1>6. /\ cell_class \in [Page -> Class \union {Nil}]
      /\ freeBits \in [Page -> SUBSET Nat]
      /\ num_free \in [Page -> Int]
      /\ bump \in [Page -> Nat \union {Nil}]
      /\ \A q \in Pages : HeaderInv(cell_class[q], freeBits[q], num_free[q], bump[q])
  BY DEF PagesInv, HeadersInv
<1>7. /\ cell_class' \in [Page -> Class \union {Nil}]
      /\ freeBits' \in [Page -> SUBSET Nat]
      /\ num_free' \in [Page -> Int]
      /\ bump' \in [Page -> Nat \union {Nil}]
  BY <1>3, <1>5, <1>6
<1>8. ASSUME NEW q \in Pages'
      PROVE  HeaderInv(cell_class'[q], freeBits'[q], num_free'[q], bump'[q])
  <2>1. CASE q = p
    BY <1>1, <1>2, <1>5, <1>6, <2>1
  <2>2. CASE q # p
    <3>1. q \in Pages /\ q \in Page
      BY <1>1, <2>2
    <3> QED
      BY <1>5, <1>6, <2>2, <3>1
  <2> QED
    BY <2>1, <2>2
<1> QED
  BY <1>4, <1>7, <1>8 DEF LinksInv, HeadersInv, HeaderInv

LEMMA AllocOnArenaPage ==
    ASSUME PagesInv, num_pages' \in 0 .. MaxPages,
           NEW p \in Pages', Pages' \subseteq Pages \union {p},
           NEW b \in HeapPagesIndex, NEW ls \in ListState(Pages' \union {Nil}),
           req.class \in Class, Small(req.class), alloc_page_from_arena(p, b, ls)
    PROVE  LinksInv' /\ HeadersInv'
<1> DEFINE Q == Pages' \union {Nil}
           c == req.class
<1>1. Q \subseteq PageOrNil /\ Nil \in Q /\ p \in Q \ {Nil}
  BY PagesAssumption, NilAssumption DEF Page, Pages, PageOrNil
<1>2. _ejs_list_prepend_node(ls, b, p) \in ListState(Q)
  BY <1>1, PrependType
<1>3. HeaderInv(c, Cells(c), NumCells[c], 0) /\ NumCells[c] # 0
  BY FreshHeader
<1>4. alloc_from_page(p, b, _ejs_list_prepend_node(ls, b, p), c, Cells(c), NumCells[c], 0)
  BY DEF alloc_page_from_arena
<1> QED
  BY <1>2, <1>3, <1>4, AllocOnPage

-----------------------------------------------------------------------------
(* The steps.                                                              *)

LEMMA CallDone ==
    ASSUME PagesInv, num_pages' \in {num_pages, num_pages + 1}, Done
    PROVE  CallInv'
<1>1. NoReq \in [class : Class \union {Nil}, bucket : Int, num_allocs : 0 .. 1]
  BY DEF NoReq
<1>2. cursor \in 1 .. num_pages + 1 /\ num_pages \in Int
  BY PagesAssumption DEF PagesInv, CallInv
<1>3. cursor' \in 1 .. num_pages' + 1
  <2>1. cursor' = cursor
    BY DEF Done
  <2>2. CASE num_pages' = num_pages
    BY <1>2, <2>1, <2>2
  <2>3. CASE num_pages' = num_pages + 1
    BY <1>2, <2>1, <2>3
  <2> QED
    BY <2>2, <2>3
<1>4. req' = NoReq /\ NoReq.class = Nil /\ phase' = "idle"
  BY DEF Done, NoReq
<1> QED
  BY <1>1, <1>3, <1>4 DEF CallInv

LEMMA PagesKept ==
    ASSUME PagesInv, UNCHANGED pageVars
    PROVE  num_pages' \in 0 .. MaxPages /\ LinksInv' /\ HeadersInv'
               /\ los_list' \in [LosId -> Class \union {Nil}]
BY DEF PagesInv, pageVars, LinksInv, HeadersInv, Pages, HeaderInv

LEMMA CallSteps ==
    ASSUME PagesInv, _ejs_gc_collect \/ \E c \in Class : _ejs_gc_alloc(c)
    PROVE  PagesInv'
<1>1. num_pages' \in 0 .. MaxPages /\ LinksInv' /\ HeadersInv'
        /\ los_list' \in [LosId -> Class \union {Nil}]
  BY PagesKept DEF _ejs_gc_collect, _ejs_gc_alloc
<1>2. cursor' = 1 /\ num_pages' = num_pages /\ num_pages \in Nat
  BY DEF _ejs_gc_collect, _ejs_gc_alloc, pageVars, PagesInv
<1>3. CASE _ejs_gc_collect
  BY <1>1, <1>2, <1>3 DEF PagesInv, CallInv, NoReq, _ejs_gc_collect
<1>4. ASSUME NEW c \in Class, _ejs_gc_alloc(c) PROVE CallInv'
  <2>1. c \in Int /\ c # Nil
    BY ClassAssumption, NilAssumption
  <2>2. phase' \in {"alloc", "sweep"} /\
        \E k \in 0 .. 1 : req' = [class |-> c, bucket |-> Ffs(c), num_allocs |-> k]
    BY <1>4 DEF _ejs_gc_alloc
  <2>3. Ffs(c) \in Int
    BY <2>1 DEF Ffs, OBJECT_SIZE_LOW_LIMIT_BITS
  <2>4. /\ req' \in [class : Class \union {Nil}, bucket : Int, num_allocs : 0 .. 1]
        /\ req'.class = c /\ req'.bucket = Ffs(c)
    BY <2>2, <2>3
  <2>5. Small(c) \/ Ffs(c) > OBJECT_SIZE_HIGH_LIMIT_BITS
    BY <2>1, ClassAssumption DEF Small, HeapPagesIndex, Ffs, OBJECT_SIZE_LOW_LIMIT_BITS,
                                 OBJECT_SIZE_HIGH_LIMIT_BITS
  <2> QED
    BY <1>2, <2>1, <2>2, <2>4, <2>5 DEF CallInv
<1> QED
  BY <1>1, <1>3, <1>4 DEF PagesInv

LEMMA OutOfMemoryStep ==
    ASSUME PagesInv, phase = "alloc", NEW bucket \in Int, OutOfMemory(bucket),
           bucket = req.bucket \/ Small(req.class)
    PROVE  PagesInv'
<1>1. num_pages' \in 0 .. MaxPages /\ LinksInv' /\ HeadersInv'
        /\ los_list' \in [LosId -> Class \union {Nil}]
  BY PagesKept DEF OutOfMemory
<1>2. cursor' = 1 /\ num_pages' = num_pages /\ num_pages \in Nat
  BY DEF OutOfMemory, pageVars, PagesInv
<1> SUFFICES CallInv'
  BY <1>1 DEF PagesInv
<1>3. req.class \in Class /\ req \in [class : Class \union {Nil}, bucket : Int, num_allocs : 0 .. 1]
  BY DEF PagesInv, CallInv
<1>4. CASE phase' = "idle" /\ req' = NoReq
  BY <1>2, <1>4 DEF CallInv, NoReq
<1>5. CASE phase' = "sweep" /\ req' = [req EXCEPT !.bucket = bucket, !.num_allocs = 0]
  <2>1. Nil \notin Class
    BY NilIsNone
  <2>2. /\ req' \in [class : Class \union {Nil}, bucket : Int, num_allocs : 0 .. 1]
        /\ req'.class = req.class /\ req'.bucket = bucket
    <3>1. req' = [class |-> req.class, bucket |-> bucket, num_allocs |-> 0]
      BY <1>3, <1>5
    <3> QED
      BY <1>3, <3>1
  <2> QED
    BY <1>2, <1>3, <1>5, <2>1, <2>2 DEF CallInv, PagesInv
<1> QED
  BY <1>4, <1>5 DEF OutOfMemory

LEMMA LosStep ==
    ASSUME PagesInv, alloc_from_los
    PROVE  PagesInv'
<1>1. req.bucket \in Int /\ phase = "alloc" /\ req.class \in Class
  BY DEF PagesInv, CallInv, alloc_from_los
<1>2. CASE OutOfMemory(req.bucket)
  BY <1>1, <1>2, OutOfMemoryStep
<1>3. ASSUME NEW l \in LosId, los_list' = [los_list EXCEPT ![l] = req.class], Done,
             UNCHANGED <<num_pages, cell_class, freeBits, num_free, bump, lists>>
      PROVE  PagesInv'
  <2>1. num_pages' \in 0 .. MaxPages /\ num_pages' \in {num_pages, num_pages + 1}
    BY <1>3 DEF PagesInv
  <2>2. CallInv'
    BY <1>3, <2>1, CallDone
  <2>3. LinksInv' /\ HeadersInv'
    BY <1>3 DEF PagesInv, LinksInv, HeadersInv, Pages, HeaderInv
  <2>4. los_list' \in [LosId -> Class \union {Nil}]
    BY <1>1, <1>3 DEF PagesInv
  <2> QED
    BY <2>1, <2>2, <2>3, <2>4 DEF PagesInv
<1> QED
  BY <1>2, <1>3 DEF alloc_from_los

LEMMA AllocPagesStep ==
    ASSUME PagesInv, AllocFromPages
    PROVE  PagesInv'
<1> DEFINE b == req.bucket - OBJECT_SIZE_LOW_LIMIT_BITS
           h == lists.head[b]
           hasRoom == IF h = Nil THEN FALSE ELSE num_free[h] # 0
           Q == Pages \union {Nil}
<1>1. /\ req.bucket \in Int /\ b \in Int /\ phase = "alloc" /\ req.class \in Class
      /\ num_pages \in 0 .. MaxPages /\ req.bucket <= OBJECT_SIZE_HIGH_LIMIT_BITS
  BY DEF PagesInv, CallInv, AllocFromPages, OBJECT_SIZE_LOW_LIMIT_BITS
<1>8. Small(req.class)
  <2>1. req.class # Nil
    BY <1>1, NilIsNone
  <2> QED
    BY <1>1, <2>1 DEF PagesInv, CallInv, OBJECT_SIZE_HIGH_LIMIT_BITS
<1>2. lists \in ListState(Q) /\ Q \subseteq PageOrNil /\ Nil \in Q /\ Nil \notin Pages
  BY <1>1, PagesAssumption, NilAssumption DEF PagesInv, LinksInv, Pages, Page, PageOrNil
<1>3. CASE phase' = "undefined" /\ UNCHANGED <<pageVars, cursor, req>>
  <2>1. CallInv'
    BY <1>3 DEF PagesInv, CallInv, pageVars
  <2> QED
    BY <1>3, <2>1, PagesKept DEF PagesInv
<1>4. CASE /\ b \in HeapPagesIndex /\ hasRoom
           /\ alloc_from_page(h, b, lists, cell_class[h], freeBits[h], num_free[h], bump[h])
           /\ Done
           /\ UNCHANGED <<num_pages, los_list>>
  <2>1. h \in Pages /\ num_free[h] # 0
    <3>1. h \in Q
      BY <1>2, <1>4 DEF ListState
    <3> QED
      BY <1>4, <3>1
  <2>2. HeaderInv(cell_class[h], freeBits[h], num_free[h], bump[h])
    BY <2>1 DEF PagesInv, HeadersInv
  <2>3. num_pages' = num_pages /\ Pages' = Pages
    BY <1>4 DEF Pages
  <2> HIDE DEF h, b
  <2>4. LinksInv' /\ HeadersInv'
    BY <1>1, <1>2, <1>4, <2>1, <2>2, <2>3, AllocOnPage
  <2>5. CallInv'
    BY <1>1, <1>4, <2>3, CallDone
  <2> QED
    BY <1>1, <1>4, <2>3, <2>4, <2>5 DEF PagesInv
<1>5. CASE /\ b \in HeapPagesIndex /\ lists.free_pages # Nil
           /\ alloc_page_from_arena(lists.free_pages, b, EJS_LIST_DETACH(lists, lists.free_pages))
           /\ Done
           /\ UNCHANGED <<num_pages, los_list>>
  <2> DEFINE f == lists.free_pages
  <2>1. f \in Q \ {Nil} /\ f \in Pages
    BY <1>2, <1>5 DEF ListState
  <2>2. EJS_LIST_DETACH(lists, f) \in ListState(Q)
    BY <1>2, <2>1, MacroTypes
  <2>3. num_pages' = num_pages /\ Pages' = Pages
    BY <1>5 DEF Pages
  <2>4. alloc_page_from_arena(f, b, EJS_LIST_DETACH(lists, f)) /\ b \in HeapPagesIndex
    BY <1>5
  <2> HIDE DEF f, b
  <2>5. LinksInv' /\ HeadersInv'
    BY <1>8, <1>1, <2>1, <2>2, <2>3, <2>4, AllocOnArenaPage
  <2>6. CallInv'
    BY <1>1, <1>5, <2>3, CallDone
  <2> QED
    BY <1>1, <1>5, <2>3, <2>5, <2>6 DEF PagesInv
<1>6. CASE /\ b \in HeapPagesIndex /\ num_pages < MaxPages
           /\ num_pages' = num_pages + 1
           /\ alloc_page_from_arena(num_pages', b, lists)
           /\ Done
           /\ UNCHANGED los_list
  <2>1. /\ num_pages' \in 0 .. MaxPages /\ num_pages' \in Pages'
        /\ num_pages' \in {num_pages, num_pages + 1}
    BY <1>1, <1>6, PagesAssumption DEF Pages
  <2>2. Pages' \subseteq Pages \union {num_pages'} /\ Pages \subseteq Pages'
    BY <1>1, <1>6 DEF Pages
  <2>3. lists \in ListState(Pages' \union {Nil})
    BY <1>2, <2>2 DEF ListState
  <2> HIDE DEF b
  <2>4. LinksInv' /\ HeadersInv'
    BY <1>8, <1>1, <1>6, <2>1, <2>2, <2>3, AllocOnArenaPage
  <2>5. CallInv'
    BY <1>6, <2>1, CallDone
  <2> QED
    BY <1>6, <2>1, <2>4, <2>5 DEF PagesInv
<1>7. CASE OutOfMemory(b)
  BY <1>8, <1>1, <1>7, OutOfMemoryStep
<1> QED
  BY <1>3, <1>4, <1>5, <1>6, <1>7 DEF AllocFromPages

\* Freed cells were in use, so the count grows by their number; the cells behind
\* the bump pointer stay free.
LEMMA SweepPageStep ==
    ASSUME PagesInv, NEW dead, sweep_heap(dead)
    PROVE  PagesInv'
<1> DEFINE p == cursor
           c == cell_class[p]
           Q == Pages \union {Nil}
<1>1. /\ p \in Pages /\ Pages' = Pages /\ num_pages' = num_pages
      /\ num_pages \in 0 .. MaxPages /\ Pages \subseteq Page
  BY PagesAssumption DEF sweep_heap, PagesInv, Pages, Page
<1>2. HeaderInv(c, freeBits[p], num_free[p], bump[p]) /\ c \in Class /\ Small(c)
  BY <1>1 DEF PagesInv, HeadersInv, HeaderInv
<1>3. /\ freeBits[p] \subseteq Cells(c) /\ num_free[p] = Cardinality(freeBits[p])
      /\ bump[p] \in Nat \union {Nil}
      /\ bump[p] # Nil => bump[p] .. NumCells[c] - 1 \subseteq freeBits[p]
                            /\ bump[p] + 2 <= NumCells[c]
  BY <1>2 DEF HeaderInv
<1>4. IsFiniteSet(Cells(c)) /\ Cells(c) \subseteq Nat
  BY <1>2, CellsFinite
<1>5. dead \subseteq Cells(c) /\ dead \intersect freeBits[p] = {}
  BY DEF sweep_heap
<1>6. IsFiniteSet(dead) /\ IsFiniteSet(freeBits[p])
  BY <1>3, <1>4, <1>5, FS_Subset
<1>7. Cardinality(freeBits[p] \union dead) = num_free[p] + Cardinality(dead)
        /\ num_free[p] + Cardinality(dead) \in Int
  <2>1. Cardinality(freeBits[p] \intersect dead) = 0
    BY <1>5, FS_EmptySet
  <2>2. Cardinality(freeBits[p]) \in Nat /\ Cardinality(dead) \in Nat
    BY <1>6, FS_CardinalityType
  <2>3. Cardinality(freeBits[p] \union dead) =
            Cardinality(freeBits[p]) + Cardinality(dead) - Cardinality(freeBits[p] \intersect dead)
    BY <1>6, FS_Union
  <2> QED
    BY <1>3, <2>1, <2>2, <2>3
<1>8. HeaderInv(c, freeBits[p] \union dead, num_free[p] + Cardinality(dead), bump[p])
  BY <1>2, <1>3, <1>5, <1>7 DEF HeaderInv
<1> DEFINE bits == freeBits[p] \union dead
           n == num_free[p] + Cardinality(dead)
<1>9. /\ freeBits' = [freeBits EXCEPT ![p] = bits]
      /\ num_free' = [num_free EXCEPT ![p] = n]
      /\ UNCHANGED <<cell_class, bump, los_list, phase, req>> /\ cursor' = cursor + 1
  BY DEF sweep_heap
<1>10. bits \in SUBSET Nat /\ n \in Int
  BY <1>3, <1>4, <1>5, <1>7
<1>11. HeadersInv'
  <2>1. /\ cell_class \in [Page -> Class \union {Nil}]
        /\ freeBits \in [Page -> SUBSET Nat]
        /\ num_free \in [Page -> Int]
        /\ bump \in [Page -> Nat \union {Nil}]
        /\ \A q \in Pages : HeaderInv(cell_class[q], freeBits[q], num_free[q], bump[q])
    BY DEF PagesInv, HeadersInv
  <2>2. HeaderInv(c, bits, n, bump[p])
    BY <1>8
  <2> HIDE DEF bits, n
  <2>3. freeBits' \in [Page -> SUBSET Nat] /\ num_free' \in [Page -> Int]
    BY <1>9, <1>10, <2>1
  <2>4. ASSUME NEW q \in Pages
        PROVE  HeaderInv(cell_class'[q], freeBits'[q], num_free'[q], bump'[q])
    <3>1. q \in Page
      BY <1>1
    <3>2. CASE q = p
      BY <1>9, <2>1, <2>2, <3>1, <3>2
    <3>3. CASE q # p
      BY <1>9, <2>1, <3>1, <3>3
    <3> QED
      BY <3>2, <3>3
  <2> QED
    BY <1>1, <1>9, <2>1, <2>3, <2>4 DEF HeadersInv, HeaderInv
<1>12. LinksInv'
  <2> DEFINE l == Ffs(c) - OBJECT_SIZE_LOW_LIMIT_BITS
  <2>1. lists \in ListState(Q) /\ Q \subseteq PageOrNil /\ Nil \in Q /\ p \in Q \ {Nil}
    BY <1>1, NilIsNone DEF PagesInv, LinksInv, PageOrNil
  <2>4. l \in HeapPagesIndex
    BY <1>2 DEF Small
  <2>2. CASE lists' = lists
    BY <1>1, <2>1, <2>2 DEF LinksInv
  <2>3. CASE lists' = EJS_LIST_PREPEND(_ejs_list_detach_node(lists, l, p), p)
    <3>1. _ejs_list_detach_node(lists, l, p) \in ListState(Q)
      BY <2>4, <2>1, DetachType
    <3>2. lists' \in ListState(Q)
      BY <2>1, <2>3, <3>1, MacroTypes
    <3> QED
      BY <1>1, <3>2 DEF LinksInv
  <2> QED
    BY <2>2, <2>3 DEF sweep_heap
<1>13. CallInv'
  BY <1>1, <1>9 DEF CallInv, PagesInv, Pages
<1> QED
  BY <1>1, <1>9, <1>11, <1>12, <1>13 DEF PagesInv

LEMMA SweepLosStep ==
    ASSUME PagesInv, NEW dead, SweepLos(dead)
    PROVE  PagesInv'
<1>1. /\ UNCHANGED <<num_pages, cell_class, freeBits, num_free, bump, lists, req>>
      /\ cursor' = 1 /\ phase' \in {"idle", "alloc"}
      /\ phase' = "alloc" => req # NoReq
      /\ los_list' = [l \in LosId |-> IF l \in dead THEN Nil ELSE los_list[l]]
  BY DEF SweepLos
<1>2. num_pages' \in 0 .. MaxPages /\ LinksInv' /\ HeadersInv'
  BY <1>1 DEF PagesInv, LinksInv, HeadersInv, Pages, HeaderInv
<1>3. los_list' \in [LosId -> Class \union {Nil}]
  BY <1>1 DEF PagesInv
<1>4. phase' = "alloc" => req'.class \in Class
  BY <1>1 DEF PagesInv, CallInv
<1>5. CallInv'
  BY <1>1, <1>4, PagesAssumption DEF PagesInv, CallInv
<1> QED
  BY <1>2, <1>3, <1>5 DEF PagesInv

LEMMA PagesInit == Init => PagesInv
<1> SUFFICES ASSUME Init PROVE PagesInv
  OBVIOUS
<1>1. LinksInv
  BY DEF Init, LinksInv, ListState, Pages
<1>2. Pages = {}
  BY DEF Init, Pages
<1>3. HeadersInv
  BY <1>2 DEF Init, HeadersInv
<1>4. CallInv
  BY DEF Init, CallInv, NoReq
<1> QED
  BY <1>1, <1>3, <1>4, PagesAssumption DEF Init, PagesInv

LEMMA PagesNext == PagesInv /\ [Next]_vars => PagesInv'
<1> SUFFICES ASSUME PagesInv, [Next]_vars PROVE PagesInv'
  OBVIOUS
<1>1. CASE _ejs_gc_collect \/ \E c \in Class : _ejs_gc_alloc(c)
  BY <1>1, CallSteps
<1>2. CASE AllocStep
  BY <1>2, AllocPagesStep, LosStep DEF AllocStep
<1>3. CASE SweepStep
  BY <1>3, SweepPageStep, SweepLosStep DEF SweepStep
<1>4. CASE UNCHANGED vars
  <2>1. CallInv'
    BY <1>4 DEF PagesInv, CallInv, vars
  <2> QED
    BY <1>4, <2>1, PagesKept DEF vars, pageVars, PagesInv
<1> QED
  BY <1>1, <1>2, <1>3, <1>4 DEF Next

\* The invariant the theorems follow from.
THEOREM PagesInvariance == Spec => []PagesInv
<1> QED
  BY PagesInit, PagesNext, PTL DEF Spec

\* Through formatting, allocation, sweeping and recycling, a page's header tells
\* the truth: num_free_cells counts the cells with CELL_FREE set, all cells from
\* bump_ptr on are free and there are two of them at least, and every link of
\* heap_pages[] and free_pages leads to a page of the arena or nowhere.
THEOREM HeadersAlwaysExact == Spec => []HeadersExact
<1>1. PagesInv => HeadersExact
  <2> SUFFICES ASSUME PagesInv PROVE HeadersExact
    OBVIOUS
  <2>1. num_pages \in 0 .. MaxPages /\ Pages \subseteq Page /\ Pages \union {Nil} \subseteq PageOrNil
    BY PagesAssumption DEF PagesInv, Pages, Page, PageOrNil
  <2>2. /\ lists.prev \in [Page -> PageOrNil] /\ lists.next \in [Page -> PageOrNil]
        /\ lists.head \in [HeapPagesIndex -> PageOrNil]
        /\ lists.tail \in [HeapPagesIndex -> PageOrNil]
        /\ lists.free_pages \in PageOrNil
    BY <2>1 DEF PagesInv, LinksInv, ListState
  <2>3. /\ cell_class \in [Page -> Class \union {Nil}]
        /\ num_free \in [Page -> Int]
        /\ bump \in [Page -> Nat \union {Nil}]
    BY DEF PagesInv, HeadersInv
  <2>4. ASSUME NEW p \in Pages
        PROVE  /\ cell_class[p] # Nil /\ freeBits[p] \subseteq Cells(cell_class[p])
               /\ num_free[p] = Cardinality(freeBits[p])
               /\ bump[p] # Nil =>
                      /\ bump[p] .. NumCells[cell_class[p]] - 1 \subseteq freeBits[p]
                      /\ bump[p] + 2 <= NumCells[cell_class[p]]
    <3>1. HeaderInv(cell_class[p], freeBits[p], num_free[p], bump[p])
      BY DEF PagesInv, HeadersInv
    <3> QED
      BY <3>1, NilIsNone DEF HeaderInv
  <2>5. TypeOK
    BY <2>1, <2>2, <2>3, <2>4 DEF TypeOK, PagesInv, CallInv
  <2> QED
    BY <2>4, <2>5 DEF HeadersExact, NumFreeIsExact, BumpRegionIsFree
<1> QED
  BY <1>1, PagesInvariance, PTL
==============================================================================
