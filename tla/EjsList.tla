------------------------------- MODULE EjsList -------------------------------
(***************************************************************************)
(* The intrusive doubly linked lists of runtime/ejs-types.c and the list   *)
(* macros of ejs-types.h.  All lists share the prev and next fields of     *)
(* their nodes.  A state of the lists is a record                          *)
(*    [prev, next : node -> node or Nil, head, tail : list -> node or Nil, *)
(*     free_pages : node or Nil]                                           *)
(* and every operation maps such a record to another, assignment by        *)
(* assignment in the order of the C code, so that what it does to a list   *)
(* that is not well formed is right too.                                   *)
(***************************************************************************)
EXTENDS Integers

CONSTANT Nil  \* NULL

_ejs_list_append_node(s, l, n) ==
    IF s.tail[l] = Nil
    THEN [s EXCEPT !.head[l] = n, !.tail[l] = n, !.prev[n] = Nil, !.next[n] = Nil]
    ELSE [s EXCEPT !.next[s.tail[l]] = n, !.prev[n] = s.tail[l], !.next[n] = Nil,
                   !.tail[l] = n]

_ejs_list_prepend_node(s, l, n) ==
    IF s.head[l] = Nil
    THEN [s EXCEPT !.head[l] = n, !.tail[l] = n, !.prev[n] = Nil, !.next[n] = Nil]
    ELSE [s EXCEPT !.prev[s.head[l]] = n, !.next[n] = s.head[l], !.prev[n] = Nil,
                   !.head[l] = n]

\* The neighbours of a node are linked to each other.
Unlink(s, n) ==
    [s EXCEPT !.prev = [m \in DOMAIN @ |-> CASE m = n -> Nil
                                             [] m = s.next[n] /\ m # n -> s.prev[n]
                                             [] OTHER -> @[m]],
              !.next = [m \in DOMAIN @ |-> CASE m = n -> Nil
                                             [] m = s.prev[n] /\ m # n -> s.next[n]
                                             [] OTHER -> @[m]]]

_ejs_list_detach_node(s, l, n) ==
    [Unlink(s, n) EXCEPT !.head[l] = IF @ = n THEN s.next[n] ELSE @,
                         !.tail[l] = IF @ = n THEN s.prev[n] ELSE @]

\* The node that becomes the head keeps its prev pointer.
_ejs_list_pop_head(s, l) ==
    LET h == s.head[l]
    IN  IF h = Nil THEN s
        ELSE [s EXCEPT !.head[l] = s.next[h],
                       !.tail[l] = IF @ = h THEN Nil ELSE @,
                       !.next[h] = Nil, !.prev[h] = Nil]

\* The macros for lists with a head pointer only, as used for Arena.free_pages.
EJS_LIST_PREPEND(s, n) ==
    [s EXCEPT !.next[n] = s.free_pages,
              !.prev = [m \in DOMAIN @ |-> IF m = s.free_pages THEN n ELSE @[m]],
              !.free_pages = n]

EJS_LIST_DETACH(s, n) ==
    [Unlink(s, n) EXCEPT !.free_pages = IF @ = n THEN s.next[n] ELSE @]
=============================================================================
