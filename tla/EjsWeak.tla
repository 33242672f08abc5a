------------------------------- MODULE EjsWeak -------------------------------
(* WeakMap and WeakSet (ejs-weakmap.c, ejs-weakset.c) in the inverted          *)
(* representation: a weak collection is empty, and every key keeps, under a    *)
(* hidden symbol, a Map from weak maps to values (a Set of weak sets).  The    *)
(* property is found like any other, on the key or along its prototypes.       *)
EXTENDS Integers

CONSTANTS Objs,        \* objects used as keys and values
          WeakMaps, WeakSets,
          Null, Absent,
          Protos,      \* the prototype functions to begin with
          Frozen,      \* objects that are not extensible
          WeakMapDeletes,  \* whether the program deletes entries that a weak map has
          MaxWeakCalls

ASSUME WeakAssumption ==
  /\ Protos \subseteq [Objs -> Objs \cup {Null}] /\ Frozen \subseteq Objs /\ MaxWeakCalls \in Nat
  /\ WeakMapDeletes \in BOOLEAN
  /\ Null \notin Objs /\ Absent \notin Objs /\ WeakMaps \cap WeakSets = {}
  /\ Objs \cap (WeakMaps \cup WeakSets) = {}

VARIABLES proto,   \* prototypes of the objects
          idata,   \* idata[c][o]: what o's own Map or Set holds for collection c
          owns,    \* owns[k]: the objects with a Map (k = "map") or a Set (k = "set") of their own
          asked,   \* asked[c][o]: what the program put into c under o
          alive,   \* objects and collections the collector has not freed
          held,    \* those the program's own variables refer to
          filling, \* the collection whose constructor runs over an iterable, or Null
          weakCalls

wvars == <<proto, idata, owns, asked, alive, held, filling, weakCalls>>

Colls == WeakMaps \cup WeakSets
kindOf(c) == IF c \in WeakMaps THEN "map" ELSE "set"
Empty == [o \in Objs |-> Absent]

WeakInit ==
  /\ proto \in Protos
  /\ idata = [c \in Colls |-> Empty] /\ asked = [c \in Colls |-> Empty]
  /\ owns = [k \in {"map", "set"} |-> {}]
  /\ alive = Objs /\ held = Objs /\ filling = Null /\ weakCalls = 0

\* The objects _ejs_object_getprop looks at: from the key along the prototypes, as
\* far as the first that owns the property.
Searched(k, key) ==
  {x \in Objs : \A S \in SUBSET Objs :
     key \in S /\ (\A y \in S \ owns[k] : proto[y] # Null => proto[y] \in S) => x \in S}

\* _ejs_object_getprop(key, symbol): the nearest object that owns the property.
getprop(k, key) ==
  LET found == Searched(k, key) \cap owns[k]
  IN IF found = {} THEN Null ELSE CHOOSE o \in found : TRUE

\* Objects without a key among their prototypes and not a prototype of a key.
Alone(o) == proto[o] = Null /\ \A x \in Objs : proto[x] # o

----------------------------------------------------------------------------
\* Fault: a key without data of its own gets a fresh Map although one was found.
AlwaysNew(c, key, value) ==
  /\ owns' = [owns EXCEPT ![kindOf(c)] = @ \cup {key}]
  /\ idata' = [d \in Colls |-> IF d = c THEN [idata[c] EXCEPT ![key] = value]
                               ELSE IF kindOf(d) = kindOf(c) THEN [idata[d] EXCEPT ![key] = Absent] ELSE idata[d]]

\* Into the Map that was found, or into a new one, which a key that is not
\* extensible does not take: the entry is lost with it.
put(c, key, value) ==
  LET o == getprop(kindOf(c), key) IN
  \/ /\ o # Null
     /\ idata' = [idata EXCEPT ![c][o] = value]
     /\ UNCHANGED owns
  \/ /\ o = Null /\ key \notin Frozen
     /\ owns' = [owns EXCEPT ![kindOf(c)] = @ \cup {key}]
     /\ idata' = [idata EXCEPT ![c][key] = value]
  \/ o = Null /\ key \in Frozen /\ UNCHANGED <<idata, owns>>

\* From the Set that was found.
remove(s, value) ==
  LET o == getprop("set", value) IN
  /\ idata' = IF o = Null THEN idata ELSE [idata EXCEPT ![s][o] = Absent]
  /\ UNCHANGED owns

_ejs_WeakMap_prototype_get(m, key) ==
  LET o == getprop("map", key) IN IF o = Null THEN Absent ELSE idata[m][o]

_ejs_WeakMap_prototype_has(m, key) == _ejs_WeakMap_prototype_get(m, key) # Absent

_ejs_WeakSet_prototype_has(s, value) ==
  LET o == getprop("set", value) IN o # Null /\ idata[s][o] # Absent

Call == weakCalls < MaxWeakCalls /\ weakCalls' = weakCalls + 1

_ejs_WeakMap_prototype_set(m, key, value) ==
  /\ m \in WeakMaps /\ {m, key, value} \subseteq held /\ Call
  /\ put(m, key, value)
  /\ asked' = [asked EXCEPT ![m][key] = value]
  /\ UNCHANGED <<proto, alive, held, filling>>

_ejs_WeakSet_prototype_add(s, value) ==
  /\ s \in WeakSets /\ {s, value} \subseteq held /\ Call
  /\ put(s, value, value)
  /\ asked' = [asked EXCEPT ![s][value] = value]
  /\ UNCHANGED <<proto, alive, held, filling>>

\* The stub _ejs_map_delete (see EjsMapSet) erases nothing and answers false: right
\* only when there is no entry.
_ejs_WeakMap_prototype_delete(m, key) ==
  /\ m \in WeakMaps /\ {m, key} \subseteq held /\ Call
  /\ WeakMapDeletes \/ ~_ejs_WeakMap_prototype_has(m, key)
  /\ asked' = [asked EXCEPT ![m][key] = Absent]
  /\ UNCHANGED <<proto, idata, owns, alive, held, filling>>

_ejs_WeakSet_prototype_delete(s, value) ==
  /\ s \in WeakSets /\ {s, value} \subseteq held /\ Call
  /\ remove(s, value)
  /\ asked' = [asked EXCEPT ![s][value] = Absent]
  /\ UNCHANGED <<proto, alive, held, filling>>

----------------------------------------------------------------------------
(* The constructors: the new collection, then set (or add) for each item the   *)
(* iterable gives; between two items the program's iterator runs.  A bad item  *)
(* closes the iterator and throws; the entries made so far stay on their keys. *)

Made(c) == /\ c \notin alive /\ filling = Null
           /\ alive' = alive \cup {c} /\ held' = held \cup {c}
           /\ \A o \in Objs : idata[c][o] = Absent

_ejs_WeakMap_impl(m) == /\ m \in WeakMaps /\ Call /\ Made(m)
                        /\ filling' \in {Null, m}
                        /\ UNCHANGED <<proto, idata, owns, asked>>

_ejs_WeakSet_impl(s) == /\ s \in WeakSets /\ Call /\ Made(s)
                        /\ filling' \in {Null, s}
                        /\ UNCHANGED <<proto, idata, owns, asked>>

NextItem ==
  /\ filling # Null
  /\ \/ \E key, value \in Objs \cap held : _ejs_WeakMap_prototype_set(filling, key, value)
     \/ \E value \in Objs \cap held : _ejs_WeakSet_prototype_add(filling, value)

\* The iterable ends, or IteratorClose throws the error of a bad item.
FillingEnds(thrown) ==
  /\ filling # Null /\ filling' = Null
  /\ held' = IF thrown THEN held \ {filling} ELSE held
  /\ UNCHANGED <<proto, idata, owns, asked, alive, weakCalls>>

Drop(x) == /\ x \in held /\ filling # x
           /\ held' = held \ {x}
           /\ UNCHANGED <<proto, idata, owns, asked, alive, filling, weakCalls>>

----------------------------------------------------------------------------
(* The collector: a key keeps its Map, the Map keeps collections and values.  *)

Scanned(o) ==
  (IF proto[o] = Null THEN {} ELSE {proto[o]})
    \cup UNION {{c, idata[c][o]} : c \in {c \in Colls : idata[c][o] # Absent}}

\* The least set that contains the references and what its objects refer to.
Reached(from) ==
  {x \in Objs \cup Colls : \A S \in SUBSET (Objs \cup Colls) :
     from \subseteq S /\ (\A o \in S \cap Objs : Scanned(o) \subseteq S) => x \in S}

CollectGarbage ==
  /\ alive' = Reached(held) \cap alive /\ alive' # alive
  /\ owns' = [k \in {"map", "set"} |-> owns[k] \cap alive']
  /\ idata' = [c \in Colls |-> [o \in Objs |-> IF o \in alive' THEN idata[c][o] ELSE Absent]]
  /\ asked' = [c \in Colls |-> [o \in Objs |-> IF o \in alive' /\ c \in alive' THEN asked[c][o] ELSE Absent]]
  /\ UNCHANGED <<proto, held, filling, weakCalls>>

WeakNext ==
  \/ \E m \in WeakMaps, key \in Objs :
       \/ _ejs_WeakMap_impl(m)
       \/ _ejs_WeakMap_prototype_delete(m, key)
       \/ \E value \in Objs : _ejs_WeakMap_prototype_set(m, key, value)
  \/ \E s \in WeakSets, value \in Objs :
       \/ _ejs_WeakSet_impl(s)
       \/ _ejs_WeakSet_prototype_add(s, value)
       \/ _ejs_WeakSet_prototype_delete(s, value)
  \/ NextItem
  \/ \E thrown \in BOOLEAN : FillingEnds(thrown)
  \/ \E x \in Objs \cup Colls : Drop(x)
  \/ CollectGarbage

WeakSpec == WeakInit /\ [][WeakNext]_wvars

----------------------------------------------------------------------------
\* Type correctness of the inverted representation: an entry is in a Map or Set
\* that its key owns, and only of live keys.
WeakTypeOK ==
  /\ proto \in [Objs -> Objs \cup {Null}] /\ owns \in [{"map", "set"} -> SUBSET Objs]
  /\ idata \in [Colls -> [Objs -> Objs \cup {Absent}]] /\ asked \in [Colls -> [Objs -> Objs \cup {Absent}]]
  /\ held \subseteq alive /\ alive \subseteq Objs \cup Colls /\ filling \in Colls \cup {Null}
  /\ \A c \in Colls, o \in Objs : idata[c][o] # Absent => o \in owns[kindOf(c)] /\ o \in alive

\* A weak collection answers as if it held its entries itself, though they are
\* spread over the keys: for extensible keys outside each other's prototype
\* chains, get and has tell what was put in last and not deleted since, before
\* and after collections, and one collection's entries never show in another.  Of
\* weak maps this is true only while the program deletes no entry they have.
WeakExact ==
  \A o \in held \cap Objs : Alone(o) /\ o \notin Frozen =>
    /\ \A m \in held \cap WeakMaps :
         /\ _ejs_WeakMap_prototype_get(m, o) = asked[m][o]
         /\ _ejs_WeakMap_prototype_has(m, o) = (asked[m][o] # Absent)
    /\ \A s \in held \cap WeakSets : _ejs_WeakSet_prototype_has(s, o) = (asked[s][o] # Absent)

\* What a program can still get out of a weak map has not been freed: the value
\* of every entry whose key and map it holds, and what those entries keep.
WeakValuesLive ==
  \A m \in held \cap WeakMaps, o \in held \cap Objs :
    _ejs_WeakMap_prototype_get(m, o) \in alive \cup {Absent}

\* The inverted representation gives what a table in each weak collection would:
\* the right entries, for as long as their key lives, with values that live too.
WeakCollections == WeakTypeOK /\ WeakExact /\ WeakValuesLive
==============================================================================
