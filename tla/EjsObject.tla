------------------------------ MODULE EjsObject ------------------------------
(***************************************************************************)
(* Ordinary objects of runtime/ejs-object.c: property descriptors, the     *)
(* internal methods, the functions of Object and the keys of for-in, over  *)
(* the property maps of EjsPropertyMap.                                    *)
(*                                                                         *)
(* Values have identity and nothing else; getters and setters are          *)
(* functions of the program.  Queries are operators on the heap, every     *)
(* operation that changes an object is an action.                          *)
(***************************************************************************)
EXTENDS EjsPropertyMap

CONSTANTS
    Obj,         \* objects
    _ejs_Object_prototype,
    Symbol,      \* the names that are symbols
    Index,       \* the numbers of the names that are whole numbers, 0 or more
    Word,        \* the number of values of a 32-bit integer: 2^32 in the code
    Val,         \* values that are stored
    Fun,         \* functions used as accessors
    undefined, null,
    zero,        \* the value whose bits are all zero, what calloc leaves
    Attributes,  \* the names and descriptor objects given to defineProperty
    Properties,  \* the lists of names and descriptor objects for defineProperties
    MaxCalls     \* bound on the calls of the program

ASSUME NamesAssumption == Symbol \subseteq Name /\ DOMAIN Index \subseteq Name \ Symbol

\* Names may share a number, as "1" and "01" do.
ASSUME IndexAssumption == Index \in [DOMAIN Index -> Nat] /\ Word \in Nat \ {0}

ASSUME ObjAssumption ==
    IsFiniteSet(Obj) /\ _ejs_Object_prototype \in Obj /\ null \notin Obj /\ MaxCalls \in Nat

VARIABLES
    heap,       \* the objects; Nil before they are allocated
    assigning,  \* the call of Object.assign under way, or Nil
    aborted,    \* the process has called abort()
    calls       \* the number of calls so far

vars == <<heap, assigning, aborted, calls>>

Live == {o \in Obj : heap[o] # Nil}

-----------------------------------------------------------------------------
(* Property descriptors.  has is the set of *_SET flags; a flag that is not  *)
(* set reads as FALSE.  value and getter share slot.                         *)

Fields == {"value", "writable", "get", "set", "enumerable", "configurable"}
Flags == {"writable", "enumerable", "configurable"}
Slot == Val \union Fun \union {undefined, zero}
Desc == [has : SUBSET Fields, enumerable : BOOLEAN, configurable : BOOLEAN,
         writable : BOOLEAN, slot : Slot, setter : Fun \union {undefined, zero}]

\* The descriptor objects of the program: flags are Booleans, the others any values.
IsAttributes(a) ==
    DOMAIN a \subseteq Fields /\ \A f \in DOMAIN a : a[f] \in IF f \in Flags THEN BOOLEAN ELSE Slot

ASSUME AttributesAssumption ==
    /\ \A x \in Attributes : x[1] \in Name /\ IsAttributes(x[2])
    /\ \A props \in Properties :
          /\ Len(props) \in Nat
          /\ \A i \in 1 .. Len(props) : props[i][1] \in Name /\ IsAttributes(props[i][2])

\* Descriptors, objects and the calls of setters are not NULL.
ASSUME NilAssumption ==
    /\ Nil \notin Desc \union [proto : Obj \union {null}, extensible : BOOLEAN, map : Maps(Desc)]
    /\ Nil \notin Slot \X Obj

NoFields == [has |-> {}, enumerable |-> FALSE, configurable |-> FALSE,
             writable |-> FALSE, slot |-> zero, setter |-> zero]

Has(d, f) == f \in d.has
_ejs_property_desc_get_value(d) == IF Has(d, "value") THEN d.slot ELSE undefined
_ejs_property_desc_get_getter(d) == IF Has(d, "get") THEN d.slot ELSE undefined
_ejs_property_desc_get_setter(d) == IF Has(d, "set") THEN d.setter ELSE undefined

IsAccessorDescriptor(d) == Has(d, "get") \/ Has(d, "set")
IsDataDescriptor(d) == Has(d, "value") \/ Has(d, "writable")
IsGenericDescriptor(d) == ~IsAccessorDescriptor(d) /\ ~IsDataDescriptor(d)

\* dest with the fields of d that are among fs.
Copy(dest, d, fs) ==
    LET p == d.has \intersect fs
    IN  [has |-> dest.has \union p,
         enumerable |-> IF "enumerable" \in p THEN d.enumerable ELSE dest.enumerable,
         configurable |-> IF "configurable" \in p THEN d.configurable ELSE dest.configurable,
         writable |-> IF "writable" \in p THEN d.writable ELSE dest.writable,
         slot |-> IF p \intersect {"value", "get"} # {} THEN d.slot ELSE dest.slot,
         setter |-> IF "set" \in p THEN d.setter ELSE dest.setter]

\* A descriptor object is a function from the names of its fields.
ToDescriptor(a) ==
    LET Read(f, default) == IF f \in DOMAIN a THEN a[f] ELSE default
    IN  [has |-> DOMAIN a, enumerable |-> Read("enumerable", FALSE),
         configurable |-> Read("configurable", FALSE), writable |-> Read("writable", FALSE),
         slot |-> Read("value", Read("get", zero)), setter |-> Read("set", zero)]

\* The TypeErrors of ToPropertyDescriptor.
DescriptorThrows(a) ==
    \/ \E f \in DOMAIN a \intersect {"get", "set"} : a[f] \notin Fun \union {undefined}
    \/ DOMAIN a \intersect {"get", "set"} # {} /\ DOMAIN a \intersect {"value", "writable"} # {}

\* "set" is written under the condition of "get".
FromPropertyDescriptor(d) ==
    LET fs == (d.has \ {"set"}) \union (IF Has(d, "get") THEN {"set"} ELSE {})
    IN  [f \in fs |-> CASE f = "value" -> d.slot
                        [] f = "get" -> d.slot
                        [] f = "set" -> _ejs_property_desc_get_setter(d)
                        [] OTHER -> d[f]]

Value(v) == [NoFields EXCEPT !.has = {"value"}, !.slot = v]
Plain(v) == [has |-> {"value", "writable", "enumerable", "configurable"}, enumerable |-> TRUE,
             configurable |-> TRUE, writable |-> TRUE, slot |-> v, setter |-> zero]

-----------------------------------------------------------------------------
(* Internal methods.  h is the heap they work on; those that change it give  *)
(* the heap after it and "ok", "reject" (false) or "abort".                  *)

_ejs_object_specop_get_own_property(h, o, P) == _ejs_propertymap_lookup(h[o].map, P)
_ejs_object_specop_get_prototype_of(h, o) == h[o].proto
_ejs_object_specop_is_extensible(h, o) == h[o].extensible

Done(h) == [heap |-> h, status |-> "ok", call |-> Nil]
Reject(h) == [heap |-> h, status |-> "reject", call |-> Nil]

\* o and its prototypes, nearest first; a ring is cut after every object has come once.
ProtoChain(h, o) ==
    LET at[i \in 0 .. Cardinality(Obj)] ==
            IF i = 0 THEN o ELSE IF at[i - 1] = null THEN null ELSE h[at[i - 1]].proto
    IN  [i \in 1 .. Cardinality({j \in DOMAIN at : at[j] # null}) |-> at[i - 1]]

\* Fault: only the object itself is looked for, not its prototypes.
SelfOnly(h, o, V) == V = o

\* Step 6: O is among V and its prototypes.
WouldLoop(h, o, V) == V # null /\ o \in Elements(ProtoChain(h, V))

_ejs_object_specop_set_prototype_of(h, o, V) ==
    IF V = h[o].proto THEN Done(h)
    ELSE IF ~h[o].extensible \/ WouldLoop(h, o, V) THEN Reject(h)
    ELSE Done([h EXCEPT ![o].proto = V])

_ejs_object_specop_preventextensions(h, o) == Done([h EXCEPT ![o].extensible = FALSE])

\* The object of the chain that has P, if any.
Holders(h, o, P) ==
    LET c == ProtoChain(h, o)
        at == {i \in 1 .. Len(c) : _ejs_object_specop_get_own_property(h, c[i], P) # Nil}
    IN  {c[i] : i \in {j \in at : \A k \in at : j <= k}}

_ejs_object_specop_has_property(h, o, P) == Holders(h, o, P) # {}

\* A value, or the call of a getter with its this value.  The value of a data
\* property is read without asking whether it is set.
_ejs_object_specop_get(h, o, P, Receiver) ==
    LET own == CHOOSE x \in Holders(h, o, P) : TRUE
        d == _ejs_object_specop_get_own_property(h, own, P)
    IN  IF Holders(h, o, P) = {} THEN undefined
        ELSE IF IsDataDescriptor(d) THEN d.slot
        ELSE IF _ejs_property_desc_get_getter(d) = undefined THEN undefined
        ELSE <<"call", _ejs_property_desc_get_getter(d), Receiver>>

\* Steps 5 and 6 of [[DefineOwnProperty]]: nothing is asked for that is not so.
Unchanged(cur, d) ==
    \/ d.has = {}
    \/ d.has = cur.has /\ Copy(cur, d, d.has) = cur

\* Fault: a property that is not configurable may still become writable.
RejectsLess(cur, d) ==
    /\ ~cur.configurable
    /\ \/ d.configurable
       \/ IsDataDescriptor(cur) # IsDataDescriptor(d) /\ ~IsGenericDescriptor(d)

\* Steps 7 to 11: the changes a property that is not configurable does not allow.
Rejects(cur, d) ==
    /\ ~cur.configurable
    /\ \/ d.configurable
       \/ Has(d, "enumerable") /\ d.enumerable # cur.enumerable
       \/ /\ ~IsGenericDescriptor(d)
          /\ \/ IsDataDescriptor(cur) # IsDataDescriptor(d)
             \/ /\ IsDataDescriptor(cur)
                /\ ~cur.writable
                /\ d.writable \/ (Has(d, "value") /\ d.slot # _ejs_property_desc_get_value(cur))
             \/ /\ ~IsDataDescriptor(cur)
                /\ \/ Has(d, "set") /\ d.setter # _ejs_property_desc_get_setter(cur)
                   \/ Has(d, "get") /\ d.slot # _ejs_property_desc_get_getter(cur)

\* Step 9: data becomes accessor and the other way round.
Converted(cur, d) ==
    IF IsGenericDescriptor(d) \/ IsDataDescriptor(cur) = IsDataDescriptor(d) THEN cur
    ELSE IF IsDataDescriptor(cur)
    THEN [cur EXCEPT !.has = @ \ {"value", "writable"}, !.slot = undefined, !.writable = FALSE]
    ELSE [cur EXCEPT !.has = @ \ {"get", "set"}, !.slot = undefined, !.setter = undefined]

CommonFields == {"enumerable", "configurable"}
NewProperty(d) ==
    Copy(NoFields, d, CommonFields \union (IF IsGenericDescriptor(d) \/ IsDataDescriptor(d)
                                           THEN {"value", "writable"} ELSE {"get", "set"}))

_ejs_object_specop_define_own_property(h, o, P, d) ==
    LET cur == _ejs_object_specop_get_own_property(h, o, P)
        Insert(new) == [h EXCEPT ![o].map = _ejs_propertymap_insert(@, P, new)]
    IN  IF cur = Nil
        THEN IF ~h[o].extensible THEN Reject(h)
             ELSE IF InsertAborts(h[o].map, P) THEN [Reject(h) EXCEPT !.status = "abort"]
             ELSE Done(Insert(NewProperty(d)))
        ELSE IF Unchanged(cur, d) THEN Done(h)
        ELSE IF Rejects(cur, d) THEN Reject(h)
        ELSE Done([h EXCEPT ![o].map.desc[P] = Copy(Converted(cur, d), d, d.has)])

\* A setter is called with its this value; a property without any of the four
\* fields of data and accessor properties swallows the value.
_ejs_object_specop_set(h, o, P, V, Receiver) ==
    LET own == CHOOSE x \in Holders(h, o, P) : TRUE
        d == IF Holders(h, o, P) = {} THEN Plain(undefined)
             ELSE _ejs_object_specop_get_own_property(h, own, P)
        exists == _ejs_object_specop_get_own_property(h, Receiver, P) # Nil
        setter == _ejs_property_desc_get_setter(d)
    IN  IF IsDataDescriptor(d)
        THEN IF ~d.writable THEN Reject(h)
             ELSE _ejs_object_specop_define_own_property(h, Receiver, P,
                                                         IF exists THEN Value(V) ELSE Plain(V))
        ELSE IF ~IsAccessorDescriptor(d) THEN Done(h)
        ELSE IF setter = undefined THEN Reject(h)
        ELSE [Done(h) EXCEPT !.call = <<setter, Receiver>>]

_ejs_object_specop_delete(h, o, P) ==
    LET d == _ejs_object_specop_get_own_property(h, o, P)
    IN  IF d = Nil THEN Done(h)
        ELSE IF ~d.configurable THEN Reject(h)
        ELSE Done([h EXCEPT ![o].map = _ejs_propertymap_remove(@, P)])

\* The names of s that are in S, in the order of s.
Keep(s, S) ==
    LET run[i \in 0 .. Len(s)] ==
            IF i = 0 THEN <<>>
            ELSE IF s[i] \in S THEN Append(run[i - 1], s[i]) ELSE run[i - 1]
    IN  run[Len(s)]

\* Fault: indices keep their place among the strings.
KeysAsInserted(h, o) == Entries(h[o].map)

\* The integer of a word.
ToInt32(i) == LET w == i % Word IN IF 2 * w >= Word THEN w - Word ELSE w

\* The difference is an int as well.
string_index_compare(a, b) == ToInt32(ToInt32(Index[a]) - ToInt32(Index[b]))

Ascends(s) == \A i, j \in 1 .. Len(s) : i < j => string_index_compare(s[i], s[j]) <= 0

\* One of the lists of the names in s that ascend; where the differences wrap there
\* may be none, and the names may come in any order.
qsort(s) ==
    LET lists == {t \in [1 .. Len(s) -> Elements(s)] : \A i, j \in 1 .. Len(s) : t[i] = t[j] => i = j}
    IN  CHOOSE t \in lists : (\E u \in lists : Ascends(u)) => Ascends(t)

\* Numbers as qsort leaves them, then strings, then symbols as they were created.
_ejs_object_specop_own_property_keys(h, o) ==
    LET order == Entries(h[o].map)
    IN  qsort(Keep(order, DOMAIN Index))
        \o Keep(order, Name \ (DOMAIN Index \union Symbol))
        \o Keep(order, Symbol)

-----------------------------------------------------------------------------
(* Functions of Object that are made of several internal methods.           *)

\* Define along a list of names and descriptors; a rejected one throws and the
\* ones before it stay.
DefineAll(h, o, list) ==
    LET run[i \in 0 .. Len(list)] ==
            IF i = 0 THEN Done(h)
            ELSE IF run[i - 1].status # "ok" THEN run[i - 1]
            ELSE _ejs_object_specop_define_own_property(run[i - 1].heap, o, list[i][1], list[i][2])
    IN  run[Len(list)]

\* Every descriptor object is read before the first property is defined.
DefineProperties(h, o, props) ==
    IF \E i \in 1 .. Len(props) : DescriptorThrows(props[i][2]) THEN Reject(h)
    ELSE DefineAll(h, o, [i \in 1 .. Len(props) |-> <<props[i][1], ToDescriptor(props[i][2])>>])

\* The descriptor that seals or freezes a property.
IntegrityDesc(level, cur) ==
    [NoFields EXCEPT !.has = IF level = "sealed" \/ IsAccessorDescriptor(cur)
                             THEN {"configurable"} ELSE {"configurable", "writable"}]

\* All keys are tried; if one is rejected the object stays extensible.
SetIntegrityLevel(h, o, level) ==
    LET keys == _ejs_object_specop_own_property_keys(h, o)
        run[i \in 0 .. Len(keys)] ==
            IF i = 0 THEN Done(h)
            ELSE LET cur == _ejs_object_specop_get_own_property(run[i - 1].heap, o, keys[i])
                     r == _ejs_object_specop_define_own_property(
                              run[i - 1].heap, o, keys[i], IntegrityDesc(level, cur))
                 IN  [r EXCEPT !.status = IF run[i - 1].status = "ok" THEN @ ELSE run[i - 1].status]
        last == run[Len(keys)]
    IN  IF last.status # "ok" THEN last
        ELSE _ejs_object_specop_preventextensions(last.heap, o)

TestIntegrityLevel(h, o, level) ==
    /\ ~h[o].extensible
    /\ \A P \in Elements(_ejs_object_specop_own_property_keys(h, o)) :
          LET d == _ejs_object_specop_get_own_property(h, o, P)
          IN  ~d.configurable /\ (level = "frozen" /\ IsDataDescriptor(d) => ~d.writable)

Enumerable(h, o, P) == _ejs_object_specop_get_own_property(h, o, P).enumerable

EnumerableOwnNames(h, o) ==
    LET keys == _ejs_object_specop_own_property_keys(h, o)
    IN  Keep(keys, {P \in Elements(keys) \ Symbol : Enumerable(h, o, P)})

\* Of Object and of Reflect.
_ejs_Object_getOwnPropertyDescriptor(h, o, P) ==
    FromPropertyDescriptor(_ejs_object_specop_get_own_property(h, o, P))

\* Properties that are not enumerable are left out here too.
_ejs_Object_getOwnPropertyNames(h, o) ==
    LET order == Entries(h[o].map)
    IN  Keep(order, {P \in Elements(order) \ Symbol : Enumerable(h, o, P)})

_ejs_Object_getOwnPropertySymbols(h, o) ==
    LET order == Entries(h[o].map)
    IN  Keep(order, {P \in Elements(order) \intersect Symbol : Enumerable(h, o, P)})

_ejs_Object_prototype_isPrototypeOf(h, o, V) == o \in Elements(Tail(ProtoChain(h, V)))

\* for-in: the enumerable names of the object and its prototypes.  Names are
\* compared as strings, which for a symbol gives an arbitrary answer g.
name_in_keys(P, keys, g) ==
    \E k \in Elements(keys) : IF {P, k} \intersect Symbol # {} THEN g ELSE P = k

collect_keys(h, o, g) ==
    LET c == ProtoChain(h, o)
        Add(keys, x, P) == IF Enumerable(h, x, P) /\ ~name_in_keys(P, keys, g)
                           THEN Append(keys, P) ELSE keys
        Own(keys, x) == LET order == Entries(h[x].map)
                            at[j \in 0 .. Len(order)] ==
                                IF j = 0 THEN keys ELSE Add(at[j - 1], x, order[j])
                        IN  at[Len(order)]
        run[i \in 0 .. Len(c)] == IF i = 0 THEN <<>> ELSE Own(run[i - 1], c[i])
    IN  run[Len(c)]

-----------------------------------------------------------------------------
(* Operations of the program.  While Object.assign is in a getter or setter  *)
(* the program may call anything.                                            *)

NewObject(proto) == [proto |-> proto, extensible |-> TRUE, map |-> _ejs_propertymap_init]

\* _ejs_object_init_proto.
Init ==
    /\ heap = [o \in Obj |-> IF o = _ejs_Object_prototype THEN NewObject(null) ELSE Nil]
    /\ assigning = Nil /\ aborted = FALSE /\ calls = 0

Runs == ~aborted /\ calls < MaxCalls /\ (assigning = Nil \/ (assigning # Nil /\ assigning.calls))

Apply(r) ==
    /\ Runs /\ calls' = calls + 1
    /\ heap' = r.heap
    /\ aborted' = (r.status = "abort")
    /\ UNCHANGED assigning

\* Object.create, and with no properties _ejs_object_new.
_ejs_Object_create(o, proto, props) ==
    /\ o \notin Live
    /\ proto \in Live \union {null}
    /\ Apply(DefineProperties([heap EXCEPT ![o] = NewObject(proto)], o, props))

_ejs_Object_defineProperty(o, P, a) ==
    /\ o \in Live
    /\ Apply(IF DescriptorThrows(a) THEN Reject(heap)
             ELSE _ejs_object_specop_define_own_property(heap, o, P, ToDescriptor(a)))

_ejs_Object_defineProperties(o, props) == o \in Live /\ Apply(DefineProperties(heap, o, props))

_ejs_object_setprop(o, P, v) == o \in Live /\ Apply(_ejs_object_specop_set(heap, o, P, v, o))

\* Reflect.set with a receiver of its own.
_ejs_Reflect_set(o, P, v, Receiver) ==
    /\ {o, Receiver} \subseteq Live
    /\ Apply(_ejs_object_specop_set(heap, o, P, v, Receiver))

_ejs_op_delete(o, P) == o \in Live /\ Apply(_ejs_object_specop_delete(heap, o, P))

_ejs_Reflect_setPrototypeOf(o, V) ==
    /\ o \in Live /\ V \in Live \union {null}
    /\ Apply(_ejs_object_specop_set_prototype_of(heap, o, V))

\* A prototype that is rejected is "not implemented".
_ejs_Object_setPrototypeOf(o, V) ==
    /\ o \in Live /\ V \in Live \union {null}
    /\ LET r == _ejs_object_specop_set_prototype_of(heap, o, V)
       IN  Apply([r EXCEPT !.status = IF @ = "reject" THEN "abort" ELSE @])

_ejs_Object_preventExtensions(o) == o \in Live /\ Apply(_ejs_object_specop_preventextensions(heap, o))
_ejs_Object_seal(o) == o \in Live /\ Apply(SetIntegrityLevel(heap, o, "sealed"))
_ejs_Object_freeze(o) == o \in Live /\ Apply(SetIntegrityLevel(heap, o, "frozen"))

-----------------------------------------------------------------------------
(* Object.assign walks the insertion list of the source itself.             *)

Cursor(to, from, at) == [to |-> to, from |-> from, at |-> at, calls |-> FALSE]

_ejs_Object_assign(to, from) ==
    /\ {to, from} \subseteq Live
    /\ Runs /\ assigning = Nil /\ calls' = calls + 1
    /\ assigning' = IF heap[from].map.head_insert = Nil THEN Nil
                    ELSE Cursor(to, from, heap[from].map.head_insert)
    /\ UNCHANGED <<heap, aborted>>

\* To the entry after the one at the cursor; if that has been freed, to any.
Advance(h, a) ==
    LET map == h[a.from].map
        after == IF map.desc[a.at] # Nil THEN {map.next_insert[a.at]}
                 ELSE {Nil} \union Elements(Entries(map))
    IN  \E e \in after : assigning' = IF e = Nil THEN Nil ELSE Cursor(a.to, a.from, e)

Assigning(inGetter) == ~aborted /\ assigning # Nil /\ assigning.calls = inGetter

\* Put(to, nextKey, v, true): if it is rejected, assign throws.
AssignPut(v) ==
    LET r == _ejs_object_specop_set(heap, assigning.to, assigning.at, v, assigning.to)
    IN  /\ heap' = r.heap
        /\ aborted' = (r.status = "abort")
        /\ IF r.status = "ok" THEN Advance(r.heap, assigning) ELSE assigning' = Nil

\* The entry at the cursor; a getter is called before the Put.
AssignEntry ==
    /\ Assigning(FALSE)
    /\ LET v == _ejs_object_specop_get(heap, assigning.from, assigning.at, assigning.from)
       IN  \/ /\ ~Enumerable(heap, assigning.from, assigning.at)
              /\ Advance(heap, assigning) /\ UNCHANGED <<heap, aborted>>
           \/ /\ Enumerable(heap, assigning.from, assigning.at)
              /\ v \in Val \union {undefined, zero}
              /\ AssignPut(v)
           \/ /\ Enumerable(heap, assigning.from, assigning.at)
              /\ v \notin Val \union {undefined, zero}
              /\ assigning' = [assigning EXCEPT !.calls = TRUE] /\ UNCHANGED <<heap, aborted>>
    /\ UNCHANGED calls

GetterReturns(v) == Assigning(TRUE) /\ AssignPut(v) /\ UNCHANGED calls

ObjectStep(o) ==
    \/ \E V \in Obj \union {null} :
          \/ \E props \in Properties \union {<<>>} : _ejs_Object_create(o, V, props)
          \/ _ejs_Reflect_setPrototypeOf(o, V) \/ _ejs_Object_setPrototypeOf(o, V)
    \/ \E P \in Name :
          \/ \E v \in Val : \/ _ejs_object_setprop(o, P, v)
                           \/ \E x \in Obj \ {o} : _ejs_Reflect_set(o, P, v, x)
          \/ _ejs_op_delete(o, P)
    \/ \E x \in Attributes : _ejs_Object_defineProperty(o, x[1], x[2])
    \/ \E props \in Properties : _ejs_Object_defineProperties(o, props)
    \/ _ejs_Object_preventExtensions(o) \/ _ejs_Object_seal(o) \/ _ejs_Object_freeze(o)
    \/ \E from \in Obj : _ejs_Object_assign(o, from)

Next ==
    \/ \E o \in Obj : ObjectStep(o)
    \/ AssignEntry \/ \E v \in Val : GetterReturns(v)

Spec == Init /\ [][Next]_vars

-----------------------------------------------------------------------------
(* Properties.                                                             *)

\* The type invariant: prototypes are objects, property maps are well formed hash
\* tables of descriptors, through insertion, removal and rehashing.
TypeOK ==
    /\ aborted \in BOOLEAN
    /\ \A o \in Live :
          /\ heap[o].proto \in Live \union {null}
          /\ heap[o].extensible \in BOOLEAN
          /\ WellFormed(heap[o].map)
          /\ \A P \in Elements(Entries(heap[o].map)) : heap[o].map.desc[P] \in Desc

\* [[SetPrototypeOf]] and Object.create never close a ring of prototypes, however
\* many objects are relinked: [[Get]], [[Set]] and isPrototypeOf end.
PrototypesEnd ==
    \A o \in Live : /\ Cardinality(Elements(ProtoChain(heap, o))) = Len(ProtoChain(heap, o))
                    /\ ~_ejs_Object_prototype_isPrototypeOf(heap, o, o)

\* A property is data or accessor, never both, after any number of conversions
\* by defineProperty: value and getter share their storage.
OneKind ==
    \A o \in Live : \A P \in Elements(Entries(heap[o].map)) :
        ~(IsDataDescriptor(heap[o].map.desc[P]) /\ IsAccessorDescriptor(heap[o].map.desc[P]))

\* What a property that is not configurable keeps.
Kept(d, e) ==
    /\ e # Nil /\ ~e.configurable /\ e.enumerable = d.enumerable
    /\ IsDataDescriptor(d) = IsDataDescriptor(e)
    /\ IsDataDescriptor(d) /\ ~d.writable =>
          ~e.writable /\ _ejs_property_desc_get_value(e) = _ejs_property_desc_get_value(d)
    /\ ~IsDataDescriptor(d) =>
          /\ _ejs_property_desc_get_getter(e) = _ejs_property_desc_get_getter(d)
          /\ _ejs_property_desc_get_setter(e) = _ejs_property_desc_get_setter(d)

\* No operation of the program, with whatever receiver, changes what a property
\* that is not configurable promises, or adds a property to an object that is not
\* extensible, gives it another prototype or makes it extensible again.
PromisesKept ==
    [][\A o \in Live :
          LET old == heap[o]
              new == heap[o]'
          IN  /\ \A P \in Elements(Entries(old.map)) :
                    ~old.map.desc[P].configurable => Kept(old.map.desc[P], new.map.desc[P])
              /\ ~old.extensible =>
                    /\ ~new.extensible /\ new.proto = old.proto
                    /\ Elements(Entries(new.map)) \subseteq Elements(Entries(old.map))]_vars

\* An object that freeze or seal returns for is frozen or sealed as isFrozen and
\* isSealed see it, whatever its properties were.
IntegrityReached ==
    \A o \in Live : \A level \in {"sealed", "frozen"} :
        LET r == SetIntegrityLevel(heap, o, level)
        IN  r.status = "ok" => TestIntegrityLevel(r.heap, o, level)

\* A value assigned without a setter is what the same object then reads, found
\* through the prototypes or not, unless the property is neither data nor accessor.
AssignedIsRead ==
    \A o \in Live, P \in Name, v \in Val :
        LET r == _ejs_object_specop_set(heap, o, P, v, o)
            d == _ejs_object_specop_get_own_property(r.heap, o, P)
        IN  r.status = "ok" /\ r.call = Nil /\ d # Nil /\ ~IsGenericDescriptor(d) =>
                _ejs_object_specop_get(r.heap, o, P, o) = v

\* for-in lists every enumerable name that can be read through the object once,
\* though prototypes repeat names, as long as no symbol is enumerable.
ForInComplete ==
    \A o \in Live :
        LET c == Elements(ProtoChain(heap, o))
            names == UNION {{P \in Elements(Entries(heap[x].map)) : Enumerable(heap, x, P)} : x \in c}
            keys == collect_keys(heap, o, FALSE)
        IN  names \intersect Symbol = {} =>
                Elements(keys) = names /\ Len(keys) = Cardinality(names)

Rank(P) == IF P \in DOMAIN Index THEN 1 ELSE IF P \in Symbol THEN 3 ELSE 2

\* Own keys are the properties of the object, each once: numbers first, ascending if
\* none reaches 2^31, then strings, then symbols.
KeysInOrder ==
    \A o \in Live :
        LET keys == _ejs_object_specop_own_property_keys(heap, o)
        IN  /\ Elements(keys) = Elements(Entries(heap[o].map))
            /\ Len(keys) = Cardinality(Elements(keys))
            /\ \A i, j \in 1 .. Len(keys) : i < j => Rank(keys[i]) <= Rank(keys[j])
            /\ (\A P \in Elements(keys) \intersect DOMAIN Index : 2 * Index[P] < Word) =>
                  \A i, j \in 1 .. Len(keys) :
                      i < j /\ keys[j] \in DOMAIN Index => Index[keys[i]] <= Index[keys[j]]

Before(s, P, Q) == \E i, j \in 1 .. Len(s) : i < j /\ s[i] = P /\ s[j] = Q

\* Strings, and symbols, come in the order of their creation: what comes before a key
\* that was there before the step was there too, and before that key.
OrderKept ==
    [][\A o \in Live :
          LET old == _ejs_object_specop_own_property_keys(heap, o)
              new == _ejs_object_specop_own_property_keys(heap', o)
          IN  \A P, Q \in Name \ DOMAIN Index :
                  Rank(P) = Rank(Q) /\ Before(new, P, Q) /\ Q \in Elements(old) => Before(old, P, Q)]_vars

\* What the object of getOwnPropertyDescriptor says is accepted when it is given
\* back to defineProperty, and leaves the property as it was.
DescriptorRoundTrip ==
    \A o \in Live : \A P \in Elements(Entries(heap[o].map)) :
        LET d == _ejs_object_specop_get_own_property(heap, o, P)
            r == _ejs_object_specop_define_own_property(
                     heap, o, P, ToDescriptor(_ejs_Object_getOwnPropertyDescriptor(heap, o, P)))
            e == _ejs_object_specop_get_own_property(r.heap, o, P)
        IN  /\ r.status = "ok"
            /\ \A f \in CommonFields \union {"writable"} : d[f] = e[f]
            /\ _ejs_property_desc_get_value(d) = _ejs_property_desc_get_value(e)
            /\ _ejs_property_desc_get_getter(d) = _ejs_property_desc_get_getter(e)
            /\ _ejs_property_desc_get_setter(d) = _ejs_property_desc_get_setter(e)

\* The essential invariants of objects: chains of prototypes end, a property has one
\* kind, freeze and seal reach what they promise, what is assigned is read, and
\* descriptors survive the way to an object and back.
ObjectsSound ==
  /\ PrototypesEnd
  /\ OneKind
  /\ IntegrityReached
  /\ AssignedIsRead
  /\ DescriptorRoundTrip

\* Enumeration leaves nothing out and repeats nothing, for own keys and along the
\* prototypes; own keys are numbers in order, then strings and symbols in the order
\* of their creation, after deleting, adding again and rehashing.
KeysExact == [](KeysInOrder /\ ForInComplete) /\ OrderKept
=============================================================================
