------------------------------ MODULE EjsProxy ------------------------------
(***************************************************************************)
(* The internal methods of proxies, runtime/ejs-proxy.c, for a proxy of an *)
(* ordinary object.  A trap is code of the program: it may do anything to  *)
(* the target before it returns, so h is the heap when it has returned,    *)
(* and it returns any value.  trap is Nil if the handler does not have it; *)
(* the handler is never null, since proxies cannot be revoked.             *)
(***************************************************************************)
EXTENDS EjsObject

CONSTANTS TypeError, NotImplemented

\* To throw and to give up are not answers.
ASSUME AnswersAssumption == {TypeError, NotImplemented} \intersect (BOOLEAN \union {Nil}) = {}

Trapped(r) == [result |-> r]
Own(h, target, P) == _ejs_object_specop_get_own_property(h, target, P)

\* The test of step 9 lets every value pass.
_ejs_proxy_specop_get_prototype_of(h, target, trap) ==
    IF trap = Nil THEN _ejs_object_specop_get_prototype_of(h, target)
    ELSE IF h[target].extensible \/ trap.result = h[target].proto THEN trap.result
    ELSE TypeError

\* Step 16 rejects the prototype the target has, not the others.
_ejs_proxy_specop_set_prototype_of(h, target, V, trap) ==
    IF trap = Nil THEN _ejs_object_specop_set_prototype_of(h, target, V).status = "ok"
    ELSE IF ~h[target].extensible /\ trap.result /\ V = h[target].proto THEN TypeError
    ELSE trap.result

_ejs_proxy_specop_is_extensible(h, target, trap) ==
    IF trap = Nil THEN _ejs_object_specop_is_extensible(h, target)
    ELSE IF trap.result # h[target].extensible THEN TypeError ELSE trap.result

_ejs_proxy_specop_prevent_extensions(h, target, trap) ==
    IF trap = Nil THEN TRUE
    ELSE IF trap.result /\ h[target].extensible THEN TypeError ELSE trap.result

\* Step 12 asks for the descriptor only if there is none: nothing is checked.
_ejs_proxy_specop_get(h, target, P, Receiver, trap) ==
    IF trap = Nil THEN _ejs_object_specop_get(h, target, P, Receiver) ELSE trap.result

\* A trap may return an object or undefined.  For an object the steps that follow are
\* not implemented, if reading it as a descriptor has not thrown before.
_ejs_proxy_specop_get_own_property(h, target, P, trap) ==
    LET d == Own(h, target, P)
    IN  IF trap = Nil THEN d
        ELSE IF trap.result \in Obj \union Fun THEN NotImplemented
        ELSE IF trap.result # undefined THEN TypeError
        ELSE IF d = Nil THEN Nil
        ELSE IF ~d.configurable \/ ~h[target].extensible THEN TypeError ELSE Nil

\* Step 14 looks at the writable properties instead of the others.
_ejs_proxy_specop_set(h, target, P, V, Receiver, trap) ==
    LET d == Own(h, target, P)
    IN  IF trap = Nil THEN _ejs_object_specop_set(h, target, P, V, Receiver).status = "ok"
        ELSE IF ~trap.result THEN FALSE
        ELSE IF d = Nil THEN TRUE
        ELSE IF /\ ~d.configurable
                /\ \/ IsDataDescriptor(d) /\ d.writable /\ V # _ejs_property_desc_get_value(d)
                   \/ IsAccessorDescriptor(d) /\ _ejs_property_desc_get_setter(d) = undefined
        THEN TypeError ELSE TRUE

\* Fault: the target is asked whether it is extensible, not about the property.
HidesAnything(h, target, P, trap) ==
    IF trap = Nil THEN _ejs_object_specop_has_property(h, target, P)
    ELSE IF ~trap.result /\ ~h[target].extensible THEN TypeError
    ELSE trap.result

_ejs_proxy_specop_has_property(h, target, P, trap) ==
    LET d == Own(h, target, P)
    IN  IF trap = Nil THEN _ejs_object_specop_has_property(h, target, P)
        ELSE IF ~trap.result /\ d # Nil /\ (~d.configurable \/ ~h[target].extensible)
        THEN TypeError ELSE trap.result

\* Step 15 is a comment only.
_ejs_proxy_specop_delete(h, target, P, trap) ==
    IF trap = Nil THEN _ejs_object_specop_delete(h, target, P).status = "ok" ELSE trap.result

_ejs_proxy_specop_define_own_property(h, target, P, d, trap) ==
    IF trap = Nil THEN _ejs_object_specop_define_own_property(h, target, P, d).status = "ok"
    ELSE IF ~trap.result THEN FALSE
    ELSE IF Own(h, target, P) # Nil THEN NotImplemented
    ELSE IF ~h[target].extensible \/ (Has(d, "configurable") /\ ~d.configurable) THEN TypeError
    ELSE TRUE

\* Steps 20 to 24, the comparison with the keys of the target, are comments only.
_ejs_proxy_specop_own_property_keys(h, target, trap) ==
    IF trap = Nil THEN _ejs_object_specop_own_property_keys(h, target) ELSE trap.result

-----------------------------------------------------------------------------
(* Properties.                                                             *)

Traps(R) == {Nil} \union {Trapped(r) : r \in R}

\* Of six internal methods, whatever the trap returns and has done to the target
\* before: a proxy reports the prototype and the extensibility of a target that is not
\* extensible as they are, claims preventExtensions only when it has happened, does not
\* hide properties that are not configurable or belong to such a target from has and
\* getOwnPropertyDescriptor, and does not claim to have defined a property the target
\* cannot have.  The traps of get, set, delete, setPrototypeOf and ownKeys can lie.
ProxyHonest ==
    \A t \in Live :
        /\ ~heap[t].extensible => \A trap \in Traps(Obj \union {null}) :
              _ejs_proxy_specop_get_prototype_of(heap, t, trap) \in {heap[t].proto, TypeError}
        /\ \A trap \in Traps(BOOLEAN) :
              /\ _ejs_proxy_specop_is_extensible(heap, t, trap) \in {heap[t].extensible, TypeError}
              /\ trap # Nil /\ heap[t].extensible =>
                    _ejs_proxy_specop_prevent_extensions(heap, t, trap) # TRUE
        /\ \A P \in Name :
              Own(heap, t, P) # Nil /\ ~(Own(heap, t, P).configurable /\ heap[t].extensible) =>
                  /\ \A trap \in Traps(BOOLEAN) :
                        _ejs_proxy_specop_has_property(heap, t, P, trap) # FALSE
                  /\ \A trap \in Traps({undefined, null}) :
                        _ejs_proxy_specop_get_own_property(heap, t, P, trap) # Nil
        /\ \A P \in Name, trap \in Traps(BOOLEAN) :
              Own(heap, t, P) = Nil /\ ~heap[t].extensible =>
                  _ejs_proxy_specop_define_own_property(heap, t, P, Plain(undefined), trap) # TRUE
=============================================================================
