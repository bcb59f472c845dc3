---------------------------- MODULE ArraySharing ----------------------------
(***************************************************************************)
(* Which zval a wrapped PHP array is (asyncmapperchannel.cc, IdForPhpObj). *)
(* PHP variables share a zval until one of them is written to; JavaScript  *)
(* writes to the zval of a wrapper in place.  So the zval that gets a name *)
(* is a copy nobody else has, unless PHP passed the variable by reference. *)
(***************************************************************************)
EXTENDS Naturals, FiniteSets

CONSTANTS
  Var,   \* variables of the script, each an array
  Zval   \* bound: the zvals there are at one time

VARIABLES
  var,    \* the zval of each variable
  isRef,  \* the zvals that are references (is_ref)
  named   \* php_arr_to_id_, whose entries hold a reference to their zval
vars == <<var, isRef, named>>

TypeOK == var \in [Var -> Zval] /\ isRef \in SUBSET Zval /\ named \in SUBSET Zval

Init ==
  /\ var \in [Var -> Zval] /\ \A v, w \in Var : var[v] = var[w] => v = w
  /\ isRef = {} /\ named = {}

RefCount(z) == Cardinality({v \in Var : var[v] = z}) + (IF z \in named THEN 1 ELSE 0)
Fresh(z) == RefCount(z) = 0

\* What is copied when it is assigned or passed by value: the content of a reference.
Shared(z, z2) == IF z \in isRef THEN Fresh(z2) ELSE z2 = z

\* $v = $w, for a $v that is no reference.
Assign(v, w) ==
  /\ var[v] \notin isRef /\ v # w
  /\ \E z \in Zval : Shared(var[w], z) /\ var' = [var EXCEPT ![v] = z]
  /\ UNCHANGED <<isRef, named>>

\* $v[] = 1: copy on write.
Write(v) ==
  /\ var[v] \notin isRef /\ RefCount(var[v]) > 1
  /\ \E z \in Zval : Fresh(z) /\ var' = [var EXCEPT ![v] = z]
  /\ UNCHANGED <<isRef, named>>

\* IdForPhpObj of a zval: the name it has, or a name for a copy of it
\* (Z_ADDREF_P has made it shared, so that Separate copies it).
Name(z) ==
  IF z \in named THEN UNCHANGED named ELSE \E c \in Zval : Fresh(c) /\ named' = named \cup {c}

\* $jsfunc($v).
PassByValue(v) ==
  /\ \E z \in Zval : Shared(var[v], z) /\ Name(z)
  /\ UNCHANGED <<var, isRef>>

\* $jsfunc(new Js\ByRef($v)): the variable becomes a reference, which Separate
\* leaves alone.
PassByRef(v) ==
  \E z \in Zval :
    /\ IF var[v] \in isRef \/ RefCount(var[v]) = 1 THEN z = var[v] ELSE Fresh(z)
    /\ var' = [var EXCEPT ![v] = z]
    /\ isRef' = isRef \cup {z} /\ named' = named \cup {z}

\* $v = the wrapper that JavaScript returns (Obj::ToPhp): the zval of the mapper.
HandBack(v, z) ==
  /\ z \in named /\ var[v] \notin isRef
  /\ \E c \in Zval : Shared(z, c) /\ var' = [var EXCEPT ![v] = c]
  /\ UNCHANGED <<isRef, named>>

Next == \E v \in Var : \/ Write(v) \/ PassByValue(v) \/ PassByRef(v)
                       \/ \E w \in Var : Assign(v, w)
                       \/ \E z \in Zval : HandBack(v, z)

Spec == Init /\ [][Next]_vars

\* "We're going to modify this from JS side, so make sure we have a unique copy
\* (otherwise other copy-on-write references on the PHP side could be unexpectedly
\* altered)" (asyncmapperchannel.cc:123): only a variable that was passed by
\* reference has the zval that JavaScript writes to.
UniqueCopy == \A v \in Var : var[v] \in named => var[v] \in isRef
=============================================================================
