---------------------------- MODULE ObjectMapper ----------------------------
(***************************************************************************)
(* The ids under which the two threads of a request name each other's      *)
(* objects (src/src/asyncmapperchannel.{h,cc}).                            *)
(*                                                                         *)
(* Either side takes ids from next_id_.  An id made for an object of one   *)
(* side makes the other side build a wrapper for it: PhpObject in          *)
(* JavaScript, JsObject in PHP.  At the end of the request JavaScript drops*)
(* its half of the maps, closing the wrappers it handed out, and then PHP  *)
(* drops its own.  An id travels in a message; the queues that carry the   *)
(* messages are AsyncMessageWorker's, here they are the sets of ids in     *)
(* flight.                                                                 *)
(***************************************************************************)
EXTENDS Integers

CONSTANTS
  JsObj,     \* objects of JavaScript
  Foreign,   \* those among them that are wrappers made by another request
  PhpObj,    \* objects of PHP, and array variables that are references
  IdSpace,   \* number of values of objid_t
  None       \* no object, no id

ASSUME IdAssumption ==
  /\ IdSpace \in Nat /\ IdSpace > 1
  /\ Foreign \subseteq JsObj

Id == 0 .. IdSpace - 1

\* The wrappers, and the copies made of PHP arrays, each named by its id.
\* The closed wrapper Create(nullptr, 0) is PhpObject(0).
PhpObject(k) == <<"PhpObject", k>>
JsObject(k)  == <<"JsObject", k>>
Array(k)     == <<"array", k>>

JsValue  == JsObj \cup {PhpObject(k) : k \in Id}
PhpValue == PhpObj \cup {JsObject(k) : k \in Id} \cup {Array(k) : k \in Id}

ASSUME ValueAssumption ==
  /\ None \notin Id /\ None \notin JsValue /\ None \notin PhpValue
  /\ JsObj \cap {PhpObject(k) : k \in Id} = {}
  /\ PhpObj \cap ({JsObject(k) : k \in Id} \cup {Array(k) : k \in Id}) = {}

VARIABLES
  nextId,     \* next_id_; 0 is "shutting down"
  jsObj,      \* the persistent handles: id -> object
  jsToId,     \* js_obj_to_id_
  open,       \* PhpObjects, of this request or others, not neutered
  phpObj,     \* php_obj_list_
  phpToId,    \* php_obj_to_id_ and php_arr_to_id_
  toJs, toPhp,   \* ids in messages on their way
  last,       \* what ClearAllJsIds returned
  clearing    \* the id the loop of Execute is about to clear on the PHP side

js  == <<jsObj, jsToId, open>>
php == <<phpObj, phpToId>>
vars == <<nextId, js, php, toJs, toPhp, last, clearing>>

\* Each variable has its type.
TypeOK ==
  /\ nextId \in Id /\ last \in Id \cup {None} /\ clearing \in Id \cup {None}
  /\ jsObj \in [Id -> JsValue \cup {None}] /\ jsToId \in [JsValue -> Id \cup {None}]
  /\ phpObj \in [Id -> PhpValue \cup {None}] /\ phpToId \in [PhpValue -> Id \cup {None}]
  /\ open \subseteq JsValue /\ toJs \subseteq Id /\ toPhp \subseteq Id

Init ==
  /\ nextId = 1 /\ last = None /\ clearing = None
  /\ jsObj = [k \in Id |-> None] /\ jsToId = [o \in JsValue |-> None]
  /\ phpObj = [k \in Id |-> None] /\ phpToId = [x \in PhpValue |-> None]
  /\ open = Foreign /\ toJs = {} /\ toPhp = {}

IsValid == nextId # 0

\* Mutant: the id after 0 is taken like any other.
BumpAlways == (nextId + 1) % IdSpace

\* Mutant: the counter is wider than an id.
BumpWide == IF nextId = 0 THEN 0 ELSE nextId + 1

\* next_id_ after NewId(), which returns nextId: at 0 it stays there.
Bump == IF nextId = 0 THEN 0 ELSE (nextId + 1) % IdSpace

-----------------------------------------------------------------------------
(***************************************************************************)
(* The JavaScript side.                                                    *)
(***************************************************************************)

\* What JavaScript can put in a message: its objects and the wrappers it got,
\* after the ids were cleared the closed ones.
JsHolds == JsObj \cup {o \in JsValue : jsToId[o] # None}
                 \cup (IF last = None THEN {} ELSE {PhpObject(0)})

\* IdForJsObj(o), for a message to PHP.
IdForJsObj(o) ==
  /\ o \in JsHolds /\ clearing = None
  /\ IF jsToId[o] # None
       THEN toPhp' = toPhp \cup {jsToId[o]} /\ UNCHANGED <<nextId, jsObj, jsToId>>
       ELSE /\ nextId' = Bump /\ toPhp' = toPhp \cup {nextId}
            /\ jsToId' = [jsToId EXCEPT ![o] = nextId]
            /\ jsObj' = [jsObj EXCEPT ![nextId] = o]
  /\ UNCHANGED <<open, php, toJs, last, clearing>>

\* Mutant: a wrapper is made even after the ids were cleared.
JsObjForIdAlways(k) ==
  /\ k \in toJs /\ toJs' = toJs \ {k}
  /\ IF jsObj[k] # None
       THEN UNCHANGED js
       ELSE /\ jsObj' = [jsObj EXCEPT ![k] = PhpObject(k)]
            /\ jsToId' = [jsToId EXCEPT ![PhpObject(k)] = k]
            /\ open' = open \cup {PhpObject(k)}
  /\ UNCHANGED <<nextId, php, toPhp, last, clearing>>

\* JsObjForId(k), for a message from PHP: the object, a closed wrapper that no
\* map knows, or a new wrapper.
JsObjForId(k) ==
  /\ k \in toJs /\ toJs' = toJs \ {k}
  /\ IF jsObj[k] # None \/ ~IsValid
       THEN UNCHANGED js
       ELSE /\ jsObj' = [jsObj EXCEPT ![k] = PhpObject(k)]
            /\ jsToId' = [jsToId EXCEPT ![PhpObject(k)] = k]
            /\ open' = open \cup {PhpObject(k)}
  /\ UNCHANGED <<nextId, php, toPhp, last, clearing>>

\* Mutant: the channel of the wrapper is not compared.
NeuteredOfAnyRequest(os) == os

\* MaybeNeuter: the wrappers among os that belong to this request.
Neutered(os) == os \ JsObj

\* ClearAllJsIds(): ClearJsId for every id given out so far.
ClearAllJsIds ==
  /\ last = None
  /\ last' = nextId /\ nextId' = 0
  /\ LET cleared == {k \in Id : 1 <= k /\ k < nextId}
         dropped == {jsObj[k] : k \in cleared} \ {None}
     IN  /\ open' = open \ Neutered(dropped)
         /\ jsObj' = [k \in Id |-> IF k \in cleared THEN None ELSE jsObj[k]]
         /\ jsToId' = [o \in JsValue |-> IF o \in dropped THEN None ELSE jsToId[o]]
  /\ UNCHANGED <<php, toJs, toPhp, clearing>>

-----------------------------------------------------------------------------
(***************************************************************************)
(* The PHP side.                                                           *)
(***************************************************************************)

PhpHolds == PhpObj \cup {x \in PhpValue : phpToId[x] # None}

\* The part of IdForPhpObj that names x by a new id.
NewPhpId(x) ==
  /\ nextId' = Bump /\ toJs' = toJs \cup {nextId}
  /\ phpToId' = [phpToId EXCEPT ![x] = nextId]
  /\ phpObj' = [phpObj EXCEPT ![nextId] = x]

\* Mutant: the object is not looked up in php_obj_to_id_.
IdForPhpObjAnew(x) ==
  /\ x \in PhpHolds /\ clearing = None
  /\ NewPhpId(x)
  /\ UNCHANGED <<js, toPhp, last, clearing>>

\* IdForPhpObj(x), for a message to JavaScript.
IdForPhpObj(x) ==
  /\ x \in PhpHolds /\ clearing = None
  /\ IF phpToId[x] # None
       THEN toJs' = toJs \cup {phpToId[x]} /\ UNCHANGED <<nextId, php>>
       ELSE NewPhpId(x)
  /\ UNCHANGED <<js, toPhp, last, clearing>>

\* IdForPhpObj of an array of the script.  The reference it adds makes Separate
\* copy an array that is no reference, and the copy is what gets the id: each
\* time another one.
IdForPhpArray ==
  /\ clearing = None
  /\ NewPhpId(Array(nextId))
  /\ UNCHANGED <<js, toPhp, last, clearing>>

\* PhpObjForId(k), for a message from JavaScript.
PhpObjForId(k) ==
  /\ k \in toPhp /\ toPhp' = toPhp \ {k}
  /\ IF phpObj[k] # None
       THEN UNCHANGED php
       ELSE /\ phpObj' = [phpObj EXCEPT ![k] = JsObject(k)]
            /\ phpToId' = [phpToId EXCEPT ![JsObject(k)] = k]
  /\ UNCHANGED <<nextId, js, toJs, last, clearing>>

\* Execute, once the cleanup message is answered and the queue is drained.
StartClearing ==
  /\ last # None /\ clearing = None /\ toPhp = {}
  /\ clearing' = IF last = 0 THEN 0 ELSE 1
  /\ UNCHANGED <<nextId, js, php, toJs, toPhp, last>>

\* ClearPhpId(clearing).  For an array the code erases an object handle, read
\* from the bits of the array's zval: the entry of any object, or none.
ClearPhpId ==
  /\ clearing # None /\ clearing < last /\ clearing' = clearing + 1
  /\ phpObj' = [phpObj EXCEPT ![clearing] = None]
  /\ LET x == phpObj[clearing]
         array == \E k \in Id : x = Array(k)
     IN  \E y \in IF array THEN {z \in PhpValue : \A k \in Id : z # Array(k)} \cup {None}
                           ELSE {x} :
           phpToId' = [z \in PhpValue |-> IF z = y THEN None ELSE phpToId[z]]
  /\ UNCHANGED <<nextId, js, toJs, toPhp, last>>

-----------------------------------------------------------------------------
Next ==
  \/ \E o \in JsValue : IdForJsObj(o)
  \/ \E k \in Id : JsObjForId(k) \/ PhpObjForId(k)
  \/ \E x \in PhpValue : IdForPhpObj(x)
  \/ IdForPhpArray \/ ClearAllJsIds \/ StartClearing \/ ClearPhpId

Spec == Init /\ [][Next]_vars

-----------------------------------------------------------------------------
\* An id other than 0 is the name of one object on either side, and that
\* object has no other name: what comes back over a bridge is what was sent.
\* (Id 0, given out while shutting down, names whatever was given it last.)
OneNamePerObject ==
  /\ \A k \in Id \ {0} : jsObj[k] # None => jsToId[jsObj[k]] = k
  /\ \A o \in JsValue : jsToId[o] \notin {None, 0} => jsObj[jsToId[o]] = o
  /\ clearing = None =>
       /\ \A k \in Id \ {0} : phpObj[k] # None => phpToId[phpObj[k]] = k
       /\ \A x \in PhpValue : phpToId[x] \notin {None, 0} => phpObj[phpToId[x]] = x

\* The two threads agree on whose object an id names: against an object of
\* one side stands nothing or the wrapper for it, and never do two wrappers
\* stand for each other, though the threads take ids and clear them in any
\* order.
SidesAgree ==
  \A k \in Id \ {0} : jsObj[k] # None /\ phpObj[k] # None =>
    \/ jsObj[k] \in JsObj /\ phpObj[k] = JsObject(k)
    \/ jsObj[k] = PhpObject(k) /\ phpObj[k] \in PhpObj \cup {Array(k)}

\* After the request every wrapper it ever handed to JavaScript is closed, so
\* that its use is an error and not a call into a dead request, and no wrapper
\* of another request is (phpobject_class.cc:63).
WrappersClosed ==
  /\ Foreign \subseteq open
  /\ last \notin {None, 0} => open = Foreign

\* "zvals need to be cleared on the PHP side" (asyncmessageworker.cc:114): the
\* bound the cleanup message brings back covers every id given to a PHP value.
PhpSideReleased ==
  last \notin {None, 0} /\ clearing = last => \A k \in Id \ {0} : phpObj[k] = None
=============================================================================
