------------------------- MODULE ObjectMapperProofs -------------------------
(***************************************************************************)
(* Proofs about ObjectMapper for any objects, any number of requests'      *)
(* wrappers and any width of the ids.                                      *)
(***************************************************************************)
EXTENDS ObjectMapper, TLAPS

\* The ids given out are those below Limit, except that 0 also is when nothing
\* else can be.
Limit == IF last = None THEN nextId ELSE last

\* The request ends on the JavaScript side, then on the PHP side.
Phases ==
  /\ last # None => nextId = 0
  /\ clearing # None => last # None /\ toPhp = {}

\* An id that was not given out is neither mapped nor on its way.
Fresh ==
  Limit # 0 => \A k \in Id : k >= Limit =>
    jsObj[k] = None /\ phpObj[k] = None /\ k \notin toJs /\ k \notin toPhp

\* An id maps to an object of its side or to the wrapper that has its name.
Shapes ==
  \A k \in Id \ {0} : /\ jsObj[k] \in JsObj \cup {PhpObject(k), None}
                      /\ phpObj[k] \in PhpObj \cup {Array(k), JsObject(k), None}

\* A wrapper stands for an object that the other side still maps.
Bridges ==
  \A k \in Id \ {0} :
    /\ jsObj[k] = PhpObject(k) /\ clearing = None => phpObj[k] \in PhpObj \cup {Array(k)}
    /\ IsValid /\ phpObj[k] = JsObject(k) => jsObj[k] \in JsObj
    /\ IsValid /\ k \in toJs => phpObj[k] # None
    /\ IsValid /\ k \in toPhp => jsObj[k] # None

\* Every open wrapper of this request is mapped, so ClearAllJsIds finds it.
OpenWrappers ==
  IsValid => \A o \in open : o \in Foreign \/ \E k \in Id : /\ 1 <= k /\ k < nextId
                                                            /\ o = PhpObject(k) /\ jsObj[k] = o

\* Id 0 is the name of nothing until the ids are used up or cleared.
ZeroUnused ==
  IsValid => /\ 0 \notin toJs /\ 0 \notin toPhp
             /\ \A o \in JsValue : jsToId[o] # 0
             /\ \A x \in PhpValue : phpToId[x] # 0

\* The loop of Execute leaves nothing behind.
Cleared ==
  last \notin {None, 0} /\ clearing # None =>
    /\ 1 <= clearing /\ clearing <= last
    /\ \A k \in Id \ {0} : phpObj[k] # None => clearing <= k

MapsInv == /\ Phases /\ Fresh /\ Shapes /\ Bridges /\ OneNamePerObject /\ SidesAgree
           /\ OpenWrappers /\ WrappersClosed /\ Cleared /\ ZeroUnused

IInv == TypeOK /\ MapsInv

-----------------------------------------------------------------------------
\* A wrapper is none of the objects it can be mistaken for.
LEMMA NamesDiffer ==
  /\ \A j, k : PhpObject(j) = PhpObject(k) => j = k
  /\ \A j, k : Array(j) = Array(k) => j = k
  /\ \A j, k : JsObject(j) = JsObject(k) => j = k
  /\ \A j, k : JsObject(j) # Array(k)
  /\ \A k \in Id : PhpObject(k) \notin JsObj /\ PhpObject(k) \in JsValue
  /\ \A k \in Id : JsObject(k) \notin PhpObj /\ Array(k) \notin PhpObj
  /\ \A k \in Id : JsObject(k) \in PhpValue /\ Array(k) \in PhpValue
<1>1. \A j, k : PhpObject(j) = PhpObject(k) => j = k
  BY DEF PhpObject
<1>2. \A j, k : Array(j) = Array(k) => j = k
  BY DEF Array
<1>3. \A j, k : JsObject(j) = JsObject(k) => j = k
  BY DEF JsObject
<1>4. \A j, k : JsObject(j) # Array(k)
  BY DEF Array, JsObject
<1>5. \A k \in Id : PhpObject(k) \notin JsObj /\ PhpObject(k) \in JsValue
  BY ValueAssumption DEF ValueAssumption, JsValue
<1>6. \A k \in Id : JsObject(k) \notin PhpObj /\ Array(k) \notin PhpObj
  BY ValueAssumption DEF ValueAssumption
<1>7. \A k \in Id : JsObject(k) \in PhpValue /\ Array(k) \in PhpValue
  BY DEF PhpValue
<1> QED
  BY <1>1, <1>2, <1>3, <1>4, <1>5, <1>6, <1>7

\* No object is None.
LEMMA NoneIsNothing ==
  None \notin Id /\ None \notin JsValue /\ None \notin PhpValue
BY ValueAssumption DEF ValueAssumption

\* NewId gives the next id until it wraps or is stopped, and then 0 for ever.
LEMMA BumpSteps ==
  ASSUME nextId \in Id
  PROVE  Bump \in Id /\ (Bump # 0 => nextId # 0 /\ Bump = nextId + 1)
<1> USE IdAssumption DEF IdAssumption, Id
<1>1. CASE nextId = 0
  BY <1>1 DEF Bump
<1>2. CASE nextId # 0 /\ nextId + 1 < IdSpace
  <2>1. (nextId + 1) % IdSpace = nextId + 1
    BY <1>2
  <2> QED
    BY <1>2, <2>1 DEF Bump
<1>3. CASE nextId # 0 /\ nextId + 1 = IdSpace
  <2>1. IdSpace % IdSpace = 0
    OBVIOUS
  <2> QED
    BY <1>3, <2>1 DEF Bump
<1> QED
  BY <1>1, <1>2, <1>3

\* Types are preserved.
LEMMA TypeStep ==
  ASSUME TypeOK, Phases, [Next]_vars
  PROVE  TypeOK'
<1> USE BumpSteps, NamesDiffer DEF TypeOK, js, php
<1>1. ASSUME NEW o \in JsValue, IdForJsObj(o) PROVE TypeOK'
  BY <1>1 DEF IdForJsObj
<1>2. ASSUME NEW k \in Id, JsObjForId(k) PROVE TypeOK'
  BY <1>2 DEF JsObjForId
<1>3. ASSUME NEW k \in Id, PhpObjForId(k) PROVE TypeOK'
  BY <1>3 DEF PhpObjForId
<1>4. ASSUME NEW x \in PhpValue, IdForPhpObj(x) PROVE TypeOK'
  BY <1>4 DEF IdForPhpObj, NewPhpId
<1>5. CASE IdForPhpArray
  BY <1>5 DEF IdForPhpArray, NewPhpId
<1>6. CASE ClearAllJsIds
  BY <1>6, IdAssumption DEF ClearAllJsIds, Neutered, IdAssumption, Id
<1>7. CASE StartClearing
  BY <1>7, IdAssumption DEF StartClearing, IdAssumption, Id
<1>8. CASE ClearPhpId
  <2>1. clearing + 1 \in Id
    BY <1>8, IdAssumption DEF ClearPhpId, IdAssumption, Id, Phases
  <2>2. phpToId' \in [PhpValue -> Id \cup {None}]
    BY <1>8 DEF ClearPhpId
  <2> QED
    BY <1>8, <2>1, <2>2 DEF ClearPhpId
<1>9. CASE UNCHANGED vars
  BY <1>9 DEF vars
<1> QED
  BY <1>1, <1>2, <1>3, <1>4, <1>5, <1>6, <1>7, <1>8, <1>9 DEF Next

-----------------------------------------------------------------------------
(***************************************************************************)
(* The steps of JavaScript.                                                *)
(***************************************************************************)

\* An id that maps to an object was given out.
LEMMA MappedIsOld ==
  ASSUME IInv, NEW k \in Id, jsObj[k] # None \/ phpObj[k] # None, Limit # 0
  PROVE  k < Limit
<1>1. Limit \in Id
  BY DEF IInv, TypeOK, Limit
<1> QED
  BY <1>1, IdAssumption DEF IInv, MapsInv, Fresh, Id, IdAssumption

\* An object that has an id keeps it in a message to PHP.
LEMMA OldJsIdStep ==
  ASSUME IInv, NEW o \in JsValue, IdForJsObj(o), jsToId[o] # None
  PROVE  MapsInv'
<1> DEFINE k == jsToId[o]
<1>1. /\ clearing = None /\ toPhp' = toPhp \cup {k} /\ k \in Id
      /\ UNCHANGED <<nextId, jsObj, jsToId, open, phpObj, phpToId, toJs, last, clearing>>
  BY DEF IdForJsObj, php, IInv, TypeOK
<1>2. k # 0 => jsObj[k] # None
  BY <1>1, NoneIsNothing DEF IInv, MapsInv, OneNamePerObject
<1>3. Limit \in Id /\ Limit' = Limit
  BY <1>1 DEF IInv, TypeOK, Limit
<1>4. Limit # 0 => k < Limit
  BY <1>1, <1>2, <1>3, MappedIsOld, IdAssumption DEF Id, IdAssumption
<1>5. Fresh'
  BY <1>1, <1>3, <1>4, IdAssumption DEF IInv, MapsInv, Fresh, Id, IdAssumption
<1> QED
  BY <1>1, <1>2, <1>5 DEF IInv, MapsInv, Shapes, Bridges, OneNamePerObject, SidesAgree, OpenWrappers,
                    WrappersClosed, Cleared, Phases, ZeroUnused, IsValid

\* An object without an id gets the next one, or 0.
LEMMA NewJsIdStep ==
  ASSUME IInv, NEW o \in JsValue, IdForJsObj(o), jsToId[o] = None
  PROVE  MapsInv'
<1> DEFINE n == nextId
<1>1. /\ clearing = None /\ toPhp' = toPhp \cup {n} /\ n \in Id
      /\ nextId' = Bump
      /\ jsToId' = [jsToId EXCEPT ![o] = n] /\ jsObj' = [jsObj EXCEPT ![n] = o]
      /\ UNCHANGED <<open, phpObj, phpToId, toJs, last, clearing>>
  BY DEF IdForJsObj, php, IInv, TypeOK
<1>2. Bump \in Id /\ (Bump # 0 => n # 0 /\ Bump = n + 1)
  BY <1>1, BumpSteps
<1>3. /\ \A k \in Id : jsObj'[k] = IF k = n THEN o ELSE jsObj[k]
      /\ \A p \in JsValue : jsToId'[p] = IF p = o THEN n ELSE jsToId[p]
  BY <1>1 DEF IInv, TypeOK
<1>4. n # 0 => /\ last = None /\ Limit = n /\ o \in JsObj
               /\ jsObj[n] = None /\ phpObj[n] = None /\ n \notin toJs
  <2>1. n # 0 => last = None /\ Limit = n
    BY DEF IInv, MapsInv, Phases, Limit
  <2>2. n # 0 => o \in JsObj
    BY <2>1 DEF IdForJsObj, JsHolds
  <2> QED
    BY <1>1, <2>1, <2>2, IdAssumption DEF IInv, MapsInv, Fresh, Id, IdAssumption
<1>5. Fresh'
  <2>1. CASE last = None
    BY <1>1, <1>2, <1>3, <1>4, <2>1, IdAssumption DEF IInv, MapsInv, Fresh, Limit, Id, IdAssumption
  <2>2. CASE last # None
    BY <1>1, <1>2, <1>3, <1>4, <2>2, IdAssumption
    DEF IInv, MapsInv, TypeOK, Fresh, Limit, Phases, Id, IdAssumption
  <2> QED
    BY <2>1, <2>2
<1>6. Phases'
  BY <1>1, <1>2, <1>4 DEF IInv, MapsInv, Phases
<1>7. Shapes' /\ Bridges' /\ SidesAgree'
  BY <1>1, <1>2, <1>3, <1>4, NamesDiffer, NoneIsNothing
  DEF IInv, MapsInv, Shapes, Bridges, SidesAgree, IsValid, JsValue
<1>8. OneNamePerObject'
  <2>1. ASSUME NEW k \in Id \ {0}, jsObj'[k] # None PROVE jsToId'[jsObj'[k]] = k
    BY <1>1, <1>3, <2>1, NoneIsNothing DEF IInv, MapsInv, TypeOK, OneNamePerObject
  <2>2. ASSUME NEW p \in JsValue, jsToId'[p] \notin {None, 0} PROVE jsObj'[jsToId'[p]] = p
    BY <1>1, <1>3, <1>4, <2>2, NoneIsNothing DEF IInv, MapsInv, TypeOK, OneNamePerObject
  <2> QED
    BY <1>1, <2>1, <2>2 DEF IInv, MapsInv, OneNamePerObject
<1>9. OpenWrappers'
  BY <1>1, <1>2, <1>3, <1>4, IdAssumption DEF IInv, MapsInv, OpenWrappers, IsValid, Id, IdAssumption
<1>10. ZeroUnused'
  BY <1>1, <1>2, <1>3 DEF IInv, MapsInv, ZeroUnused, IsValid
<1> QED
  BY <1>1, <1>5, <1>6, <1>7, <1>8, <1>9, <1>10 DEF IInv, MapsInv, WrappersClosed, Cleared

\* What a message from PHP does: nothing, or a wrapper for an object of PHP.
LEMMA JsObjForIdStep ==
  ASSUME IInv, NEW k \in Id, JsObjForId(k)
  PROVE  MapsInv'
<1>1. /\ k \in toJs /\ toJs' = toJs \ {k}
      /\ UNCHANGED <<nextId, phpObj, phpToId, toPhp, last, clearing>> /\ Limit' = Limit
  BY DEF JsObjForId, php, Limit
<1>2. CASE jsObj[k] # None \/ ~IsValid
  <2>1. UNCHANGED <<jsObj, jsToId, open>>
    BY <1>2 DEF JsObjForId, js
  <2> QED
    BY <1>1, <2>1 DEF IInv, MapsInv, Fresh, Phases, Shapes, Bridges, OneNamePerObject, SidesAgree,
                      OpenWrappers, WrappersClosed, Cleared, ZeroUnused, MapsInv, IsValid
<1>3. CASE jsObj[k] = None /\ IsValid
  <2> DEFINE w == PhpObject(k)
  <2>1. /\ jsObj' = [jsObj EXCEPT ![k] = w] /\ jsToId' = [jsToId EXCEPT ![w] = k]
        /\ open' = open \cup {w} /\ w \in JsValue /\ w \notin JsObj
    BY <1>3, NamesDiffer DEF JsObjForId
  <2>2. /\ \A j \in Id : jsObj'[j] = IF j = k THEN w ELSE jsObj[j]
        /\ \A p \in JsValue : jsToId'[p] = IF p = w THEN k ELSE jsToId[p]
    BY <2>1 DEF IInv, TypeOK
  <2>3. /\ k # 0 /\ last = None /\ Limit = nextId /\ nextId # 0 /\ clearing = None
        /\ phpObj[k] \in PhpObj \cup {Array(k)}
    BY <1>1, <1>3, NoneIsNothing
    DEF IInv, MapsInv, ZeroUnused, Phases, Limit, IsValid, Bridges, Shapes, JsValue
  <2>4. 1 <= k /\ k < nextId
    BY <1>1, <2>3, IdAssumption DEF IInv, MapsInv, TypeOK, Fresh, Id, IdAssumption
  <2>5. \A j \in Id \ {0, k} : jsObj[j] # w
    BY NamesDiffer, NoneIsNothing DEF IInv, MapsInv, Shapes
  <2>6. Fresh' /\ Phases' /\ WrappersClosed' /\ Cleared'
    BY <1>1, <2>1, <2>2, <2>3, <2>4, IdAssumption
    DEF IInv, MapsInv, TypeOK, Fresh, Phases, WrappersClosed, Cleared, Id, IdAssumption
  <2>7. Shapes' /\ Bridges' /\ SidesAgree'
    BY <1>1, <2>1, <2>2, <2>3, NamesDiffer, NoneIsNothing
    DEF IInv, MapsInv, Shapes, Bridges, SidesAgree, IsValid, PhpValue
  <2>8. OneNamePerObject'
    <3>1. ASSUME NEW j \in Id \ {0}, jsObj'[j] # None PROVE jsToId'[jsObj'[j]] = j
      BY <2>1, <2>2, <2>5, <3>1, NoneIsNothing DEF IInv, MapsInv, TypeOK, OneNamePerObject
    <3>2. ASSUME NEW p \in JsValue, jsToId'[p] \notin {None, 0} PROVE jsObj'[jsToId'[p]] = p
      BY <1>3, <2>1, <2>2, <3>2, NoneIsNothing DEF IInv, MapsInv, TypeOK, OneNamePerObject
    <3> QED
      BY <1>1, <3>1, <3>2 DEF IInv, MapsInv, OneNamePerObject
  <2>9. OpenWrappers'
    BY <1>1, <2>1, <2>2, <2>3, <2>4, IdAssumption DEF IInv, MapsInv, OpenWrappers, IsValid, Id, IdAssumption
  <2>10. ZeroUnused'
    BY <1>1, <2>2, <2>3 DEF IInv, MapsInv, ZeroUnused, IsValid
  <2> QED
    BY <2>6, <2>7, <2>8, <2>9, <2>10 DEF MapsInv
<1> QED
  BY <1>2, <1>3

\* The end of the request on the JavaScript side.
LEMMA ClearAllJsIdsStep ==
  ASSUME IInv, ClearAllJsIds
  PROVE  MapsInv'
<1> DEFINE gone == {k \in Id : 1 <= k /\ k < nextId}
           dropped == {jsObj[k] : k \in gone} \ {None}
<1>1. /\ last = None /\ last' = nextId /\ nextId' = 0 /\ clearing = None
      /\ open' = open \ Neutered(dropped)
      /\ jsObj' = [k \in Id |-> IF k \in gone THEN None ELSE jsObj[k]]
      /\ jsToId' = [o \in JsValue |-> IF o \in dropped THEN None ELSE jsToId[o]]
      /\ UNCHANGED <<phpObj, phpToId, toJs, toPhp, clearing>>
  BY DEF ClearAllJsIds, php, IInv, MapsInv, Phases
<1>2. Limit' = Limit /\ Limit = nextId /\ nextId \in Id
  BY <1>1, NoneIsNothing DEF Limit, IInv, TypeOK
<1>3. \A k \in Id \ {0} : jsObj'[k] # None => nextId = 0 /\ jsObj'[k] = jsObj[k]
  BY <1>1, <1>2, IdAssumption DEF IInv, MapsInv, Fresh, Id, IdAssumption
<1>4. nextId = 0 => dropped = {}
  BY IdAssumption DEF Id, IdAssumption
<1>5. Fresh' /\ Phases' /\ Cleared'
  BY <1>1, <1>2 DEF IInv, MapsInv, Fresh, Phases, Cleared
<1>6. Shapes' /\ Bridges' /\ SidesAgree' /\ OpenWrappers' /\ ZeroUnused'
  BY <1>1, <1>3, NamesDiffer, NoneIsNothing
  DEF IInv, MapsInv, Shapes, Bridges, SidesAgree, IsValid, OpenWrappers, ZeroUnused
<1>7. OneNamePerObject'
  <2>1. ASSUME NEW k \in Id \ {0}, jsObj'[k] # None PROVE jsToId'[jsObj'[k]] = k
    <3>1. jsObj[k] \in JsValue
      BY <1>3, <2>1 DEF IInv, TypeOK
    <3> QED
      BY <1>1, <1>3, <1>4, <2>1, <3>1 DEF IInv, MapsInv, OneNamePerObject
  <2>2. ASSUME NEW o \in JsValue, jsToId'[o] \notin {None, 0} PROVE jsObj'[jsToId'[o]] = o
    <3>1. jsToId'[o] = jsToId[o] /\ o \notin dropped /\ jsToId[o] \in Id
      BY <1>1, <2>2 DEF IInv, TypeOK
    <3>2. jsObj[jsToId[o]] = o
      BY <2>2, <3>1 DEF IInv, MapsInv, OneNamePerObject
    <3>3. jsToId[o] \notin gone
      BY <3>1, <3>2, NoneIsNothing
    <3> QED
      BY <1>1, <3>1, <3>2, <3>3
  <2> QED
    BY <1>1, <2>1, <2>2 DEF IInv, MapsInv, OneNamePerObject
<1>8. WrappersClosed'
  <2>1. Foreign \subseteq open'
    BY <1>1, IdAssumption DEF Neutered, IdAssumption, IInv, MapsInv, WrappersClosed
  <2>2. ASSUME nextId # 0, NEW o \in open', o \notin Foreign PROVE FALSE
    <3>1. PICK k \in Id : 1 <= k /\ k < nextId /\ o = PhpObject(k) /\ jsObj[k] = o
      BY <1>1, <2>2 DEF IInv, MapsInv, OpenWrappers, IsValid
    <3>2. o \in dropped /\ o \notin JsObj
      BY <3>1, NamesDiffer, NoneIsNothing
    <3> QED
      BY <1>1, <2>2, <3>2 DEF Neutered
  <2> QED
    BY <1>1, <2>1, <2>2 DEF WrappersClosed
<1> QED
  BY <1>5, <1>6, <1>7, <1>8 DEF MapsInv

-----------------------------------------------------------------------------
(***************************************************************************)
(* The steps of PHP.                                                       *)
(***************************************************************************)

\* A value of PHP gets the next id, or 0.
LEMMA NewPhpIdStep ==
  ASSUME IInv, NEW x \in PhpValue, clearing = None, NewPhpId(x),
         phpToId[x] \in {None, 0}, nextId # 0 => x \in PhpObj \cup {Array(nextId)},
         UNCHANGED <<js, toPhp, last, clearing>>
  PROVE  MapsInv'
<1> DEFINE n == nextId
<1>1. /\ n \in Id /\ nextId' = Bump /\ toJs' = toJs \cup {n}
      /\ phpToId' = [phpToId EXCEPT ![x] = n] /\ phpObj' = [phpObj EXCEPT ![n] = x]
      /\ UNCHANGED <<jsObj, jsToId, open, toPhp, last, clearing>>
  BY DEF NewPhpId, js, IInv, TypeOK
<1>2. Bump \in Id /\ (Bump # 0 => n # 0 /\ Bump = n + 1)
  BY <1>1, BumpSteps
<1>3. /\ \A k \in Id : phpObj'[k] = IF k = n THEN x ELSE phpObj[k]
      /\ \A y \in PhpValue : phpToId'[y] = IF y = x THEN n ELSE phpToId[y]
  BY <1>1 DEF IInv, TypeOK
<1>4. n # 0 => /\ last = None /\ Limit = n
               /\ jsObj[n] = None /\ phpObj[n] = None /\ n \notin toPhp
  <2>1. n # 0 => last = None /\ Limit = n
    BY DEF IInv, MapsInv, Phases, Limit
  <2> QED
    BY <1>1, <2>1, IdAssumption DEF IInv, MapsInv, Fresh, Id, IdAssumption
<1>5. Fresh'
  <2>1. CASE last = None
    BY <1>1, <1>2, <1>3, <1>4, <2>1, IdAssumption DEF IInv, MapsInv, Fresh, Limit, Id, IdAssumption
  <2>2. CASE last # None
    BY <1>1, <1>2, <1>3, <1>4, <2>2, IdAssumption
    DEF IInv, MapsInv, TypeOK, Fresh, Limit, Phases, Id, IdAssumption
  <2> QED
    BY <2>1, <2>2
<1>6. Phases'
  BY <1>1, <1>2, <1>4 DEF IInv, MapsInv, Phases
<1>7. Shapes' /\ Bridges' /\ SidesAgree'
  BY <1>1, <1>2, <1>3, <1>4, NamesDiffer, NoneIsNothing
  DEF IInv, MapsInv, Shapes, Bridges, SidesAgree, IsValid
<1>8. OneNamePerObject'
  <2>1. ASSUME NEW k \in Id \ {0}, phpObj'[k] # None PROVE phpToId'[phpObj'[k]] = k
    BY <1>1, <1>3, <2>1, NoneIsNothing DEF IInv, MapsInv, TypeOK, OneNamePerObject
  <2>2. ASSUME NEW y \in PhpValue, phpToId'[y] \notin {None, 0} PROVE phpObj'[phpToId'[y]] = y
    BY <1>1, <1>3, <1>4, <2>2, NoneIsNothing DEF IInv, MapsInv, TypeOK, OneNamePerObject
  <2> QED
    BY <1>1, <2>1, <2>2 DEF IInv, MapsInv, OneNamePerObject
<1>9. OpenWrappers' /\ WrappersClosed' /\ Cleared'
  BY <1>1, <1>2, <1>3, <1>4, IdAssumption
  DEF IInv, MapsInv, OpenWrappers, WrappersClosed, Cleared, IsValid, Id, IdAssumption
<1>10. ZeroUnused'
  BY <1>1, <1>2, <1>3 DEF IInv, MapsInv, ZeroUnused, IsValid
<1> QED
  BY <1>5, <1>6, <1>7, <1>8, <1>9, <1>10 DEF MapsInv

\* A value that has an id keeps it in a message to JavaScript.
LEMMA IdForPhpObjStep ==
  ASSUME IInv, NEW x \in PhpValue, IdForPhpObj(x)
  PROVE  MapsInv'
<1>1. clearing = None /\ x \in PhpHolds /\ UNCHANGED <<js, toPhp, last, clearing>>
  BY DEF IdForPhpObj
<1>2. CASE phpToId[x] = None
  <2>1. NewPhpId(x) /\ x \in PhpObj
    BY <1>1, <1>2 DEF IdForPhpObj, PhpHolds
  <2> QED
    BY <1>1, <1>2, <2>1, NewPhpIdStep
<1>3. CASE phpToId[x] # None
  <2> DEFINE k == phpToId[x]
  <2>1. /\ toJs' = toJs \cup {k} /\ k \in Id
        /\ UNCHANGED <<nextId, jsObj, jsToId, open, phpObj, phpToId, toPhp, last, clearing>>
    BY <1>1, <1>3 DEF IdForPhpObj, php, js, IInv, TypeOK
  <2>2. k # 0 => phpObj[k] # None
    BY <1>1, <1>3, NoneIsNothing DEF IInv, MapsInv, OneNamePerObject
  <2>3. Limit \in Id /\ Limit' = Limit
    BY <2>1 DEF IInv, TypeOK, Limit
  <2>4. Limit # 0 => k < Limit
    BY <2>1, <2>2, <2>3, MappedIsOld, IdAssumption DEF Id, IdAssumption
  <2>5. Fresh'
    BY <2>1, <2>3, <2>4, IdAssumption DEF IInv, MapsInv, Fresh, Id, IdAssumption
  <2> QED
    BY <1>1, <2>1, <2>2, <2>5 DEF IInv, MapsInv, Shapes, Bridges, OneNamePerObject, SidesAgree,
       OpenWrappers, WrappersClosed, Cleared, Phases, ZeroUnused, IsValid
<1> QED
  BY <1>2, <1>3

\* The copy of an array gets an id of its own.
LEMMA IdForPhpArrayStep ==
  ASSUME IInv, IdForPhpArray
  PROVE  MapsInv'
<1> DEFINE x == Array(nextId)
<1>1. /\ clearing = None /\ NewPhpId(x) /\ UNCHANGED <<js, toPhp, last, clearing>>
      /\ nextId \in Id /\ x \in PhpValue
  BY NamesDiffer DEF IdForPhpArray, IInv, TypeOK
<1>2. phpToId[x] \in {None, 0}
  <2>1. SUFFICES ASSUME phpToId[x] \in Id \ {0} PROVE FALSE
    BY <1>1 DEF IInv, TypeOK
  <2>2. phpObj[phpToId[x]] = x
    BY <1>1, <2>1, NoneIsNothing DEF IInv, MapsInv, OneNamePerObject
  <2>3. phpToId[x] = nextId
    BY <1>1, <2>1, <2>2, NamesDiffer, NoneIsNothing DEF IInv, MapsInv, Shapes
  <2>4. Limit = nextId
    BY <2>1, <2>3 DEF IInv, MapsInv, Phases, Limit
  <2> QED
    BY <1>1, <2>1, <2>2, <2>3, <2>4, NoneIsNothing, MappedIsOld, IdAssumption DEF Id, IdAssumption
<1> QED
  BY <1>1, <1>2, NewPhpIdStep

\* What a message from JavaScript does: nothing, or a wrapper.
LEMMA PhpObjForIdStep ==
  ASSUME IInv, NEW k \in Id, PhpObjForId(k)
  PROVE  MapsInv'
<1>1. /\ k \in toPhp /\ toPhp' = toPhp \ {k} /\ clearing = None
      /\ UNCHANGED <<nextId, jsObj, jsToId, open, toJs, last, clearing>> /\ Limit' = Limit
  BY DEF PhpObjForId, js, Limit, IInv, MapsInv, Phases
<1>2. CASE phpObj[k] # None
  <2>1. UNCHANGED <<phpObj, phpToId>>
    BY <1>2 DEF PhpObjForId, php
  <2> QED
    BY <1>1, <2>1 DEF IInv, Fresh, Phases, Shapes, Bridges, OneNamePerObject, SidesAgree,
                      OpenWrappers, WrappersClosed, Cleared, ZeroUnused, MapsInv, IsValid
<1>3. CASE phpObj[k] = None
  <2> DEFINE w == JsObject(k)
  <2>1. /\ phpObj' = [phpObj EXCEPT ![k] = w] /\ phpToId' = [phpToId EXCEPT ![w] = k]
        /\ w \in PhpValue
    BY <1>3, NamesDiffer DEF PhpObjForId
  <2>2. /\ \A j \in Id : phpObj'[j] = IF j = k THEN w ELSE phpObj[j]
        /\ \A y \in PhpValue : phpToId'[y] = IF y = w THEN k ELSE phpToId[y]
    BY <2>1 DEF IInv, TypeOK
  <2>3. /\ k # 0 => jsObj[k] \in JsObj \cup {None}
        /\ k # 0 /\ IsValid => jsObj[k] \in JsObj
    BY <1>1, <1>3, NoneIsNothing, NamesDiffer DEF IInv, MapsInv, Bridges, Shapes, PhpValue
  <2>4. Limit # 0 => k < Limit
    BY <1>1, IdAssumption DEF IInv, MapsInv, TypeOK, Limit, Fresh, Id, IdAssumption
  <2>5. Fresh' /\ Phases' /\ Cleared'
    BY <1>1, <2>2, <2>4, IdAssumption
    DEF IInv, MapsInv, TypeOK, Limit, Fresh, Phases, Cleared, Id, IdAssumption
  <2>6. Shapes' /\ Bridges' /\ SidesAgree'
    BY <1>1, <2>2, <2>3, NamesDiffer, NoneIsNothing
    DEF IInv, MapsInv, Shapes, Bridges, SidesAgree, IsValid, PhpValue
  <2>7. \A j \in Id \ {0, k} : phpObj[j] # w
    BY NamesDiffer, NoneIsNothing DEF IInv, MapsInv, Shapes
  <2>8. OneNamePerObject'
    <3>1. ASSUME NEW j \in Id \ {0}, phpObj'[j] # None PROVE phpToId'[phpObj'[j]] = j
      BY <1>1, <2>1, <2>2, <2>7, <3>1, NoneIsNothing DEF IInv, MapsInv, TypeOK, OneNamePerObject
    <3>2. ASSUME NEW y \in PhpValue, phpToId'[y] \notin {None, 0} PROVE phpObj'[phpToId'[y]] = y
      BY <1>1, <1>3, <2>1, <2>2, <3>2, NoneIsNothing DEF IInv, MapsInv, TypeOK, OneNamePerObject
    <3> QED
      BY <1>1, <3>1, <3>2 DEF IInv, MapsInv, OneNamePerObject
  <2>9. OpenWrappers' /\ WrappersClosed' /\ ZeroUnused'
    BY <1>1, <2>2, NamesDiffer DEF IInv, MapsInv, OpenWrappers, WrappersClosed, ZeroUnused, IsValid
  <2> QED
    BY <2>5, <2>6, <2>8, <2>9 DEF MapsInv
<1> QED
  BY <1>2, <1>3

\* The loop of Execute begins.
LEMMA StartClearingStep ==
  ASSUME IInv, StartClearing
  PROVE  MapsInv'
<1>1. /\ last # None /\ clearing = None /\ toPhp = {} /\ clearing' = IF last = 0 THEN 0 ELSE 1
      /\ UNCHANGED <<nextId, jsObj, jsToId, open, phpObj, phpToId, toJs, toPhp, last>>
  BY DEF StartClearing, js, php
<1>2. nextId = 0 /\ clearing' # None
  BY <1>1, NoneIsNothing, IdAssumption DEF IInv, MapsInv, Phases, Id, IdAssumption
<1>3. Cleared'
  BY <1>1, IdAssumption DEF Cleared, IInv, TypeOK, Id, IdAssumption
<1> QED
  BY <1>1, <1>2, <1>3 DEF IInv, MapsInv, Fresh, Limit, Phases, Shapes, Bridges, OneNamePerObject,
     SidesAgree, OpenWrappers, WrappersClosed, ZeroUnused, IsValid

\* The loop of Execute clears an id.
LEMMA ClearPhpIdStep ==
  ASSUME IInv, ClearPhpId
  PROVE  MapsInv'
<1>1. /\ clearing # None /\ clearing < last /\ clearing' = clearing + 1
      /\ phpObj' = [phpObj EXCEPT ![clearing] = None]
      /\ UNCHANGED <<nextId, jsObj, jsToId, open, toJs, toPhp, last>>
  BY DEF ClearPhpId, js
<1>2. nextId = 0 /\ last # None /\ clearing \in Id /\ last \in Id /\ clearing' # None
  BY <1>1, NoneIsNothing, IdAssumption DEF IInv, TypeOK, MapsInv, Phases, Id, IdAssumption
<1>3. \A k \in Id : phpObj'[k] = IF k = clearing THEN None ELSE phpObj[k]
  BY <1>1 DEF IInv, TypeOK
<1>4. Cleared'
  BY <1>1, <1>2, <1>3, IdAssumption DEF IInv, MapsInv, Cleared, Id, IdAssumption
<1>5. Shapes' /\ Bridges' /\ SidesAgree' /\ Fresh'
  BY <1>1, <1>2, <1>3 DEF IInv, MapsInv, Shapes, Bridges, SidesAgree, Fresh, Limit, IsValid
<1> QED
  BY <1>1, <1>2, <1>4, <1>5 DEF IInv, MapsInv, Phases, OneNamePerObject, OpenWrappers,
     WrappersClosed, ZeroUnused, IsValid

-----------------------------------------------------------------------------
\* The initial state.
LEMMA InitStep == Init => IInv
<1> SUFFICES ASSUME Init PROVE IInv
  OBVIOUS
<1> USE IdAssumption, NoneIsNothing, NamesDiffer DEF Init, IdAssumption
<1>1. TypeOK
  BY DEF TypeOK, Id, JsValue
<1>2. Phases /\ Fresh /\ Shapes /\ Cleared
  BY DEF Phases, Fresh, Shapes, Cleared
<1>3. Bridges /\ SidesAgree
  BY DEF Bridges, SidesAgree
<1>4. OneNamePerObject /\ ZeroUnused
  BY DEF OneNamePerObject, ZeroUnused, Id
<1>5. OpenWrappers /\ WrappersClosed
  BY DEF OpenWrappers, WrappersClosed
<1> QED
  BY <1>1, <1>2, <1>3, <1>4, <1>5 DEF IInv, MapsInv

\* Every step keeps the invariant.
LEMMA NextStep == IInv /\ [Next]_vars => IInv'
<1> SUFFICES ASSUME IInv, [Next]_vars PROVE IInv'
  OBVIOUS
<1>1. TypeOK'
  BY TypeStep DEF IInv, MapsInv
<1> SUFFICES MapsInv'
  BY <1>1 DEF IInv
<1>2. ASSUME NEW o \in JsValue, IdForJsObj(o) PROVE MapsInv'
  BY <1>2, OldJsIdStep, NewJsIdStep
<1>3. ASSUME NEW k \in Id, JsObjForId(k) PROVE MapsInv'
  BY <1>3, JsObjForIdStep
<1>4. ASSUME NEW k \in Id, PhpObjForId(k) PROVE MapsInv'
  BY <1>4, PhpObjForIdStep
<1>5. ASSUME NEW x \in PhpValue, IdForPhpObj(x) PROVE MapsInv'
  BY <1>5, IdForPhpObjStep
<1>6. CASE IdForPhpArray
  BY <1>6, IdForPhpArrayStep
<1>7. CASE ClearAllJsIds
  BY <1>7, ClearAllJsIdsStep
<1>8. CASE StartClearing
  BY <1>8, StartClearingStep
<1>9. CASE ClearPhpId
  BY <1>9, ClearPhpIdStep
<1>10. CASE UNCHANGED vars
  BY <1>10 DEF vars, js, php, IInv, MapsInv, Phases, Fresh, Limit, Shapes, Bridges,
     OneNamePerObject, SidesAgree, OpenWrappers, WrappersClosed, Cleared, ZeroUnused, IsValid
<1> QED
  BY <1>2, <1>3, <1>4, <1>5, <1>6, <1>7, <1>8, <1>9, <1>10 DEF Next

\* The maps of the two sides fit together in every reachable state.
THEOREM MapsCorrect == Spec => []IInv
  BY InitStep, NextStep, PTL DEF Spec

\* The variables have their types.
THEOREM MapperTypes == Spec => []TypeOK
<1>1. IInv => TypeOK
  BY DEF IInv
<1> QED
  BY <1>1, MapsCorrect, PTL

\* What comes back over the bridge is what was sent, whatever the width of the
\* ids and however many are taken, also when they run out.
THEOREM NamesAreIdentities == Spec => []OneNamePerObject
<1>1. IInv => OneNamePerObject
  BY DEF IInv, MapsInv
<1> QED
  BY <1>1, MapsCorrect, PTL

\* The two threads never disagree about whose object an id names.
THEOREM SidesAlwaysAgree == Spec => []SidesAgree
<1>1. IInv => SidesAgree
  BY DEF IInv, MapsInv
<1> QED
  BY <1>1, MapsCorrect, PTL

\* After ClearAllJsIds no wrapper of the request is open, and those of other
\* requests are left alone.
THEOREM WrappersAreClosed == Spec => []WrappersClosed
<1>1. IInv => WrappersClosed
  BY DEF IInv, MapsInv
<1> QED
  BY <1>1, MapsCorrect, PTL

\* The loop of Execute clears the zval of every id.
THEOREM PhpSideIsReleased == Spec => []PhpSideReleased
<1>1. IInv => PhpSideReleased
  <2> SUFFICES ASSUME IInv, last \notin {None, 0}, clearing = last, NEW k \in Id \ {0}
               PROVE phpObj[k] = None
    BY DEF PhpSideReleased
  <2>1. CASE k < last
    BY <2>1, NoneIsNothing, IdAssumption DEF IInv, MapsInv, TypeOK, Cleared, Id, IdAssumption
  <2>2. CASE k >= last
    BY <2>2 DEF IInv, MapsInv, Fresh, Limit
  <2> QED
    BY <2>1, <2>2, IdAssumption DEF IInv, TypeOK, Id, IdAssumption
<1> QED
  BY <1>1, MapsCorrect, PTL
=============================================================================
