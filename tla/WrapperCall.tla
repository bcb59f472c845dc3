----------------------------- MODULE WrapperCall -----------------------------
(***************************************************************************)
(* What JavaScript does with the answer of a synchronous call on the       *)
(* wrapper of a PHP object (node_php_phpobject_class.cc, Property,         *)
(* MethodThunk_ and Enumerate): the id_ of the wrapper is looked at before *)
(* the call, and its channel_ is used after it, to make the wrapper of an  *)
(* object that comes back.  ClearAllJsIds closes the wrapper, which sets   *)
(* channel_ to nullptr, and the loop of the call itself may execute it.    *)
(***************************************************************************)
EXTENDS AsyncMessageWorker

VARIABLE result  \* what PHP put in a call of JavaScript
Result == {"none", "scalar", "object", "exception"}

WrapperInit == Init /\ result = [r \in JsCall |-> "none"]

\* InPhp set the result; a call that is rejected gets an exception, a string.
Answered(r) ==
  \/ InPhpReturns(r) /\ \E x \in {"scalar", "object"} : result' = [result EXCEPT ![r] = x]
  \/ PhpRejectsRequest(r) /\ result' = [result EXCEPT ![r] = "exception"]

WrapperNext ==
  \/ \E r \in JsCall : Answered(r)
  \/ Next /\ UNCHANGED result /\ \A r \in JsCall : ~ InPhpReturns(r) /\ ~ PhpRejectsRequest(r)

WrapperSpec == WrapperInit /\ [][WrapperNext]_<<vars, result>>

\* An object that a call brings back is made a wrapper while there still is a
\* channel to make it with: "First, check to see if this is a closed object"
\* (node_php_phpobject_class.cc:609) is meant to keep the rest of the operation
\* from a wrapper that is closed.
OpenWhenConverted ==
  [][\A r \in JsCall : status[r] = "processed" /\ status'[r] = "returned" /\ result[r] = "object" =>
       valid]_<<vars, result>>
=============================================================================
