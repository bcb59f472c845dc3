------------------------- MODULE AsyncMessageWorker -------------------------
(***************************************************************************)
(* One PHP request: the node thread and the PHP thread that calls each     *)
(* other through two message queues (src/src/asyncmessageworker.{h,cc},    *)
(* src/src/messages.h).                                                    *)
(*                                                                         *)
(* A call is a Message built on the caller's stack.  Its request part runs *)
(* on the other thread, which pushes the same Message back as the response *)
(* and must not touch it afterwards.  Each thread is the stack of the      *)
(* functions it is in: ProcessJs / ProcessPhp loops ("process"), request   *)
(* parts running user code ("inJs", "inPhp"), and the InJs of the cleanup  *)
(* message ("cleanup").  MessageQueue shows that a queue is a FIFO channel *)
(* whose consumer wakes up; here it is a sequence.                         *)
(***************************************************************************)
EXTENDS Naturals, Sequences

CONSTANTS
  PhpCall,   \* MessageToJs: calls PHP code makes on JavaScript
  JsCall,    \* MessageToPhp: calls JavaScript makes on PHP
  Wait,      \* PHP calls that pass a Js\Wait, answered through a callback
  Handler,   \* PHP calls made by PHP code that JavaScript called
  Dtor,      \* PHP calls made by destructors that ClearPhpId runs
  Cleanup,   \* JsCleanupSyncMsg
  None       \* nullptr, as the match of a loop

ASSUME CallsAssumption ==
  /\ PhpCall \cap JsCall = {}
  /\ Cleanup \notin PhpCall \cup JsCall /\ None \notin PhpCall \cup JsCall \cup {Cleanup}
  /\ Wait \subseteq PhpCall /\ Handler \subseteq PhpCall
  /\ Dtor \subseteq PhpCall \ Handler

Call == PhpCall \cup JsCall \cup {Cleanup}

VARIABLES
  jsQueue, phpQueue,   \* data_ of js_queue_ and php_queue_
  jsShut, phpShut,     \* their shutdown_
  jsStack, phpStack,   \* the frames of each thread, innermost last
  jsIsSync,            \* js_is_sync_
  valid,               \* IsValid(): next_id_ is not 0
  callback,            \* js_callback_data_ of a PHP call, and its is_handled_
  flagged,             \* calls whose InJs frame has its local_flag set
  outcome,             \* what retval_ / exception_ of a PHP call was set from
  status,              \* how far each call has come
  phpDone, destroyed   \* Execute() returned; the worker was deleted

queues  == <<jsQueue, phpQueue, jsShut, phpShut>>
jsVars  == <<jsStack, jsIsSync, callback, flagged, outcome>>
ends    == <<phpDone, destroyed>>
vars == <<queues, jsVars, phpStack, valid, status, ends>>

\* "requested": in the queue of the callee.  "running": its request part has
\* started.  "answered": in the queue of the caller.  "returned": the caller
\* has gone on and the Message no longer exists.  "refused": pushed after
\* shutdown.
Status == {"new", "requested", "running", "answered", "processed", "returned", "refused"}
Outcome == {"none", "value", "thrown", "callback", "deadlock", "shutdown"}

Frame(f, m) == [fn |-> f, msg |-> m]
JsFrame(f, m, s) == [fn |-> f, msg |-> m, sync |-> s]
Elements(s) == {s[i] : i \in 1 .. Len(s)}
Top(s) == s[Len(s)]
Pop(s) == SubSeq(s, 1, Len(s) - 1)
In(s, f) == s # <<>> /\ Top(s).fn = f

\* Each variable has its type.
TypeOK ==
  /\ jsQueue \in Seq(Call) /\ phpQueue \in Seq(Call)
  /\ jsShut \in BOOLEAN /\ phpShut \in BOOLEAN
  /\ jsStack \in Seq([fn : {"process", "inJs", "cleanup"}, msg : Call \cup {None},
                      sync : BOOLEAN])
  /\ phpStack \in Seq([fn : {"process", "inPhp"}, msg : Call \cup {None}])
  /\ jsIsSync \in Nat /\ valid \in BOOLEAN
  /\ callback \in [PhpCall -> {"none", "armed", "handled"}]
  /\ flagged \subseteq PhpCall
  /\ outcome \in [PhpCall -> Outcome] /\ status \in [Call -> Status]
  /\ phpDone \in BOOLEAN /\ destroyed \in BOOLEAN

\* The script is running, and JavaScript already has PHP objects to call, from
\* calls that are over.
Init ==
  /\ jsQueue = <<>> /\ phpQueue = <<>> /\ jsShut = FALSE /\ phpShut = FALSE
  /\ jsStack = <<>> /\ phpStack = <<>> /\ jsIsSync = 0 /\ valid = TRUE
  /\ callback = [m \in PhpCall |-> "none"] /\ flagged = {}
  /\ outcome = [m \in PhpCall |-> "none"] /\ status = [m \in Call |-> "new"]
  /\ phpDone = FALSE /\ destroyed = FALSE

-----------------------------------------------------------------------------
(***************************************************************************)
(* Queues.  After shutdown a push stores nothing.                          *)
(***************************************************************************)

\* php_queue_.Push(m): m becomes s for its owner.
PushToPhp(m, s) ==
  IF phpShut
    THEN status' = [status EXCEPT ![m] = "refused"] /\ UNCHANGED phpQueue
    ELSE status' = [status EXCEPT ![m] = s] /\ phpQueue' = Append(phpQueue, m)

PushToJs(m, s) ==
  IF jsShut
    THEN status' = [status EXCEPT ![m] = "refused"] /\ UNCHANGED jsQueue
    ELSE status' = [status EXCEPT ![m] = s] /\ jsQueue' = Append(jsQueue, m)

\* Mutant: the loop ends at an empty queue, whatever it waits for.
FinishedWhenEmpty(stack, queue) == queue = <<>>

\* DoProcess ends when its match is processed or, without one, at an empty queue.
Finished(stack, queue) ==
  LET m == Top(stack).msg
  IN  IF m = None THEN queue = <<>> ELSE status[m] = "processed"

-----------------------------------------------------------------------------
(***************************************************************************)
(* The node thread.                                                        *)
(***************************************************************************)

\* JavaScript runs: in a turn of the event loop, or called by PHP.
JsCodeRuns == jsStack = <<>> \/ In(jsStack, "inJs")

\* Mutant: MarkHandled is forgotten.
AnswerUnmarked(m, how) ==
  /\ outcome' = [outcome EXCEPT ![m] = how] /\ UNCHANGED callback
  /\ PushToPhp(m, "answered")

\* The part of MessageToJs::ExecuteJs after InJs that sends the response.
Answer(m, how) ==
  /\ outcome' = [outcome EXCEPT ![m] = how]
  /\ callback' = [callback EXCEPT ![m] = IF @ = "armed" THEN "handled" ELSE @]
  /\ PushToPhp(m, "answered")

\* SendToPhp(r, SYNC).  Without a valid mapper the wrapper of every PHP object
\* is neutered and throws instead.
SendToPhp(r) ==
  /\ JsCodeRuns /\ valid /\ status[r] = "new"
  /\ PushToPhp(r, "requested")
  /\ jsIsSync' = jsIsSync + 1
  /\ jsStack' = Append(jsStack, JsFrame("process", r, TRUE))
  /\ UNCHANGED <<jsQueue, jsShut, phpShut, phpStack, valid, callback, flagged, outcome, ends>>

\* JsAsyncMessage_: the event loop calls ProcessJs(nullptr).
JsAsyncMessage ==
  /\ jsStack = <<>> /\ jsQueue # <<>> /\ ~destroyed
  /\ jsStack' = <<JsFrame("process", None, jsIsSync > 0)>>
  /\ UNCHANGED <<queues, phpStack, jsIsSync, valid, callback, flagged, outcome, status, ends>>

JsTakes(m) ==
  /\ In(jsStack, "process") /\ ~Finished(jsStack, jsQueue)
  /\ jsQueue # <<>> /\ m = Head(jsQueue) /\ jsQueue' = Tail(jsQueue)

\* The response to a call of JavaScript: it only marks the message.
JsTakesResponse(r) ==
  /\ JsTakes(r)
  /\ status' = [status EXCEPT ![r] = "processed"]
  /\ UNCHANGED <<phpQueue, jsShut, phpShut, jsVars, phpStack, valid, ends>>

\* A call of PHP: InJs starts, making the callback of a Js\Wait.
JsTakesRequest(m) ==
  /\ JsTakes(m) /\ valid
  /\ status' = [status EXCEPT ![m] = "running"]
  /\ callback' = [callback EXCEPT ![m] = IF m \in Wait THEN "armed" ELSE @]
  /\ jsStack' = Append(jsStack, JsFrame("inJs", m, Top(jsStack).sync))
  /\ UNCHANGED <<phpQueue, jsShut, phpShut, phpStack, jsIsSync, valid, flagged, outcome, ends>>

\* A call of PHP that arrives after the ids were cleared is not executed.
JsRejectsRequest(m) ==
  /\ JsTakes(m) /\ ~valid
  /\ Answer(m, "shutdown")
  /\ UNCHANGED <<jsShut, phpShut, phpStack, jsStack, jsIsSync, flagged, valid, ends>>

\* JsCleanupSyncMsg::InJs: ClearAllJsIds, then a nested ProcessJs(nullptr).
JsTakesCleanup ==
  /\ JsTakes(Cleanup)
  /\ valid' = FALSE
  /\ status' = [status EXCEPT ![Cleanup] = "running"]
  /\ jsStack' = jsStack \o << JsFrame("cleanup", Cleanup, Top(jsStack).sync),
                              JsFrame("process", None, jsIsSync > 0) >>
  /\ UNCHANGED <<phpQueue, jsShut, phpShut, phpStack, jsIsSync, callback, flagged, outcome, ends>>

\* The response to the cleanup message carries the SHUTDOWN flag.
CleanupReturns ==
  /\ In(jsStack, "cleanup") /\ jsStack' = Pop(jsStack)
  /\ PushToPhp(Cleanup, "answered") /\ phpShut' = TRUE
  /\ UNCHANGED <<jsQueue, jsShut, phpStack, jsIsSync, valid, callback, flagged, outcome, ends>>

\* Mutant: js_is_sync_-- is left out.
ProcessJsStaysSync ==
  /\ In(jsStack, "process") /\ Finished(jsStack, jsQueue)
  /\ jsStack' = Pop(jsStack)
  /\ status' = IF Top(jsStack).msg = None THEN status
               ELSE [status EXCEPT ![Top(jsStack).msg] = "returned"]
  /\ UNCHANGED <<queues, phpStack, jsIsSync, valid, callback, flagged, outcome, ends>>

\* ProcessJs returns; after it, so does the SendToPhp that called it.
ProcessJsReturns ==
  /\ In(jsStack, "process") /\ Finished(jsStack, jsQueue)
  /\ jsStack' = Pop(jsStack)
  /\ IF Top(jsStack).msg = None
       THEN UNCHANGED <<jsIsSync, status>>
       ELSE /\ jsIsSync' = jsIsSync - 1
            /\ status' = [status EXCEPT ![Top(jsStack).msg] = "returned"]
  /\ UNCHANGED <<queues, phpStack, valid, callback, flagged, outcome, ends>>

\* InJs returns and the callback was called meanwhile: ExecuteJs bails out
\* without touching the message.
InJsBailsOut(m) ==
  /\ In(jsStack, "inJs") /\ Top(jsStack).msg = m /\ m \in flagged
  /\ jsStack' = Pop(jsStack) /\ flagged' = flagged \ {m}
  /\ UNCHANGED <<queues, phpStack, jsIsSync, valid, callback, outcome, status, ends>>

\* Mutant: the local_flag is not looked at.
InJsEndsUnchecked(m) ==
  /\ In(jsStack, "inJs") /\ Top(jsStack).msg = m
  /\ jsStack' = Pop(jsStack)
  /\ UNCHANGED <<jsQueue, jsShut, phpShut, phpStack, jsIsSync, valid, flagged, ends>>

InJsEnds(m) ==
  /\ In(jsStack, "inJs") /\ Top(jsStack).msg = m /\ m \notin flagged
  /\ jsStack' = Pop(jsStack)
  /\ UNCHANGED <<jsQueue, jsShut, phpShut, phpStack, jsIsSync, valid, flagged, ends>>

\* InJs returned a value, and no callback is awaited.
InJsReturns(m) == callback[m] # "armed" /\ InJsEnds(m) /\ Answer(m, "value")

\* InJs threw: the exception is the answer, callback or not.
InJsThrows(m) == InJsEnds(m) /\ Answer(m, "thrown")

\* A callback is awaited in a context that blocks the event loop (no_async).
InJsDeadlocks(m) ==
  /\ callback[m] = "armed" /\ InJsEnds(m) /\ Top(jsStack).sync
  /\ Answer(m, "deadlock")

\* Mutant: no_async is not looked at.
InJsAlwaysLeaves(m) ==
  /\ callback[m] = "armed" /\ InJsEnds(m)
  /\ UNCHANGED <<phpQueue, callback, outcome, status>>

\* A callback is awaited: the rest of ExecuteJs is left to it.
InJsLeavesToCallback(m) ==
  /\ callback[m] = "armed" /\ InJsEnds(m) /\ ~Top(jsStack).sync
  /\ UNCHANGED <<phpQueue, callback, outcome, status>>

\* Mutant: local_flag_ptr_ is not used.
CallbackWithoutFlag(m) ==
  /\ JsCodeRuns /\ callback[m] = "armed"
  /\ Answer(m, "callback")
  /\ UNCHANGED <<jsQueue, jsShut, phpShut, phpStack, jsStack, jsIsSync, flagged, valid, ends>>

\* CallbackFunction_, called by any JavaScript code.  While the InJs frame of
\* the message is active its local_flag is set through local_flag_ptr_.
CallbackFunction(m) ==
  /\ JsCodeRuns /\ callback[m] = "armed"
  /\ Answer(m, "callback")
  /\ flagged' = IF \E i \in 1 .. Len(jsStack) : jsStack[i].fn = "inJs" /\ jsStack[i].msg = m
                  THEN flagged \cup {m} ELSE flagged
  /\ UNCHANGED <<jsQueue, jsShut, phpShut, phpStack, jsStack, jsIsSync, valid, ends>>

\* WorkComplete and Destroy: in a turn of the event loop after Execute() is over.
Destroy ==
  /\ jsStack = <<>> /\ phpDone /\ ~destroyed
  /\ destroyed' = TRUE
  /\ UNCHANGED <<queues, jsVars, phpStack, valid, status, phpDone>>

-----------------------------------------------------------------------------
(***************************************************************************)
(* The PHP thread: Execute().                                              *)
(***************************************************************************)

ScriptRuns == phpStack = <<>> /\ status[Cleanup] = "new"
Clearing   == phpStack = <<>> /\ jsShut /\ ~phpDone

\* SendToJs(m, SYNC), from the script (up to AfterAsyncLoop), from PHP code
\* called by JavaScript, or from a destructor once js_queue_ is shut down.
SendToJs(m) ==
  /\ status[m] = "new"
  /\ \/ ScriptRuns /\ m \notin Dtor
     \/ In(phpStack, "inPhp") /\ m \in Handler
     \/ Clearing /\ m \in Dtor
  /\ PushToJs(m, "requested")
  /\ phpStack' = Append(phpStack, Frame("process", m))
  /\ UNCHANGED <<phpQueue, jsShut, phpShut, jsVars, valid, ends>>

\* The script is over.  uv_run returns at once, its only handle being unref'd;
\* the cleanup message is sent and waited for.
SendCleanup ==
  /\ ScriptRuns
  /\ PushToJs(Cleanup, "requested")
  /\ phpStack' = <<Frame("process", Cleanup)>>
  /\ UNCHANGED <<phpQueue, jsShut, phpShut, jsVars, valid, ends>>

PhpTakes(m) ==
  /\ In(phpStack, "process") /\ ~Finished(phpStack, phpQueue)
  /\ phpQueue # <<>> /\ m = Head(phpQueue) /\ phpQueue' = Tail(phpQueue)

PhpTakesResponse(m) ==
  /\ PhpTakes(m)
  /\ status' = [status EXCEPT ![m] = "processed"]
  /\ UNCHANGED <<jsQueue, jsShut, phpShut, jsVars, phpStack, valid, ends>>

PhpTakesRequest(r) ==
  /\ PhpTakes(r) /\ valid
  /\ status' = [status EXCEPT ![r] = "running"]
  /\ phpStack' = Append(phpStack, Frame("inPhp", r))
  /\ UNCHANGED <<jsQueue, jsShut, phpShut, jsVars, valid, ends>>

\* "shutdown": the ids were cleared, InPhp is not called.
PhpRejectsRequest(r) ==
  /\ PhpTakes(r) /\ ~valid
  /\ PushToJs(r, "answered")
  /\ UNCHANGED <<jsShut, phpShut, jsVars, phpStack, valid, ends>>

\* InPhp returned, or threw a PHP exception: the response is sent.
InPhpReturns(r) ==
  /\ In(phpStack, "inPhp") /\ Top(phpStack).msg = r
  /\ phpStack' = Pop(phpStack)
  /\ PushToJs(r, "answered")
  /\ UNCHANGED <<phpQueue, jsShut, phpShut, jsVars, valid, ends>>

\* SendToJs returns: its message goes out of scope.
SendToJsReturns(m) ==
  /\ In(phpStack, "process") /\ Top(phpStack).msg = m /\ Finished(phpStack, phpQueue)
  /\ status' = [status EXCEPT ![m] = "returned"]
  /\ phpStack' = IF m = Cleanup THEN <<Frame("process", None)>> ELSE Pop(phpStack)
  /\ UNCHANGED <<queues, jsVars, valid, ends>>

\* ProcessPhp(nullptr) after the cleanup is over: js_queue_.Shutdown().
ShutdownJsQueue ==
  /\ In(phpStack, "process") /\ Top(phpStack).msg = None /\ Finished(phpStack, phpQueue)
  /\ phpStack' = <<>> /\ jsShut' = TRUE
  /\ UNCHANGED <<jsQueue, phpQueue, phpShut, jsVars, valid, status, ends>>

\* ClearPhpId and AfterExecute are done.
ExecuteReturns ==
  /\ Clearing /\ phpDone' = TRUE
  /\ UNCHANGED <<queues, jsVars, phpStack, valid, status, destroyed>>

-----------------------------------------------------------------------------
JsThread ==
  \/ JsAsyncMessage \/ JsTakesCleanup \/ CleanupReturns \/ ProcessJsReturns \/ Destroy
  \/ \E r \in JsCall : JsTakesResponse(r)
  \/ \E m \in PhpCall : \/ JsTakesRequest(m) \/ JsRejectsRequest(m)
                        \/ InJsBailsOut(m) \/ InJsReturns(m) \/ InJsThrows(m)
                        \/ InJsDeadlocks(m) \/ InJsLeavesToCallback(m)

PhpThread ==
  \/ SendCleanup \/ ShutdownJsQueue \/ ExecuteReturns
  \/ \E m \in PhpCall \cup {Cleanup} : PhpTakesResponse(m) \/ SendToJsReturns(m)
  \/ \E r \in JsCall : PhpTakesRequest(r) \/ PhpRejectsRequest(r) \/ InPhpReturns(r)

UserCode ==
  \/ \E r \in JsCall : SendToPhp(r)
  \/ \E m \in PhpCall : SendToJs(m) \/ CallbackFunction(m)

Next == JsThread \/ PhpThread \/ UserCode

\* Both threads run, and JavaScript calls every callback it was given, at the
\* latest from its event loop.
Fairness ==
  /\ WF_vars(JsThread) /\ WF_vars(PhpThread)
  /\ \A m \in PhpCall : WF_vars(jsStack = <<>> /\ CallbackFunction(m))

Spec == Init /\ [][Next]_vars /\ Fairness
-----------------------------------------------------------------------------
(***************************************************************************)
(* What the protocol promises.                                             *)
(***************************************************************************)

OnStack(stack, f, m) == \E i \in 1 .. Len(stack) : stack[i].fn = f /\ stack[i].msg = m

\* A Message lives on the stack of its caller, so nothing may refer to one
\* whose SendToJs or SendToPhp is over: not a queue, not a callback that is
\* still to be handled, not a frame that will touch it again ("Note that as
\* soon as we call SendToPhp we can't touch `this` anymore", messages.h:272).
NoDanglingMessage ==
  /\ \A i \in 1 .. Len(jsQueue)  : status[jsQueue[i]]  \in {"requested", "answered"}
  /\ \A i \in 1 .. Len(phpQueue) : status[phpQueue[i]] \in {"requested", "answered"}
  /\ \A m \in PhpCall : /\ callback[m] = "armed" => status[m] = "running"
                        /\ OnStack(jsStack, "inJs", m) /\ m \notin flagged
                             => status[m] = "running"
  /\ \A r \in JsCall : OnStack(phpStack, "inPhp", r) => status[r] = "running"

\* The steps of a call that ends well.
Progress == { <<"new", "requested">>, <<"requested", "running">>,
              <<"requested", "answered">>, <<"running", "answered">>,
              <<"answered", "processed">>, <<"processed", "returned">> }

\* Each call is executed at most once, answered at most once, and its caller
\* goes on only after the answer, however the calls of the two sides nest and
\* whoever answers: InJs, an exception, a callback, or the shutdown.
CallProtocol ==
  [][\A m \in Call : \/ status'[m] = status[m]
                     \/ status'[m] = "refused"
                     \/ <<status[m], status'[m]>> \in Progress]_vars

\* The first answer stands: a callback called twice, called after InJs threw,
\* or called after the deadlock exception does not replace it.
AnswerIsStable ==
  [][\A m \in PhpCall : outcome[m] # "none" => outcome'[m] = outcome[m]]_vars

\* no_async, captured when a ProcessJs starts and handed to whatever message
\* its loop meets later, says whether a call of JavaScript is below it.
NoAsyncIsExact ==
  \A j \in 1 .. Len(jsStack) :
    jsStack[j].sync <=> \E i \in 1 .. j : jsStack[i].fn = "process" /\ jsStack[i].msg # None

\* "OK, queues are empty now, we can start tearing things down"
\* (asyncmessageworker.cc:112), as far as it is so: once js_queue_ is shut
\* down PHP has nothing to execute and no callback is awaited, what is left in
\* js_queue_ is the answer of a call JavaScript is still blocked in, and
\* nothing at all is left when the worker is deleted.
QueuesDrained ==
  /\ jsShut => /\ phpShut /\ ~valid /\ phpQueue = <<>>
               /\ \A m \in PhpCall : callback[m] # "armed"
               /\ \A i \in 1 .. Len(jsQueue) :
                    jsQueue[i] \in JsCall /\ OnStack(jsStack, "process", jsQueue[i])
  /\ destroyed => jsQueue = <<>> /\ \A r \in JsCall : status[r] \in {"new", "returned"}

\* "All previous PHP requests should have been serviced by now"
\* (asyncmessageworker.cc:60): when the ids are cleared, no call is unanswered
\* but those made by PHP code that JavaScript called after the script.
ServicedAtCleanup ==
  [][valid /\ ~valid' =>
       \A m \in PhpCall : \/ status[m] = "new" \/ outcome[m] # "none"
                          \/ \E i \in 2 .. Len(phpStack) : phpStack[i].msg = m]_vars

\* Neither thread can do anything before the other does: it is in a loop whose
\* match has not come and whose queue is empty, or it has run out of work.
JsBlocked ==
  \/ In(jsStack, "process") /\ ~Finished(jsStack, jsQueue) /\ jsQueue = <<>>
  \/ /\ jsStack = <<>> /\ jsQueue = <<>> /\ ~phpDone
     /\ \A m \in PhpCall : callback[m] # "armed"

PhpBlocked ==
  \/ In(phpStack, "process") /\ ~Finished(phpStack, phpQueue) /\ phpQueue = <<>>
  \/ phpDone

\* "Pass true to no_async if returning a value via a Node callback will deadlock
\* the process" (messages.h:79): however calls nest and whatever is left to a
\* callback, the threads do not both wait, unless for a call that the queue
\* refused.
NeverBothBlocked ==
  JsBlocked /\ PhpBlocked =>
    \E s \in {jsStack, phpStack} : s # <<>> /\ status[Top(s).msg] = "refused"

\* Every request ends: the worker is deleted, unless a push was refused.  No
\* mixture of nested calls and callbacks leaves both threads waiting.
Finishes == <>(destroyed \/ \E c \in Call : status[c] = "refused")

\* "no more messages will be pushed after this method is called"
\* (messagequeue.h:75), "Shouldn't happen" (messagequeue.h:98).
NoPushAfterShutdown == \A c \in Call : status[c] # "refused"
=============================================================================
