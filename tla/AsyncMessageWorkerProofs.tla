---------------------- MODULE AsyncMessageWorkerProofs ----------------------
(***************************************************************************)
(* What is proved about AsyncMessageWorker, for any nesting of any calls   *)
(* of the two threads: where the message of each call is, in terms of how  *)
(* far the call has come (IInv), from it how the request ends (EndInv),    *)
(* and that the stacks of the two threads nest, so that neither waits for  *)
(* the other in vain (Uncrossed).                                          *)
(***************************************************************************)
EXTENDS AsyncMessageWorker, Counting

JsFrames  == [fn : {"process", "inJs", "cleanup"}, msg : Call \cup {None}, sync : BOOLEAN]
PhpFrames == [fn : {"process", "inPhp"}, msg : Call \cup {None}]

\* The frames of a kind, to be counted on a stack.
InJsOf(m)  == {x \in JsFrames : x.fn = "inJs" /\ x.msg = m}
InCleanup  == {x \in JsFrames : x.fn = "cleanup"}
Blocking   == {x \in JsFrames : x.fn = "process" /\ x.msg # None}
InPhpOf(r) == {x \in PhpFrames : x.fn = "inPhp" /\ x.msg = r}

Is(a, b) == IF a = b THEN 1 ELSE 0

\* The status of a call whose message is in the queue.
ForJs(c)  == IF c \in JsCall THEN "answered" ELSE "requested"
ForPhp(c) == IF c \in JsCall THEN "requested" ELSE "answered"

\* A message is in a queue, once, exactly while its status says so.
JsQueued  == \A c \in Call : Count(jsQueue, {c})  = Is(status[c], ForJs(c))
PhpQueued == \A c \in Call : Count(phpQueue, {c}) = Is(status[c], ForPhp(c))

\* A request part of JavaScript is on the stack once, and a call that was not
\* answered under it is running.
JsRuns ==
  /\ Count(jsStack, InCleanup) = Is(status[Cleanup], "running")
  /\ \A m \in PhpCall :
       /\ Count(jsStack, InJsOf(m)) \in {0, 1}
       /\ Count(jsStack, InJsOf(m)) = 1 =>
            /\ status[m] \notin {"new", "requested"}
            /\ m \notin flagged => status[m] = "running"

\* A request part of PHP is on the stack, once, exactly while its call runs; the
\* loops of Execute itself are at the bottom.
PhpRuns ==
  /\ \A r \in JsCall : Count(phpStack, InPhpOf(r)) = Is(status[r], "running")
  /\ \A i \in 1 .. Len(phpStack) : phpStack[i].msg \in {Cleanup, None} => i = 1

\* A callback is waited for, and an answer still missing, only while the call
\* is running or before.
Pending ==
  \A m \in PhpCall :
    /\ callback[m] = "armed" => status[m] = "running"
    /\ outcome[m] # "none" => status[m] \notin {"new", "requested", "running"}

\* js_is_sync_ counts the calls of JavaScript that are on the stack.
Synced == jsIsSync = Count(jsStack, Blocking) /\ NoAsyncIsExact

IInv == TypeOK /\ JsQueued /\ PhpQueued /\ JsRuns /\ PhpRuns /\ Pending /\ Synced

-----------------------------------------------------------------------------
(***************************************************************************)
(* Stacks and queues.                                                      *)
(***************************************************************************)

LEMMA PopTop ==
  ASSUME NEW S, NEW s \in Seq(S), s # <<>>
  PROVE  /\ Pop(s) \in Seq(S) /\ Top(s) \in S /\ s = Append(Pop(s), Top(s))
         /\ Len(s) \in Nat \ {0} /\ Len(Pop(s)) = Len(s) - 1
         /\ \A i \in 1 .. Len(Pop(s)) : Pop(s)[i] = s[i]
<1> DEFINE n == Len(s) - 1
<1>1. Len(s) \in Nat \ {0} /\ n \in Nat /\ n <= Len(s)
  BY EmptySeq
<1>2. Top(s) \in S
  BY <1>1 DEF Top
<1> HIDE DEF n
<1>3. SubSeq(s, 1, n) \in Seq(S) /\ Len(SubSeq(s, 1, n)) = n
      /\ \A i \in 1 .. n : SubSeq(s, 1, n)[i] = s[i]
  BY <1>1
<1>4. Pop(s) = SubSeq(s, 1, n)
  BY DEF Pop, n
<1>5. Pop(s) \in Seq(S) /\ Len(Pop(s)) = n /\ \A i \in 1 .. n : Pop(s)[i] = s[i]
  BY <1>3, <1>4
<1>6. Append(Pop(s), Top(s)) \in Seq(S) /\ Len(Append(Pop(s), Top(s))) = Len(s)
      /\ \A i \in 1 .. Len(s) : Append(Pop(s), Top(s))[i] = s[i]
  BY <1>1, <1>2, <1>5, AppendProperties DEF n, Top
<1>7. s = Append(Pop(s), Top(s))
  BY <1>6, SeqEqual
<1> QED BY <1>1, <1>2, <1>5, <1>7 DEF n

LEMMA CountSome ==
  ASSUME NEW S, NEW s \in Seq(S), NEW T
  PROVE  /\ Count(s, T) \in Nat
         /\ Count(s, T) = 0 <=> ~\E i \in 1 .. Len(s) : s[i] \in T
<1>1. IsFiniteSet(Occurrences(s, T)) /\ Count(s, T) \in Nat
  BY CountType
<1>2. Count(s, T) = 0 <=> Occurrences(s, T) = {}
  BY <1>1, FS_EmptySet DEF Count
<1> QED BY <1>1, <1>2 DEF Occurrences

-----------------------------------------------------------------------------
(***************************************************************************)
(* What a push and a pop do to the queues.                                 *)
(***************************************************************************)

LEMMA StatusValues ==
  /\ \A c : /\ ForJs(c) \in {"requested", "answered"} /\ ForPhp(c) \in {"requested", "answered"}
            /\ ForJs(c) # ForPhp(c)
  /\ \A m \in PhpCall \cup {Cleanup} :
       m \in Call /\ m \notin JsCall /\ ForJs(m) = "requested" /\ ForPhp(m) = "answered"
  /\ \A r \in JsCall :
       r \in Call /\ r \notin PhpCall /\ ForJs(r) = "answered" /\ ForPhp(r) = "requested"
  /\ Cleanup \in Call /\ Cleanup \notin PhpCall /\ None \notin Call
  /\ \A c \in Call : c \in PhpCall \/ c \in JsCall \/ c = Cleanup
BY CallsAssumption DEF CallsAssumption, Call, ForJs, ForPhp

LEMMA PushPhp ==
  ASSUME TypeOK, PhpQueued, NEW m \in Call, status[m] # ForPhp(m), PushToPhp(m, ForPhp(m))
  PROVE  /\ phpQueue' \in Seq(Call) /\ PhpQueued'
         /\ \E t \in {ForPhp(m), "refused"} : status' = [status EXCEPT ![m] = t]
<1>1. /\ phpQueue \in Seq(Call) /\ status \in [Call -> Status]
      /\ ForPhp(m) \in {"requested", "answered"} /\ phpShut \in BOOLEAN
  BY StatusValues DEF TypeOK
<1>2. CASE phpShut
  <2>1. phpQueue' = phpQueue /\ status' = [status EXCEPT ![m] = "refused"]
    BY <1>2 DEF PushToPhp
  <2>2. ASSUME NEW c \in Call PROVE Is(status'[c], ForPhp(c)) = Is(status[c], ForPhp(c))
    BY <1>1, <2>1 DEF Is
  <2> QED BY <1>1, <2>1, <2>2 DEF PhpQueued
<1>3. CASE ~phpShut
  <2>1. phpQueue' = Append(phpQueue, m) /\ status' = [status EXCEPT ![m] = ForPhp(m)]
    BY <1>3 DEF PushToPhp
  <2>2. ASSUME NEW c \in Call PROVE Count(phpQueue', {c}) = Is(status'[c], ForPhp(c))
    <3>1. Count(phpQueue', {c}) = Count(phpQueue, {c}) + (IF m \in {c} THEN 1 ELSE 0)
      BY <1>1, <2>1, CountAppend
    <3>2. Count(phpQueue, {c}) = Is(status[c], ForPhp(c))
      BY DEF PhpQueued
    <3> QED BY <1>1, <2>1, <3>1, <3>2 DEF Is
  <2>3. phpQueue' \in Seq(Call)
    BY <1>1, <2>1, AppendProperties
  <2> QED BY <2>1, <2>2, <2>3 DEF PhpQueued
<1> QED BY <1>2, <1>3

LEMMA PushJs ==
  ASSUME TypeOK, JsQueued, NEW m \in Call, status[m] # ForJs(m), PushToJs(m, ForJs(m))
  PROVE  /\ jsQueue' \in Seq(Call) /\ JsQueued'
         /\ \E t \in {ForJs(m), "refused"} : status' = [status EXCEPT ![m] = t]
<1>1. /\ jsQueue \in Seq(Call) /\ status \in [Call -> Status]
      /\ ForJs(m) \in {"requested", "answered"} /\ jsShut \in BOOLEAN
  BY StatusValues DEF TypeOK
<1>2. CASE jsShut
  <2>1. jsQueue' = jsQueue /\ status' = [status EXCEPT ![m] = "refused"]
    BY <1>2 DEF PushToJs
  <2>2. ASSUME NEW c \in Call PROVE Is(status'[c], ForJs(c)) = Is(status[c], ForJs(c))
    <3>1. ForJs(c) # "refused"
      BY StatusValues
    <3> QED BY <1>1, <2>1, <3>1 DEF Is
  <2> QED BY <1>1, <2>1, <2>2 DEF JsQueued
<1>3. CASE ~jsShut
  <2>1. jsQueue' = Append(jsQueue, m) /\ status' = [status EXCEPT ![m] = ForJs(m)]
    BY <1>3 DEF PushToJs
  <2>2. ASSUME NEW c \in Call PROVE Count(jsQueue', {c}) = Is(status'[c], ForJs(c))
    <3>1. Count(jsQueue', {c}) = Count(jsQueue, {c}) + (IF m \in {c} THEN 1 ELSE 0)
      BY <1>1, <2>1, CountAppend
    <3>2. Count(jsQueue, {c}) = Is(status[c], ForJs(c))
      BY DEF JsQueued
    <3> QED BY <1>1, <2>1, <3>1, <3>2 DEF Is
  <2>3. jsQueue' \in Seq(Call)
    BY <1>1, <2>1, AppendProperties
  <2> QED BY <2>1, <2>2, <2>3 DEF JsQueued
<1> QED BY <1>2, <1>3

\* A message that is taken was in the queue once.
LEMMA TakeJs ==
  ASSUME TypeOK, JsQueued, NEW m \in Call, JsTakes(m)
  PROVE  /\ status[m] = ForJs(m) /\ jsQueue' \in Seq(Call)
         /\ In(jsStack, "process") /\ jsStack # <<>>
         /\ \A t \in Status \ {ForJs(m)} : status' = [status EXCEPT ![m] = t] => JsQueued'
<1>1. /\ jsQueue \in Seq(Call) /\ jsQueue # <<>> /\ m = Head(jsQueue) /\ jsQueue' = Tail(jsQueue)
      /\ status \in [Call -> Status] /\ In(jsStack, "process") /\ jsStack # <<>>
  BY DEF TypeOK, JsTakes, In
<1>2. Tail(jsQueue) \in Seq(Call)
  BY <1>1, HeadTailProperties
<1>3. ASSUME NEW c \in Call
      PROVE  /\ Is(status[c], ForJs(c)) = Count(jsQueue', {c}) + (IF m = c THEN 1 ELSE 0)
             /\ Count(jsQueue', {c}) \in Nat
  <2>1. Count(jsQueue, {c}) = Count(Tail(jsQueue), {c}) + (IF Head(jsQueue) \in {c} THEN 1 ELSE 0)
    BY <1>1, CountTail
  <2>2. Count(jsQueue, {c}) = Is(status[c], ForJs(c))
    BY DEF JsQueued
  <2>3. Count(Tail(jsQueue), {c}) \in Nat
    BY <1>2, CountType
  <2> QED BY <1>1, <2>1, <2>2, <2>3
<1>4. status[m] = ForJs(m)
  <2>1. Is(status[m], ForJs(m)) = Count(jsQueue', {m}) + 1 /\ Count(jsQueue', {m}) \in Nat
    BY <1>3
  <2> QED BY <2>1 DEF Is
<1>5. ASSUME NEW t \in Status \ {ForJs(m)}, status' = [status EXCEPT ![m] = t], NEW c \in Call
      PROVE  Count(jsQueue', {c}) = Is(status'[c], ForJs(c))
  BY <1>1, <1>3, <1>5 DEF Is
<1> QED BY <1>1, <1>2, <1>4, <1>5 DEF JsQueued

LEMMA TakePhp ==
  ASSUME TypeOK, PhpQueued, NEW m \in Call, PhpTakes(m)
  PROVE  /\ status[m] = ForPhp(m) /\ phpQueue' \in Seq(Call)
         /\ In(phpStack, "process") /\ phpStack # <<>>
         /\ \A t \in Status \ {ForPhp(m)} : status' = [status EXCEPT ![m] = t] => PhpQueued'
<1>1. /\ phpQueue \in Seq(Call) /\ phpQueue # <<>> /\ m = Head(phpQueue)
      /\ phpQueue' = Tail(phpQueue)
      /\ status \in [Call -> Status] /\ In(phpStack, "process") /\ phpStack # <<>>
  BY DEF TypeOK, PhpTakes, In
<1>2. Tail(phpQueue) \in Seq(Call)
  BY <1>1, HeadTailProperties
<1>3. ASSUME NEW c \in Call
      PROVE  /\ Is(status[c], ForPhp(c)) = Count(phpQueue', {c}) + (IF m = c THEN 1 ELSE 0)
             /\ Count(phpQueue', {c}) \in Nat
  <2>1. Count(phpQueue, {c})
          = Count(Tail(phpQueue), {c}) + (IF Head(phpQueue) \in {c} THEN 1 ELSE 0)
    BY <1>1, CountTail
  <2>2. Count(phpQueue, {c}) = Is(status[c], ForPhp(c))
    BY DEF PhpQueued
  <2>3. Count(Tail(phpQueue), {c}) \in Nat
    BY <1>2, CountType
  <2> QED BY <1>1, <2>1, <2>2, <2>3
<1>4. status[m] = ForPhp(m)
  <2>1. Is(status[m], ForPhp(m)) = Count(phpQueue', {m}) + 1 /\ Count(phpQueue', {m}) \in Nat
    BY <1>3
  <2> QED BY <2>1 DEF Is
<1>5. ASSUME NEW t \in Status \ {ForPhp(m)}, status' = [status EXCEPT ![m] = t], NEW c \in Call
      PROVE  Count(phpQueue', {c}) = Is(status'[c], ForPhp(c))
  BY <1>1, <1>3, <1>5 DEF Is
<1> QED BY <1>1, <1>2, <1>4, <1>5 DEF PhpQueued

\* Other steps leave the queues alone, and the calls that are in them.
LEMMA KeepQueues ==
  ASSUME TypeOK, NEW m \in Call, NEW t \in Status, status' = [status EXCEPT ![m] = t]
  PROVE  /\ jsQueue' = jsQueue /\ JsQueued /\ status[m] # ForJs(m) /\ t # ForJs(m) => JsQueued'
         /\ phpQueue' = phpQueue /\ PhpQueued /\ status[m] # ForPhp(m) /\ t # ForPhp(m)
              => PhpQueued'
BY DEF TypeOK, JsQueued, PhpQueued, Is

-----------------------------------------------------------------------------
(***************************************************************************)
(* The stack of each thread.                                               *)
(***************************************************************************)

\* A frame on top of the stack of JavaScript.
LEMMA OneMoreFrame ==
  ASSUME NEW s \in Seq(JsFrames), NEW e \in JsFrames
  PROVE  /\ Append(s, e) \in Seq(JsFrames)
         /\ Count(Append(s, e), InCleanup) = Count(s, InCleanup) + Is(e.fn, "cleanup")
         /\ \A m : Count(Append(s, e), InJsOf(m)) =
                     Count(s, InJsOf(m)) + (IF e.fn = "inJs" THEN Is(e.msg, m) ELSE 0)
         /\ Count(Append(s, e), Blocking) =
              Count(s, Blocking)
              + (IF e.fn = "process" THEN (IF e.msg = None THEN 0 ELSE 1) ELSE 0)
<1>1. /\ e \in InCleanup <=> e.fn = "cleanup"
      /\ e \in Blocking <=> e.fn = "process" /\ e.msg # None
  BY DEF InCleanup, Blocking
<1>2. \A m : e \in InJsOf(m) <=> e.fn = "inJs" /\ e.msg = m
  BY DEF InJsOf
<1>3. \A T : Count(Append(s, e), T) = Count(s, T) + (IF e \in T THEN 1 ELSE 0)
  BY CountAppend
<1>4. Count(Append(s, e), InCleanup) = Count(s, InCleanup) + Is(e.fn, "cleanup")
  <2>1. Count(Append(s, e), InCleanup) = Count(s, InCleanup) + (IF e \in InCleanup THEN 1 ELSE 0)
    BY <1>3
  <2> QED BY <1>1, <2>1 DEF Is
<1>5. ASSUME NEW m
      PROVE  Count(Append(s, e), InJsOf(m)) =
               Count(s, InJsOf(m)) + (IF e.fn = "inJs" THEN Is(e.msg, m) ELSE 0)
  <2>1. Count(Append(s, e), InJsOf(m)) = Count(s, InJsOf(m)) + (IF e \in InJsOf(m) THEN 1 ELSE 0)
    BY <1>3
  <2> QED BY <1>2, <2>1 DEF Is
<1>6. Count(Append(s, e), Blocking) =
        Count(s, Blocking) + (IF e.fn = "process" THEN (IF e.msg = None THEN 0 ELSE 1) ELSE 0)
  <2>1. Count(Append(s, e), Blocking) = Count(s, Blocking) + (IF e \in Blocking THEN 1 ELSE 0)
    BY <1>3
  <2> QED BY <1>1, <2>1
<1> QED BY <1>4, <1>5, <1>6, AppendProperties

\* The stack of JavaScript without its top.
LEMMA OneFrameLess ==
  ASSUME NEW s \in Seq(JsFrames), s # <<>>
  PROVE  /\ Pop(s) \in Seq(JsFrames) /\ Top(s) \in JsFrames
         /\ Count(Pop(s), InCleanup) = Count(s, InCleanup) - Is(Top(s).fn, "cleanup")
         /\ \A m : Count(Pop(s), InJsOf(m)) =
                     Count(s, InJsOf(m)) - (IF Top(s).fn = "inJs" THEN Is(Top(s).msg, m) ELSE 0)
         /\ Count(Pop(s), Blocking) =
              Count(s, Blocking)
              - (IF Top(s).fn = "process" THEN (IF Top(s).msg = None THEN 0 ELSE 1) ELSE 0)
         /\ \A T : Count(Pop(s), T) \in Nat /\ Count(s, T) \in Nat
<1>1. PICK t \in Seq(JsFrames), e \in JsFrames : t = Pop(s) /\ e = Top(s) /\ s = Append(t, e)
  BY PopTop
<1>2. \A T : Count(t, T) \in Nat /\ Count(s, T) \in Nat
  BY CountType
<1>3. /\ Count(s, InCleanup) = Count(t, InCleanup) + Is(e.fn, "cleanup")
      /\ \A m : Count(s, InJsOf(m)) =
                  Count(t, InJsOf(m)) + (IF e.fn = "inJs" THEN Is(e.msg, m) ELSE 0)
      /\ Count(s, Blocking) =
           Count(t, Blocking)
           + (IF e.fn = "process" THEN (IF e.msg = None THEN 0 ELSE 1) ELSE 0)
  BY <1>1, OneMoreFrame
<1>4. Is(e.fn, "cleanup") \in Nat /\ \A m : Is(e.msg, m) \in Nat
  BY DEF Is
<1>5. ASSUME NEW m
      PROVE  Count(t, InJsOf(m)) =
               Count(s, InJsOf(m)) - (IF e.fn = "inJs" THEN Is(e.msg, m) ELSE 0)
  <2>1. /\ Count(s, InJsOf(m)) =
             Count(t, InJsOf(m)) + (IF e.fn = "inJs" THEN Is(e.msg, m) ELSE 0)
        /\ Count(t, InJsOf(m)) \in Nat /\ Is(e.msg, m) \in Nat
    BY <1>2, <1>3, <1>4
  <2> QED BY <2>1
<1>6. /\ Count(t, InCleanup) = Count(s, InCleanup) - Is(e.fn, "cleanup")
      /\ Count(t, Blocking) =
           Count(s, Blocking)
           - (IF e.fn = "process" THEN (IF e.msg = None THEN 0 ELSE 1) ELSE 0)
  <2>1. Count(t, InCleanup) \in Nat /\ Count(t, Blocking) \in Nat
    BY <1>2
  <2> QED BY <1>3, <1>4, <2>1
<1> QED BY <1>1, <1>2, <1>5, <1>6

LEMMA PhpFrame ==
  ASSUME NEW s \in Seq(PhpFrames), NEW e \in PhpFrames, NEW r
  PROVE  /\ Append(s, e) \in Seq(PhpFrames)
         /\ Count(Append(s, e), InPhpOf(r)) =
              Count(s, InPhpOf(r)) + (IF e.fn = "inPhp" THEN Is(e.msg, r) ELSE 0)
<1>1. e \in InPhpOf(r) <=> e.fn = "inPhp" /\ e.msg = r
  BY DEF InPhpOf
<1>2. Count(Append(s, e), InPhpOf(r)) = Count(s, InPhpOf(r)) + (IF e \in InPhpOf(r) THEN 1 ELSE 0)
  BY CountAppend
<1> QED BY <1>1, <1>2, AppendProperties DEF Is

LEMMA PhpFrameLess ==
  ASSUME NEW s \in Seq(PhpFrames), s # <<>>, NEW r
  PROVE  /\ Pop(s) \in Seq(PhpFrames) /\ Top(s) \in PhpFrames
         /\ Count(Pop(s), InPhpOf(r)) =
              Count(s, InPhpOf(r)) - (IF Top(s).fn = "inPhp" THEN Is(Top(s).msg, r) ELSE 0)
         /\ Count(Pop(s), InPhpOf(r)) \in Nat
<1>1. PICK t \in Seq(PhpFrames), e \in PhpFrames : t = Pop(s) /\ e = Top(s) /\ s = Append(t, e)
  BY PopTop
<1>2. Count(t, InPhpOf(r)) \in Nat /\ Is(e.msg, r) \in Nat
  BY CountType DEF Is
<1>3. Count(s, InPhpOf(r)) =
        Count(t, InPhpOf(r)) + (IF e.fn = "inPhp" THEN Is(e.msg, r) ELSE 0)
  BY <1>1, PhpFrame
<1>4. Count(t, InPhpOf(r)) =
        Count(s, InPhpOf(r)) - (IF e.fn = "inPhp" THEN Is(e.msg, r) ELSE 0)
  BY <1>2, <1>3
<1> QED BY <1>1, <1>2, <1>4

\* NoAsyncIsExact, of any stack.
Exact(s) ==
  \A j \in 1 .. Len(s) :
    s[j].sync <=> \E i \in 1 .. j : s[i].fn = "process" /\ s[i].msg # None

LEMMA BlockingSome ==
  ASSUME NEW s \in Seq(JsFrames)
  PROVE  /\ Count(s, Blocking) \in Nat
         /\ Count(s, Blocking) > 0 <=>
              \E i \in 1 .. Len(s) : s[i].fn = "process" /\ s[i].msg # None
<1>1. /\ Count(s, Blocking) \in Nat
      /\ Count(s, Blocking) = 0 <=> ~\E i \in 1 .. Len(s) : s[i] \in Blocking
  BY CountSome
<1>2. \A i \in 1 .. Len(s) : s[i] \in Blocking <=> s[i].fn = "process" /\ s[i].msg # None
  BY DEF Blocking
<1> QED BY <1>1, <1>2

LEMMA ExactAppend ==
  ASSUME NEW s \in Seq(JsFrames), NEW e \in JsFrames, Exact(s),
         e.sync <=> Count(s, Blocking) > 0 \/ (e.fn = "process" /\ e.msg # None)
  PROVE  Exact(Append(s, e))
<1> DEFINE t == Append(s, e)
<1>1. /\ Len(s) \in Nat /\ Len(t) = Len(s) + 1 /\ t[Len(s) + 1] = e
      /\ \A i \in 1 .. Len(s) : t[i] = s[i]
  OBVIOUS
<1> HIDE DEF t
<1>2. ASSUME NEW j \in 1 .. Len(s)
      PROVE  t[j].sync <=> \E i \in 1 .. j : t[i].fn = "process" /\ t[i].msg # None
  <2>1. \A i \in 1 .. j : i \in 1 .. Len(s) /\ t[i] = s[i]
    BY <1>1
  <2>2. s[j].sync <=> \E i \in 1 .. j : s[i].fn = "process" /\ s[i].msg # None
    BY DEF Exact
  <2> QED BY <1>1, <2>1, <2>2
<1>3. e.sync <=> \E i \in 1 .. Len(s) + 1 : t[i].fn = "process" /\ t[i].msg # None
  <2>1. Count(s, Blocking) > 0 <=> \E i \in 1 .. Len(s) : s[i].fn = "process" /\ s[i].msg # None
    BY BlockingSome
  <2>2. \A i : i \in 1 .. Len(s) + 1 <=> i \in 1 .. Len(s) \/ i = Len(s) + 1
    BY <1>1
  <2> QED BY <1>1, <2>1, <2>2
<1>4. Exact(t)
  <2>1. \A j \in 1 .. Len(t) : j \in 1 .. Len(s) \/ j = Len(s) + 1
    BY <1>1
  <2> QED BY <1>1, <1>2, <1>3, <2>1 DEF Exact
<1> QED BY <1>4 DEF t

LEMMA ExactTop ==
  ASSUME NEW s \in Seq(JsFrames), s # <<>>, Exact(s)
  PROVE  Exact(Pop(s)) /\ (Top(s).sync <=> Count(s, Blocking) > 0)
<1>1. /\ Len(s) \in Nat \ {0} /\ Len(Pop(s)) = Len(s) - 1
      /\ \A i \in 1 .. Len(Pop(s)) : Pop(s)[i] = s[i]
  BY PopTop
<1>2. ASSUME NEW j \in 1 .. Len(Pop(s))
      PROVE  Pop(s)[j].sync <=> \E i \in 1 .. j : Pop(s)[i].fn = "process" /\ Pop(s)[i].msg # None
  <2>1. j \in 1 .. Len(s) /\ \A i \in 1 .. j : Pop(s)[i] = s[i]
    BY <1>1
  <2>2. j \in 1 .. j
    BY <1>1
  <2> QED BY <2>1, <2>2 DEF Exact
<1>3. Top(s).sync <=> \E i \in 1 .. Len(s) : s[i].fn = "process" /\ s[i].msg # None
  BY <1>1 DEF Exact, Top
<1> QED BY <1>2, <1>3, BlockingSome DEF Exact

-----------------------------------------------------------------------------
(***************************************************************************)
(* The steps of the PHP thread.                                            *)
(***************************************************************************)

\* What CallProtocol and AnswerIsStable say of a step.
Onward ==
  /\ \A c \in Call : \/ status'[c] = status[c]
                     \/ status'[c] = "refused"
                     \/ <<status[c], status'[c]>> \in Progress
  /\ \A m \in PhpCall : outcome[m] # "none" => outcome'[m] = outcome[m]

LEMMA MovesOnward ==
  ASSUME TypeOK, NEW m \in Call, NEW t \in Status, status' = [status EXCEPT ![m] = t],
         t = "refused" \/ <<status[m], t>> \in Progress, outcome' = outcome
  PROVE  Onward /\ status' \in [Call -> Status]
BY DEF TypeOK, Onward

\* A step of the PHP thread that changes the status of m.
LEMMA PhpSide ==
  ASSUME IInv, UNCHANGED jsVars, NEW m \in Call, NEW t \in Status,
         status' = [status EXCEPT ![m] = t],
         m \in JsCall \/ <<status[m], t>> \in { <<"new", "requested">>, <<"new", "refused">>,
                                                <<"answered", "processed">>,
                                                <<"processed", "returned">> }
  PROVE  JsRuns' /\ Pending' /\ Synced'
<1>1. /\ jsStack' = jsStack /\ jsIsSync' = jsIsSync /\ callback' = callback
      /\ flagged' = flagged /\ outcome' = outcome /\ status \in [Call -> Status]
      /\ JsRuns /\ Pending /\ Synced
  BY DEF jsVars, IInv, TypeOK
<1>2. /\ Cleanup \in Call /\ PhpCall \subseteq Call /\ Cleanup \notin JsCall
      /\ \A c \in PhpCall : c \notin JsCall
  BY StatusValues
<1>3. Is(status'[Cleanup], "running") = Is(status[Cleanup], "running")
  BY <1>1, <1>2 DEF Is
<1>4. ASSUME NEW c \in PhpCall
      PROVE  \/ status'[c] = status[c]
             \/ <<status[c], status'[c]>> \in { <<"new", "requested">>, <<"new", "refused">>,
                                                <<"answered", "processed">>,
                                                <<"processed", "returned">> }
  BY <1>1, <1>2
<1>5. JsRuns'
  <2>1. ASSUME NEW c \in PhpCall, Count(jsStack, InJsOf(c)) = 1
        PROVE  /\ status'[c] \notin {"new", "requested"}
               /\ c \notin flagged => status'[c] = "running"
    BY <1>1, <1>4, <2>1 DEF JsRuns
  <2> QED BY <1>1, <1>3, <2>1 DEF JsRuns
<1>6. Pending'
  BY <1>1, <1>4 DEF Pending
<1>7. Synced'
  BY <1>1 DEF Synced, NoAsyncIsExact
<1> QED BY <1>5, <1>6, <1>7

\* A loop is entered to wait for the message that was sent.
LEMMA PhpSends ==
  ASSUME IInv, NEW m \in PhpCall \cup {Cleanup}, status[m] = "new",
         PushToJs(m, "requested"), phpStack' = Append(phpStack, Frame("process", m)),
         m = Cleanup => phpStack = <<>>,
         UNCHANGED <<phpQueue, jsShut, phpShut, jsVars, valid, ends>>
  PROVE  IInv' /\ Onward
<1>1. /\ TypeOK /\ JsQueued /\ PhpQueued /\ PhpRuns /\ m \in Call /\ m \notin JsCall
      /\ ForJs(m) = "requested" /\ ForPhp(m) = "answered"
      /\ phpStack \in Seq(PhpFrames)
  BY StatusValues DEF IInv, TypeOK, PhpFrames
<1>2. PICK t \in {"requested", "refused"} : status' = [status EXCEPT ![m] = t]
  BY <1>1, PushJs
<1>3. jsQueue' \in Seq(Call) /\ JsQueued'
  BY <1>1, PushJs
<1>4. t \in Status /\ t # ForPhp(m) /\ outcome' = outcome /\ phpQueue' = phpQueue
  BY <1>1 DEF Status, jsVars
<1>5. PhpQueued'
  BY <1>1, <1>2, <1>4, KeepQueues
<1>6. JsRuns' /\ Pending' /\ Synced'
  BY <1>1, <1>2, <1>4, PhpSide
<1>7. Onward /\ status' \in [Call -> Status]
  BY <1>1, <1>2, <1>4, MovesOnward DEF Progress
<1>8. Frame("process", m) \in PhpFrames
  BY <1>1 DEF Frame, PhpFrames
<1>9. PhpRuns'
  <2>1. ASSUME NEW r \in JsCall
        PROVE  Count(phpStack', InPhpOf(r)) = Is(status'[r], "running")
    <3>1. Count(phpStack', InPhpOf(r)) = Count(phpStack, InPhpOf(r))
      <4>1. Count(phpStack, InPhpOf(r)) \in Nat
        BY <1>1, CountType
      <4> QED BY <1>1, <1>8, <4>1, PhpFrame DEF Frame
    <3>2. status'[r] = status[r]
      BY <1>1, <1>2, StatusValues DEF TypeOK
    <3> QED BY <1>1, <3>1, <3>2 DEF PhpRuns
  <2>2. ASSUME NEW i \in 1 .. Len(phpStack'), phpStack'[i].msg \in {Cleanup, None}
        PROVE  i = 1
    <3>1. CASE i \in 1 .. Len(phpStack)
      BY <1>1, <1>8, <2>2, <3>1 DEF PhpRuns
    <3>2. CASE i = Len(phpStack) + 1
      <4>1. phpStack'[i].msg = m
        BY <1>1, <1>8, <3>2 DEF Frame
      <4>2. m = Cleanup
        BY <1>1, <2>2, <4>1, StatusValues
      <4> QED BY <3>2, <4>2
    <3> QED BY <1>1, <1>8, <3>1, <3>2
  <2> QED BY <2>1, <2>2 DEF PhpRuns
<1>10. phpStack' \in Seq(PhpFrames)
  BY <1>1, <1>8, AppendProperties
<1>11. TypeOK'
  BY <1>1, <1>3, <1>7, <1>10 DEF TypeOK, jsVars, ends, PhpFrames
<1> QED BY <1>3, <1>5, <1>6, <1>7, <1>9, <1>11 DEF IInv

\* A message is taken and its status set, by a step that leaves the stack alone.
LEMMA PhpReceives ==
  ASSUME IInv, NEW m \in PhpCall \cup {Cleanup}, PhpTakesResponse(m)
  PROVE  IInv' /\ Onward
<1>1. /\ TypeOK /\ JsQueued /\ PhpQueued /\ PhpRuns /\ m \in Call /\ m \notin JsCall
      /\ ForJs(m) = "requested" /\ ForPhp(m) = "answered"
  BY StatusValues DEF IInv
<1>2. /\ PhpTakes(m) /\ status' = [status EXCEPT ![m] = "processed"]
      /\ UNCHANGED <<jsQueue, jsShut, phpShut, jsVars, phpStack, valid, ends>>
  BY DEF PhpTakesResponse
<1>3. status[m] = "answered" /\ phpQueue' \in Seq(Call) /\ PhpQueued'
  BY <1>1, <1>2, TakePhp DEF Status
<1>4. "processed" \in Status /\ outcome' = outcome /\ jsQueue' = jsQueue
  BY <1>2 DEF Status, jsVars
<1>5. JsQueued'
  BY <1>1, <1>2, <1>3, <1>4, KeepQueues
<1>6. JsRuns' /\ Pending' /\ Synced'
  BY <1>1, <1>2, <1>3, <1>4, PhpSide
<1>7. Onward /\ status' \in [Call -> Status]
  BY <1>1, <1>2, <1>3, <1>4, MovesOnward DEF Progress
<1>8. PhpRuns'
  <2>1. \A r \in JsCall : status'[r] = status[r]
    BY <1>1, <1>2, StatusValues DEF TypeOK
  <2> QED BY <1>1, <1>2, <2>1 DEF PhpRuns
<1>9. TypeOK'
  BY <1>1, <1>2, <1>3, <1>7 DEF TypeOK, jsVars, ends
<1> QED BY <1>3, <1>5, <1>6, <1>7, <1>8, <1>9 DEF IInv

LEMMA PhpBegins ==
  ASSUME IInv, NEW r \in JsCall, PhpTakesRequest(r)
  PROVE  IInv' /\ Onward
<1>1. /\ TypeOK /\ JsQueued /\ PhpQueued /\ PhpRuns /\ r \in Call
      /\ ForJs(r) = "answered" /\ ForPhp(r) = "requested"
      /\ phpStack \in Seq(PhpFrames)
  BY StatusValues DEF IInv, TypeOK, PhpFrames
<1>2. /\ PhpTakes(r) /\ status' = [status EXCEPT ![r] = "running"]
      /\ phpStack' = Append(phpStack, Frame("inPhp", r))
      /\ UNCHANGED <<jsQueue, jsShut, phpShut, jsVars, valid, ends>>
  BY DEF PhpTakesRequest
<1>3. status[r] = "requested" /\ phpQueue' \in Seq(Call) /\ PhpQueued'
      /\ phpStack # <<>>
  BY <1>1, <1>2, TakePhp DEF Status
<1>4. "running" \in Status /\ outcome' = outcome /\ jsQueue' = jsQueue
  BY <1>2 DEF Status, jsVars
<1>5. JsQueued'
  BY <1>1, <1>2, <1>3, <1>4, KeepQueues
<1>6. JsRuns' /\ Pending' /\ Synced'
  BY <1>1, <1>2, <1>3, <1>4, PhpSide
<1>7. Onward /\ status' \in [Call -> Status]
  BY <1>1, <1>2, <1>3, <1>4, MovesOnward DEF Progress
<1>8. Frame("inPhp", r) \in PhpFrames
  BY <1>1 DEF Frame, PhpFrames
<1>9. PhpRuns'
  <2>1. ASSUME NEW q \in JsCall
        PROVE  Count(phpStack', InPhpOf(q)) = Is(status'[q], "running")
    <3>1. Count(phpStack', InPhpOf(q)) = Count(phpStack, InPhpOf(q)) + Is(r, q)
      BY <1>1, <1>2, <1>8, PhpFrame DEF Frame
    <3>2. Count(phpStack, InPhpOf(q)) = Is(status[q], "running")
      BY <1>1 DEF PhpRuns
    <3>3. q \in Call /\ status'[q] = IF q = r THEN "running" ELSE status[q]
      BY <1>1, <1>2, StatusValues DEF TypeOK
    <3> QED BY <1>3, <3>1, <3>2, <3>3 DEF Is
  <2>2. ASSUME NEW i \in 1 .. Len(phpStack'), phpStack'[i].msg \in {Cleanup, None}
        PROVE  i = 1
    <3>1. CASE i \in 1 .. Len(phpStack)
      BY <1>1, <1>2, <1>8, <2>2, <3>1 DEF PhpRuns
    <3>2. CASE i = Len(phpStack) + 1
      <4>1. phpStack'[i].msg = r
        BY <1>1, <1>2, <1>8, <3>2 DEF Frame
      <4> QED BY <2>2, <4>1, StatusValues
    <3> QED BY <1>1, <1>2, <1>8, <3>1, <3>2
  <2> QED BY <2>1, <2>2 DEF PhpRuns
<1>10. phpStack' \in Seq(PhpFrames)
  BY <1>1, <1>2, <1>8, AppendProperties
<1>11. TypeOK'
  BY <1>1, <1>2, <1>3, <1>7, <1>10 DEF TypeOK, jsVars, ends, PhpFrames
<1> QED BY <1>3, <1>5, <1>6, <1>7, <1>9, <1>11 DEF IInv

LEMMA PhpRejects ==
  ASSUME IInv, NEW r \in JsCall, PhpRejectsRequest(r)
  PROVE  IInv' /\ Onward
<1>1. /\ TypeOK /\ JsQueued /\ PhpQueued /\ PhpRuns /\ r \in Call
      /\ ForJs(r) = "answered" /\ ForPhp(r) = "requested"
  BY StatusValues DEF IInv
<1>2. /\ PhpTakes(r) /\ PushToJs(r, "answered")
      /\ UNCHANGED <<jsShut, phpShut, jsVars, phpStack, valid, ends>>
  BY DEF PhpRejectsRequest
<1>3. status[r] = "requested" /\ phpQueue' \in Seq(Call)
  BY <1>1, <1>2, TakePhp
<1>4. PICK t \in {"answered", "refused"} : status' = [status EXCEPT ![r] = t]
  BY <1>1, <1>2, <1>3, PushJs
<1>5. jsQueue' \in Seq(Call) /\ JsQueued'
  BY <1>1, <1>2, <1>3, PushJs
<1>6. t \in Status /\ t # "requested" /\ outcome' = outcome
  BY <1>2 DEF Status, jsVars
<1>7. PhpQueued'
  BY <1>1, <1>2, <1>4, <1>6, TakePhp
<1>8. JsRuns' /\ Pending' /\ Synced'
  BY <1>1, <1>2, <1>4, <1>6, PhpSide
<1>9. Onward /\ status' \in [Call -> Status]
  BY <1>1, <1>3, <1>4, <1>6, MovesOnward DEF Progress
<1>10. PhpRuns'
  <2>1. \A q \in JsCall : Is(status'[q], "running") = Is(status[q], "running")
    BY <1>1, <1>3, <1>4, StatusValues DEF TypeOK, Is
  <2> QED BY <1>1, <1>2, <2>1 DEF PhpRuns
<1>11. TypeOK'
  BY <1>1, <1>2, <1>3, <1>5, <1>9 DEF TypeOK, jsVars, ends
<1> QED BY <1>5, <1>7, <1>8, <1>9, <1>10, <1>11 DEF IInv

LEMMA PhpAnswers ==
  ASSUME IInv, NEW r \in JsCall, InPhpReturns(r)
  PROVE  IInv' /\ Onward
<1>1. /\ TypeOK /\ JsQueued /\ PhpQueued /\ PhpRuns /\ r \in Call
      /\ ForJs(r) = "answered" /\ ForPhp(r) = "requested"
      /\ phpStack \in Seq(PhpFrames)
  BY StatusValues DEF IInv, TypeOK, PhpFrames
<1>2. /\ phpStack # <<>> /\ Top(phpStack).fn = "inPhp" /\ Top(phpStack).msg = r
      /\ phpStack' = Pop(phpStack) /\ PushToJs(r, "answered")
      /\ UNCHANGED <<phpQueue, jsShut, phpShut, jsVars, valid, ends>>
  BY DEF InPhpReturns, In
<1>3. ASSUME NEW q \in JsCall
      PROVE  /\ Count(phpStack', InPhpOf(q)) = Is(status[q], "running") - Is(r, q)
             /\ Count(phpStack', InPhpOf(q)) \in Nat
  BY <1>1, <1>2, PhpFrameLess DEF PhpRuns
<1>4. status[r] = "running"
  <2>1. Is(status[r], "running") - Is(r, r) \in Nat
    BY <1>3
  <2> QED BY <2>1 DEF Is
<1>5. PICK t \in {"answered", "refused"} : status' = [status EXCEPT ![r] = t]
  BY <1>1, <1>2, <1>4, PushJs
<1>6. jsQueue' \in Seq(Call) /\ JsQueued'
  BY <1>1, <1>2, <1>4, PushJs
<1>7. t \in Status /\ t # "requested" /\ t # "running" /\ outcome' = outcome
  BY <1>2 DEF Status, jsVars
<1>8. PhpQueued'
  BY <1>1, <1>2, <1>4, <1>5, <1>7, KeepQueues
<1>9. JsRuns' /\ Pending' /\ Synced'
  BY <1>1, <1>2, <1>5, <1>7, PhpSide
<1>10. Onward /\ status' \in [Call -> Status]
  BY <1>1, <1>4, <1>5, <1>7, MovesOnward DEF Progress
<1>11. PhpRuns'
  <2>1. ASSUME NEW q \in JsCall
        PROVE  Count(phpStack', InPhpOf(q)) = Is(status'[q], "running")
    <3>1. q \in Call /\ status'[q] = IF q = r THEN t ELSE status[q]
      BY <1>1, <1>5, StatusValues DEF TypeOK
    <3> QED BY <1>3, <1>4, <1>7, <3>1 DEF Is
  <2>2. \A i \in 1 .. Len(phpStack') :
          i \in 1 .. Len(phpStack) /\ phpStack'[i] = phpStack[i]
    BY <1>1, <1>2, PopTop
  <2> QED BY <1>1, <2>1, <2>2 DEF PhpRuns
<1>12. phpStack' \in Seq(PhpFrames)
  BY <1>1, <1>2, PopTop
<1>13. TypeOK'
  BY <1>1, <1>2, <1>6, <1>10, <1>12 DEF TypeOK, jsVars, ends, PhpFrames
<1> QED BY <1>6, <1>8, <1>9, <1>10, <1>11, <1>13 DEF IInv

\* Under the loops of Execute itself no request part runs.
LEMMA BottomLoop ==
  ASSUME IInv, In(phpStack, "process"), Top(phpStack).msg \in {Cleanup, None}
  PROVE  \A q \in JsCall : Is(status[q], "running") = 0
<1>1. /\ phpStack \in Seq(PhpFrames) /\ phpStack # <<>> /\ PhpRuns
      /\ Top(phpStack).fn = "process"
  BY DEF IInv, TypeOK, PhpFrames, In
<1>2. Len(phpStack) \in Nat \ {0} /\ Len(Pop(phpStack)) = Len(phpStack) - 1
      /\ Pop(phpStack) \in Seq(PhpFrames)
  BY <1>1, PopTop
<1>3. Len(phpStack) = 1
  <2>1. phpStack[Len(phpStack)].msg \in {Cleanup, None}
    BY DEF Top
  <2> QED BY <1>1, <1>2, <2>1 DEF PhpRuns
<1>4. Pop(phpStack) = <<>>
  BY <1>2, <1>3, EmptySeq
<1>5. ASSUME NEW q \in JsCall
      PROVE  Is(status[q], "running") = 0
  <2>1. Count(Pop(phpStack), InPhpOf(q)) = Count(phpStack, InPhpOf(q)) - 0
    BY <1>1, PhpFrameLess
  <2>2. Count(phpStack, InPhpOf(q)) \in Nat
    BY <1>1, CountType
  <2>3. Count(Pop(phpStack), InPhpOf(q)) = 0
    BY <1>4, CountEmpty
  <2> QED BY <1>1, <2>1, <2>2, <2>3 DEF PhpRuns
<1> QED BY <1>5

LEMMA PhpReturns ==
  ASSUME IInv, NEW m \in PhpCall \cup {Cleanup}, SendToJsReturns(m)
  PROVE  IInv' /\ Onward
<1>1. /\ TypeOK /\ JsQueued /\ PhpQueued /\ PhpRuns /\ m \in Call /\ m \notin JsCall /\ m # None
      /\ ForJs(m) = "requested" /\ ForPhp(m) = "answered"
      /\ phpStack \in Seq(PhpFrames)
  BY StatusValues DEF IInv, TypeOK, PhpFrames
<1>2. /\ In(phpStack, "process") /\ phpStack # <<>>
      /\ Top(phpStack).fn = "process" /\ Top(phpStack).msg = m
      /\ status[m] = "processed" /\ status' = [status EXCEPT ![m] = "returned"]
      /\ UNCHANGED <<queues, jsVars, valid, ends>>
  BY <1>1 DEF SendToJsReturns, Finished, In
<1>3. "returned" \in Status /\ outcome' = outcome /\ jsQueue' = jsQueue /\ phpQueue' = phpQueue
  BY <1>2 DEF Status, jsVars, queues
<1>4. JsQueued' /\ PhpQueued'
  BY <1>1, <1>2, <1>3, KeepQueues
<1>5. JsRuns' /\ Pending' /\ Synced'
  BY <1>1, <1>2, <1>3, PhpSide
<1>6. Onward /\ status' \in [Call -> Status]
  BY <1>1, <1>2, <1>3, MovesOnward DEF Progress
<1>7. \A q \in JsCall : status'[q] = status[q]
  BY <1>1, <1>2, StatusValues DEF TypeOK
<1>8. PhpRuns' /\ phpStack' \in Seq(PhpFrames)
  <2>1. CASE m = Cleanup
    <3> DEFINE e == Frame("process", None)
    <3>1. phpStack' = <<e>> /\ e \in PhpFrames /\ e.fn = "process"
      BY <2>1 DEF SendToJsReturns, Frame, PhpFrames
    <3> HIDE DEF e
    <3>2. ASSUME NEW q \in JsCall PROVE Count(<<e>>, InPhpOf(q)) = 0
      BY <3>1, CountOne DEF InPhpOf
    <3>3. \A q \in JsCall : Is(status[q], "running") = 0
      BY <1>2, <2>1, BottomLoop
    <3> QED BY <1>7, <3>1, <3>2, <3>3 DEF PhpRuns
  <2>2. CASE m # Cleanup
    <3>1. phpStack' = Pop(phpStack)
      BY <2>2 DEF SendToJsReturns
    <3>2. ASSUME NEW q \in JsCall
          PROVE  Count(Pop(phpStack), InPhpOf(q)) = Is(status[q], "running")
      <4>1. Count(Pop(phpStack), InPhpOf(q)) = Count(phpStack, InPhpOf(q)) - 0
        BY <1>1, <1>2, PhpFrameLess
      <4>2. Count(phpStack, InPhpOf(q)) \in Nat
        BY <1>1, CountType
      <4> QED BY <1>1, <4>1, <4>2 DEF PhpRuns
    <3>3. /\ Pop(phpStack) \in Seq(PhpFrames)
          /\ \A i \in 1 .. Len(Pop(phpStack)) :
               i \in 1 .. Len(phpStack) /\ Pop(phpStack)[i] = phpStack[i]
      BY <1>1, <1>2, PopTop
    <3> QED BY <1>1, <1>7, <3>1, <3>2, <3>3 DEF PhpRuns
  <2> QED BY <2>1, <2>2
<1>9. TypeOK'
  BY <1>1, <1>2, <1>6, <1>8 DEF TypeOK, jsVars, ends, queues, PhpFrames
<1> QED BY <1>4, <1>5, <1>6, <1>8, <1>9 DEF IInv

LEMMA PhpShutsDown ==
  ASSUME IInv, ShutdownJsQueue
  PROVE  IInv' /\ Onward
<1>1. /\ In(phpStack, "process") /\ Top(phpStack).msg = None
      /\ phpStack' = <<>> /\ jsShut' = TRUE
      /\ UNCHANGED <<jsQueue, phpQueue, phpShut, jsVars, valid, status, ends>>
  BY DEF ShutdownJsQueue
<1>2. JsQueued' /\ PhpQueued' /\ JsRuns' /\ Pending' /\ Synced'
  BY <1>1 DEF IInv, JsQueued, PhpQueued, JsRuns, Pending, Synced, NoAsyncIsExact, jsVars
<1>3. PhpRuns'
  <2>1. \A q \in JsCall : Is(status'[q], "running") = 0
    BY <1>1, BottomLoop
  <2> QED BY <1>1, <2>1, CountEmpty DEF PhpRuns
<1>4. TypeOK'
  BY <1>1, EmptySeq DEF IInv, TypeOK, jsVars, ends
<1>5. Onward
  BY <1>1 DEF Onward, jsVars
<1> QED BY <1>2, <1>3, <1>4, <1>5 DEF IInv

LEMMA PhpStep ==
  ASSUME IInv, PhpThread \/ \E m \in PhpCall : SendToJs(m)
  PROVE  IInv' /\ Onward
<1>1. ASSUME NEW m \in PhpCall, SendToJs(m)
      PROVE  IInv' /\ Onward
  BY <1>1, PhpSends, StatusValues DEF SendToJs
<1>2. CASE SendCleanup
  <2>1. phpStack' = Append(phpStack, Frame("process", Cleanup))
    BY <1>2 DEF SendCleanup, ScriptRuns
  <2> QED BY <1>2, <2>1, PhpSends DEF SendCleanup, ScriptRuns
<1>3. CASE ExecuteReturns
  BY <1>3 DEF ExecuteReturns, IInv, TypeOK, JsQueued, PhpQueued, JsRuns, PhpRuns, Pending, Synced,
              NoAsyncIsExact, Onward, queues, jsVars
<1> QED BY <1>1, <1>2, <1>3, PhpReceives, PhpBegins, PhpRejects, PhpAnswers, PhpReturns,
           PhpShutsDown DEF PhpThread

-----------------------------------------------------------------------------
(***************************************************************************)
(* The steps of the node thread.                                           *)
(***************************************************************************)

\* A step of the node thread that changes the status of m.
LEMMA JsSide ==
  ASSUME IInv, phpStack' = phpStack, NEW m \in Call, NEW t \in Status,
         status' = [status EXCEPT ![m] = t],
         m \in JsCall => status[m] # "running" /\ t # "running"
  PROVE  PhpRuns'
<1>1. /\ PhpRuns /\ status \in [Call -> Status] /\ JsCall \subseteq Call
  BY StatusValues DEF IInv, TypeOK
<1>2. \A q \in JsCall : Is(status'[q], "running") = Is(status[q], "running")
  BY <1>1 DEF Is
<1> QED BY <1>1, <1>2 DEF PhpRuns

\* A step that moves a call but runs none.
LEMMA RunsNone ==
  ASSUME IInv, UNCHANGED <<callback, flagged, outcome>>, NEW m \in Call, NEW t \in Status,
         status' = [status EXCEPT ![m] = t],
         m \in JsCall \/ <<status[m], t>> \in { <<"answered", "processed">>,
                                                <<"processed", "returned">> },
         Count(jsStack', InCleanup) = Count(jsStack, InCleanup),
         \A c \in PhpCall : Count(jsStack', InJsOf(c)) = Count(jsStack, InJsOf(c))
  PROVE  JsRuns' /\ Pending'
<1>1. status \in [Call -> Status] /\ JsRuns /\ Pending
  BY DEF IInv, TypeOK
<1>2. /\ Cleanup \in Call /\ PhpCall \subseteq Call /\ Cleanup \notin JsCall
      /\ \A c \in PhpCall : c \notin JsCall
  BY StatusValues
<1>3. Is(status'[Cleanup], "running") = Is(status[Cleanup], "running")
  BY <1>1, <1>2 DEF Is
<1>4. ASSUME NEW c \in PhpCall
      PROVE  \/ status'[c] = status[c]
             \/ <<status[c], status'[c]>> \in { <<"answered", "processed">>,
                                                <<"processed", "returned">> }
  BY <1>1, <1>2
<1>5. JsRuns'
  <2>1. ASSUME NEW c \in PhpCall, Count(jsStack', InJsOf(c)) = 1
        PROVE  /\ status'[c] \notin {"new", "requested"}
               /\ c \notin flagged => status'[c] = "running"
    BY <1>1, <1>4, <2>1 DEF JsRuns
  <2> QED BY <1>1, <1>3, <2>1 DEF JsRuns
<1>6. Pending'
  BY <1>1, <1>4 DEF Pending
<1> QED BY <1>5, <1>6

Blocks(e) == IF e.fn = "process" THEN (IF e.msg = None THEN 0 ELSE 1) ELSE 0

LEMMA SyncPush ==
  ASSUME IInv, NEW e \in JsFrames, jsStack' = Append(jsStack, e),
         jsIsSync' = jsIsSync + Blocks(e),
         e.sync <=> jsIsSync > 0 \/ Blocks(e) = 1
  PROVE  Synced' /\ jsStack' \in Seq(JsFrames) /\ jsIsSync' \in Nat
<1>1. /\ jsStack \in Seq(JsFrames) /\ Exact(jsStack) /\ jsIsSync = Count(jsStack, Blocking)
      /\ Blocks(e) \in {0, 1} /\ jsIsSync \in Nat
  BY DEF IInv, TypeOK, JsFrames, Synced, NoAsyncIsExact, Exact, Blocks
<1>2. Count(Append(jsStack, e), Blocking) = Count(jsStack, Blocking) + Blocks(e)
  BY <1>1, OneMoreFrame DEF Blocks
<1>3. Exact(Append(jsStack, e))
  <2>1. Blocks(e) = 1 <=> e.fn = "process" /\ e.msg # None
    BY DEF Blocks
  <2> QED BY <1>1, <2>1, ExactAppend
<1> QED BY <1>1, <1>2, <1>3, AppendProperties DEF Synced, NoAsyncIsExact, Exact

LEMMA SyncPop ==
  ASSUME IInv, jsStack # <<>>, jsStack' = Pop(jsStack),
         jsIsSync' = jsIsSync - Blocks(Top(jsStack))
  PROVE  Synced' /\ jsStack' \in Seq(JsFrames) /\ jsIsSync' \in Nat
<1>1. /\ jsStack \in Seq(JsFrames) /\ Exact(jsStack) /\ jsIsSync = Count(jsStack, Blocking)
  BY DEF IInv, TypeOK, JsFrames, Synced, NoAsyncIsExact, Exact
<1>2. /\ Count(Pop(jsStack), Blocking) = Count(jsStack, Blocking) - Blocks(Top(jsStack))
      /\ Count(Pop(jsStack), Blocking) \in Nat /\ Pop(jsStack) \in Seq(JsFrames)
  BY <1>1, OneFrameLess DEF Blocks
<1>3. Exact(Pop(jsStack))
  BY <1>1, ExactTop
<1> QED BY <1>1, <1>2, <1>3 DEF Synced, NoAsyncIsExact, Exact

\* The sync of the innermost frame, which the frames above it inherit.
LEMMA SyncTop ==
  ASSUME IInv, jsStack # <<>>
  PROVE  Top(jsStack) \in JsFrames /\ (Top(jsStack).sync <=> jsIsSync > 0)
         /\ Top(jsStack).sync \in BOOLEAN
<1>1. /\ jsStack \in Seq(JsFrames) /\ Exact(jsStack) /\ jsIsSync = Count(jsStack, Blocking)
  BY DEF IInv, TypeOK, JsFrames, Synced, NoAsyncIsExact, Exact
<1>2. Top(jsStack) \in JsFrames
  BY <1>1, PopTop
<1> QED BY <1>1, <1>2, ExactTop DEF JsFrames

LEMMA JsSends ==
  ASSUME IInv, NEW r \in JsCall, SendToPhp(r)
  PROVE  IInv' /\ Onward
<1>1. /\ TypeOK /\ JsQueued /\ PhpQueued /\ r \in Call
      /\ ForJs(r) = "answered" /\ ForPhp(r) = "requested" /\ None \notin Call
      /\ jsStack \in Seq(JsFrames)
  BY StatusValues DEF IInv, TypeOK, JsFrames
<1> DEFINE e == JsFrame("process", r, TRUE)
<1>2. /\ status[r] = "new" /\ PushToPhp(r, "requested") /\ jsIsSync' = jsIsSync + 1
      /\ jsStack' = Append(jsStack, e)
      /\ UNCHANGED <<jsQueue, jsShut, phpShut, phpStack, valid, callback, flagged, outcome, ends>>
  BY DEF SendToPhp
<1>3. PICK t \in {"requested", "refused"} : status' = [status EXCEPT ![r] = t]
  BY <1>1, <1>2, PushPhp
<1>4. phpQueue' \in Seq(Call) /\ PhpQueued'
  BY <1>1, <1>2, PushPhp
<1>5. t \in Status /\ t # "answered" /\ t # "running"
  BY DEF Status
<1>6. JsQueued'
  BY <1>1, <1>2, <1>3, <1>5, KeepQueues
<1>7. Onward /\ status' \in [Call -> Status]
  BY <1>1, <1>2, <1>3, <1>5, MovesOnward DEF Progress
<1>8. PhpRuns'
  BY <1>1, <1>2, <1>3, <1>5, JsSide
<1>9. e \in JsFrames /\ e.fn = "process" /\ e.msg = r /\ e.sync = TRUE
  BY <1>1 DEF JsFrame, JsFrames
<1> HIDE DEF e
<1>10. Synced' /\ jsStack' \in Seq(JsFrames) /\ jsIsSync' \in Nat
  <2>1. Blocks(e) = 1
    BY <1>1, <1>9 DEF Blocks
  <2> QED BY <1>2, <1>9, <2>1, SyncPush
<1>11. JsRuns' /\ Pending'
  <2>1. /\ Count(jsStack', InCleanup) = Count(jsStack, InCleanup) + 0
        /\ \A c \in PhpCall : Count(jsStack', InJsOf(c)) = Count(jsStack, InJsOf(c)) + 0
    BY <1>1, <1>2, <1>9, OneMoreFrame DEF Is
  <2>2. \A T : Count(jsStack, T) \in Nat
    BY <1>1, CountType
  <2>3. /\ Count(jsStack', InCleanup) = Count(jsStack, InCleanup)
        /\ \A c \in PhpCall : Count(jsStack', InJsOf(c)) = Count(jsStack, InJsOf(c))
    BY <2>1, <2>2
  <2> QED BY <1>1, <1>2, <1>3, <1>5, <2>3, RunsNone
<1>12. TypeOK'
  BY <1>1, <1>2, <1>4, <1>7, <1>10 DEF TypeOK, ends, JsFrames
<1> QED BY <1>4, <1>6, <1>7, <1>8, <1>10, <1>11, <1>12 DEF IInv

\* A step that runs no call and moves none.
LEMMA RunsSame ==
  ASSUME IInv, UNCHANGED <<callback, flagged, outcome, status>>,
         Count(jsStack', InCleanup) = Count(jsStack, InCleanup),
         \A c \in PhpCall : Count(jsStack', InJsOf(c)) = Count(jsStack, InJsOf(c))
  PROVE  JsRuns' /\ Pending' /\ Onward
BY DEF IInv, JsRuns, Pending, Onward

\* A loop on top of the stack, or taken from it, holds no request part.
LEMMA LoopPush ==
  ASSUME IInv, NEW e \in JsFrames, e.fn = "process"
  PROVE  /\ Count(Append(jsStack, e), InCleanup) = Count(jsStack, InCleanup)
         /\ \A c \in PhpCall : Count(Append(jsStack, e), InJsOf(c)) = Count(jsStack, InJsOf(c))
<1>1. jsStack \in Seq(JsFrames)
  BY DEF IInv, TypeOK, JsFrames
<1>2. /\ Count(Append(jsStack, e), InCleanup) = Count(jsStack, InCleanup) + 0
      /\ \A c \in PhpCall : Count(Append(jsStack, e), InJsOf(c)) = Count(jsStack, InJsOf(c)) + 0
  BY <1>1, OneMoreFrame DEF Is
<1>3. \A T : Count(jsStack, T) \in Nat
  BY <1>1, CountType
<1> QED BY <1>2, <1>3

LEMMA LoopPop ==
  ASSUME IInv, In(jsStack, "process")
  PROVE  /\ Count(Pop(jsStack), InCleanup) = Count(jsStack, InCleanup)
         /\ \A c \in PhpCall : Count(Pop(jsStack), InJsOf(c)) = Count(jsStack, InJsOf(c))
<1>1. jsStack \in Seq(JsFrames) /\ jsStack # <<>> /\ Top(jsStack).fn = "process"
  BY DEF IInv, TypeOK, JsFrames, In
<1>2. /\ Count(Pop(jsStack), InCleanup) = Count(jsStack, InCleanup) - 0
      /\ \A c \in PhpCall : Count(Pop(jsStack), InJsOf(c)) = Count(jsStack, InJsOf(c)) - 0
  BY <1>1, OneFrameLess DEF Is
<1>3. \A T : Count(jsStack, T) \in Nat
  BY <1>1, CountType
<1> QED BY <1>2, <1>3

LEMMA JsTurns ==
  ASSUME IInv, JsAsyncMessage
  PROVE  IInv' /\ Onward
<1> DEFINE e == JsFrame("process", None, jsIsSync > 0)
<1>1. /\ jsStack = <<>> /\ jsStack' = <<e>>
      /\ UNCHANGED <<queues, phpStack, jsIsSync, valid, callback, flagged, outcome, status, ends>>
  BY DEF JsAsyncMessage
<1>2. e \in JsFrames /\ e.fn = "process" /\ e.msg = None /\ (e.sync <=> jsIsSync > 0)
  <2> DEFINE blocked == jsIsSync > 0
  <2>1. blocked \in BOOLEAN
    OBVIOUS
  <2>2. e = [fn |-> "process", msg |-> None, sync |-> blocked]
    BY DEF JsFrame
  <2> HIDE DEF blocked, e
  <2>3. e \in JsFrames /\ e.fn = "process" /\ e.msg = None /\ e.sync = blocked
    BY <2>1, <2>2 DEF JsFrames
  <2> QED BY <2>3 DEF blocked
<1> HIDE DEF e
<1>3. jsStack' = Append(jsStack, e)
  BY <1>1
<1>4. Synced' /\ jsStack' \in Seq(JsFrames) /\ jsIsSync' \in Nat
  <2>1. Blocks(e) = 0 /\ jsIsSync \in Nat
    BY <1>2 DEF Blocks, IInv, TypeOK
  <2>2. jsIsSync' = jsIsSync + Blocks(e) /\ (e.sync <=> jsIsSync > 0 \/ Blocks(e) = 1)
    BY <1>1, <1>2, <2>1
  <2> QED BY <1>2, <1>3, <2>2, SyncPush
<1>5. JsRuns' /\ Pending' /\ Onward
  BY <1>1, <1>2, <1>3, LoopPush, RunsSame
<1>6. JsQueued' /\ PhpQueued' /\ PhpRuns'
  BY <1>1 DEF IInv, JsQueued, PhpQueued, PhpRuns, queues
<1>7. TypeOK'
  BY <1>1, <1>4 DEF IInv, TypeOK, ends, queues, JsFrames
<1> QED BY <1>4, <1>5, <1>6, <1>7 DEF IInv

LEMMA JsReceives ==
  ASSUME IInv, NEW r \in JsCall, JsTakesResponse(r)
  PROVE  IInv' /\ Onward
<1>1. /\ TypeOK /\ JsQueued /\ PhpQueued /\ r \in Call
      /\ ForJs(r) = "answered" /\ ForPhp(r) = "requested"
  BY StatusValues DEF IInv
<1>2. /\ JsTakes(r) /\ status' = [status EXCEPT ![r] = "processed"]
      /\ jsStack' = jsStack /\ jsIsSync' = jsIsSync
      /\ UNCHANGED <<phpQueue, jsShut, phpShut, callback, flagged, outcome, phpStack, valid, ends>>
  BY DEF JsTakesResponse, jsVars
<1>3. status[r] = "answered" /\ jsQueue' \in Seq(Call) /\ JsQueued'
  BY <1>1, <1>2, TakeJs DEF Status
<1>4. "processed" \in Status
  BY DEF Status
<1>5. PhpQueued'
  BY <1>1, <1>2, <1>3, <1>4, KeepQueues
<1>6. JsRuns' /\ Pending'
  BY <1>1, <1>2, <1>4, RunsNone
<1>7. PhpRuns'
  BY <1>1, <1>2, <1>3, <1>4, JsSide
<1>8. Onward /\ status' \in [Call -> Status]
  BY <1>1, <1>2, <1>3, <1>4, MovesOnward DEF Progress
<1>9. Synced'
  BY <1>2 DEF IInv, Synced, NoAsyncIsExact
<1>10. TypeOK'
  BY <1>1, <1>2, <1>3, <1>8 DEF TypeOK, ends
<1> QED BY <1>3, <1>5, <1>6, <1>7, <1>8, <1>9, <1>10 DEF IInv

LEMMA JsLoopReturns ==
  ASSUME IInv, ProcessJsReturns
  PROVE  IInv' /\ Onward
<1>1. TypeOK /\ JsQueued /\ PhpQueued /\ jsStack \in Seq(JsFrames) /\ None \notin Call
  BY StatusValues DEF IInv, TypeOK, JsFrames
<1>2. /\ In(jsStack, "process") /\ jsStack # <<>> /\ Top(jsStack).fn = "process"
      /\ jsStack' = Pop(jsStack) /\ Finished(jsStack, jsQueue)
      /\ UNCHANGED <<queues, phpStack, valid, callback, flagged, outcome, ends>>
  BY DEF ProcessJsReturns, In
<1>3. jsQueue' = jsQueue /\ phpQueue' = phpQueue
  BY <1>2 DEF queues
<1>4. PICK m \in Call \cup {None} : m = Top(jsStack).msg
  BY <1>1, <1>2, SyncTop DEF JsFrames
<1>5. jsIsSync' = jsIsSync - Blocks(Top(jsStack))
  <2>1. jsIsSync \in Nat
    BY <1>1 DEF TypeOK
  <2> QED BY <1>2, <2>1 DEF ProcessJsReturns, Blocks
<1>6. Synced' /\ jsStack' \in Seq(JsFrames) /\ jsIsSync' \in Nat
  BY <1>2, <1>5, SyncPop
<1>7. CASE m = None
  <2>1. status' = status
    BY <1>4, <1>7 DEF ProcessJsReturns
  <2>2. JsRuns' /\ Pending' /\ Onward
    BY <1>2, <2>1, LoopPop, RunsSame
  <2>3. JsQueued' /\ PhpQueued' /\ PhpRuns'
    BY <1>2, <1>3, <2>1 DEF IInv, JsQueued, PhpQueued, PhpRuns
  <2>4. TypeOK'
    BY <1>1, <1>2, <1>6, <2>1 DEF TypeOK, ends, queues, JsFrames
  <2> QED BY <1>6, <2>2, <2>3, <2>4 DEF IInv
<1>8. CASE m \in Call
  <2>1. status[m] = "processed" /\ status' = [status EXCEPT ![m] = "returned"]
    BY <1>1, <1>2, <1>4, <1>8 DEF ProcessJsReturns, Finished
  <2>2. "returned" \in Status /\ ForJs(m) \in {"requested", "answered"}
        /\ ForPhp(m) \in {"requested", "answered"}
    BY StatusValues DEF Status
  <2>3. JsQueued' /\ PhpQueued'
    BY <1>1, <1>3, <1>8, <2>1, <2>2, KeepQueues
  <2>4. JsRuns' /\ Pending'
    BY <1>2, <1>8, <2>1, <2>2, LoopPop, RunsNone
  <2>5. PhpRuns'
    BY <1>2, <1>8, <2>1, <2>2, JsSide
  <2>6. Onward /\ status' \in [Call -> Status]
    BY <1>1, <1>2, <1>8, <2>1, <2>2, MovesOnward DEF Progress
  <2>7. TypeOK'
    BY <1>1, <1>2, <1>6, <2>6 DEF TypeOK, ends, queues, JsFrames
  <2> QED BY <1>6, <2>3, <2>4, <2>5, <2>6, <2>7 DEF IInv
<1> QED BY <1>7, <1>8

\* A step that concerns the call m of PHP only.
LEMMA RunsOne ==
  ASSUME IInv, NEW m \in PhpCall, NEW t \in Status, status' = [status EXCEPT ![m] = t],
         \A c \in PhpCall \ {m} : c \in flagged' <=> c \in flagged,
         Count(jsStack', InCleanup) = Count(jsStack, InCleanup),
         \A c \in PhpCall \ {m} : Count(jsStack', InJsOf(c)) = Count(jsStack, InJsOf(c)),
         Count(jsStack', InJsOf(m)) \in {0, 1},
         Count(jsStack', InJsOf(m)) = 1 =>
           t \notin {"new", "requested"} /\ (m \notin flagged' => t = "running")
  PROVE  JsRuns'
<1>1. status \in [Call -> Status] /\ JsRuns
  BY DEF IInv, TypeOK
<1>2. Cleanup \in Call /\ PhpCall \subseteq Call /\ Cleanup # m
  BY StatusValues
<1>3. Is(status'[Cleanup], "running") = Is(status[Cleanup], "running")
  BY <1>1, <1>2 DEF Is
<1>4. status'[m] = t /\ \A c \in PhpCall \ {m} : status'[c] = status[c]
  BY <1>1, <1>2
<1>5. ASSUME NEW c \in PhpCall
      PROVE  /\ Count(jsStack', InJsOf(c)) \in {0, 1}
             /\ Count(jsStack', InJsOf(c)) = 1 =>
                  /\ status'[c] \notin {"new", "requested"}
                  /\ c \notin flagged' => status'[c] = "running"
  <2>1. CASE c = m
    BY <1>4, <2>1
  <2>2. CASE c # m
    <3>1. /\ Count(jsStack', InJsOf(c)) = Count(jsStack, InJsOf(c))
          /\ status'[c] = status[c] /\ (c \in flagged' <=> c \in flagged)
      BY <1>4, <2>2
    <3> QED BY <1>1, <3>1 DEF JsRuns
  <2> QED BY <2>1, <2>2
<1> QED BY <1>1, <1>3, <1>5 DEF JsRuns

\* The response of a call that had none.
LEMMA Answered ==
  ASSUME IInv, NEW m \in PhpCall, NEW how \in Outcome \ {"none"}, Answer(m, how),
         status[m] \in {"requested", "running"}
  PROVE  /\ phpQueue' \in Seq(Call) /\ PhpQueued' /\ Pending' /\ Onward
         /\ status' \in [Call -> Status] /\ outcome' \in [PhpCall -> Outcome]
         /\ callback' \in [PhpCall -> {"none", "armed", "handled"}]
         /\ \E t \in {"answered", "refused"} : status' = [status EXCEPT ![m] = t]
<1>1. /\ TypeOK /\ PhpQueued /\ Pending /\ m \in Call /\ ForPhp(m) = "answered"
      /\ PhpCall \subseteq Call /\ status \in [Call -> Status] /\ outcome \in [PhpCall -> Outcome]
      /\ callback \in [PhpCall -> {"none", "armed", "handled"}]
  BY StatusValues DEF IInv, TypeOK
<1>2. /\ PushToPhp(m, "answered") /\ outcome' = [outcome EXCEPT ![m] = how]
      /\ callback' = [callback EXCEPT ![m] = IF @ = "armed" THEN "handled" ELSE @]
  BY DEF Answer
<1>3. PICK t \in {"answered", "refused"} : status' = [status EXCEPT ![m] = t]
  BY <1>1, <1>2, PushPhp
<1>4. phpQueue' \in Seq(Call) /\ PhpQueued'
  BY <1>1, <1>2, PushPhp
<1>5. outcome[m] = "none"
  BY <1>1 DEF Pending
<1>6. callback' \in [PhpCall -> {"none", "armed", "handled"}] /\ callback'[m] # "armed"
      /\ \A c \in PhpCall \ {m} : callback'[c] = callback[c]
  BY <1>1, <1>2
<1>7. outcome' \in [PhpCall -> Outcome] /\ \A c \in PhpCall \ {m} : outcome'[c] = outcome[c]
  BY <1>1, <1>2
<1>8. t \in Status /\ t \notin {"new", "requested", "running"}
  BY DEF Status
<1>9. status' \in [Call -> Status] /\ status'[m] = t
      /\ \A c \in Call \ {m} : status'[c] = status[c]
  BY <1>1, <1>3, <1>8
<1>10. Pending'
  BY <1>1, <1>6, <1>7, <1>8, <1>9 DEF Pending
<1>11. Onward
  BY <1>1, <1>5, <1>7, <1>9 DEF Onward, Progress
<1> QED BY <1>3, <1>4, <1>6, <1>7, <1>9, <1>10, <1>11

LEMMA JsRejects ==
  ASSUME IInv, NEW m \in PhpCall, JsRejectsRequest(m)
  PROVE  IInv' /\ Onward
<1>1. /\ TypeOK /\ JsQueued /\ m \in Call /\ m \notin JsCall /\ ForJs(m) = "requested"
  BY StatusValues DEF IInv
<1>2. /\ JsTakes(m) /\ Answer(m, "shutdown")
      /\ UNCHANGED <<jsShut, phpShut, phpStack, jsStack, jsIsSync, flagged, valid, ends>>
  BY DEF JsRejectsRequest
<1>3. status[m] = "requested" /\ jsQueue' \in Seq(Call) /\ "shutdown" \in Outcome \ {"none"}
  BY <1>1, <1>2, TakeJs DEF Outcome
<1>4. PICK t \in {"answered", "refused"} : status' = [status EXCEPT ![m] = t]
  BY <1>2, <1>3, Answered
<1>5. t \in Status /\ t # "requested"
  BY DEF Status
<1>6. JsQueued'
  BY <1>1, <1>2, <1>4, <1>5, TakeJs
<1>7. /\ phpQueue' \in Seq(Call) /\ PhpQueued' /\ Pending' /\ Onward
      /\ status' \in [Call -> Status] /\ outcome' \in [PhpCall -> Outcome]
      /\ callback' \in [PhpCall -> {"none", "armed", "handled"}]
  BY <1>2, <1>3, Answered
<1>8. JsRuns'
  <2>1. Count(jsStack, InJsOf(m)) = 0
    BY <1>3 DEF IInv, JsRuns
  <2>2. jsStack' = jsStack /\ flagged' = flagged
    BY <1>2
  <2>3. /\ Count(jsStack', InCleanup) = Count(jsStack, InCleanup)
        /\ \A c : Count(jsStack', InJsOf(c)) = Count(jsStack, InJsOf(c))
    BY <2>2
  <2>4. Count(jsStack', InJsOf(m)) = 0
    BY <2>1, <2>2
  <2>5. /\ \A c \in PhpCall \ {m} : c \in flagged' <=> c \in flagged
        /\ \A c \in PhpCall \ {m} : Count(jsStack', InJsOf(c)) = Count(jsStack, InJsOf(c))
        /\ Count(jsStack', InJsOf(m)) \in {0, 1} /\ Count(jsStack', InJsOf(m)) # 1
    BY <2>2, <2>3, <2>4
  <2> QED BY <1>4, <1>5, <2>3, <2>5, RunsOne
<1>9. PhpRuns'
  BY <1>1, <1>2, <1>4, <1>5, JsSide
<1>10. Synced'
  BY <1>2 DEF IInv, Synced, NoAsyncIsExact
<1>11. TypeOK'
  BY <1>1, <1>2, <1>3, <1>7 DEF TypeOK, ends
<1> QED BY <1>6, <1>7, <1>8, <1>9, <1>10, <1>11 DEF IInv

LEMMA JsBegins ==
  ASSUME IInv, NEW m \in PhpCall, JsTakesRequest(m)
  PROVE  IInv' /\ Onward
<1>1. /\ TypeOK /\ JsQueued /\ PhpQueued /\ m \in Call /\ m \notin JsCall
      /\ ForJs(m) = "requested" /\ ForPhp(m) = "answered" /\ PhpCall \subseteq Call
      /\ jsStack \in Seq(JsFrames)
  BY StatusValues DEF IInv, TypeOK, JsFrames
<1> DEFINE e == JsFrame("inJs", m, Top(jsStack).sync)
<1>2. /\ JsTakes(m) /\ status' = [status EXCEPT ![m] = "running"]
      /\ callback' = [callback EXCEPT ![m] = IF m \in Wait THEN "armed" ELSE @]
      /\ jsStack' = Append(jsStack, e)
      /\ UNCHANGED <<phpQueue, jsShut, phpShut, phpStack, jsIsSync, valid, flagged, outcome, ends>>
  BY DEF JsTakesRequest
<1>3. status[m] = "requested" /\ jsQueue' \in Seq(Call) /\ JsQueued' /\ jsStack # <<>>
  BY <1>1, <1>2, TakeJs DEF Status
<1>4. "running" \in Status
  BY DEF Status
<1>5. PhpQueued'
  BY <1>1, <1>2, <1>3, <1>4, KeepQueues
<1>6. Onward /\ status' \in [Call -> Status]
  BY <1>1, <1>2, <1>3, <1>4, MovesOnward DEF Progress
<1>7. e \in JsFrames /\ e.fn = "inJs" /\ e.msg = m /\ (e.sync <=> jsIsSync > 0)
  <2>1. PICK s \in BOOLEAN : s = Top(jsStack).sync /\ (s <=> jsIsSync > 0)
    BY <1>3, SyncTop
  <2>2. e = [fn |-> "inJs", msg |-> m, sync |-> s]
    BY <2>1 DEF JsFrame
  <2> HIDE DEF e
  <2>3. e \in JsFrames /\ e.fn = "inJs" /\ e.msg = m /\ e.sync = s
    BY <1>1, <2>2 DEF JsFrames
  <2> QED BY <2>1, <2>3
<1> HIDE DEF e
<1>8. Synced' /\ jsStack' \in Seq(JsFrames) /\ jsIsSync' \in Nat
  <2>1. Blocks(e) = 0 /\ jsIsSync \in Nat
    BY <1>1, <1>7 DEF Blocks, TypeOK
  <2>2. jsIsSync' = jsIsSync + Blocks(e) /\ (e.sync <=> jsIsSync > 0 \/ Blocks(e) = 1)
    BY <1>2, <1>7, <2>1
  <2> QED BY <1>2, <1>7, <2>2, SyncPush
<1>9. JsRuns'
  <2>1. /\ Count(jsStack', InCleanup) = Count(jsStack, InCleanup) + 0
        /\ \A c : Count(jsStack', InJsOf(c)) = Count(jsStack, InJsOf(c)) + Is(m, c)
    BY <1>1, <1>2, <1>7, OneMoreFrame DEF Is
  <2>2. \A T : Count(jsStack, T) \in Nat
    BY <1>1, CountType
  <2>3. Count(jsStack, InJsOf(m)) = 0
    BY <1>3 DEF IInv, JsRuns
  <2>4. Count(jsStack', InJsOf(m)) = 1
    BY <2>1, <2>3 DEF Is
  <2>5. \A c \in PhpCall \ {m} : Count(jsStack', InJsOf(c)) = Count(jsStack, InJsOf(c))
    BY <2>1, <2>2 DEF Is
  <2>6. Count(jsStack', InCleanup) = Count(jsStack, InCleanup)
    BY <2>1, <2>2
  <2> QED BY <1>2, <1>4, <2>4, <2>5, <2>6, RunsOne
<1>10. Pending' /\ callback' \in [PhpCall -> {"none", "armed", "handled"}]
  <2>1. /\ callback' \in [PhpCall -> {"none", "armed", "handled"}]
        /\ \A c \in PhpCall \ {m} : callback'[c] = callback[c] /\ status'[c] = status[c]
        /\ status'[m] = "running"
    BY <1>1, <1>2 DEF TypeOK
  <2>2. outcome[m] = "none" /\ outcome' = outcome /\ Pending
    BY <1>2, <1>3 DEF IInv, Pending
  <2> QED BY <2>1, <2>2 DEF Pending
<1>11. PhpRuns'
  BY <1>1, <1>2, <1>4, JsSide
<1>12. TypeOK'
  BY <1>1, <1>2, <1>3, <1>6, <1>8, <1>10 DEF TypeOK, ends, JsFrames
<1> QED BY <1>3, <1>5, <1>6, <1>8, <1>9, <1>10, <1>11, <1>12 DEF IInv

\* InJs of m returns to ExecuteJs.
LEMMA InJsPop ==
  ASSUME IInv, NEW m \in PhpCall, In(jsStack, "inJs"), Top(jsStack).msg = m,
         jsStack' = Pop(jsStack), jsIsSync' = jsIsSync
  PROVE  /\ Synced' /\ jsStack' \in Seq(JsFrames) /\ jsIsSync' \in Nat
         /\ Count(jsStack', InCleanup) = Count(jsStack, InCleanup)
         /\ \A c \in PhpCall \ {m} : Count(jsStack', InJsOf(c)) = Count(jsStack, InJsOf(c))
         /\ Count(jsStack, InJsOf(m)) = 1 /\ Count(jsStack', InJsOf(m)) = 0
<1>1. jsStack \in Seq(JsFrames) /\ jsStack # <<>> /\ Top(jsStack).fn = "inJs" /\ jsIsSync \in Nat
  BY DEF IInv, TypeOK, JsFrames, In
<1>2. /\ Count(Pop(jsStack), InCleanup) = Count(jsStack, InCleanup) - 0
      /\ \A c : Count(Pop(jsStack), InJsOf(c)) = Count(jsStack, InJsOf(c)) - Is(m, c)
  BY <1>1, OneFrameLess DEF Is
<1>3. \A T : Count(jsStack, T) \in Nat /\ Count(Pop(jsStack), T) \in Nat
  BY <1>1, OneFrameLess
<1>4. /\ Count(Pop(jsStack), InCleanup) = Count(jsStack, InCleanup)
      /\ \A c \in PhpCall \ {m} : Count(Pop(jsStack), InJsOf(c)) = Count(jsStack, InJsOf(c))
  BY <1>2, <1>3 DEF Is
<1>5. Count(jsStack, InJsOf(m)) = 1 /\ Count(Pop(jsStack), InJsOf(m)) = 0
  <2>1. Count(jsStack, InJsOf(m)) \in {0, 1}
    BY DEF IInv, JsRuns
  <2>2. Count(Pop(jsStack), InJsOf(m)) = Count(jsStack, InJsOf(m)) - 1
    BY <1>2 DEF Is
  <2>3. Count(Pop(jsStack), InJsOf(m)) \in Nat
    BY <1>3
  <2> QED BY <2>1, <2>2, <2>3
<1>6. Synced' /\ jsStack' \in Seq(JsFrames) /\ jsIsSync' \in Nat
  <2>1. jsIsSync' = jsIsSync - Blocks(Top(jsStack))
    BY <1>1 DEF Blocks
  <2> QED BY <1>1, <2>1, SyncPop
<1> QED BY <1>4, <1>5, <1>6

\* InJs of m returns, and ExecuteJs sends the response.
LEMMA JsAnswers ==
  ASSUME IInv, NEW m \in PhpCall, NEW how \in Outcome \ {"none"}, InJsEnds(m), Answer(m, how)
  PROVE  IInv' /\ Onward
<1>1. /\ TypeOK /\ JsQueued /\ m \in Call /\ m \notin JsCall /\ ForJs(m) = "requested"
  BY StatusValues DEF IInv
<1>2. /\ In(jsStack, "inJs") /\ Top(jsStack).msg = m /\ m \notin flagged
      /\ jsStack' = Pop(jsStack)
      /\ UNCHANGED <<jsQueue, jsShut, phpShut, phpStack, jsIsSync, valid, flagged, ends>>
  BY DEF InJsEnds
<1>3. /\ Synced' /\ jsStack' \in Seq(JsFrames) /\ jsIsSync' \in Nat
      /\ Count(jsStack', InCleanup) = Count(jsStack, InCleanup)
      /\ \A c \in PhpCall \ {m} : Count(jsStack', InJsOf(c)) = Count(jsStack, InJsOf(c))
      /\ Count(jsStack, InJsOf(m)) = 1 /\ Count(jsStack', InJsOf(m)) = 0
  BY <1>2, InJsPop
<1>4. status[m] = "running"
  BY <1>2, <1>3 DEF IInv, JsRuns
<1>5. PICK t \in {"answered", "refused"} : status' = [status EXCEPT ![m] = t]
  BY <1>4, Answered
<1>6. t \in Status /\ t \notin {"requested", "running"}
  BY DEF Status
<1>7. /\ phpQueue' \in Seq(Call) /\ PhpQueued' /\ Pending' /\ Onward
      /\ status' \in [Call -> Status] /\ outcome' \in [PhpCall -> Outcome]
      /\ callback' \in [PhpCall -> {"none", "armed", "handled"}]
  BY <1>4, Answered
<1>8. JsQueued'
  BY <1>1, <1>2, <1>4, <1>5, <1>6, KeepQueues
<1>9. JsRuns'
  <2>1. \A c \in PhpCall \ {m} : c \in flagged' <=> c \in flagged
    BY <1>2
  <2>2. Count(jsStack', InJsOf(m)) \in {0, 1} /\ Count(jsStack', InJsOf(m)) # 1
    BY <1>3
  <2> QED BY <1>3, <1>5, <1>6, <2>1, <2>2, RunsOne
<1>10. PhpRuns'
  BY <1>1, <1>2, <1>5, <1>6, JsSide
<1>11. TypeOK'
  BY <1>1, <1>2, <1>3, <1>7 DEF TypeOK, ends, JsFrames
<1> QED BY <1>3, <1>7, <1>8, <1>9, <1>10, <1>11 DEF IInv

\* InJs of m returns, and ExecuteJs leaves the message alone: it is answered, or
\* the callback will answer it.
LEMMA JsLeaves ==
  ASSUME IInv, NEW m \in PhpCall, In(jsStack, "inJs"), Top(jsStack).msg = m,
         jsStack' = Pop(jsStack), flagged' \in {flagged, flagged \ {m}},
         UNCHANGED <<queues, phpStack, jsIsSync, valid, callback, outcome, status, ends>>
  PROVE  IInv' /\ Onward
<1>1. TypeOK /\ m \in Call /\ status[m] \in Status /\ status' = [status EXCEPT ![m] = status[m]]
  BY StatusValues DEF IInv, TypeOK
<1>2. /\ Synced' /\ jsStack' \in Seq(JsFrames) /\ jsIsSync' \in Nat
      /\ Count(jsStack', InCleanup) = Count(jsStack, InCleanup)
      /\ \A c \in PhpCall \ {m} : Count(jsStack', InJsOf(c)) = Count(jsStack, InJsOf(c))
      /\ Count(jsStack, InJsOf(m)) = 1 /\ Count(jsStack', InJsOf(m)) = 0
  BY InJsPop
<1>3. JsRuns'
  <2>1. \A c \in PhpCall \ {m} : c \in flagged' <=> c \in flagged
    OBVIOUS
  <2>2. Count(jsStack', InJsOf(m)) \in {0, 1} /\ Count(jsStack', InJsOf(m)) # 1
    BY <1>2
  <2> QED BY <1>1, <1>2, <2>1, <2>2, RunsOne
<1>4. JsQueued' /\ PhpQueued' /\ PhpRuns' /\ Pending' /\ Onward
  BY DEF IInv, JsQueued, PhpQueued, PhpRuns, Pending, Onward, queues
<1>5. TypeOK'
  BY <1>1, <1>2 DEF TypeOK, ends, queues, JsFrames
<1> QED BY <1>2, <1>3, <1>4, <1>5 DEF IInv

LEMMA CallbackAnswers ==
  ASSUME IInv, NEW m \in PhpCall, CallbackFunction(m)
  PROVE  IInv' /\ Onward
<1>1. /\ TypeOK /\ JsQueued /\ m \in Call /\ m \notin JsCall /\ ForJs(m) = "requested"
      /\ jsStack \in Seq(JsFrames)
  BY StatusValues DEF IInv, TypeOK, JsFrames
<1>2. /\ callback[m] = "armed" /\ Answer(m, "callback")
      /\ flagged' = IF \E i \in 1 .. Len(jsStack) : jsStack[i].fn = "inJs" /\ jsStack[i].msg = m
                      THEN flagged \cup {m} ELSE flagged
      /\ UNCHANGED <<jsQueue, jsShut, phpShut, phpStack, jsStack, jsIsSync, valid, ends>>
  BY DEF CallbackFunction
<1>3. status[m] = "running" /\ "callback" \in Outcome \ {"none"}
  BY <1>2 DEF IInv, Pending, Outcome
<1>4. PICK t \in {"answered", "refused"} : status' = [status EXCEPT ![m] = t]
  BY <1>2, <1>3, Answered
<1>5. t \in Status /\ t \notin {"new", "requested", "running"}
  BY DEF Status
<1>6. /\ phpQueue' \in Seq(Call) /\ PhpQueued' /\ Pending' /\ Onward
      /\ status' \in [Call -> Status] /\ outcome' \in [PhpCall -> Outcome]
      /\ callback' \in [PhpCall -> {"none", "armed", "handled"}]
  BY <1>2, <1>3, Answered
<1>7. JsQueued'
  BY <1>1, <1>2, <1>3, <1>4, <1>5, KeepQueues
<1>8. JsRuns'
  <2>1. /\ \A c \in PhpCall \ {m} : c \in flagged' <=> c \in flagged
        /\ jsStack' = jsStack
    BY <1>2
  <2>2. /\ Count(jsStack', InCleanup) = Count(jsStack, InCleanup)
        /\ \A c : Count(jsStack', InJsOf(c)) = Count(jsStack, InJsOf(c))
    BY <2>1
  <2>3. Count(jsStack', InJsOf(m)) \in {0, 1}
    BY <2>2 DEF IInv, JsRuns
  <2>4. ASSUME Count(jsStack', InJsOf(m)) = 1
        PROVE  t \notin {"new", "requested"} /\ (m \notin flagged' => t = "running")
    <3>1. Count(jsStack, InJsOf(m)) # 0
      BY <2>2, <2>4
    <3>2. \E i \in 1 .. Len(jsStack) : jsStack[i] \in InJsOf(m)
      BY <1>1, <3>1, CountSome
    <3>3. m \in flagged'
      BY <1>2, <3>2 DEF InJsOf
    <3> QED BY <1>5, <3>3
  <2> QED BY <1>4, <1>5, <2>1, <2>2, <2>3, <2>4, RunsOne
<1>9. PhpRuns'
  BY <1>1, <1>2, <1>4, <1>5, JsSide
<1>10. Synced'
  BY <1>2 DEF IInv, Synced, NoAsyncIsExact
<1>11. TypeOK'
  <2>1. flagged' \subseteq PhpCall
    BY <1>1, <1>2 DEF TypeOK
  <2> QED BY <1>1, <1>2, <1>6, <2>1 DEF TypeOK, ends
<1> QED BY <1>6, <1>7, <1>8, <1>9, <1>10, <1>11 DEF IInv

\* A step that concerns the cleanup message only.
LEMMA RunsCleanup ==
  ASSUME IInv, UNCHANGED <<callback, flagged, outcome>>, NEW t \in Status,
         status' = [status EXCEPT ![Cleanup] = t],
         Count(jsStack', InCleanup) = Is(t, "running"),
         \A c \in PhpCall : Count(jsStack', InJsOf(c)) = Count(jsStack, InJsOf(c))
  PROVE  JsRuns' /\ Pending'
<1>1. status \in [Call -> Status] /\ JsRuns /\ Pending
  BY DEF IInv, TypeOK
<1>2. Cleanup \in Call /\ PhpCall \subseteq Call /\ Cleanup \notin PhpCall
  BY StatusValues
<1>3. status'[Cleanup] = t /\ \A c \in PhpCall : status'[c] = status[c]
  BY <1>1, <1>2
<1>4. JsRuns'
  BY <1>1, <1>3 DEF JsRuns
<1> QED BY <1>1, <1>3, <1>4 DEF Pending

LEMMA JsCleansUp ==
  ASSUME IInv, JsTakesCleanup
  PROVE  IInv' /\ Onward
<1>1. /\ TypeOK /\ JsQueued /\ PhpQueued /\ Cleanup \in Call /\ Cleanup \notin JsCall
      /\ ForJs(Cleanup) = "requested" /\ ForPhp(Cleanup) = "answered"
      /\ jsStack \in Seq(JsFrames) /\ jsIsSync \in Nat
  BY StatusValues DEF IInv, TypeOK, JsFrames
<1> DEFINE c == JsFrame("cleanup", Cleanup, Top(jsStack).sync)
           p == JsFrame("process", None, jsIsSync > 0)
<1>2. /\ JsTakes(Cleanup) /\ valid' = FALSE
      /\ status' = [status EXCEPT ![Cleanup] = "running"]
      /\ jsStack' = jsStack \o <<c, p>>
      /\ UNCHANGED <<phpQueue, jsShut, phpShut, phpStack, jsIsSync, callback, flagged, outcome, ends>>
  BY DEF JsTakesCleanup
<1>3. status[Cleanup] = "requested" /\ jsQueue' \in Seq(Call) /\ JsQueued' /\ jsStack # <<>>
  BY <1>1, <1>2, TakeJs DEF Status
<1>4. "running" \in Status
  BY DEF Status
<1>5. PhpQueued'
  BY <1>1, <1>2, <1>3, <1>4, KeepQueues
<1>6. Onward /\ status' \in [Call -> Status]
  BY <1>1, <1>2, <1>3, <1>4, MovesOnward DEF Progress
<1>7. PhpRuns'
  BY <1>1, <1>2, <1>4, JsSide
<1>8. c \in JsFrames /\ c.fn = "cleanup" /\ (c.sync <=> jsIsSync > 0)
  <2>1. PICK s \in BOOLEAN : s = Top(jsStack).sync /\ (s <=> jsIsSync > 0)
    BY <1>3, SyncTop
  <2>2. c = [fn |-> "cleanup", msg |-> Cleanup, sync |-> s]
    BY <2>1 DEF JsFrame
  <2> HIDE DEF c, p
  <2>3. c \in JsFrames /\ c.fn = "cleanup" /\ c.sync = s
    BY <1>1, <2>2 DEF JsFrames
  <2> QED BY <2>1, <2>3
<1>9. p \in JsFrames /\ p.fn = "process" /\ p.msg = None /\ (p.sync <=> jsIsSync > 0)
  <2> DEFINE blocked == jsIsSync > 0
  <2>1. blocked \in BOOLEAN
    OBVIOUS
  <2>2. p = [fn |-> "process", msg |-> None, sync |-> blocked]
    BY DEF JsFrame
  <2> HIDE DEF blocked, c, p
  <2>3. p \in JsFrames /\ p.fn = "process" /\ p.msg = None /\ p.sync = blocked
    BY <2>1, <2>2 DEF JsFrames
  <2> QED BY <2>3 DEF blocked
<1> HIDE DEF c, p
<1>10. PICK s \in Seq(JsFrames) : s = Append(jsStack, c)
  BY <1>1, <1>8, AppendProperties
<1>11. jsStack' = Append(s, p)
  BY <1>1, <1>2, <1>8, <1>9, <1>10
<1>12. Exact(jsStack) /\ jsIsSync = Count(jsStack, Blocking)
  BY DEF IInv, Synced, NoAsyncIsExact, Exact
<1>13. \A T : Count(jsStack, T) \in Nat /\ Count(s, T) \in Nat
  BY <1>1, CountType
<1>14. /\ Count(s, InCleanup) = Count(jsStack, InCleanup) + 1
       /\ \A m : Count(s, InJsOf(m)) = Count(jsStack, InJsOf(m)) + 0
       /\ Count(s, Blocking) = Count(jsStack, Blocking) + 0
  BY <1>1, <1>8, <1>10, OneMoreFrame DEF Is
<1>15. /\ Count(jsStack', InCleanup) = Count(s, InCleanup) + 0
       /\ \A m : Count(jsStack', InJsOf(m)) = Count(s, InJsOf(m)) + 0
       /\ Count(jsStack', Blocking) = Count(s, Blocking) + 0
       /\ jsStack' \in Seq(JsFrames)
  BY <1>9, <1>11, OneMoreFrame, AppendProperties DEF Is
<1>16. Synced'
  <2>1. Exact(Append(jsStack, c))
    BY <1>1, <1>8, <1>12, ExactAppend
  <2>2. Exact(s)
    BY <1>10, <2>1
  <2>3. Count(s, Blocking) = jsIsSync
    BY <1>12, <1>13, <1>14
  <2>4. p.sync <=> Count(s, Blocking) > 0 \/ (p.fn = "process" /\ p.msg # None)
    BY <1>9, <2>3
  <2>5. Exact(Append(s, p))
    BY <1>9, <2>2, <2>4, ExactAppend
  <2>6. Exact(jsStack')
    BY <1>11, <2>5
  <2>7. jsIsSync' = Count(jsStack', Blocking)
    BY <1>1, <1>2, <1>15, <2>3
  <2> QED BY <2>6, <2>7 DEF Synced, NoAsyncIsExact, Exact
<1>17. JsRuns' /\ Pending'
  <2>1. Count(jsStack, InCleanup) = 0
    BY <1>3 DEF IInv, JsRuns, Is
  <2>2. Count(jsStack', InCleanup) = Is("running", "running")
    BY <1>14, <1>15, <2>1 DEF Is
  <2>3. \A m \in PhpCall : Count(jsStack', InJsOf(m)) = Count(jsStack, InJsOf(m))
    BY <1>13, <1>14, <1>15
  <2> QED BY <1>2, <1>4, <2>2, <2>3, RunsCleanup
<1>18. TypeOK'
  BY <1>1, <1>2, <1>3, <1>6, <1>15 DEF TypeOK, ends, JsFrames
<1> QED BY <1>3, <1>5, <1>6, <1>7, <1>16, <1>17, <1>18 DEF IInv

LEMMA JsCleanedUp ==
  ASSUME IInv, CleanupReturns
  PROVE  IInv' /\ Onward
<1>1. /\ TypeOK /\ JsQueued /\ PhpQueued /\ Cleanup \in Call /\ Cleanup \notin JsCall
      /\ ForJs(Cleanup) = "requested" /\ ForPhp(Cleanup) = "answered"
      /\ jsStack \in Seq(JsFrames) /\ jsIsSync \in Nat
  BY StatusValues DEF IInv, TypeOK, JsFrames
<1>2. /\ jsStack # <<>> /\ Top(jsStack).fn = "cleanup" /\ jsStack' = Pop(jsStack)
      /\ PushToPhp(Cleanup, "answered") /\ phpShut' = TRUE
      /\ UNCHANGED <<jsQueue, jsShut, phpStack, jsIsSync, valid, callback, flagged, outcome, ends>>
  BY DEF CleanupReturns, In
<1>3. /\ Count(Pop(jsStack), InCleanup) = Count(jsStack, InCleanup) - 1
      /\ \A m : Count(Pop(jsStack), InJsOf(m)) = Count(jsStack, InJsOf(m)) - 0
      /\ \A T : Count(jsStack, T) \in Nat /\ Count(Pop(jsStack), T) \in Nat
  BY <1>1, <1>2, OneFrameLess DEF Is
<1>4. status[Cleanup] = "running" /\ Count(jsStack', InCleanup) = 0
  <2>1. Count(jsStack, InCleanup) = Is(status[Cleanup], "running")
    BY DEF IInv, JsRuns
  <2>2. Count(jsStack, InCleanup) = 1
    <3>1. Count(jsStack, InCleanup) \in {0, 1}
      BY <2>1 DEF Is
    <3>2. Count(jsStack, InCleanup) - 1 \in Nat
      BY <1>3
    <3> QED BY <3>1, <3>2
  <2> QED BY <1>2, <1>3, <2>1, <2>2 DEF Is
<1>5. PICK t \in {"answered", "refused"} : status' = [status EXCEPT ![Cleanup] = t]
  BY <1>1, <1>2, <1>4, PushPhp
<1>6. phpQueue' \in Seq(Call) /\ PhpQueued'
  BY <1>1, <1>2, <1>4, PushPhp
<1>7. t \in Status /\ t \notin {"requested", "running"}
  BY DEF Status
<1>8. JsQueued'
  BY <1>1, <1>2, <1>4, <1>5, <1>7, KeepQueues
<1>9. Onward /\ status' \in [Call -> Status]
  BY <1>1, <1>2, <1>4, <1>5, <1>7, MovesOnward DEF Progress
<1>10. PhpRuns'
  BY <1>1, <1>2, <1>5, <1>7, JsSide
<1>11. Synced' /\ jsStack' \in Seq(JsFrames) /\ jsIsSync' \in Nat
  <2>1. jsIsSync' = jsIsSync - Blocks(Top(jsStack))
    BY <1>1, <1>2 DEF Blocks
  <2> QED BY <1>2, <2>1, SyncPop
<1>12. JsRuns' /\ Pending'
  <2>1. Count(jsStack', InCleanup) = Is(t, "running")
    BY <1>4, <1>7 DEF Is
  <2>2. \A m \in PhpCall : Count(jsStack', InJsOf(m)) = Count(jsStack, InJsOf(m))
    BY <1>2, <1>3
  <2> QED BY <1>2, <1>5, <1>7, <2>1, <2>2, RunsCleanup
<1>13. TypeOK'
  BY <1>1, <1>2, <1>6, <1>9, <1>11 DEF TypeOK, ends, JsFrames
<1> QED BY <1>6, <1>8, <1>9, <1>10, <1>11, <1>12, <1>13 DEF IInv

\* What the worker is deleted by, and what happens elsewhere, changes no call.
LEMMA Idle ==
  ASSUME IInv, UNCHANGED <<queues, jsVars, phpStack, valid, status, phpDone>>,
         destroyed' \in BOOLEAN
  PROVE  IInv' /\ Onward
BY DEF IInv, TypeOK, JsQueued, PhpQueued, JsRuns, PhpRuns, Pending, Synced, NoAsyncIsExact,
       Onward, queues, jsVars

LEMMA JsStep ==
  ASSUME IInv, JsThread \/ (\E r \in JsCall : SendToPhp(r))
                        \/ (\E m \in PhpCall : CallbackFunction(m))
  PROVE  IInv' /\ Onward
<1>1. CASE Destroy
  BY <1>1, Idle DEF Destroy
<1>2. ASSUME NEW m \in PhpCall, InJsBailsOut(m)
      PROVE  IInv' /\ Onward
  BY <1>2, JsLeaves DEF InJsBailsOut
<1>3. ASSUME NEW m \in PhpCall, InJsLeavesToCallback(m)
      PROVE  IInv' /\ Onward
  <2>1. UNCHANGED <<queues, phpStack, jsIsSync, valid, callback, outcome, status, ends>>
        /\ In(jsStack, "inJs") /\ Top(jsStack).msg = m /\ jsStack' = Pop(jsStack)
        /\ flagged' = flagged
    BY <1>3 DEF InJsLeavesToCallback, InJsEnds, queues
  <2> QED BY <2>1, JsLeaves
<1>4. ASSUME NEW m \in PhpCall, InJsReturns(m) \/ InJsThrows(m) \/ InJsDeadlocks(m)
      PROVE  IInv' /\ Onward
  <2>1. "value" \in Outcome \ {"none"} /\ "thrown" \in Outcome \ {"none"}
        /\ "deadlock" \in Outcome \ {"none"}
    BY DEF Outcome
  <2> QED BY <1>4, <2>1, JsAnswers DEF InJsReturns, InJsThrows, InJsDeadlocks
<1> QED BY <1>1, <1>2, <1>3, <1>4, JsTurns, JsCleansUp, JsCleanedUp, JsLoopReturns, JsReceives,
           JsBegins, JsRejects, JsSends, CallbackAnswers DEF JsThread

-----------------------------------------------------------------------------
(***************************************************************************)
(* The theorems.                                                           *)
(***************************************************************************)

LEMMA IInvInit == Init => IInv
<1> SUFFICES ASSUME Init PROVE IInv
  OBVIOUS
<1>1. /\ jsQueue = <<>> /\ phpQueue = <<>> /\ jsShut = FALSE /\ phpShut = FALSE
      /\ jsStack = <<>> /\ phpStack = <<>> /\ jsIsSync = 0 /\ valid = TRUE
      /\ callback = [m \in PhpCall |-> "none"] /\ flagged = {}
      /\ outcome = [m \in PhpCall |-> "none"] /\ status = [m \in Call |-> "new"]
      /\ phpDone = FALSE /\ destroyed = FALSE
  BY DEF Init
<1>2. TypeOK
  <2>1. "none" \in Outcome /\ "new" \in Status /\ 0 \in Nat
    BY DEF Outcome, Status
  <2>2. callback \in [PhpCall -> {"none", "armed", "handled"}]
    BY <1>1
  <2>3. outcome \in [PhpCall -> Outcome] /\ status \in [Call -> Status]
    BY <1>1, <2>1
  <2>4. \A S : <<>> \in Seq(S)
    OBVIOUS
  <2> QED BY <1>1, <2>1, <2>2, <2>3, <2>4 DEF TypeOK
<1>3. PhpCall \subseteq Call /\ JsCall \subseteq Call /\ Cleanup \in Call
      /\ \A c : ForJs(c) # "new" /\ ForPhp(c) # "new"
  BY StatusValues
<1>4. \A c \in Call : Is(status[c], ForJs(c)) = 0 /\ Is(status[c], ForPhp(c)) = 0
                      /\ Is(status[c], "running") = 0
  BY <1>1, <1>3 DEF Is
<1>5. \A T : Count(<<>>, T) = 0
  BY CountEmpty
<1>6. JsQueued /\ PhpQueued
  BY <1>1, <1>4, <1>5 DEF JsQueued, PhpQueued
<1>7. JsRuns
  BY <1>1, <1>3, <1>4, <1>5 DEF JsRuns
<1>8. PhpRuns
  BY <1>1, <1>3, <1>4, <1>5 DEF PhpRuns
<1>9. Pending
  BY <1>1, <1>3 DEF Pending
<1>10. Synced
  BY <1>1, <1>5 DEF Synced, NoAsyncIsExact
<1> QED BY <1>2, <1>6, <1>7, <1>8, <1>9, <1>10 DEF IInv

LEMMA IInvStep == IInv /\ [Next]_vars => IInv' /\ Onward
<1> SUFFICES ASSUME IInv, [Next]_vars PROVE IInv' /\ Onward
  OBVIOUS
<1>1. CASE UNCHANGED vars
  <2>1. UNCHANGED <<queues, jsVars, phpStack, valid, status, phpDone>> /\ destroyed' = destroyed
    BY <1>1 DEF vars, ends
  <2>2. destroyed \in BOOLEAN
    BY DEF IInv, TypeOK
  <2> QED BY <2>1, <2>2, Idle
<1>2. CASE Next
  BY <1>2, JsStep, PhpStep DEF Next, UserCode
<1> QED BY <1>1, <1>2

LEMMA Inductive == Spec => []IInv
<1>1. IInv /\ [Next]_vars => IInv'
  BY IInvStep
<1> QED BY <1>1, IInvInit, PTL DEF Spec

\* The variables keep their types, whatever calls the two threads make of each
\* other: js_is_sync_ never falls below 0, and the messages in the queues and
\* on the stacks are those of the calls.
THEOREM WorkerTypes == Spec => []TypeOK
<1>1. IInv => TypeOK
  BY DEF IInv
<1> QED BY <1>1, Inductive, PTL

LEMMA IInvDangles ==
  ASSUME IInv
  PROVE  NoDanglingMessage
<1>1. /\ jsQueue \in Seq(Call) /\ phpQueue \in Seq(Call)
      /\ jsStack \in Seq(JsFrames) /\ phpStack \in Seq(PhpFrames)
  BY DEF IInv, TypeOK, JsFrames, PhpFrames
<1>2. ASSUME NEW i \in 1 .. Len(jsQueue)
      PROVE  status[jsQueue[i]] \in {"requested", "answered"}
  <2>1. PICK c \in Call : c = jsQueue[i]
    BY <1>1
  <2>2. Count(jsQueue, {c}) # 0
    BY <1>1, <2>1, CountSome
  <2>3. status[c] = ForJs(c)
    BY <2>2 DEF IInv, JsQueued, Is
  <2> QED BY <2>1, <2>3, StatusValues
<1>3. ASSUME NEW i \in 1 .. Len(phpQueue)
      PROVE  status[phpQueue[i]] \in {"requested", "answered"}
  <2>1. PICK c \in Call : c = phpQueue[i]
    BY <1>1
  <2>2. Count(phpQueue, {c}) # 0
    BY <1>1, <2>1, CountSome
  <2>3. status[c] = ForPhp(c)
    BY <2>2 DEF IInv, PhpQueued, Is
  <2> QED BY <2>1, <2>3, StatusValues
<1>4. ASSUME NEW m \in PhpCall, OnStack(jsStack, "inJs", m), m \notin flagged
      PROVE  status[m] = "running"
  <2>1. PICK i \in 1 .. Len(jsStack) : jsStack[i].fn = "inJs" /\ jsStack[i].msg = m
    BY <1>4 DEF OnStack
  <2>2. jsStack[i] \in InJsOf(m)
    BY <1>1, <2>1 DEF InJsOf
  <2>3. Count(jsStack, InJsOf(m)) # 0
    BY <1>1, <2>2, CountSome
  <2> QED BY <1>4, <2>3 DEF IInv, JsRuns
<1>5. ASSUME NEW r \in JsCall, OnStack(phpStack, "inPhp", r)
      PROVE  status[r] = "running"
  <2>1. PICK i \in 1 .. Len(phpStack) : phpStack[i].fn = "inPhp" /\ phpStack[i].msg = r
    BY <1>5 DEF OnStack
  <2>2. phpStack[i] \in InPhpOf(r)
    BY <1>1, <2>1 DEF InPhpOf
  <2>3. Count(phpStack, InPhpOf(r)) # 0
    BY <1>1, <2>2, CountSome
  <2> QED BY <2>3 DEF IInv, PhpRuns, Is
<1>6. \A m \in PhpCall : callback[m] = "armed" => status[m] = "running"
  BY DEF IInv, Pending
<1> QED BY <1>2, <1>3, <1>4, <1>5, <1>6 DEF NoDanglingMessage

\* Nothing refers to a Message whose SendToJs or SendToPhp is over: not a
\* queue, not a callback that is still to be handled, not a frame that will
\* touch it again; for any number of calls, nested in any way.
THEOREM NothingDangles == Spec => []NoDanglingMessage
<1>1. IInv => NoDanglingMessage
  BY IInvDangles
<1> QED BY <1>1, Inductive, PTL

\* no_async, handed from frame to frame while js_is_sync_ goes up and down, says
\* exactly whether a call of JavaScript is waiting below on the stack.
THEOREM NoAsyncExact == Spec => []NoAsyncIsExact
<1>1. IInv => NoAsyncIsExact
  BY DEF IInv, Synced
<1> QED BY <1>1, Inductive, PTL

\* Each call is executed at most once and answered at most once, and its caller
\* goes on only after the answer, whoever answers it.
THEOREM CallsKeepProtocol == Spec => CallProtocol
<1> DEFINE Moves == \A m \in Call : \/ status'[m] = status[m]
                                    \/ status'[m] = "refused"
                                    \/ <<status[m], status'[m]>> \in Progress
<1>1. IInv /\ [Next]_vars => [Moves]_vars
  BY IInvStep DEF Onward
<1>2. Spec => [][Moves]_vars
  BY <1>1, Inductive, PTL DEF Spec
<1> QED BY <1>2 DEF CallProtocol

\* The first answer of a call of PHP stands, by whichever of InJs, an exception,
\* a callback and the shutdown it was given.
THEOREM AnswersAreStable == Spec => AnswerIsStable
<1> DEFINE Stands == \A m \in PhpCall : outcome[m] # "none" => outcome'[m] = outcome[m]
<1>1. IInv /\ [Next]_vars => [Stands]_vars
  BY IInvStep DEF Onward
<1>2. Spec => [][Stands]_vars
  BY <1>1, Inductive, PTL DEF Spec
<1> QED BY <1>2 DEF AnswerIsStable

-----------------------------------------------------------------------------
(***************************************************************************)
(* The end of the request: who still waits for what, and the order in      *)
(* which the two threads give up the queues.                               *)
(***************************************************************************)

JsLoops(r)  == {x \in JsFrames : x.fn = "process" /\ x.msg = r}
PhpLoops(m) == {x \in PhpFrames : x.fn = "process" /\ x.msg = m}

\* A call whose status is s is under way.
Alive(s) == IF s \in {"new", "returned"} THEN 0 ELSE 1

\* A call is waited for in one loop of its caller, exactly while it is under way.
JsWaits ==
  /\ \A r \in JsCall : Count(jsStack, JsLoops(r)) = Alive(status[r])
  /\ \A i \in 1 .. Len(jsStack) :
       jsStack[i].fn = "process" => jsStack[i].msg \in JsCall \cup {None}
PhpWaits ==
  \A m \in PhpCall \cup {Cleanup} : Count(phpStack, PhpLoops(m)) = Alive(status[m])

\* A response carries what it was set from.
Settled ==
  \A m \in PhpCall : status[m] \in {"answered", "processed", "returned"} => outcome[m] # "none"

\* The loop of Execute at the bottom of its stack.
Under(c) == phpStack # <<>> /\ phpStack[1].msg = c

\* The shutdown goes along with the cleanup message.
Phases ==
  /\ status[Cleanup] # "refused"
  /\ valid <=> status[Cleanup] \in {"new", "requested"}
  /\ phpShut <=> status[Cleanup] \in {"answered", "processed", "returned"}
  /\ jsShut => status[Cleanup] = "returned"
  /\ status[Cleanup] \in {"requested", "running", "answered", "processed"} => Under(Cleanup)
  /\ status[Cleanup] = "returned" /\ ~jsShut => Under(None)
  /\ Under(None) => status[Cleanup] = "returned"

\* When js_queue_ is shut down no call of PHP is under way, and none will be
\* answered.
Drained ==
  /\ jsShut => /\ phpQueue = <<>>
               /\ \A m \in PhpCall : status[m] \in {"new", "returned", "refused"}
  /\ phpDone => jsShut
  /\ destroyed => phpDone /\ jsStack = <<>>

EndInv == JsWaits /\ PhpWaits /\ Settled /\ Phases /\ Drained

LEMMA JsLoopsPush ==
  ASSUME NEW s \in Seq(JsFrames), NEW e \in JsFrames, NEW r
  PROVE  Count(Append(s, e), JsLoops(r)) =
           Count(s, JsLoops(r)) + (IF e.fn = "process" THEN Is(e.msg, r) ELSE 0)
<1>1. e \in JsLoops(r) <=> e.fn = "process" /\ e.msg = r
  BY DEF JsLoops
<1>2. Count(Append(s, e), JsLoops(r)) = Count(s, JsLoops(r)) + (IF e \in JsLoops(r) THEN 1 ELSE 0)
  BY CountAppend
<1> QED BY <1>1, <1>2 DEF Is

LEMMA PhpLoopsPush ==
  ASSUME NEW s \in Seq(PhpFrames), NEW e \in PhpFrames, NEW m
  PROVE  Count(Append(s, e), PhpLoops(m)) =
           Count(s, PhpLoops(m)) + (IF e.fn = "process" THEN Is(e.msg, m) ELSE 0)
<1>1. e \in PhpLoops(m) <=> e.fn = "process" /\ e.msg = m
  BY DEF PhpLoops
<1>2. Count(Append(s, e), PhpLoops(m)) = Count(s, PhpLoops(m)) + (IF e \in PhpLoops(m) THEN 1 ELSE 0)
  BY CountAppend
<1> QED BY <1>1, <1>2 DEF Is

LEMMA JsLoopsPop ==
  ASSUME NEW s \in Seq(JsFrames), s # <<>>, NEW r
  PROVE  Count(Pop(s), JsLoops(r)) =
           Count(s, JsLoops(r)) - (IF Top(s).fn = "process" THEN Is(Top(s).msg, r) ELSE 0)
<1>1. PICK t \in Seq(JsFrames), e \in JsFrames : t = Pop(s) /\ e = Top(s) /\ s = Append(t, e)
  BY PopTop
<1>2. Count(t, JsLoops(r)) \in Nat /\ Is(e.msg, r) \in Nat
  BY CountType DEF Is
<1>3. Count(s, JsLoops(r)) =
        Count(t, JsLoops(r)) + (IF e.fn = "process" THEN Is(e.msg, r) ELSE 0)
  BY <1>1, JsLoopsPush
<1>4. Count(t, JsLoops(r)) =
        Count(s, JsLoops(r)) - (IF e.fn = "process" THEN Is(e.msg, r) ELSE 0)
  BY <1>2, <1>3
<1> QED BY <1>1, <1>4

LEMMA PhpLoopsPop ==
  ASSUME NEW s \in Seq(PhpFrames), s # <<>>, NEW m
  PROVE  Count(Pop(s), PhpLoops(m)) =
           Count(s, PhpLoops(m)) - (IF Top(s).fn = "process" THEN Is(Top(s).msg, m) ELSE 0)
<1>1. PICK t \in Seq(PhpFrames), e \in PhpFrames : t = Pop(s) /\ e = Top(s) /\ s = Append(t, e)
  BY PopTop
<1>2. Count(t, PhpLoops(m)) \in Nat /\ Is(e.msg, m) \in Nat
  BY CountType DEF Is
<1>3. Count(s, PhpLoops(m)) =
        Count(t, PhpLoops(m)) + (IF e.fn = "process" THEN Is(e.msg, m) ELSE 0)
  BY <1>1, PhpLoopsPush
<1>4. Count(t, PhpLoops(m)) =
        Count(s, PhpLoops(m)) - (IF e.fn = "process" THEN Is(e.msg, m) ELSE 0)
  BY <1>2, <1>3
<1> QED BY <1>1, <1>4

\* The stack of JavaScript gains or loses a frame that waits for no call.
LEMMA JsWaitsPush ==
  ASSUME IInv, JsWaits, NEW e \in JsFrames, jsStack' = Append(jsStack, e),
         e.fn # "process" \/ e.msg = None,
         \A r \in JsCall : Alive(status'[r]) = Alive(status[r])
  PROVE  JsWaits'
<1>1. jsStack \in Seq(JsFrames) /\ \A r \in JsCall : r # None
  BY StatusValues DEF IInv, TypeOK, JsFrames
<1>2. ASSUME NEW r \in JsCall
      PROVE  Count(jsStack', JsLoops(r)) = Alive(status'[r])
  <2>1. Count(jsStack', JsLoops(r)) = Count(jsStack, JsLoops(r)) + 0
    BY <1>1, JsLoopsPush DEF Is
  <2>2. Count(jsStack, JsLoops(r)) \in Nat
    BY <1>1, CountType
  <2> QED BY <2>1, <2>2 DEF JsWaits
<1>3. ASSUME NEW i \in 1 .. Len(jsStack'), jsStack'[i].fn = "process"
      PROVE  jsStack'[i].msg \in JsCall \cup {None}
  <2>1. CASE i \in 1 .. Len(jsStack)
    BY <1>1, <1>3, <2>1 DEF JsWaits
  <2>2. CASE i = Len(jsStack) + 1
    BY <1>1, <1>3, <2>2
  <2> QED BY <1>1, <2>1, <2>2
<1> QED BY <1>2, <1>3 DEF JsWaits

LEMMA JsWaitsPop ==
  ASSUME IInv, JsWaits, jsStack # <<>>, jsStack' = Pop(jsStack),
         Top(jsStack).fn # "process" \/ Top(jsStack).msg = None,
         \A r \in JsCall : Alive(status'[r]) = Alive(status[r])
  PROVE  JsWaits'
<1>1. jsStack \in Seq(JsFrames) /\ \A r \in JsCall : r # None
  BY StatusValues DEF IInv, TypeOK, JsFrames
<1>2. ASSUME NEW r \in JsCall
      PROVE  Count(jsStack', JsLoops(r)) = Alive(status'[r])
  <2>1. Count(jsStack', JsLoops(r)) = Count(jsStack, JsLoops(r)) - 0
    BY <1>1, JsLoopsPop DEF Is
  <2>2. Count(jsStack, JsLoops(r)) \in Nat
    BY <1>1, CountType
  <2> QED BY <2>1, <2>2 DEF JsWaits
<1>3. \A i \in 1 .. Len(jsStack') : i \in 1 .. Len(jsStack) /\ jsStack'[i] = jsStack[i]
  BY <1>1, PopTop
<1> QED BY <1>2, <1>3 DEF JsWaits

LEMMA JsWaitsSame ==
  ASSUME JsWaits, jsStack' = jsStack, \A r \in JsCall : Alive(status'[r]) = Alive(status[r])
  PROVE  JsWaits'
BY DEF JsWaits

\* The loops of Execute stay at the bottom, whatever goes on above them.
LEMMA UnderPush ==
  ASSUME IInv, NEW e \in PhpFrames, phpStack' = Append(phpStack, e), e.msg # None
  PROVE  (Under(None)' <=> Under(None)) /\ (Under(Cleanup) => Under(Cleanup)')
<1>1. phpStack \in Seq(PhpFrames)
  BY DEF IInv, TypeOK, PhpFrames
<1>2. CASE phpStack = <<>>
  <2>1. phpStack'[1] = e
    BY <1>2
  <2> QED BY <1>2, <2>1 DEF Under
<1>3. CASE phpStack # <<>>
  <2>1. Len(phpStack) \in Nat \ {0}
    BY <1>1, <1>3, EmptySeq
  <2>2. phpStack' # <<>> /\ phpStack'[1] = phpStack[1]
    BY <1>1, <2>1
  <2> QED BY <1>3, <2>2 DEF Under
<1> QED BY <1>2, <1>3

LEMMA UnderPop ==
  ASSUME IInv, phpStack # <<>>, phpStack' = Pop(phpStack), Top(phpStack).msg \notin {Cleanup, None}
  PROVE  (Under(None)' <=> Under(None)) /\ (Under(Cleanup) => Under(Cleanup)')
<1>1. phpStack \in Seq(PhpFrames)
  BY DEF IInv, TypeOK, PhpFrames
<1>2. /\ Len(phpStack) \in Nat \ {0} /\ Len(Pop(phpStack)) = Len(phpStack) - 1
      /\ \A i \in 1 .. Len(Pop(phpStack)) : Pop(phpStack)[i] = phpStack[i]
      /\ Pop(phpStack) \in Seq(PhpFrames)
  BY <1>1, PopTop
<1>3. CASE Len(phpStack) = 1
  <2>1. phpStack[1].msg \notin {Cleanup, None}
    BY <1>3 DEF Top
  <2>2. Pop(phpStack) = <<>>
    BY <1>2, <1>3, EmptySeq
  <2> QED BY <2>1, <2>2 DEF Under
<1>4. CASE Len(phpStack) # 1
  <2>1. 1 \in 1 .. Len(Pop(phpStack))
    BY <1>2, <1>4
  <2>2. Pop(phpStack) # <<>> /\ Pop(phpStack)[1] = phpStack[1]
    BY <1>2, <2>1
  <2> QED BY <2>2 DEF Under
<1> QED BY <1>3, <1>4

LEMMA PhasesKept ==
  ASSUME Phases, UNCHANGED <<valid, phpShut, jsShut>>, status'[Cleanup] = status[Cleanup],
         Under(None)' <=> Under(None), Under(Cleanup) => Under(Cleanup)'
  PROVE  Phases'
BY DEF Phases

LEMMA SettledKept ==
  ASSUME Settled, Onward,
         \A m \in PhpCall : status'[m] = "answered" /\ status[m] # "answered" => outcome'[m] # "none"
  PROVE  Settled'
<1>1. PhpCall \subseteq Call
  BY StatusValues
<1>2. ASSUME NEW m \in PhpCall, status'[m] \in {"answered", "processed", "returned"}
      PROVE  outcome'[m] # "none"
  <2>1. \/ status'[m] = status[m] \/ status'[m] = "answered"
        \/ status[m] \in {"answered", "processed"}
    BY <1>1, <1>2 DEF Onward, Progress
  <2> QED BY <1>2, <2>1 DEF Settled, Onward
<1> QED BY <1>2 DEF Settled

LEMMA DrainedKept ==
  ASSUME Drained, Onward, UNCHANGED <<jsShut, phpDone>>,
         jsShut => phpQueue' = phpQueue /\ \A m \in PhpCall : status'[m] # "requested",
         destroyed' => phpDone /\ jsStack' = <<>>
  PROVE  Drained'
<1>1. PhpCall \subseteq Call
  BY StatusValues
<1>2. ASSUME jsShut', NEW m \in PhpCall
      PROVE  status'[m] \in {"new", "returned", "refused"}
  <2>1. status[m] \in {"new", "returned", "refused"} /\ status'[m] # "requested"
    BY <1>2 DEF Drained
  <2> QED BY <1>1, <2>1 DEF Onward, Progress
<1> QED BY <1>2 DEF Drained

\* What a step of the node thread does to the calls of PHP.
NodeMoves ==
  /\ \A m \in PhpCall \cup {Cleanup} :
       \/ status'[m] = status[m]
       \/ status[m] \in {"requested", "running"} /\ status'[m] \in {"running", "answered", "refused"}
  /\ \A m \in PhpCall : status'[m] = "answered" /\ status[m] # "answered" => outcome'[m] # "none"
  /\ UNCHANGED <<jsShut, phpStack, phpDone>>
  /\ phpShut => phpQueue' = phpQueue
  /\ destroyed' => phpDone /\ jsStack' = <<>>

LEMMA NodeKeeps ==
  ASSUME IInv, EndInv, Onward, NodeMoves
  PROVE  PhpWaits' /\ Settled' /\ Drained'
<1>1. /\ PhpWaits /\ Settled /\ Phases /\ Drained /\ UNCHANGED <<jsShut, phpStack, phpDone>>
      /\ \A m \in PhpCall : m \in Call
  BY StatusValues DEF EndInv, NodeMoves
<1>2. PhpWaits'
  <2>1. ASSUME NEW m \in PhpCall \cup {Cleanup}
        PROVE  Alive(status'[m]) = Alive(status[m])
    <3>1. \/ status'[m] = status[m]
          \/ status[m] \in {"requested", "running"}
             /\ status'[m] \in {"running", "answered", "refused"}
      BY DEF NodeMoves
    <3> QED BY <3>1 DEF Alive
  <2> QED BY <1>1, <2>1 DEF PhpWaits
<1>3. Settled'
  BY <1>1, SettledKept DEF NodeMoves
<1>4. Drained'
  <2>1. ASSUME jsShut
        PROVE  phpQueue' = phpQueue /\ \A m \in PhpCall : status'[m] # "requested"
    <3>1. phpShut /\ \A m \in PhpCall : status[m] \notin {"requested", "running"}
      BY <1>1, <2>1 DEF Phases, Drained
    <3>2. phpQueue' = phpQueue
      BY <3>1 DEF NodeMoves
    <3>3. \A m \in PhpCall : status'[m] = status[m]
      BY <3>1 DEF NodeMoves
    <3> QED BY <3>1, <3>2, <3>3
  <2>2. destroyed' => phpDone /\ jsStack' = <<>>
    BY DEF NodeMoves
  <2> QED BY <1>1, <2>1, <2>2, DrainedKept
<1> QED BY <1>2, <1>3, <1>4

\* The deleted worker has no frame left that could act.
LEMMA GoneIdle ==
  ASSUME EndInv, destroyed
  PROVE  jsStack = <<>> /\ phpDone /\ ~valid
BY DEF EndInv, Drained, Phases

LEMMA EndTurns ==
  ASSUME IInv, EndInv, JsAsyncMessage, Onward
  PROVE  EndInv'
<1> DEFINE e == JsFrame("process", None, jsIsSync > 0)
<1>1. /\ jsStack = <<>> /\ jsStack' = <<e>> /\ ~destroyed
      /\ UNCHANGED <<queues, phpStack, valid, outcome, status, ends>>
  BY DEF JsAsyncMessage
<1>2. e \in JsFrames /\ e.msg = None
  <2> DEFINE blocked == jsIsSync > 0
  <2>1. blocked \in BOOLEAN
    OBVIOUS
  <2>2. e = [fn |-> "process", msg |-> None, sync |-> blocked]
    BY DEF JsFrame
  <2> HIDE DEF blocked, e
  <2> QED BY <2>1, <2>2 DEF JsFrames
<1> HIDE DEF e
<1>3. jsStack' = Append(jsStack, e)
  BY <1>1
<1>4. JsWaits'
  BY <1>1, <1>2, <1>3, JsWaitsPush DEF EndInv
<1>5. Phases'
  BY <1>1, PhasesKept DEF EndInv, queues, Under
<1>6. NodeMoves
  BY <1>1 DEF NodeMoves, queues, ends
<1> QED BY <1>4, <1>5, <1>6, NodeKeeps DEF EndInv

\* A message of JavaScript that moves on: the calls of PHP stay.
LEMMA Others ==
  ASSUME IInv, NEW r \in JsCall, NEW t \in Status, status' = [status EXCEPT ![r] = t]
  PROVE  /\ \A m \in PhpCall \cup {Cleanup} : status'[m] = status[m]
         /\ status'[r] = t /\ \A q \in JsCall \ {r} : status'[q] = status[q]
BY StatusValues DEF IInv, TypeOK

LEMMA EndReceives ==
  ASSUME IInv, EndInv, NEW r \in JsCall, JsTakesResponse(r), Onward
  PROVE  EndInv'
<1>1. /\ JsTakes(r) /\ status' = [status EXCEPT ![r] = "processed"] /\ "processed" \in Status
      /\ jsStack' = jsStack /\ outcome' = outcome
      /\ UNCHANGED <<phpQueue, jsShut, phpShut, phpStack, valid, ends>>
  BY DEF JsTakesResponse, jsVars, Status
<1>2. status[r] = "answered" /\ jsStack # <<>>
  BY <1>1, TakeJs, StatusValues DEF IInv
<1>3. /\ \A m \in PhpCall \cup {Cleanup} : status'[m] = status[m]
      /\ status'[r] = "processed" /\ \A q \in JsCall \ {r} : status'[q] = status[q]
  BY <1>1, Others
<1>4. \A q \in JsCall : Alive(status'[q]) = Alive(status[q])
  BY <1>2, <1>3 DEF Alive
<1>5. JsWaits'
  BY <1>1, <1>4, JsWaitsSame DEF EndInv
<1>6. Phases'
  BY <1>1, <1>3, PhasesKept DEF EndInv, Under
<1>7. ~destroyed
  BY <1>2, GoneIdle
<1>8. NodeMoves
  BY <1>1, <1>3, <1>7 DEF NodeMoves, ends
<1> QED BY <1>5, <1>6, <1>8, NodeKeeps DEF EndInv

LEMMA EndLoopReturns ==
  ASSUME IInv, EndInv, ProcessJsReturns, Onward
  PROVE  EndInv'
<1>1. /\ jsStack \in Seq(JsFrames) /\ JsWaits /\ None \notin JsCall /\ JsCall \subseteq Call
      /\ status \in [Call -> Status]
  BY StatusValues DEF IInv, EndInv, TypeOK, JsFrames
<1>2. /\ In(jsStack, "process") /\ jsStack # <<>> /\ Top(jsStack).fn = "process"
      /\ jsStack' = Pop(jsStack) /\ Finished(jsStack, jsQueue)
      /\ UNCHANGED <<queues, phpStack, valid, outcome, ends>>
  BY DEF ProcessJsReturns, In
<1>3. PICK r \in JsCall \cup {None} : r = Top(jsStack).msg
  <2>1. Len(jsStack) \in 1 .. Len(jsStack) /\ Top(jsStack) = jsStack[Len(jsStack)]
    BY <1>1, <1>2, PopTop DEF Top
  <2> QED BY <1>1, <1>2, <2>1 DEF JsWaits
<1>4. ~destroyed
  BY <1>2, GoneIdle
<1>5. CASE r = None
  <2>1. status' = status
    BY <1>3, <1>5 DEF ProcessJsReturns
  <2>2. JsWaits'
    BY <1>1, <1>2, <1>3, <1>5, <2>1, JsWaitsPop
  <2>3. Phases'
    BY <1>2, <2>1, PhasesKept DEF EndInv, Under, queues
  <2>4. NodeMoves
    BY <1>2, <1>4, <2>1 DEF NodeMoves, ends, queues
  <2> QED BY <2>2, <2>3, <2>4, NodeKeeps DEF EndInv
<1>6. CASE r \in JsCall
  <2>1. status[r] = "processed" /\ status' = [status EXCEPT ![r] = "returned"]
        /\ "returned" \in Status
    BY <1>1, <1>2, <1>3, <1>6 DEF ProcessJsReturns, Finished, Status
  <2>2. /\ \A m \in PhpCall \cup {Cleanup} : status'[m] = status[m]
        /\ status'[r] = "returned" /\ \A q \in JsCall \ {r} : status'[q] = status[q]
    BY <1>6, <2>1, Others
  <2>3. JsWaits'
    <3>1. ASSUME NEW q \in JsCall
          PROVE  Count(jsStack', JsLoops(q)) = Alive(status'[q])
      <4>1. Count(Pop(jsStack), JsLoops(q)) = Count(jsStack, JsLoops(q)) - Is(r, q)
        BY <1>1, <1>2, <1>3, JsLoopsPop
      <4>2. Count(jsStack, JsLoops(q)) = Alive(status[q])
        BY <1>1 DEF JsWaits
      <4>3. CASE q = r
        BY <1>2, <2>1, <2>2, <4>1, <4>2, <4>3 DEF Is, Alive
      <4>4. CASE q # r
        BY <1>2, <2>2, <4>1, <4>2, <4>4 DEF Is, Alive
      <4> QED BY <4>3, <4>4
    <3>2. \A i \in 1 .. Len(jsStack') : i \in 1 .. Len(jsStack) /\ jsStack'[i] = jsStack[i]
      BY <1>1, <1>2, PopTop
    <3> QED BY <1>1, <3>1, <3>2 DEF JsWaits
  <2>4. Phases'
    BY <1>2, <2>2, PhasesKept DEF EndInv, Under, queues
  <2>5. NodeMoves
    BY <1>2, <1>4, <2>2 DEF NodeMoves, ends, queues
  <2> QED BY <2>3, <2>4, <2>5, NodeKeeps DEF EndInv
<1> QED BY <1>5, <1>6

LEMMA EndSends ==
  ASSUME IInv, EndInv, NEW r \in JsCall, SendToPhp(r), Onward
  PROVE  EndInv'
<1>1. /\ TypeOK /\ PhpQueued /\ JsWaits /\ r \in Call /\ ForPhp(r) = "requested"
      /\ None \notin Call /\ jsStack \in Seq(JsFrames)
  BY StatusValues DEF IInv, EndInv, TypeOK, JsFrames
<1> DEFINE e == JsFrame("process", r, TRUE)
<1>2. /\ status[r] = "new" /\ PushToPhp(r, "requested") /\ valid
      /\ jsStack' = Append(jsStack, e)
      /\ UNCHANGED <<jsShut, phpShut, phpStack, valid, outcome, ends>>
  BY DEF SendToPhp
<1>3. PICK t \in {"requested", "refused"} : status' = [status EXCEPT ![r] = t]
  BY <1>1, <1>2, PushPhp
<1>4. t \in Status
  BY DEF Status
<1>5. /\ \A m \in PhpCall \cup {Cleanup} : status'[m] = status[m]
      /\ status'[r] = t /\ \A q \in JsCall \ {r} : status'[q] = status[q]
  BY <1>3, <1>4, Others
<1>6. e \in JsFrames /\ e.fn = "process" /\ e.msg = r
  BY <1>1 DEF JsFrame, JsFrames
<1> HIDE DEF e
<1>7. JsWaits'
  <2>1. ASSUME NEW q \in JsCall
        PROVE  Count(jsStack', JsLoops(q)) = Alive(status'[q])
    <3>1. Count(Append(jsStack, e), JsLoops(q)) = Count(jsStack, JsLoops(q)) + Is(r, q)
      BY <1>1, <1>6, JsLoopsPush
    <3>2. Count(jsStack, JsLoops(q)) = Alive(status[q])
      BY <1>1 DEF JsWaits
    <3>3. CASE q = r
      BY <1>2, <1>5, <3>1, <3>2, <3>3 DEF Is, Alive
    <3>4. CASE q # r
      BY <1>2, <1>5, <3>1, <3>2, <3>4 DEF Is, Alive
    <3> QED BY <3>3, <3>4
  <2>2. ASSUME NEW i \in 1 .. Len(jsStack'), jsStack'[i].fn = "process"
        PROVE  jsStack'[i].msg \in JsCall \cup {None}
    <3>1. CASE i \in 1 .. Len(jsStack)
      BY <1>1, <1>2, <1>6, <2>2, <3>1 DEF JsWaits
    <3>2. CASE i = Len(jsStack) + 1
      BY <1>1, <1>2, <1>6, <2>2, <3>2
    <3> QED BY <1>1, <1>2, <1>6, <3>1, <3>2
  <2> QED BY <2>1, <2>2 DEF JsWaits
<1>8. Phases'
  BY <1>2, <1>5, PhasesKept DEF EndInv, Under
<1>9. NodeMoves
  <2>1. ~destroyed
    BY <1>2, GoneIdle
  <2>2. phpShut => phpQueue' = phpQueue
    BY <1>2 DEF PushToPhp
  <2> QED BY <1>2, <1>5, <2>1, <2>2 DEF NodeMoves, ends
<1> QED BY <1>7, <1>8, <1>9, NodeKeeps DEF EndInv

\* A call of PHP that the node thread moves.
LEMMA EndMoves ==
  ASSUME IInv, EndInv, Onward, NEW m \in PhpCall, status[m] \in {"requested", "running"},
         NEW t \in {"running", "answered", "refused"}, status' = [status EXCEPT ![m] = t],
         t = "answered" => outcome'[m] # "none",
         UNCHANGED <<jsShut, phpShut, valid, phpStack, ends>>,
         phpShut => phpQueue' = phpQueue, jsStack = <<>> => jsStack' = <<>>, JsWaits'
  PROVE  EndInv'
<1>1. /\ m \in Call /\ m # Cleanup /\ Cleanup \in Call /\ PhpCall \subseteq Call
      /\ status \in [Call -> Status]
  BY StatusValues DEF IInv, TypeOK
<1>2. status'[m] = t /\ \A c \in Call \ {m} : status'[c] = status[c]
  BY <1>1
<1>3. Phases'
  BY <1>1, <1>2, PhasesKept DEF EndInv, Under
<1>4. NodeMoves
  <2>1. \A c \in PhpCall \cup {Cleanup} :
          \/ status'[c] = status[c]
          \/ /\ status[c] \in {"requested", "running"}
             /\ status'[c] \in {"running", "answered", "refused"}
    BY <1>1, <1>2
  <2>2. \A c \in PhpCall : status'[c] = "answered" /\ status[c] # "answered" => outcome'[c] # "none"
    BY <1>1, <1>2
  <2>3. destroyed' => phpDone /\ jsStack' = <<>>
    BY GoneIdle DEF ends
  <2> QED BY <2>1, <2>2, <2>3 DEF NodeMoves, ends
<1> QED BY <1>3, <1>4, NodeKeeps DEF EndInv

LEMMA OtherWay ==
  ASSUME IInv, NEW m \in PhpCall \cup {Cleanup}, NEW t, status' = [status EXCEPT ![m] = t]
  PROVE  \A r \in JsCall : status'[r] = status[r] /\ Alive(status'[r]) = Alive(status[r])
<1>1. /\ status \in [Call -> Status] /\ JsCall \subseteq Call /\ m \in Call /\ m \notin JsCall
  BY StatusValues DEF IInv, TypeOK
<1> QED BY <1>1

\* What EndMoves needs of an answer.
LEMMA AnswerMoves ==
  ASSUME IInv, NEW m \in PhpCall, NEW how \in Outcome \ {"none"}, Answer(m, how)
  PROVE  outcome'[m] # "none" /\ (phpShut => phpQueue' = phpQueue)
<1>1. outcome \in [PhpCall -> Outcome]
  BY DEF IInv, TypeOK
<1> QED BY <1>1 DEF Answer, PushToPhp

LEMMA EndRejects ==
  ASSUME IInv, EndInv, NEW m \in PhpCall, JsRejectsRequest(m), Onward
  PROVE  EndInv'
<1>1. /\ JsTakes(m) /\ Answer(m, "shutdown") /\ "shutdown" \in Outcome \ {"none"}
      /\ jsStack' = jsStack /\ UNCHANGED <<jsShut, phpShut, phpStack, valid, ends>>
  BY DEF JsRejectsRequest, Outcome
<1>2. status[m] = "requested"
  BY <1>1, TakeJs, StatusValues DEF IInv
<1>3. PICK t \in {"answered", "refused"} : status' = [status EXCEPT ![m] = t]
  BY <1>1, <1>2, Answered
<1>4. outcome'[m] # "none" /\ (phpShut => phpQueue' = phpQueue)
  BY <1>1, AnswerMoves
<1>5. JsWaits'
  BY <1>1, <1>3, OtherWay, JsWaitsSame DEF EndInv
<1> QED BY <1>1, <1>2, <1>3, <1>4, <1>5, EndMoves

LEMMA EndBegins ==
  ASSUME IInv, EndInv, NEW m \in PhpCall, JsTakesRequest(m), Onward
  PROVE  EndInv'
<1> DEFINE e == JsFrame("inJs", m, Top(jsStack).sync)
<1>1. /\ JsTakes(m) /\ status' = [status EXCEPT ![m] = "running"]
      /\ jsStack' = Append(jsStack, e)
      /\ UNCHANGED <<phpQueue, jsShut, phpShut, phpStack, valid, ends>>
  BY DEF JsTakesRequest
<1>2. status[m] = "requested" /\ jsStack # <<>>
  BY <1>1, TakeJs, StatusValues DEF IInv
<1>3. e \in JsFrames /\ e.fn = "inJs"
  <2>1. PICK s \in BOOLEAN : s = Top(jsStack).sync
    BY <1>2, SyncTop
  <2>2. e = [fn |-> "inJs", msg |-> m, sync |-> s]
    BY <2>1 DEF JsFrame
  <2> HIDE DEF e
  <2> QED BY <2>2, StatusValues DEF JsFrames
<1> HIDE DEF e
<1>4. JsWaits'
  <2>1. \A r \in JsCall : Alive(status'[r]) = Alive(status[r])
    BY <1>1, OtherWay
  <2> QED BY <1>1, <1>3, <2>1, JsWaitsPush DEF EndInv
<1> QED BY <1>1, <1>2, <1>4, EndMoves

LEMMA EndAnswers ==
  ASSUME IInv, EndInv, NEW m \in PhpCall, NEW how \in Outcome \ {"none"},
         InJsEnds(m), Answer(m, how), Onward
  PROVE  EndInv'
<1>1. /\ In(jsStack, "inJs") /\ Top(jsStack).msg = m /\ m \notin flagged
      /\ jsStack # <<>> /\ Top(jsStack).fn = "inJs"
      /\ jsStack' = Pop(jsStack) /\ jsIsSync' = jsIsSync
      /\ UNCHANGED <<jsShut, phpShut, phpStack, valid, ends>>
  BY DEF InJsEnds, In
<1>2. status[m] = "running"
  <2>1. Count(jsStack, InJsOf(m)) = 1
    BY <1>1, InJsPop
  <2> QED BY <1>1, <2>1 DEF IInv, JsRuns
<1>3. PICK t \in {"answered", "refused"} : status' = [status EXCEPT ![m] = t]
  BY <1>2, Answered
<1>4. outcome'[m] # "none" /\ (phpShut => phpQueue' = phpQueue)
  BY AnswerMoves
<1>5. JsWaits'
  <2>1. \A r \in JsCall : Alive(status'[r]) = Alive(status[r])
    BY <1>3, OtherWay
  <2> QED BY <1>1, <2>1, JsWaitsPop DEF EndInv
<1> QED BY <1>1, <1>2, <1>3, <1>4, <1>5, EndMoves

LEMMA EndCallback ==
  ASSUME IInv, EndInv, NEW m \in PhpCall, CallbackFunction(m), Onward
  PROVE  EndInv'
<1>1. /\ callback[m] = "armed" /\ Answer(m, "callback") /\ "callback" \in Outcome \ {"none"}
      /\ jsStack' = jsStack /\ UNCHANGED <<jsShut, phpShut, phpStack, valid, ends>>
  BY DEF CallbackFunction, Outcome
<1>2. status[m] = "running"
  BY <1>1 DEF IInv, Pending
<1>3. PICK t \in {"answered", "refused"} : status' = [status EXCEPT ![m] = t]
  BY <1>1, <1>2, Answered
<1>4. outcome'[m] # "none" /\ (phpShut => phpQueue' = phpQueue)
  BY <1>1, AnswerMoves
<1>5. JsWaits'
  BY <1>1, <1>3, OtherWay, JsWaitsSame DEF EndInv
<1> QED BY <1>1, <1>2, <1>3, <1>4, <1>5, EndMoves

LEMMA EndLeaves ==
  ASSUME IInv, EndInv, In(jsStack, "inJs"), jsStack' = Pop(jsStack), Onward,
         UNCHANGED <<queues, phpStack, valid, outcome, status, ends>>
  PROVE  EndInv'
<1>1. jsStack # <<>> /\ Top(jsStack).fn = "inJs"
  BY DEF In
<1>2. JsWaits'
  BY <1>1, JsWaitsPop DEF EndInv
<1>3. Phases'
  BY PhasesKept DEF EndInv, Under, queues
<1>4. NodeMoves
  BY <1>1, GoneIdle DEF NodeMoves, queues, ends
<1> QED BY <1>2, <1>3, <1>4, NodeKeeps DEF EndInv

LEMMA EndCleansUp ==
  ASSUME IInv, EndInv, JsTakesCleanup, Onward
  PROVE  EndInv'
<1>1. /\ TypeOK /\ JsQueued /\ Cleanup \in Call /\ ForJs(Cleanup) = "requested"
      /\ jsStack \in Seq(JsFrames) /\ PhpCall \subseteq Call /\ Cleanup \notin PhpCall
  BY StatusValues DEF IInv, TypeOK, JsFrames
<1> DEFINE c == JsFrame("cleanup", Cleanup, Top(jsStack).sync)
           p == JsFrame("process", None, jsIsSync > 0)
<1>2. /\ JsTakes(Cleanup) /\ valid' = FALSE
      /\ status' = [status EXCEPT ![Cleanup] = "running"]
      /\ jsStack' = jsStack \o <<c, p>>
      /\ UNCHANGED <<phpQueue, jsShut, phpShut, phpStack, outcome, ends>>
  BY DEF JsTakesCleanup
<1>3. status[Cleanup] = "requested" /\ jsStack # <<>>
  BY <1>1, <1>2, TakeJs
<1>4. status'[Cleanup] = "running" /\ \A m \in Call \ {Cleanup} : status'[m] = status[m]
  BY <1>1, <1>2 DEF TypeOK
<1>5. c \in JsFrames /\ c.fn = "cleanup"
  <2>1. PICK s \in BOOLEAN : s = Top(jsStack).sync
    BY <1>3, SyncTop
  <2>2. c = [fn |-> "cleanup", msg |-> Cleanup, sync |-> s]
    BY <2>1 DEF JsFrame
  <2> HIDE DEF c, p
  <2> QED BY <1>1, <2>2 DEF JsFrames
<1>6. p \in JsFrames /\ p.fn = "process" /\ p.msg = None
  <2> DEFINE blocked == jsIsSync > 0
  <2>1. blocked \in BOOLEAN
    OBVIOUS
  <2>2. p = [fn |-> "process", msg |-> None, sync |-> blocked]
    BY DEF JsFrame
  <2> HIDE DEF blocked, c, p
  <2> QED BY <2>1, <2>2 DEF JsFrames
<1> HIDE DEF c, p
<1>7. PICK s \in Seq(JsFrames) : s = Append(jsStack, c)
  BY <1>1, <1>5, AppendProperties
<1>8. jsStack' = Append(s, p)
  BY <1>1, <1>2, <1>5, <1>6, <1>7
<1>9. JsWaits'
  <2>1. ASSUME NEW r \in JsCall
        PROVE  Count(jsStack', JsLoops(r)) = Alive(status'[r])
    <3>1. Count(s, JsLoops(r)) = Count(jsStack, JsLoops(r)) + 0
      BY <1>1, <1>5, <1>7, JsLoopsPush
    <3>2. Count(jsStack', JsLoops(r)) = Count(s, JsLoops(r)) + 0
      BY <1>6, <1>8, JsLoopsPush, StatusValues DEF Is
    <3>3. Count(jsStack, JsLoops(r)) \in Nat
      BY <1>1, CountType
    <3>4. status'[r] = status[r]
      BY <1>2, OtherWay
    <3> QED BY <3>1, <3>2, <3>3, <3>4 DEF EndInv, JsWaits
  <2>2. ASSUME NEW i \in 1 .. Len(jsStack'), jsStack'[i].fn = "process"
        PROVE  jsStack'[i].msg \in JsCall \cup {None}
    <3>1. /\ Len(s) = Len(jsStack) + 1 /\ s[Len(jsStack) + 1] = c
          /\ \A j \in 1 .. Len(jsStack) : s[j] = jsStack[j]
      BY <1>1, <1>5, <1>7, AppendProperties
    <3>2. /\ Len(jsStack') = Len(s) + 1 /\ jsStack'[Len(s) + 1] = p
          /\ \A j \in 1 .. Len(s) : jsStack'[j] = s[j]
      BY <1>6, <1>7, <1>8, AppendProperties
    <3>3. Len(jsStack) \in Nat
      BY <1>1
    <3>4. CASE i \in 1 .. Len(jsStack)
      BY <2>2, <3>1, <3>2, <3>3, <3>4 DEF EndInv, JsWaits
    <3>5. CASE i = Len(jsStack) + 1
      BY <1>5, <2>2, <3>1, <3>2, <3>3, <3>5
    <3>6. CASE i = Len(jsStack) + 2
      BY <1>6, <3>1, <3>2, <3>3, <3>6
    <3> QED BY <3>1, <3>2, <3>3, <3>4, <3>5, <3>6
  <2> QED BY <2>1, <2>2 DEF JsWaits
<1>10. Phases'
  BY <1>2, <1>3, <1>4 DEF EndInv, Phases, Under
<1>11. NodeMoves
  <2>1. ~destroyed
    BY <1>3, GoneIdle
  <2> QED BY <1>1, <1>2, <1>3, <1>4, <2>1 DEF NodeMoves, ends
<1> QED BY <1>9, <1>10, <1>11, NodeKeeps DEF EndInv

LEMMA EndCleanedUp ==
  ASSUME IInv, EndInv, CleanupReturns, Onward
  PROVE  EndInv'
<1>1. /\ TypeOK /\ PhpQueued /\ Cleanup \in Call /\ ForPhp(Cleanup) = "answered"
      /\ jsStack \in Seq(JsFrames) /\ PhpCall \subseteq Call /\ Cleanup \notin PhpCall
  BY StatusValues DEF IInv, TypeOK, JsFrames
<1>2. /\ jsStack # <<>> /\ Top(jsStack).fn = "cleanup" /\ jsStack' = Pop(jsStack)
      /\ PushToPhp(Cleanup, "answered") /\ phpShut' = TRUE
      /\ UNCHANGED <<jsShut, phpStack, valid, outcome, ends>>
  BY DEF CleanupReturns, In
<1>3. status[Cleanup] = "running"
  <2>1. Count(jsStack, InCleanup) - 1 \in Nat
    <3>1. /\ Count(Pop(jsStack), InCleanup) = Count(jsStack, InCleanup) - 1
          /\ Count(Pop(jsStack), InCleanup) \in Nat
      BY <1>1, <1>2, OneFrameLess DEF Is
    <3> QED BY <3>1
  <2>2. Count(jsStack, InCleanup) = Is(status[Cleanup], "running")
    BY DEF IInv, JsRuns
  <2> QED BY <2>1, <2>2 DEF Is
<1>4. ~phpShut /\ status' = [status EXCEPT ![Cleanup] = "answered"]
  BY <1>2, <1>3 DEF EndInv, Phases, PushToPhp
<1>5. status'[Cleanup] = "answered" /\ \A m \in Call \ {Cleanup} : status'[m] = status[m]
  BY <1>1, <1>4 DEF TypeOK
<1>6. JsWaits'
  <2>1. \A r \in JsCall : Alive(status'[r]) = Alive(status[r])
    BY <1>4, OtherWay
  <2> QED BY <1>2, <2>1, JsWaitsPop DEF EndInv
<1>7. Phases'
  BY <1>2, <1>3, <1>5 DEF EndInv, Phases, Under
<1>8. NodeMoves
  <2>1. ~destroyed
    BY <1>2, GoneIdle
  <2> QED BY <1>1, <1>2, <1>3, <1>4, <1>5, <2>1 DEF NodeMoves, ends
<1> QED BY <1>6, <1>7, <1>8, NodeKeeps DEF EndInv

LEMMA EndDestroys ==
  ASSUME IInv, EndInv, Destroy, Onward
  PROVE  EndInv'
<1>1. /\ jsStack = <<>> /\ phpDone
      /\ UNCHANGED <<queues, jsStack, outcome, phpStack, valid, status, phpDone>>
  BY DEF Destroy, jsVars
<1>2. JsWaits'
  BY <1>1, JsWaitsSame DEF EndInv
<1>3. Phases'
  BY <1>1, PhasesKept DEF EndInv, Under, queues
<1>4. NodeMoves
  BY <1>1 DEF NodeMoves, queues
<1> QED BY <1>2, <1>3, <1>4, NodeKeeps DEF EndInv

LEMMA EndNode ==
  ASSUME IInv, EndInv, Onward,
         JsThread \/ (\E r \in JsCall : SendToPhp(r)) \/ (\E m \in PhpCall : CallbackFunction(m))
  PROVE  EndInv'
<1>1. ASSUME NEW m \in PhpCall, InJsBailsOut(m) \/ InJsLeavesToCallback(m)
      PROVE  EndInv'
  <2>1. UNCHANGED <<queues, phpStack, valid, outcome, status, ends>>
        /\ In(jsStack, "inJs") /\ jsStack' = Pop(jsStack)
    BY <1>1 DEF InJsBailsOut, InJsLeavesToCallback, InJsEnds, queues
  <2> QED BY <2>1, EndLeaves
<1>2. ASSUME NEW m \in PhpCall, InJsReturns(m) \/ InJsThrows(m) \/ InJsDeadlocks(m)
      PROVE  EndInv'
  <2>1. "value" \in Outcome \ {"none"} /\ "thrown" \in Outcome \ {"none"}
        /\ "deadlock" \in Outcome \ {"none"}
    BY DEF Outcome
  <2> QED BY <1>2, <2>1, EndAnswers DEF InJsReturns, InJsThrows, InJsDeadlocks
<1> QED BY <1>1, <1>2, EndTurns, EndCleansUp, EndCleanedUp, EndLoopReturns, EndDestroys, EndReceives,
           EndBegins, EndRejects, EndSends, EndCallback DEF JsThread

LEMMA EndPhpSends ==
  ASSUME IInv, EndInv, Onward, NEW m \in PhpCall \cup {Cleanup}, status[m] = "new",
         PushToJs(m, "requested"), phpStack' = Append(phpStack, Frame("process", m)),
         m = Cleanup => phpStack = <<>>,
         UNCHANGED <<phpQueue, jsShut, phpShut, jsVars, valid, ends>>
  PROVE  EndInv'
<1>1. /\ TypeOK /\ JsQueued /\ m \in Call /\ m # None /\ ForJs(m) = "requested"
      /\ phpStack \in Seq(PhpFrames) /\ PhpCall \cup {Cleanup} \subseteq Call
      /\ status \in [Call -> Status] /\ Cleanup \notin PhpCall
  BY StatusValues DEF IInv, TypeOK, PhpFrames
<1>2. PICK t \in {"requested", "refused"} : status' = [status EXCEPT ![m] = t]
  BY <1>1, PushJs
<1>3. jsShut <=> t = "refused"
  BY <1>1, <1>2 DEF PushToJs
<1>4. status'[m] = t /\ \A c \in Call \ {m} : status'[c] = status[c]
  BY <1>1, <1>2
<1>5. PICK e \in PhpFrames : e = Frame("process", m) /\ e.fn = "process" /\ e.msg = m
  BY <1>1 DEF Frame, PhpFrames
<1>6. jsStack' = jsStack /\ outcome' = outcome
  BY DEF jsVars
<1>7. JsWaits'
  BY <1>2, <1>6, OtherWay, JsWaitsSame DEF EndInv
<1>8. PhpWaits'
  <2>1. ASSUME NEW c \in PhpCall \cup {Cleanup}
        PROVE  Count(phpStack', PhpLoops(c)) = Alive(status'[c])
    <3>1. Count(phpStack', PhpLoops(c)) = Count(phpStack, PhpLoops(c)) + Is(m, c)
      BY <1>1, <1>5, PhpLoopsPush
    <3>2. Count(phpStack, PhpLoops(c)) = Alive(status[c])
      BY DEF EndInv, PhpWaits
    <3>3. CASE c = m
      BY <1>4, <3>1, <3>2, <3>3 DEF Is, Alive
    <3>4. CASE c # m
      BY <1>1, <1>4, <3>1, <3>2, <3>4 DEF Is, Alive
    <3> QED BY <3>3, <3>4
  <2> QED BY <2>1 DEF PhpWaits
<1>9. Settled'
  BY <1>1, <1>4, SettledKept DEF EndInv
<1>10. Phases'
  <2>1. CASE m # Cleanup
    <3>1. (Under(None)' <=> Under(None)) /\ (Under(Cleanup) => Under(Cleanup)')
      BY <1>1, <1>5, UnderPush
    <3>2. status'[Cleanup] = status[Cleanup]
      BY <1>1, <1>4, <2>1
    <3> QED BY <3>1, <3>2, PhasesKept DEF EndInv
  <2>2. CASE m = Cleanup
    <3>1. phpStack' # <<>> /\ phpStack'[1] = e
      BY <1>5, <2>2
    <3>2. Under(Cleanup)' /\ ~Under(None)'
      BY <1>1, <1>5, <2>2, <3>1 DEF Under
    <3>3. status'[Cleanup] = "requested" /\ ~jsShut /\ valid /\ ~phpShut
      BY <1>3, <1>4, <2>2 DEF EndInv, Phases
    <3> QED BY <3>2, <3>3 DEF Phases
  <2> QED BY <2>1, <2>2
<1>11. Drained'
  <2>1. jsShut => \A c \in PhpCall : status'[c] # "requested"
    BY <1>1, <1>3, <1>4 DEF EndInv, Drained
  <2>2. destroyed' => phpDone /\ jsStack' = <<>>
    BY <1>6 DEF EndInv, Drained, ends
  <2> QED BY <2>1, <2>2, DrainedKept DEF EndInv, ends
<1> QED BY <1>7, <1>8, <1>9, <1>10, <1>11 DEF EndInv

LEMMA EndPhpReceives ==
  ASSUME IInv, EndInv, Onward, NEW m \in PhpCall \cup {Cleanup}, PhpTakesResponse(m)
  PROVE  EndInv'
<1>1. /\ m \in Call /\ ForPhp(m) = "answered" /\ PhpCall \cup {Cleanup} \subseteq Call
      /\ status \in [Call -> Status]
  BY StatusValues DEF IInv, TypeOK
<1>2. /\ PhpTakes(m) /\ phpQueue # <<>> /\ status' = [status EXCEPT ![m] = "processed"]
      /\ jsStack' = jsStack /\ UNCHANGED <<jsShut, phpShut, phpStack, valid, ends>>
  BY DEF PhpTakesResponse, PhpTakes, jsVars
<1>3. status[m] = "answered"
  BY <1>1, <1>2, TakePhp DEF IInv
<1>4. status'[m] = "processed" /\ \A c \in Call \ {m} : status'[c] = status[c]
  BY <1>1, <1>2
<1>5. JsWaits'
  BY <1>2, OtherWay, JsWaitsSame DEF EndInv
<1>6. PhpWaits'
  <2>1. \A c \in PhpCall \cup {Cleanup} : Alive(status'[c]) = Alive(status[c])
    BY <1>1, <1>3, <1>4 DEF Alive
  <2> QED BY <1>2, <2>1 DEF EndInv, PhpWaits
<1>7. Settled'
  BY <1>1, <1>4, SettledKept DEF EndInv
<1>8. Phases'
  <2>1. \/ status'[Cleanup] = status[Cleanup]
        \/ status[Cleanup] = "answered" /\ status'[Cleanup] = "processed"
    BY <1>1, <1>3, <1>4
  <2> QED BY <1>2, <2>1 DEF EndInv, Phases, Under
<1>9. Drained'
  <2>1. ~jsShut
    BY <1>2 DEF EndInv, Drained
  <2> QED BY <1>2, <2>1, DrainedKept DEF EndInv, ends, Drained
<1> QED BY <1>5, <1>6, <1>7, <1>8, <1>9 DEF EndInv

\* A call of JavaScript that the thread of PHP moves.
LEMMA EndServes ==
  ASSUME IInv, EndInv, Onward, NEW r \in JsCall, status[r] \in {"requested", "running"},
         NEW t \in {"running", "answered", "refused"}, status' = [status EXCEPT ![r] = t],
         jsStack' = jsStack, UNCHANGED <<jsShut, phpShut, valid, ends>>,
         jsShut => phpQueue' = phpQueue,
         Under(None)' <=> Under(None), Under(Cleanup) => Under(Cleanup)',
         \A c \in PhpCall \cup {Cleanup} : Count(phpStack', PhpLoops(c)) = Count(phpStack, PhpLoops(c))
  PROVE  EndInv'
<1>1. t \in Status
  BY DEF Status
<1>2. /\ \A m \in PhpCall \cup {Cleanup} : status'[m] = status[m]
      /\ status'[r] = t /\ \A q \in JsCall \ {r} : status'[q] = status[q]
  BY <1>1, Others
<1>3. JsWaits'
  <2>1. \A q \in JsCall : Alive(status'[q]) = Alive(status[q])
    BY <1>2 DEF Alive
  <2> QED BY <2>1, JsWaitsSame DEF EndInv
<1>4. PhpWaits'
  BY <1>2 DEF EndInv, PhpWaits
<1>5. Settled'
  BY <1>2, SettledKept DEF EndInv
<1>6. Phases'
  BY <1>2, PhasesKept DEF EndInv
<1>7. Drained'
  <2>1. jsShut => \A m \in PhpCall : status'[m] # "requested"
    BY <1>2 DEF EndInv, Drained
  <2>2. destroyed' => phpDone /\ jsStack' = <<>>
    BY DEF EndInv, Drained, ends
  <2> QED BY <2>1, <2>2, DrainedKept DEF EndInv, ends
<1> QED BY <1>3, <1>4, <1>5, <1>6, <1>7 DEF EndInv

LEMMA EndPhpBegins ==
  ASSUME IInv, EndInv, Onward, NEW r \in JsCall, PhpTakesRequest(r)
  PROVE  EndInv'
<1>1. phpStack \in Seq(PhpFrames) /\ r \in Call /\ ForPhp(r) = "requested" /\ r # None
  BY StatusValues DEF IInv, TypeOK, PhpFrames
<1>2. /\ PhpTakes(r) /\ phpQueue # <<>> /\ status' = [status EXCEPT ![r] = "running"]
      /\ phpStack' = Append(phpStack, Frame("inPhp", r))
      /\ jsStack' = jsStack /\ UNCHANGED <<jsShut, phpShut, valid, ends>>
  BY DEF PhpTakesRequest, PhpTakes, jsVars
<1>3. status[r] = "requested"
  BY <1>1, <1>2, TakePhp DEF IInv
<1>4. PICK e \in PhpFrames : e = Frame("inPhp", r) /\ e.fn = "inPhp" /\ e.msg = r
  <2>1. Frame("inPhp", r) \in PhpFrames
    BY <1>1 DEF Frame, PhpFrames
  <2> QED BY <2>1 DEF Frame
<1>5. ASSUME NEW c \in PhpCall \cup {Cleanup}
      PROVE  Count(phpStack', PhpLoops(c)) = Count(phpStack, PhpLoops(c))
  <2>1. Count(phpStack', PhpLoops(c)) = Count(phpStack, PhpLoops(c)) + 0
    BY <1>1, <1>2, <1>4, PhpLoopsPush
  <2>2. Count(phpStack, PhpLoops(c)) \in Nat
    BY <1>1, CountType
  <2> QED BY <2>1, <2>2
<1>6. (Under(None)' <=> Under(None)) /\ (Under(Cleanup) => Under(Cleanup)')
  BY <1>1, <1>2, <1>4, UnderPush
<1>7. ~jsShut
  BY <1>2 DEF EndInv, Drained
<1> QED BY <1>2, <1>3, <1>5, <1>6, <1>7, EndServes

LEMMA EndPhpRejects ==
  ASSUME IInv, EndInv, Onward, NEW r \in JsCall, PhpRejectsRequest(r)
  PROVE  EndInv'
<1>1. /\ r \in Call /\ ForPhp(r) = "requested" /\ ForJs(r) = "answered"
  BY StatusValues
<1>2. /\ PhpTakes(r) /\ phpQueue # <<>> /\ PushToJs(r, "answered") /\ phpStack' = phpStack
      /\ jsStack' = jsStack /\ UNCHANGED <<jsShut, phpShut, valid, ends>>
  BY DEF PhpRejectsRequest, PhpTakes, jsVars
<1>3. status[r] = "requested"
  BY <1>1, <1>2, TakePhp DEF IInv
<1>4. PICK t \in {"answered", "refused"} : status' = [status EXCEPT ![r] = t]
  BY <1>2 DEF PushToJs
<1>5. ~jsShut
  BY <1>2 DEF EndInv, Drained
<1>6. \A c : Count(phpStack', PhpLoops(c)) = Count(phpStack, PhpLoops(c))
  BY <1>2
<1>7. (Under(None)' <=> Under(None)) /\ (Under(Cleanup) => Under(Cleanup)')
  BY <1>2 DEF Under
<1> QED BY <1>2, <1>3, <1>4, <1>5, <1>6, <1>7, EndServes

LEMMA EndPhpAnswers ==
  ASSUME IInv, EndInv, Onward, NEW r \in JsCall, InPhpReturns(r)
  PROVE  EndInv'
<1>1. /\ phpStack \in Seq(PhpFrames) /\ r \in Call /\ r \notin {Cleanup, None}
  BY StatusValues DEF IInv, TypeOK, PhpFrames
<1>2. /\ phpStack # <<>> /\ Top(phpStack).fn = "inPhp" /\ Top(phpStack).msg = r
      /\ phpStack' = Pop(phpStack) /\ PushToJs(r, "answered") /\ phpQueue' = phpQueue
      /\ jsStack' = jsStack /\ UNCHANGED <<jsShut, phpShut, valid, ends>>
  BY DEF InPhpReturns, In, jsVars
<1>3. status[r] = "running"
  <2>1. /\ Count(Pop(phpStack), InPhpOf(r)) = Count(phpStack, InPhpOf(r)) - Is(r, r)
        /\ Count(Pop(phpStack), InPhpOf(r)) \in Nat
    BY <1>1, <1>2, PhpFrameLess
  <2>2. Count(phpStack, InPhpOf(r)) = Is(status[r], "running")
    BY DEF IInv, PhpRuns
  <2> QED BY <2>1, <2>2 DEF Is
<1>4. PICK t \in {"answered", "refused"} : status' = [status EXCEPT ![r] = t]
  BY <1>2 DEF PushToJs
<1>5. ASSUME NEW c \in PhpCall \cup {Cleanup}
      PROVE  Count(phpStack', PhpLoops(c)) = Count(phpStack, PhpLoops(c))
  <2>1. Count(phpStack', PhpLoops(c)) = Count(phpStack, PhpLoops(c)) - 0
    BY <1>1, <1>2, PhpLoopsPop
  <2>2. Count(phpStack, PhpLoops(c)) \in Nat
    BY <1>1, CountType
  <2> QED BY <2>1, <2>2
<1>6. (Under(None)' <=> Under(None)) /\ (Under(Cleanup) => Under(Cleanup)')
  BY <1>1, <1>2, UnderPop
<1> QED BY <1>2, <1>3, <1>4, <1>5, <1>6, EndServes

\* The loop of Execute is alone on its stack.
LEMMA BottomAlone ==
  ASSUME IInv, phpStack # <<>>, Top(phpStack).msg \in {Cleanup, None}
  PROVE  Len(phpStack) = 1 /\ Top(phpStack) = phpStack[1] /\ Pop(phpStack) = <<>>
<1>1. phpStack \in Seq(PhpFrames) /\ PhpRuns
  BY DEF IInv, TypeOK, PhpFrames
<1>2. Len(phpStack) \in Nat \ {0} /\ Len(Pop(phpStack)) = Len(phpStack) - 1
      /\ Pop(phpStack) \in Seq(PhpFrames)
  BY <1>1, PopTop
<1>3. Len(phpStack) = 1
  <2>1. phpStack[Len(phpStack)].msg \in {Cleanup, None}
    BY DEF Top
  <2> QED BY <1>1, <1>2, <2>1 DEF PhpRuns
<1>4. Pop(phpStack) = <<>>
  BY <1>2, <1>3, EmptySeq
<1> QED BY <1>3, <1>4 DEF Top

LEMMA EndPhpReturns ==
  ASSUME IInv, EndInv, Onward, NEW m \in PhpCall \cup {Cleanup}, SendToJsReturns(m)
  PROVE  EndInv'
<1>1. /\ phpStack \in Seq(PhpFrames) /\ m \in Call /\ m # None /\ None \notin PhpCall \cup {Cleanup}
      /\ PhpCall \cup {Cleanup} \subseteq Call /\ Cleanup \notin PhpCall
      /\ status \in [Call -> Status]
  BY StatusValues DEF IInv, TypeOK, PhpFrames
<1>2. /\ phpStack # <<>> /\ Top(phpStack).fn = "process" /\ Top(phpStack).msg = m
      /\ status[m] = "processed" /\ status' = [status EXCEPT ![m] = "returned"]
      /\ phpStack' = IF m = Cleanup THEN <<Frame("process", None)>> ELSE Pop(phpStack)
      /\ jsStack' = jsStack /\ UNCHANGED <<queues, valid, ends>>
  BY <1>1 DEF SendToJsReturns, Finished, In, jsVars
<1>3. status'[m] = "returned" /\ \A c \in Call \ {m} : status'[c] = status[c]
  BY <1>1, <1>2
<1>4. JsWaits'
  BY <1>2, OtherWay, JsWaitsSame DEF EndInv
<1>5. ASSUME NEW c \in PhpCall \cup {Cleanup}
      PROVE  Count(Pop(phpStack), PhpLoops(c)) = Alive(status'[c])
  <2>1. Count(Pop(phpStack), PhpLoops(c)) = Count(phpStack, PhpLoops(c)) - Is(m, c)
    BY <1>1, <1>2, PhpLoopsPop
  <2>2. Count(phpStack, PhpLoops(c)) = Alive(status[c])
    BY DEF EndInv, PhpWaits
  <2>3. CASE c = m
    BY <1>2, <1>3, <2>1, <2>2, <2>3 DEF Is, Alive
  <2>4. CASE c # m
    BY <1>1, <1>3, <2>1, <2>2, <2>4 DEF Is, Alive
  <2> QED BY <2>3, <2>4
<1>6. PhpWaits' /\ Phases'
  <2>1. CASE m # Cleanup
    <3>1. phpStack' = Pop(phpStack)
      BY <1>2, <2>1
    <3>2. (Under(None)' <=> Under(None)) /\ (Under(Cleanup) => Under(Cleanup)')
      BY <1>1, <1>2, <2>1, <3>1, UnderPop
    <3>3. status'[Cleanup] = status[Cleanup]
      BY <1>1, <1>3, <2>1
    <3>4. Phases'
      BY <1>2, <3>2, <3>3, PhasesKept DEF EndInv, queues
    <3> QED BY <1>5, <3>1, <3>4 DEF PhpWaits
  <2>2. CASE m = Cleanup
    <3>1. PICK e \in PhpFrames : e = Frame("process", None) /\ e.fn = "process" /\ e.msg = None
      <4>1. Frame("process", None) \in PhpFrames
        BY DEF Frame, PhpFrames
      <4> QED BY <4>1 DEF Frame
    <3>2. phpStack' = <<e>> /\ Pop(phpStack) = <<>>
      BY <1>2, <2>2, <3>1, BottomAlone
    <3>3. PhpWaits'
      <4>1. ASSUME NEW c \in PhpCall \cup {Cleanup}
            PROVE  Count(<<e>>, PhpLoops(c)) = 0
        <5>1. e \notin PhpLoops(c)
          BY <1>1, <3>1 DEF PhpLoops
        <5> QED BY <5>1, CountOne
      <4>2. \A c \in PhpCall \cup {Cleanup} : Alive(status'[c]) = 0
        BY <1>5, <3>2, CountEmpty
      <4> QED BY <3>2, <4>1, <4>2 DEF PhpWaits
    <3>4. Under(None)' /\ ~Under(Cleanup)'
      BY <1>1, <3>1, <3>2 DEF Under
    <3>5. ~jsShut /\ phpShut /\ ~valid
      BY <1>2, <2>2 DEF EndInv, Phases
    <3>6. Phases'
      BY <1>2, <1>3, <2>2, <3>4, <3>5 DEF Phases, queues
    <3> QED BY <3>3, <3>6
  <2> QED BY <2>1, <2>2
<1>7. Settled'
  BY <1>1, <1>3, SettledKept DEF EndInv
<1>8. Drained'
  <2>1. jsShut => \A c \in PhpCall : status'[c] # "requested"
    BY <1>1, <1>3 DEF EndInv, Drained
  <2> QED BY <1>2, <2>1, DrainedKept DEF EndInv, ends, queues, Drained
<1> QED BY <1>4, <1>6, <1>7, <1>8 DEF EndInv

LEMMA EndShutsDown ==
  ASSUME IInv, EndInv, Onward, ShutdownJsQueue
  PROVE  EndInv'
<1>1. /\ phpStack \in Seq(PhpFrames) /\ status \in [Call -> Status] /\ None \notin PhpCall \cup {Cleanup}
      /\ PhpCall \subseteq Call
  BY StatusValues DEF IInv, TypeOK, PhpFrames
<1>2. /\ phpStack # <<>> /\ Top(phpStack).fn = "process" /\ Top(phpStack).msg = None
      /\ phpQueue = <<>> /\ phpStack' = <<>> /\ jsShut' = TRUE
      /\ jsStack' = jsStack /\ UNCHANGED <<phpQueue, phpShut, outcome, valid, status, ends>>
  BY DEF ShutdownJsQueue, Finished, In, jsVars
<1>3. Under(None) /\ Pop(phpStack) = <<>>
  BY <1>2, BottomAlone DEF Under
<1>4. status[Cleanup] = "returned"
  BY <1>3 DEF EndInv, Phases
<1>5. ASSUME NEW c \in PhpCall \cup {Cleanup}
      PROVE  Alive(status[c]) = 0
  <2>1. Count(Pop(phpStack), PhpLoops(c)) = Count(phpStack, PhpLoops(c)) - 0
    BY <1>1, <1>2, PhpLoopsPop DEF Is
  <2>2. Count(phpStack, PhpLoops(c)) = Alive(status[c]) /\ Count(phpStack, PhpLoops(c)) \in Nat
    BY <1>1, CountType DEF EndInv, PhpWaits
  <2>3. Count(Pop(phpStack), PhpLoops(c)) = 0
    BY <1>3, CountEmpty
  <2> QED BY <2>1, <2>2, <2>3
<1>6. JsWaits' /\ Settled'
  BY <1>2, JsWaitsSame DEF EndInv, Settled
<1>7. PhpWaits'
  BY <1>2, <1>5, CountEmpty DEF PhpWaits
<1>8. Phases'
  BY <1>2, <1>4 DEF EndInv, Phases, Under
<1>9. Drained'
  <2>1. \A m \in PhpCall : status[m] \in {"new", "returned"}
    BY <1>5 DEF Alive
  <2> QED BY <1>2, <2>1 DEF EndInv, Drained, ends
<1> QED BY <1>6, <1>7, <1>8, <1>9 DEF EndInv

LEMMA EndExecutes ==
  ASSUME IInv, EndInv, Onward, ExecuteReturns
  PROVE  EndInv'
BY DEF ExecuteReturns, Clearing, EndInv, JsWaits, PhpWaits, Settled, Phases, Drained, Under,
       queues, jsVars

LEMMA EndPhp ==
  ASSUME IInv, EndInv, Onward, PhpThread \/ \E m \in PhpCall : SendToJs(m)
  PROVE  EndInv'
<1>1. ASSUME NEW m \in PhpCall, SendToJs(m)
      PROVE  EndInv'
  BY <1>1, EndPhpSends, StatusValues DEF SendToJs
<1>2. CASE SendCleanup
  <2>1. phpStack' = Append(phpStack, Frame("process", Cleanup))
    BY <1>2 DEF SendCleanup, ScriptRuns
  <2> QED BY <1>2, <2>1, EndPhpSends DEF SendCleanup, ScriptRuns
<1> QED BY <1>1, <1>2, EndPhpReceives, EndPhpBegins, EndPhpRejects, EndPhpAnswers, EndPhpReturns,
           EndShutsDown, EndExecutes DEF PhpThread

LEMMA EndInit == Init => EndInv
<1> SUFFICES ASSUME Init PROVE EndInv
  OBVIOUS
<1>1. /\ phpQueue = <<>> /\ jsShut = FALSE /\ phpShut = FALSE /\ valid = TRUE
      /\ jsStack = <<>> /\ phpStack = <<>> /\ status = [m \in Call |-> "new"]
      /\ phpDone = FALSE /\ destroyed = FALSE
  BY DEF Init
<1>2. \A c \in PhpCall \cup JsCall \cup {Cleanup} : status[c] = "new" /\ Alive(status[c]) = 0
  BY <1>1 DEF Alive, Call
<1>3. JsWaits /\ PhpWaits
  BY <1>1, <1>2, CountEmpty DEF JsWaits, PhpWaits
<1>4. Settled /\ Phases /\ Drained
  BY <1>1, <1>2 DEF Settled, Phases, Drained, Under
<1> QED BY <1>3, <1>4 DEF EndInv

LEMMA EndStep == IInv /\ EndInv /\ [Next]_vars => EndInv'
<1> SUFFICES ASSUME IInv, EndInv, [Next]_vars PROVE EndInv'
  OBVIOUS
<1>1. Onward
  BY IInvStep
<1>2. CASE UNCHANGED vars
  BY <1>2 DEF vars, queues, jsVars, ends, EndInv, JsWaits, PhpWaits, Settled, Phases, Drained, Under
<1>3. CASE Next
  BY <1>1, <1>3, EndNode, EndPhp DEF Next, UserCode
<1> QED BY <1>2, <1>3

LEMMA EndInductive == Spec => [](IInv /\ EndInv)
<1>1. Spec => []IInv
  BY Inductive
<1> QED BY <1>1, EndInit, EndStep, PTL DEF Spec

LEMMA EndDrains ==
  ASSUME IInv, EndInv
  PROVE  QueuesDrained
<1>1. /\ jsQueue \in Seq(Call) /\ jsStack \in Seq(JsFrames)
      /\ \A c \in Call : c \in PhpCall \/ c \in JsCall \/ c = Cleanup
  BY StatusValues DEF IInv, TypeOK, JsFrames
<1>2. ASSUME jsShut, NEW i \in 1 .. Len(jsQueue)
      PROVE  jsQueue[i] \in JsCall /\ OnStack(jsStack, "process", jsQueue[i])
  <2>1. PICK c \in Call : c = jsQueue[i]
    BY <1>1
  <2>2. status[c] = ForJs(c)
    <3>1. Count(jsQueue, {c}) # 0
      BY <1>1, <2>1, CountSome
    <3> QED BY <3>1 DEF IInv, JsQueued, Is
  <2>3. c \in JsCall
    <3>1. status[Cleanup] = "returned"
          /\ \A m \in PhpCall : status[m] \in {"new", "returned", "refused"}
      BY <1>2 DEF EndInv, Phases, Drained
    <3> QED BY <1>1, <2>2, <3>1, StatusValues
  <2>4. Count(jsStack, JsLoops(c)) # 0
    <3>1. status[c] = "answered"
      BY <2>2, <2>3, StatusValues
    <3> QED BY <2>3, <3>1 DEF EndInv, JsWaits, Alive
  <2>5. PICK j \in 1 .. Len(jsStack) : jsStack[j] \in JsLoops(c)
    BY <1>1, <2>4, CountSome
  <2>6. OnStack(jsStack, "process", c)
    BY <2>5 DEF JsLoops, OnStack
  <2> QED BY <2>1, <2>3, <2>6
<1>3. ASSUME jsShut
      PROVE  /\ phpShut /\ ~valid /\ phpQueue = <<>>
             /\ \A m \in PhpCall : callback[m] # "armed"
  <2>1. \A m \in PhpCall : status[m] # "running"
    BY <1>3 DEF EndInv, Drained
  <2> QED BY <1>3, <2>1 DEF EndInv, Phases, Drained, IInv, Pending
<1>4. ASSUME destroyed
      PROVE  jsQueue = <<>> /\ \A r \in JsCall : status[r] \in {"new", "returned"}
  <2>1. jsShut /\ jsStack = <<>>
    BY <1>4 DEF EndInv, Drained
  <2>2. ~\E i \in 1 .. Len(jsQueue) : TRUE
    BY <1>2, <2>1 DEF OnStack
  <2>3. jsQueue = <<>>
    <3>1. Len(jsQueue) = 0
      BY <1>1, <2>2
    <3> QED BY <1>1, <3>1, EmptySeq
  <2>4. \A r \in JsCall : Alive(status[r]) = 0
    BY <2>1, CountEmpty DEF EndInv, JsWaits
  <2> QED BY <2>3, <2>4 DEF Alive
<1> QED BY <1>2, <1>3, <1>4 DEF QueuesDrained

\* Once js_queue_ is shut down nothing is left in the queues but answers for
\* which JavaScript still waits, and no callback is awaited; when the worker is
\* deleted nothing is left at all.
THEOREM DrainedAtTheEnd == Spec => []QueuesDrained
<1>1. IInv /\ EndInv => QueuesDrained
  BY EndDrains
<1> QED BY <1>1, EndInductive, PTL

LEMMA OnlyCleanup ==
  ASSUME Next, valid, ~valid'
  PROVE  JsTakesCleanup
BY DEF Next, JsThread, PhpThread, UserCode, JsAsyncMessage, CleanupReturns, ProcessJsReturns, Destroy,
       JsTakesResponse, JsTakesRequest, JsRejectsRequest, InJsBailsOut, InJsReturns, InJsThrows,
       InJsDeadlocks, InJsLeavesToCallback, InJsEnds, SendCleanup, ShutdownJsQueue, ExecuteReturns,
       PhpTakesResponse, SendToJsReturns, PhpTakesRequest, PhpRejectsRequest, InPhpReturns,
       SendToPhp, SendToJs, CallbackFunction

LEMMA EndServices ==
  ASSUME IInv, EndInv, JsTakesCleanup, NEW m \in PhpCall
  PROVE  \/ status[m] = "new" \/ outcome[m] # "none"
         \/ \E i \in 2 .. Len(phpStack) : phpStack[i].msg = m
<1>1. /\ phpStack \in Seq(PhpFrames) /\ status \in [Call -> Status] /\ m \in Call /\ m # Cleanup
      /\ Cleanup \in Call /\ ForJs(Cleanup) = "requested"
  BY StatusValues DEF IInv, TypeOK, PhpFrames
<1>2. status[Cleanup] = "requested"
  BY <1>1, TakeJs DEF JsTakesCleanup, IInv
<1>3. Under(Cleanup)
  BY <1>2 DEF EndInv, Phases
<1>4. CASE status[m] = "new"
  BY <1>4
<1>5. CASE status[m] = "returned"
  BY <1>5 DEF EndInv, Settled
<1>6. CASE status[m] \notin {"new", "returned"}
  <2>1. Count(phpStack, PhpLoops(m)) # 0
    BY <1>6 DEF EndInv, PhpWaits, Alive
  <2>2. PICK i \in 1 .. Len(phpStack) : phpStack[i] \in PhpLoops(m)
    BY <1>1, <2>1, CountSome
  <2>3. phpStack[i].msg = m /\ i # 1
    BY <1>1, <1>3, <2>2 DEF PhpLoops, Under
  <2>4. i \in 2 .. Len(phpStack)
    BY <1>1, <2>3
  <2> QED BY <2>3, <2>4
<1> QED BY <1>4, <1>5, <1>6

\* When the ids are cleared every call that PHP made is answered, but for those
\* of PHP code that JavaScript called after the script was over.
THEOREM ServicedBeforeCleanup == Spec => ServicedAtCleanup
<1> DEFINE Serviced ==
      valid /\ ~valid' =>
        \A m \in PhpCall : \/ status[m] = "new" \/ outcome[m] # "none"
                           \/ \E i \in 2 .. Len(phpStack) : phpStack[i].msg = m
<1>1. IInv /\ EndInv /\ [Next]_vars => [Serviced]_vars
  <2>1. ASSUME IInv, EndInv, Next PROVE Serviced
    BY <2>1, OnlyCleanup, EndServices
  <2> HIDE DEF Serviced
  <2> QED BY <2>1
<1>2. Spec => [][Serviced]_vars
  BY <1>1, EndInductive, PTL DEF Spec
<1> QED BY <1>2 DEF ServicedAtCleanup

-----------------------------------------------------------------------------
(***************************************************************************)
(* Neither thread waits for the other in vain.  Two loops that wait for    *)
(* each other would be crossed: the request that one waits for runs below  *)
(* the other loop, on both threads.  The stacks nest, unless InJs of a     *)
(* call has left it to a callback; it does so only where nothing waits.    *)
(***************************************************************************)

\* A call whose request part runs in JavaScript has a frame there or a callback;
\* a frame is to bail out once the call was answered.
Held ==
  \A m \in PhpCall :
    /\ status[m] = "running" => callback[m] = "armed" \/ OnStack(jsStack, "inJs", m)
    /\ m \in flagged => status[m] \notin {"new", "requested", "running"}

\* JavaScript waits for r in a loop with no InJs of m above it.
JsLater(s, m, r) ==
  \E i \in 1 .. Len(s) : /\ s[i].fn = "process" /\ s[i].msg = r
                         /\ \A k \in i .. Len(s) : ~(s[k].fn = "inJs" /\ s[k].msg = m)

\* PHP runs r, if it does, above the loop that waits for m.
PhpLater(s, m, r) ==
  \A q \in 1 .. Len(s) : s[q].fn = "inPhp" /\ s[q].msg = r =>
    \E p \in 1 .. q : s[p].fn = "process" /\ s[p].msg = m

\* While m runs, a call of JavaScript that came later on one thread came later
\* on the other.
Nested ==
  \A m \in PhpCall, r \in JsCall :
    status[m] = "running" /\ JsLater(jsStack, m, r) => PhpLater(phpStack, m, r)

\* The loops of PHP wait for its own calls, and are over when Execute is.
PhpFrameTypes ==
  /\ \A i \in 1 .. Len(phpStack) : phpStack[i].fn = "process" => phpStack[i].msg \notin JsCall
  /\ phpDone => phpStack = <<>>

Uncrossed == Held /\ Nested /\ PhpFrameTypes

LEMMA OnPush ==
  ASSUME NEW S, NEW s \in Seq(S), NEW e \in S, NEW f, NEW m
  PROVE  OnStack(Append(s, e), f, m) <=> OnStack(s, f, m) \/ (e.fn = f /\ e.msg = m)
<1>1. /\ Len(s) \in Nat /\ Len(Append(s, e)) = Len(s) + 1 /\ Append(s, e)[Len(s) + 1] = e
      /\ \A i \in 1 .. Len(s) : Append(s, e)[i] = s[i]
  BY AppendProperties
<1>2. \A i : i \in 1 .. Len(s) + 1 <=> i \in 1 .. Len(s) \/ i = Len(s) + 1
  BY <1>1
<1> QED BY <1>1, <1>2 DEF OnStack

LEMMA OnPop ==
  ASSUME NEW S, NEW s \in Seq(S), s # <<>>, NEW f, NEW m
  PROVE  OnStack(s, f, m) <=> OnStack(Pop(s), f, m) \/ (Top(s).fn = f /\ Top(s).msg = m)
<1>1. PICK t \in Seq(S), e \in S : t = Pop(s) /\ e = Top(s) /\ s = Append(t, e)
  BY PopTop
<1> QED BY <1>1, OnPush

LEMMA JsLaterPush ==
  ASSUME NEW S, NEW s \in Seq(S), NEW e \in S, NEW m, NEW r, JsLater(Append(s, e), m, r)
  PROVE  /\ ~(e.fn = "inJs" /\ e.msg = m)
         /\ JsLater(s, m, r) \/ (e.fn = "process" /\ e.msg = r)
<1>1. /\ Len(s) \in Nat /\ Len(Append(s, e)) = Len(s) + 1 /\ Append(s, e)[Len(s) + 1] = e
      /\ \A i \in 1 .. Len(s) : Append(s, e)[i] = s[i]
  BY AppendProperties
<1>2. PICK i \in 1 .. Len(s) + 1 :
        /\ Append(s, e)[i].fn = "process" /\ Append(s, e)[i].msg = r
        /\ \A k \in i .. Len(s) + 1 : ~(Append(s, e)[k].fn = "inJs" /\ Append(s, e)[k].msg = m)
  BY <1>1 DEF JsLater
<1>3. ~(e.fn = "inJs" /\ e.msg = m)
  <2>1. Len(s) + 1 \in i .. Len(s) + 1
    BY <1>1, <1>2
  <2> QED BY <1>1, <1>2, <2>1
<1>4. CASE i = Len(s) + 1
  BY <1>1, <1>2, <1>3, <1>4
<1>5. CASE i \in 1 .. Len(s)
  <2>1. s[i].fn = "process" /\ s[i].msg = r
    BY <1>1, <1>2, <1>5
  <2>2. \A k \in i .. Len(s) : k \in 1 .. Len(s) /\ k \in i .. Len(s) + 1
    BY <1>1, <1>5
  <2>3. \A k \in i .. Len(s) : ~(s[k].fn = "inJs" /\ s[k].msg = m)
    BY <1>1, <1>2, <2>2
  <2> QED BY <1>3, <1>5, <2>1, <2>3 DEF JsLater
<1> QED BY <1>1, <1>2, <1>4, <1>5

LEMMA JsLaterPop ==
  ASSUME NEW S, NEW s \in Seq(S), s # <<>>, NEW m, NEW r, JsLater(Pop(s), m, r)
  PROVE  \/ JsLater(s, m, r)
         \/ /\ Top(s).fn = "inJs" /\ Top(s).msg = m
            /\ \E i \in 1 .. Len(s) : s[i].fn = "process" /\ s[i].msg = r
<1>1. /\ Len(s) \in Nat \ {0} /\ Len(Pop(s)) = Len(s) - 1 /\ Top(s) = s[Len(s)]
      /\ \A i \in 1 .. Len(Pop(s)) : Pop(s)[i] = s[i]
  BY PopTop DEF Top
<1>2. PICK i \in 1 .. Len(Pop(s)) :
        /\ Pop(s)[i].fn = "process" /\ Pop(s)[i].msg = r
        /\ \A k \in i .. Len(Pop(s)) : ~(Pop(s)[k].fn = "inJs" /\ Pop(s)[k].msg = m)
  BY DEF JsLater
<1>3. i \in 1 .. Len(s) /\ s[i].fn = "process" /\ s[i].msg = r
  BY <1>1, <1>2
<1>4. CASE ~(Top(s).fn = "inJs" /\ Top(s).msg = m)
  <2>1. ASSUME NEW k \in i .. Len(s)
        PROVE  ~(s[k].fn = "inJs" /\ s[k].msg = m)
    <3>1. CASE k = Len(s)
      BY <1>1, <1>4, <3>1
    <3>2. CASE k # Len(s)
      <4>1. k \in i .. Len(Pop(s)) /\ k \in 1 .. Len(Pop(s))
        <5>1. PICK a \in Nat, b \in Nat, j \in Nat :
                a = Len(s) /\ b = Len(Pop(s)) /\ j = i /\ b = a - 1 /\ j > 0
          BY <1>1
        <5>2. k \in j .. a /\ k # a
          BY <3>2, <5>1
        <5>3. k \in j .. b /\ k \in 1 .. b
          BY <5>1, <5>2
        <5> QED BY <5>1, <5>3
      <4>2. Pop(s)[k] = s[k]
        BY <1>1, <4>1
      <4>3. ~(Pop(s)[k].fn = "inJs" /\ Pop(s)[k].msg = m)
        BY <1>2, <4>1
      <4> QED BY <4>2, <4>3
    <3> QED BY <3>1, <3>2
  <2> QED BY <1>3, <2>1 DEF JsLater
<1> QED BY <1>3, <1>4

LEMMA PhpLaterPush ==
  ASSUME NEW S, NEW s \in Seq(S), NEW e \in S, NEW m, NEW r, PhpLater(s, m, r),
         e.fn = "inPhp" /\ e.msg = r => OnStack(s, "process", m)
  PROVE  PhpLater(Append(s, e), m, r)
<1>1. /\ Len(s) \in Nat /\ Len(Append(s, e)) = Len(s) + 1 /\ Append(s, e)[Len(s) + 1] = e
      /\ \A i \in 1 .. Len(s) : Append(s, e)[i] = s[i]
  BY AppendProperties
<1>2. ASSUME NEW q \in 1 .. Len(s) + 1, Append(s, e)[q].fn = "inPhp", Append(s, e)[q].msg = r
      PROVE  \E p \in 1 .. q : Append(s, e)[p].fn = "process" /\ Append(s, e)[p].msg = m
  <2>1. CASE q = Len(s) + 1
    <3>1. PICK p \in 1 .. Len(s) : s[p].fn = "process" /\ s[p].msg = m
      BY <1>1, <1>2, <2>1 DEF OnStack
    <3> QED BY <1>1, <2>1, <3>1
  <2>2. CASE q \in 1 .. Len(s)
    <3>1. PICK p \in 1 .. q : s[p].fn = "process" /\ s[p].msg = m
      BY <1>1, <1>2, <2>2 DEF PhpLater
    <3>2. p \in 1 .. Len(s)
      BY <1>1, <2>2
    <3> QED BY <1>1, <3>1, <3>2
  <2> QED BY <1>1, <2>1, <2>2
<1> QED BY <1>1, <1>2 DEF PhpLater

LEMMA PhpLaterPop ==
  ASSUME NEW S, NEW s \in Seq(S), s # <<>>, NEW m, NEW r, PhpLater(s, m, r)
  PROVE  PhpLater(Pop(s), m, r)
<1>1. /\ Len(s) \in Nat \ {0} /\ Len(Pop(s)) = Len(s) - 1
      /\ \A i \in 1 .. Len(Pop(s)) : Pop(s)[i] = s[i]
  BY PopTop
<1>2. ASSUME NEW q \in 1 .. Len(Pop(s)), Pop(s)[q].fn = "inPhp", Pop(s)[q].msg = r
      PROVE  \E p \in 1 .. q : Pop(s)[p].fn = "process" /\ Pop(s)[p].msg = m
  <2>1. q \in 1 .. Len(s) /\ s[q].fn = "inPhp" /\ s[q].msg = r
    BY <1>1, <1>2
  <2>2. PICK p \in 1 .. q : s[p].fn = "process" /\ s[p].msg = m
    BY <2>1 DEF PhpLater
  <2>3. p \in 1 .. Len(Pop(s))
    BY <1>1, <1>2
  <2> QED BY <1>1, <2>2, <2>3
<1> QED BY <1>2 DEF PhpLater

\* PHP does not run r at all.
LEMMA PhpLaterNone ==
  ASSUME NEW s \in Seq(PhpFrames), NEW r, NEW m, Count(s, InPhpOf(r)) = 0
  PROVE  PhpLater(s, m, r)
<1>1. ~\E i \in 1 .. Len(s) : s[i] \in InPhpOf(r)
  BY CountSome
<1>2. \A i \in 1 .. Len(s) : s[i] \in PhpFrames
  BY ElementOfSeq
<1> QED BY <1>1, <1>2 DEF InPhpOf, PhpLater

\* An answered call stays answered, so what Held says of flagged frames is kept
\* by any step that flags none.
LEMMA HeldKept ==
  ASSUME Held, Onward, flagged' \subseteq flagged,
         \A c \in PhpCall : status'[c] = "running" =>
           \/ OnStack(jsStack', "inJs", c)
           \/ callback'[c] = "armed"
           \/ status[c] = "running" /\ callback[c] # "armed" /\ ~OnStack(jsStack, "inJs", c)
  PROVE  Held'
<1>1. ASSUME NEW c \in PhpCall, c \in flagged'
      PROVE  status'[c] \notin {"new", "requested", "running"}
  <2>1. status[c] \notin {"new", "requested", "running"} /\ c \in Call
    BY <1>1, StatusValues DEF Held
  <2> QED BY <2>1 DEF Onward, Progress
<1> QED BY <1>1 DEF Held

\* A step of the node thread after which m is not the one that runs anew.
LEMMA NestedPop ==
  ASSUME IInv, Nested, jsStack # <<>>, jsStack' = Pop(jsStack), phpStack' = phpStack,
         \A m \in PhpCall : status'[m] = "running" =>
           /\ status[m] = "running"
           /\ Top(jsStack).fn = "inJs" /\ Top(jsStack).msg = m => ~Top(jsStack).sync
  PROVE  Nested'
<1>1. /\ jsStack \in Seq(JsFrames) /\ Len(jsStack) \in Nat \ {0}
      /\ NoAsyncIsExact /\ Top(jsStack) = jsStack[Len(jsStack)]
      /\ \A r \in JsCall : r # None
  BY PopTop, StatusValues DEF IInv, TypeOK, JsFrames, Synced, Top
<1>2. ASSUME NEW m \in PhpCall, NEW r \in JsCall, status'[m] = "running",
             JsLater(Pop(jsStack), m, r)
      PROVE  JsLater(jsStack, m, r)
  <2>1. CASE Top(jsStack).fn = "inJs" /\ Top(jsStack).msg = m
    <3>1. ~jsStack[Len(jsStack)].sync
      BY <1>1, <1>2, <2>1
    <3>2. ~\E i \in 1 .. Len(jsStack) : jsStack[i].fn = "process" /\ jsStack[i].msg # None
      BY <1>1, <3>1 DEF NoAsyncIsExact
    <3>3. ~\E i \in 1 .. Len(jsStack) : jsStack[i].fn = "process" /\ jsStack[i].msg = r
      BY <1>1, <3>2
    <3> QED BY <1>1, <1>2, <3>3, JsLaterPop
  <2>2. CASE ~(Top(jsStack).fn = "inJs" /\ Top(jsStack).msg = m)
    BY <1>1, <1>2, <2>2, JsLaterPop
  <2> QED BY <2>1, <2>2
<1> QED BY <1>2 DEF Nested

LEMMA NestedPush ==
  ASSUME IInv, Nested, NEW e \in JsFrames, jsStack' = Append(jsStack, e), phpStack' = phpStack,
         e.fn = "process" => e.msg = None \/ status[e.msg] # "running",
         \A m \in PhpCall : status'[m] = "running" =>
           status[m] = "running" \/ (e.fn = "inJs" /\ e.msg = m)
  PROVE  Nested'
<1>1. /\ jsStack \in Seq(JsFrames) /\ phpStack \in Seq(PhpFrames) /\ PhpRuns
      /\ \A r \in JsCall : r # None
  BY StatusValues DEF IInv, TypeOK, JsFrames, PhpFrames
<1>2. ASSUME NEW m \in PhpCall, NEW r \in JsCall, status'[m] = "running",
             JsLater(Append(jsStack, e), m, r)
      PROVE  PhpLater(phpStack, m, r)
  <2>1. /\ ~(e.fn = "inJs" /\ e.msg = m)
        /\ JsLater(jsStack, m, r) \/ (e.fn = "process" /\ e.msg = r)
    BY <1>1, <1>2, JsLaterPush
  <2>2. status[m] = "running"
    BY <1>2, <2>1
  <2>3. CASE JsLater(jsStack, m, r)
    BY <2>2, <2>3 DEF Nested
  <2>4. CASE e.fn = "process" /\ e.msg = r
    <3>1. Is(status[r], "running") = 0
      BY <1>1, <2>4 DEF Is
    <3>2. Count(phpStack, InPhpOf(r)) = 0
      BY <1>1, <3>1 DEF PhpRuns
    <3> QED BY <1>1, <3>2, PhpLaterNone
  <2> QED BY <2>1, <2>3, <2>4
<1> QED BY <1>2 DEF Nested

LEMMA NestedSame ==
  ASSUME Nested, jsStack' = jsStack, phpStack' = phpStack,
         \A m \in PhpCall : status'[m] = "running" => status[m] = "running"
  PROVE  Nested'
BY DEF Nested

\* A step of the node thread that leaves the frames of InJs, and the calls that
\* run, as they are.
LEMMA NodeSteps ==
  ASSUME Uncrossed, Onward, UNCHANGED <<callback, flagged, phpStack, phpDone>>, Nested',
         \A m \in PhpCall : status'[m] = "running" => status[m] = "running",
         \A m \in PhpCall : OnStack(jsStack', "inJs", m) <=> OnStack(jsStack, "inJs", m)
  PROVE  Uncrossed'
<1>1. Held'
  BY HeldKept DEF Uncrossed
<1> QED BY <1>1 DEF Uncrossed, PhpFrameTypes

\* Loops that are entered or left.
LEMMA LoopEnters ==
  ASSUME IInv, Uncrossed, Onward, NEW e \in JsFrames, e.fn # "inJs",
         jsStack' = Append(jsStack, e),
         e.fn = "process" => e.msg = None \/ status[e.msg] # "running",
         UNCHANGED <<callback, flagged, phpStack, phpDone>>,
         \A m \in PhpCall : status'[m] = "running" => status[m] = "running"
  PROVE  Uncrossed'
<1>1. jsStack \in Seq(JsFrames)
  BY DEF IInv, TypeOK, JsFrames
<1>2. \A m \in PhpCall : OnStack(jsStack', "inJs", m) <=> OnStack(jsStack, "inJs", m)
  BY <1>1, OnPush
<1>3. Nested'
  BY NestedPush DEF Uncrossed
<1> QED BY <1>2, <1>3, NodeSteps

LEMMA FrameLeaves ==
  ASSUME IInv, Uncrossed, Onward, jsStack # <<>>, Top(jsStack).fn # "inJs",
         jsStack' = Pop(jsStack), UNCHANGED <<callback, flagged, phpStack, phpDone>>,
         \A m \in PhpCall : status'[m] = "running" => status[m] = "running"
  PROVE  Uncrossed'
<1>1. jsStack \in Seq(JsFrames)
  BY DEF IInv, TypeOK, JsFrames
<1>2. \A m \in PhpCall : OnStack(jsStack', "inJs", m) <=> OnStack(jsStack, "inJs", m)
  BY <1>1, OnPop
<1>3. Nested'
  BY NestedPop DEF Uncrossed
<1> QED BY <1>2, <1>3, NodeSteps

LEMMA UncrossedTurns ==
  ASSUME IInv, Uncrossed, Onward, JsAsyncMessage
  PROVE  Uncrossed'
<1> DEFINE b == jsIsSync > 0
           e == [fn |-> "process", msg |-> None, sync |-> b]
<1>1. /\ jsStack = <<>> /\ jsStack' = <<e>>
      /\ UNCHANGED <<callback, flagged, phpStack, phpDone, status>>
  BY DEF JsAsyncMessage, JsFrame, ends
<1>2. e \in JsFrames /\ e.fn = "process" /\ e.msg = None
  <2>1. b \in BOOLEAN
    OBVIOUS
  <2> HIDE DEF b
  <2> QED BY <2>1 DEF JsFrames
<1> HIDE DEF e, b
<1>3. jsStack' = Append(jsStack, e)
  BY <1>1
<1> QED BY <1>1, <1>2, <1>3, LoopEnters

LEMMA UncrossedSends ==
  ASSUME IInv, Uncrossed, Onward, NEW r \in JsCall, SendToPhp(r)
  PROVE  Uncrossed'
<1>1. /\ r \in Call /\ PhpCall \subseteq Call /\ \A m \in PhpCall : m # r
      /\ status \in [Call -> Status]
  BY StatusValues DEF IInv, TypeOK
<1>2. /\ status[r] = "new" /\ PushToPhp(r, "requested")
      /\ UNCHANGED <<callback, flagged, phpStack, phpDone>>
  BY DEF SendToPhp, ends
<1>3. PICK e \in JsFrames : /\ e.fn = "process" /\ e.msg = r
                            /\ jsStack' = Append(jsStack, e)
  BY <1>1 DEF SendToPhp, JsFrame, JsFrames
<1>4. \A m \in PhpCall : status'[m] = status[m]
  BY <1>1, <1>2 DEF PushToPhp
<1> QED BY <1>2, <1>3, <1>4, LoopEnters

LEMMA UncrossedLoopReturns ==
  ASSUME IInv, Uncrossed, Onward, ProcessJsReturns
  PROVE  Uncrossed'
<1>1. /\ jsStack # <<>> /\ Top(jsStack).fn = "process" /\ jsStack' = Pop(jsStack)
      /\ UNCHANGED <<callback, flagged, phpStack, phpDone>>
  BY DEF ProcessJsReturns, In, ends
<1>2. ASSUME NEW m \in PhpCall, status'[m] = "running"
      PROVE  status[m] = "running"
  <2>1. m \in Call /\ status \in [Call -> Status]
    BY StatusValues DEF IInv, TypeOK
  <2> QED BY <1>2, <2>1 DEF ProcessJsReturns
<1> QED BY <1>1, <1>2, FrameLeaves

LEMMA UncrossedCleansUp ==
  ASSUME IInv, Uncrossed, Onward, JsTakesCleanup
  PROVE  Uncrossed'
<1>1. /\ TypeOK /\ JsQueued /\ Cleanup \in Call /\ jsStack \in Seq(JsFrames)
      /\ PhpCall \subseteq Call /\ Cleanup \notin PhpCall /\ None \notin Call
  BY StatusValues DEF IInv, TypeOK, JsFrames
<1> DEFINE c == JsFrame("cleanup", Cleanup, Top(jsStack).sync)
           p == JsFrame("process", None, jsIsSync > 0)
<1>2. /\ JsTakes(Cleanup) /\ status' = [status EXCEPT ![Cleanup] = "running"]
      /\ jsStack' = jsStack \o <<c, p>>
      /\ UNCHANGED <<callback, flagged, phpStack, phpDone>>
  BY DEF JsTakesCleanup, ends
<1>3. jsStack # <<>>
  BY <1>1, <1>2, TakeJs
<1>4. c \in JsFrames /\ c.fn = "cleanup"
  <2>1. PICK s \in BOOLEAN : s = Top(jsStack).sync
    BY <1>3, SyncTop
  <2>2. c = [fn |-> "cleanup", msg |-> Cleanup, sync |-> s]
    BY <2>1 DEF JsFrame
  <2> HIDE DEF c, p
  <2> QED BY <1>1, <2>2 DEF JsFrames
<1>5. p \in JsFrames /\ p.fn = "process" /\ p.msg = None
  <2> DEFINE b == jsIsSync > 0
  <2>1. b \in BOOLEAN
    OBVIOUS
  <2>2. p = [fn |-> "process", msg |-> None, sync |-> b]
    BY DEF JsFrame
  <2> HIDE DEF b, c, p
  <2> QED BY <2>1, <2>2 DEF JsFrames
<1> HIDE DEF c, p
<1>6. PICK s \in Seq(JsFrames) : s = Append(jsStack, c)
  BY <1>1, <1>4, AppendProperties
<1>7. jsStack' = Append(s, p)
  BY <1>1, <1>2, <1>4, <1>5, <1>6
<1>8. \A m \in PhpCall : status'[m] = status[m]
  BY <1>1, <1>2 DEF TypeOK
<1>9. \A m \in PhpCall : OnStack(jsStack', "inJs", m) <=> OnStack(jsStack, "inJs", m)
  <2>1. \A m : OnStack(s, "inJs", m) <=> OnStack(jsStack, "inJs", m)
    BY <1>1, <1>4, <1>6, OnPush
  <2>2. \A m : OnStack(jsStack', "inJs", m) <=> OnStack(s, "inJs", m)
    BY <1>5, <1>7, OnPush
  <2> QED BY <2>1, <2>2
<1>10. Nested'
  <2>1. ASSUME NEW m \in PhpCall, NEW r \in JsCall, JsLater(jsStack', m, r)
        PROVE  JsLater(jsStack, m, r)
    <3>1. r # None
      BY StatusValues
    <3>2. JsLater(s, m, r)
      BY <1>5, <1>7, <2>1, <3>1, JsLaterPush
    <3>3. JsLater(Append(jsStack, c), m, r)
      BY <1>6, <3>2
    <3> QED BY <1>1, <1>4, <3>3, JsLaterPush
  <2> QED BY <1>2, <1>8, <2>1 DEF Uncrossed, Nested
<1> QED BY <1>2, <1>8, <1>9, <1>10, NodeSteps

LEMMA UncrossedCleanedUp ==
  ASSUME IInv, Uncrossed, Onward, CleanupReturns
  PROVE  Uncrossed'
<1>1. /\ jsStack # <<>> /\ Top(jsStack).fn = "cleanup" /\ jsStack' = Pop(jsStack)
      /\ PushToPhp(Cleanup, "answered")
      /\ UNCHANGED <<callback, flagged, phpStack, phpDone>>
  BY DEF CleanupReturns, In, ends
<1>2. \A m \in PhpCall : status'[m] = status[m]
  BY <1>1, StatusValues DEF PushToPhp, IInv, TypeOK
<1> QED BY <1>1, <1>2, FrameLeaves

LEMMA UncrossedReceives ==
  ASSUME IInv, Uncrossed, Onward, (\E r \in JsCall : JsTakesResponse(r)) \/ Destroy
  PROVE  Uncrossed'
<1>1. /\ UNCHANGED <<callback, flagged, jsStack, phpStack, phpDone>>
      /\ \A m \in PhpCall : status'[m] = "running" => status[m] = "running"
  BY StatusValues DEF JsTakesResponse, Destroy, jsVars, ends, IInv, TypeOK
<1>2. Nested'
  BY <1>1, NestedSame DEF Uncrossed
<1> QED BY <1>1, <1>2, NodeSteps

LEMMA UncrossedBegins ==
  ASSUME IInv, Uncrossed, Onward, NEW m \in PhpCall, JsTakesRequest(m)
  PROVE  Uncrossed'
<1>1. /\ m \in Call /\ PhpCall \subseteq Call /\ jsStack \in Seq(JsFrames)
      /\ status \in [Call -> Status]
      /\ callback \in [PhpCall -> {"none", "armed", "handled"}]
  BY StatusValues DEF IInv, TypeOK, JsFrames
<1>2. /\ JsTakes(m) /\ status' = [status EXCEPT ![m] = "running"]
      /\ callback' = [callback EXCEPT ![m] = IF m \in Wait THEN "armed" ELSE @]
      /\ UNCHANGED <<flagged, phpStack, phpDone>>
  BY DEF JsTakesRequest, ends
<1>3. jsStack # <<>>
  BY <1>1, <1>2, TakeJs DEF IInv
<1>4. PICK e \in JsFrames : e.fn = "inJs" /\ e.msg = m /\ jsStack' = Append(jsStack, e)
  <2>1. PICK s \in BOOLEAN : s = Top(jsStack).sync
    BY <1>3, SyncTop
  <2>2. jsStack' = Append(jsStack, [fn |-> "inJs", msg |-> m, sync |-> s])
    BY <2>1 DEF JsTakesRequest, JsFrame
  <2> QED BY <1>1, <2>2 DEF JsFrames
<1>5. \A c \in PhpCall : OnStack(jsStack', "inJs", c) <=> OnStack(jsStack, "inJs", c) \/ c = m
  BY <1>1, <1>4, OnPush
<1>6. \A c \in PhpCall \ {m} : status'[c] = status[c] /\ callback'[c] = callback[c]
  BY <1>1, <1>2
<1>7. Held'
  BY <1>2, <1>5, <1>6, HeldKept DEF Uncrossed
<1>8. Nested'
  BY <1>2, <1>4, <1>6, NestedPush DEF Uncrossed
<1> QED BY <1>2, <1>7, <1>8 DEF Uncrossed, PhpFrameTypes

\* What an answer does to the call, and leaves to the others.
LEMMA AnsweredOne ==
  ASSUME IInv, NEW m \in PhpCall, NEW how, Answer(m, how)
  PROVE  /\ status'[m] \in {"answered", "refused"}
         /\ \A c \in PhpCall \ {m} : status'[c] = status[c] /\ callback'[c] = callback[c]
<1>1. /\ m \in Call /\ PhpCall \subseteq Call /\ status \in [Call -> Status]
      /\ callback \in [PhpCall -> {"none", "armed", "handled"}]
  BY StatusValues DEF IInv, TypeOK
<1> QED BY <1>1 DEF Answer, PushToPhp

LEMMA UncrossedRejects ==
  ASSUME IInv, Uncrossed, Onward, NEW m \in PhpCall, JsRejectsRequest(m)
  PROVE  Uncrossed'
<1>1. /\ Answer(m, "shutdown") /\ UNCHANGED <<flagged, jsStack, phpStack, phpDone>>
  BY DEF JsRejectsRequest, ends
<1>2. /\ status'[m] # "running"
      /\ \A c \in PhpCall \ {m} : status'[c] = status[c] /\ callback'[c] = callback[c]
  BY <1>1, AnsweredOne
<1>3. Held'
  BY <1>1, <1>2, HeldKept DEF Uncrossed
<1>4. Nested'
  BY <1>1, <1>2, NestedSame DEF Uncrossed
<1> QED BY <1>1, <1>3, <1>4 DEF Uncrossed, PhpFrameTypes

LEMMA UncrossedAnswers ==
  ASSUME IInv, Uncrossed, Onward, NEW m \in PhpCall, NEW how, InJsEnds(m), Answer(m, how)
  PROVE  Uncrossed'
<1>1. /\ jsStack # <<>> /\ Top(jsStack).fn = "inJs" /\ Top(jsStack).msg = m
      /\ jsStack' = Pop(jsStack) /\ UNCHANGED <<flagged, phpStack, phpDone>>
      /\ jsStack \in Seq(JsFrames)
  BY DEF InJsEnds, In, ends, IInv, TypeOK, JsFrames
<1>2. /\ status'[m] # "running"
      /\ \A c \in PhpCall \ {m} : status'[c] = status[c] /\ callback'[c] = callback[c]
  BY AnsweredOne
<1>3. \A c \in PhpCall \ {m} : OnStack(jsStack', "inJs", c) <=> OnStack(jsStack, "inJs", c)
  BY <1>1, OnPop
<1>4. Held'
  BY <1>1, <1>2, <1>3, HeldKept DEF Uncrossed
<1>5. Nested'
  BY <1>1, <1>2, NestedPop DEF Uncrossed
<1> QED BY <1>1, <1>4, <1>5 DEF Uncrossed, PhpFrameTypes

\* The callback is awaited where no call of JavaScript is below: no loop of
\* JavaScript waits already when it is left to the callback.
LEMMA UncrossedLeaves ==
  ASSUME IInv, Uncrossed, Onward, NEW m \in PhpCall, InJsLeavesToCallback(m)
  PROVE  Uncrossed'
<1>1. /\ jsStack # <<>> /\ Top(jsStack).fn = "inJs" /\ Top(jsStack).msg = m
      /\ ~Top(jsStack).sync /\ callback[m] = "armed" /\ jsStack' = Pop(jsStack)
      /\ UNCHANGED <<callback, status, flagged, phpStack, phpDone>> /\ jsStack \in Seq(JsFrames)
  BY DEF InJsLeavesToCallback, InJsEnds, In, ends, IInv, TypeOK, JsFrames
<1>2. \A c \in PhpCall \ {m} : OnStack(jsStack', "inJs", c) <=> OnStack(jsStack, "inJs", c)
  BY <1>1, OnPop
<1>3. Held'
  BY <1>1, <1>2, HeldKept DEF Uncrossed
<1>4. Nested'
  BY <1>1, NestedPop DEF Uncrossed
<1> QED BY <1>1, <1>3, <1>4 DEF Uncrossed, PhpFrameTypes

LEMMA UncrossedBailsOut ==
  ASSUME IInv, Uncrossed, Onward, NEW m \in PhpCall, InJsBailsOut(m)
  PROVE  Uncrossed'
<1>1. /\ jsStack # <<>> /\ Top(jsStack).fn = "inJs" /\ Top(jsStack).msg = m
      /\ m \in flagged /\ flagged' = flagged \ {m} /\ jsStack' = Pop(jsStack)
      /\ UNCHANGED <<callback, status, phpStack, phpDone>> /\ jsStack \in Seq(JsFrames)
  BY DEF InJsBailsOut, In, ends, IInv, TypeOK, JsFrames
<1>2. status[m] # "running"
  BY <1>1 DEF Uncrossed, Held
<1>3. \A c \in PhpCall \ {m} : OnStack(jsStack', "inJs", c) <=> OnStack(jsStack, "inJs", c)
  BY <1>1, OnPop
<1>4. Held'
  BY <1>1, <1>2, <1>3, HeldKept DEF Uncrossed
<1>5. Nested'
  BY <1>1, <1>2, NestedPop DEF Uncrossed
<1> QED BY <1>1, <1>4, <1>5 DEF Uncrossed, PhpFrameTypes

LEMMA UncrossedCallback ==
  ASSUME IInv, Uncrossed, Onward, NEW m \in PhpCall, CallbackFunction(m)
  PROVE  Uncrossed'
<1>1. /\ Answer(m, "callback") /\ flagged' \subseteq flagged \cup {m}
      /\ UNCHANGED <<jsStack, phpStack, phpDone>>
  BY DEF CallbackFunction, ends
<1>2. /\ status'[m] \in {"answered", "refused"}
      /\ \A c \in PhpCall \ {m} : status'[c] = status[c] /\ callback'[c] = callback[c]
  BY <1>1, AnsweredOne
<1>3. Held'
  BY <1>1, <1>2 DEF Uncrossed, Held
<1>4. Nested'
  BY <1>1, <1>2, NestedSame DEF Uncrossed
<1> QED BY <1>1, <1>3, <1>4 DEF Uncrossed, PhpFrameTypes

LEMMA UncrossedNode ==
  ASSUME IInv, Uncrossed, Onward,
         JsThread \/ (\E r \in JsCall : SendToPhp(r)) \/ (\E m \in PhpCall : CallbackFunction(m))
  PROVE  Uncrossed'
<1>1. ASSUME NEW m \in PhpCall, InJsReturns(m) \/ InJsThrows(m) \/ InJsDeadlocks(m)
      PROVE  Uncrossed'
  BY <1>1, UncrossedAnswers DEF InJsReturns, InJsThrows, InJsDeadlocks
<1> QED BY <1>1, UncrossedTurns, UncrossedSends, UncrossedLoopReturns, UncrossedCleansUp,
           UncrossedCleanedUp, UncrossedReceives, UncrossedBegins, UncrossedRejects,
           UncrossedLeaves, UncrossedBailsOut, UncrossedCallback DEF JsThread

\* A step of the PHP thread leaves what runs in JavaScript as it is.
LEMMA PhpSteps ==
  ASSUME Uncrossed, Onward, UNCHANGED jsVars, Nested', PhpFrameTypes',
         \A m \in PhpCall : status'[m] = "running" => status[m] = "running"
  PROVE  Uncrossed'
<1>1. UNCHANGED <<callback, flagged, jsStack>>
  BY DEF jsVars
<1>2. Held'
  BY <1>1, HeldKept DEF Uncrossed
<1> QED BY <1>2 DEF Uncrossed

\* A frame of PHP is pushed; one that runs r is above every loop.
LEMMA PhpPush ==
  ASSUME IInv, EndInv, Uncrossed, Onward, UNCHANGED jsVars, NEW e \in PhpFrames,
         phpStack' = Append(phpStack, e), ~phpDone',
         e.fn = "process" => e.msg \notin JsCall,
         \A m \in PhpCall : status'[m] = "running" => status[m] = "running"
  PROVE  Uncrossed'
<1>1. phpStack \in Seq(PhpFrames)
  BY DEF IInv, TypeOK, PhpFrames
<1>2. ASSUME NEW m \in PhpCall, status[m] = "running"
      PROVE  OnStack(phpStack, "process", m)
  <2>1. Count(phpStack, PhpLoops(m)) # 0
    BY <1>2 DEF EndInv, PhpWaits, Alive
  <2> QED BY <1>1, <2>1, CountSome DEF PhpLoops, OnStack
<1>3. Nested'
  <2>1. ASSUME NEW m \in PhpCall, NEW r \in JsCall, status[m] = "running", JsLater(jsStack, m, r)
        PROVE  PhpLater(Append(phpStack, e), m, r)
    <3>1. PhpLater(phpStack, m, r) /\ OnStack(phpStack, "process", m)
      BY <1>2, <2>1 DEF Uncrossed, Nested
    <3> QED BY <1>1, <3>1, PhpLaterPush
  <2> QED BY <2>1 DEF Nested, jsVars
<1>4. PhpFrameTypes'
  <2>1. /\ Len(phpStack) \in Nat /\ Len(Append(phpStack, e)) = Len(phpStack) + 1
        /\ Append(phpStack, e)[Len(phpStack) + 1] = e
        /\ \A i \in 1 .. Len(phpStack) : Append(phpStack, e)[i] = phpStack[i]
    BY <1>1, AppendProperties
  <2>2. \A i : i \in 1 .. Len(phpStack) + 1 <=> i \in 1 .. Len(phpStack) \/ i = Len(phpStack) + 1
    BY <2>1
  <2> QED BY <2>1, <2>2 DEF Uncrossed, PhpFrameTypes
<1> QED BY <1>3, <1>4, PhpSteps

LEMMA PhpPop ==
  ASSUME IInv, Uncrossed, Onward, UNCHANGED jsVars, phpStack # <<>>,
         phpStack' = Pop(phpStack), ~phpDone',
         \A m \in PhpCall : status'[m] = "running" => status[m] = "running"
  PROVE  Uncrossed'
<1>1. phpStack \in Seq(PhpFrames)
  BY DEF IInv, TypeOK, PhpFrames
<1>2. Nested'
  BY <1>1, PhpLaterPop DEF Uncrossed, Nested, jsVars
<1>3. PhpFrameTypes'
  <2>1. \A i \in 1 .. Len(Pop(phpStack)) : i \in 1 .. Len(phpStack) /\ Pop(phpStack)[i] = phpStack[i]
    BY <1>1, PopTop
  <2> QED BY <2>1 DEF Uncrossed, PhpFrameTypes
<1> QED BY <1>2, <1>3, PhpSteps

LEMMA PhpSame ==
  ASSUME Uncrossed, Onward, UNCHANGED <<jsVars, phpStack>>, phpDone' => phpStack' = <<>>,
         \A m \in PhpCall : status'[m] = "running" => status[m] = "running"
  PROVE  Uncrossed'
<1>1. Nested' /\ PhpFrameTypes'
  BY DEF Uncrossed, Nested, PhpFrameTypes, jsVars
<1> QED BY <1>1, PhpSteps

\* The loops of Execute are at the bottom, so no request runs below them.
LEMMA PhpBottom ==
  ASSUME Uncrossed, Onward, UNCHANGED jsVars, ~phpDone',
         phpStack' = <<>> \/ \E e \in PhpFrames : phpStack' = <<e>> /\ e.fn = "process" /\ e.msg \notin JsCall,
         \A m \in PhpCall : status'[m] = "running" => status[m] = "running"
  PROVE  Uncrossed'
<1>1. \A i \in 1 .. Len(phpStack') : phpStack'[i].fn = "process" /\ phpStack'[i].msg \notin JsCall
  OBVIOUS
<1>2. PhpFrameTypes'
  BY <1>1 DEF PhpFrameTypes
<1>3. \A m, r : PhpLater(phpStack', m, r)
  BY <1>1 DEF PhpLater
<1>4. Nested'
  BY <1>3 DEF Nested
<1> QED BY <1>2, <1>4, PhpSteps

LEMMA UncrossedPhp ==
  ASSUME IInv, EndInv, Uncrossed, Onward, PhpThread \/ \E m \in PhpCall : SendToJs(m)
  PROVE  Uncrossed'
<1> DEFINE Rest == \A m \in PhpCall : status'[m] = "running" => status[m] = "running"
<1>0. /\ status \in [Call -> Status] /\ PhpCall \subseteq Call /\ JsCall \subseteq Call
      /\ Cleanup \in Call /\ None \notin Call /\ \A r \in JsCall : r \notin PhpCall \cup {Cleanup}
      /\ phpDone \in BOOLEAN
  BY StatusValues DEF IInv, TypeOK
<1>1. ASSUME phpStack # <<>> PROVE ~phpDone
  BY <1>1 DEF Uncrossed, PhpFrameTypes
<1>2. ASSUME NEW m \in PhpCall, SendToJs(m) PROVE Uncrossed'
  <2>1. /\ UNCHANGED <<jsVars, phpDone>> /\ PushToJs(m, "requested")
        /\ phpStack' = Append(phpStack, Frame("process", m))
    BY <1>2 DEF SendToJs, ends
  <2>2. ~phpDone
    <3>1. phpDone => status[Cleanup] # "new" /\ phpStack = <<>>
      BY DEF EndInv, Phases, Drained, Uncrossed, PhpFrameTypes
    <3> QED BY <1>2, <3>1 DEF SendToJs, ScriptRuns, In, Clearing
  <2>3. Rest
    BY <1>0, <2>1 DEF PushToJs
  <2>4. PICK e \in PhpFrames : e = Frame("process", m) /\ e.fn = "process" /\ e.msg = m
    <3>1. m \in Call /\ Frame("process", m) \in PhpFrames
      BY <1>0 DEF Frame, PhpFrames
    <3> QED BY <3>1 DEF Frame
  <2> QED BY <1>0, <2>1, <2>2, <2>3, <2>4, PhpPush
<1>3. CASE SendCleanup
  <2>1. /\ UNCHANGED <<jsVars, phpDone>> /\ PushToJs(Cleanup, "requested") /\ status[Cleanup] = "new"
        /\ phpStack' = <<Frame("process", Cleanup)>>
    BY <1>3 DEF SendCleanup, ScriptRuns, ends
  <2>2. ~phpDone
    BY <2>1 DEF EndInv, Phases, Drained
  <2>3. Rest
    BY <1>0, <2>1 DEF PushToJs
  <2>4. PICK e \in PhpFrames : e = Frame("process", Cleanup) /\ e.fn = "process" /\ e.msg = Cleanup
    <3>1. Frame("process", Cleanup) \in PhpFrames
      BY <1>0 DEF Frame, PhpFrames
    <3> QED BY <3>1 DEF Frame
  <2>5. phpStack' = <<e>> /\ e.msg \notin JsCall
    BY <1>0, <2>1, <2>4
  <2> QED BY <2>1, <2>2, <2>3, <2>4, <2>5, PhpBottom
<1>4. CASE ShutdownJsQueue
  <2>1. UNCHANGED <<jsVars, status, phpDone>> /\ phpStack' = <<>> /\ phpStack # <<>>
    BY <1>4 DEF ShutdownJsQueue, In, ends
  <2> QED BY <1>1, <2>1, PhpBottom
<1>5. CASE ExecuteReturns
  <2>1. UNCHANGED <<jsVars, phpStack, status>> /\ phpStack = <<>>
    BY <1>5 DEF ExecuteReturns, Clearing
  <2> QED BY <2>1, PhpSame
<1>6. ASSUME NEW m \in PhpCall \cup {Cleanup}, PhpTakesResponse(m) PROVE Uncrossed'
  <2>1. UNCHANGED <<jsVars, phpStack, phpDone>> /\ status' = [status EXCEPT ![m] = "processed"]
        /\ phpStack # <<>>
    BY <1>6 DEF PhpTakesResponse, PhpTakes, In, ends
  <2>2. Rest
    BY <1>0, <2>1
  <2> QED BY <1>1, <2>1, <2>2, PhpSame
<1>7. ASSUME NEW m \in PhpCall \cup {Cleanup}, SendToJsReturns(m) PROVE Uncrossed'
  <2>1. /\ UNCHANGED <<jsVars, phpDone>> /\ status' = [status EXCEPT ![m] = "returned"]
        /\ phpStack # <<>>
        /\ phpStack' = IF m = Cleanup THEN <<Frame("process", None)>> ELSE Pop(phpStack)
    BY <1>7 DEF SendToJsReturns, In, ends
  <2>2. Rest
    BY <1>0, <2>1
  <2>3. CASE m = Cleanup
    <3>1. PICK e \in PhpFrames : e = Frame("process", None) /\ e.fn = "process" /\ e.msg = None
      <4>1. Frame("process", None) \in PhpFrames
        BY DEF Frame, PhpFrames
      <4> QED BY <4>1 DEF Frame
    <3>2. phpStack' = <<e>> /\ e.msg \notin JsCall
      BY <1>0, <2>1, <2>3, <3>1
    <3> QED BY <1>1, <2>1, <2>2, <3>1, <3>2, PhpBottom
  <2>4. CASE m # Cleanup
    BY <1>1, <2>1, <2>2, <2>4, PhpPop
  <2> QED BY <2>3, <2>4
<1>8. ASSUME NEW r \in JsCall, PhpTakesRequest(r) PROVE Uncrossed'
  <2>1. /\ UNCHANGED <<jsVars, phpDone>> /\ status' = [status EXCEPT ![r] = "running"]
        /\ phpStack # <<>> /\ phpStack' = Append(phpStack, Frame("inPhp", r))
    BY <1>8 DEF PhpTakesRequest, PhpTakes, In, ends
  <2>2. Rest
    BY <1>0, <2>1
  <2>3. PICK e \in PhpFrames : e = Frame("inPhp", r) /\ e.fn = "inPhp"
    <3>1. Frame("inPhp", r) \in PhpFrames
      BY <1>0 DEF Frame, PhpFrames
    <3> QED BY <3>1 DEF Frame
  <2> QED BY <1>1, <2>1, <2>2, <2>3, PhpPush
<1>9. ASSUME NEW r \in JsCall, PhpRejectsRequest(r) PROVE Uncrossed'
  <2>1. UNCHANGED <<jsVars, phpStack, phpDone>> /\ PushToJs(r, "answered") /\ phpStack # <<>>
    BY <1>9 DEF PhpRejectsRequest, PhpTakes, In, ends
  <2>2. Rest
    BY <1>0, <2>1 DEF PushToJs
  <2> QED BY <1>1, <2>1, <2>2, PhpSame
<1>10. ASSUME NEW r \in JsCall, InPhpReturns(r) PROVE Uncrossed'
  <2>1. /\ UNCHANGED <<jsVars, phpDone>> /\ PushToJs(r, "answered")
        /\ phpStack # <<>> /\ phpStack' = Pop(phpStack)
    BY <1>10 DEF InPhpReturns, In, ends
  <2>2. Rest
    BY <1>0, <2>1 DEF PushToJs
  <2> QED BY <1>1, <2>1, <2>2, PhpPop
<1> QED BY <1>2, <1>3, <1>4, <1>5, <1>6, <1>7, <1>8, <1>9, <1>10 DEF PhpThread

LEMMA UncrossedInit == Init => Uncrossed
<1> SUFFICES ASSUME Init PROVE Uncrossed
  OBVIOUS
<1>1. /\ jsStack = <<>> /\ phpStack = <<>> /\ flagged = {} /\ phpDone = FALSE
      /\ status = [m \in Call |-> "new"]
  BY DEF Init
<1>2. \A m \in PhpCall : status[m] = "new"
  BY <1>1, StatusValues
<1> QED BY <1>1, <1>2 DEF Uncrossed, Held, Nested, PhpFrameTypes

LEMMA UncrossedStep == IInv /\ EndInv /\ Uncrossed /\ [Next]_vars => Uncrossed'
<1> SUFFICES ASSUME IInv, EndInv, Uncrossed, [Next]_vars PROVE Uncrossed'
  OBVIOUS
<1>1. Onward
  BY IInvStep
<1>2. CASE UNCHANGED vars
  BY <1>2 DEF vars, jsVars, ends, Uncrossed, Held, Nested, PhpFrameTypes
<1>3. CASE Next
  BY <1>1, <1>3, UncrossedNode, UncrossedPhp DEF Next, UserCode
<1> QED BY <1>2, <1>3

LEMMA UncrossedInductive == Spec => [](IInv /\ EndInv /\ Uncrossed)
BY EndInductive, UncrossedInit, UncrossedStep, PTL DEF Spec

\* No call has the status of one in an empty queue.
LEMMA NotQueued ==
  ASSUME IInv, NEW c \in Call
  PROVE  /\ jsQueue = <<>> => status[c] # ForJs(c)
         /\ phpQueue = <<>> => status[c] # ForPhp(c)
<1>1. /\ Count(jsQueue, {c}) = Is(status[c], ForJs(c))
      /\ Count(phpQueue, {c}) = Is(status[c], ForPhp(c))
  BY DEF IInv, JsQueued, PhpQueued
<1>2. Count(<<>>, {c}) = 0
  BY CountEmpty
<1> QED BY <1>1, <1>2 DEF Is

\* A loop of JavaScript with nothing to take waits for a call that was not
\* answered and is not in the queue of JavaScript.
LEMMA JsAwaits ==
  ASSUME IInv, EndInv, In(jsStack, "process"), ~Finished(jsStack, jsQueue), jsQueue = <<>>,
         status[Top(jsStack).msg] # "refused"
  PROVE  Top(jsStack).msg \in JsCall /\ status[Top(jsStack).msg] \in {"requested", "running"}
<1>1. /\ jsStack \in Seq(JsFrames) /\ jsStack # <<>> /\ Top(jsStack).fn = "process"
      /\ Len(jsStack) \in 1 .. Len(jsStack) /\ Top(jsStack) = jsStack[Len(jsStack)]
      /\ status \in [Call -> Status] /\ JsCall \subseteq Call
  BY PopTop, StatusValues DEF IInv, TypeOK, JsFrames, In, Top
<1>2. PICK r \in JsCall : r = Top(jsStack).msg /\ status[r] # "processed"
  BY <1>1 DEF EndInv, JsWaits, Finished
<1>3. status[r] # "answered"
  BY NotQueued, StatusValues
<1>4. status[r] \notin {"new", "returned"}
  <2>1. jsStack[Len(jsStack)] \in JsLoops(r)
    BY <1>1, <1>2, PopTop DEF JsLoops
  <2>2. Count(jsStack, JsLoops(r)) # 0
    BY <1>1, <2>1, CountSome
  <2> QED BY <2>2 DEF EndInv, JsWaits, Alive
<1> QED BY <1>1, <1>2, <1>3, <1>4 DEF Status

LEMMA PhpAwaits ==
  ASSUME IInv, EndInv, Uncrossed, In(phpStack, "process"), ~Finished(phpStack, phpQueue),
         phpQueue = <<>>, jsQueue = <<>>, status[Top(phpStack).msg] # "refused"
  PROVE  /\ Top(phpStack).msg \in PhpCall \cup {Cleanup}
         /\ status[Top(phpStack).msg] = "running"
<1>1. /\ phpStack \in Seq(PhpFrames) /\ phpStack # <<>> /\ Top(phpStack).fn = "process"
      /\ Len(phpStack) \in 1 .. Len(phpStack) /\ Top(phpStack) = phpStack[Len(phpStack)]
      /\ status \in [Call -> Status] /\ Top(phpStack) \in PhpFrames
  <2>1. phpStack \in Seq(PhpFrames) /\ phpStack # <<>> /\ Top(phpStack).fn = "process"
    BY DEF IInv, TypeOK, PhpFrames, In
  <2>2. Len(phpStack) \in Nat \ {0} /\ Top(phpStack) \in PhpFrames
    BY <2>1, PopTop
  <2> QED BY <2>1, <2>2 DEF IInv, TypeOK, Top
<1>2. PICK m \in PhpCall \cup {Cleanup} : m = Top(phpStack).msg /\ status[m] # "processed"
  <2>1. Top(phpStack).msg \in Call /\ Top(phpStack).msg \notin JsCall
    BY <1>1 DEF Finished, Uncrossed, PhpFrameTypes, PhpFrames
  <2> QED BY <2>1, StatusValues DEF Finished
<1>3. status[m] \notin {"answered", "requested"}
  <2>1. m \in Call /\ ForJs(m) = "requested" /\ ForPhp(m) = "answered"
    BY StatusValues
  <2> QED BY <2>1, NotQueued
<1>4. status[m] \notin {"new", "returned"}
  <2>1. phpStack[Len(phpStack)] \in PhpLoops(m)
    BY <1>1, <1>2 DEF PhpLoops
  <2>2. Count(phpStack, PhpLoops(m)) # 0
    BY <1>1, <2>1, CountSome
  <2> QED BY <2>2 DEF EndInv, PhpWaits, Alive
<1>5. m \in Call /\ status[m] \in Status /\ status[m] # "refused"
  BY <1>1, <1>2, StatusValues
<1> QED BY <1>2, <1>3, <1>4, <1>5 DEF Status

\* JavaScript waits for r, which PHP runs under its loop for m, which runs.
LEMMA NotCrossed ==
  ASSUME IInv, EndInv, Uncrossed, In(jsStack, "process"), In(phpStack, "process"),
         Top(jsStack).msg \in JsCall, status[Top(jsStack).msg] = "running",
         Top(phpStack).msg \in PhpCall, status[Top(phpStack).msg] = "running"
  PROVE  FALSE
<1>1. PICK r \in JsCall, m \in PhpCall : r = Top(jsStack).msg /\ m = Top(phpStack).msg
  OBVIOUS
<1>2. /\ jsStack \in Seq(JsFrames) /\ jsStack # <<>> /\ jsStack[Len(jsStack)].fn = "process"
      /\ jsStack[Len(jsStack)].msg = r /\ Len(jsStack) \in Nat \ {0}
  BY <1>1, PopTop DEF IInv, TypeOK, JsFrames, In, Top
<1>3. JsLater(jsStack, m, r)
  <2>1. \A k \in Len(jsStack) .. Len(jsStack) : k = Len(jsStack)
    BY <1>2
  <2>2. Len(jsStack) \in 1 .. Len(jsStack)
    BY <1>2
  <2> QED BY <1>2, <2>1, <2>2 DEF JsLater
<1>4. PhpLater(phpStack, m, r)
  BY <1>1, <1>3 DEF Uncrossed, Nested
<1>5. /\ phpStack \in Seq(PhpFrames) /\ phpStack # <<>> /\ Top(phpStack).fn = "process"
      /\ Top(phpStack).msg = m /\ Top(phpStack) = phpStack[Len(phpStack)]
      /\ Pop(phpStack) \in Seq(PhpFrames) /\ Len(phpStack) \in Nat \ {0}
      /\ Len(Pop(phpStack)) = Len(phpStack) - 1
      /\ \A i \in 1 .. Len(Pop(phpStack)) : Pop(phpStack)[i] = phpStack[i]
  BY <1>1, PopTop DEF IInv, TypeOK, PhpFrames, In, Top
<1>6. ~\E i \in 1 .. Len(Pop(phpStack)) : Pop(phpStack)[i] \in PhpLoops(m)
  <2>1. Count(phpStack, PhpLoops(m)) = 1
    BY <1>1 DEF EndInv, PhpWaits, Alive
  <2>2. Count(Pop(phpStack), PhpLoops(m)) = 1 - 1
    BY <1>5, <2>1, PhpLoopsPop DEF Is
  <2> QED BY <1>5, <2>2, CountSome
<1>7. PICK q \in 1 .. Len(phpStack) : phpStack[q] \in InPhpOf(r)
  <2>1. Count(phpStack, InPhpOf(r)) # 0
    BY <1>1 DEF IInv, PhpRuns, Is
  <2> QED BY <1>5, <2>1, CountSome
<1>8. phpStack[q].fn = "inPhp" /\ phpStack[q].msg = r
  BY <1>7 DEF InPhpOf
<1>9. PICK p \in 1 .. q : phpStack[p].fn = "process" /\ phpStack[p].msg = m
  BY <1>4, <1>8 DEF PhpLater
<1>10. q # Len(phpStack)
  BY <1>5, <1>8
<1>11. p \in 1 .. Len(Pop(phpStack))
  BY <1>5, <1>10
<1>12. Pop(phpStack)[p] \in PhpLoops(m)
  <2>1. Pop(phpStack)[p] = phpStack[p] /\ Pop(phpStack)[p] \in PhpFrames
    BY <1>5, <1>11, ElementOfSeq
  <2> QED BY <1>9, <2>1 DEF PhpLoops
<1> QED BY <1>6, <1>11, <1>12

LEMMA NeverBoth ==
  ASSUME IInv, EndInv, Uncrossed
  PROVE  NeverBothBlocked
<1> SUFFICES ASSUME JsBlocked, PhpBlocked,
                    jsStack # <<>> => status[Top(jsStack).msg] # "refused",
                    phpStack # <<>> => status[Top(phpStack).msg] # "refused"
             PROVE  FALSE
  BY DEF NeverBothBlocked
<1>1. jsQueue = <<>>
  BY DEF JsBlocked
<1>2. CASE In(jsStack, "process") /\ ~Finished(jsStack, jsQueue)
  <2>1. PICK r \in JsCall : r = Top(jsStack).msg /\ status[r] \in {"requested", "running"}
    BY <1>1, <1>2, JsAwaits DEF In
  <2>2. phpQueue = <<>>
    BY DEF PhpBlocked, EndInv, Drained
  <2>3. status[r] = "running"
    <3>1. r \in Call /\ ForPhp(r) = "requested"
      BY StatusValues
    <3> QED BY <2>1, <2>2, <3>1, NotQueued
  <2>4. phpStack # <<>>
    BY <2>3, CountEmpty DEF IInv, PhpRuns, Is
  <2>5. In(phpStack, "process") /\ ~Finished(phpStack, phpQueue)
    BY <2>4 DEF PhpBlocked, Uncrossed, PhpFrameTypes
  <2>6. Top(phpStack).msg \in PhpCall \cup {Cleanup} /\ status[Top(phpStack).msg] = "running"
    BY <1>1, <2>2, <2>4, <2>5, PhpAwaits
  <2>7. Top(phpStack).msg # Cleanup
    BY <2>3, <2>5, BottomLoop DEF Is
  <2> QED BY <1>2, <2>1, <2>3, <2>5, <2>6, <2>7, NotCrossed
<1>3. CASE jsStack = <<>> /\ ~phpDone /\ \A m \in PhpCall : callback[m] # "armed"
  <2>1. In(phpStack, "process") /\ ~Finished(phpStack, phpQueue) /\ phpQueue = <<>>
    BY <1>3 DEF PhpBlocked
  <2>2. PICK m \in PhpCall \cup {Cleanup} : status[m] = "running"
    BY <1>1, <2>1, PhpAwaits DEF In
  <2>3. CASE m = Cleanup
    BY <1>3, <2>2, <2>3, CountEmpty DEF IInv, JsRuns, Is
  <2>4. CASE m \in PhpCall
    <3>1. OnStack(jsStack, "inJs", m)
      BY <1>3, <2>2, <2>4 DEF Uncrossed, Held
    <3> QED BY <1>3, <3>1 DEF OnStack
  <2> QED BY <2>3, <2>4
<1> QED BY <1>2, <1>3 DEF JsBlocked

\* However calls of the two threads nest and whichever are left to a callback,
\* the threads never both wait, unless for a call that the queue has refused.
THEOREM NobodyWaitsInVain == Spec => []NeverBothBlocked
<1>1. IInv /\ EndInv /\ Uncrossed => NeverBothBlocked
  BY NeverBoth
<1> QED BY <1>1, UncrossedInductive, PTL

=============================================================================
