------------------------- MODULE StreamWriteProofs -------------------------
(***************************************************************************)
(* What is proved about StreamWrite: every flush is called back once, at   *)
(* most one high-water mark of output too early.                           *)
(***************************************************************************)
EXTENDS StreamWrite, Counting

\* Types, with no callback left when the stream is over.
Control ==
  /\ TypeOK
  /\ WaitingHasDrain
  /\ error <=> dead
  /\ ~flushed => needDrain

LEMMA TypeStep ==
  ASSUME Control, [Next]_vars
  PROVE  TypeOK'
<1> USE BufferAssumption DEF Control, TypeOK, BufferAssumption, stream, wrapper
<1>0. immediates \o callbacks \in Seq(Flush) /\ <<>> \in Seq(Flush)
  BY EmptySeq, ConcatProperties
<1>1. CASE WriteData
  BY <1>1 DEF WriteData, Accepts
<1>2. CASE Transmit
  BY <1>2 DEF Transmit
<1>3. CASE Drain
  BY <1>0, <1>3 DEF Drain, Release
<1>4. CASE Fail
  BY <1>0, <1>4 DEF Fail, Release
<1>5. CASE RunImmediate
  <2>1. Head(immediates) \in Flush /\ Tail(immediates) \in Seq(Flush)
    BY <1>5, HeadTailProperties DEF RunImmediate
  <2> QED BY <1>5, <2>1 DEF RunImmediate
<1>6. ASSUME NEW f \in Flush, FlushNow(f) PROVE TypeOK'
  BY <1>6 DEF FlushNow, Calls
<1>7. ASSUME NEW f \in Flush, FlushLater(f) PROVE TypeOK'
  BY <1>7 DEF FlushLater, Calls
<1>8. CASE UNCHANGED vars
  BY <1>8 DEF vars
<1> QED BY <1>1, <1>2, <1>3, <1>4, <1>5, <1>6, <1>7, <1>8 DEF Next

LEMMA ControlStep ==
  ASSUME Control, [Next]_vars
  PROVE  Control'
<1>0. TypeOK'
  BY TypeStep
<1> USE DEF Control, TypeOK, WaitingHasDrain, stream, wrapper
<1>1. CASE WriteData
  BY <1>0, <1>1 DEF WriteData, Accepts
<1>2. CASE Transmit
  BY <1>0, <1>2 DEF Transmit
<1>3. CASE Drain
  BY <1>0, <1>3 DEF Drain, Release
<1>4. CASE Fail
  BY <1>0, <1>4 DEF Fail, Release
<1>5. CASE RunImmediate
  BY <1>0, <1>5 DEF RunImmediate
<1>6. ASSUME NEW f \in Flush, FlushNow(f) PROVE Control'
  BY <1>0, <1>6 DEF FlushNow
<1>7. ASSUME NEW f \in Flush, FlushLater(f) PROVE Control'
  BY <1>0, <1>7 DEF FlushLater, Waits
<1>8. CASE UNCHANGED vars
  BY <1>0, <1>8 DEF vars
<1> QED BY <1>1, <1>2, <1>3, <1>4, <1>5, <1>6, <1>7, <1>8 DEF Next

(***************************************************************************)
(* The places of a flush.                                                  *)
(***************************************************************************)
LEMMA PlacesCounted ==
  ASSUME NEW f
  PROVE  Places(f) = Count(callbacks, {f}) + Count(immediates, {f})
<1>1. \A s : {i \in 1 .. Len(s) : s[i] = f} = {i \in 1 .. Len(s) : s[i] \in {f}}
  OBVIOUS
<1> QED BY <1>1 DEF Places, Count, Occurrences

\* A flush that was called is in one place until it is done.
Placed(f) ==
  /\ Count(callbacks, {f}) + Count(immediates, {f})
       = (IF mark[f] # None /\ f \notin done THEN 1 ELSE 0)
  /\ f \in done => mark[f] # None

InOnePlace == \A f \in Flush : Placed(f)

LEMMA InOnePlaceIs == InOnePlace => FlushInOnePlace
  BY PlacesCounted DEF InOnePlace, Placed, FlushInOnePlace

LEMMA ReleaseCount ==
  ASSUME Control, Release, NEW f \in Flush
  PROVE  /\ Count(callbacks', {f}) = 0
         /\ Count(immediates', {f}) = Count(immediates, {f}) + Count(callbacks, {f})
<1>1. immediates \in Seq(Flush) /\ callbacks \in Seq(Flush)
  BY DEF Control, TypeOK
<1>2. Count(<<>>, {f}) = 0
  BY CountEmpty
<1>3. Count(immediates \o callbacks, {f}) = Count(immediates, {f}) + Count(callbacks, {f})
  BY <1>1, CountConcat
<1> QED BY <1>2, <1>3 DEF Release

LEMMA PlacesStep ==
  ASSUME Control, InOnePlace, [Next]_vars, NEW f \in Flush
  PROVE  Placed(f)'
<1>1. /\ callbacks \in Seq(Flush) /\ immediates \in Seq(Flush)
      /\ mark \in [Flush -> 0 .. MaxWrites \cup {None}] /\ sent \in 0 .. MaxWrites
  BY DEF Control, TypeOK
<1>2. Count(callbacks, {f}) \in Nat /\ Count(immediates, {f}) \in Nat
  BY <1>1, CountType
<1>3. Placed(f)
  BY DEF InOnePlace
<1>4. CASE WriteData \/ Transmit \/ UNCHANGED vars
  <2>1. UNCHANGED <<callbacks, immediates, mark, done>>
    BY <1>4 DEF WriteData, Transmit, vars, wrapper
  <2> QED BY <1>3, <2>1 DEF Placed
<1>5. CASE Drain \/ Fail
  <2>1. Release /\ UNCHANGED <<mark, done>>
    BY <1>5 DEF Drain, Fail
  <2>2. /\ Count(callbacks', {f}) = 0
        /\ Count(immediates', {f}) = Count(immediates, {f}) + Count(callbacks, {f})
    BY <2>1, ReleaseCount
  <2> QED BY <1>2, <1>3, <2>1, <2>2 DEF Placed
<1>6. CASE RunImmediate
  <2> DEFINE h == Head(immediates)
  <2>1. /\ immediates # <<>> /\ immediates' = Tail(immediates) /\ done' = done \cup {h}
        /\ UNCHANGED <<callbacks, mark>>
    BY <1>6 DEF RunImmediate, wrapper
  <2>2. Tail(immediates) \in Seq(Flush)
    BY <1>1, <2>1, HeadTailProperties
  <2>3. Count(immediates, {f}) = Count(Tail(immediates), {f}) + (IF h \in {f} THEN 1 ELSE 0)
    BY <1>1, <2>1, CountTail
  <2>4. Count(immediates', {f}) \in Nat
    BY <2>1, <2>2, CountType
  <2> HIDE DEF h
  <2>5. CASE h = f
    <3>1. Count(immediates, {f}) = Count(immediates', {f}) + 1
      BY <2>1, <2>3, <2>5
    <3>2. mark[f] # None /\ f \notin done
      BY <1>2, <1>3, <2>4, <3>1 DEF Placed
    <3>3. mark'[f] # None /\ f \in done'
      BY <2>1, <2>5, <3>2
    <3>4. Count(callbacks', {f}) + Count(immediates', {f}) = 0
      BY <1>2, <1>3, <2>1, <2>4, <3>1, <3>2 DEF Placed
    <3> QED BY <3>3, <3>4 DEF Placed
  <2>6. CASE h # f
    <3>1. Count(immediates', {f}) = Count(immediates, {f})
      BY <1>2, <2>1, <2>3, <2>4, <2>6
    <3>2. f \in done' <=> f \in done
      BY <2>1, <2>6
    <3> QED BY <1>3, <2>1, <3>1, <3>2 DEF Placed
  <2> QED BY <2>5, <2>6
<1>7. ASSUME NEW g \in Flush, FlushNow(g) \/ FlushLater(g)
      PROVE  Placed(f)'
  <2>1. mark[g] = None /\ mark' = [mark EXCEPT ![g] = sent] /\ UNCHANGED done
    BY <1>7 DEF FlushNow, FlushLater, Calls
  <2>2. Count(callbacks', {f}) + Count(immediates', {f})
          = Count(callbacks, {f}) + Count(immediates, {f}) + (IF g \in {f} THEN 1 ELSE 0)
    <3>1. CASE FlushNow(g)
      <4>1. immediates' = Append(immediates, g) /\ callbacks' = callbacks
        BY <3>1 DEF FlushNow, wrapper
      <4>2. Count(Append(immediates, g), {f}) = Count(immediates, {f}) + (IF g \in {f} THEN 1 ELSE 0)
        BY <1>1, CountAppend
      <4> QED BY <1>2, <4>1, <4>2
    <3>2. CASE FlushLater(g)
      <4>1. callbacks' = Append(callbacks, g) /\ immediates' = immediates
        BY <3>2 DEF FlushLater
      <4>2. Count(Append(callbacks, g), {f}) = Count(callbacks, {f}) + (IF g \in {f} THEN 1 ELSE 0)
        BY <1>1, CountAppend
      <4> QED BY <1>2, <4>1, <4>2
    <3> QED BY <1>7, <3>1, <3>2
  <2>3. CASE g = f
    <3>1. f \notin done
      BY <1>3, <2>1, <2>3 DEF Placed
    <3>2. mark'[f] # None
      BY <1>1, <2>1, <2>3, BufferAssumption DEF BufferAssumption
    <3>3. Count(callbacks, {f}) + Count(immediates, {f}) = 0
      BY <1>3, <2>1, <2>3 DEF Placed
    <3> QED BY <1>2, <2>1, <2>2, <2>3, <3>1, <3>2, <3>3 DEF Placed
  <2>4. CASE g # f
    <3>1. mark'[f] = mark[f]
      BY <1>1, <2>1, <2>4
    <3>2. Count(callbacks', {f}) + Count(immediates', {f})
            = Count(callbacks, {f}) + Count(immediates, {f})
      BY <1>2, <2>2, <2>4
    <3> QED BY <1>3, <2>1, <3>1, <3>2 DEF Placed
  <2> QED BY <2>3, <2>4
<1> QED BY <1>4, <1>5, <1>6, <1>7 DEF Next

(***************************************************************************)
(* How much of the output is in the stream when a flush returns.           *)
(***************************************************************************)
\* A flush was called when no more had been sent than now.
\* A flush to be called back waited for all but less than a high-water mark;
\* so would one called now, unless the wrapper knows that it has to wait.
Released(f) == f \in done \/ Count(immediates, {f}) > 0
Prompt ==
  /\ \A f \in Flush : mark[f] # None => mark[f] <= sent
  /\ \A f \in Flush : Released(f) => dead \/ mark[f] < out + HighWater
  /\ flushed => dead \/ sent < out + HighWater

Inv == Control /\ InOnePlace /\ Prompt

LEMMA InvStep ==
  ASSUME Inv, [Next]_vars
  PROVE  Inv'
<1>1. Control' /\ InOnePlace'
  BY ControlStep, PlacesStep DEF Inv, InOnePlace
<1>2. /\ callbacks \in Seq(Flush) /\ immediates \in Seq(Flush)
      /\ mark \in [Flush -> 0 .. MaxWrites \cup {None}] /\ sent \in Nat
      /\ out \in 0 .. sent /\ HighWater \in Nat \ {0} /\ (error <=> dead)
  BY BufferAssumption DEF BufferAssumption, Inv, Control, TypeOK
<1>3. \A f \in Flush : /\ Count(callbacks, {f}) \in Nat
                       /\ Count(immediates, {f}) \in Nat
                       /\ Placed(f) /\ Placed(f)'
  BY <1>1, <1>2, CountType DEF Inv, InOnePlace
<1>4. \A f \in Flush : /\ mark[f] # None => mark[f] \in Nat /\ mark[f] <= sent
                       /\ Released(f) => mark[f] # None
  <2>1. ASSUME NEW f \in Flush, Released(f) PROVE mark[f] # None
    <3>1. Placed(f) /\ Count(callbacks, {f}) \in Nat /\ Count(immediates, {f}) \in Nat
      BY <1>3
    <3> QED BY <2>1, <3>1 DEF Placed, Released
  <2> QED BY <1>2, <2>1 DEF Inv, Prompt
<1>5. CASE WriteData
  <2>1. /\ sent' = sent + 1 /\ flushed' = Accepts /\ ~error
        /\ UNCHANGED <<out, dead, immediates, mark, done>>
    BY <1>5 DEF WriteData
  <2>2. \A f \in Flush : Released(f)' <=> Released(f)
    BY <2>1 DEF Released
  <2>3. \A f \in Flush : mark'[f] # None => mark'[f] <= sent'
    BY <1>2, <1>4, <2>1
  <2>4. \A f \in Flush : Released(f)' => dead' \/ mark'[f] < out' + HighWater
    BY <2>1, <2>2 DEF Inv, Prompt
  <2>5. flushed' => dead' \/ sent' < out' + HighWater
    <3>1. flushed' <=> sent + 1 - out < HighWater
      BY <2>1, Zenon DEF Accepts
    <3>2. sent + 1 - out < HighWater => sent + 1 < out + HighWater
      BY <1>2
    <3>3. sent' = sent + 1 /\ out' = out
      BY <2>1
    <3> QED BY <3>1, <3>2, <3>3
  <2> QED BY <1>1, <2>3, <2>4, <2>5 DEF Inv, Prompt
<1>6. CASE Transmit
  <2>1. out' = out + 1 /\ UNCHANGED <<sent, dead, flushed, immediates, mark, done>>
    BY <1>6 DEF Transmit, wrapper
  <2>2. \A f \in Flush : Released(f)' <=> Released(f)
    BY <2>1 DEF Released
  <2> QED BY <1>1, <1>2, <1>4, <2>1, <2>2 DEF Inv, Prompt
<1>7. CASE Drain
  <2>1. out = sent /\ UNCHANGED <<sent, out, dead, mark, done>>
    BY <1>7 DEF Drain
  <2>2. ASSUME NEW f \in Flush, Released(f)' PROVE mark[f] # None
    <3>1. Placed(f)' /\ Count(callbacks', {f}) \in Nat /\ Count(immediates', {f}) \in Nat
      <4>1. callbacks' \in Seq(Flush) /\ immediates' \in Seq(Flush)
        BY <1>1 DEF Control, TypeOK
      <4> QED BY <1>3, <4>1, CountType
    <3> QED BY <2>1, <2>2, <3>1 DEF Placed, Released
  <2>3. \A f \in Flush : Released(f)' => mark[f] < out + HighWater
    BY <1>2, <1>4, <2>1, <2>2
  <2> QED BY <1>1, <1>2, <1>4, <2>1, <2>3 DEF Inv, Prompt
<1>8. CASE Fail
  <2>1. dead' /\ UNCHANGED <<sent, out, mark, done>>
    BY <1>8 DEF Fail
  <2> QED BY <1>1, <1>4, <2>1 DEF Inv, Prompt
<1>9. CASE RunImmediate
  <2> DEFINE h == Head(immediates)
  <2>1. /\ immediates # <<>> /\ immediates' = Tail(immediates) /\ done' = done \cup {h}
        /\ UNCHANGED <<sent, out, dead, flushed, mark>>
    BY <1>9 DEF RunImmediate, wrapper, stream
  <2>2. Tail(immediates) \in Seq(Flush)
    BY <1>2, <2>1, HeadTailProperties
  <2>3. ASSUME NEW f \in Flush, Released(f)'
        PROVE  Released(f)
    <3>1. Count(immediates, {f}) = Count(Tail(immediates), {f}) + (IF h \in {f} THEN 1 ELSE 0)
      BY <1>2, <2>1, CountTail
    <3>2. Count(Tail(immediates), {f}) \in Nat
      BY <2>2, CountType
    <3> QED BY <2>1, <2>3, <3>1, <3>2 DEF Released
  <2> QED BY <1>1, <1>4, <2>1, <2>3 DEF Inv, Prompt
<1>10. ASSUME NEW g \in Flush, FlushNow(g) \/ FlushLater(g)
       PROVE  Inv'
  <2>1. /\ mark[g] = None /\ mark' = [mark EXCEPT ![g] = sent]
        /\ UNCHANGED <<sent, out, dead, flushed, done>>
    BY <1>10 DEF FlushNow, FlushLater, Calls, stream, wrapper
  <2>2. mark'[g] = sent /\ \A f \in Flush \ {g} : mark'[f] = mark[f]
    BY <1>2, <2>1
  <2>3. ASSUME NEW f \in Flush \ {g}, Released(f)'
        PROVE  Released(f)
    <3>1. CASE FlushNow(g)
      <4>1. immediates' = Append(immediates, g)
        BY <3>1 DEF FlushNow
      <4>2. Count(Append(immediates, g), {f}) = Count(immediates, {f}) + (IF g \in {f} THEN 1 ELSE 0)
        BY <1>2, CountAppend
      <4>3. f \notin {g} /\ Count(immediates, {f}) \in Nat
        BY <1>3
      <4>4. Count(immediates', {f}) = Count(immediates, {f})
        BY <4>1, <4>2, <4>3
      <4> QED BY <2>1, <2>3, <4>4 DEF Released
    <3>2. CASE FlushLater(g)
      BY <2>1, <2>3, <3>2 DEF FlushLater, Released
    <3> QED BY <1>10, <3>1, <3>2
  <2>4. Released(g)' => dead \/ sent < out + HighWater
    <3>1. CASE FlushNow(g)
      <4>1. error \/ flushed
        BY <3>1 DEF FlushNow, Waits
      <4> QED BY <1>2, <4>1 DEF Inv, Prompt
    <3>2. CASE FlushLater(g)
      BY <1>4, <2>1, <3>2 DEF FlushLater, Released
    <3> QED BY <1>10, <3>1, <3>2
  <2>5. \A f \in Flush : mark'[f] # None => mark'[f] <= sent'
    BY <1>2, <1>4, <2>1, <2>2
  <2>6. \A f \in Flush : Released(f)' => dead' \/ mark'[f] < out' + HighWater
    BY <2>1, <2>2, <2>3, <2>4 DEF Inv, Prompt
  <2>7. flushed' => dead' \/ sent' < out' + HighWater
    BY <2>1 DEF Inv, Prompt
  <2> QED BY <1>1, <2>5, <2>6, <2>7 DEF Inv, Prompt
<1>11. CASE UNCHANGED vars
  BY <1>1, <1>11 DEF vars, stream, wrapper, Inv, Prompt, Released
<1> QED BY <1>5, <1>6, <1>7, <1>8, <1>9, <1>10, <1>11 DEF Next

LEMMA InvInit == Init => Inv
<1> SUFFICES ASSUME Init PROVE Inv
  OBVIOUS
<1>1. \A T : Count(<<>>, T) = 0
  BY CountEmpty
<1>2. <<>> \in Seq(Flush)
  BY EmptySeq
<1>3. Control
  <2>1. TypeOK
    <3>1. /\ sent = 0 /\ out = 0 /\ 0 \in 0 .. MaxWrites /\ 0 \in 0 .. 0
          /\ mark \in [Flush -> 0 .. MaxWrites \cup {None}] /\ done \subseteq Flush
      BY BufferAssumption DEF BufferAssumption, Init
    <3>2. /\ needDrain \in BOOLEAN /\ dead \in BOOLEAN /\ flushed \in BOOLEAN /\ error \in BOOLEAN
          /\ callbacks \in Seq(Flush) /\ immediates \in Seq(Flush)
      BY <1>2 DEF Init
    <3> QED BY <3>1, <3>2 DEF TypeOK
  <2> QED BY <2>1 DEF Init, Control, WaitingHasDrain
<1>4. InOnePlace
  BY <1>1 DEF Init, InOnePlace, Placed
<1>5. Prompt
  BY <1>1, BufferAssumption DEF BufferAssumption, Init, Prompt, Released
<1> QED BY <1>3, <1>4, <1>5 DEF Inv

\* The invariant the four results below are parts of: it holds through every
\* interleaving of the wrapper's handlers with the events of the stream.
THEOREM Invariance == Spec => []Inv
BY InvInit, InvStep, PTL DEF Spec

\* The variables of the wrapper and the stream have their types.
THEOREM WriteTypes == Spec => []TypeOK
<1>1. Inv => TypeOK
  BY DEF Inv, Control
<1> QED BY Invariance, <1>1, PTL

\* A callback that waits has a 'drain' coming, or a failure it is told of, for
\* every number of flushes and every high-water mark: none is left behind in
\* StreamWrapper's _callbacks.
THEOREM NoFlushLeftBehind == Spec => []WaitingHasDrain
<1>1. Inv => WaitingHasDrain
  BY DEF Inv, Control
<1> QED BY Invariance, <1>1, PTL

\* Every flush is called back at most once, whatever the order of 'drain',
\* 'error', 'finish' and 'close'.
THEOREM FlushedOnce == Spec => []FlushInOnePlace
<1>1. Inv => FlushInOnePlace
  BY InOnePlaceIs DEF Inv
<1> QED BY Invariance, <1>1, PTL

\* A flush that has returned leaves less than one high-water mark of what was
\* written before it in the stream, unless the stream failed.
THEOREM FlushesToHighWater == Spec => []FlushBound
<1>1. Inv => FlushBound
  <2> SUFFICES ASSUME Inv, NEW f \in done PROVE dead \/ mark[f] < out + HighWater
    BY DEF FlushBound
  <2>1. f \in Flush
    BY DEF Inv, Control, TypeOK
  <2> QED BY <2>1 DEF Inv, Prompt, Released
<1> QED BY Invariance, <1>1, PTL
=============================================================================
