-------------------------- MODULE StreamReadProofs --------------------------
(***************************************************************************)
(* What is proved about StreamRead: the bytes are read in their order,     *)
(* every read is in one place until it is answered, it is answered short   *)
(* only when the body is over, and it is never left with nothing to answer *)
(* it.                                                                     *)
(***************************************************************************)
EXTENDS StreamRead, Counting

Byte == 1 .. MaxBody
Task == Result \cup Queued

\* The wrapper has a read in progress exactly while the stream flows; that read
\* wants more than it has and all of what was left of the last chunk.
Control ==
  /\ TypeOK
  /\ inputEnd = over /\ (inputError => over)
  /\ flowing <=> reading # None
  /\ reading = None => got = <<>>
  /\ reading # None => ~over /\ want \in Sizes /\ Len(got) < want /\ leftover = <<>>

-----------------------------------------------------------------------------
LEMMA Cut ==
  ASSUME NEW S, NEW s \in Seq(S), NEW n \in 0 .. Len(s)
  PROVE  /\ SubSeq(s, 1, n) \in Seq(S) /\ Len(SubSeq(s, 1, n)) = n
         /\ SubSeq(s, n + 1, Len(s)) \in Seq(S)
         /\ SubSeq(s, 1, n) \o SubSeq(s, n + 1, Len(s)) = s
<1>1. /\ SubSeq(s, 1, n) \in Seq(S) /\ Len(SubSeq(s, 1, n)) = n
      /\ SubSeq(s, n + 1, Len(s)) \in Seq(S)
  OBVIOUS
<1>2. SubSeq(s, 1, n) \o SubSeq(s, n + 1, Len(s)) = SubSeq(s, 1, Len(s))
  <2>1. 1 \in 1 .. Len(s) + 1 /\ n \in 1 - 1 .. Len(s) /\ Len(s) \in n .. Len(s)
    OBVIOUS
  <2> QED BY <2>1, ConcatAdjacentSubSeq
<1> QED BY <1>1, <1>2, SubSeqFull

\* _onInputData takes a part of the buffer that fills the result, or all of it.
LEMMA InputDataCases ==
  ASSUME NEW r, NEW n \in Nat, NEW have \in Seq(Byte), NEW buffer \in Seq(Byte), NEW tasks,
         Len(have) <= n, InputData(r, n, have, buffer, tasks)
  PROVE  \/ \E amt \in 0 .. Len(buffer) :
              /\ Len(have) + amt = n
              /\ Complete(r, n, have \o SubSeq(buffer, 1, amt),
                          SubSeq(buffer, amt + 1, Len(buffer)), tasks)
         \/ Len(have) + Len(buffer) < n /\ NeedMore(r, n, have \o buffer, tasks)
<1> DEFINE room == n - Len(have)
           amt == IF Len(buffer) < room THEN Len(buffer) ELSE room
           result == have \o SubSeq(buffer, 1, amt)
<1>1. amt \in 0 .. Len(buffer) /\ room \in Nat
  OBVIOUS
<1>2. SubSeq(buffer, 1, amt) \in Seq(Byte) /\ Len(SubSeq(buffer, 1, amt)) = amt
  BY <1>1, Cut
<1>3. Len(result) = Len(have) + amt
  BY <1>2, ConcatProperties
<1>4. IF Full(result, n) THEN Complete(r, n, result, Left(buffer, amt), tasks)
                         ELSE NeedMore(r, n, result, tasks)
  BY Zenon DEF InputData
<1>5. CASE Len(result) = n
  BY <1>1, <1>3, <1>4, <1>5 DEF Full, Left
<1>6. CASE Len(result) # n
  <2>1. amt = Len(buffer) /\ Len(have) + Len(buffer) < n
    BY <1>1, <1>3, <1>6
  <2>2. SubSeq(buffer, 1, amt) = buffer
    BY <2>1, SubSeqFull
  <2> QED BY <1>4, <1>6, <2>1, <2>2 DEF Full
<1> QED BY <1>5, <1>6

\* The chunk of a 'data' event.
LEMMA Chunk ==
  ASSUME NEW m \in Nat, NEW k \in Nat, m + k <= MaxBody
  PROVE  /\ Bytes(m + 1, m + k) \in Seq(Byte) /\ Len(Bytes(m + 1, m + k)) = k
         /\ Bytes(1, m) \o Bytes(m + 1, m + k) = Bytes(1, m + k)
<1>1. /\ Bytes(m + 1, m + k) \in Seq(Byte) /\ Len(Bytes(m + 1, m + k)) = k
      /\ \A i \in 1 .. k : Bytes(m + 1, m + k)[i] = m + i
  BY SizeAssumption DEF SizeAssumption, Bytes, Byte
<1>2. /\ Bytes(1, m) \in Seq(Byte) /\ Len(Bytes(1, m)) = m
      /\ \A i \in 1 .. m : Bytes(1, m)[i] = i
  BY SizeAssumption DEF SizeAssumption, Bytes, Byte
<1>3. /\ Bytes(1, m + k) \in Seq(Byte) /\ Len(Bytes(1, m + k)) = m + k
      /\ \A i \in 1 .. m + k : Bytes(1, m + k)[i] = i
  BY SizeAssumption DEF SizeAssumption, Bytes, Byte
<1>4. /\ Bytes(1, m) \o Bytes(m + 1, m + k) \in Seq(Byte)
      /\ Len(Bytes(1, m) \o Bytes(m + 1, m + k)) = m + k
      /\ \A i \in 1 .. m + k : (Bytes(1, m) \o Bytes(m + 1, m + k))[i] = i
  <2>1. /\ Bytes(1, m) \o Bytes(m + 1, m + k) \in Seq(Byte)
        /\ Len(Bytes(1, m) \o Bytes(m + 1, m + k)) = m + k
        /\ \A i \in 1 .. m + k : (Bytes(1, m) \o Bytes(m + 1, m + k))[i] =
             IF i <= m THEN Bytes(1, m)[i] ELSE Bytes(m + 1, m + k)[i - m]
    BY <1>1, <1>2, ConcatProperties
  <2>2. ASSUME NEW i \in 1 .. m + k
        PROVE  (Bytes(1, m) \o Bytes(m + 1, m + k))[i] = i
    <3>1. CASE i <= m
      BY <1>2, <2>1, <3>1
    <3>2. CASE ~(i <= m)
      <4>1. i - m \in 1 .. k
        BY <3>2
      <4> QED BY <1>1, <2>1, <3>2, <4>1
    <3> QED BY <3>1, <3>2
  <2> QED BY <2>1, <2>2
<1> QED BY <1>1, <1>3, <1>4, SeqEqual

\* The queue of the reads that wait, when the first is taken from it.
LEMMA Shift ==
  ASSUME NEW S, NEW s \in Seq(S)
  PROVE  Shifted(s) \in Seq(S) /\ Remaining(s) \in Seq(S)
<1>1. CASE s = <<>>
  BY <1>1, EmptySeq DEF Shifted, Remaining
<1>2. CASE s # <<>>
  BY <1>2, HeadTailProperties DEF Shifted, Remaining
<1> QED BY <1>1, <1>2

-----------------------------------------------------------------------------
(***************************************************************************)
(* Types and control.                                                      *)
(***************************************************************************)

\* What the parts of the wrapper and the queue of immediates are, as far as
\* _onInputData and read change them.
Wrapped ==
  /\ flowing \in BOOLEAN /\ reading \in Read \cup {None} /\ want \in Sizes \cup {0}
  /\ got \in Seq(Byte) /\ leftover \in Seq(Byte) /\ served \in Seq(Byte)
  /\ waiting \in Seq(Queued) /\ immediates \in Seq(Task)
  /\ inputEnd \in BOOLEAN
  /\ flowing <=> reading # None
  /\ reading = None => got = <<>>
  /\ reading # None => want \in Sizes /\ Len(got) < want /\ leftover = <<>>

LEMMA ControlParts ==
  Control => /\ Wrapped /\ inputError \in BOOLEAN /\ over \in BOOLEAN
             /\ body \in 0 .. MaxBody /\ emitted \in 0 .. body
             /\ answer \in [Read -> Result \cup {None}] /\ called \subseteq Read
BY DEF Control, TypeOK, Wrapped, Byte, Task

LEMMA InputDataControl ==
  ASSUME Wrapped, inputError \in BOOLEAN,
         NEW r \in Read, NEW n \in Sizes, NEW have \in Seq(Byte), NEW buffer \in Seq(Byte),
         NEW tasks \in Seq(Task), Len(have) <= n, InputData(r, n, have, buffer, tasks)
  PROVE  Wrapped' /\ (inputEnd' => inputEnd) /\ (reading' # None => inputEnd' = inputEnd)
<1>1. n \in Nat /\ Sizes \subseteq Nat /\ None \notin Read
  BY SizeAssumption DEF SizeAssumption
<1>2. ASSUME NEW amt \in 0 .. Len(buffer),
             Complete(r, n, have \o SubSeq(buffer, 1, amt),
                      SubSeq(buffer, amt + 1, Len(buffer)), tasks)
      PROVE  Wrapped' /\ ~inputEnd' /\ reading' = None
  <2> DEFINE result == have \o SubSeq(buffer, 1, amt)
             rest == SubSeq(buffer, amt + 1, Len(buffer))
  <2>1. result \in Seq(Byte) /\ rest \in Seq(Byte) /\ <<>> \in Seq(Byte)
    BY Cut, ConcatProperties, EmptySeq
  <2> HIDE DEF result, rest
  <2>2. Answer(r, n, result) \in Task
    BY <2>1 DEF Answer, Task, Result, Byte
  <2>3. Shifted(waiting) \in Seq(Queued) /\ Remaining(waiting) \in Seq(Queued)
    BY Shift DEF Wrapped
  <2>4. <<Answer(r, n, result)>> \in Seq(Task) /\ Shifted(waiting) \in Seq(Task)
    <3>1. Queued \subseteq Task
      BY DEF Task
    <3> QED BY <2>2, <2>3, <3>1, SeqMonotonic
  <2>5. tasks \o <<Answer(r, n, result)>> \o Shifted(waiting) \in Seq(Task)
    BY <2>4, ConcatProperties
  <2>6. served \o result \in Seq(Byte)
    BY <2>1, ConcatProperties DEF Wrapped
  <2>7. Complete(r, n, result, rest, tasks)
    BY <1>2 DEF result, rest
  <2> QED BY <2>1, <2>3, <2>5, <2>6, <2>7 DEF Complete, Wrapped
<1>3. ASSUME Len(have) + Len(buffer) < n, NeedMore(r, n, have \o buffer, tasks)
      PROVE  Wrapped' /\ inputEnd' = inputEnd
  <2>1. have \o buffer \in Seq(Byte) /\ Len(have \o buffer) < n /\ <<>> \in Seq(Byte)
    BY <1>3, ConcatProperties, EmptySeq
  <2> QED BY <1>1, <1>3, <2>1 DEF NeedMore, Wrapped
<1> QED BY <1>1, <1>2, <1>3, InputDataCases

LEMMA StartReadControl ==
  ASSUME Wrapped, inputError \in BOOLEAN,
         NEW r \in Read, NEW n \in Sizes, NEW tasks \in Seq(Task), StartRead(r, n, tasks)
  PROVE  /\ Wrapped' /\ inputEnd' = inputEnd
         /\ reading' # None => reading # None \/ ~inputEnd
<1>1. n \in Nat /\ None \notin Read /\ <<>> \in Seq(Byte) /\ Len(<<>>) = 0
  BY SizeAssumption, EmptySeq DEF SizeAssumption
<1>2. CASE Queue(r, n, tasks)
  <2>1. [fn |-> "read", call |-> r, size |-> n] \in Queued
    BY DEF Queued
  <2>2. waiting' \in Seq(Queued)
    BY <1>2, <2>1, AppendProperties DEF Queue, Wrapped
  <2> QED BY <1>2, <2>2 DEF Queue, Wrapped, current
<1>3. CASE AnswerAtEnd(r, n, tasks)
  <2>1. Answer(r, n, <<>>) \in Task
    BY <1>1 DEF Answer, Task, Result, Byte
  <2>2. immediates' \in Seq(Task)
    BY <1>3, <2>1, AppendProperties DEF AnswerAtEnd
  <2> QED BY <1>3, <2>2 DEF AnswerAtEnd, Wrapped, current
<1>4. CASE FromLeftover(r, n, tasks)
  <2>1. InputData(r, n, <<>>, leftover, tasks) /\ ~inputEnd /\ leftover \in Seq(Byte)
        /\ inputEnd \in BOOLEAN
    BY <1>4 DEF FromLeftover, Wrapped
  <2>2. <<>> \in Seq(Byte) /\ Len(<<>>) <= n
    BY <1>1
  <2>3. Wrapped' /\ (inputEnd' => inputEnd)
    BY <2>1, <2>2, InputDataControl
  <2> QED BY <2>1, <2>3 DEF Wrapped
<1>5. CASE FromStream(r, n, tasks)
  BY <1>1, <1>5 DEF FromStream, Wrapped
<1> QED BY <1>2, <1>3, <1>4, <1>5 DEF StartRead

LEMMA InputEndControl ==
  ASSUME Control, NEW err \in BOOLEAN, InputEnd(err)
  PROVE  Wrapped' /\ inputEnd' /\ reading' = None
<1>1. None \notin Read /\ <<>> \in Seq(Byte) /\ <<>> \in Seq(Queued)
  BY SizeAssumption, EmptySeq DEF SizeAssumption
<1>2. Wrapped
  BY ControlParts
<1>3. waiting \in Seq(Task)
  <2>1. Queued \subseteq Task
    BY DEF Task
  <2> QED BY <1>2, <2>1, SeqMonotonic DEF Wrapped
<1> DEFINE first == IF reading = None THEN immediates ELSE Append(immediates, Final(got, err))
<1>4. first \in Seq(Task)
  <2>1. CASE reading = None
    BY <1>2, <2>1 DEF Wrapped
  <2>2. CASE reading # None
    <3>1. Final(got, err) \in Task
      BY <1>2, <2>2 DEF Final, Wrapped, Task, Result, Byte
    <3> QED BY <1>2, <2>2, <3>1, AppendProperties DEF Wrapped
  <2> QED BY <2>1, <2>2
<1>5. first \o waiting \in Seq(Task)
  BY <1>3, <1>4, ConcatProperties
<1>6. served \o got \in Seq(Byte)
  BY <1>2, ConcatProperties DEF Wrapped
<1>7. immediates' = first \o waiting
  BY Zenon DEF InputEnd
<1> QED BY <1>1, <1>2, <1>5, <1>6, <1>7 DEF InputEnd, Wrapped

LEMMA TakeTask ==
  ASSUME Control, TakeImmediate
  PROVE  /\ Head(immediates) \in Task /\ Tail(immediates) \in Seq(Task)
         /\ immediates # <<>> /\ checking' \in Nat
         /\ Head(immediates).fn = "cb" => Head(immediates) \in Result
         /\ Head(immediates).fn = "read" => Head(immediates) \in Queued
<1>1. immediates \in Seq(Task) /\ immediates # <<>> /\ checking \in Nat
  BY DEF Control, TypeOK, TakeImmediate, Task, Byte
<1>2. Head(immediates) \in Task /\ Tail(immediates) \in Seq(Task) /\ Len(immediates) \in Nat \ {0}
  BY <1>1, HeadTailProperties, EmptySeq
<1>3. checking' \in Nat
  BY <1>1, <1>2 DEF TakeImmediate
<1>4. \A x \in Task : (x.fn = "cb" => x \in Result) /\ (x.fn = "read" => x \in Queued)
  BY DEF Task, Result, Queued
<1> QED BY <1>1, <1>2, <1>3, <1>4

LEMMA ControlStep ==
  ASSUME Control, [Next]_vars
  PROVE  Control'
<1>0. /\ Wrapped /\ inputError \in BOOLEAN /\ over \in BOOLEAN /\ None \notin Read
      /\ body \in 0 .. MaxBody /\ emitted \in 0 .. body /\ MaxBody \in Nat
      /\ answer \in [Read -> Result \cup {None}] /\ called \subseteq Read
      /\ ending \in BOOLEAN /\ checking \in Nat /\ Sizes \subseteq Nat
      /\ inputEnd = over /\ (inputError => over)
      /\ (reading # None => ~over)
  BY ControlParts, SizeAssumption DEF SizeAssumption, Control, TypeOK
<1>1. ASSUME /\ Wrapped' /\ inputError' \in BOOLEAN /\ over' \in BOOLEAN
             /\ body' \in 0 .. MaxBody /\ emitted' \in 0 .. body'
             /\ answer' \in [Read -> Result \cup {None}] /\ called' \subseteq Read
             /\ ending' \in BOOLEAN /\ checking' \in Nat
             /\ inputEnd' = over' /\ (inputError' => over')
             /\ (reading' # None => ~over')
      PROVE  Control'
  BY <1>1 DEF Control, TypeOK, Wrapped, Task, Byte
<1>2. ASSUME NEW r \in Read, NEW n \in Sizes, CallRead(r, n)
      PROVE  Control'
  <2>1. /\ StartRead(r, n, immediates) /\ called' = called \cup {r}
        /\ UNCHANGED <<body, emitted, ending, over, inputError, checking, answer>>
    BY <1>2 DEF CallRead, source
  <2>2. Wrapped' /\ inputEnd' = inputEnd /\ (reading' # None => reading # None \/ ~inputEnd)
    BY <1>0, <2>1, StartReadControl DEF Wrapped
  <2> QED BY <1>0, <1>1, <2>1, <2>2
<1>3. CASE RunCallback
  <2>1. /\ TakeImmediate /\ immediates' = Tail(immediates) /\ Head(immediates).fn = "cb"
        /\ answer' = [answer EXCEPT ![Head(immediates).call] = Head(immediates)]
        /\ UNCHANGED <<body, emitted, ending, over, inputError, inputEnd, called, waiting,
                       reading, want, got, leftover, flowing, served>>
    BY <1>3 DEF RunCallback, source, current, ends
  <2>2. Tail(immediates) \in Seq(Task) /\ checking' \in Nat /\ Head(immediates) \in Result
    BY <2>1, TakeTask
  <2>3. answer' \in [Read -> Result \cup {None}]
    BY <1>0, <2>1, <2>2
  <2>4. Wrapped'
    BY <1>0, <2>1, <2>2 DEF Wrapped
  <2> QED BY <1>0, <1>1, <2>1, <2>2, <2>3, <2>4
<1>4. CASE RunRead
  <2> DEFINE h == Head(immediates)
  <2>1. /\ TakeImmediate /\ h.fn = "read" /\ StartRead(h.call, h.size, Tail(immediates))
        /\ UNCHANGED <<body, emitted, ending, over, inputError, called, answer>>
    BY <1>4 DEF RunRead, source
  <2>2. h \in Queued /\ Tail(immediates) \in Seq(Task) /\ checking' \in Nat
    BY <2>1, TakeTask
  <2>3. h.call \in Read /\ h.size \in Sizes
    BY <2>2 DEF Queued
  <2>4. Wrapped' /\ inputEnd' = inputEnd /\ (reading' # None => reading # None \/ ~inputEnd)
    BY <1>0, <2>1, <2>2, <2>3, StartReadControl
  <2> QED BY <1>0, <1>1, <2>1, <2>2, <2>4
<1>5. ASSUME NEW k \in 1 .. MaxChunk, Data(k)
      PROVE  Control'
  <2>1. /\ InputData(reading, want, got, Bytes(emitted + 1, emitted + k), immediates)
        /\ flowing /\ ~over /\ emitted + k <= body /\ emitted' = emitted + k
        /\ ending' \in {FALSE, emitted' = body}
        /\ UNCHANGED <<body, over, inputError, checking, called, answer>>
    BY <1>5 DEF Data
  <2>2. k \in Nat /\ emitted \in Nat /\ emitted + k <= MaxBody
    BY <1>0, <2>1, SizeAssumption DEF SizeAssumption
  <2>3. Bytes(emitted + 1, emitted + k) \in Seq(Byte)
    BY <2>2, Chunk
  <2>4. /\ reading \in Read /\ want \in Sizes /\ got \in Seq(Byte) /\ Len(got) <= want
        /\ immediates \in Seq(Task)
    BY <1>0, <2>1 DEF Wrapped
  <2>5. Wrapped' /\ (inputEnd' => inputEnd) /\ (reading' # None => inputEnd' = inputEnd)
    BY <1>0, <2>1, <2>3, <2>4, InputDataControl
  <2>6. inputEnd' = over' /\ ~over'
    BY <1>0, <2>1, <2>5 DEF Wrapped
  <2>7. emitted' \in 0 .. body' /\ ending' \in BOOLEAN
    <3>1. emitted' \in 0 .. body'
      BY <1>0, <2>1, <2>2
    <3>2. (emitted' = body) \in BOOLEAN
      OBVIOUS
    <3>3. ending' \in BOOLEAN
      BY <2>1, <3>2, Zenon
    <3> QED BY <3>1, <3>3
  <2> QED BY <1>0, <1>1, <2>1, <2>5, <2>6, <2>7
<1>6. ASSUME NEW err \in BOOLEAN, InputEnd(err)
      PROVE  Control'
  <2>1. Wrapped' /\ inputEnd' /\ reading' = None
    BY <1>6, InputEndControl
  <2>2. /\ over' = TRUE /\ ending' = FALSE /\ inputError' = err /\ inputEnd' = TRUE
        /\ UNCHANGED <<body, emitted, checking, called, answer>>
    BY <1>6 DEF InputEnd
  <2> QED BY <1>0, <1>1, <1>6, <2>1, <2>2
<1>7. CASE UNCHANGED vars
  BY <1>7 DEF vars, source, current, ends, Control, TypeOK
<1> QED BY <1>2, <1>3, <1>4, <1>5, <1>6, <1>7 DEF Next, End, Error

LEMMA ControlInit == Init => Control
<1>1. <<>> \in Seq(Byte) /\ <<>> \in Seq(Queued) /\ <<>> \in Seq(Task)
  BY EmptySeq
<1>2. ASSUME Init PROVE ending \in BOOLEAN
  <2>1. (body = 0 /\ ~over) \in BOOLEAN
    OBVIOUS
  <2> QED BY <1>2, <2>1, Zenon DEF Init
<1>3. ASSUME Init PROVE Control
  <2>1. /\ body \in 0 .. MaxBody /\ over \in BOOLEAN /\ inputEnd = over
        /\ emitted = 0 /\ flowing = FALSE /\ inputError = FALSE
        /\ reading = None /\ want = 0 /\ checking = 0 /\ called = {}
        /\ got = <<>> /\ leftover = <<>> /\ waiting = <<>> /\ immediates = <<>>
        /\ served = <<>> /\ ending \in BOOLEAN
    BY <1>2, <1>3 DEF Init
  <2>2. answer \in [Read -> Result \cup {None}]
    BY <1>3 DEF Init
  <2>3. /\ got \in Seq(Byte) /\ leftover \in Seq(Byte) /\ served \in Seq(Byte)
        /\ waiting \in Seq(Queued) /\ immediates \in Seq(Task)
    BY <1>1, <2>1, Zenon
  <2>4. emitted \in 0 .. body /\ checking \in Nat
    BY <2>1, SizeAssumption DEF SizeAssumption
  <2>5. TypeOK
    BY <2>1, <2>2, <2>3, <2>4 DEF TypeOK, Byte, Task
  <2> QED BY <2>1, <2>5 DEF Control
<1> QED BY <1>3

\* The read in progress, the flow of the stream and its end fit together.
THEOREM Controlled == Spec => []Control
BY ControlInit, ControlStep, PTL DEF Spec

-----------------------------------------------------------------------------
(***************************************************************************)
(* The order of the bytes.                                                 *)
(***************************************************************************)

\* The bytes that were read, in the order the code puts them in.
AllBytes == served \o got \o leftover

\* _onInputData puts the buffer behind what the read had.
LEMMA InputDataOrder ==
  ASSUME Wrapped, NEW r, NEW n \in Nat, NEW have \in Seq(Byte), NEW buffer \in Seq(Byte),
         NEW tasks, Len(have) <= n, InputData(r, n, have, buffer, tasks)
  PROVE  AllBytes' = (served \o have) \o buffer
<1>0. served \in Seq(Byte) /\ served \o have \in Seq(Byte)
  BY ConcatProperties DEF Wrapped
<1>1. ASSUME NEW amt \in 0 .. Len(buffer),
             Complete(r, n, have \o SubSeq(buffer, 1, amt),
                      SubSeq(buffer, amt + 1, Len(buffer)), tasks)
      PROVE  AllBytes' = (served \o have) \o buffer
  <2> DEFINE first == SubSeq(buffer, 1, amt)
             rest == SubSeq(buffer, amt + 1, Len(buffer))
  <2>1. first \in Seq(Byte) /\ rest \in Seq(Byte) /\ first \o rest = buffer
    BY Cut
  <2>2. served' = served \o (have \o first) /\ got' = <<>> /\ leftover' = rest
    BY <1>1 DEF Complete
  <2> HIDE DEF first, rest
  <2>3. served \o (have \o first) \in Seq(Byte)
    BY <1>0, <2>1, ConcatProperties
  <2>4. served' \o got' = served \o (have \o first)
    BY <2>2, <2>3, ConcatEmptySeq
  <2>5. AllBytes' = served \o (have \o first) \o rest
    BY <2>2, <2>4 DEF AllBytes
  <2>6. served \o (have \o first) \o rest = (served \o have) \o (first \o rest)
    <3>1. PICK s \in Seq(Byte), t \in Seq(Byte), u \in Seq(Byte) :
                 s = served /\ t = first /\ u = rest
      BY <1>0, <2>1
    <3>2. PICK w \in Seq(Byte) : w = s \o have
      BY ConcatProperties
    <3>3. s \o (have \o t) = (s \o have) \o t
      BY ConcatAssociative, SMTT(60)
    <3>4. (w \o t) \o u = w \o (t \o u)
      BY ConcatAssociative, SMTT(60)
    <3> QED BY ONLY <3>1, <3>2, <3>3, <3>4
  <2> QED BY <2>1, <2>5, <2>6
<1>2. ASSUME NeedMore(r, n, have \o buffer, tasks)
      PROVE  AllBytes' = (served \o have) \o buffer
  <2>1. served' = served /\ got' = have \o buffer /\ leftover' = <<>>
    BY <1>2 DEF NeedMore
  <2>2. served \o (have \o buffer) = (served \o have) \o buffer
        /\ (served \o have) \o buffer \in Seq(Byte)
    BY <1>0, ConcatAssociative, ConcatProperties
  <2> QED BY <2>1, <2>2, ConcatEmptySeq DEF AllBytes
<1> QED BY <1>1, <1>2, InputDataCases

LEMMA StartReadOrder ==
  ASSUME Wrapped, NEW r, NEW n \in Nat, NEW tasks, StartRead(r, n, tasks)
  PROVE  AllBytes' = AllBytes
<1>0. served \in Seq(Byte) /\ leftover \in Seq(Byte) /\ <<>> \in Seq(Byte) /\ Len(<<>>) <= n
  BY EmptySeq DEF Wrapped
<1>1. CASE Queue(r, n, tasks) \/ AnswerAtEnd(r, n, tasks)
  BY <1>1 DEF Queue, AnswerAtEnd, current, AllBytes
<1>2. CASE FromLeftover(r, n, tasks)
  <2>1. reading = None /\ InputData(r, n, <<>>, leftover, tasks)
    BY <1>2 DEF FromLeftover
  <2>2. got = <<>>
    BY <2>1 DEF Wrapped
  <2> QED BY <1>0, <2>1, <2>2, InputDataOrder DEF AllBytes
<1>3. CASE FromStream(r, n, tasks)
  <2>1. got = <<>> /\ got' = <<>> /\ UNCHANGED <<leftover, served>>
    BY <1>3 DEF FromStream, Wrapped
  <2> QED BY <2>1 DEF AllBytes
<1> QED BY <1>1, <1>2, <1>3 DEF StartRead

LEMMA OrderStep ==
  ASSUME Control, BytesInOrder, [Next]_vars
  PROVE  BytesInOrder'
<1>0. /\ Wrapped /\ MaxBody \in Nat /\ Sizes \subseteq Nat
      /\ body \in 0 .. MaxBody /\ emitted \in 0 .. body
  BY ControlParts, SizeAssumption DEF SizeAssumption
<1>1. AllBytes = Bytes(1, emitted)
  BY DEF AllBytes, BytesInOrder
<1>2. ASSUME AllBytes' = AllBytes, emitted' = emitted PROVE BytesInOrder'
  BY <1>1, <1>2 DEF AllBytes, BytesInOrder
<1>3. ASSUME NEW r \in Read, NEW n \in Sizes, CallRead(r, n)
      PROVE  BytesInOrder'
  BY <1>0, <1>2, <1>3, StartReadOrder DEF CallRead, source
<1>4. CASE RunCallback \/ UNCHANGED vars
  BY <1>2, <1>4 DEF RunCallback, vars, source, current, AllBytes
<1>5. CASE RunRead
  <2>1. Head(immediates) \in Queued
    BY <1>5, TakeTask DEF RunRead
  <2>2. Head(immediates).size \in Nat
    BY <1>0, <2>1 DEF Queued
  <2> QED BY <1>0, <1>2, <1>5, <2>2, StartReadOrder DEF RunRead, source
<1>6. ASSUME NEW k \in 1 .. MaxChunk, Data(k)
      PROVE  BytesInOrder'
  <2> DEFINE chunk == Bytes(emitted + 1, emitted + k)
  <2>1. /\ InputData(reading, want, got, chunk, immediates)
        /\ reading # None /\ emitted + k <= body /\ emitted' = emitted + k
    BY <1>0, <1>6 DEF Data, Wrapped
  <2>2. k \in Nat /\ emitted \in Nat /\ emitted + k <= MaxBody
    BY <1>0, <2>1, SizeAssumption DEF SizeAssumption
  <2>3. chunk \in Seq(Byte) /\ Bytes(1, emitted) \o chunk = Bytes(1, emitted')
    BY <2>1, <2>2, Chunk
  <2>4. want \in Nat /\ got \in Seq(Byte) /\ Len(got) <= want /\ leftover = <<>>
        /\ served \in Seq(Byte)
    BY <1>0, <2>1 DEF Wrapped
  <2> HIDE DEF chunk
  <2>5. AllBytes' = (served \o got) \o chunk
    BY <1>0, <2>1, <2>3, <2>4, InputDataOrder
  <2>6. served \o got = AllBytes
    <3>1. served \o got \in Seq(Byte)
      BY <2>4, ConcatProperties
    <3> QED BY <2>4, <3>1, ConcatEmptySeq DEF AllBytes
  <2> QED BY <1>1, <2>3, <2>5, <2>6 DEF AllBytes, BytesInOrder
<1>7. ASSUME NEW err \in BOOLEAN, InputEnd(err)
      PROVE  BytesInOrder'
  <2>1. served' = served \o got /\ got' = <<>> /\ UNCHANGED <<leftover, emitted>>
    BY <1>7 DEF InputEnd
  <2>2. served \o got \in Seq(Byte)
    BY <1>0, ConcatProperties DEF Wrapped
  <2>3. served' \o got' = served \o got
    BY <2>1, <2>2, ConcatEmptySeq
  <2> QED BY <1>2, <2>1, <2>3 DEF AllBytes
<1> QED BY <1>3, <1>4, <1>5, <1>6, <1>7 DEF Next, End, Error

\* The body reaches PHP in order and whole, for every body, every cut into
\* chunks, and every sequence of reads of any sizes.
THEOREM ReadInOrder == Spec => []BytesInOrder
<1>1. Init => BytesInOrder
  <2>1. Bytes(1, 0) = <<>>
    BY DEF Bytes
  <2> QED BY <2>1 DEF Init, BytesInOrder
<1> QED BY <1>1, OrderStep, Controlled, PTL DEF Spec

\* The stream flows only while a read wants its data: _onInputData finds an
\* inputResult, with room in it.
THEOREM DataIsRead == Spec => []DataHasReader
<1>1. Control => DataHasReader
  BY DEF Control, DataHasReader
<1> QED BY <1>1, Controlled, PTL

\* The fields of the wrapper and what is queued for a later turn keep their types.
THEOREM ReadTypes == Spec => []TypeOK
<1>1. Control => TypeOK
  BY DEF Control
<1> QED BY <1>1, Controlled, PTL

-----------------------------------------------------------------------------
(***************************************************************************)
(* Where the reads are.                                                    *)
(***************************************************************************)

\* The tasks of one read.
Of(q) == {x \in Task : x.call = q}

Is(a, b) == IF a = b THEN 1 ELSE 0

LEMMA PlacesAre ==
  ASSUME Wrapped, NEW q
  PROVE  /\ Places(q) = Is(reading, q) + Count(waiting, Of(q)) + Count(immediates, Of(q))
         /\ Count(waiting, Of(q)) \in Nat /\ Count(immediates, Of(q)) \in Nat
<1>1. waiting \in Seq(Task) /\ immediates \in Seq(Task)
  <2>1. Queued \subseteq Task
    BY DEF Task
  <2> QED BY <2>1, SeqMonotonic DEF Wrapped
<1>2. Occurrences(waiting, Of(q)) = {i \in 1 .. Len(waiting) : waiting[i].call = q}
  BY <1>1 DEF Occurrences, Of
<1>3. Occurrences(immediates, Of(q)) = {i \in 1 .. Len(immediates) : immediates[i].call = q}
  BY <1>1 DEF Occurrences, Of
<1> QED BY <1>1, <1>2, <1>3, CountType DEF Places, Count, Is

LEMMA CountShift ==
  ASSUME NEW S, NEW s \in Seq(S), NEW T
  PROVE  Count(Shifted(s), T) + Count(Remaining(s), T) = Count(s, T)
<1>1. CASE s = <<>>
  BY <1>1, CountEmpty DEF Shifted, Remaining
<1>2. CASE s # <<>>
  <2>1. Head(s) \in S /\ Tail(s) \in Seq(S)
    BY <1>2, HeadTailProperties
  <2>2. Count(<<Head(s)>>, T) = (IF Head(s) \in T THEN 1 ELSE 0)
    BY <2>1, CountOne DEF Is
  <2>3. Count(s, T) = Count(Tail(s), T) + (IF Head(s) \in T THEN 1 ELSE 0)
    BY <1>2, CountTail DEF Is
  <2>4. Count(Tail(s), T) \in Nat
    BY <2>1, CountType
  <2> QED BY <1>2, <2>2, <2>3, <2>4 DEF Shifted, Remaining, Is
<1> QED BY <1>1, <1>2

LEMMA InputDataPlaces ==
  ASSUME Wrapped, inputError \in BOOLEAN,
         NEW r \in Read, NEW n \in Sizes, NEW have \in Seq(Byte), NEW buffer \in Seq(Byte),
         NEW tasks \in Seq(Task), Len(have) <= n, InputData(r, n, have, buffer, tasks), NEW q \in Read
  PROVE  Is(reading', q) + Count(waiting', Of(q)) + Count(immediates', Of(q))
           = Is(r, q) + Count(waiting, Of(q)) + Count(tasks, Of(q))
<1>1. n \in Nat /\ None \notin Read /\ waiting \in Seq(Queued) /\ Queued \subseteq Task
  BY SizeAssumption DEF SizeAssumption, Wrapped, Task
<1>2. waiting \in Seq(Task)
  BY <1>1, SeqMonotonic
<1>3. Count(waiting, Of(q)) \in Nat /\ Count(tasks, Of(q)) \in Nat
  BY <1>2, CountType
<1>4. ASSUME NEW amt \in 0 .. Len(buffer),
             Complete(r, n, have \o SubSeq(buffer, 1, amt),
                      SubSeq(buffer, amt + 1, Len(buffer)), tasks)
      PROVE  Is(reading', q) + Count(waiting', Of(q)) + Count(immediates', Of(q))
               = Is(r, q) + Count(waiting, Of(q)) + Count(tasks, Of(q))
                
  <2> DEFINE result == have \o SubSeq(buffer, 1, amt)
             answered == Answer(r, n, result)
             next == Shifted(waiting)
             rest == Remaining(waiting)
  <2>1. immediates' = tasks \o <<answered>> \o next /\ waiting' = rest /\ reading' = None
    BY <1>4 DEF Complete
  <2>2. answered \in Task /\ (answered \in Of(q) <=> r = q)
    <3>1. result \in Seq(Byte)
      BY Cut, ConcatProperties
    <3>2. answered \in Task /\ answered.call = r
      BY <3>1 DEF Answer, Task, Result, Byte
    <3> QED BY <3>2 DEF Of
  <2>3. next \in Seq(Task) /\ rest \in Seq(Task)
    BY <1>2, Shift
  <2>4. Count(next, Of(q)) + Count(rest, Of(q)) = Count(waiting, Of(q))
    BY <1>2, CountShift
  <2> HIDE DEF answered, next, rest
  <2>5. Count(tasks \o <<answered>> \o next, Of(q))
          = Count(tasks, Of(q)) + (IF answered \in Of(q) THEN 1 ELSE 0) + Count(next, Of(q))
    BY <2>2, <2>3, CountBetween DEF Is
  <2>6. Count(immediates', Of(q)) = Count(tasks, Of(q)) + Is(r, q) + Count(next, Of(q))
    BY <2>1, <2>2, <2>5 DEF Is
  <2>7. /\ Count(next, Of(q)) \in Nat /\ Count(rest, Of(q)) \in Nat
        /\ Is(r, q) \in Nat /\ Is(reading', q) = 0
    BY <1>1, <2>1, <2>3, CountType DEF Is
  <2> QED BY <1>3, <2>1, <2>4, <2>6, <2>7
<1>5. ASSUME NeedMore(r, n, have \o buffer, tasks)
      PROVE  Is(reading', q) + Count(waiting', Of(q)) + Count(immediates', Of(q))
               = Is(r, q) + Count(waiting, Of(q)) + Count(tasks, Of(q))
                
  BY <1>1, <1>3, <1>5 DEF NeedMore, Is
<1> QED BY <1>1, <1>4, <1>5, InputDataCases

LEMMA StartReadPlaces ==
  ASSUME Wrapped, inputError \in BOOLEAN,
         NEW r \in Read, NEW n \in Sizes, NEW tasks \in Seq(Task), StartRead(r, n, tasks),
         NEW q \in Read
  PROVE  Is(reading', q) + Count(waiting', Of(q)) + Count(immediates', Of(q))
           = Is(reading, q) + Is(r, q) + Count(waiting, Of(q)) + Count(tasks, Of(q))
<1>1. /\ n \in Nat /\ None \notin Read /\ waiting \in Seq(Task)
      /\ <<>> \in Seq(Byte) /\ Len(<<>>) = 0
  <2>1. Queued \subseteq Task
    BY DEF Task
  <2> QED BY <2>1, SizeAssumption, SeqMonotonic, EmptySeq DEF SizeAssumption, Wrapped
<1>2. /\ Count(waiting, Of(q)) \in Nat /\ Count(tasks, Of(q)) \in Nat
      /\ Is(reading, q) \in Nat /\ Is(r, q) \in Nat
  BY <1>1, CountType DEF Is
<1>3. CASE Queue(r, n, tasks)
  <2> DEFINE later == [fn |-> "read", call |-> r, size |-> n]
  <2>1. later \in Task /\ (later \in Of(q) <=> r = q)
    BY DEF Task, Queued, Of
  <2>2. waiting' = Append(waiting, later) /\ immediates' = tasks /\ reading' = reading
    BY <1>3 DEF Queue, current
  <2> HIDE DEF later
  <2>3. Count(waiting', Of(q)) = Count(waiting, Of(q)) + Is(r, q)
    BY <1>1, <2>1, <2>2, CountAppend DEF Is
  <2> QED BY <1>2, <2>2, <2>3
<1>4. CASE AnswerAtEnd(r, n, tasks)
  <2>1. Answer(r, n, <<>>) \in Task /\ Answer(r, n, <<>>).call = r
    BY <1>1 DEF Answer, Task, Result, Byte
  <2>2. PICK answered \in Task : answered = Answer(r, n, <<>>) /\ (answered \in Of(q) <=> r = q)
    BY <2>1 DEF Of
  <2>3. immediates' = Append(tasks, answered) /\ waiting' = waiting /\ reading' = reading
    BY <1>4, <2>2 DEF AnswerAtEnd, current
  <2>4. Count(immediates', Of(q)) = Count(tasks, Of(q)) + Is(r, q)
    BY <2>2, <2>3, CountAppend DEF Is
  <2> QED BY <1>2, <2>3, <2>4
<1>5. CASE FromLeftover(r, n, tasks)
  <2>1. InputData(r, n, <<>>, leftover, tasks) /\ leftover \in Seq(Byte) /\ reading = None
    BY <1>5 DEF FromLeftover, Wrapped
  <2>2. Is(reading', q) + Count(waiting', Of(q)) + Count(immediates', Of(q))
          = Is(r, q) + Count(waiting, Of(q)) + Count(tasks, Of(q))
    <3>1. <<>> \in Seq(Byte) /\ Len(<<>>) <= n
      BY <1>1
    <3> QED BY <2>1, <3>1, InputDataPlaces
  <2>3. Is(reading, q) = 0
    BY <1>1, <2>1 DEF Is
  <2> QED BY <1>2, <2>2, <2>3
<1>6. CASE FromStream(r, n, tasks)
  BY <1>1, <1>2, <1>6 DEF FromStream, Is
<1> QED BY <1>3, <1>4, <1>5, <1>6 DEF StartRead

LEMMA InputEndPlaces ==
  ASSUME Wrapped, NEW err \in BOOLEAN, InputEnd(err), NEW q \in Read
  PROVE  Is(reading', q) + Count(waiting', Of(q)) + Count(immediates', Of(q))
           = Is(reading, q) + Count(waiting, Of(q)) + Count(immediates, Of(q))
<1>1. None \notin Read /\ immediates \in Seq(Task)
  BY SizeAssumption DEF SizeAssumption, Wrapped
<1>2. waiting \in Seq(Task)
  <2>1. Queued \subseteq Task
    BY DEF Task
  <2> QED BY <2>1, SeqMonotonic DEF Wrapped
<1>3. /\ Count(waiting, Of(q)) \in Nat /\ Count(immediates, Of(q)) \in Nat
      /\ Count(<<>>, Of(q)) = 0 /\ Is(reading, q) \in Nat
  BY <1>1, <1>2, CountType, CountEmpty DEF Is
<1>4. PICK first \in Seq(Task) :
        /\ first = IF reading = None THEN immediates ELSE Append(immediates, Final(got, err))
        /\ Count(first, Of(q)) = Count(immediates, Of(q)) + Is(reading, q)
  <2>1. CASE reading = None
    BY <1>1, <1>3, <2>1 DEF Is
  <2>2. CASE reading # None
    <3>1. Final(got, err) \in Task /\ Final(got, err).call = reading
      BY <2>2 DEF Final, Wrapped, Task, Result, Byte
    <3>2. PICK final \in Task : final = Final(got, err) /\ (final \in Of(q) <=> reading = q)
      BY <3>1 DEF Of
    <3>3. Append(immediates, final) \in Seq(Task)
      BY <1>1, AppendProperties
    <3>4. Count(Append(immediates, final), Of(q)) = Count(immediates, Of(q)) + Is(reading, q)
      BY <1>1, <3>2, CountAppend DEF Is
    <3> QED BY <2>2, <3>2, <3>3, <3>4
  <2> QED BY <2>1, <2>2
<1>5. immediates' = first \o waiting /\ waiting' = <<>> /\ reading' = None
  BY <1>4, Zenon DEF InputEnd
<1>6. Count(immediates', Of(q)) = Count(first, Of(q)) + Count(waiting, Of(q))
  BY <1>2, <1>5, CountConcat
<1>7. Is(reading', q) = 0
  BY <1>1, <1>5 DEF Is
<1> QED BY <1>3, <1>4, <1>5, <1>6, <1>7

\* A read has a place from its call to its answer.
Placed ==
  /\ ReadInOnePlace
  /\ \A q \in Read \ called : answer[q] = None

PlacesOf(q) == Is(reading, q) + Count(waiting, Of(q)) + Count(immediates, Of(q))

Pending(q) == (IF q \in called /\ answer[q] = None THEN 1 ELSE 0)

LEMMA WrappedThen == (Control => Wrapped)'
<1>1. Control => Wrapped
  BY ControlParts
<1> QED BY <1>1, PTL

LEMMA PlacesOfPlaces == (Wrapped => \A q : PlacesOf(q) = Places(q))'
<1>1. Wrapped => \A q : PlacesOf(q) = Places(q)
  BY PlacesAre DEF PlacesOf
<1> QED BY <1>1, PTL

LEMMA PlacesStep ==
  ASSUME Control, Control', Placed, [Next]_vars
  PROVE  Placed'
<1>0. /\ Wrapped /\ Wrapped' /\ inputError \in BOOLEAN
      /\ None \notin Read /\ None \notin Result
      /\ answer \in [Read -> Result \cup {None}] /\ called \subseteq Read
  <2>1. None \notin Read /\ None \notin Result
    BY SizeAssumption DEF SizeAssumption
  <2>2. Wrapped'
    BY WrappedThen
  <2> QED BY <2>1, <2>2, ControlParts
<1>1. ASSUME NEW q \in Read
      PROVE  /\ PlacesOf(q)' = Places(q)' /\ PlacesOf(q) = Pending(q)
             /\ q \notin called => answer[q] = None
             /\ Count(waiting, Of(q)) \in Nat /\ Count(immediates, Of(q)) \in Nat
  <2>1. /\ PlacesOf(q) = Places(q)
        /\ Count(waiting, Of(q)) \in Nat /\ Count(immediates, Of(q)) \in Nat
    BY <1>0, PlacesAre DEF PlacesOf
  <2>2. PlacesOf(q)' = Places(q)'
    BY <1>0, PlacesOfPlaces
  <2>3. Places(q) = Pending(q) /\ (q \notin called => answer[q] = None)
    BY DEF Placed, ReadInOnePlace, Is, Pending
  <2> QED BY <2>1, <2>2, <2>3
<1>2. ASSUME \A q \in Read : /\ PlacesOf(q)' = (IF q \in called' /\ answer'[q] = None THEN 1 ELSE 0)
                             /\ q \notin called' => answer'[q] = None
      PROVE  Placed'
  <2>1. ASSUME NEW q \in Read
        PROVE  Places(q)' = IF q \in called' /\ answer'[q] = None THEN 1 ELSE 0
    BY <1>1, <1>2 DEF Is
  <2> QED BY <1>2, <2>1 DEF Placed, ReadInOnePlace
<1>3. ASSUME NEW r \in Read, NEW n \in Sizes, CallRead(r, n)
      PROVE  Placed'
  <2>1. /\ StartRead(r, n, immediates) /\ r \notin called /\ called' = called \cup {r}
        /\ answer' = answer /\ immediates \in Seq(Task)
    BY <1>0, <1>3 DEF CallRead, Wrapped
  <2>2. ASSUME NEW q \in Read
        PROVE  /\ PlacesOf(q)' = (IF q \in called' /\ answer'[q] = None THEN 1 ELSE 0)
               /\ q \notin called' => answer'[q] = None
    <3>1. Is(reading', q) + Count(waiting', Of(q)) + Count(immediates', Of(q))
            = Is(reading, q) + Is(r, q) + Count(waiting, Of(q)) + Count(immediates, Of(q))
      BY <1>0, <2>1, StartReadPlaces
    <3>2. PlacesOf(q)' = Pending(q) + Is(r, q)
      BY <1>1, <3>1 DEF PlacesOf, Is
    <3> QED BY <1>1, <2>1, <3>2 DEF Is, Pending
  <2> QED BY <1>2, <2>2
<1>4. CASE RunCallback
  <2> DEFINE h == Head(immediates)
  <2>1. /\ h \in Result /\ immediates' = Tail(immediates) /\ answer' = [answer EXCEPT ![h.call] = h]
        /\ UNCHANGED <<reading, waiting, called>>
        /\ immediates # <<>> /\ immediates \in Seq(Task)
    BY <1>0, <1>4, TakeTask DEF RunCallback, current, Wrapped
  <2>2. ASSUME NEW q \in Read
        PROVE  /\ PlacesOf(q)' = (IF q \in called' /\ answer'[q] = None THEN 1 ELSE 0)
               /\ q \notin called' => answer'[q] = None
    <3>1. h \in Of(q) <=> h.call = q
      BY <2>1 DEF Of, Task
    <3>2. Count(immediates, Of(q)) = Count(Tail(immediates), Of(q)) + Is(h.call, q)
      BY <2>1, <3>1, CountTail DEF Is
    <3>3. Tail(immediates) \in Seq(Task)
      BY <2>1, HeadTailProperties
    <3>4. Count(Tail(immediates), Of(q)) \in Nat
      BY <3>3, CountType
    <3>5. answer'[q] = IF h.call = q THEN h ELSE answer[q]
      BY <1>0, <2>1
    <3>6. PlacesOf(q) = Is(reading, q) + Count(waiting, Of(q)) + Count(immediates, Of(q))
          /\ PlacesOf(q)' = Is(reading, q) + Count(waiting, Of(q)) + Count(immediates', Of(q))
      BY <2>1 DEF PlacesOf
    <3> HIDE DEF h
    <3>7. CASE h.call = q
      <4>1. Count(immediates, Of(q)) = Count(immediates', Of(q)) + 1 /\ h # None
            /\ Count(immediates', Of(q)) \in Nat
        BY <1>0, <2>1, <3>2, <3>4, <3>7 DEF Is
      <4>2. PlacesOf(q) = 1 /\ PlacesOf(q)' = 0 /\ q \in called
        BY <1>1, <3>6, <4>1 DEF Is, Pending
      <4> QED BY <2>1, <3>5, <3>7, <4>1, <4>2 DEF Is
    <3>8. CASE h.call # q
      <4>1. Count(immediates, Of(q)) = Count(immediates', Of(q))
        BY <2>1, <3>2, <3>4, <3>8 DEF Is
      <4> QED BY <1>1, <2>1, <3>5, <3>6, <3>8, <4>1 DEF Pending
    <3> QED BY <3>7, <3>8
  <2> QED BY <1>2, <2>2
<1>5. ASSUME UNCHANGED <<called, answer>>,
             \A q \in Read : PlacesOf(q)' = PlacesOf(q)
      PROVE  Placed'
  BY <1>1, <1>2, <1>5 DEF Pending
<1>6. CASE RunRead
  <2> DEFINE h == Head(immediates)
  <2>1. /\ h \in Queued /\ StartRead(h.call, h.size, Tail(immediates))
        /\ UNCHANGED <<called, answer>> /\ Tail(immediates) \in Seq(Task)
        /\ immediates # <<>> /\ immediates \in Seq(Task)
    BY <1>0, <1>6, TakeTask DEF RunRead, Wrapped
  <2>2. h.call \in Read /\ h.size \in Sizes
    BY <2>1 DEF Queued
  <2>3. ASSUME NEW q \in Read
        PROVE  PlacesOf(q)' = PlacesOf(q)
    <3>1. h \in Of(q) <=> h.call = q
      BY <2>1 DEF Of, Task
    <3>2. Count(immediates, Of(q)) = Count(Tail(immediates), Of(q)) + Is(h.call, q)
      BY <2>1, <3>1, CountTail DEF Is
    <3>3. Count(Tail(immediates), Of(q)) \in Nat
      BY <2>1, CountType
    <3>4. Is(reading', q) + Count(waiting', Of(q)) + Count(immediates', Of(q))
            = Is(reading, q) + Is(h.call, q) + Count(waiting, Of(q)) + Count(Tail(immediates), Of(q))
      BY <1>0, <2>1, <2>2, StartReadPlaces
    <3> HIDE DEF h
    <3> QED BY <1>1, <3>2, <3>3, <3>4 DEF PlacesOf, Is
  <2> QED BY <1>5, <2>1, <2>3
<1>7. ASSUME NEW k \in 1 .. MaxChunk, Data(k)
      PROVE  Placed'
  <2> DEFINE chunk == Bytes(emitted + 1, emitted + k)
  <2>1. /\ InputData(reading, want, got, chunk, immediates) /\ reading # None
        /\ UNCHANGED <<called, answer>> /\ emitted + k <= body
        /\ body \in 0 .. MaxBody /\ emitted \in 0 .. body
    BY <1>0, <1>7, ControlParts DEF Data, Wrapped
  <2>2. k \in Nat /\ emitted \in Nat /\ emitted + k <= MaxBody
    BY <2>1, SizeAssumption DEF SizeAssumption
  <2>3. chunk \in Seq(Byte)
    BY <2>2, Chunk
  <2>4. /\ reading \in Read /\ want \in Sizes /\ got \in Seq(Byte) /\ Len(got) <= want
        /\ immediates \in Seq(Task)
    BY <1>0, <2>1, SizeAssumption DEF Wrapped, SizeAssumption
  <2> HIDE DEF chunk
  <2>5. ASSUME NEW q \in Read
        PROVE  PlacesOf(q)' = PlacesOf(q)
    BY <1>0, <2>1, <2>3, <2>4, InputDataPlaces DEF PlacesOf
  <2> QED BY <1>5, <2>1, <2>5
<1>8. ASSUME NEW err \in BOOLEAN, InputEnd(err)
      PROVE  Placed'
  <2>1. UNCHANGED <<called, answer>>
    BY <1>8 DEF InputEnd
  <2>2. ASSUME NEW q \in Read
        PROVE  PlacesOf(q)' = PlacesOf(q)
    BY <1>0, <1>8, InputEndPlaces DEF PlacesOf
  <2> QED BY <1>5, <2>1, <2>2
<1>9. CASE UNCHANGED vars
  BY <1>5, <1>9 DEF vars, current, PlacesOf
<1> QED BY <1>3, <1>4, <1>6, <1>7, <1>8, <1>9 DEF Next, End, Error

\* Each read called and not answered yet is the one in progress, waits once in
\* inputCallbacks or is queued once with setImmediate: none is lost when the
\* result fills up or the stream ends, and none is answered twice.
THEOREM ReadsKeepTheirPlace == Spec => []ReadInOnePlace
<1>1. Init => Placed
  <2>1. ASSUME Init, NEW q \in Read
        PROVE  Places(q) = 0 /\ q \notin called /\ answer[q] = None
    <3>1. /\ reading = None /\ waiting = <<>> /\ immediates = <<>>
          /\ called = {} /\ answer[q] = None
      BY <2>1 DEF Init
    <3>2. Wrapped
      BY <2>1, ControlInit, ControlParts
    <3>3. Places(q) = Is(reading, q) + Count(waiting, Of(q)) + Count(immediates, Of(q))
      BY <3>2, PlacesAre
    <3>4. Is(reading, q) = 0 /\ Count(<<>>, Of(q)) = 0
      BY <3>1, SizeAssumption, CountEmpty DEF Is, SizeAssumption
    <3> QED BY <3>1, <3>3, <3>4
  <2> QED BY <2>1 DEF Placed, ReadInOnePlace
<1>2. Placed => ReadInOnePlace
  BY DEF Placed
<1> QED BY <1>1, <1>2, PlacesStep, Controlled, PTL DEF Spec

-----------------------------------------------------------------------------
(***************************************************************************)
(* Short answers.                                                          *)
(***************************************************************************)

\* Tasks that do not answer short.
Whole == {x \in Task : x.fn = "cb" => Len(x.data) >= x.size}

\* While the body is not over, no short answer is given or on its way.
NoneShort ==
  ~over => /\ immediates \in Seq(Whole)
           /\ \A q \in Read : answer[q] # None => Len(answer[q].data) >= answer[q].size

LEMMA WaitingIsWhole ==
  ASSUME Wrapped
  PROVE  /\ waiting \in Seq(Whole) /\ Queued \subseteq Whole
         /\ Shifted(waiting) \in Seq(Whole)
<1>1. Queued \subseteq Whole
  BY DEF Whole, Queued, Task
<1>2. Shifted(waiting) \in Seq(Queued) /\ waiting \in Seq(Queued)
  BY Shift DEF Wrapped
<1> QED BY <1>1, <1>2, SeqMonotonic

LEMMA InputDataWhole ==
  ASSUME Wrapped, inputError \in BOOLEAN,
         NEW r \in Read, NEW n \in Sizes, NEW have \in Seq(Byte), NEW buffer \in Seq(Byte),
         NEW tasks \in Seq(Whole), Len(have) <= n, InputData(r, n, have, buffer, tasks)
  PROVE  immediates' \in Seq(Whole)
<1>1. n \in Nat
  BY SizeAssumption DEF SizeAssumption
<1>2. ASSUME NEW amt \in 0 .. Len(buffer), Len(have) + amt = n,
             Complete(r, n, have \o SubSeq(buffer, 1, amt),
                      SubSeq(buffer, amt + 1, Len(buffer)), tasks)
      PROVE  immediates' \in Seq(Whole)
  <2> DEFINE result == have \o SubSeq(buffer, 1, amt)
             answered == Answer(r, n, result)
             next == Shifted(waiting)
  <2>1. immediates' = tasks \o <<answered>> \o next
    BY <1>2 DEF Complete
  <2>2. SubSeq(buffer, 1, amt) \in Seq(Byte) /\ Len(SubSeq(buffer, 1, amt)) = amt
    BY Cut
  <2>3. result \in Seq(Byte) /\ Len(result) = n
    BY <1>2, <2>2, ConcatProperties
  <2> HIDE DEF result
  <2>4. answered \in Whole
    BY <1>1, <2>3 DEF Answer, Whole, Task, Result, Byte
  <2>5. next \in Seq(Whole)
    BY WaitingIsWhole
  <2> HIDE DEF answered, next
  <2>6. <<answered>> \in Seq(Whole)
    BY <2>4
  <2>7. tasks \o <<answered>> \in Seq(Whole)
    BY <2>6, ConcatProperties
  <2> QED BY <2>1, <2>5, <2>7, ConcatProperties
<1>3. ASSUME NeedMore(r, n, have \o buffer, tasks)
      PROVE  immediates' \in Seq(Whole)
  BY <1>3 DEF NeedMore
<1> QED BY <1>1, <1>2, <1>3, InputDataCases

LEMMA StartReadWhole ==
  ASSUME Wrapped, inputError \in BOOLEAN, ~inputEnd, ~inputError,
         NEW r \in Read, NEW n \in Sizes, NEW tasks \in Seq(Whole), StartRead(r, n, tasks)
  PROVE  immediates' \in Seq(Whole)
<1>1. CASE Queue(r, n, tasks) \/ FromStream(r, n, tasks)
  BY <1>1 DEF Queue, FromStream
<1>2. CASE AnswerAtEnd(r, n, tasks)
  BY <1>2 DEF AnswerAtEnd
<1>3. CASE FromLeftover(r, n, tasks)
  <2>1. InputData(r, n, <<>>, leftover, tasks) /\ leftover \in Seq(Byte)
    BY <1>3 DEF FromLeftover, Wrapped
  <2>2. <<>> \in Seq(Byte) /\ Len(<<>>) <= n
    BY EmptySeq, SizeAssumption DEF SizeAssumption
  <2> QED BY <2>1, <2>2, InputDataWhole
<1> QED BY <1>1, <1>2, <1>3 DEF StartRead

LEMMA ShortStep ==
  ASSUME Control, NoneShort, [Next]_vars
  PROVE  NoneShort'
<1>0. /\ Wrapped /\ inputError \in BOOLEAN /\ over \in BOOLEAN
      /\ inputEnd = over /\ (inputError => over) /\ None \notin Read
      /\ answer \in [Read -> Result \cup {None}]
  BY ControlParts, SizeAssumption DEF Control, SizeAssumption
<1>1. ASSUME over' = over, ~over' => immediates' \in Seq(Whole), answer' = answer
      PROVE  NoneShort'
  BY <1>1 DEF NoneShort
<1>2. ASSUME NEW r \in Read, NEW n \in Sizes, CallRead(r, n)
      PROVE  NoneShort'
  <2>1. StartRead(r, n, immediates) /\ over' = over /\ answer' = answer
    BY <1>2 DEF CallRead, source
  <2>2. ~over => immediates' \in Seq(Whole)
    BY <1>0, <2>1, StartReadWhole DEF NoneShort
  <2> QED BY <1>1, <2>1, <2>2
<1>3. CASE RunCallback
  <2> DEFINE h == Head(immediates)
  <2>1. /\ h \in Result /\ h.fn = "cb" /\ immediates' = Tail(immediates) /\ immediates # <<>>
        /\ over' = over /\ answer' = [answer EXCEPT ![h.call] = h]
    BY <1>3, TakeTask DEF RunCallback, source
  <2>2. ASSUME ~over
        PROVE  /\ Tail(immediates) \in Seq(Whole)
               /\ \A q \in Read : answer'[q] # None => Len(answer'[q].data) >= answer'[q].size
    <3>1. immediates \in Seq(Whole)
      BY <2>2 DEF NoneShort
    <3>2. h \in Whole /\ Tail(immediates) \in Seq(Whole)
      BY <2>1, <3>1, HeadTailProperties
    <3>3. Len(h.data) >= h.size
      BY <2>1, <3>2 DEF Whole
    <3>4. \A q \in Read : answer'[q] = h \/ answer'[q] = answer[q]
      BY <1>0, <2>1
    <3> HIDE DEF h
    <3> QED BY <2>2, <3>2, <3>3, <3>4 DEF NoneShort
  <2> QED BY <2>1, <2>2 DEF NoneShort
<1>4. CASE RunRead
  <2> DEFINE h == Head(immediates)
  <2>1. /\ h \in Queued /\ StartRead(h.call, h.size, Tail(immediates)) /\ immediates # <<>>
        /\ over' = over /\ answer' = answer
    BY <1>4, TakeTask DEF RunRead, source
  <2>2. h.call \in Read /\ h.size \in Sizes
    BY <2>1 DEF Queued
  <2>3. ASSUME ~over PROVE immediates' \in Seq(Whole)
    <3>1. immediates \in Seq(Whole)
      BY <2>3 DEF NoneShort
    <3>2. Tail(immediates) \in Seq(Whole)
      BY <2>1, <3>1, HeadTailProperties
    <3> QED BY <1>0, <2>1, <2>2, <2>3, <3>2, StartReadWhole
  <2> QED BY <1>1, <2>1, <2>3
<1>5. ASSUME NEW k \in 1 .. MaxChunk, Data(k)
      PROVE  NoneShort'
  <2> DEFINE chunk == Bytes(emitted + 1, emitted + k)
  <2>1. /\ InputData(reading, want, got, chunk, immediates) /\ reading # None
        /\ UNCHANGED <<over, answer>> /\ ~over /\ emitted + k <= body
        /\ body \in 0 .. MaxBody /\ emitted \in 0 .. body
    BY <1>0, <1>5, ControlParts DEF Data, Wrapped
  <2>2. k \in Nat /\ emitted \in Nat /\ emitted + k <= MaxBody
    BY <2>1, SizeAssumption DEF SizeAssumption
  <2>3. chunk \in Seq(Byte)
    BY <2>2, Chunk
  <2>4. reading \in Read /\ want \in Sizes /\ got \in Seq(Byte) /\ Len(got) <= want
    BY <1>0, <2>1, SizeAssumption DEF Wrapped, SizeAssumption
  <2>5. immediates \in Seq(Whole)
    BY <2>1 DEF NoneShort
  <2> HIDE DEF chunk
  <2>6. immediates' \in Seq(Whole)
    BY <1>0, <2>1, <2>3, <2>4, <2>5, InputDataWhole
  <2> QED BY <1>1, <2>1, <2>6
<1>6. ASSUME NEW err \in BOOLEAN, InputEnd(err)
      PROVE  NoneShort'
  BY <1>6 DEF InputEnd, NoneShort
<1>7. CASE UNCHANGED vars
  BY <1>1, <1>7 DEF vars, source, NoneShort
<1> QED BY <1>2, <1>3, <1>4, <1>5, <1>6, <1>7 DEF Next, End, Error

\* PHP gets fewer bytes than it asked for only when the body has ended or
\* failed, however its chunks and the sizes of the reads fall.
THEOREM ShortReadsAreLast == Spec => []ShortMeansOver
<1>1. Init => NoneShort
  <2>1. <<>> \in Seq(Whole)
    BY EmptySeq
  <2> QED BY <2>1 DEF Init, NoneShort
<1>2. Control /\ NoneShort => ShortMeansOver
  <2> SUFFICES ASSUME Control, NoneShort, NEW q \in Read,
                      answer[q] # None, Len(answer[q].data) < answer[q].size, ~over
               PROVE  FALSE
    BY DEF ShortMeansOver
  <2>1. answer[q] \in Result
    BY ControlParts
  <2>2. answer[q].data \in Seq(Byte) /\ answer[q].size \in Nat
    BY <2>1, SizeAssumption DEF Result, Byte, SizeAssumption
  <2> QED BY <2>2 DEF NoneShort
<1> QED BY <1>1, <1>2, ShortStep, Controlled, PTL DEF Spec

-----------------------------------------------------------------------------
(***************************************************************************)
(* Reads that wait.                                                        *)
(***************************************************************************)

\* One of the reads in a queue of immediates.
HasRead(s) == \E i \in 1 .. Len(s) : s[i].fn = "read"

\* Those that wait have one before them, in progress or queued to be started;
\* after the end nobody waits.
Carried ==
  /\ waiting # <<>> => reading # None \/ HasRead(immediates)
  /\ over => waiting = <<>>

LEMMA InputDataCarries ==
  ASSUME Wrapped, ~over, over' = over, inputError \in BOOLEAN,
         NEW r \in Read, NEW n \in Sizes, NEW have \in Seq(Byte), NEW buffer \in Seq(Byte),
         NEW tasks \in Seq(Task), Len(have) <= n, InputData(r, n, have, buffer, tasks)
  PROVE  Carried'
<1>1. n \in Nat /\ None \notin Read
  BY SizeAssumption DEF SizeAssumption
<1>2. ASSUME NEW amt \in 0 .. Len(buffer), Len(have) + amt = n,
             Complete(r, n, have \o SubSeq(buffer, 1, amt),
                      SubSeq(buffer, amt + 1, Len(buffer)), tasks)
      PROVE  Carried'
  <2> DEFINE result == have \o SubSeq(buffer, 1, amt)
             answered == Answer(r, n, result)
  <2>1. /\ immediates' = tasks \o <<answered>> \o Shifted(waiting)
        /\ waiting' = Remaining(waiting)
    BY <1>2 DEF Complete
  <2>2. SubSeq(buffer, 1, amt) \in Seq(Byte)
    BY Cut
  <2>3. result \in Seq(Byte)
    BY <2>2, ConcatProperties
  <2> HIDE DEF result
  <2>4. answered \in Task
    BY <2>3 DEF Answer, Task, Result, Byte
  <2> HIDE DEF answered
  <2>5. ASSUME waiting' # <<>>
        PROVE  HasRead(immediates')
    <3>1. waiting \in Seq(Queued) /\ waiting # <<>>
      BY <2>1, <2>5 DEF Remaining, Wrapped
    <3>2. PICK h \in Queued : h = Head(waiting) /\ Shifted(waiting) = <<h>>
      BY <3>1, HeadTailProperties DEF Shifted
    <3>3. PICK s \in Seq(Task) : s = tasks \o <<answered>>
      <4>1. <<answered>> \in Seq(Task)
        BY <2>4
      <4> QED BY <4>1, ConcatProperties
    <3>4. h \in Task /\ h.fn = "read"
      BY DEF Queued, Task
    <3>5. <<h>> \in Seq(Task) /\ Len(<<h>>) = 1 /\ <<h>>[1] = h
      BY <3>4
    <3>6. Len(s) \in Nat /\ Len(s \o <<h>>) = Len(s) + 1 /\ (s \o <<h>>)[Len(s) + 1] = h
      <4>1. /\ Len(s \o <<h>>) = Len(s) + Len(<<h>>) /\ Len(s) \in Nat
            /\ \A i \in 1 .. Len(s) + Len(<<h>>) :
                 (s \o <<h>>)[i] = IF i <= Len(s) THEN s[i] ELSE <<h>>[i - Len(s)]
        BY <3>5, ConcatProperties
      <4>2. PICK l \in Nat : l = Len(s)
        BY <4>1
      <4>3. l + 1 \in 1 .. l + 1 /\ ~(l + 1 <= l) /\ l + 1 - l = 1
        OBVIOUS
      <4> QED BY <3>5, <4>1, <4>2, <4>3
    <3>7. immediates' = s \o <<h>> /\ Len(s) + 1 \in 1 .. Len(s \o <<h>>)
      BY <2>1, <3>2, <3>3, <3>6
    <3> QED BY <3>4, <3>6, <3>7 DEF HasRead
  <2> QED BY <2>5 DEF Carried
<1>3. ASSUME NeedMore(r, n, have \o buffer, tasks)
      PROVE  Carried'
  BY <1>1, <1>3 DEF NeedMore, Carried
<1> QED BY <1>1, <1>2, <1>3, InputDataCases

LEMMA StartReadCarries ==
  ASSUME Control, Carried, over' = over,
         NEW r \in Read, NEW n \in Sizes, NEW tasks \in Seq(Task), StartRead(r, n, tasks)
  PROVE  Carried'
<1>0. /\ Wrapped /\ inputError \in BOOLEAN /\ None \notin Read
      /\ inputEnd = over /\ (inputError => over) /\ (reading # None => ~over)
  BY ControlParts, SizeAssumption DEF Control, SizeAssumption
<1>1. CASE Queue(r, n, tasks)
  BY <1>0, <1>1 DEF Queue, current, Carried
<1>2. CASE AnswerAtEnd(r, n, tasks)
  BY <1>0, <1>2 DEF AnswerAtEnd, Carried
<1>3. CASE FromLeftover(r, n, tasks)
  <2>1. InputData(r, n, <<>>, leftover, tasks) /\ leftover \in Seq(Byte) /\ ~over
    BY <1>0, <1>3 DEF FromLeftover, Wrapped
  <2>2. <<>> \in Seq(Byte) /\ Len(<<>>) <= n
    BY EmptySeq, SizeAssumption DEF SizeAssumption
  <2> QED BY <1>0, <2>1, <2>2, InputDataCarries
<1>4. CASE FromStream(r, n, tasks)
  BY <1>0, <1>4 DEF FromStream, Carried
<1> QED BY <1>1, <1>2, <1>3, <1>4 DEF StartRead

LEMMA CarriedStep ==
  ASSUME Control, Carried, [Next]_vars
  PROVE  Carried'
<1>0. /\ Wrapped /\ inputError \in BOOLEAN /\ over \in BOOLEAN /\ None \notin Read
      /\ immediates \in Seq(Task)
  BY ControlParts, SizeAssumption DEF SizeAssumption, Wrapped
<1>1. ASSUME NEW r \in Read, NEW n \in Sizes, CallRead(r, n)
      PROVE  Carried'
  <2>1. StartRead(r, n, immediates) /\ over' = over
    BY <1>1 DEF CallRead, source
  <2> QED BY <1>0, <2>1, StartReadCarries
<1>2. CASE RunCallback
  <2>1. /\ immediates # <<>> /\ Head(immediates).fn = "cb" /\ immediates' = Tail(immediates)
        /\ UNCHANGED <<reading, waiting, over>>
    BY <1>2 DEF RunCallback, TakeImmediate, source, current
  <2>2. /\ Len(immediates) \in Nat /\ Len(Tail(immediates)) = Len(immediates) - 1
        /\ Head(immediates) = immediates[1]
        /\ \A i \in 1 .. Len(Tail(immediates)) : Tail(immediates)[i] = immediates[i + 1]
    BY <1>0, <2>1, HeadTailProperties
  <2>3. ASSUME HasRead(immediates) PROVE HasRead(immediates')
    <3>1. PICK i \in 1 .. Len(immediates) : immediates[i].fn = "read"
      BY <2>3 DEF HasRead
    <3>2. i # 1
      BY <2>1, <2>2, <3>1
    <3>3. PICK j \in 1 .. Len(Tail(immediates)) : j + 1 = i
      <4>1. i - 1 \in 1 .. Len(Tail(immediates)) /\ (i - 1) + 1 = i
        BY <2>2, <3>2
      <4> QED BY <4>1
    <3>4. Tail(immediates)[j].fn = "read"
      BY <2>2, <3>1, <3>3
    <3> QED BY <2>1, <3>4 DEF HasRead
  <2> QED BY <2>1, <2>3 DEF Carried
<1>3. CASE RunRead
  <2> DEFINE h == Head(immediates)
  <2>1. /\ h \in Queued /\ StartRead(h.call, h.size, Tail(immediates)) /\ immediates # <<>>
        /\ over' = over
    BY <1>3, TakeTask DEF RunRead, source
  <2>2. h.call \in Read /\ h.size \in Sizes
    BY <2>1 DEF Queued
  <2>3. Tail(immediates) \in Seq(Task)
    BY <1>0, <2>1, HeadTailProperties
  <2> QED BY <2>1, <2>2, <2>3, StartReadCarries
<1>4. ASSUME NEW k \in 1 .. MaxChunk, Data(k)
      PROVE  Carried'
  <2> DEFINE chunk == Bytes(emitted + 1, emitted + k)
  <2>1. /\ InputData(reading, want, got, chunk, immediates) /\ reading # None
        /\ over' = over /\ ~over /\ emitted + k <= body
        /\ body \in 0 .. MaxBody /\ emitted \in 0 .. body
    BY <1>0, <1>4, ControlParts DEF Data, Wrapped
  <2>2. k \in Nat /\ emitted \in Nat /\ emitted + k <= MaxBody
    BY <2>1, SizeAssumption DEF SizeAssumption
  <2>3. chunk \in Seq(Byte)
    BY <2>2, Chunk
  <2>4. reading \in Read /\ want \in Sizes /\ got \in Seq(Byte) /\ Len(got) <= want
    BY <1>0, <2>1, SizeAssumption DEF Wrapped, SizeAssumption
  <2> HIDE DEF chunk
  <2> QED BY <1>0, <2>1, <2>3, <2>4, InputDataCarries
<1>5. ASSUME NEW err \in BOOLEAN, InputEnd(err)
      PROVE  Carried'
  BY <1>5 DEF InputEnd, Carried
<1>6. CASE UNCHANGED vars
  BY <1>6 DEF vars, source, current, Carried
<1> QED BY <1>1, <1>2, <1>3, <1>4, <1>5, <1>6 DEF Next, End, Error

\* However reads overtake each other and wherever the body ends, a read with no
\* answer has something queued with setImmediate or a stream that flows: the
\* wrapper never comes to rest with a read of PHP unanswered.
THEOREM ReadsAreCarried == Spec => []NoReadStranded
<1>1. Init => Carried
  BY DEF Init, Carried
<1>2. Control /\ Carried /\ ReadInOnePlace => NoReadStranded
  <2> SUFFICES ASSUME Control, Carried, ReadInOnePlace, NEW q \in called, answer[q] = None,
                      immediates = <<>>, ~(flowing /\ ~over)
               PROVE  FALSE
    BY DEF NoReadStranded
  <2>1. /\ Wrapped /\ q \in Read /\ reading = None
    BY ControlParts DEF Control
  <2>2. waiting = <<>>
    BY <2>1, EmptySeq DEF Carried, HasRead
  <2>3. Places(q) = Is(reading, q) + Count(waiting, Of(q)) + Count(immediates, Of(q))
    BY <2>1, PlacesAre
  <2>4. Is(reading, q) = 0 /\ Count(<<>>, Of(q)) = 0
    BY <2>1, SizeAssumption, CountEmpty DEF Is, SizeAssumption
  <2>5. Places(q) = 1
    BY <2>1 DEF ReadInOnePlace
  <2> QED BY <2>2, <2>3, <2>4, <2>5
<1> QED BY <1>1, <1>2, CarriedStep, Controlled, ReadsKeepTheirPlace, PTL DEF Spec
=============================================================================
