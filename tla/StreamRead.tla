----------------------------- MODULE StreamRead -----------------------------
(***************************************************************************)
(* Reading the body of an HTTP request from PHP: the read half of          *)
(* StreamWrapper (src/lib/index.js).  PHP's calls of read(size, cb) arrive *)
(* in turns of the event loop, the body in 'data' events of a node Readable*)
(* that the wrapper pauses and resumes.  One read is served at a time, the *)
(* others wait in inputCallbacks.                                          *)
(*                                                                         *)
(* The bytes of the body are 1, 2, ... so that a buffer is the sequence of *)
(* the positions it holds.  The Readable and setImmediate are node's: 'end'*)
(* is scheduled, by nextTick, when read() takes the last chunk of a source *)
(* that is known to be over, even if the 'data' handler then pauses it.    *)
(***************************************************************************)
EXTENDS Naturals, Sequences, FiniteSets

CONSTANTS
  Read,      \* the calls of read
  Sizes,     \* the sizes they may ask for
  MaxBody,   \* bound: bytes in the body
  MaxChunk,  \* bound: bytes in one 'data' event
  None       \* null

\* What setImmediate has to call: the cb of a read with its answer, or a read.
Result == [fn : {"cb"}, call : Read, size : Sizes, err : BOOLEAN, data : Seq(1 .. MaxBody)]
Queued == [fn : {"read"}, call : Read, size : Sizes]

ASSUME SizeAssumption ==
  Sizes \subseteq Nat /\ MaxBody \in Nat /\ MaxChunk \in Nat \ {0} /\ None \notin Read \cup Result

VARIABLES
  body, emitted,          \* the length of the body, and what 'data' events brought
  flowing, ending, over,  \* resumed; 'end' is scheduled; 'end' or 'error' was emitted
  reading, want, got,     \* inputComplete, inputResult.length, the bytes in inputResult
  leftover,               \* inputLeftover
  waiting,                \* inputCallbacks
  inputError, inputEnd,
  immediates, checking,   \* setImmediate's queue; how many of it this turn still runs
  called, answer,         \* the reads called, and what their cb got
  served                  \* history: the bytes put in results so far

source  == <<body, emitted, ending, over>>
current == <<reading, want, got, leftover, flowing, served>>
ends    == <<inputError, inputEnd>>
vars == <<source, current, ends, waiting, immediates, checking, called, answer>>

Bytes(i, j) == [k \in 1 .. j - i + 1 |-> i + k - 1]

\* Each variable has its type.
TypeOK ==
  /\ body \in 0 .. MaxBody /\ emitted \in 0 .. body
  /\ flowing \in BOOLEAN /\ ending \in BOOLEAN /\ over \in BOOLEAN
  /\ reading \in Read \cup {None} /\ want \in Sizes \cup {0}
  /\ got \in Seq(1 .. MaxBody) /\ leftover \in Seq(1 .. MaxBody)
  /\ waiting \in Seq(Queued) /\ immediates \in Seq(Result \cup Queued)
  /\ inputError \in BOOLEAN /\ inputEnd \in BOOLEAN /\ checking \in Nat
  /\ called \subseteq Read /\ answer \in [Read -> Result \cup {None}]
  /\ served \in Seq(1 .. MaxBody)

\* A request with a body, perhaps an empty one whose end is already known, or
\* no request object at all.
Init ==
  /\ body \in 0 .. MaxBody /\ over \in BOOLEAN /\ inputEnd = over
  /\ over => body = 0
  /\ ending \in {FALSE, body = 0 /\ ~over}
  /\ emitted = 0 /\ flowing = FALSE /\ inputError = FALSE
  /\ reading = None /\ want = 0 /\ got = <<>> /\ leftover = <<>> /\ waiting = <<>>
  /\ immediates = <<>> /\ checking = 0
  /\ called = {} /\ answer = [r \in Read |-> None] /\ served = <<>>

-----------------------------------------------------------------------------
(***************************************************************************)
(* _onInputData and read.  `tasks` is setImmediate's queue as the step     *)
(* finds it.                                                               *)
(***************************************************************************)

Answer(r, n, data) == [fn |-> "cb", call |-> r, size |-> n, err |-> inputError, data |-> data]

\* Mutant: the first of the reads that wait is dropped.
NoneShifted(s) == <<>>

\* inputCallbacks.shift(), if there is one, and what stays.
Shifted(s) == IF s = <<>> THEN <<>> ELSE <<Head(s)>>
Remaining(s) == IF s = <<>> THEN <<>> ELSE Tail(s)

\* Mutant: what does not fit in the result is dropped.
NothingLeft(buffer, amt) == <<>>

Left(buffer, amt) == SubSeq(buffer, amt + 1, Len(buffer))

\* Mutant: a result is full as soon as there is a byte in it.
AnyByte(result, n) == n = 0 \/ result # <<>>

Full(result, n) == Len(result) = n

\* Mutant: the stream is not paused.
CompleteUnpaused(r, n, result, rest, tasks) ==
  /\ immediates' = tasks \o <<Answer(r, n, result)>> \o Shifted(waiting)
  /\ waiting' = Remaining(waiting)
  /\ reading' = None /\ want' = 0 /\ got' = <<>> /\ leftover' = rest
  /\ served' = served \o result /\ flowing' = TRUE /\ inputEnd' = FALSE

\* The result is full: it is handed out and the next read in line is started.
Complete(r, n, result, rest, tasks) ==
  /\ immediates' = tasks \o <<Answer(r, n, result)>> \o Shifted(waiting)
  /\ waiting' = Remaining(waiting)
  /\ reading' = None /\ want' = 0 /\ got' = <<>> /\ leftover' = rest
  /\ served' = served \o result /\ flowing' = FALSE /\ inputEnd' = FALSE

\* More chunks are needed.
NeedMore(r, n, result, tasks) ==
  /\ reading' = r /\ want' = n /\ got' = result /\ leftover' = <<>> /\ flowing' = TRUE
  /\ immediates' = tasks
  /\ UNCHANGED <<waiting, served, inputEnd>>

\* _onInputData(false, buffer) for the read r of n bytes that has `have`.
InputData(r, n, have, buffer, tasks) ==
  LET room   == n - Len(have)
      amt    == IF Len(buffer) < room THEN Len(buffer) ELSE room
      result == have \o SubSeq(buffer, 1, amt)
  IN  IF Full(result, n)
        THEN Complete(r, n, result, Left(buffer, amt), tasks)
        ELSE NeedMore(r, n, result, tasks)

\* "Read already in progress, queue for later."
Queue(r, n, tasks) ==
  /\ reading # None
  /\ waiting' = Append(waiting, [fn |-> "read", call |-> r, size |-> n])
  /\ immediates' = tasks
  /\ UNCHANGED <<current, inputEnd>>

AnswerAtEnd(r, n, tasks) ==
  /\ reading = None /\ (inputEnd \/ inputError)
  /\ immediates' = Append(tasks, Answer(r, n, <<>>))
  /\ UNCHANGED <<waiting, current, inputEnd>>

FromLeftover(r, n, tasks) ==
  /\ reading = None /\ ~inputEnd /\ ~inputError
  /\ leftover # <<>> \/ n = 0
  /\ InputData(r, n, <<>>, leftover, tasks)

FromStream(r, n, tasks) ==
  /\ reading = None /\ ~inputEnd /\ ~inputError
  /\ leftover = <<>> /\ n > 0
  /\ reading' = r /\ want' = n /\ got' = <<>> /\ flowing' = TRUE
  /\ immediates' = tasks
  /\ UNCHANGED <<leftover, waiting, served, inputEnd>>

StartRead(r, n, tasks) ==
  \/ Queue(r, n, tasks) \/ AnswerAtEnd(r, n, tasks)
  \/ FromLeftover(r, n, tasks) \/ FromStream(r, n, tasks)

-----------------------------------------------------------------------------
(***************************************************************************)
(* The turns of the event loop.  Immediates queued in one turn run         *)
(* together, before the next call or event is looked at.                   *)
(***************************************************************************)

\* PHP calls read.
CallRead(r, n) ==
  /\ r \notin called /\ checking = 0 /\ ~ending
  /\ called' = called \cup {r}
  /\ StartRead(r, n, immediates)
  /\ UNCHANGED <<source, inputError, checking, answer>>

TakeImmediate ==
  /\ immediates # <<>> /\ ~ending
  /\ checking' = (IF checking = 0 THEN Len(immediates) ELSE checking) - 1

\* cb(err, result): the answer goes back to PHP.
RunCallback ==
  /\ TakeImmediate /\ Head(immediates).fn = "cb"
  /\ immediates' = Tail(immediates)
  /\ answer' = [answer EXCEPT ![Head(immediates).call] = Head(immediates)]
  /\ UNCHANGED <<source, current, ends, waiting, called>>

\* self.read(size, cb) for a read that was queued.
RunRead ==
  /\ TakeImmediate /\ Head(immediates).fn = "read"
  /\ StartRead(Head(immediates).call, Head(immediates).size, Tail(immediates))
  /\ UNCHANGED <<source, inputError, called, answer>>

\* A 'data' event with k bytes.  With the last ones, the Readable may already
\* know that the body is over.
Data(k) ==
  /\ flowing /\ ~ending /\ ~over /\ emitted + k <= body
  /\ emitted' = emitted + k
  /\ ending' \in {FALSE, emitted' = body}
  /\ InputData(reading, want, got, Bytes(emitted + 1, emitted + k), immediates)
  /\ UNCHANGED <<body, over, inputError, checking, called, answer>>

\* Mutant: the whole inputResult, not the part of it that was filled.
FinalUnsliced(data, err) ==
  [fn |-> "cb", call |-> reading, size |-> want, err |-> err,
   data |-> [i \in 1 .. want |-> IF i <= Len(data) THEN data[i] ELSE 0]]

\* What the read in progress gets at the end.
Final(data, err) ==
  [fn |-> "cb", call |-> reading, size |-> want, err |-> err, data |-> data]

\* Mutant: the reads that wait are run but stay in the queue.
InputEndKeepsQueue(err) ==
  /\ over' = TRUE /\ ending' = FALSE /\ inputError' = err /\ inputEnd' = TRUE
  /\ immediates' = (IF reading = None THEN immediates
                    ELSE Append(immediates, Final(got, err))) \o waiting
  /\ reading' = None /\ want' = 0 /\ got' = <<>> /\ flowing' = FALSE
  /\ served' = served \o got
  /\ UNCHANGED <<body, emitted, leftover, waiting, checking, called, answer>>

\* _onInputEnd: the read in progress gets what there is, the others are run, to
\* be answered with nothing.
InputEnd(err) ==
  /\ over' = TRUE /\ ending' = FALSE /\ inputError' = err /\ inputEnd' = TRUE
  /\ immediates' = (IF reading = None THEN immediates
                    ELSE Append(immediates, Final(got, err))) \o waiting
  /\ waiting' = <<>>
  /\ reading' = None /\ want' = 0 /\ got' = <<>> /\ flowing' = FALSE
  /\ served' = served \o got
  /\ UNCHANGED <<body, emitted, leftover, checking, called, answer>>

End ==
  /\ ~over /\ emitted = body /\ (ending \/ flowing)
  /\ InputEnd(FALSE)

Error ==
  /\ ~over /\ ~ending /\ checking = 0
  /\ InputEnd(TRUE)

-----------------------------------------------------------------------------
Next ==
  \/ \E r \in Read, n \in Sizes : CallRead(r, n)
  \/ RunCallback \/ RunRead \/ End \/ Error
  \/ \E k \in 1 .. MaxChunk : Data(k)

\* The event loop turns, and a stream that is resumed goes on or ends.
Fairness ==
  /\ WF_vars(RunCallback \/ RunRead)
  /\ WF_vars(End \/ \E k \in 1 .. MaxChunk : Data(k))

Spec == Init /\ [][Next]_vars /\ Fairness

-----------------------------------------------------------------------------
\* The body reaches the results in order, with no byte lost or repeated,
\* however chunks, sizes and the pauses of the stream fall: what was put in
\* results, the result being filled and what is left of the last chunk make up
\* what the stream emitted.
BytesInOrder == served \o got \o leftover = Bytes(1, emitted)

\* The places where a read that is not answered can be.
Places(r) ==
  (IF reading = r THEN 1 ELSE 0)
  + Cardinality({i \in 1 .. Len(waiting) : waiting[i].call = r})
  + Cardinality({i \in 1 .. Len(immediates) : immediates[i].call = r})

\* No read is forgotten and none is answered twice, whatever overtakes it and
\* however the stream ends.
ReadInOnePlace ==
  \A r \in Read : Places(r) = (IF r \in called /\ answer[r] = None THEN 1 ELSE 0)

\* A 'data' event never finds inputResult null, which would be an exception
\* thrown in an event handler: the stream flows only while a read wants it.
DataHasReader == flowing => reading # None /\ Len(got) < want

\* A read gets fewer bytes than it asked for only from a body that ended or
\* failed: PHP takes a short count for the end of the body.
ShortMeansOver ==
  \A r \in Read : answer[r] # None /\ Len(answer[r].data) < answer[r].size => over

\* A read that has no answer is about to get on: something is queued with
\* setImmediate, or the stream flows and has not ended.  The read that completes
\* starts only one of those that wait, and another may overtake that one.
NoReadStranded ==
  \A r \in called : answer[r] = None => immediates # <<>> \/ (flowing /\ ~over)

\* Every read is answered.
EveryReadAnswered == \A r \in Read : r \in called ~> answer[r] # None

\* "support reading POST data from an input stream" (index.js:36): a read that
\* finds the end of the body, and no error, has not left bytes behind.
NoTailLost ==
  \A r \in Read :
    answer[r] # None /\ ~answer[r].err /\ Len(answer[r].data) < answer[r].size => leftover = <<>>
=============================================================================
