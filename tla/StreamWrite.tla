---------------------------- MODULE StreamWrite ----------------------------
(***************************************************************************)
(* Writing the output of a PHP request: the write half of StreamWrapper    *)
(* and the last step of request() (src/lib/index.js).  PHP writes data     *)
(* without a callback (ub_write) and flushes by writing nothing with one;  *)
(* request() ends with such a flush before its promise is resolved.        *)
(*                                                                         *)
(* The output is a node Writable: write() takes every chunk, and returns   *)
(* false when the chunks it still holds reach the high-water mark, in      *)
(* which case 'drain' is emitted once it has got rid of all of them.       *)
(***************************************************************************)
EXTENDS Naturals, Sequences, FiniteSets

CONSTANTS
  Flush,      \* the writes of an empty buffer, each with a callback
  MaxWrites,  \* bound: chunks of data written
  HighWater,  \* chunks the stream holds when write() starts to return false
  None

ASSUME BufferAssumption ==
  MaxWrites \in Nat /\ HighWater \in Nat \ {0} /\ None \notin Flush \cup 0 .. MaxWrites

VARIABLES
  sent, out,      \* chunks given to the stream, chunks it has got rid of
  needDrain,      \* the stream owes a 'drain'
  dead,           \* 'error', 'finish' or 'close' was emitted
  flushed, error, \* fields of the wrapper
  callbacks,      \* callbacks waiting for 'drain'
  immediates,     \* setImmediate's queue: callbacks about to be called
  mark,           \* history: `sent` when a flush was called, None before
  done            \* flushes that were called back, always without an error

stream  == <<sent, out, needDrain, dead>>
wrapper == <<flushed, error, callbacks>>
vars == <<stream, wrapper, immediates, mark, done>>

\* Each variable has its type.
TypeOK ==
  /\ sent \in 0 .. MaxWrites /\ out \in 0 .. sent
  /\ needDrain \in BOOLEAN /\ dead \in BOOLEAN
  /\ flushed \in BOOLEAN /\ error \in BOOLEAN
  /\ callbacks \in Seq(Flush) /\ immediates \in Seq(Flush)
  /\ mark \in [Flush -> 0 .. MaxWrites \cup {None}] /\ done \subseteq Flush

Init ==
  /\ sent = 0 /\ out = 0 /\ needDrain = FALSE /\ dead = FALSE
  /\ flushed = TRUE /\ error = FALSE /\ callbacks = <<>>
  /\ immediates = <<>> /\ mark = [f \in Flush |-> None] /\ done = {}

-----------------------------------------------------------------------------
\* stream.write(buffer) returns TRUE.
Accepts == sent + 1 - out < HighWater

\* write(buffer) with data.  After an error nothing happens.
WriteData ==
  /\ ~error /\ sent < MaxWrites
  /\ sent' = sent + 1
  /\ needDrain' = (needDrain \/ ~Accepts)
  /\ flushed' = Accepts
  /\ UNCHANGED <<out, dead, error, callbacks, immediates, mark, done>>

\* Mutant: the wrapper relies on the stream to call back for an empty write.
AlwaysWaits == ~error

\* Mutant: a flush never waits.
NeverWaits == FALSE

\* An empty write has to wait for what the stream holds.
Waits == ~error /\ ~flushed

Calls(f) == mark[f] = None /\ mark' = [mark EXCEPT ![f] = sent]

\* write(empty, cb) when the last write() of the stream returned TRUE.  After
\* an error the callback is called too: it reads `this.error` of an object
\* that is not the wrapper, and so gets no error.
FlushNow(f) ==
  /\ ~Waits /\ Calls(f) /\ immediates' = Append(immediates, f)
  /\ UNCHANGED <<stream, wrapper, done>>

FlushLater(f) ==
  /\ Waits /\ Calls(f) /\ callbacks' = Append(callbacks, f)
  /\ UNCHANGED <<stream, flushed, error, immediates, done>>

\* Mutant: the callbacks are called and kept.
ReleaseAndKeep ==
  /\ flushed' = TRUE
  /\ immediates' = immediates \o callbacks /\ UNCHANGED callbacks

\* _onDrain.
Release ==
  /\ flushed' = TRUE
  /\ immediates' = immediates \o callbacks /\ callbacks' = <<>>

\* The stream gets rid of a chunk.
Transmit ==
  /\ ~dead /\ out < sent /\ out' = out + 1
  /\ UNCHANGED <<sent, needDrain, dead, wrapper, immediates, mark, done>>

Drain ==
  /\ ~dead /\ needDrain /\ out = sent
  /\ needDrain' = FALSE
  /\ Release
  /\ UNCHANGED <<sent, out, dead, error, mark, done>>

\* Mutant: _onError does not call _onDrain.
FailSilently ==
  /\ ~dead /\ dead' = TRUE /\ error' = TRUE
  /\ UNCHANGED <<sent, out, needDrain, flushed, callbacks, immediates, mark, done>>

\* 'error', 'close' or 'finish': _onError.
Fail ==
  /\ ~dead /\ dead' = TRUE /\ error' = TRUE
  /\ Release
  /\ UNCHANGED <<sent, out, needDrain, mark, done>>

\* A callback is called.  With the last flush the promise is resolved.
RunImmediate ==
  /\ immediates # <<>> /\ immediates' = Tail(immediates)
  /\ done' = done \cup {Head(immediates)}
  /\ UNCHANGED <<stream, wrapper, mark>>

Next ==
  \/ WriteData \/ Transmit \/ Drain \/ Fail \/ RunImmediate
  \/ \E f \in Flush : FlushNow(f) \/ FlushLater(f)

\* The event loop turns; the reader of the output reads or the stream fails.
Fairness ==
  /\ WF_vars(RunImmediate)
  /\ WF_vars(Transmit \/ Drain \/ Fail)

Spec == Init /\ [][Next]_vars /\ Fairness

-----------------------------------------------------------------------------
\* A callback that waits has a 'drain' coming, or a failure it will be told
\* of: the wrapper never holds one the stream has no reason to release.
WaitingHasDrain == callbacks # <<>> => needDrain /\ ~dead

\* Occurrences of a flush among those that wait or are about to be called.
Places(f) ==
  Cardinality({i \in 1 .. Len(callbacks) : callbacks[i] = f})
  + Cardinality({i \in 1 .. Len(immediates) : immediates[i] = f})

\* Each flush is called back exactly once, a 'drain' racing an error or not:
\* until then it waits in one place.
FlushInOnePlace ==
  \A f \in Flush : Places(f) = (IF mark[f] # None /\ f \notin done THEN 1 ELSE 0)

\* How much of the output can still be in the stream when a flush has returned:
\* less than its high-water mark, unless the stream failed.
FlushBound == \A f \in done : dead \/ mark[f] < out + HighWater

\* PHP is not left waiting in flush(), nor the promise of request().
EveryFlushReturns == \A f \in Flush : mark[f] # None ~> f \in done
=============================================================================
