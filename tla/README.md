# Verification of node-php-embed

TLA+ models, TLC runs and TLAPS proofs for `php-embed`, the node module that runs
PHP inside a node process and lets JavaScript and PHP code call each other, and for
the linter its build runs over the C++ sources. Paths below are relative to the
repository (`src/...` is the repository's root here, so the C++ sources are in
`src/src/`).

## The system

A *request* runs a PHP script on a thread of the libuv pool. JavaScript stays on
the node thread. Each side sees the objects of the other through wrappers, and
every use of a wrapper is a synchronous call of the other thread:

| component | state | operations |
|---|---|---|
| `MessageQueue` (messagequeue.h) | `data_`, `shutdown_`, mutex, condition variable, `uv_async_t` | `Push`, `Notify`, `DoProcess`, `Shutdown` |
| `Message`, `MessageToPhp`, `MessageToJs` (messages.h) | `retval_`, `exception_`, `processed_`, `js_callback_data_`, `local_flag_ptr_` | `ExecutePhp`, `ExecuteJs`, `MakeCallback`, `CallbackFunction_` |
| `AsyncMessageWorker` | the two queues, `js_is_sync_`, the two event loops | `SendToPhp`, `SendToJs`, `ProcessJs`, `ProcessPhp`, `Execute`, the cleanup message |
| `AsyncMapperChannel` | `next_id_`, `js_obj_to_id_`, `php_obj_list_`, `php_obj_to_id_`, `php_arr_to_id_`, persistent handles | `IdForJsObj`, `JsObjForId`, `IdForPhpObj`, `PhpObjForId`, `ClearAllJsIds`, `ClearPhpId` |
| `PhpRequestWorker` | script, result, output stream | `Execute`, `AfterAsyncLoop`, `AfterExecute`, `HandleOKCallback` |
| SAPI hooks (node_php_embed.cc) | the worker and channel of the thread | `ub_write`, `flush`, `send_header`, `read_post` |
| `PhpObject`, `JsObject` wrappers | `channel_`, `id_` | property access, calls, the array methods of `PhpObject`, neutering |
| `Value`, `ZVal` (values.h) | a value in a message | conversions of both sides, separation of arrays |
| `StreamWrapper`, `request()` (lib/index.js) | read: `inputResult`, `inputLeftover`, `inputCallbacks`, `inputEnd`; write: `flushed`, `error`, `callbacks` | `read`, `write`, `flush`, `sendHeader`, the stream's events |
| linter (scripts/cpplint.py) | `_CppLintState`, `_IncludeState`, `_FunctionState`, `NestingState`, `_error_suppressions`, `_line_length` | `main`, `ProcessFile`, `ProcessFileData`, `ProcessLine`, `Error` |

How they interact: a call builds a `Message` on the caller's stack and pushes it
on the callee's queue; the callee executes the request part, pushes the same
`Message` back, and may not touch it again. While it waits, the caller executes
whatever arrives on its own queue, so calls nest on both stacks. A `Js\Wait`
argument becomes a node callback, and the call is answered when JavaScript calls
it. At the end of a request PHP sends one cleanup message, JavaScript clears its
ids and shuts one queue down, PHP shuts the other down and clears its own ids.
Input and output of PHP are such calls, of a `StreamWrapper`. The linter is a
program of its own, `npm run cpplint`; it shares nothing with the rest but the
repository.

What is hard about it: the lock, the condition variable and the `uv_async_t` of a
queue are three ways of waking one consumer; processing loops nest; messages live
on stacks that the other thread's progress pops; callbacks come early, late, twice
or never; blocking the node thread while PHP waits for its event loop is a
deadlock; the ids are cleared by two threads one after the other while messages
still carry them; user code (destructors, callbacks, `exit`) runs in the middle of
the shutdown; JavaScript writes in place to arrays that PHP shares; one operation of
JavaScript on an array is several messages; requests hold threads that their own
work needs; streams end and fail at any moment. In the linter, what is reported of a
line depends on what all earlier lines, files and arguments left in global state.
`PROJECT.json` lists these hazards line by line with the properties that watch them.

## The modules

| module | models | composed from |
|---|---|---|
| `FifoChannel` | what a queue promises: accepted messages are executed once, in order | |
| `MessageQueue` | one queue, call by call on its mutex, condition and handle | implements `FifoChannel` |
| `MCMessageQueue`, `MessageQueueProofs` | its instance for TLC, its proofs | extend `MessageQueue` |
| `AsyncMessageWorker` | the two threads of a request and their calls | queues as the FIFO sequences `MessageQueue` shows them to be |
| `AsyncMessageWorkerProofs` | its proofs | extends `AsyncMessageWorker` and `Counting` |
| `WrapperCall` | a wrapper used after its call has returned | extends `AsyncMessageWorker` |
| `ObjectMapper`, `ObjectMapperProofs` | ids and wrappers | messages as sets of ids in flight |
| `ThreadPool` | requests and the work they wait for in one pool | |
| `StreamRead`, `StreamWrite` | the two halves of `StreamWrapper` | node's streams as environment |
| `StreamReadProofs`, `StreamWriteProofs` | their proofs | extend `StreamRead`, `StreamWrite` and `Counting` |
| `Values` | what conversion makes of a value | |
| `ArrayLike` | what README.md promises of a PHP array in JavaScript | |
| `PhpArray` | the array methods of `PhpObject` over PHP's hash table | extends `Values`, implements `ArrayLike` |
| `MCPhpArray`, `PhpArrayProofs` | its instance for TLC, its proofs | extend `PhpArray` |
| `ArraySharing` | which zval a wrapped array is | |
| `LintBlocks` | what a line of code does to the stack of blocks | |
| `TrueBranch` | what the linter promises about conditional code | extends `LintBlocks` |
| `LintNesting` | `NestingState`: the stack with its copies | extends `LintBlocks`, implements `TrueBranch` |
| `LintIncludes` | `_IncludeState` and the include checks | |
| `LintReports` | filters, `NOLINT`, counts, `_CppLintState` | |
| `Cpplint` | the run over arguments, files and lines | extends the three above |
| `MCCpplint`, `LintProofs` | the instance for TLC, the proofs | extend `Cpplint` |
| `Counting` | lemmas: members of a sequence, counted by their positions | |

**MessageQueue.** Variables carry the fields' names. `_Push` is
`EnterPush; Store or Refuse; Broadcast; AsyncSend; LeavePush`, an iteration of
`DoProcess` is `Lock; Grab, Wait or FoundEmpty; Unlock; Func; Test`; `uv_cond_wait`
releases the lock and sleeps in one step and needs the lock again to return
(`Reacquire`), also with no broadcast (`SpuriousWakeup`). `func` may start another
`DoProcess` (`Call`, `Drainer`), so `matches` is a stack; `m` is only live between
pop and `func`, so one variable serves all frames, and `loop` is true in every
frame but the innermost. `accepted`, `executed` and `refused` are history. What is
pushed follows the protocol of `AsyncMessageWorker` (`MayPush`): each message once,
and a reply after it was asked for. The shutdown reply is one of them, the answer of
the cleanup message: it may be pushed while other replies are outstanding, and while
it is awaited `func` may ask for more of them (PHP code that JavaScript calls during
the cleanup). Replies and requests that come after the shutdown end in `Refuse`.

**AsyncMessageWorker.** Each thread is a stack of frames: processing loops, request
parts running user code, and the `InJs` of the cleanup message. User code is
nondeterministic: it calls the other side, calls callbacks it has, returns or
throws. A frame remembers the `no_async` its loop captured. `status` follows a
message, `outcome` what a PHP call was answered with, `flagged` is the set of calls
whose stack flag was set through `local_flag_ptr_`. The constants say which calls
use `Js\Wait`, which are made only by PHP code JavaScript called, and which only by
destructors at the end. `SendToJs` waits in every caller there is, so calls are
synchronous. `uv_run` (asyncmessageworker.cc:98) returns at once because its only
handle was unref'd on line 93, so `PhpAsyncMessage_` never runs.

**WrapperCall** adds to it what PHP put in the answer of a call of JavaScript, a
scalar, an object or an exception, to ask whether the wrapper is open when an object
is converted.

**ObjectMapper.** The maps of both sides, the set of open wrappers and, in place of
the queues, the ids in flight (one may be delivered in any order with the others,
which is more than the queues allow). A wrapper is named by the id it was made for.
`Foreign` are wrappers of another request that the script hands over. A PHP array
is copied before it is named (`Separate`), so `IdForPhpArray` always makes a new
one. `ClearPhpId` erases by the handle field of the zval even when it holds an
array; what those bits are is left open.

**ThreadPool.** The pool takes work in order; a script holds its thread until it
ends. The only thing a script does here is the read of README.md's example.

**StreamRead, StreamWrite.** The handlers of lib/index.js with node's `Readable`,
`Writable` and `setImmediate` as environment: a `Readable` emits `data` only while
it flows, and schedules `end` when its last chunk is taken and it already knows
that there is no more, paused or not; a `Writable` returns false from `write` at the
high-water mark and then owes a `drain`. Bytes are their positions in the body.

**Values.** A number is an int32, a uint32 or a double in JavaScript, an `Int` or a
`Double` in a message, a long or a double in PHP. The widths (`IntMax`, `LongMax`),
the set of integers that are doubles and the rounding to them are constants, so the
same definitions are checked at 2 and 4 bits and proved for all. Strings of PHP are
bytes and those of JavaScript text, with decoding and encoding as constants that
are inverse on UTF-8 (`Utf8`) and on text without lone surrogates (`Unicode`). Of a
buffer its bytes cross and a new one is made; an array is sent as the id of its named
copy (`Named`), and comes back as that; `Js\Wait` and a resource are null in
JavaScript, and `undefined` null in PHP. Objects and booleans are members of an
opaque set: what an object is on the other side is `ObjectMapper`'s subject. Two
buffers made of the same bytes are not told apart, nor two copies of one array.

**PhpArray.** The hash table is a function from its keys, with `nNextFreeElement`
as `next`. An operation of JavaScript is one message and one step; the script acts
between any two. What V8 calls an index goes to the indexed handlers, the other
names to the named ones, which drop what they are given ("Lie"), and the `Map`
methods take every key. `Array.prototype.push` is `PushBegin`, `PushSet` and
`PushLength`, the three messages it makes. `ArrayLike` sees the map of what
JavaScript reads, and the length.

**ArraySharing.** Variables and the mapper hold zvals; assignment shares one, a
write copies a shared one, `Js\ByRef` makes a reference, `IdForPhpObj` names a copy.

**The linter.** A line is a record of what its regular expressions find: a
directive, the heads and braces of blocks, an `#include`, a `NOLINT` comment, where
a function begins or ends, its width. `LintBlocks` is `NestingState.Update` but for
the preprocessor, as a function of a stack and a line; `LintNesting` adds
`UpdatePreprocessor` with `pp_stack`. `LintIncludes` is the order of the headers
(`seen` and `flagged` are history) and the checks that read the list of them.
`LintReports` decides what is printed and counted. `Cpplint` puts them together:
`ParseArguments`; for each file `SkipFile` or `OpenFile` (with `CPPLINT.cfg`),
`Prescan` (copyright, header guard, comments), `ProcessLine` for each line,
`EndFileData` and `EndFile`. Of the checks that look at one line and keep nothing,
only a representative of each way of reporting is there (line length, header guard,
a check of raw lines).

## The runs

| run | instance and bounds | shows |
|---|---|---|
| `mq` | two ordinary replies, the shutdown reply, a request, a request that drains | order, wake-ups, teardown of the handle, nobody sleeps on a reply that came, every wait ends but that for a reply refused after the shutdown, refinement of `FifoChannel` |
| `amw` | PHP calls: plain, with wait, from a handler with wait, from a destructor; two JavaScript calls | one answer per call, no message touched after its caller went on, empty queues at teardown, the threads never wait for each other, the request ends |
| `mapper` | a JavaScript object, a foreign wrapper, a PHP object, arrays; 4 id values | names are identities, the sides agree, the end closes this request's wrappers only |
| `stream_read` | three reads of 0, 1 or 2 bytes, body of 0 to 3, chunks of 1 or 2 | order, one answer per read, no event without a reader, no read left with nothing to answer it |
| `stream_write` | three flushes, five chunks, high-water mark 2 | flushes wait only for a drain that is owed, return once, and leave less than the mark behind |
| `phparray` | longs of 4 bits, integers of 2, doubles of a 2-bit significand; keys 1, 7 (the greatest) and a string; at most 3 entries; under the string the script puts a value of every kind, under the others one number | every key below the length, a push spares what was there, what JavaScript reads of a copy it made and what PHP gets back, refinement of `ArrayLike` |
| `lint` | every file of 5 lines from 6 kinds of block and directive, of 4 from 8 kinds of include and directive, of 3 from 14 kinds of other line, every header of 3 lines of guards; every `f, g, f` of 11 odd files | blocks follow the true branches (refinement of `TrueBranch`), C and C++ headers are reported exactly when out of order, filters and `NOLINT` stay in their file |

Why the bounds are enough. `mq`: two replies make a loop meet a reply another loop
waits for, in either nesting; one drainer gives a loop without match inside one with
match; a request beside them arrives anywhere, also after the shutdown. Messages are
pushed once each, and a queue treats them alike. `amw`: two calls of each side are
what is needed for a call below a call below a callback, for an answer that arrives
in a loop waiting for another, and for a callback during somebody else's call; every
kind of PHP call is there once; the proofs remove the bound. `mapper`: each side has an object, a wrapper and
ids left for one more, and 4 values make `next_id_` wrap inside the run; the proofs
remove the bound. `stream_read`: three reads are one in progress, one queued and one
that overtakes; sizes smaller than, equal to and larger than a chunk occur; the
proofs remove the bounds.
`stream_write`: one chunk below the mark, one at it and more than one drain; the
proofs remove the bounds. `phparray`: the widths are distinct, so that every range
of values.h has a number in it and every conversion one that does not fit; lengths
are negative, between, above the longs, NaN and a string; the greatest key is there.
`CopiedBack` is about each entry by itself, so one key under which every kind of value
is put will do. The proofs
remove these bounds too. `lint`: five lines hold an `#if` in an `#else` of another
with a block in each, and a directive without partner; four includes give each pair of
groups before and after a third; a file that leaves something behind is read before
and after every other one. The proofs remove these bounds: they are about a run over
any files of any lines.

`CHECK_DEADLOCK FALSE` is set for the modules of one request, one stream, one array
at its bound, or one run of the linter, which come to a stop when it is over (`amw`
also when a push was refused; `pool_deadlock` states its stop as liveness). The queue
never stops, since `Notify` is always possible, and `mq` checks deadlock.

Fairness. *Queue*: each thread takes its next step when it can (weak), and gets the
lock when others keep taking and releasing it (strong, for `Lock`, `Reacquire` and
`Shutdown`); a reply that was asked for is pushed, unless the shutdown reply was
before it. `AsyncMessageWorker` shows no more of the callee: `Finishes` is that each
call is answered but for a refused push, and `late_call` is such an answer, which is
late and whose caller waits for ever. `EveryCallReturns` excepts exactly that
(`TooLate`). Requests and notifications have no fairness.
*Worker*: both threads run while they can, so user code that was called returns; a
callback that JavaScript was given is called at the latest when its event loop is
idle, the contract of a node-style callback. User code is not made to call anything
else. *Streams*: immediates run, a resumed stream delivers or ends, a full one
drains or fails. *Pool*: its threads take work, reads and scripts go on. The array
and the linter have no fairness and no liveness property: an operation on an array
is one step, and the linter's loop is over the lines it was given.

### Disagreements the runs show

Five runs end in a counterexample to something the code or its documentation says.
The texts are in `PROJECT.json`; in short:

* `late_call` (messagequeue.h:75, :98): PHP code that JavaScript called during the
  cleanup calls JavaScript, and its answer is pushed on a queue that was shut down.
* `lost_tail` (index.js:36): when the last chunk of a body is larger than the read,
  the stream's `end` hides the rest of it.
* `closed_wrapper` (node_php_phpobject_class.cc:609, :639, :846): a property is read
  or a method called through a wrapper that the wait itself closes, and the answer is
  then converted with its `channel_`, which is `nullptr`.
* `aliased_array` (asyncmapperchannel.cc:123): an array that JavaScript hands back to
  PHP shares its zval with a variable, and JavaScript's writes change both.
* `pool_deadlock` (README.md:156, node_php_embed.cc:304): requests that wait for
  `fs.readFile` take all threads of the pool, and none is left to read.

`NoPushAfterShutdown` is not an invariant, so the properties of `amw` say what holds
besides: `Finishes` and `QueuesDrained` allow for a refused push and nothing else.

### Also seen while reading

These follow from the code too; no run is devoted to them. Where a property would be
broken by one, its comment says what it excepts.

* A `__destruct` run by `ClearPhpId` that calls JavaScript, an `echo` is enough, is
  refused like `late_call` (messagequeue.h:75).
* `exit()` or a fatal error in PHP code that JavaScript called unwinds past the calls
  below it, which stay unanswered and uncounted (asyncmessageworker.cc:60); in the
  cleanup there is no `zend_try` left, and the process ends.
* `Js\Wait` is refused as a deadlock while PHP is about to serve the very call of
  JavaScript that would block it (messages.h:79).
* While a request shuts down id 0, "invalid object", is given to every object and
  names several (asyncmapperchannel.h:62); `OneNamePerObject` leaves it out.
* A flush returns with up to a high-water mark of output in the stream, where
  index.js:298 wants it empty, and after an error without the error: `FlushBound` is
  what is true of it.
* `HandleOKCallback` converts the result after the ids were cleared
  (phprequestworker.cc:218).
* `k in arr` is true of an entry that holds null, which is only not enumerable; the
  `isset` that the handler's comment names is false of it
  (node_php_phpobject_class.cc:917).
* cpplint: the comment on the order of includes (cpplint.py:4656-4666) ranks `foo.h` of
  foo.cc at its "deprecated location" (4) before "other google headers" (5) and says
  that the linter "keeps track of the highest type seen, and complains if we see a
  lower type after that". `CheckNextIncludeOrder` (736-747) complains of C and C++
  headers only: `foo.h` after other headers passes in silence. `OrderErrors` is stated
  in the comment's groups and says what the code does, and `lint` has such files.
* cpplint: the line length of a `CPPLINT.cfg` is never taken back, and of several the
  outermost wins; `include_list` is never popped, so that the `#else` after a nested
  conditional clears the list of the inner one; a long function is reported again at
  each later `}` in the first column; a `NOLINT` cannot hide what is reported before
  its line is read (copyright, an unclosed comment, which is also reported a line
  late), and a malformed one on a line of a header guard is reported twice.

## What is proved

With TLAPS, for all values of the constants that satisfy the assumptions of the
modules. These say what the code's types say: replies and drainers are messages, the
shutdown reply is a reply (`MsgAssumption`); there is more than one id, and wrappers,
objects and ids are different things (`IdAssumption`, `ValueAssumption`); doubles
contain the 32-bit integers, a long is rounded to a nearest double, decoding and
encoding are inverse on UTF-8, a buffer that is made holds its bytes, and what has a
name is not copied again (`ValuesAssumption`, `PhpArrayAssumption`); sizes are numbers, and null is neither a
read nor an answer (`SizeAssumption`); the calls of the two sides and the cleanup message are
different (`CallsAssumption`); the high-water mark is positive (`BufferAssumption`);
lines and includes are records of their fields (`LineAssumption`,
`IncludeAssumption`, `LongNamespaceAssumption`, `CategoryAssumption`), and what the
linter is called with is a sequence of files of such lines (`ArgumentsAssumption`).

* `MessageQueueProofs`: `TypeCorrect`, `WakeupsAreNotLost`, `ExecutedInOrder`,
  `QueueIsChannel` (`Spec => Channel!SafeSpec`, the safety half of the refinement),
  of the teardown `LoopIsWoken`, `HandleIsOpen` and `NothingIsStranded`, and
  `AnsweredIsAwake`.
  `NoLostWakeup` alone is not inductive: that a message in the queue of a sleeping
  consumer is about to be broadcast needs that the consumer holds the lock when it
  decides to sleep, hence the invariant `Control`: who is where owns the lock
  (`LockOwner`), a message is in hand only between pop and `func` (`Hand`), and the
  stack of loops fits the program counter (`Frames`). `InOrder` is inductive
  relative to `Control`; its step lemmas follow the three steps that move a message
  (`Store`, `Grab`, `Func`). The refinement maps `Store` to `Send`, `Func` to
  `Receive`, `Shutdown` to `Close` and every other step to a stutter. The teardown
  needs two more invariants. `Announced`: a message in the queue of an open handle has
  a wake-up pending or about to be sent, or lies under a `DoProcess(nullptr)` that has
  not found the queue empty yet. `Teardown`: the shutdown reply is the last message
  stored, and when the consumer has it in hand the producer is past its `async_send`.
  `AnsweredIsAwake` (`NeverSleepsAnswered`) is the safety half of `EveryCallReturns`: a
  loop does not sleep once its reply was executed, by itself or by a loop nested in it.
  The invariant `Answers` says that no reply is pushed, stored or executed before it was
  asked for, and that the match of a loop on its way to the wait is not processed:
  a loop begins with a reply that nobody asked for yet, and tests it after each `func`.
* `AsyncMessageWorkerProofs`: `WorkerTypes`, `NothingDangles`, `NoAsyncExact`,
  `CallsKeepProtocol`, `AnswersAreStable`, `DrainedAtTheEnd`, `ServicedBeforeCleanup`
  and `NobodyWaitsInVain`, that is every safety property of `amw`. None is inductive:
  that a message in a queue is alive says nothing of the step that will take it. The invariant `IInv` says where
  a message is, by counting. It is in its owner's queue once exactly while its status
  says so (`JsQueued`, `PhpQueued`); its request part is on the callee's stack once
  while it runs, and one of JavaScript that was answered by its callback is flagged
  (`JsRuns`, `PhpRuns`); a callback is armed, and an answer missing, only until the
  answer is sent (`Pending`); and `js_is_sync_` is the number of frames that block the
  event loop (`Synced`). Each action then changes one count. The end of the request
  needs `EndInv` besides: who is under way is waited for in exactly one frame of its
  caller (`JsWaits`, `PhpWaits`), and the cleanup message, `valid`, the two
  `shutdown_` and the bottom frame of the PHP thread go together (`Phases`). When
  `js_queue_` is shut down the PHP thread has one frame, so no call of PHP is alive,
  and none becomes so (`Drained`).
  `NobodyWaitsInVain` (`NeverBothBlocked`) is the safety half of `Finishes`, with the
  guards of the two threads written out since `ENABLED` is out of the prover's reach.
  Two loops that wait for each other would be crossed: the call one waits for runs
  below the other loop, on both threads. Frames nest, but a callback breaks the
  nesting: its call goes on with no frame in JavaScript. The invariant `Uncrossed`
  therefore speaks of calls that run: such a call has a frame or an armed callback
  (`Held`), and a call of JavaScript that waits with no `InJs` of `m` above it is served
  in PHP, if at all, above the loop that waits for `m` (`Nested`). `InJs` leaves a call
  to its callback only when `no_async` is false, and then, by `Synced`, no loop of
  JavaScript waits: that is the step where `Nested` would break.
* `ObjectMapperProofs`: `MapperTypes`, `NamesAreIdentities`, `SidesAlwaysAgree`,
  `WrappersAreClosed`, `PhpSideIsReleased`, all from the invariant `IInv`. The
  properties speak of the two maps; what makes them inductive is the id counter
  (`Fresh`: no id at or above it is used), the ids in flight (`Bridges`: an id on
  its way is still mapped where it came from), where every open wrapper is
  (`OpenWrappers`), the phases of the request, and id 0 (`ZeroUnused`).
* `PhpArrayProofs`: `RoundTrip` about the conversions alone, what JavaScript gets back
  for a value it sent: the same number at every width, the same object, wrapper or
  string (without lone surrogates), a buffer with the same bytes, null for
  `undefined`. `CopiesAgree` is the way from PHP and back, with every exception by its
  name in `Returned`. Further `ArrayTypes`, `LengthAboveKeys`, `OldSpared`, and
  `ArrayIsArrayLike`, the whole refinement. `PushSparesOld` speaks of one step, the
  last message of a push; the invariant `OldBelow` carries to it that the integer keys
  the push found are below the place it writes to, from `KeysBelowLength` when it
  began.
* `LintProofs`: `NestingTypesHold` and `NestingRefinesTrueBranch`. The stack of blocks
  is refined from the stack itself while no `#else` was seen and otherwise from the
  copy made at the outermost one (`Kept`): what `#else` and `#endif` do inside cannot
  reach that copy, which is the invariant `OutermostIn`.
  `OrderIsExact`: a C or C++ header is reported exactly when one of a higher group
  came before it, and no other is. One section number stands for all headers since
  the last directive; `SectionOf` says which fact about them each number is, and is
  what every header preserves. `LongFunctionsPrinted`: a function that is too long at
  a verbosity has a confidence that passes it.
  The others are about the program's run over any files. `RunReadsBlocks` and
  `RunReadsIncludes`: each step of the run steps `LintNesting` and `LintIncludes`, makes
  them anew, or leaves them alone, from the invariant `Driven` (what is read is the
  first file still to do). With the theorems above they give `RunFollowsTrueBranches`
  and `RunReportsOrder`. `FiltersStayInTheirFile` follows the filters through every way
  out of a file; its invariant `FiltersKept` adds that while a file is read the copy
  to restore is that of the command line. `HiddenByNolintOnly`: the suppressions in
  force, and what was hidden by them, come from lines of the file being read
  (`NolintOfFile`), those that the header guard was looked up with included.
* `StreamReadProofs`: `ReadTypes`, `ReadInOrder`, `DataIsRead`, `ReadsKeepTheirPlace`,
  `ShortReadsAreLast`, `ReadsAreCarried`. `Control` says how the wrapper's fields and the
  stream fit: it flows exactly while a read is in progress, and that read has room and has taken all
  of the last chunk. On it rest the order of the bytes (`_onInputData` either cuts the
  buffer where the result is full or takes all of it, `InputDataCases`), the places of
  a read (`Placed`, by counting the tasks of each read in both queues), and
  `NoneShort`: while the body is not over, no short answer is even on its way.
  `ReadsAreCarried` (`NoReadStranded`) is the safety half of `EveryReadAnswered`. A
  result that is full starts one of the reads that wait, and another call may come
  before it; the invariant `Carried` says that reads wait only behind one that is in
  progress or queued to be started, and that none waits after the end.
* `StreamWriteProofs`: `WriteTypes`, `NoFlushLeftBehind`, `FlushedOnce`,
  `FlushesToHighWater`, from an invariant of three parts. `Control`: the wrapper
  knows of an error when the stream has failed, and is not flushed only while a drain
  is owed. `InOnePlace`: a flush is counted once in the callbacks and immediates
  together (`Counting` has the lemmas on counts of concatenations). `Prompt`: what
  was released was released below the mark, and the stream never takes back.

Only model-checked: liveness (`EveryCallReturns`, `Finishes`, `EveryReadAnswered`,
`EveryFlushReturns`, the liveness half of `ChannelSpec`), which with its fairness is
beyond the proof system used. Every invariant and every action property of a run is
proved. The other way round, `TypeCorrect`, `WorkerTypes`, `ArrayTypes`, `WriteTypes`
and `NestingTypesHold` hold for all instances, and no run repeats them.

## Not modelled

* Fire-and-forget messages: `MessageToPhp` with a callback and `MessageToJs` that is
  not synchronous have no caller in the sources.
* The jump of `exit()` and of fatal errors, and a bailout during the cleanup, which
  ends the process. `HandleOKCallback`, and the set-up of a request.
* Properties and methods of PHP objects that are no arrays, `ArrayAccess` and the
  handlers of `JsObject`: each is one synchronous call of `AsyncMessageWorker` whose
  result no later call depends on. `ArrayEnum` is not implemented in the code.
* Who owns the memory of a string or a buffer in a message; arrays by value and
  method thunks, which carry arguments and say that a property is a method.
* `sendHeader` and the building of `$_SERVER`: one-line decoding and copying.
* `Js\Buffer`, `Js\Wait`, `Js\Server`, `Js\Async`, `Js\ByRef`: containers and markers.
* The linter's checks of a single line (spacing, casts, names, `printf` formats) and
  its regular expressions: they keep no state, and a line is what they find in it.
* Module start-up, the command line, the build.

## What could come next

The jump of `exit()` as an action of the worker; the ids that messages carry in
`AsyncMessageWorker`, so that `ObjectMapper` and the queues are one module.
