---------------------------- MODULE MessageQueue ----------------------------
(***************************************************************************)
(* src/src/messagequeue.h: the queue through which one thread hands        *)
(* Message pointers to another.  AsyncMessageWorker has two of them:       *)
(* js_queue_ (PHP pushes, the node thread consumes) and php_queue_ (the    *)
(* node thread pushes, PHP consumes).  The module models one queue, its    *)
(* mutex, its condition variable and its uv_async_t handle, at the         *)
(* granularity of the calls made on those three.                           *)
(*                                                                         *)
(* The two threads are modelled only as far as the queue sees them.  The   *)
(* producer runs _Push (Push, Notify) and Shutdown.  The consumer runs     *)
(* DoProcess, from its event loop or from the body of `func`, hence a      *)
(* stack of nested DoProcess frames.  A reply is a message the consumer    *)
(* asked for and may wait for as `match`; executing it sets processed_.    *)
(* Every other message is a request of the producer.                       *)
(***************************************************************************)
EXTENDS Naturals, Sequences

CONSTANTS
  Msg,        \* the messages, each pushed on this queue at most once
  Reply,      \* those the consumer waits for (responses to its own requests)
  Drainer,    \* requests whose execution calls DoProcess(nullptr)
  Last,       \* the message sent with MessageFlags::SHUTDOWN
  NoMsg       \* nullptr

ASSUME MsgAssumption ==
  /\ Reply \subseteq Msg
  /\ Drainer \subseteq Msg \ Reply
  /\ Last \in Reply
  /\ NoMsg \notin Msg

VARIABLES
  lock,       \* lock_: "free", or the thread that owns it
  data,       \* data_
  shutdown,   \* shutdown_
  pending,    \* async_ was sent and its callback has not started yet
  open,       \* async_ has not been closed
  ppc, pm,    \* the producer: where it is, and the argument of _Push
  cpc,        \* the consumer: where it is in the innermost DoProcess
  matches,    \* the `match` of every DoProcess frame, innermost last
  cm, loop,   \* m and loop of the innermost frame
  asked,      \* replies the consumer has asked the other thread for
  processed,  \* messages whose processed_ is set
  accepted,   \* history: the messages data_.push_back was called with
  executed,   \* history: the messages func was called with
  refused     \* history: messages pushed after shutdown (the failing assert)

async    == <<pending, open>>
producer == <<ppc, pm>>
consumer == <<cpc, matches, cm, loop>>
replies  == <<asked, processed>>
history  == <<accepted, executed, refused>>
vars == <<lock, data, shutdown, async, producer, consumer, replies, history>>

Elements(s) == {s[i] : i \in 1 .. Len(s)}

\* Where each thread holds lock_.
ProducerHolds == ppc \in {"store", "broadcast", "send", "unlock"}
ConsumerHolds == cpc \in {"grab", "unlock"}

\* Each variable has its type.
TypeOK ==
  /\ lock \in {"free", "producer", "consumer"}
  /\ data \in Seq(Msg)
  /\ shutdown \in BOOLEAN /\ pending \in BOOLEAN /\ open \in BOOLEAN
  /\ ppc \in {"idle", "store", "broadcast", "send", "unlock", "shutdown"}
  /\ cpc \in {"idle", "lock", "grab", "wait", "woken", "unlock", "func", "body", "test"}
  /\ pm \in Msg \cup {NoMsg} /\ cm \in Msg \cup {NoMsg} /\ loop \in BOOLEAN
  /\ matches \in Seq(Reply \cup {NoMsg})
  /\ asked \subseteq Reply /\ processed \subseteq Reply
  /\ accepted \in Seq(Msg) /\ executed \in Seq(Msg) /\ refused \subseteq Msg

Init ==
  /\ lock = "free" /\ data = <<>> /\ shutdown = FALSE /\ pending = FALSE /\ open = TRUE
  /\ ppc = "idle" /\ pm = NoMsg
  /\ cpc = "idle" /\ matches = <<>> /\ cm = NoMsg /\ loop = TRUE
  /\ asked = {} /\ processed = {}
  /\ accepted = <<>> /\ executed = <<>> /\ refused = {}

-----------------------------------------------------------------------------
(***************************************************************************)
(* The producer.                                                           *)
(***************************************************************************)

Pushed == Elements(accepted) \cup refused

\* What the two ends of the queue agree on: a message is pushed once, a reply
\* only after it was asked for.  The shutdown reply waits for no other reply:
\* those that come after it are refused.
MayPush(m) ==
  /\ m \notin Pushed
  /\ m \in Reply => m \in asked

\* uv_mutex_lock in _Push, called by Push(m) or, with NoMsg, by Notify().
EnterPush(m) ==
  /\ ppc = "idle" /\ lock = "free"
  /\ lock' = "producer" /\ ppc' = "store" /\ pm' = m
  /\ UNCHANGED <<data, shutdown, async, consumer, replies, history>>

Push(m) == MayPush(m) /\ EnterPush(m)

Notify == EnterPush(NoMsg)

StoreAfterShutdown == \* a bug: the flag is not tested
  /\ ppc = "store" /\ ppc' = "broadcast"
  /\ IF pm = NoMsg
       THEN UNCHANGED <<data, accepted>>
       ELSE data' = Append(data, pm) /\ accepted' = Append(accepted, pm)
  /\ UNCHANGED <<lock, shutdown, async, pm, consumer, replies, executed, refused>>

\* shutdown_ is not set: data_.push_back(m), if there is a message.
Store ==
  /\ ppc = "store" /\ ~shutdown /\ ppc' = "broadcast"
  /\ IF pm = NoMsg
       THEN UNCHANGED <<data, accepted>>
       ELSE data' = Append(data, pm) /\ accepted' = Append(accepted, pm)
  /\ UNCHANGED <<lock, shutdown, async, pm, consumer, replies, executed, refused>>

\* was_shutdown: the message is not stored and nobody is woken.
Refuse ==
  /\ ppc = "store" /\ shutdown /\ ppc' = "unlock"
  /\ refused' = refused \cup ({pm} \ {NoMsg})
  /\ UNCHANGED <<lock, data, shutdown, async, pm, consumer, replies, accepted, executed>>

NobodyWoken == cpc \* a bug: no broadcast

Woken == IF cpc = "wait" THEN "woken" ELSE cpc

SendOutsideLock == \* a bug: the lock is released before the send
  /\ ppc = "broadcast" /\ ppc' = "send"
  /\ lock' = "free" /\ cpc' = Woken
  /\ UNCHANGED <<data, shutdown, async, pm, matches, cm, loop, replies, history>>

\* uv_cond_broadcast: a sleeping consumer wakes up, and competes for lock_.
Broadcast ==
  /\ ppc = "broadcast" /\ ppc' = "send"
  /\ cpc' = Woken
  /\ UNCHANGED <<lock, data, shutdown, async, pm, matches, cm, loop, replies, history>>

NoAsyncSend == \* a bug: the event loop is not told
  /\ ppc = "send" /\ ppc' = "unlock"
  /\ UNCHANGED <<lock, data, shutdown, async, pm, consumer, replies, history>>

\* uv_async_send, still under the lock; sends that are not yet delivered
\* coalesce into one callback.
AsyncSend ==
  /\ ppc = "send" /\ ppc' = "unlock"
  /\ pending' = TRUE
  /\ UNCHANGED <<lock, data, shutdown, open, pm, consumer, replies, history>>

NeverShutsDown == FALSE \* a bug: the flag is ignored

\* isShutdown in SendToPhp, once the message is pushed.
ShutsDown == pm = Last /\ pm \notin refused

\* uv_mutex_unlock in _Push; a push with the SHUTDOWN flag goes on to Shutdown().
LeavePush ==
  /\ ppc = "unlock" /\ lock' = "free"
  /\ ppc' = IF ShutsDown THEN "shutdown" ELSE "idle"
  /\ UNCHANGED <<data, shutdown, async, pm, consumer, replies, history>>

\* Shutdown(): the flag is set under the lock.
Shutdown ==
  /\ ppc = "shutdown" /\ lock = "free" /\ ppc' = "idle"
  /\ shutdown' = TRUE
  /\ UNCHANGED <<lock, data, async, pm, consumer, replies, history>>

-----------------------------------------------------------------------------
(***************************************************************************)
(* The consumer.                                                           *)
(***************************************************************************)

match == matches[Len(matches)]

\* Send a request on the other queue and wait for its reply here, from the top
\* level or from inside func.  The shutdown reply is asked for at the top level;
\* the loop that waits for it may run code that calls again, and so may what is
\* destroyed after it, until the event loop is closed.
Call(r) ==
  /\ (cpc = "idle" /\ open) \/ (cpc = "body" /\ r # Last)
  /\ r \notin asked
  /\ asked' = asked \cup {r} /\ matches' = Append(matches, r) /\ cpc' = "lock"
  /\ UNCHANGED <<lock, data, shutdown, async, processed, cm, loop, producer, history>>

\* The event loop delivers the wake-up: DoProcess(nullptr).
OnAsync ==
  /\ cpc = "idle" /\ pending /\ open
  /\ pending' = FALSE /\ matches' = <<NoMsg>> /\ cpc' = "lock"
  /\ UNCHANGED <<lock, data, shutdown, open, cm, loop, producer, replies, history>>

Lock ==
  /\ cpc = "lock" /\ lock = "free"
  /\ lock' = "consumer" /\ cpc' = "grab"
  /\ UNCHANGED <<data, shutdown, async, matches, cm, loop, producer, replies, history>>

GrabNewest == \* a bug: the queue is a stack
  /\ cpc = "grab" /\ data # <<>> /\ cpc' = "unlock"
  /\ cm' = data[Len(data)] /\ data' = SubSeq(data, 1, Len(data) - 1)
  /\ UNCHANGED <<lock, shutdown, async, matches, loop, producer, replies, history>>

\* One message at a time, so that a nested loop goes on where this one is.
Grab ==
  /\ cpc = "grab" /\ data # <<>> /\ cpc' = "unlock"
  /\ cm' = Head(data) /\ data' = Tail(data)
  /\ UNCHANGED <<lock, shutdown, async, matches, loop, producer, replies, history>>

\* uv_cond_wait: the lock is released and the thread asleep in one step.
Wait ==
  /\ cpc = "grab" /\ data = <<>> /\ match # NoMsg
  /\ lock' = "free" /\ cpc' = "wait"
  /\ UNCHANGED <<data, shutdown, async, matches, cm, loop, producer, replies, history>>

FoundEmpty ==
  /\ cpc = "grab" /\ data = <<>> /\ match = NoMsg
  /\ loop' = FALSE /\ cpc' = "unlock"
  /\ UNCHANGED <<lock, data, shutdown, async, matches, cm, producer, replies, history>>

\* Condition variables may wake up with no broadcast.
SpuriousWakeup ==
  /\ cpc = "wait" /\ cpc' = "woken"
  /\ UNCHANGED <<lock, data, shutdown, async, matches, cm, loop, producer, replies, history>>

\* uv_cond_wait returns once it owns the lock again.
Reacquire ==
  /\ cpc = "woken" /\ lock = "free"
  /\ lock' = "consumer" /\ cpc' = "unlock"
  /\ UNCHANGED <<data, shutdown, async, matches, cm, loop, producer, replies, history>>

Unlock ==
  /\ cpc = "unlock" /\ lock' = "free"
  /\ cpc' = IF cm # NoMsg THEN "func" ELSE "test"
  /\ UNCHANGED <<data, shutdown, async, matches, cm, loop, producer, replies, history>>

Marks(m) == {m} \cap Reply

\* func(m): a reply sets its processed_, then user code may run in its body.
Func ==
  /\ cpc = "func" /\ cm' = NoMsg
  /\ executed' = Append(executed, cm)
  /\ processed' = processed \cup Marks(cm)
  /\ IF cm \in Drainer
       THEN matches' = Append(matches, NoMsg) /\ cpc' = "lock"
       ELSE UNCHANGED matches /\ cpc' = "body"
  /\ UNCHANGED <<lock, data, shutdown, async, asked, loop, producer, accepted, refused>>

FuncReturns ==
  /\ cpc = "body" /\ cpc' = "test"
  /\ UNCHANGED <<lock, data, shutdown, async, matches, cm, loop, producer, replies, history>>

FinishedByLast == \* a bug: m is compared with match, no nested loop is considered
  ~loop \/ (executed # <<>> /\ executed[Len(executed)] = match)

\* match->IsProcessed() is tested whoever executed it, this loop or a nested one.
Finished == ~loop \/ match \in processed

\* The end of an iteration: again, or back to the caller, whose own loop is
\* inside func with `loop` still true.
Test ==
  /\ cpc = "test"
  /\ IF Finished
       THEN /\ matches' = SubSeq(matches, 1, Len(matches) - 1) /\ loop' = TRUE
            /\ cpc' = IF Len(matches) = 1 THEN "idle" ELSE "body"
       ELSE cpc' = "lock" /\ UNCHANGED <<matches, loop>>
  /\ UNCHANGED <<lock, data, shutdown, async, cm, producer, replies, history>>

\* With the shutdown reply executed the consumer closes the handle.
CloseAsync ==
  /\ cpc = "idle" /\ Last \in processed /\ open
  /\ open' = FALSE /\ pending' = FALSE
  /\ UNCHANGED <<lock, data, shutdown, consumer, producer, replies, history>>

-----------------------------------------------------------------------------
\* The steps each thread takes by itself once it holds the lock or needs none.
ProducerStep == Store \/ Refuse \/ Broadcast \/ AsyncSend \/ LeavePush
ConsumerStep ==
  OnAsync \/ Grab \/ Wait \/ FoundEmpty \/ Unlock \/ Func \/ FuncReturns \/ Test
ConsumerLocks == Lock \/ Reacquire

Next ==
  \/ \E m \in Msg : Push(m)
  \/ Notify
  \/ ProducerStep
  \/ Shutdown
  \/ \E r \in Reply : Call(r)
  \/ ConsumerLocks
  \/ ConsumerStep
  \/ SpuriousWakeup
  \/ CloseAsync

SafeSpec == Init /\ [][Next]_vars

\* Threads run, the mutex starves nobody, and a reply asked for is sent unless
\* the shutdown reply is sent first.
Fairness ==
  /\ WF_vars(ProducerStep) /\ SF_vars(Shutdown)
  /\ \A r \in Reply : SF_vars(Last \notin Elements(accepted) /\ Push(r))
  /\ WF_vars(ConsumerStep) /\ SF_vars(ConsumerLocks)

Spec == SafeSpec /\ Fairness

-----------------------------------------------------------------------------
(***************************************************************************)
(* Properties.                                                             *)
(***************************************************************************)

\* Messages popped and not executed yet: at most the one in the consumer's hand.
InHand == IF cm = NoMsg THEN 0 ELSE 1

\* Whatever the nesting of DoProcess loops, messages are executed in the order
\* in which they were pushed, none twice, none skipped: the executed ones, the
\* one in hand and those in data_ line up with the accepted ones.
InOrder ==
  /\ Len(accepted) = Len(executed) + InHand + Len(data)
  /\ \A i \in 1 .. Len(executed) : executed[i] = accepted[i]
  /\ cm # NoMsg => cm = accepted[Len(executed) + 1]
  /\ \A i \in 1 .. Len(data) : data[i] = accepted[Len(executed) + InHand + i]

\* The consumer never sleeps on the condition variable with a message in the
\* queue, except between push_back and the broadcast that wakes it.
NoLostWakeup ==
  cpc = "wait" /\ data # <<>> => ppc = "broadcast"

\* A thread does not sleep for a reply that has come: whichever of the nested
\* loops executed it, the loop that waits for it knows; one that has just been
\* pushed is still in the queue.
NeverSleepsAnswered ==
  cpc = "wait" /\ match \in Elements(accepted) => data # <<>>

\* When the consumer is back in its event loop, what is still queued has a
\* callback coming: no message depends on a later push to be noticed.
LoopWillWake ==
  cpc = "idle" /\ open /\ data # <<>> => pending \/ ppc \in {"broadcast", "send"}

\* "async_ could be torn down as soon as the other thread wakes up": the handle
\* is still open whenever _Push is about to send on it.
SendsOnOpenHandle == ppc \in {"broadcast", "send"} => open

\* Nothing is left in the queue when the consumer has closed its handle, which
\* makes the ProcessPhp(nullptr) before it the precaution it is said to be.
NothingStranded == ~open => data = <<>>

\* The queue is a FIFO channel that loses nothing it accepted.
Channel == INSTANCE FifoChannel WITH sent <- accepted, got <- executed,
                                     closed <- shutdown
ChannelSpec == Channel!Spec

\* A loop of the consumer waits for a reply that was not pushed before the
\* shutdown reply, after which none is accepted.
TooLate ==
  /\ Last \in Elements(accepted)
  /\ \E i \in 1 .. Len(matches) : matches[i] \notin Elements(accepted) \cup {NoMsg}

\* Every DoProcess returns, however the loops nest, but for a thread that waits
\* for a reply which comes after the shutdown of the queue, and is refused.
EveryCallReturns == cpc # "idle" ~> cpc = "idle" \/ TooLate
=============================================================================
