------------------------- MODULE MessageQueueProofs -------------------------
(***************************************************************************)
(* Proofs about MessageQueue, for every set of messages: the types, what   *)
(* the lock and the stack of DoProcess frames guarantee (Control), and on  *)
(* top of it the order of the messages, the FIFO channel, and the answers  *)
(* that the frames wait for (Answers).                                     *)
(***************************************************************************)
EXTENDS MessageQueue, TLAPS, SequenceTheorems

\* lock_ is held exactly by the thread that is between its lock and unlock.
LockOwner ==
  /\ lock = "producer" <=> ProducerHolds
  /\ lock = "consumer" <=> ConsumerHolds

\* A message is in the consumer's hand from the time it pops it to func.
Hand ==
  /\ cm # NoMsg => cpc \in {"unlock", "func"}
  /\ cpc = "func" => cm # NoMsg

\* DoProcess frames exist when the consumer is not in its event loop; only a
\* loop with no match can find the queue empty and end, only one with a match
\* can sleep.
Frames ==
  /\ matches = <<>> <=> cpc = "idle"
  /\ ~loop => cpc \in {"unlock", "test"} /\ cm = NoMsg /\ match = NoMsg
  /\ cpc \in {"wait", "woken"} => match # NoMsg

Control == TypeOK /\ LockOwner /\ Hand /\ Frames /\ NoLostWakeup

-----------------------------------------------------------------------------
\* The stack of frames without its innermost one.
LEMMA PopFrame ==
  ASSUME NEW S, NEW s \in Seq(S), s # <<>>
  PROVE  /\ SubSeq(s, 1, Len(s) - 1) \in Seq(S)
         /\ Len(SubSeq(s, 1, Len(s) - 1)) = Len(s) - 1
         /\ \A i \in 1 .. Len(s) - 1 : SubSeq(s, 1, Len(s) - 1)[i] = s[i]
<1> DEFINE n == Len(s) - 1
<1>1. n \in Nat /\ n <= Len(s)
  OBVIOUS
<1> HIDE DEF n
<1>2. SubSeq(s, 1, n) \in Seq(S) /\ Len(SubSeq(s, 1, n)) = n
  BY <1>1
<1>3. \A i \in 1 .. n : SubSeq(s, 1, n)[i] = s[i]
  BY <1>1
<1> QED
  BY <1>2, <1>3 DEF n

\* The stack of frames with one more.
LEMMA PushFrame ==
  ASSUME NEW S, NEW s \in Seq(S), NEW x \in S
  PROVE  /\ Append(s, x) # <<>> /\ Len(Append(s, x)) = Len(s) + 1
         /\ Append(s, x)[Len(s) + 1] = x
         /\ \A i \in 1 .. Len(s) : Append(s, x)[i] = s[i]
         /\ s # <<>> => Append(s, x)[1] = s[1] /\ Len(Append(s, x)) # 1
  OBVIOUS

\* Types are preserved by every step taken from a state in which a message
\* about to be executed is a message.
LEMMA TypeStep ==
  ASSUME TypeOK, Hand, Frames, [Next]_vars
  PROVE  TypeOK'
<1> USE MsgAssumption DEF MsgAssumption, TypeOK, async, producer, consumer, replies, history
<1>1. CASE \E m \in Msg : Push(m)
  BY <1>1 DEF Push, EnterPush
<1>2. CASE Notify
  BY <1>2 DEF Notify, EnterPush
<1>3. CASE Store
  <2>1. CASE pm = NoMsg
    BY <1>3, <2>1 DEF Store
  <2>2. CASE pm # NoMsg
    <3>1. Append(data, pm) \in Seq(Msg) /\ Append(accepted, pm) \in Seq(Msg)
      BY <2>2
    <3> QED
      BY <1>3, <2>2, <3>1 DEF Store
  <2> QED
    BY <2>1, <2>2
<1>4. CASE Refuse
  BY <1>4 DEF Refuse
<1>5. CASE Broadcast
  BY <1>5 DEF Broadcast, Woken
<1>6. CASE AsyncSend
  BY <1>6 DEF AsyncSend
<1>7. CASE LeavePush
  BY <1>7 DEF LeavePush
<1>8. CASE Shutdown
  BY <1>8 DEF Shutdown
<1>9. CASE \E r \in Reply : Call(r)
  BY <1>9 DEF Call
<1>10. CASE ConsumerLocks
  BY <1>10 DEF ConsumerLocks, Lock, Reacquire
<1>11. CASE OnAsync
  <2>1. <<NoMsg>> \in Seq(Reply \cup {NoMsg})
    OBVIOUS
  <2> QED
    BY <1>11, <2>1 DEF OnAsync
<1>12. CASE Grab
  BY <1>12 DEF Grab
<1>13. CASE Wait \/ FoundEmpty \/ Unlock \/ FuncReturns \/ SpuriousWakeup
  BY <1>13 DEF Wait, FoundEmpty, Unlock, FuncReturns, SpuriousWakeup
<1>14. CASE Func
  <2>1. cm \in Msg
    BY <1>14 DEF Func, Hand
  <2>2. Append(executed, cm) \in Seq(Msg)
    BY <2>1
  <2>3. Append(matches, NoMsg) \in Seq(Reply \cup {NoMsg})
    OBVIOUS
  <2>4. matches' \in Seq(Reply \cup {NoMsg}) /\ executed' \in Seq(Msg)
    BY <1>14, <2>2, <2>3 DEF Func
  <2> QED
    BY <1>14, <2>4 DEF Func, Marks
<1>15. CASE Test
  <2>1. matches # <<>>
    BY <1>15 DEF Test, Frames
  <2>2. SubSeq(matches, 1, Len(matches) - 1) \in Seq(Reply \cup {NoMsg})
    BY <2>1, PopFrame
  <2>3. matches' \in Seq(Reply \cup {NoMsg})
    BY <1>15, <2>2 DEF Test
  <2> QED
    BY <1>15, <2>3 DEF Test
<1>16. CASE CloseAsync
  BY <1>16 DEF CloseAsync
<1>17. CASE UNCHANGED vars
  BY <1>17 DEF vars
<1> QED
  BY <1>1, <1>2, <1>3, <1>4, <1>5, <1>6, <1>7, <1>8, <1>9, <1>10, <1>11,
     <1>12, <1>13, <1>14, <1>15, <1>16, <1>17 DEF Next, ProducerStep, ConsumerStep

\* The lock, the message in hand and the stack of frames stay consistent, and
\* the consumer sleeps only on an empty queue or one about to be announced.
LEMMA ControlStep ==
  ASSUME Control, TypeOK', [Next]_vars
  PROVE  Control'
<1> USE MsgAssumption DEF MsgAssumption, Control, LockOwner, Hand, Frames, NoLostWakeup,
        ProducerHolds, ConsumerHolds, async, producer, consumer, replies, history, match
<1>1. CASE (\E m \in Msg : Push(m)) \/ Notify
  BY <1>1 DEF Push, Notify, EnterPush
<1>2. CASE Store
  BY <1>2 DEF Store
<1>3. CASE Refuse \/ AsyncSend
  BY <1>3 DEF Refuse, AsyncSend
<1>4. CASE Broadcast
  BY <1>4 DEF Broadcast, Woken
<1>5. CASE LeavePush \/ Shutdown
  BY <1>5 DEF LeavePush, Shutdown
<1>6. CASE \E r \in Reply : Call(r)
  BY <1>6 DEF Call, TypeOK
<1>7. CASE OnAsync
  BY <1>7 DEF OnAsync
<1>8. CASE ConsumerLocks
  BY <1>8 DEF ConsumerLocks, Lock, Reacquire
<1>9. CASE Grab
  BY <1>9 DEF Grab, TypeOK
<1>10. CASE Wait \/ FoundEmpty \/ SpuriousWakeup
  BY <1>10 DEF Wait, FoundEmpty, SpuriousWakeup
<1>15. CASE Unlock \/ FuncReturns
  BY <1>15 DEF Unlock, FuncReturns
<1>11. CASE Func
  BY <1>11 DEF Func, TypeOK
<1>12. CASE Test
  <2>1. matches # <<>> /\ matches \in Seq(Reply \cup {NoMsg})
    BY <1>12 DEF Test, TypeOK
  <2>2. /\ Len(matches) \in Nat \ {0}
        /\ Len(SubSeq(matches, 1, Len(matches) - 1)) = Len(matches) - 1
        /\ SubSeq(matches, 1, Len(matches) - 1) \in Seq(Reply \cup {NoMsg})
    BY <2>1, PopFrame
  <2>3. CASE Finished
    <3>1. matches' = SubSeq(matches, 1, Len(matches) - 1)
      BY <1>12, <2>3 DEF Test
    <3>2. Len(matches') = Len(matches) - 1 /\ matches' \in Seq(Reply \cup {NoMsg})
      BY <2>2, <3>1
    <3>3. matches' = <<>> <=> Len(matches') = 0
      BY <3>2
    <3>4. matches' = <<>> <=> Len(matches) = 1
      BY <2>2, <3>2, <3>3
    <3> QED
      BY <1>12, <2>3, <3>4 DEF Test
  <2>4. CASE ~Finished
    BY <1>12, <2>1, <2>4 DEF Test, Finished
  <2> QED
    BY <2>3, <2>4
<1>13. CASE CloseAsync
  BY <1>13 DEF CloseAsync
<1>14. CASE UNCHANGED vars
  BY <1>14 DEF vars
<1> QED
  BY <1>1, <1>2, <1>3, <1>4, <1>5, <1>6, <1>7, <1>8, <1>9, <1>10, <1>11,
     <1>12, <1>13, <1>14, <1>15 DEF Next, ProducerStep, ConsumerStep

\* Lock, frames and sleep of the consumer fit together in every state.
THEOREM ControlInvariant == Spec => []Control
<1>1. Init => Control
  <2>1. Init => TypeOK
    <3>1. \A S : <<>> \in Seq(S)
      BY EmptySeq
    <3> QED
      BY <3>1, Zenon DEF Init, TypeOK
  <2>2. Init => LockOwner /\ Hand /\ Frames /\ NoLostWakeup
    BY DEF Init, LockOwner, Hand, Frames, NoLostWakeup, ProducerHolds, ConsumerHolds
  <2> QED
    BY <2>1, <2>2 DEF Control
<1>2. Control /\ [Next]_vars => Control'
  BY TypeStep, ControlStep DEF Control
<1> QED
  BY <1>1, <1>2, PTL DEF Spec, SafeSpec

\* The state of every variable of the queue has the type the code gives it.
THEOREM TypeCorrect == Spec => []TypeOK
BY ControlInvariant, PTL DEF Control

\* No interleaving of _Push with the test and the uv_cond_wait of DoProcess
\* leaves the consumer asleep on a queue that holds a message.
THEOREM WakeupsAreNotLost == Spec => []NoLostWakeup
BY ControlInvariant, PTL DEF Control

-----------------------------------------------------------------------------
(***************************************************************************)
(* Order: the executed messages, the one in hand and those in data_ are    *)
(* the accepted ones, in their order.                                      *)
(***************************************************************************)

\* push_back keeps the order.
LEMMA StoreInOrder ==
  ASSUME TypeOK, InOrder, Store
  PROVE  InOrder'
<1>1. UNCHANGED <<executed, cm>>
  BY DEF Store, consumer
<1>2. CASE pm = NoMsg
  BY <1>1, <1>2 DEF Store, InOrder, InHand
<1>3. CASE pm # NoMsg
  <2>1. /\ pm \in Msg /\ accepted \in Seq(Msg) /\ data \in Seq(Msg) /\ executed \in Seq(Msg)
        /\ accepted' = Append(accepted, pm) /\ data' = Append(data, pm)
    BY <1>3 DEF TypeOK, Store
  <2>2. /\ Len(accepted') = Len(accepted) + 1 /\ Len(data') = Len(data) + 1
        /\ \A i \in 1 .. Len(accepted) : accepted'[i] = accepted[i]
        /\ \A i \in 1 .. Len(data) : data'[i] = data[i]
        /\ accepted'[Len(accepted) + 1] = pm /\ data'[Len(data) + 1] = pm
    BY <2>1
  <2>3. InHand' = InHand /\ InHand \in 0 .. 1 /\ (cm # NoMsg => InHand = 1)
    BY <1>1 DEF InHand
  <2>4. /\ Len(accepted) \in Nat /\ Len(data) \in Nat /\ Len(executed) \in Nat
        /\ Len(accepted) = Len(executed) + InHand + Len(data)
    BY <2>1 DEF InOrder
  <2>5. Len(accepted') = Len(executed') + InHand' + Len(data')
    BY <1>1, <2>2, <2>3, <2>4
  <2>6. \A i \in 1 .. Len(executed') : executed'[i] = accepted'[i]
    BY <1>1, <2>2, <2>3, <2>4 DEF InOrder
  <2>7. cm' # NoMsg => cm' = accepted'[Len(executed') + 1]
    BY <1>1, <2>2, <2>3, <2>4 DEF InOrder
  <2>8. ASSUME NEW i \in 1 .. Len(data')
        PROVE  data'[i] = accepted'[Len(executed') + InHand' + i]
    <3>1. CASE i \in 1 .. Len(data)
      <4>1. data[i] = accepted[Len(executed) + InHand + i]
        BY <3>1 DEF InOrder
      <4>2. Len(executed) + InHand + i \in 1 .. Len(accepted)
        BY <2>3, <2>4, <3>1
      <4> QED
        BY <1>1, <2>2, <2>3, <3>1, <4>1, <4>2
    <3>2. CASE i = Len(data) + 1
      <4>1. Len(executed) + InHand + i = Len(accepted) + 1
        BY <2>3, <2>4, <3>2
      <4> QED
        BY <1>1, <2>2, <2>3, <3>2, <4>1
    <3> QED
      BY <2>2, <2>4, <2>8, <3>1, <3>2
  <2> QED
    BY <2>5, <2>6, <2>7, <2>8 DEF InOrder
<1> QED
  BY <1>2, <1>3

\* pop_front takes the oldest of the messages that are left.
LEMMA GrabInOrder ==
  ASSUME TypeOK, InOrder, Hand, Grab, NoMsg \notin Msg
  PROVE  InOrder'
<1>1. /\ data \in Seq(Msg) /\ data # <<>> /\ cm' = Head(data) /\ data' = Tail(data)
      /\ cm = NoMsg /\ UNCHANGED <<accepted, executed>> /\ executed \in Seq(Msg)
  BY DEF TypeOK, Grab, Hand, history
<1>2. /\ Len(data') = Len(data) - 1 /\ Len(data) \in Nat \ {0} /\ Len(executed) \in Nat
      /\ \A i \in 1 .. Len(data') : data'[i] = data[i + 1]
      /\ cm' = data[1] /\ cm' \in Msg
  BY <1>1
<1>3. InHand = 0 /\ InHand' = 1
  BY <1>1, <1>2 DEF InHand
<1>4. /\ Len(accepted) = Len(executed) + Len(data)
      /\ \A i \in 1 .. Len(data) : data[i] = accepted[Len(executed) + i]
  BY <1>2, <1>3 DEF InOrder
<1>5. Len(accepted') = Len(executed') + InHand' + Len(data')
  BY <1>1, <1>2, <1>3, <1>4
<1>6. \A i \in 1 .. Len(executed') : executed'[i] = accepted'[i]
  BY <1>1 DEF InOrder
<1>7. cm' # NoMsg => cm' = accepted'[Len(executed') + 1]
  BY <1>1, <1>2, <1>4
<1>8. ASSUME NEW i \in 1 .. Len(data')
      PROVE  data'[i] = accepted'[Len(executed') + InHand' + i]
  <2>1. i \in Nat /\ i + 1 \in 1 .. Len(data)
    BY <1>2
  <2>2. data[i + 1] = accepted[Len(executed) + (i + 1)]
    BY <2>1, <1>4
  <2>3. Len(executed) + (i + 1) = Len(executed) + 1 + i
    BY <1>2, <2>1
  <2> QED
    BY <1>1, <1>2, <1>3, <2>2, <2>3
<1> QED
  BY <1>5, <1>6, <1>7, <1>8 DEF InOrder

\* func executes the message in hand.
LEMMA FuncInOrder ==
  ASSUME TypeOK, InOrder, Hand, Func
  PROVE  InOrder' /\ executed' = Append(executed, accepted[Len(executed) + 1])
         /\ Len(executed) < Len(accepted)
<1>1. /\ cm # NoMsg /\ cm \in Msg /\ cm' = NoMsg /\ executed' = Append(executed, cm)
      /\ UNCHANGED <<accepted, data>> /\ executed \in Seq(Msg) /\ data \in Seq(Msg)
  BY DEF TypeOK, Func, Hand
<1>2. /\ Len(executed') = Len(executed) + 1 /\ Len(executed) \in Nat /\ Len(data) \in Nat
      /\ \A i \in 1 .. Len(executed) : executed'[i] = executed[i]
      /\ executed'[Len(executed) + 1] = cm
  BY <1>1
<1>3. InHand = 1 /\ InHand' = 0
  BY <1>1 DEF InHand
<1> QED
  BY <1>1, <1>2, <1>3 DEF InOrder

\* Every other step leaves the order alone.
LEMMA OrderStep ==
  ASSUME Control, InOrder, [Next]_vars
  PROVE  InOrder'
<1> USE DEF async, producer, consumer, replies, history
<1>1. CASE Store
  BY <1>1, StoreInOrder DEF Control
<1>2. CASE Grab
  BY <1>2, GrabInOrder, MsgAssumption DEF Control, MsgAssumption
<1>3. CASE Func
  BY <1>3, FuncInOrder DEF Control
<1>4. ASSUME UNCHANGED <<accepted, executed, data, cm>> PROVE InOrder'
  BY <1>4 DEF InOrder, InHand
<1>5. CASE (\E m \in Msg : Push(m)) \/ Notify \/ Refuse \/ Broadcast \/ AsyncSend \/ LeavePush \/ Shutdown
  BY <1>4, <1>5 DEF Push, Notify, EnterPush, Refuse, Broadcast, AsyncSend, LeavePush, Shutdown
<1>6. CASE (\E r \in Reply : Call(r)) \/ ConsumerLocks \/ OnAsync \/ CloseAsync \/ SpuriousWakeup
  BY <1>4, <1>6 DEF Call, ConsumerLocks, Lock, Reacquire, OnAsync, CloseAsync, SpuriousWakeup
<1>7. CASE Wait \/ FoundEmpty \/ Unlock \/ FuncReturns \/ Test
  BY <1>4, <1>7 DEF Wait, FoundEmpty, Unlock, FuncReturns, Test
<1>8. CASE UNCHANGED vars
  BY <1>4, <1>8 DEF vars
<1> QED
  BY <1>1, <1>2, <1>3, <1>5, <1>6, <1>7, <1>8 DEF Next, ProducerStep, ConsumerStep

\* Messages are executed in the order in which they were pushed, none twice and
\* none skipped, however DoProcess loops nest.
THEOREM ExecutedInOrder == Spec => []InOrder
<1>1. Init => InOrder
  BY DEF Init, InOrder, InHand
<1>2. Control /\ InOrder /\ [Next]_vars => InOrder'
  BY OrderStep
<1> QED
  BY <1>1, <1>2, ControlInvariant, PTL DEF Spec, SafeSpec

-----------------------------------------------------------------------------
(***************************************************************************)
(* A queue is a FifoChannel, as far as safety goes: every step is one of   *)
(* the channel, or leaves it as it is.                                     *)
(***************************************************************************)

\* push_back sends, func receives, the flag closes.
LEMMA ChannelStep ==
  ASSUME Control, InOrder, [Next]_vars
  PROVE  [Channel!Next]_(Channel!vars)
<1> USE DEF async, producer, consumer, replies, history
<1>0. ASSUME UNCHANGED <<accepted, executed, shutdown>> PROVE UNCHANGED Channel!vars
  BY <1>0 DEF Channel!vars
<1>1. CASE Store
  <2>1. CASE pm = NoMsg
    BY <1>0, <1>1, <2>1 DEF Store
  <2>2. CASE pm # NoMsg
    <3>1. pm \in Msg /\ Channel!Send(pm)
      BY <1>1, <2>2 DEF Store, Channel!Send, Control, TypeOK
    <3> QED
      BY <3>1 DEF Channel!Next
  <2> QED
    BY <2>1, <2>2
<1>2. CASE Func
  <2>1. Channel!Receive
    BY <1>2, FuncInOrder DEF Control, Func, Channel!Receive
  <2> QED
    BY <2>1 DEF Channel!Next
<1>3. CASE Shutdown
  <2>1. Channel!Close
    BY <1>3 DEF Shutdown, Channel!Close
  <2> QED
    BY <2>1 DEF Channel!Next
<1>5. CASE (\E m \in Msg : Push(m)) \/ Notify \/ Refuse \/ Broadcast \/ AsyncSend \/ LeavePush
  BY <1>0, <1>5 DEF Push, Notify, EnterPush, Refuse, Broadcast, AsyncSend, LeavePush
<1>6. CASE (\E r \in Reply : Call(r)) \/ ConsumerLocks \/ OnAsync \/ CloseAsync \/ SpuriousWakeup
  BY <1>0, <1>6 DEF Call, ConsumerLocks, Lock, Reacquire, OnAsync, CloseAsync, SpuriousWakeup
<1>7. CASE Grab \/ Wait \/ FoundEmpty \/ Unlock \/ FuncReturns \/ Test
  BY <1>0, <1>7 DEF Grab, Wait, FoundEmpty, Unlock, FuncReturns, Test
<1>8. CASE UNCHANGED vars
  BY <1>0, <1>8 DEF vars
<1> QED
  BY <1>1, <1>2, <1>3, <1>5, <1>6, <1>7, <1>8 DEF Next, ProducerStep, ConsumerStep

\* The queue with its lock, its condition variable and its nested loops
\* implements the channel.
THEOREM QueueIsChannel == Spec => Channel!SafeSpec
<1>1. Init => Channel!Init
  BY DEF Init, Channel!Init
<1>2. Control /\ InOrder /\ [Next]_vars => [Channel!Next]_(Channel!vars)
  BY ChannelStep
<1> QED
  BY <1>1, <1>2, ControlInvariant, ExecutedInOrder, PTL DEF Spec, SafeSpec, Channel!SafeSpec
-----------------------------------------------------------------------------
(***************************************************************************)
(* Teardown: what is in data_ when the consumer is in its event loop, and  *)
(* when it has closed async_.                                              *)
(***************************************************************************)

\* Messages in data_ have a wake-up coming, or are below a DoProcess(nullptr)
\* that has not found the queue empty since.
Announced ==
  data # <<>> /\ open =>
    \/ pending
    \/ ppc \in {"broadcast", "send"}
    \/ matches # <<>> /\ matches[1] = NoMsg /\ (Len(matches) = 1 => loop)

\* The shutdown reply is pushed, and nothing is stored any more.
Closing == ppc = "shutdown" \/ shutdown

\* The shutdown reply is the last message of data_; when the consumer has it,
\* data_ is empty and the producer beyond the push.
Teardown ==
  /\ ppc = "store" => pm \notin refused
  /\ shutdown => ppc \notin {"broadcast", "send"}
  /\ \A i \in 1 .. Len(data) : data[i] = Last =>
       /\ i = Len(data)
       /\ Closing \/ (ppc \in {"broadcast", "send", "unlock"} /\ pm = Last /\ Last \notin refused)
  /\ cm = Last \/ Last \in processed \/ ~open => Closing /\ data = <<>>

\* Only OnAsync takes a wake-up back, and it begins a loop that ends on an
\* empty queue.
LEMMA AnnouncedStep ==
  ASSUME Control, Control', Announced, [Next]_vars
  PROVE  Announced'
<1> USE MsgAssumption DEF MsgAssumption, Control, TypeOK, Announced, async, producer, consumer,
        replies, history
<1>1. CASE (\E m \in Msg : Push(m)) \/ Notify
  BY <1>1 DEF Push, Notify, EnterPush
<1>2. CASE Store \/ Refuse \/ Broadcast \/ AsyncSend \/ LeavePush \/ Shutdown
  BY <1>2 DEF Store, Refuse, Broadcast, AsyncSend, LeavePush, Shutdown
<1>3. CASE \E r \in Reply : Call(r)
  <2>1. PICK r \in Reply : Call(r)
    BY <1>3
  <2>2. /\ matches' = Append(matches, r) /\ UNCHANGED <<data, open, pending, ppc, loop>>
        /\ matches \in Seq(Reply \cup {NoMsg})
    BY <2>1 DEF Call
  <2>3. matches # <<>> => matches' # <<>> /\ matches'[1] = matches[1] /\ Len(matches') # 1
    BY <2>2, PushFrame
  <2> QED
    BY <2>2, <2>3
<1>4. CASE OnAsync
  BY <1>4 DEF OnAsync, Frames
<1>5. CASE Grab
  BY <1>5 DEF Grab
<1>6. CASE ConsumerLocks \/ Wait \/ FoundEmpty \/ SpuriousWakeup \/ Unlock \/ FuncReturns
  BY <1>6 DEF ConsumerLocks, Lock, Reacquire, Wait, FoundEmpty, SpuriousWakeup, Unlock, FuncReturns
<1>7. CASE Func
  <2>1. CASE cm \in Drainer
    <3>1. /\ matches' = Append(matches, NoMsg) /\ UNCHANGED <<data, open, pending, ppc, loop>>
          /\ matches \in Seq(Reply \cup {NoMsg})
      BY <1>7, <2>1 DEF Func
    <3>2. NoMsg \in Reply \cup {NoMsg}
      OBVIOUS
    <3>3. matches # <<>> => matches' # <<>> /\ matches'[1] = matches[1] /\ Len(matches') # 1
      <4>1. matches \in Seq(Reply \cup {NoMsg})
        BY <3>1
      <4>2. matches # <<>> => /\ Append(matches, NoMsg) # <<>>
                              /\ Append(matches, NoMsg)[1] = matches[1]
                              /\ Len(Append(matches, NoMsg)) # 1
        BY <3>2, <4>1, PushFrame
      <4> QED
        BY <3>1, <4>2
    <3> QED
      BY <3>1, <3>3
  <2>2. CASE cm \notin Drainer
    BY <1>7, <2>2 DEF Func
  <2> QED
    BY <2>1, <2>2
<1>8. CASE Test
  <2>1. UNCHANGED <<data, open, pending, ppc>> /\ matches # <<>>
    BY <1>8 DEF Test, Frames
  <2>2. CASE Finished
    <3>1. matches' = SubSeq(matches, 1, Len(matches) - 1) /\ loop'
      BY <1>8, <2>2 DEF Test
    <3>2. Len(matches) \in Nat \ {0} /\ Len(matches') = Len(matches) - 1
          /\ \A i \in 1 .. Len(matches) - 1 : matches'[i] = matches[i]
      BY <2>1, <3>1, PopFrame
    <3>3. CASE Len(matches) = 1
      <4>1. match = matches[1] /\ NoMsg \notin processed
        BY <3>3 DEF match
      <4>2. matches[1] = NoMsg => ~loop
        BY <2>2, <4>1 DEF Finished
      <4> QED
        BY <2>1, <3>3, <4>2
    <3>4. CASE Len(matches) # 1
      <4>1. matches' # <<>> /\ matches'[1] = matches[1]
        BY <3>2, <3>4
      <4> QED
        BY <2>1, <3>1, <3>4, <4>1
    <3> QED
      BY <3>3, <3>4
  <2>3. CASE ~Finished
    BY <1>8, <2>1, <2>3 DEF Test
  <2> QED
    BY <2>2, <2>3
<1>9. CASE CloseAsync
  BY <1>9 DEF CloseAsync
<1>10. CASE UNCHANGED vars
  BY <1>10 DEF vars
<1> QED
  BY <1>1, <1>2, <1>3, <1>4, <1>5, <1>6, <1>7, <1>8, <1>9, <1>10
     DEF Next, ProducerStep, ConsumerStep

\* The push of the shutdown reply, its way to func, and the closing of async_.
LEMMA TeardownStep ==
  ASSUME Control, Control', Teardown, [Next]_vars
  PROVE  Teardown'
<1> USE MsgAssumption DEF MsgAssumption, Control, TypeOK, LockOwner, ProducerHolds, ConsumerHolds,
        Teardown, Closing, async, producer, consumer, replies, history
<1>1. CASE (\E m \in Msg : Push(m)) \/ Notify
  BY <1>1 DEF Push, Notify, EnterPush, MayPush, Pushed
<1>2. CASE Store
  <2>1. ~Closing /\ ppc = "store" /\ ppc' = "broadcast" /\ ~shutdown
        /\ UNCHANGED <<shutdown, pm, cm, processed, open, refused>>
    BY <1>2 DEF Store
  <2>2. /\ cm # Last /\ Last \notin processed /\ open /\ pm \notin refused
        /\ \A i \in 1 .. Len(data) : data[i] # Last
    BY <2>1
  <2>3. CASE pm = NoMsg
    BY <1>2, <2>1, <2>2, <2>3 DEF Store
  <2>4. CASE pm # NoMsg
    <3>1. data' = Append(data, pm) /\ data \in Seq(Msg) /\ pm \in Msg
      BY <1>2, <2>4 DEF Store
    <3>2. Len(data') = Len(data) + 1 /\ data'[Len(data) + 1] = pm /\ Len(data) \in Nat
          /\ \A i \in 1 .. Len(data) : data'[i] = data[i]
      BY <3>1, PushFrame
    <3>3. ASSUME NEW i \in 1 .. Len(data'), data'[i] = Last
          PROVE  i = Len(data') /\ pm = Last
      <4>1. i \notin 1 .. Len(data)
        BY <2>2, <3>2, <3>3
      <4> QED
        BY <3>2, <3>3, <4>1
    <3> QED
      BY <2>1, <2>2, <3>3
  <2> QED
    BY <2>3, <2>4
<1>3. CASE Refuse
  BY <1>3 DEF Refuse
<1>4. CASE Broadcast \/ AsyncSend
  BY <1>4 DEF Broadcast, AsyncSend
<1>5. CASE LeavePush
  BY <1>5 DEF LeavePush, ShutsDown
<1>6. CASE Shutdown
  BY <1>6 DEF Shutdown
<1>7. CASE Grab
  <2>1. /\ data \in Seq(Msg) /\ data # <<>> /\ cm' = Head(data) /\ data' = Tail(data)
        /\ lock = "consumer"
        /\ UNCHANGED <<shutdown, ppc, pm, processed, open, refused>>
    BY <1>7 DEF Grab
  <2>2. ppc \notin {"store", "broadcast", "send", "unlock"}
    BY <2>1
  <2>3. /\ Len(data) \in Nat \ {0} /\ Len(data') = Len(data) - 1
        /\ \A i \in 1 .. Len(data') : data'[i] = data[i + 1]
        /\ cm' = data[1]
    BY <2>1
  <2>4. \A i \in 1 .. Len(data') : data'[i] = Last => i = Len(data') /\ Closing
    BY <2>2, <2>3
  <2>5. cm' = Last => Closing /\ data' = <<>>
    <3>1. SUFFICES ASSUME cm' = Last PROVE Closing /\ data' = <<>>
      OBVIOUS
    <3>2. 1 \in 1 .. Len(data) /\ data[1] = Last
      BY <2>3, <3>1
    <3>3. Len(data) = 1 /\ Closing
      BY <2>2, <3>2
    <3>4. data' = Tail(data) /\ data \in Seq(Msg) /\ Len(data) = 1
      BY <2>1, <3>3
    <3>5. data' = <<>>
      BY <3>4
    <3> QED
      BY <3>3, <3>5
  <2>6. Last \notin processed /\ open
    BY <2>1
  <2> QED
    BY <2>1, <2>2, <2>4, <2>5, <2>6
<1>8. CASE Func
  <2>1. UNCHANGED <<data, shutdown, open, ppc, pm, refused>> /\ cm' = NoMsg
        /\ (Last \in processed' => cm = Last \/ Last \in processed)
    BY <1>8 DEF Func, Marks
  <2> QED
    BY <2>1
<1>9. CASE (\E r \in Reply : Call(r)) \/ ConsumerLocks \/ OnAsync \/ SpuriousWakeup
  BY <1>9 DEF Call, ConsumerLocks, Lock, Reacquire, OnAsync, SpuriousWakeup
<1>10. CASE Wait \/ FoundEmpty \/ Unlock \/ FuncReturns \/ Test
  BY <1>10 DEF Wait, FoundEmpty, Unlock, FuncReturns, Test
<1>11. CASE CloseAsync
  BY <1>11 DEF CloseAsync
<1>12. CASE UNCHANGED vars
  BY <1>12 DEF vars
<1> QED
  BY <1>1, <1>2, <1>3, <1>4, <1>5, <1>6, <1>7, <1>8, <1>9, <1>10, <1>11, <1>12
     DEF Next, ProducerStep, ConsumerStep

\* Both hold in every state.
THEOREM TeardownInvariant == Spec => [](Control /\ Announced /\ Teardown)
<1>1. Init => Announced /\ Teardown
  BY MsgAssumption DEF MsgAssumption, Init, Announced, Teardown, Closing
<1>2. Control /\ Control' /\ Announced /\ Teardown /\ [Next]_vars => Announced' /\ Teardown'
  BY AnnouncedStep, TeardownStep
<1> QED
  BY <1>1, <1>2, ControlInvariant, PTL DEF Spec, SafeSpec

\* No message is left for a later push to announce: when the consumer is in its
\* event loop and data_ is not empty, async_ was sent or is about to be.
THEOREM LoopIsWoken == Spec => []LoopWillWake
<1>1. Control /\ Announced => LoopWillWake
  BY DEF Control, Frames, Announced, LoopWillWake
<1> QED
  BY <1>1, TeardownInvariant, PTL

\* The consumer, woken by the shutdown reply, does not close async_ under the
\* producer that is about to send on it, whatever else is pushed and when.
THEOREM HandleIsOpen == Spec => []SendsOnOpenHandle
<1>1. Teardown => SendsOnOpenHandle
  BY DEF Teardown, Closing, SendsOnOpenHandle
<1> QED
  BY <1>1, TeardownInvariant, PTL

\* The queue is empty when its handle is closed: no sender waits for ever.
THEOREM NothingIsStranded == Spec => []NothingStranded
<1>1. Teardown => NothingStranded
  BY DEF Teardown, NothingStranded
<1> QED
  BY <1>1, TeardownInvariant, PTL

-----------------------------------------------------------------------------
(***************************************************************************)
(* Replies: the innermost loop that waits for one goes to sleep only while *)
(* it has not come, whichever loop is the one to execute it.               *)
(***************************************************************************)

\* A reply is pushed after it was asked for, and processed_ is set by the time
\* it was executed; the loop that is about to look at the queue, or sleeps, has
\* looked at the processed_ of its match since func last ran.
Answers ==
  /\ pm \in Reply => pm \in asked
  /\ \A i \in 1 .. Len(accepted) : accepted[i] \in Reply => accepted[i] \in asked
  /\ processed \subseteq asked
  /\ \A i \in 1 .. Len(executed) : executed[i] \in Reply => executed[i] \in processed
  /\ cpc \in {"lock", "grab", "wait"} => match \notin processed

\* What has been popped was pushed, so a reply in hand was asked for.
LEMMA HandWasAsked ==
  ASSUME TypeOK, InOrder, Answers, cm # NoMsg, cm \in Reply
  PROVE  cm \in asked
<1>1. Len(executed) \in Nat /\ Len(data) \in Nat /\ Len(accepted) \in Nat
  BY DEF TypeOK
<1>2. InHand = 1
  BY DEF InHand
<1>3. Len(executed) + 1 \in 1 .. Len(accepted) /\ cm = accepted[Len(executed) + 1]
  BY <1>1, <1>2 DEF InOrder
<1> QED
  BY <1>3 DEF Answers

\* The message of a push and the accepted ones, when a message is stored.
LEMMA StoreAnswers ==
  ASSUME TypeOK, Answers, Store
  PROVE  Answers'
<1>1. UNCHANGED <<pm, asked, processed, executed, cpc, matches>>
  BY DEF Store, consumer, replies
<1>2. CASE pm = NoMsg
  BY <1>1, <1>2 DEF Store, Answers, match
<1>3. CASE pm # NoMsg
  <2>1. accepted \in Seq(Msg) /\ pm \in Msg /\ accepted' = Append(accepted, pm)
    BY <1>3 DEF Store, TypeOK
  <2>2. /\ Len(accepted') = Len(accepted) + 1 /\ Len(accepted) \in Nat
        /\ \A i \in 1 .. Len(accepted) : accepted'[i] = accepted[i]
        /\ accepted'[Len(accepted) + 1] = pm
    BY <2>1
  <2>3. ASSUME NEW i \in 1 .. Len(accepted'), accepted'[i] \in Reply
        PROVE  accepted'[i] \in asked
    <3>1. CASE i \in 1 .. Len(accepted)
      BY <2>2, <2>3, <3>1 DEF Answers
    <3>2. CASE i = Len(accepted) + 1
      BY <2>2, <2>3, <3>2 DEF Answers
    <3> QED
      BY <2>2, <2>3, <3>1, <3>2
  <2> QED
    BY <1>1, <2>3 DEF Answers, match
<1> QED
  BY <1>2, <1>3

\* A call asks for a reply that nobody has asked for, let alone pushed.
LEMMA CallAnswers ==
  ASSUME TypeOK, Answers, NEW r \in Reply, Call(r)
  PROVE  Answers'
<1>1. /\ asked' = asked \cup {r} /\ r \notin asked /\ matches' = Append(matches, r)
      /\ UNCHANGED <<pm, accepted, processed, executed>> /\ matches \in Seq(Reply \cup {NoMsg})
  BY DEF Call, producer, history, TypeOK
<1>2. match' = r
  BY <1>1 DEF match
<1> QED
  BY <1>1, <1>2 DEF Answers

\* func sets the processed_ of the reply it is given.
LEMMA FuncAnswers ==
  ASSUME TypeOK, Hand, Frames, InOrder, Answers, Func
  PROVE  Answers'
<1> USE MsgAssumption DEF MsgAssumption
<1>1. /\ cm # NoMsg /\ cm \in Msg /\ executed' = Append(executed, cm) /\ executed \in Seq(Msg)
      /\ processed' = processed \cup ({cm} \cap Reply) /\ UNCHANGED <<pm, accepted, asked>>
  BY DEF Func, Hand, TypeOK, Marks, producer
<1>2. processed' \subseteq asked'
  BY <1>1, HandWasAsked DEF Answers
<1>3. /\ Len(executed') = Len(executed) + 1 /\ Len(executed) \in Nat
      /\ \A i \in 1 .. Len(executed) : executed'[i] = executed[i]
      /\ executed'[Len(executed) + 1] = cm
  BY <1>1
<1>4. ASSUME NEW i \in 1 .. Len(executed'), executed'[i] \in Reply
      PROVE  executed'[i] \in processed'
  <2>1. CASE i \in 1 .. Len(executed)
    BY <1>1, <1>3, <1>4, <2>1 DEF Answers
  <2>2. CASE i = Len(executed) + 1
    BY <1>1, <1>3, <1>4, <2>2
  <2> QED
    BY <1>3, <1>4, <2>1, <2>2
<1>5. cpc' \in {"lock", "grab", "wait"} => match' \notin processed'
  <2>1. CASE cm \in Drainer
    <3>1. matches' = Append(matches, NoMsg) /\ matches \in Seq(Reply \cup {NoMsg})
      BY <2>1 DEF Func, TypeOK
    <3>2. match' = NoMsg
      BY <3>1 DEF match
    <3>3. processed' \subseteq Reply
      BY <1>1 DEF TypeOK
    <3> QED
      BY <3>2, <3>3
  <2>2. CASE cm \notin Drainer
    BY <2>2 DEF Func
  <2> QED
    BY <2>1, <2>2
<1> QED
  BY <1>1, <1>2, <1>4, <1>5 DEF Answers

\* An iteration that ends without the reply goes on, and has just seen that it
\* is missing.
LEMMA TestAnswers ==
  ASSUME Answers, Test
  PROVE  Answers'
<1>1. UNCHANGED <<pm, accepted, asked, processed, executed>>
  BY DEF Test, producer, replies, history
<1>2. CASE Finished
  BY <1>1, <1>2 DEF Test, Answers
<1>3. CASE ~Finished
  BY <1>1, <1>3 DEF Test, Answers, Finished, match
<1> QED
  BY <1>2, <1>3

\* Every other step leaves the replies alone and begins no look at the queue.
LEMMA AnswersStep ==
  ASSUME Control, InOrder, Answers, [Next]_vars
  PROVE  Answers'
<1> USE MsgAssumption DEF MsgAssumption, async, producer, consumer, replies, history
<1>1. ASSUME UNCHANGED <<matches, accepted, asked, processed, executed>>, pm' \in {pm, NoMsg},
             cpc' \in {"lock", "grab", "wait"} => cpc \in {"lock", "grab", "wait"}
      PROVE  Answers'
  BY <1>1 DEF Answers, match
<1>2. CASE Store
  BY <1>2, StoreAnswers DEF Control
<1>3. CASE \E r \in Reply : Call(r)
  BY <1>3, CallAnswers DEF Control
<1>4. CASE Func
  BY <1>4, FuncAnswers DEF Control
<1>5. CASE Test
  BY <1>5, TestAnswers
<1>6. CASE OnAsync
  <2>1. match' = NoMsg /\ NoMsg \notin processed
    BY <1>6 DEF OnAsync, match, Control, TypeOK
  <2> QED
    BY <1>6, <2>1 DEF OnAsync, Answers
<1>7. CASE \E m \in Msg : Push(m)
  <2>1. PICK m \in Msg : Push(m)
    BY <1>7
  <2>2. /\ pm' = m /\ (m \in Reply => m \in asked)
        /\ UNCHANGED <<matches, cpc, accepted, asked, processed, executed>>
    BY <2>1 DEF Push, EnterPush, MayPush
  <2> QED
    BY <2>2 DEF Answers, match
<1>8. CASE Notify
  BY <1>1, <1>8 DEF Notify, EnterPush
<1>9. CASE Refuse \/ Broadcast \/ AsyncSend \/ LeavePush \/ Shutdown
  BY <1>1, <1>9 DEF Refuse, Broadcast, Woken, AsyncSend, LeavePush, Shutdown
<1>10. CASE ConsumerLocks \/ SpuriousWakeup \/ CloseAsync
  BY <1>1, <1>10 DEF ConsumerLocks, Lock, Reacquire, SpuriousWakeup, CloseAsync
<1>11. CASE Grab \/ Wait \/ FoundEmpty \/ Unlock \/ FuncReturns
  BY <1>1, <1>11 DEF Grab, Wait, FoundEmpty, Unlock, FuncReturns
<1>12. CASE UNCHANGED vars
  BY <1>1, <1>12 DEF vars
<1> QED
  BY <1>2, <1>3, <1>4, <1>5, <1>6, <1>7, <1>8, <1>9, <1>10, <1>11, <1>12
     DEF Next, ProducerStep, ConsumerStep

\* A sleeping thread whose reply has been pushed finds it in the queue: with
\* nothing in hand and nothing queued, all that was pushed has been executed.
LEMMA SleepsUnanswered ==
  ASSUME Control, InOrder, Answers
  PROVE  NeverSleepsAnswered
<1> SUFFICES ASSUME cpc = "wait", match \in Elements(accepted), data = <<>>
             PROVE  FALSE
  BY DEF NeverSleepsAnswered
<1>1. /\ matches # <<>> /\ matches \in Seq(Reply \cup {NoMsg}) /\ match # NoMsg /\ cm = NoMsg
      /\ Len(executed) \in Nat /\ Len(accepted) \in Nat
  BY DEF Control, TypeOK, Frames, Hand
<1>2. match \in Reply
  BY <1>1 DEF match
<1>3. PICK i \in 1 .. Len(accepted) : match = accepted[i]
  BY DEF Elements
<1>4. Len(accepted) = Len(executed) /\ executed[i] = accepted[i]
  BY <1>1, <1>3 DEF InOrder, InHand
<1>5. match \in processed
  BY <1>2, <1>3, <1>4 DEF Answers
<1> QED
  BY <1>5 DEF Answers

\* No nesting of DoProcess loops leaves a thread asleep on the condition
\* variable after its reply was executed, by itself or by a loop inside it.
THEOREM AnsweredIsAwake == Spec => []NeverSleepsAnswered
<1>1. Init => Answers
  BY MsgAssumption DEF MsgAssumption, Init, Answers
<1>2. Control /\ InOrder /\ Answers /\ [Next]_vars => Answers'
  BY AnswersStep
<1>3. Control /\ InOrder /\ Answers => NeverSleepsAnswered
  BY SleepsUnanswered
<1> QED
  BY <1>1, <1>2, <1>3, ControlInvariant, ExecutedInOrder, PTL DEF Spec, SafeSpec
=============================================================================
