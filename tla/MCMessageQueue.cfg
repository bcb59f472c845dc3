CONSTANTS
  a = a
  b = b
  last = last
  q = q
  d = d
  NoMsg = NoMsg
  Msg <- MCMsg
  Reply <- MCReply
  Drainer <- MCDrainer
  Last = last
SPECIFICATION Spec
INVARIANTS
  InOrder
  NoLostWakeup
  NeverSleepsAnswered
  LoopWillWake
  SendsOnOpenHandle
  NothingStranded
PROPERTIES
  ChannelSpec
  EveryCallReturns
