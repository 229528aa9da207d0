SPECIFICATION Spec
CONSTANTS
  Cards = {0, 1}
  RingSize = 4
  RxSize = 2
  BlockSize = 2
  Requests <- AllRequests
  None = None
INVARIANTS
  AnswerIsPrepared
PROPERTIES
  ImplementsCommandChannel
  MainLoopReturns
