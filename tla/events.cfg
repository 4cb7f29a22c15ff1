SPECIFICATION FairSpec
CONSTANTS
  Sender = {ovsdb, receive, timer}
  Receiver = protocol
  Nobody = nobody
  Message = {tick, config}
  NoMessage = none
  MaxElements = 3
INVARIANTS Counted TokenIsElement
PROPERTIES QueueIsFifo QueueDelivers SendsReturn
