CONSTANTS
  Events = {e1, e2}
  IsrEvents = {e2}
  Handlers = {h1, h2}
  NoEvent = NoEvent
  EVENT_QUEUE_SIZE = 3
  MAX_EVENT_HANDLERS = 2
  ByteMod = 6
SPECIFICATION FairSpec
INVARIANTS TypeOK SizeBound Occupancy CalledOnce
PROPERTIES FifoUntilRaced EventuallyDispatched
