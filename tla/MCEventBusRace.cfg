SPECIFICATION Spec
CONSTANTS
  Events = {e1, e2}
  e1 = e1
  e2 = e2
  IsrEvents = {e2}
  Handlers = {h1}
  h1 = h1
  NoEvent = NoEvent
  EVENT_QUEUE_SIZE = 3
  MAX_EVENT_HANDLERS = 1
  ByteMod = 6
INVARIANT NothingLeftBehind
