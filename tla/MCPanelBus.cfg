SPECIFICATION FairSpec
CONSTANTS
  Frames = {"key", "knob", "spare"}
  Type <- MCType
  Matches <- MCMatches
  Statuses = {"on", "off"}
  Zero = "off"
  NoFrame = "no frame"
  Blank = "blank"
  ResetCmd = "reset"
  EVENT_QUEUE_SIZE = 2
INVARIANTS TypeOK PanelsKnowStatus LastPressActedOn ScenesAreDriven
PROPERTIES SuperloopReturns ListensAgain
