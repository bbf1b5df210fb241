SPECIFICATION FairSpec
CONSTANTS
  Mixes = {{"feeddog", "mqtt_task", "http_task"}, {"do_ota", "timeout", "once"}}
  Names <- MCNames
  NoName = "none"
  MAX_SOFT_TIMERS = 3
  TickMod = 3
  Interval <- MCInterval
  Repeat <- MCRepeat
  BootScript <- MCBootScript
  CallbackScripts <- MCCallbackScripts
  HandlerScripts <- MCHandlerScripts
INVARIANTS TypeOK UniqueNames NotEarly
PROPERTIES ImplementsTimerSet PermanentKeepFiring
