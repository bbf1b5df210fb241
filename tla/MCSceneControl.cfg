SPECIFICATION Spec
CONSTANTS
  HOURS = 2
  MINS = 2
  UNITS = 4
  PERIOD = 2
  DELAY = 1
  EpochTime = 4
  TaskLists <- MCTaskLists
  Temps = {59, 60, 61}
  OVER_TEMP = 60
  PANEL_DEV_MAX = 6
  PER_FRAME = 2
  Scenes <- MCScenes
INVARIANTS TypeOK PageFollowsMenu AlarmRight FirstOutputsServed
PROPERTIES TasksRun TasksOnTime
