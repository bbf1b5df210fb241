SPECIFICATION Spec
SYMMETRY Symmetry
CONSTANTS
  SceneIds = {s1, s2, s3}
  SceneSettings = {"on"}
  Keys = {k1, k2, k3}
  KeyScenes = {"s1", "s2"}
  GroupAddrs = {g1, g2}
  GroupSettings = {"dim"}
  TaskScenes = {"7"}
  TaskSettings = {"7:00"}
  Mixes = {{"scene", "task"}, {"group"}, {"bind"}}
  Blank = Blank
  SCENE_ID_MAX = 2
  BIND_SCENE_MAX = 2
  BIND_GROUP_MAX = 2
  TIMER_TASK_MAX = 1
  PartsPerPage = 3
INVARIANTS TypeOK OneEntryEach CountedEntriesInUse
PROPERTIES RestartChangesNothing PowerFailureKeepsOldOrPrefix BindingsKept
