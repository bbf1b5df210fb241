SPECIFICATION Spec
SYMMETRY Symmetry
CONSTANTS
  SceneIds = {}
  SceneSettings = {}
  Keys = {k1, k2}
  KeyScenes = {"s1"}
  GroupAddrs = {}
  GroupSettings = {"dim"}
  TaskScenes = {}
  TaskSettings = {"7:00"}
  Mixes = {{"bind"}}
  Blank = Blank
  SCENE_ID_MAX = 2
  BIND_SCENE_MAX = 2
  BIND_GROUP_MAX = 1
  TIMER_TASK_MAX = 1
  PartsPerPage = 3
INVARIANT DeletedStayUnbound
