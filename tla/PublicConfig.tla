---------------------------- MODULE PublicConfig ----------------------------
(***************************************************************************)
(* app_public_config.c over bsp_flash.c: the tables of scenes, key         *)
(* bindings, group bindings and timer tasks, in RAM and in flash.          *)
(*                                                                         *)
(* Every table is changed in RAM and then saved whole: its flash pages are *)
(* erased and its entries programmed, one after the other.  An erase or a  *)
(* programming operation may fail, which ends the save; the power may fail *)
(* between any two steps.  Boot reads the tables back and counts the       *)
(* entries that are not blank.                                             *)
(*                                                                         *)
(* An entry has the part that identifies it and is programmed first (scene *)
(* id; panel address, key and status of a binding; panel address of a      *)
(* group; scene of a task) and the rest.  A binding is one flash word, so  *)
(* its two parts are programmed together.  Blank is 0xFF.                  *)
(***************************************************************************)
EXTENDS Integers, FiniteSets

CONSTANTS SceneIds, SceneSettings,       (* inputs of SetScene              *)
          Keys, KeyScenes,               (* inputs of BindScene             *)
          GroupAddrs, GroupSettings,     (* inputs of BindGroup             *)
          TaskScenes, TaskSettings,      (* inputs of TimerTask             *)
          Blank,
          Mixes,                         (* bound: the tables whose requests*)
                                         (* one behaviour makes             *)
          SCENE_ID_MAX, BIND_SCENE_MAX, BIND_GROUP_MAX, TIMER_TASK_MAX,
          PartsPerPage                   (* parts of scenes in a flash page *)

ASSUME ConfigAssumption ==
  /\ {SCENE_ID_MAX, BIND_SCENE_MAX, BIND_GROUP_MAX, TIMER_TASK_MAX, PartsPerPage}
       \subseteq Nat \ {0}
  \* The count of key bindings is checked against SCENE_ID_MAX.
  /\ SCENE_ID_MAX <= BIND_SCENE_MAX
  /\ Mixes \subseteq SUBSET {"scene", "bind", "group", "task"}
  \* 0xFF is the mark of an unused entry; the code would take it as an input
  \* too, which is left out.
  /\ Blank \notin SceneIds \cup KeyScenes \cup GroupAddrs

Tables == {"scene", "bind", "group", "task"}
Counted == {"scene", "bind", "group"}

Size == [t \in Tables |-> CASE t = "scene" -> SCENE_ID_MAX
                            [] t = "bind"  -> BIND_SCENE_MAX
                            [] t = "group" -> BIND_GROUP_MAX
                            [] t = "task"  -> TIMER_TASK_MAX]

Index(t) == 0 .. Size[t] - 1

\* The page of the k-th part (0 or 1) of entry i.  Only the scenes take more
\* than one page, and a scene may begin on one page and end on the next.
Page(t, i, k) == IF t = "scene" THEN (2 * i + k) \div PartsPerPage ELSE 0
Pages(t) == Page(t, Size[t] - 1, 1) + 1

Entry(k, v) == [key |-> k, val |-> v]
BlankEntry == Entry(Blank, Blank)
BlankTable(t) == [i \in Index(t) |-> BlankEntry]

VARIABLES
  mix,      (* the tables this behaviour makes requests for                 *)
  ram,      (* my_scene_id, my_bind_scene, my_bind_group, my_timer_task     *)
  active,   (* active_scene, active_scene_bind, active_group_bind           *)
  flash,    (* the tables in flash                                          *)
  job,      (* what the flash driver is doing: its kind, table and position *)
  before,   (* history: the flash table when the running save began         *)
  cut,      (* history: tables whose last save did not complete             *)
  gap,      (* history: tables of which flash has lost some pages only      *)
  stale,    (* history: tables that a deletion left in RAM or miscounted,   *)
            (* or that were loaded with a gap                               *)
  deleted   (* history: keys that were bound and deleted, not bound again   *)

ghosts == <<before, cut, gap, stale, deleted>>
vars == <<mix, ram, active, flash, job, ghosts>>

Idle == [kind |-> "idle", table |-> "task", at |-> 0, half |-> FALSE]
Erasing(t, p)  == [kind |-> "erase",   table |-> t, at |-> p, half |-> FALSE]
Deleting(t, p) == [kind |-> "delete",  table |-> t, at |-> p, half |-> FALSE]
Writing(t, i)  == [kind |-> "program", table |-> t, at |-> i, half |-> FALSE]

Init ==
  /\ mix \in Mixes
  /\ ram = [t \in Tables |-> BlankTable(t)]
  /\ flash = [t \in Tables |-> BlankTable(t)]
  /\ active = [t \in Counted |-> 0]
  /\ job = Idle
  /\ before = BlankTable("task")
  /\ cut = {} /\ gap = {} /\ stale = {} /\ deleted = {}

-----------------------------------------------------------------------------
(* Changing a table in RAM, and beginning to save it.                       *)

\* (faulty variant) the pages are not erased before they are programmed
SaveOver(t) ==
  /\ job' = Writing(t, 0)
  /\ before' = flash[t]
  /\ cut' = cut \cup {t}
  /\ UNCHANGED <<mix, flash, gap, stale>>

Save(t) ==
  /\ job' = Erasing(t, 0)
  /\ before' = flash[t]
  /\ cut' = cut \cup {t}
  /\ UNCHANGED <<mix, flash, gap, stale>>

\* The first of the entries in S, or n when there is none.
FirstIn(S, n) == IF S = {} THEN {n} ELSE {i \in S : \A j \in S : i <= j}

\* (faulty variant) the limit is off by one
InsertOverfull(t, i, e, limit) ==
  /\ i = active[t] => active[t] <= limit
  /\ ram' = [ram EXCEPT ![t][i] = e]
  /\ active' = IF i = active[t] THEN [active EXCEPT ![t] = @ + 1] ELSE active
  /\ Save(t)

\* The entry is written at i; the count grows when i is the entry after the
\* last one.  limit is the count at which a new entry is refused.
Insert(t, i, e, limit) ==
  /\ i = active[t] => active[t] < limit
  /\ ram' = [ram EXCEPT ![t][i] = e]
  /\ active' = IF i = active[t] THEN [active EXCEPT ![t] = @ + 1] ELSE active
  /\ Save(t)

\* (faulty variant) the search for the same scene is missing
SetSceneAppended(id, v) ==
  /\ job = Idle
  /\ Insert("scene", active["scene"], Entry(id, v), SCENE_ID_MAX)
  /\ UNCHANGED deleted

\* app_set_scene_cfg: the search runs over the whole table.
SetScene(id, v) ==
  LET same == {i \in Index("scene") : ram["scene"][i].key = id}
  IN  /\ job = Idle
      /\ \E i \in FirstIn(same, active["scene"]) :
           Insert("scene", i, Entry(id, v), SCENE_ID_MAX)
      /\ UNCHANGED deleted

\* app_set_bind_scene_cfg: the search runs over the active entries; the count
\* is checked against the capacity of the scene table.
SetBind(k, v) ==
  LET same == {i \in Index("bind") : i < active["bind"] /\ ram["bind"][i].key = k}
  IN  /\ job = Idle
      /\ \E i \in FirstIn(same, active["bind"]) :
           Insert("bind", i, Entry(k, v), SCENE_ID_MAX)
      /\ deleted' = deleted \ {k}

\* app_set_bind_group_cfg: only an equal entry is the same group.
SetGroup(k, v) ==
  LET same == {i \in Index("group") : i < active["group"] /\ ram["group"][i] = Entry(k, v)}
  IN  /\ job = Idle
      /\ \E i \in FirstIn(same, active["group"]) :
           Insert("group", i, Entry(k, v), BIND_GROUP_MAX)
      /\ UNCHANGED deleted

\* app_set_timer_task_cfg: the valid records of the frame, by task number.
SetTasks(tasks) ==
  /\ job = Idle
  /\ ram' = [ram EXCEPT !["task"] = [i \in Index("task") |->
                                       IF i \in DOMAIN tasks THEN tasks[i] ELSE @[i]]]
  /\ Save("task")
  /\ UNCHANGED <<mix, active, deleted>>

\* app_del_bind_cfg
DelBind ==
  /\ job = Idle
  /\ job' = Deleting("bind", 0)
  /\ UNCHANGED <<mix, ram, active, flash, ghosts>>

\* app_del_scene_cfg
DelScene ==
  /\ job = Idle
  /\ job' = Deleting("scene", 0)
  /\ UNCHANGED <<mix, ram, active, flash, ghosts>>

-----------------------------------------------------------------------------
(* app_flash_write_word and app_flash_erase_page.                           *)

Erased(t, p) ==
  [i \in Index(t) |-> Entry(IF Page(t, i, 0) = p THEN Blank ELSE flash[t][i].key,
                            IF Page(t, i, 1) = p THEN Blank ELSE flash[t][i].val)]

ErasePage ==
  LET t == job.table IN
  /\ job.kind = "erase"
  /\ flash' = [flash EXCEPT ![t] = Erased(t, job.at)]
  /\ IF job.at + 1 < Pages(t)
       THEN job' = Erasing(t, job.at + 1) /\ gap' = gap \cup {t}
       ELSE job' = Writing(t, 0) /\ gap' = gap \ {t}
  /\ UNCHANGED <<mix, ram, active, before, cut, stale, deleted>>

\* (faulty variant) the last entry is not written
ProgramShort ==
  LET t == job.table
      i == job.at
  IN
  /\ job.kind = "program"
  /\ IF t = "bind" \/ job.half
       THEN /\ flash' = [flash EXCEPT ![t][i] = ram[t][i]]
            /\ IF i + 2 < Size[t]
                 THEN job' = Writing(t, i + 1) /\ UNCHANGED cut
                 ELSE job' = Idle /\ cut' = cut \ {t}
       ELSE /\ flash' = [flash EXCEPT ![t][i] = Entry(ram[t][i].key, @.val)]
            /\ job' = [Writing(t, i) EXCEPT !.half = TRUE]
            /\ UNCHANGED cut
  /\ UNCHANGED <<mix, ram, active, before, gap, stale, deleted>>

Program ==
  LET t == job.table
      i == job.at
  IN
  /\ job.kind = "program"
  /\ IF t = "bind" \/ job.half
       THEN /\ flash' = [flash EXCEPT ![t][i] = ram[t][i]]
            /\ IF i + 1 < Size[t]
                 THEN job' = Writing(t, i + 1) /\ UNCHANGED cut
                 ELSE job' = Idle /\ cut' = cut \ {t}
       ELSE /\ flash' = [flash EXCEPT ![t][i] = Entry(ram[t][i].key, @.val)]
            /\ job' = [Writing(t, i) EXCEPT !.half = TRUE]
            /\ UNCHANGED cut
  /\ UNCHANGED <<mix, ram, active, before, gap, stale, deleted>>

\* The driver reports an error; app_save_..._cfg logs it and goes on.
SaveFails ==
  /\ job.kind \in {"erase", "program"}
  /\ job' = Idle
  /\ UNCHANGED <<mix, ram, active, flash, ghosts>>

\* The keys that a key press finds bound.
BoundKeys == {ram["bind"][i].key : i \in {j \in Index("bind") : j < active["bind"]}}

\* A deletion erases page after page, whatever each erase reports, and ends
\* by clearing the count of key bindings.
DeletePage ==
  LET t == job.table IN
  /\ job.kind = "delete"
  /\ \/ /\ flash' = [flash EXCEPT ![t] = Erased(t, job.at)]
        /\ deleted' = IF t = "bind" THEN deleted \cup BoundKeys ELSE deleted
     \/ UNCHANGED <<flash, deleted>>
  /\ gap' = gap \cup {t}
  /\ IF job.at + 1 < Pages(t)
       THEN job' = Deleting(t, job.at + 1) /\ UNCHANGED <<active, stale>>
       ELSE /\ job' = Idle
            /\ active' = [active EXCEPT !["bind"] = 0]
            /\ stale' = stale \cup {t, "bind"}
  /\ UNCHANGED <<mix, ram, before, cut>>

-----------------------------------------------------------------------------
(* Power failure, and app_public_cfg_init at the next boot.                 *)

\* What app_load_..._cfg counts.
Counts(t, e) == IF t = "bind" THEN e.val # Blank ELSE e.key # Blank

\* (faulty variant) the last entry is not looked at
CountShort(table, t) == Cardinality({i \in Index(t) : i + 1 < Size[t] /\ Counts(t, table[i])})

Count(table, t) == Cardinality({i \in Index(t) : Counts(t, table[i])})

Boot ==
  /\ ram' = flash
  /\ active' = [t \in Counted |-> Count(flash[t], t)]
  /\ job' = Idle
  /\ before' = BlankTable("task")
  /\ cut' = {}
  /\ stale' = (stale \cup gap) \ {t \in Tables : flash[t] = BlankTable(t)}
  /\ UNCHANGED <<mix, flash, gap, deleted>>

Request ==
  \/ "scene" \in mix /\ \E id \in SceneIds, v \in SceneSettings : SetScene(id, v)
  \/ "bind" \in mix /\ \E k \in Keys, v \in KeyScenes : SetBind(k, v)
  \/ "group" \in mix /\ \E k \in GroupAddrs, v \in GroupSettings : SetGroup(k, v)
  \/ "task" \in mix /\ \E D \in SUBSET Index("task") :
       \E tasks \in [D -> {Entry(k, v) : k \in TaskScenes, v \in TaskSettings}] :
         SetTasks(tasks)
  \/ DelBind \/ DelScene

Next == Request \/ ErasePage \/ Program \/ SaveFails \/ DeletePage \/ Boot

Spec == Init /\ [][Next]_vars

-----------------------------------------------------------------------------
(* Properties.                                                              *)

Inputs == [t \in Tables |->
  CASE t = "scene" -> [key : SceneIds \cup {Blank}, val : SceneSettings \cup {Blank}]
    [] t = "bind"  -> [key : Keys \cup {Blank}, val : KeyScenes \cup {Blank}]
    [] t = "group" -> [key : GroupAddrs \cup {Blank}, val : GroupSettings \cup {Blank}]
    [] t = "task"  -> [key : TaskScenes \cup {Blank}, val : TaskSettings \cup {Blank}]]

(* The tables hold entries of their kind, the counts stay within them, and *)
(* the flash driver works inside its table.                                *)
TypeOK ==
  /\ \A t \in Tables : /\ ram[t] \in [Index(t) -> Inputs[t]]
                        /\ flash[t] \in [Index(t) -> Inputs[t]]
  /\ \A t \in Counted : active[t] \in 0 .. Size[t]
  /\ job.kind \in {"idle", "erase", "program", "delete"}
  /\ job.table \in Tables /\ job.half \in BOOLEAN
  /\ job.at \in IF job.kind = "program" THEN Index(job.table) ELSE 0 .. Pages(job.table) - 1
  /\ cut \subseteq Tables /\ gap \subseteq Tables /\ stale \subseteq Tables
  /\ deleted \subseteq Keys \cup {Blank}

(* The count of a table says which entries are in use, after any number of *)
(* requests, failed saves and power failures; the searches rely on it.     *)
(* Deletions break it: they leave the table in RAM, and both clear the     *)
(* count of the key bindings.                                              *)
CountedEntriesInUse ==
  \A t \in Counted \ stale : \A i \in Index(t) : i < active[t] <=> Counts(t, ram[t][i])

(* A scene has one entry, whatever was deleted or lost; a key has one      *)
(* active binding, and a group binding is listed once, while their tables  *)
(* are counted as they are.  A group that a power failure cut in half is   *)
(* no binding: it differs from the group it was to be, which is added      *)
(* again, and may be cut again.                                            *)
OneEntryEach ==
  /\ \A i, j \in Index("scene") :
       (i # j /\ ram["scene"][i].key # Blank) => ram["scene"][i].key # ram["scene"][j].key
  /\ "bind" \notin stale => \A i, j \in 0 .. active["bind"] - 1 :
       i # j => ram["bind"][i].key # ram["bind"][j].key
  /\ "group" \notin stale => \A i, j \in 0 .. active["group"] - 1 :
       (i # j /\ ram["group"][i].val # Blank) => ram["group"][i] # ram["group"][j]

(* A restart while nothing is being saved changes neither the tables whose *)
(* last save completed nor their counts.                                   *)
RestartChangesNothing ==
  [][(Boot /\ job = Idle) => \A t \in Tables \ (cut \cup stale) :
        ram'[t] = ram[t] /\ (t \in Counted => active'[t] = active[t])]_vars

\* The first n entries of a table, of entry n possibly only the first part.
PrefixOf(table, t, n) ==
  {[i \in Index(t) |-> IF i < n THEN table[i] ELSE BlankEntry]}
    \cup {[i \in Index(t) |-> IF i < n THEN table[i]
                              ELSE IF i = n THEN Entry(table[i].key, Blank) ELSE BlankEntry]}

(* A power failure during a save of key bindings or group bindings loses   *)
(* the end of the new table or keeps the old one: no entry of the one is   *)
(* ever mixed with entries of the other.                                   *)
PowerFailureKeepsOldOrPrefix ==
  [][Boot => \A t \in {"bind", "group"} :
       (job.table = t /\ job.kind \in {"erase", "program"}) =>
         \/ ram'[t] = before
         \/ \E n \in 0 .. Size[t] : ram'[t] \in PrefixOf(ram[t], t, n)]_vars

(* A key whose binding was deleted stays unbound until it is bound again.  *)
(* Broken: the deletion leaves the table in RAM, the next binding saves it *)
(* whole, and the next boot counts what it finds.                          *)
DeletedStayUnbound == BoundKeys \cap deleted = {}

-----------------------------------------------------------------------------
(* What the table of key bindings implements.                              *)

InForce == {ram["bind"][i] : i \in {j \in Index("bind") : j < active["bind"]}}

Kept == {flash["bind"][i] : i \in {j \in Index("bind") : Counts("bind", flash["bind"][j])}}

SaveStage ==
  IF job.table = "bind" /\ job.kind \in {"erase", "program"}
    THEN IF job.kind = "erase" THEN "erasing" ELSE "writing"
    ELSE IF "bind" \in cut THEN "cut" ELSE "saved"

Bindings == INSTANCE BindingStore WITH
  now <- InForce, kept <- Kept, save <- SaveStage, Capacity <- SCENE_ID_MAX

(* Through requests, failed saves and power failures, the table of key     *)
(* bindings and its count behave like a set of bindings, one per key, with *)
(* a kept set that is emptied and filled again after every change and is   *)
(* what the next boot starts from.  A deletion ends the promise, until a   *)
(* boot finds the table blank.                                             *)
BindingsKept == Bindings!Init /\ [][Bindings!Next \/ "bind" \in stale']_(Bindings!vars)
=============================================================================
