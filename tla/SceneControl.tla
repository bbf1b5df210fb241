---------------------------- MODULE SceneControl ----------------------------
(***************************************************************************)
(* What makes the host execute scenes, and what it shows: the timer tasks  *)
(* with the real-time clock they are compared with, the keys and pages of  *)
(* the display, the temperature alarm, scenes asked for by the cloud or by *)
(* a panel, and the status tables that scenes change.                      *)
(*                                                                         *)
(* Everything runs in the superloop, so that a handler or a callback is    *)
(* one step; only the clock goes on while its registers are read one by    *)
(* one.  Time is counted in units of which a minute has UNITS.             *)
(*                                                                         *)
(* A panel has one key, a relay group one relay.  Knob values, dimmers,    *)
(* LEDs and icons are left out, and so are date and seconds.  A table that *)
(* has changed is sent at once; PanelBus says what becomes of the frames.  *)
(* app_display_init, which nothing calls, is left out: the menu starts at  *)
(* HOME while the screen shows the page it powers up with.                 *)
(***************************************************************************)
EXTENDS Integers, Sequences

CONSTANTS HOURS, MINS, UNITS,   (* of a day, an hour, a minute               *)
          PERIOD,               (* of app_public_timer_task: half a minute   *)
          DELAY,                (* by which the superloop may be late        *)
          EpochTime,            (* time of day that unix time 0 stands for   *)
          TaskLists,            (* contents of the table of timer tasks      *)
          Temps, OVER_TEMP,
          PANEL_DEV_MAX, PER_FRAME, (* panels, and panels per sub-frame      *)
          Scenes                (* what the known scenes control             *)

Day == 0 .. HOURS * MINS * UNITS - 1
Panels == 0 .. PANEL_DEV_MAX - 1
Groups == 0 .. 8
Tasks == [hour : 0 .. HOURS - 1, min : 0 .. MINS - 1, enable : BOOLEAN, scene : Nat]
NotRead == -1

ASSUME SceneAssumption ==
  /\ HOURS \in Nat \ {0} /\ MINS \in Nat \ {0} /\ UNITS \in Nat \ {0}
  /\ PERIOD \in Nat \ {0} /\ DELAY \in Nat /\ PERIOD + DELAY < UNITS
  /\ EpochTime \in Day
  /\ TaskLists \subseteq Seq(Tasks)
  /\ Temps \subseteq Int /\ OVER_TEMP \in Nat \ {0}
  /\ PANEL_DEV_MAX \in Nat /\ PER_FRAME \in 1 .. PANEL_DEV_MAX
  /\ \A id \in DOMAIN Scenes : /\ Scenes[id].keyCtrl \subseteq Panels
                               /\ Scenes[id].keyOn \subseteq Panels
                               /\ Scenes[id].relayCtrl \subseteq Groups
                               /\ Scenes[id].relayOn \subseteq Groups

VARIABLES
  now,      (* the real-time clock                                          *)
  since,    (* units since app_public_timer_task was called                 *)
  minRead,  (* the minutes it has read, while it reads                      *)
  tasks,    (* my_timer_task                                                *)
  ran,      (* history: tasks executed since this minute began              *)
  steady,   (* history: clock and tasks have not been set in this minute    *)
  menu,     (* level, main_index and sub_index                              *)
  page,     (* the page on the screen                                       *)
  overTemp, (* over_temp_flag                                               *)
  lastTemp, (* last_temp                                                    *)
  buzzer,   (* PD9                                                          *)
  seen,     (* history: the alarm of this heat has been acknowledged        *)
  table,    (* my_panel_full_status, byte by byte                           *)
  relays,   (* relay groups that are on in my_extend_all_status_t           *)
  extSent,  (* relay groups that are on in the last extension frame         *)
  wanted    (* history: what scenes have asked of each panel, 0 at first    *)

clock == <<now, since, minRead, tasks, ran, steady>>
display == <<menu, page, overTemp, lastTemp, buzzer, seen>>
outputs == <<table, relays, extSent, wanted>>
vars == <<clock, display, outputs>>

HourOf(t) == t \div (MINS * UNITS)
MinOf(t) == (t \div UNITS) % MINS

-----------------------------------------------------------------------------
(* The status tables.  A sub-frame has two bytes for each of its panels and *)
(* three more.                                                              *)

FrameSize == 2 * PER_FRAME + 3
Bytes == 0 .. (PANEL_DEV_MAX \div PER_FRAME) * FrameSize - 1

\* The byte that holds the status of panel j, as the panels read the frame.
StatusByte(j) == (j \div PER_FRAME) * FrameSize + 2 * (j % PER_FRAME)

\* The byte that app_build_panel_frame_by_sid writes for panel j; one beyond
\* the table belongs to other variables, which are not modelled.
WrittenByte(j) == (j \div PER_FRAME) * FrameSize + 2 * j

\* (faulty variant) controlled bits are set and never cleared
WithScenePiled(s) ==
  [b \in Bytes |-> IF \E j \in s.keyCtrl : WrittenByte(j) = b /\ j \in s.keyOn
                   THEN 1 ELSE table[b]]

WithScene(s) ==
  [b \in Bytes |-> IF \E j \in s.keyCtrl : WrittenByte(j) = b
                   THEN IF \E j \in s.keyOn : WrittenByte(j) = b THEN 1 ELSE 0
                   ELSE table[b]]

\* app_build_extend_frame copies relay_sel_1, the groups 0 to 5, and only
\* compares relay_sel_2 with the frame it has cleared.
ExtendFrame(on) == on \cap (0 .. 5)

\* app_public_exe_scene_by_sid: an unknown scene changes nothing.
Execute(id) ==
  IF id \in DOMAIN Scenes
  THEN LET s == Scenes[id]
       IN /\ table' = WithScene(s)
          /\ relays' = (relays \ s.relayCtrl) \cup (s.relayCtrl \cap s.relayOn)
          /\ extSent' = ExtendFrame(relays')
          /\ wanted' = [j \in Panels |-> IF j \notin s.keyCtrl THEN wanted[j]
                                         ELSE IF j \in s.keyOn THEN 1 ELSE 0]
  ELSE UNCHANGED outputs

-----------------------------------------------------------------------------
(* The menu.  Index 0 of the main menu is scenes, 1 resources, 2 device     *)
(* information, 3 software version.                                         *)

MAIN_MENU_COUNT == 4
SubPages == <<<<6, 7, 8, 9>>, <<10, 11>>, <<13>>, <<12>>>>
Subs(m) == SubPages[m.main + 1]
AlarmPage == 14
PowerUpPage == 0

\* app_display_get_current_page
CurrentPage(m) == CASE m.level = "HOME" -> 1
                    [] m.level = "MAIN" -> 2 + m.main
                    [] m.level = "SUB"  -> Subs(m)[m.sub + 1]

\* (faulty variant) the main menu has a place too many
TurnedPast(m, step) ==
  CASE m.level = "MAIN" -> [m EXCEPT !.main = (@ + step) % (MAIN_MENU_COUNT + 1)]
    [] m.level = "SUB"  -> [m EXCEPT !.sub = (@ + step) % Len(Subs(m))]
    [] OTHER            -> m

Turned(m, step) ==
  CASE m.level = "MAIN" -> [m EXCEPT !.main = (@ + step) % MAIN_MENU_COUNT]
    [] m.level = "SUB"  -> [m EXCEPT !.sub = (@ + step) % Len(Subs(m))]
    [] OTHER            -> m

Entered(m) == CASE m.level = "HOME" -> [level |-> "MAIN", main |-> 0, sub |-> m.sub]
                [] m.level = "MAIN" -> [level |-> "SUB", main |-> m.main, sub |-> 0]
                [] OTHER            -> m

Left(m) == CASE m.level = "SUB"  -> [m EXCEPT !.level = "MAIN"]
             [] m.level = "MAIN" -> [m EXCEPT !.level = "HOME"]
             [] OTHER            -> m

Init ==
  /\ now \in Day /\ since = 0 /\ minRead = NotRead
  /\ tasks \in TaskLists /\ ran = {} /\ steady = FALSE
  /\ menu = [level |-> "HOME", main |-> 0, sub |-> 0] /\ page = PowerUpPage
  /\ overTemp = FALSE /\ lastTemp = 0 /\ buzzer = FALSE /\ seen = FALSE
  /\ table = [b \in Bytes |-> 0] /\ relays = {} /\ extSent = {}
  /\ wanted = [j \in Panels |-> 0]

-----------------------------------------------------------------------------
(* The clock and the timer tasks.                                           *)

\* (faulty variant) the tasks are checked once a minute
CheckedEachMinute == 2 * PERIOD

CheckedEvery == PERIOD

\* The check is never later than DELAY, and reads the registers within a unit.
Tick ==
  /\ IF minRead = NotRead THEN since < CheckedEvery + DELAY ELSE since = 0
  /\ now' = (now + 1) % (HOURS * MINS * UNITS)
  /\ since' = since + 1
  /\ LET ends == now' % UNITS = 0
     IN ran' = (IF ends THEN {} ELSE ran) /\ steady' = (ends \/ steady)
  /\ UNCHANGED <<minRead, tasks, display, outputs>>

BeginCheck ==
  /\ minRead = NotRead /\ since >= CheckedEvery
  /\ since' = 0 /\ minRead' = MinOf(now)
  /\ UNCHANGED <<now, tasks, ran, steady, display, outputs>>

First(S) == {i \in S : \A k \in S : i <= k}

\* The task that is executed at the time h:m, if any: the first of that time.
\* (faulty variant) the hours are not compared
DueAnyHour(h, m) == First({i \in DOMAIN tasks : tasks[i].min = m /\ tasks[i].enable})

Due(h, m) == First({i \in DOMAIN tasks : /\ tasks[i].hour = h /\ tasks[i].min = m
                                         /\ tasks[i].enable})

\* The hours are read after the minutes.
FinishCheck ==
  /\ minRead # NotRead
  /\ minRead' = NotRead
  /\ LET due == Due(HourOf(now), minRead)
     IN IF due = {} THEN UNCHANGED <<ran, outputs>>
        ELSE \E i \in due : ran' = ran \cup {i} /\ Execute(tasks[i].scene)
  /\ UNCHANGED <<now, since, tasks, steady, display>>

Free == minRead = NotRead

\* rct_set_unix_time, from the cloud or the host computer.
SetTime ==
  /\ Free
  /\ now' \in Day /\ ran' = {} /\ steady' = FALSE
  /\ UNCHANGED <<since, minRead, tasks, display, outputs>>

\* app_set_timer_task_cfg, from the cloud; a good task is followed by a beep.
CloudSetsTask ==
  /\ Free
  /\ tasks' \in TaskLists /\ ran' = {} /\ steady' = FALSE
  /\ buzzer' = FALSE
  /\ UNCHANGED <<now, since, minRead, menu, page, overTemp, lastTemp, seen, outputs>>

\* From the host computer: the case falls through, and the clock is set from
\* the bytes of the task, which are not digits.
HostSetsTask ==
  /\ Free
  /\ now' = EpochTime /\ ran' = {} /\ steady' = FALSE
  /\ \/ tasks' \in TaskLists /\ buzzer' = FALSE
     \/ UNCHANGED <<tasks, buzzer>>
  /\ UNCHANGED <<since, minRead, menu, page, overTemp, lastTemp, seen, outputs>>

-----------------------------------------------------------------------------
(* The display's keys, and the temperature.  In an alarm the keys are dead, *)
(* except for the one that goes back.                                       *)

\* (faulty variant) a key that turns the page does so in an alarm too
TurnAlways(step) ==
  /\ Free
  /\ menu' = Turned(menu, step) /\ page' = CurrentPage(menu')
  /\ UNCHANGED <<clock, overTemp, lastTemp, buzzer, seen, outputs>>

Turn(step) ==
  /\ Free /\ ~overTemp
  /\ menu' = Turned(menu, step) /\ page' = CurrentPage(menu')
  /\ UNCHANGED <<clock, overTemp, lastTemp, buzzer, seen, outputs>>

\* On a sub-page enter executes the scene of the page's index, in any menu.
Enter ==
  /\ Free /\ ~overTemp
  /\ menu' = Entered(menu) /\ page' = CurrentPage(menu')
  /\ IF menu.level = "SUB" THEN Execute(menu.sub) ELSE UNCHANGED outputs
  /\ UNCHANGED <<clock, overTemp, lastTemp, buzzer, seen>>

\* Back ends an alarm and goes up all the same.
Back ==
  /\ Free
  /\ overTemp' = FALSE /\ seen' = (seen \/ overTemp)
  /\ buzzer' = (buzzer /\ ~overTemp)
  /\ menu' = Left(menu) /\ page' = CurrentPage(menu')
  /\ UNCHANGED <<clock, lastTemp, outputs>>

\* app_display_set_temp, every six seconds.
\* (faulty variant) a temperature of OVER_TEMP counts as hot already
TemperatureStrict(t) ==
  /\ Free
  /\ lastTemp' = t
  /\ IF t > OVER_TEMP /\ lastTemp < OVER_TEMP
     THEN overTemp' = TRUE /\ buzzer' = TRUE /\ page' = AlarmPage /\ seen' = FALSE
     ELSE seen' = (seen /\ t >= OVER_TEMP) /\ UNCHANGED <<overTemp, buzzer, page>>
  /\ UNCHANGED <<clock, menu, outputs>>

Temperature(t) ==
  /\ Free
  /\ lastTemp' = t
  /\ IF t >= OVER_TEMP /\ lastTemp <= OVER_TEMP
     THEN overTemp' = TRUE /\ buzzer' = TRUE /\ page' = AlarmPage /\ seen' = FALSE
     ELSE seen' = (seen /\ t >= OVER_TEMP) /\ UNCHANGED <<overTemp, buzzer, page>>
  /\ UNCHANGED <<clock, menu, outputs>>

\* bsp_set_buuzzer(1 to 3), when a link comes up or a binding is set: the pin
\* ends low, in an alarm too.
Beep ==
  /\ Free
  /\ buzzer' = FALSE
  /\ UNCHANGED <<clock, menu, page, overTemp, lastTemp, seen, outputs>>

-----------------------------------------------------------------------------
(* Scenes asked for by the cloud or by a panel, and outputs set by the      *)
(* cloud.                                                                   *)

RunScene(id) ==
  /\ Free
  /\ Execute(id)
  /\ UNCHANGED <<clock, display>>

\* app_puublic_set_extend replaces the whole table.
SetExtend(on) ==
  /\ Free
  /\ relays' = on /\ extSent' = ExtendFrame(on)
  /\ UNCHANGED <<clock, display, table, wanted>>

Next ==
  \/ Tick \/ BeginCheck \/ FinishCheck
  \/ SetTime \/ CloudSetsTask \/ HostSetsTask
  \/ Turn(1) \/ Turn(-1) \/ Enter \/ Back
  \/ \E t \in Temps : Temperature(t)
  \/ Beep
  \/ \E id \in DOMAIN Scenes : RunScene(id)
  \/ \E on \in {{}, {0, 6}} : SetExtend(on)

Spec == Init /\ [][Next]_vars

-----------------------------------------------------------------------------
(* Properties.                                                              *)

\* Every variable has its type; the menu is at a page that exists.
Menus == [level : {"HOME", "MAIN", "SUB"}, main : 0 .. MAIN_MENU_COUNT - 1, sub : 0 .. 3]

TypeOK ==
  /\ now \in Day /\ since \in 0 .. CheckedEvery + DELAY
  /\ minRead \in {NotRead} \cup (0 .. MINS - 1)
  /\ tasks \in TaskLists /\ ran \subseteq DOMAIN tasks /\ steady \in BOOLEAN
  /\ menu \in Menus
  /\ (menu.level = "SUB") => (menu.sub < Len(Subs(menu)))
  /\ page \in 0 .. AlarmPage
  /\ overTemp \in BOOLEAN /\ buzzer \in BOOLEAN /\ seen \in BOOLEAN
  /\ lastTemp \in Temps \cup {0}
  /\ table \in [Bytes -> 0 .. 1] /\ relays \subseteq Groups /\ extSent \subseteq Groups
  /\ wanted \in [Panels -> 0 .. 1]

\* A check every half minute that compares hours and minutes, and may be late,
\* executes the first enabled task of every minute that goes by without the
\* clock or the tasks being set: PP:46.
TasksRun ==
  [][(now' # now /\ now' % UNITS = 0 /\ steady /\ steady')
       => Due(HourOf(now), MinOf(now)) \subseteq ran]_vars

\* The registers are read one by one while the clock goes on.  A task that is
\* executed out of its time has the minutes that are just over: it is late by
\* less than a unit, or, when the hour turned, early by an hour: RTC:127.
TasksOnTime ==
  [][\A i \in ran' \ ran :
       \/ tasks[i].hour = HourOf(now) /\ tasks[i].min = MinOf(now)
       \/ now % UNITS = 0 /\ tasks[i].min = (MinOf(now) - 1) % MINS]_vars

\* The screen shows the page the menu is at, or the alarm while there is one;
\* keys, alarms and their end come in any order: DP:84, DP:177, DP:315.
PageFollowsMenu ==
  page # PowerUpPage => page = IF overTemp THEN AlarmPage ELSE CurrentPage(menu)

\* Whatever the temperatures before, heat is alarmed until it is acknowledged,
\* also when it rises through exactly OVER_TEMP: DP:315.
HeatIsAlarmed == lastTemp >= OVER_TEMP => overTemp \/ seen

\* The buzzer never goes on without an alarm (the converse does not hold: a
\* beep in an alarm silences it): DP:180, bsp_board.c:14.
BuzzerMeansAlarm == buzzer => overTemp

\* The alarm comes when it must, and its buzzer only when it may.
AlarmRight == HeatIsAlarmed /\ BuzzerMeansAlarm

\* The panels of the first sub-frame hold what the last scene that controls
\* them asked for, whatever the scenes write for the other panels, and the
\* relays of groups 0 to 5 what the table says: PP:195, PP:406.
Holds(j) == table[StatusByte(j)] = wanted[j]

FirstOutputsServed ==
  /\ \A j \in Panels : j < PER_FRAME => Holds(j)
  /\ \A g \in 0 .. 5 : g \in extSent <=> g \in relays

\* Every panel and every relay group has what was asked for.
OutputsServed == (\A j \in Panels : Holds(j)) /\ extSent = relays
=============================================================================
