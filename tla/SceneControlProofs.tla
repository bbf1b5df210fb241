------------------------- MODULE SceneControlProofs -------------------------
(***************************************************************************)
(* Theorems about scenes, timer tasks, display and alarm, for every length *)
(* of the day, every table of tasks, all temperatures, and any scenes.     *)
(***************************************************************************)
EXTENDS SceneControl, TLAPS

(***************************************************************************)
(* The screen, the alarm and the buzzer: each is inductive as it stands.   *)
(* The steps that leave the display alone keep all three.                  *)
(***************************************************************************)
DisplayInv == PageFollowsMenu /\ HeatIsAlarmed /\ BuzzerMeansAlarm

LEMMA AlarmAboveZero == OVER_TEMP \in Nat /\ OVER_TEMP > 0 /\ Temps \subseteq Int
BY SceneAssumption

LEMMA InitDisplay == Init => DisplayInv
BY AlarmAboveZero DEF Init, DisplayInv, PageFollowsMenu, HeatIsAlarmed, BuzzerMeansAlarm

\* What is not the display's keeps the display.
LEMMA ElsewhereDisplay ==
  ASSUME \/ Tick \/ BeginCheck \/ FinishCheck \/ SetTime
         \/ \E id \in DOMAIN Scenes : RunScene(id)
         \/ \E on \in {{}, {0, 6}} : SetExtend(on)
         \/ UNCHANGED vars
  PROVE  UNCHANGED display
BY DEF Tick, BeginCheck, FinishCheck, SetTime, RunScene, SetExtend, vars, display

LEMMA NextPage == PageFollowsMenu /\ [Next]_vars => PageFollowsMenu'
<1> SUFFICES ASSUME PageFollowsMenu, [Next]_vars PROVE PageFollowsMenu'
  OBVIOUS
<1> USE DEF PageFollowsMenu
<1>1. CASE UNCHANGED display
  BY <1>1 DEF display, CurrentPage, Subs
<1>2. CASE Turn(1) \/ Turn(-1) \/ Enter
  <2>1. overTemp' = FALSE /\ page' = CurrentPage(menu')
    BY <1>2 DEF Turn, Enter
  <2>2. QED
    BY <2>1
<1>3. CASE Back
  BY <1>3 DEF Back
<1>4. CASE \E t \in Temps : Temperature(t)
  BY <1>4 DEF Temperature
<1>5. CASE CloudSetsTask \/ HostSetsTask \/ Beep
  BY <1>5 DEF CloudSetsTask, HostSetsTask, Beep
<1>6. QED
  BY <1>1, <1>2, <1>3, <1>4, <1>5, ElsewhereDisplay DEF Next

LEMMA NextHeat == HeatIsAlarmed /\ lastTemp \in Int /\ [Next]_vars => HeatIsAlarmed'
<1> SUFFICES ASSUME HeatIsAlarmed, lastTemp \in Int, [Next]_vars PROVE HeatIsAlarmed'
  OBVIOUS
<1> USE DEF HeatIsAlarmed
<1>1. CASE UNCHANGED display
  BY <1>1 DEF display
<1>2. CASE Turn(1) \/ Turn(-1) \/ Enter
  BY <1>2 DEF Turn, Enter
<1>3. CASE Back
  BY <1>3 DEF Back
<1>4. CASE \E t \in Temps : Temperature(t)
  <2> PICK t \in Temps : Temperature(t)
    BY <1>4
  <2>1. t \in Int /\ lastTemp' = t
    BY AlarmAboveZero DEF Temperature
  <2>2. CASE t >= OVER_TEMP /\ lastTemp <= OVER_TEMP
    BY <2>2 DEF Temperature
  <2>3. CASE ~(t >= OVER_TEMP /\ lastTemp <= OVER_TEMP)
    <3> SUFFICES ASSUME t >= OVER_TEMP PROVE overTemp' \/ seen'
      BY <2>1
    <3>1. lastTemp >= OVER_TEMP
      BY <2>3, AlarmAboveZero
    <3>2. seen' = (seen /\ t >= OVER_TEMP) /\ overTemp' = overTemp
      BY <2>3 DEF Temperature
    <3>3. QED
      BY <3>1, <3>2
  <2>4. QED
    BY <2>2, <2>3
<1>5. CASE CloudSetsTask \/ HostSetsTask \/ Beep
  BY <1>5 DEF CloudSetsTask, HostSetsTask, Beep
<1>6. QED
  BY <1>1, <1>2, <1>3, <1>4, <1>5, ElsewhereDisplay DEF Next

LEMMA NextBuzzer == BuzzerMeansAlarm /\ [Next]_vars => BuzzerMeansAlarm'
<1> SUFFICES ASSUME BuzzerMeansAlarm, [Next]_vars PROVE BuzzerMeansAlarm'
  OBVIOUS
<1> USE DEF BuzzerMeansAlarm
<1>1. CASE UNCHANGED display
  BY <1>1 DEF display
<1>2. CASE Turn(1) \/ Turn(-1) \/ Enter
  BY <1>2 DEF Turn, Enter
<1>3. CASE Back
  BY <1>3 DEF Back
<1>4. CASE \E t \in Temps : Temperature(t)
  BY <1>4 DEF Temperature
<1>5. CASE CloudSetsTask \/ HostSetsTask \/ Beep
  BY <1>5 DEF CloudSetsTask, HostSetsTask, Beep
<1>6. QED
  BY <1>1, <1>2, <1>3, <1>4, <1>5, ElsewhereDisplay DEF Next

(***************************************************************************)
(* Type correctness.                                                       *)
(***************************************************************************)
LEMMA ProductPositive ==
  ASSUME NEW a \in Nat \ {0}, NEW b \in Nat \ {0}
  PROVE  a * b \in Nat \ {0}
OBVIOUS

LEMMA DayLength == HOURS * MINS * UNITS \in Nat \ {0}
<1>1. HOURS \in Nat \ {0} /\ MINS \in Nat \ {0} /\ UNITS \in Nat \ {0}
  BY SceneAssumption
<1>2. HOURS * MINS \in Nat \ {0}
  BY <1>1, ProductPositive
<1>3. QED
  BY <1>1, <1>2, ProductPositive

LEMMA Remainder ==
  ASSUME NEW a \in Int, NEW b \in Nat \ {0}
  PROVE  a % b \in 0 .. b - 1
OBVIOUS

LEMMA Wrapped == ASSUME NEW n \in Nat, NEW d \in Nat \ {0} PROVE (n + 1) % d \in 0 .. d - 1
<1>1. n + 1 \in Int
  OBVIOUS
<1>2. QED
  BY <1>1, Remainder

\* A step in a menu of n places.
LEMMA StepInMenu ==
  ASSUME NEW a \in 0 .. 3, NEW step \in {-1, 1}, NEW n \in 1 .. 4
  PROVE  (a + step) % n \in 0 .. 3 /\ (a + step) % n < n
<1>1. a + step \in Int
  OBVIOUS
<1>2. (a + step) % n \in 0 .. n - 1
  BY <1>1, Remainder
<1>3. QED
  BY <1>2

LEMMA Quotient ==
  ASSUME NEW a \in Nat, NEW b \in Nat \ {0}
  PROVE  a \div b \in Nat
OBVIOUS

LEMMA MinType == ASSUME now \in Day PROVE MinOf(now) \in 0 .. MINS - 1
<1>1. now \in Nat /\ UNITS \in Nat \ {0} /\ MINS \in Nat \ {0}
  BY SceneAssumption, DayLength DEF Day
<1>2. now \div UNITS \in Int
  BY <1>1, Quotient
<1>3. QED
  BY <1>1, <1>2, Remainder DEF MinOf

(* The menu stays within its pages, and every place in it has one.         *)
LEMMA SubsLength ==
  ASSUME NEW m \in Menus
  PROVE  /\ Len(Subs(m)) \in 1 .. 4
         /\ m.main = 0 => Subs(m) = <<6, 7, 8, 9>>
         /\ m.main = 1 => Subs(m) = <<10, 11>>
         /\ m.main = 2 => Subs(m) = <<13>>
         /\ m.main = 3 => Subs(m) = <<12>>
         /\ m.main \in 0 .. 3
<1>1. m.main \in 0 .. 3
  BY DEF Menus, MAIN_MENU_COUNT
<1>2. /\ m.main = 0 => Subs(m) = <<6, 7, 8, 9>>
      /\ m.main = 1 => Subs(m) = <<10, 11>>
      /\ m.main = 2 => Subs(m) = <<13>>
      /\ m.main = 3 => Subs(m) = <<12>>
  BY DEF Subs, SubPages
<1>3. Len(Subs(m)) \in 1 .. 4
  BY <1>1, <1>2
<1>4. QED
  BY <1>1, <1>2, <1>3

InMenu(m) == m \in Menus /\ (m.level = "SUB" => m.sub < Len(Subs(m)))

LEMMA PageType == ASSUME NEW m, InMenu(m) PROVE CurrentPage(m) \in 0 .. AlarmPage
<1>1. m \in Menus /\ m.main \in 0 .. 3 /\ m.sub \in 0 .. 3
  BY SubsLength DEF InMenu, Menus
<1>2. CASE m.level # "SUB"
  BY <1>1, <1>2 DEF CurrentPage, AlarmPage, Menus
<1>3. CASE m.level = "SUB"
  <2>1. m.sub + 1 \in 1 .. Len(Subs(m))
    BY <1>1, <1>3, SubsLength DEF InMenu
  <2>2. Subs(m)[m.sub + 1] \in 0 .. 14
    BY <1>1, <2>1, SubsLength
  <2>3. QED
    BY <1>3, <2>2 DEF CurrentPage, AlarmPage
<1>4. QED
  BY <1>2, <1>3

\* Two menus with the same main index have the same sub-pages.
LEMMA SubsSame == ASSUME NEW m, NEW n, m.main = n.main PROVE Subs(m) = Subs(n)
BY DEF Subs

LEMMA TurnedType ==
  ASSUME NEW m, InMenu(m), NEW step \in {-1, 1}
  PROVE  InMenu(Turned(m, step))
<1>1. m \in Menus /\ m.main \in 0 .. 3 /\ m.sub \in 0 .. 3 /\ Len(Subs(m)) \in 1 .. 4
  BY SubsLength DEF InMenu, Menus
<1>2. CASE m.level = "MAIN"
  <2> DEFINE x == (m.main + step) % MAIN_MENU_COUNT
  <2>1. x \in 0 .. 3
    BY <1>1 DEF MAIN_MENU_COUNT
  <2>2. Turned(m, step) = [m EXCEPT !.main = x]
    BY <1>2 DEF Turned
  <2>3. QED
    BY <1>1, <1>2, <2>1, <2>2 DEF InMenu, Menus, MAIN_MENU_COUNT
<1>3. CASE m.level = "SUB"
  <2> DEFINE x == (m.sub + step) % Len(Subs(m))
             n == [m EXCEPT !.sub = x]
  <2>1. x \in 0 .. 3 /\ x < Len(Subs(m))
    BY <1>1, StepInMenu
  <2>2. Turned(m, step) = n
    BY <1>3 DEF Turned
  <2>3. n \in Menus
    BY <1>1, <2>1 DEF Menus
  <2>4. n.main = m.main /\ n.sub = x
    BY <1>1 DEF Menus
  <2>5. Subs(n) = Subs(m)
    BY <2>4, SubsSame
  <2>6. QED
    BY <2>1, <2>2, <2>3, <2>4, <2>5 DEF InMenu
<1>4. CASE m.level = "HOME"
  BY <1>1, <1>4 DEF Turned, InMenu, Menus
<1>5. QED
  BY <1>1, <1>2, <1>3, <1>4 DEF Menus

LEMMA EnteredType == ASSUME NEW m, InMenu(m) PROVE InMenu(Entered(m))
<1>1. m \in Menus /\ m.main \in 0 .. 3 /\ Len(Subs(m)) \in 1 .. 4
  BY SubsLength DEF InMenu
<1>2. CASE m.level = "HOME"
  BY <1>1, <1>2 DEF Entered, InMenu, Menus, MAIN_MENU_COUNT
<1>3. CASE m.level = "MAIN"
  <2> DEFINE n == [level |-> "SUB", main |-> m.main, sub |-> 0]
  <2>1. n \in Menus
    BY <1>1 DEF Menus
  <2>2. Subs(n) = Subs(m)
    BY SubsSame
  <2>3. n.sub < Len(Subs(n))
    BY <1>1, <2>2
  <2>4. QED
    BY <1>3, <2>1, <2>3 DEF Entered, InMenu
<1>4. CASE m.level = "SUB"
  BY <1>4 DEF Entered, InMenu
<1>5. QED
  BY <1>1, <1>2, <1>3, <1>4 DEF Menus

LEMMA LeftType == ASSUME NEW m, InMenu(m) PROVE InMenu(Left(m))
BY DEF Left, InMenu, Menus

(* What scenes do to the tables.                                           *)
OutputType ==
  /\ table \in [Bytes -> 0 .. 1] /\ relays \subseteq Groups /\ extSent \subseteq Groups
  /\ wanted \in [Panels -> 0 .. 1]

LEMMA ExecuteType == ASSUME OutputType, NEW id, Execute(id) PROVE OutputType'
<1>1. CASE id \in DOMAIN Scenes
  <2> DEFINE s == Scenes[id]
  <2>1. s.relayCtrl \subseteq Groups
    BY <1>1, SceneAssumption
  <2>2. relays' \subseteq Groups /\ extSent' \subseteq Groups
    BY <1>1, <2>1 DEF Execute, ExtendFrame, OutputType
  <2>3. table' \in [Bytes -> 0 .. 1]
    BY <1>1 DEF Execute, WithScene, OutputType
  <2>4. wanted' \in [Panels -> 0 .. 1]
    BY <1>1 DEF Execute, OutputType
  <2>5. QED
    BY <2>2, <2>3, <2>4 DEF OutputType
<1>2. CASE id \notin DOMAIN Scenes
  BY <1>2 DEF Execute, outputs, OutputType
<1>3. QED
  BY <1>1, <1>2

(* The steps, by the part of the state they work on.                       *)
ClockType ==
  /\ now \in Day /\ since \in 0 .. CheckedEvery + DELAY
  /\ minRead \in {NotRead} \cup (0 .. MINS - 1)
  /\ tasks \in TaskLists /\ ran \subseteq DOMAIN tasks /\ steady \in BOOLEAN

DisplayType ==
  /\ InMenu(menu) /\ page \in 0 .. AlarmPage
  /\ overTemp \in BOOLEAN /\ buzzer \in BOOLEAN /\ seen \in BOOLEAN
  /\ lastTemp \in Temps \cup {0}

LEMMA TypeParts == TypeOK <=> ClockType /\ DisplayType /\ OutputType
BY DEF TypeOK, ClockType, DisplayType, OutputType, InMenu

LEMMA Periods == PERIOD \in Nat \ {0} /\ DELAY \in Nat /\ EpochTime \in Day
BY SceneAssumption

LEMMA NextClock == ClockType /\ [Next]_vars => ClockType'
<1> SUFFICES ASSUME ClockType, [Next]_vars PROVE ClockType'
  OBVIOUS
<1> USE DEF ClockType
<1>1. CASE Tick
  <2>1. now' \in Day
    <3> DEFINE D == HOURS * MINS * UNITS
    <3>1. D \in Nat \ {0} /\ now \in Nat
      BY DayLength DEF Day
    <3>2. now' = (now + 1) % D
      BY <1>1 DEF Tick
    <3> HIDE DEF D
    <3>3. now' \in 0 .. D - 1
      BY <3>1, <3>2, Wrapped
    <3>4. QED
      BY <3>3 DEF D, Day
  <2>2. since' \in 0 .. CheckedEvery + DELAY
    BY <1>1, Periods DEF Tick, CheckedEvery
  <2>3. ran' \subseteq DOMAIN tasks' /\ steady' \in BOOLEAN
    BY <1>1 DEF Tick
  <2>4. QED
    BY <1>1, <2>1, <2>2, <2>3 DEF Tick
<1>2. CASE BeginCheck
  BY <1>2, MinType, Periods DEF BeginCheck, CheckedEvery
<1>3. CASE FinishCheck
  <2>1. ran' \subseteq DOMAIN tasks'
    BY <1>3 DEF FinishCheck, Due, First
  <2>2. QED
    BY <1>3, <2>1 DEF FinishCheck
<1>4. CASE SetTime
  BY <1>4 DEF SetTime
<1>5. CASE CloudSetsTask
  BY <1>5 DEF CloudSetsTask
<1>6. CASE HostSetsTask
  BY <1>6, Periods DEF HostSetsTask
<1>7. CASE \/ Turn(1) \/ Turn(-1) \/ Enter \/ Back \/ Beep
           \/ \E t \in Temps : Temperature(t)
           \/ \E id \in DOMAIN Scenes : RunScene(id)
           \/ \E on \in {{}, {0, 6}} : SetExtend(on)
           \/ UNCHANGED vars
  <2>1. UNCHANGED clock
    BY <1>7 DEF Turn, Enter, Back, Beep, Temperature, RunScene, SetExtend, vars
  <2>2. QED
    BY <2>1 DEF clock
<1>8. QED
  BY <1>1, <1>2, <1>3, <1>4, <1>5, <1>6, <1>7 DEF Next

LEMMA NextDisplay == DisplayType /\ [Next]_vars => DisplayType'
<1> SUFFICES ASSUME DisplayType, [Next]_vars PROVE DisplayType'
  OBVIOUS
<1> USE DEF DisplayType
<1>1. CASE UNCHANGED display
  BY <1>1 DEF display, InMenu, Subs
<1>2. ASSUME NEW step \in {-1, 1}, Turn(step) PROVE DisplayType'
  BY <1>2, TurnedType, PageType DEF Turn
<1>3. CASE Enter
  BY <1>3, EnteredType, PageType DEF Enter
<1>4. CASE Back
  BY <1>4, LeftType, PageType DEF Back
<1>5. CASE \E t \in Temps : Temperature(t)
  <2> PICK t \in Temps : Temperature(t)
    BY <1>5
  <2>1. InMenu(menu') /\ page' \in 0 .. AlarmPage
    BY DEF Temperature, AlarmPage
  <2>2. overTemp' \in BOOLEAN /\ buzzer' \in BOOLEAN
    BY DEF Temperature
  <2>3. seen' \in BOOLEAN
    BY DEF Temperature
  <2>4. lastTemp' \in Temps \cup {0}
    BY DEF Temperature
  <2>5. QED
    BY <2>1, <2>2, <2>3, <2>4 DEF InMenu, Subs
<1>6. CASE CloudSetsTask \/ HostSetsTask \/ Beep
  BY <1>6 DEF CloudSetsTask, HostSetsTask, Beep, InMenu, Subs
<1>7. QED
  BY <1>1, <1>2, <1>3, <1>4, <1>5, <1>6, ElsewhereDisplay DEF Next

LEMMA NextOutput == OutputType /\ [Next]_vars => OutputType'
<1> SUFFICES ASSUME OutputType, [Next]_vars PROVE OutputType'
  OBVIOUS
<1>1. CASE UNCHANGED outputs
  BY <1>1 DEF outputs, OutputType
<1>2. CASE FinishCheck
  BY <1>1, <1>2, ExecuteType DEF FinishCheck
<1>3. CASE Enter
  BY <1>1, <1>3, ExecuteType DEF Enter
<1>4. CASE \E id \in DOMAIN Scenes : RunScene(id)
  BY <1>4, ExecuteType DEF RunScene
<1>5. CASE \E on \in {{}, {0, 6}} : SetExtend(on)
  BY <1>5 DEF SetExtend, ExtendFrame, OutputType, Groups
<1>6. CASE \/ Tick \/ BeginCheck \/ SetTime \/ CloudSetsTask \/ HostSetsTask
           \/ Turn(1) \/ Turn(-1) \/ Back \/ Beep
           \/ \E t \in Temps : Temperature(t)
           \/ UNCHANGED vars
  <2>1. UNCHANGED outputs
    BY <1>6 DEF Tick, BeginCheck, SetTime, CloudSetsTask, HostSetsTask, Turn, Back, Beep,
                Temperature, vars
  <2>2. QED
    BY <1>1, <2>1
<1>7. QED
  BY <1>2, <1>3, <1>4, <1>5, <1>6 DEF Next

LEMMA InitTypes == Init => ClockType /\ DisplayType /\ OutputType
<1> SUFFICES ASSUME Init PROVE ClockType /\ DisplayType /\ OutputType
  OBVIOUS
<1>1. ClockType
  <2>1. since \in 0 .. CheckedEvery + DELAY
    BY Periods DEF Init, CheckedEvery
  <2>2. minRead \in {NotRead} \cup (0 .. MINS - 1) /\ steady \in BOOLEAN
    BY DEF Init
  <2>3. now \in Day /\ tasks \in TaskLists /\ ran \subseteq DOMAIN tasks
    BY DEF Init
  <2>4. QED
    BY <2>1, <2>2, <2>3 DEF ClockType
<1>2. DisplayType
  <2>1. menu \in Menus /\ menu.level = "HOME"
    BY DEF Init, Menus, MAIN_MENU_COUNT
  <2>2. page \in 0 .. AlarmPage /\ lastTemp \in Temps \cup {0}
    BY DEF Init, PowerUpPage, AlarmPage
  <2>3. overTemp \in BOOLEAN /\ buzzer \in BOOLEAN /\ seen \in BOOLEAN
    BY DEF Init
  <2>4. QED
    BY <2>1, <2>2, <2>3 DEF DisplayType, InMenu
<1>3. OutputType
  BY DEF Init, OutputType
<1>4. QED
  BY <1>1, <1>2, <1>3

(* Every variable keeps its type: the menu has no place without a page,    *)
(* and the check of the tasks is never later than the superloop may be.    *)
THEOREM TypeCorrect == Spec => []TypeOK
<1>1. QED
  BY InitTypes, NextClock, NextDisplay, NextOutput, TypeParts, PTL DEF Spec

(* The strengthening of the three properties of the display is invariant.  *)
LEMMA DisplayHolds == Spec => []DisplayInv
<1>1. DisplayType => lastTemp \in Int
  BY AlarmAboveZero DEF DisplayType
<1>2. DisplayInv /\ DisplayType /\ [Next]_vars => DisplayInv'
  BY <1>1, NextPage, NextHeat, NextBuzzer DEF DisplayInv
<1>3. QED
  BY <1>2, InitDisplay, InitTypes, NextDisplay, PTL DEF Spec

(* Keys, temperatures and acknowledgements in any order: the screen shows  *)
(* the menu's page, or the alarm while there is one.                       *)
THEOREM PageRight == Spec => []PageFollowsMenu
<1>1. DisplayInv => PageFollowsMenu
  BY DEF DisplayInv
<1>2. QED
  BY <1>1, DisplayHolds, PTL

(* Heat is alarmed until it is acknowledged, however the temperature rises *)
(* and falls around OVER_TEMP; and the buzzer never goes on, or stays on,  *)
(* without an alarm.                                                       *)
THEOREM AlarmIsRight == Spec => []AlarmRight
<1>1. DisplayInv => AlarmRight
  BY DEF DisplayInv, AlarmRight
<1>2. QED
  BY <1>1, DisplayHolds, PTL

(***************************************************************************)
(* The panels of the first sub-frame.  The byte of such a panel is written *)
(* for no other panel, because those of the later sub-frames have theirs   *)
(* written further behind.                                                 *)
(***************************************************************************)
\* Quotient and remainder, and that nothing else is one.
LEMMA DivMod ==
  ASSUME NEW n \in Int, NEW d \in Nat \ {0}
  PROVE  n = (n \div d) * d + (n % d) /\ n % d \in 0 .. d - 1 /\ n \div d \in Int
OBVIOUS

LEMMA Factor ==
  ASSUME NEW d \in Nat \ {0}, NEW x \in Int, NEW y \in Int, x < y
  PROVE  x * d + d <= y * d
<1>1. y = x + 1 + (y - x - 1) /\ y - x - 1 \in Nat
  OBVIOUS
<1> DEFINE k == y - x - 1
<1>2. k * d >= 0
  <2>1. k \in Nat
    OBVIOUS
  <2> HIDE DEF k
  <2>2. QED
    BY <2>1
<1>3. y * d = x * d + d + k * d
  OBVIOUS
<1>4. QED
  BY <1>2, <1>3

LEMMA Unique ==
  ASSUME NEW n \in Int, NEW d \in Nat \ {0}, NEW q \in Int, NEW r \in 0 .. d - 1,
         n = q * d + r
  PROVE  n \div d = q /\ n % d = r
<1> DEFINE x == n \div d
           y == n % d
<1>1. n = x * d + y /\ y \in 0 .. d - 1 /\ x \in Int
  BY DivMod
<1> HIDE DEF x, y
<1>2. ~(x < q)
  <2>1. x < q => x * d + d <= q * d
    BY <1>1, Factor
  <2>2. QED
    BY <1>1, <2>1
<1>3. ~(q < x)
  <2>1. q < x => q * d + d <= x * d
    BY <1>1, Factor
  <2>2. QED
    BY <1>1, <2>1
<1>4. x = q
  BY <1>1, <1>2, <1>3
<1>5. y = r
  BY <1>1, <1>4
<1>6. QED
  BY <1>4, <1>5 DEF x, y

LEMMA Frames == PER_FRAME \in Nat \ {0} /\ PANEL_DEV_MAX \in Nat /\ PER_FRAME <= PANEL_DEV_MAX
BY SceneAssumption

LEMMA LaterFrame ==
  ASSUME NEW k \in Nat, PER_FRAME <= k
  PROVE  (k \div PER_FRAME) * FrameSize >= FrameSize
<1> DEFINE q == k \div PER_FRAME
           r == k % PER_FRAME
<1>1. k = q * PER_FRAME + r /\ r \in 0 .. PER_FRAME - 1 /\ q \in Int
  BY Frames, DivMod
<1>2. FrameSize \in Nat
  BY Frames DEF FrameSize
<1> HIDE DEF q, r
<1>3. q >= 1
  <2>1. CASE q < 0
    <3>1. q * PER_FRAME + PER_FRAME <= 0 * PER_FRAME
      BY <1>1, <2>1, Frames, Factor
    <3>2. QED
      BY <1>1, <3>1, Frames
  <2>2. CASE q = 0
    BY <1>1, <2>2, Frames
  <2>3. QED
    BY <1>1, <2>1, <2>2
<1>4. q * FrameSize >= FrameSize
  BY <1>1, <1>2, <1>3
<1>5. QED
  BY <1>4 DEF q

LEMMA FirstBytes ==
  ASSUME NEW j \in Panels, j < PER_FRAME
  PROVE  /\ StatusByte(j) = 2 * j /\ StatusByte(j) \in Bytes
         /\ \A k \in Panels : WrittenByte(k) = StatusByte(j) <=> k = j
<1>1. j \in Nat /\ \A k \in Panels : k \in Nat
  BY Frames DEF Panels
<1>2. FrameSize = 2 * PER_FRAME + 3 /\ FrameSize \in Nat
  BY Frames DEF FrameSize
<1>3. ASSUME NEW k \in Panels, k < PER_FRAME
      PROVE  k \div PER_FRAME = 0 /\ k % PER_FRAME = k /\ WrittenByte(k) = 2 * k
  <2>1. k = 0 * PER_FRAME + k /\ k \in 0 .. PER_FRAME - 1 /\ k \in Int
    BY <1>1, <1>3, Frames
  <2>2. k \div PER_FRAME = 0 /\ k % PER_FRAME = k
    BY <2>1, Frames, Unique
  <2>3. QED
    BY <1>1, <1>2, <2>2 DEF WrittenByte
<1>4. StatusByte(j) = 2 * j
  BY <1>1, <1>2, <1>3 DEF StatusByte
<1>5. StatusByte(j) \in Bytes
  <2> DEFINE top == (PANEL_DEV_MAX \div PER_FRAME) * FrameSize
  <2>1. top >= FrameSize
    BY Frames, LaterFrame
  <2>2. top \in Int
    <3>1. PANEL_DEV_MAX \div PER_FRAME \in Int
      BY Frames, DivMod
    <3>2. QED
      BY <1>2, <3>1
  <2> HIDE DEF top
  <2>3. 2 * j \in 0 .. top - 1
    BY <1>1, <1>2, <2>1, <2>2, Frames
  <2>4. QED
    BY <1>4, <2>3 DEF Bytes, top
<1>6. ASSUME NEW k \in Panels
      PROVE  WrittenByte(k) = StatusByte(j) <=> k = j
  <2>1. CASE k < PER_FRAME
    BY <1>1, <1>3, <1>4, <2>1
  <2>2. CASE ~(k < PER_FRAME)
    <3> DEFINE b == (k \div PER_FRAME) * FrameSize
    <3>1. b >= FrameSize
      BY <1>1, <2>2, Frames, LaterFrame
    <3>2. b \in Int
      BY <1>1, <1>2, Frames, DivMod
    <3>3. WrittenByte(k) = b + 2 * k
      BY DEF WrittenByte
    <3> HIDE DEF b
    <3>4. WrittenByte(k) > 2 * j
      BY <1>1, <1>2, <2>2, <3>1, <3>2, <3>3, Frames
    <3>5. QED
      BY <1>1, <1>4, <2>2, <3>4
  <2>3. QED
    BY <2>1, <2>2
<1>7. QED
  BY <1>4, <1>5, <1>6

LEMMA ExecuteServes ==
  ASSUME OutputType, FirstOutputsServed, NEW id, Execute(id)
  PROVE  FirstOutputsServed'
<1>1. CASE id \notin DOMAIN Scenes
  BY <1>1 DEF Execute, outputs, FirstOutputsServed, Holds
<1>2. CASE id \in DOMAIN Scenes
  <2> DEFINE s == Scenes[id]
  <2>1. s.keyCtrl \subseteq Panels /\ s.keyOn \subseteq Panels
    BY <1>2, SceneAssumption
  <2>2. ASSUME NEW j \in Panels, j < PER_FRAME
        PROVE  table'[StatusByte(j)] = wanted'[j]
    <3> DEFINE b == StatusByte(j)
    <3>1. b \in Bytes /\ \A k \in Panels : WrittenByte(k) = b <=> k = j
      BY <2>2, FirstBytes
    <3>2. table' = WithScene(s)
          /\ wanted' = [i \in Panels |-> IF i \notin s.keyCtrl THEN wanted[i]
                                         ELSE IF i \in s.keyOn THEN 1 ELSE 0]
      BY <1>2 DEF Execute
    <3> HIDE DEF s, b
    <3>3. table'[b] = IF j \in s.keyCtrl THEN IF j \in s.keyOn THEN 1 ELSE 0 ELSE table[b]
      BY <2>1, <3>1, <3>2 DEF WithScene
    <3>4. wanted'[j] = IF j \in s.keyCtrl THEN IF j \in s.keyOn THEN 1 ELSE 0 ELSE wanted[j]
      BY <2>2, <3>2
    <3>5. table[b] = wanted[j]
      BY <2>2 DEF FirstOutputsServed, Holds, b
    <3>6. QED
      BY <3>3, <3>4, <3>5 DEF b
  <2>3. \A g \in 0 .. 5 : g \in extSent' <=> g \in relays'
    BY <1>2 DEF Execute, ExtendFrame
  <2>4. QED
    BY <2>2, <2>3 DEF FirstOutputsServed, Holds, StatusByte, Panels
<1>3. QED
  BY <1>1, <1>2

LEMMA NextServed == OutputType /\ FirstOutputsServed /\ [Next]_vars => FirstOutputsServed'
<1> SUFFICES ASSUME OutputType, FirstOutputsServed, [Next]_vars PROVE FirstOutputsServed'
  OBVIOUS
<1>1. CASE UNCHANGED outputs
  BY <1>1 DEF outputs, FirstOutputsServed, Holds
<1>2. CASE FinishCheck
  BY <1>1, <1>2, ExecuteServes DEF FinishCheck
<1>3. CASE Enter
  BY <1>1, <1>3, ExecuteServes DEF Enter
<1>4. CASE \E id \in DOMAIN Scenes : RunScene(id)
  BY <1>4, ExecuteServes DEF RunScene
<1>5. CASE \E on \in {{}, {0, 6}} : SetExtend(on)
  BY <1>5 DEF SetExtend, ExtendFrame, FirstOutputsServed, Holds
<1>6. CASE \/ Tick \/ BeginCheck \/ SetTime \/ CloudSetsTask \/ HostSetsTask
           \/ Turn(1) \/ Turn(-1) \/ Back \/ Beep
           \/ \E t \in Temps : Temperature(t)
           \/ UNCHANGED vars
  <2>1. UNCHANGED outputs
    BY <1>6 DEF Tick, BeginCheck, SetTime, CloudSetsTask, HostSetsTask, Turn, Back, Beep,
                Temperature, vars
  <2>2. QED
    BY <1>1, <2>1
<1>7. QED
  BY <1>2, <1>3, <1>4, <1>5, <1>6 DEF Next

LEMMA InitServed == Init => FirstOutputsServed
<1> SUFFICES ASSUME Init PROVE FirstOutputsServed
  OBVIOUS
<1>1. ASSUME NEW j \in Panels, j < PER_FRAME PROVE table[StatusByte(j)] = wanted[j]
  <2>1. StatusByte(j) \in Bytes
    BY <1>1, FirstBytes
  <2>2. QED
    BY <2>1 DEF Init
<1>2. QED
  BY <1>1 DEF Init, FirstOutputsServed, Holds

(* Whatever scenes control and however many panels there are, those of the *)
(* first sub-frame hold what was last asked of them, and the relay groups  *)
(* 0 to 5 are sent as the table has them.                                  *)
THEOREM FirstServed == Spec => []FirstOutputsServed
<1>1. QED
  BY InitServed, InitTypes, NextServed, NextOutput, PTL DEF Spec

(***************************************************************************)
(* Timer tasks.  While the check reads the registers at most one unit goes *)
(* by: the minutes it has read are the present ones, or those that are     *)
(* just over.                                                              *)
(***************************************************************************)
JustOver == now % UNITS = 0 /\ minRead = (MinOf(now) - 1) % MINS

ReadInv ==
  minRead # NotRead => \/ since = 0 /\ minRead = MinOf(now)
                       \/ since = 1 /\ (minRead = MinOf(now) \/ JustOver)

\* The remainder before the next one.
LEMMA Previous ==
  ASSUME NEW q \in Int, NEW d \in Nat \ {0}
  PROVE  q % d = (((q + 1) % d) - 1) % d
<1> DEFINE x == q \div d
           y == q % d
<1>1. q = x * d + y /\ y \in 0 .. d - 1 /\ x \in Int
  BY DivMod
<1> HIDE DEF x, y
<1>2. CASE y + 1 < d
  <2>1. q + 1 = x * d + (y + 1) /\ y + 1 \in 0 .. d - 1 /\ q + 1 \in Int
    BY <1>1, <1>2
  <2>2. (q + 1) % d = y + 1
    BY <1>1, <2>1, Unique
  <2>3. y = 0 * d + y /\ y \in Int
    BY <1>1
  <2>4. y % d = y
    BY <1>1, <2>3, Unique
  <2>5. QED
    BY <1>1, <2>2, <2>4 DEF y
<1>3. CASE y + 1 = d
  <2>1. q + 1 = (x + 1) * d + 0 /\ x + 1 \in Int /\ q + 1 \in Int /\ 0 \in 0 .. d - 1
    BY <1>1, <1>3
  <2>2. (q + 1) % d = 0
    BY <2>1, Unique
  <2>3. 0 - 1 = (-1) * d + (d - 1) /\ d - 1 \in 0 .. d - 1 /\ 0 - 1 \in Int /\ -1 \in Int
    OBVIOUS
  <2>4. (0 - 1) % d = d - 1
    BY <2>3, Unique
  <2>5. y = d - 1
    BY <1>1, <1>3
  <2>6. QED
    BY <2>2, <2>4, <2>5 DEF y
<1>4. QED
  BY <1>1, <1>2, <1>3

\* The next unit: within a minute, or the first of the next one.
LEMMA NextUnit ==
  ASSUME NEW n \in Nat, NEW u \in Nat \ {0}
  PROVE  \/ (n + 1) % u = 0 /\ (n + 1) \div u = n \div u + 1
         \/ (n + 1) % u # 0 /\ (n + 1) \div u = n \div u
<1> DEFINE x == n \div u
           y == n % u
<1>1. n = x * u + y /\ y \in 0 .. u - 1 /\ x \in Int
  BY DivMod
<1> HIDE DEF x, y
<1>2. CASE y + 1 < u
  <2>1. n + 1 = x * u + (y + 1) /\ y + 1 \in 0 .. u - 1 /\ n + 1 \in Int /\ y + 1 # 0
    BY <1>1, <1>2
  <2>2. (n + 1) \div u = x /\ (n + 1) % u = y + 1
    BY <1>1, <2>1, Unique
  <2>3. QED
    BY <2>1, <2>2 DEF x
<1>3. CASE y + 1 = u
  <2>1. n + 1 = (x + 1) * u + 0 /\ x + 1 \in Int /\ n + 1 \in Int /\ 0 \in 0 .. u - 1
    BY <1>1, <1>3
  <2>2. (n + 1) \div u = x + 1 /\ (n + 1) % u = 0
    BY <2>1, Unique
  <2>3. QED
    BY <2>2 DEF x
<1>4. QED
  BY <1>1, <1>2, <1>3

LEMMA Multiple ==
  ASSUME NEW q \in Int, NEW d \in Nat \ {0}
  PROVE  (q * d) \div d = q /\ (q * d) % d = 0
<1>1. q * d \in Int /\ q * d = q * d + 0 /\ 0 \in 0 .. d - 1
  OBVIOUS
<1>2. QED
  BY <1>1, Unique

\* At midnight the day's length and 0 are the same time.
LEMMA MidnightMin ==
  LET D == HOURS * MINS * UNITS
  IN /\ D % UNITS = 0 /\ (D \div UNITS) % MINS = 0
     /\ 0 % UNITS = 0 /\ MinOf(0) = 0
<1> DEFINE h == HOURS * MINS
<1>1. HOURS \in Nat \ {0} /\ MINS \in Nat \ {0} /\ UNITS \in Nat \ {0}
  BY SceneAssumption
<1>2. h \in Int /\ h % MINS = 0
  BY <1>1, Multiple
<1>3. HOURS * MINS * UNITS = h * UNITS
  OBVIOUS
<1> HIDE DEF h
<1>4. (h * UNITS) % UNITS = 0 /\ (h * UNITS) \div UNITS = h
  BY <1>1, <1>2, Multiple
<1>5. ASSUME NEW d \in Nat \ {0} PROVE 0 % d = 0 /\ 0 \div d = 0
  <2>1. 0 * d = 0
    OBVIOUS
  <2>2. QED
    BY <2>1, Multiple
<1>6. QED
  BY <1>1, <1>2, <1>3, <1>4, <1>5 DEF MinOf

LEMMA TickMin ==
  ASSUME now \in Day, Tick
  PROVE  \/ MinOf(now') = MinOf(now)
         \/ now' % UNITS = 0 /\ MinOf(now) = (MinOf(now') - 1) % MINS
<1> DEFINE D == HOURS * MINS * UNITS
           q == now \div UNITS
<1>1. MINS \in Nat \ {0} /\ UNITS \in Nat \ {0} /\ D \in Nat \ {0}
  BY SceneAssumption, DayLength
<1>2. now \in Nat /\ now + 1 \in 0 .. D /\ now' = (now + 1) % D
  BY DayLength DEF Day, Tick
<1>3. q \in Int /\ MinOf(now) = q % MINS
  BY <1>1, <1>2, DivMod DEF MinOf
<1>4. \/ (now + 1) % UNITS = 0 /\ (now + 1) \div UNITS = q + 1
      \/ (now + 1) % UNITS # 0 /\ (now + 1) \div UNITS = q
  BY <1>1, <1>2, NextUnit
<1>5. q % MINS = (((q + 1) % MINS) - 1) % MINS
  BY <1>1, <1>3, Previous
<1>6. D % UNITS = 0 /\ (D \div UNITS) % MINS = 0 /\ 0 % UNITS = 0 /\ MinOf(0) = 0
  BY MidnightMin
<1> HIDE DEF D, q
<1>7. CASE now + 1 = D
  <2>1. D = 1 * D + 0 /\ 0 \in 0 .. D - 1 /\ D \in Int
    BY <1>1
  <2>2. now' = 0
    BY <1>1, <1>2, <1>7, <2>1, Unique
  <2>3. (q + 1) % MINS = 0
    BY <1>4, <1>6, <1>7
  <2>4. QED
    BY <1>3, <1>5, <1>6, <2>2, <2>3
<1>8. CASE now + 1 # D
  <2>1. now + 1 = 0 * D + (now + 1) /\ now + 1 \in 0 .. D - 1
    BY <1>1, <1>2, <1>8
  <2>2. now' = now + 1
    BY <1>1, <1>2, <2>1, Unique
  <2>3. MinOf(now') = ((now + 1) \div UNITS) % MINS
    BY <2>2 DEF MinOf
  <2>4. QED
    BY <1>3, <1>4, <1>5, <2>2, <2>3
<1>9. QED
  BY <1>7, <1>8

LEMMA NextRead == ClockType /\ ReadInv /\ [Next]_vars => ReadInv'
<1> SUFFICES ASSUME ClockType, ReadInv, [Next]_vars, minRead' # NotRead
             PROVE  \/ since' = 0 /\ minRead' = MinOf(now')
                    \/ since' = 1 /\ (minRead' = MinOf(now') \/ JustOver')
  BY DEF ReadInv
<1>1. CASE Tick
  <2>1. minRead' = minRead /\ since = 0 /\ since' = 1 /\ minRead = MinOf(now)
    BY <1>1 DEF Tick, ReadInv
  <2>2. \/ MinOf(now') = MinOf(now)
        \/ now' % UNITS = 0 /\ MinOf(now) = (MinOf(now') - 1) % MINS
    BY <1>1, TickMin DEF ClockType
  <2>3. QED
    BY <2>1, <2>2 DEF JustOver
<1>2. CASE BeginCheck
  BY <1>2 DEF BeginCheck
<1>3. CASE FinishCheck
  BY <1>3 DEF FinishCheck
<1>4. CASE SetTime \/ CloudSetsTask \/ HostSetsTask
  BY <1>4 DEF SetTime, CloudSetsTask, HostSetsTask, Free
<1>5. CASE \/ Turn(1) \/ Turn(-1) \/ Enter \/ Back \/ Beep
           \/ \E t \in Temps : Temperature(t)
           \/ \E id \in DOMAIN Scenes : RunScene(id)
           \/ \E on \in {{}, {0, 6}} : SetExtend(on)
           \/ UNCHANGED vars
  <2>1. UNCHANGED clock
    BY <1>5 DEF Turn, Enter, Back, Beep, Temperature, RunScene, SetExtend, vars
  <2>2. QED
    BY <2>1 DEF clock, ReadInv, JustOver, MinOf
<1>6. QED
  BY <1>1, <1>2, <1>3, <1>4, <1>5 DEF Next

OnTime ==
  \A i \in ran' \ ran :
    \/ tasks[i].hour = HourOf(now) /\ tasks[i].min = MinOf(now)
    \/ now % UNITS = 0 /\ tasks[i].min = (MinOf(now) - 1) % MINS

LEMMA StepOnTime == ReadInv /\ [Next]_vars => OnTime
<1> SUFFICES ASSUME ReadInv, [Next]_vars, NEW i \in ran' \ ran
             PROVE  \/ tasks[i].hour = HourOf(now) /\ tasks[i].min = MinOf(now)
                    \/ now % UNITS = 0 /\ tasks[i].min = (MinOf(now) - 1) % MINS
  BY DEF OnTime
<1>1. CASE FinishCheck
  <2>1. minRead # NotRead /\ i \in Due(HourOf(now), minRead)
    BY <1>1 DEF FinishCheck
  <2>2. tasks[i].hour = HourOf(now) /\ tasks[i].min = minRead
    BY <2>1 DEF Due, First
  <2>3. QED
    BY <2>1, <2>2 DEF ReadInv, JustOver
<1>2. CASE Tick \/ SetTime \/ CloudSetsTask \/ HostSetsTask
  BY <1>2 DEF Tick, SetTime, CloudSetsTask, HostSetsTask
<1>3. CASE \/ BeginCheck \/ Turn(1) \/ Turn(-1) \/ Enter \/ Back \/ Beep
           \/ \E t \in Temps : Temperature(t)
           \/ \E id \in DOMAIN Scenes : RunScene(id)
           \/ \E on \in {{}, {0, 6}} : SetExtend(on)
           \/ UNCHANGED vars
  <2>1. ran' = ran
    BY <1>3 DEF BeginCheck, Turn, Enter, Back, Beep, Temperature, RunScene, SetExtend, clock, vars
  <2>2. QED
    BY <2>1
<1>4. QED
  BY <1>1, <1>2, <1>3 DEF Next

(* Although the clock goes on while its registers are read one by one, a   *)
(* task is executed in its minute, or less than a unit after it, or when   *)
(* the hour has just turned.                                               *)
THEOREM TasksInTime == Spec => TasksOnTime
<1>1. Init => ReadInv
  BY DEF Init, ReadInv
<1>2. Spec => [][OnTime]_vars
  BY <1>1, InitTypes, NextClock, NextRead, StepOnTime, PTL DEF Spec
<1>3. QED
  BY <1>2 DEF TasksOnTime, OnTime

(***************************************************************************)
(* No task is missed.  In a minute in which nothing is set, the task that  *)
(* is due has been executed, or no check has begun in this minute yet, or  *)
(* the one that has begun will execute it and began early enough.          *)
(***************************************************************************)
Unit == now % UNITS
DueNow == Due(HourOf(now), MinOf(now))

RunInv ==
  steady => \/ DueNow \subseteq ran
            \/ since > Unit
            \/ minRead = MinOf(now) /\ Unit < PERIOD + DELAY + since

LEMMA UnitType ==
  ASSUME now \in Day
  PROVE  Unit \in 0 .. UNITS - 1 /\ now \in Nat /\ UNITS \in Nat \ {0}
<1>1. now \in Nat /\ UNITS \in Nat \ {0}
  BY SceneAssumption, DayLength DEF Day
<1>2. QED
  BY <1>1, Remainder DEF Unit

\* A tick within a minute.
LEMMA TickUnit ==
  ASSUME now \in Day, Tick, now' % UNITS # 0
  PROVE  /\ Unit' = Unit + 1
         /\ HourOf(now') = HourOf(now) /\ MinOf(now') = MinOf(now)
<1> DEFINE D == HOURS * MINS * UNITS
           H == MINS * UNITS
<1>1. now \in Nat /\ MINS \in Nat \ {0} /\ UNITS \in Nat \ {0} /\ D \in Nat \ {0} /\ H \in Nat \ {0}
  BY UnitType, SceneAssumption, DayLength, ProductPositive
<1>2. now + 1 \in 0 .. D /\ now' = (now + 1) % D
  BY DayLength DEF Day, Tick
<1>3. D % UNITS = 0 /\ 0 % UNITS = 0
  BY MidnightMin
<1>4. \A x \in Int : (x * H) % UNITS = 0
  <2> TAKE x \in Int
  <2>1. x * H = (x * MINS) * UNITS /\ x * MINS \in Int
    BY <1>1
  <2>2. QED
    BY <1>1, <2>1, Multiple
<1> HIDE DEF D, H
<1>5. now + 1 # D
  <2> SUFFICES ASSUME now + 1 = D PROVE FALSE
    OBVIOUS
  <2>1. D = 1 * D + 0 /\ 0 \in 0 .. D - 1 /\ D \in Int
    BY <1>1
  <2>2. now' = 0
    BY <1>1, <1>2, <2>1, Unique
  <2>3. QED
    BY <1>3, <2>2
<1>6. now' = now + 1
  <2>1. now + 1 = 0 * D + (now + 1) /\ now + 1 \in 0 .. D - 1
    BY <1>1, <1>2, <1>5
  <2>2. QED
    BY <1>1, <1>2, <2>1, Unique
<1>7. (now + 1) \div UNITS = now \div UNITS
  BY <1>1, <1>6, NextUnit
<1>8. (now + 1) \div H = now \div H
  <2>1. CASE (now + 1) % H = 0
    <3> DEFINE x == (now + 1) \div H
    <3>1. now + 1 \in Int /\ H \in Nat \ {0}
      BY <1>1
    <3>2. now + 1 = x * H + ((now + 1) % H) /\ x \in Int
      BY <3>1, DivMod
    <3> HIDE DEF x
    <3>3. now + 1 = x * H
      BY <1>1, <2>1, <3>2
    <3>4. (now + 1) % UNITS = 0
      BY <1>4, <3>2, <3>3
    <3>5. QED
      BY <1>6, <3>4
  <2>2. QED
    BY <1>1, <2>1, NextUnit
<1>9. (now + 1) % UNITS = (now % UNITS) + 1
  <2> DEFINE a == now \div UNITS
             b == now % UNITS
             c == (now + 1) % UNITS
  <2>1. now \in Int /\ now + 1 \in Int /\ UNITS \in Nat \ {0}
    BY <1>1
  <2>2. now = a * UNITS + b /\ a \in Int /\ b \in 0 .. UNITS - 1
    BY <2>1, DivMod
  <2>3. now + 1 = ((now + 1) \div UNITS) * UNITS + c /\ c \in 0 .. UNITS - 1
    BY <2>1, DivMod
  <2>4. (now + 1) \div UNITS = a
    BY <1>7
  <2> HIDE DEF a, b, c
  <2>5. now + 1 = a * UNITS + c
    BY <2>3, <2>4
  <2>6. c = b + 1
    BY <2>1, <2>2, <2>3, <2>5
  <2>7. QED
    BY <2>6 DEF b, c
<1>10. QED
  BY <1>6, <1>7, <1>8, <1>9 DEF Unit, HourOf, MinOf, H

\* At most one task is due.
LEMMA OneDue ==
  ASSUME tasks \in TaskLists, NEW h, NEW m, NEW i \in Due(h, m)
  PROVE  Due(h, m) = {i}
<1>1. tasks \in Seq(Tasks)
  BY SceneAssumption
<1>2. Due(h, m) \subseteq Int
  BY <1>1 DEF Due, First
<1>3. \A k \in Due(h, m) : i <= k /\ k <= i
  BY DEF Due, First
<1>4. QED
  BY <1>2, <1>3

\* When a minute ends, the check that begins last in it has come and gone.
LEMMA MinuteEnds ==
  ASSUME ClockType, ReadInv, RunInv, Tick, now' % UNITS = 0, steady
  PROVE  DueNow \subseteq ran
<1>1. Unit \in 0 .. UNITS - 1 /\ now \in Nat /\ UNITS \in Nat \ {0}
  BY UnitType DEF ClockType
<1>2. Unit = UNITS - 1
  <2> DEFINE D == HOURS * MINS * UNITS
  <2>1. D \in Nat \ {0} /\ D % UNITS = 0
    BY DayLength, MidnightMin
  <2>2. now + 1 \in 0 .. D /\ now' = (now + 1) % D
    BY DayLength DEF ClockType, Day, Tick
  <2> HIDE DEF D
  <2>3. (now + 1) % UNITS = 0
    <3>1. CASE now + 1 = D
      BY <2>1, <3>1
    <3>2. CASE now + 1 # D
      <4>1. now + 1 = 0 * D + (now + 1) /\ now + 1 \in 0 .. D - 1
        BY <1>1, <2>1, <2>2, <3>2
      <4>2. now' = now + 1
        BY <1>1, <2>1, <2>2, <4>1, Unique
      <4>3. QED
        BY <4>2
    <3>3. QED
      BY <3>1, <3>2
  <2>4. SUFFICES ASSUME Unit + 1 < UNITS PROVE FALSE
    BY <1>1
  <2> DEFINE x == now \div UNITS
  <2>5. now = x * UNITS + Unit /\ x \in Int
    <3>1. now \in Int /\ UNITS \in Nat \ {0}
      BY <1>1
    <3>2. QED
      BY <3>1, DivMod DEF Unit
  <2> HIDE DEF x
  <2>6. now + 1 = x * UNITS + (Unit + 1) /\ Unit + 1 \in 0 .. UNITS - 1 /\ now + 1 \in Int
    BY <1>1, <2>4, <2>5
  <2>7. (now + 1) % UNITS = Unit + 1
    BY <1>1, <2>5, <2>6, Unique
  <2>8. QED
    BY <1>1, <2>3, <2>7
<1>3. PERIOD \in Nat /\ DELAY \in Nat /\ PERIOD + DELAY < UNITS /\ since \in Nat
  BY SceneAssumption DEF ClockType, CheckedEvery
<1>4. IF minRead = NotRead THEN since < PERIOD + DELAY ELSE since = 0
  BY DEF Tick, CheckedEvery
<1>5. minRead = MinOf(now) => minRead # NotRead
  BY MinType DEF ClockType, NotRead
<1>6. ~(since > Unit)
  BY <1>1, <1>2, <1>3, <1>4
<1>7. ~(minRead = MinOf(now) /\ Unit < PERIOD + DELAY + since)
  BY <1>1, <1>2, <1>3, <1>4, <1>5
<1>8. QED
  BY <1>6, <1>7 DEF RunInv

LEMMA TickRun == ASSUME ClockType, ReadInv, RunInv, Tick PROVE RunInv'
<1> SUFFICES ASSUME steady' PROVE \/ DueNow' \subseteq ran' \/ since' > Unit'
                                  \/ minRead' = MinOf(now') /\ Unit' < PERIOD + DELAY + since'
  BY DEF RunInv
<1>1. Unit \in Nat /\ since \in Nat /\ PERIOD \in Nat /\ DELAY \in Nat
  BY UnitType, Periods DEF ClockType, CheckedEvery
<1>2. since' = since + 1 /\ minRead' = minRead /\ tasks' = tasks
  BY DEF Tick
<1>3. CASE now' % UNITS = 0
  BY <1>1, <1>2, <1>3 DEF Unit
<1>4. CASE now' % UNITS # 0
  <2>1. Unit' = Unit + 1 /\ HourOf(now') = HourOf(now) /\ MinOf(now') = MinOf(now)
    BY <1>4, TickUnit DEF ClockType
  <2>2. ran' = ran /\ steady
    BY <1>4 DEF Tick
  <2>3. DueNow' = DueNow
    BY <1>2, <2>1 DEF DueNow, Due, First
  <2>4. CASE DueNow \subseteq ran
    BY <2>2, <2>3, <2>4
  <2>5. CASE since > Unit
    BY <1>1, <1>2, <2>1, <2>5
  <2>6. CASE minRead = MinOf(now) /\ Unit < PERIOD + DELAY + since
    BY <1>1, <1>2, <2>1, <2>6
  <2>7. QED
    BY <2>2, <2>4, <2>5, <2>6 DEF RunInv
<1>5. QED
  BY <1>3, <1>4

LEMMA NextRun == ClockType /\ ReadInv /\ RunInv /\ [Next]_vars => RunInv'
<1> SUFFICES ASSUME ClockType, ReadInv, RunInv, [Next]_vars PROVE RunInv'
  OBVIOUS
<1>1. CASE Tick
  BY <1>1, TickRun
<1>2. CASE BeginCheck
  <2>1. UNCHANGED <<now, tasks, ran, steady>> /\ since' = 0 /\ minRead' = MinOf(now)
    BY <1>2 DEF BeginCheck
  <2>2. minRead = NotRead /\ DueNow' = DueNow /\ Unit' = Unit /\ MinOf(now') = MinOf(now)
    BY <1>2, <2>1 DEF BeginCheck, DueNow, Unit, Due, First, HourOf, MinOf
  <2>3. since \in 0 .. PERIOD + DELAY /\ Unit \in Nat /\ PERIOD \in Nat /\ DELAY \in Nat
    BY UnitType, Periods DEF ClockType, CheckedEvery
  <2>4. CASE since > Unit
    BY <2>1, <2>2, <2>3, <2>4 DEF RunInv
  <2>5. MinOf(now) # NotRead
    BY MinType DEF ClockType, NotRead
  <2>6. QED
    BY <2>1, <2>2, <2>4, <2>5 DEF RunInv
<1>3. CASE FinishCheck
  <2> DEFINE due == Due(HourOf(now), minRead)
  <2>1. UNCHANGED <<now, since, tasks, steady>> /\ ran \subseteq ran' /\ due \subseteq ran'
    <3>1. CASE due = {}
      BY <1>3, <3>1 DEF FinishCheck
    <3>2. CASE due # {}
      <4>1. PICK i \in due : ran' = ran \cup {i}
        BY <1>3, <3>2 DEF FinishCheck
      <4>2. due = {i}
        BY OneDue DEF ClockType
      <4>3. QED
        BY <1>3, <4>1, <4>2 DEF FinishCheck
    <3>3. QED
      BY <3>1, <3>2
  <2>2. DueNow' = DueNow /\ Unit' = Unit
    BY <2>1 DEF DueNow, Unit, Due, First, HourOf, MinOf
  <2>3. CASE minRead = MinOf(now)
    BY <2>1, <2>2, <2>3 DEF RunInv, DueNow
  <2>4. CASE minRead # MinOf(now)
    BY <2>1, <2>2, <2>4 DEF RunInv
  <2>5. QED
    BY <2>3, <2>4
<1>4. CASE SetTime \/ CloudSetsTask \/ HostSetsTask
  BY <1>4 DEF SetTime, CloudSetsTask, HostSetsTask, RunInv
<1>5. CASE \/ Turn(1) \/ Turn(-1) \/ Enter \/ Back \/ Beep
           \/ \E t \in Temps : Temperature(t)
           \/ \E id \in DOMAIN Scenes : RunScene(id)
           \/ \E on \in {{}, {0, 6}} : SetExtend(on)
           \/ UNCHANGED vars
  <2>1. UNCHANGED clock
    BY <1>5 DEF Turn, Enter, Back, Beep, Temperature, RunScene, SetExtend, vars
  <2>2. QED
    BY <2>1 DEF clock, RunInv, DueNow, Unit, Due, First, HourOf, MinOf
<1>6. QED
  BY <1>1, <1>2, <1>3, <1>4, <1>5 DEF Next

NoneMissed ==
  (now' # now /\ now' % UNITS = 0 /\ steady /\ steady') => DueNow \subseteq ran

LEMMA StepRuns == ClockType /\ ReadInv /\ RunInv /\ [Next]_vars => NoneMissed
<1> SUFFICES ASSUME ClockType, ReadInv, RunInv, [Next]_vars,
                    now' # now, now' % UNITS = 0, steady, steady'
             PROVE  DueNow \subseteq ran
  BY DEF NoneMissed
<1>1. CASE Tick
  BY <1>1, MinuteEnds
<1>2. CASE SetTime \/ HostSetsTask
  BY <1>2 DEF SetTime, HostSetsTask
<1>3. CASE \/ BeginCheck \/ FinishCheck \/ CloudSetsTask \/ Turn(1) \/ Turn(-1) \/ Enter
           \/ Back \/ Beep
           \/ \E t \in Temps : Temperature(t)
           \/ \E id \in DOMAIN Scenes : RunScene(id)
           \/ \E on \in {{}, {0, 6}} : SetExtend(on)
           \/ UNCHANGED vars
  BY <1>3 DEF BeginCheck, FinishCheck, CloudSetsTask, Turn, Enter, Back, Beep, Temperature,
              RunScene, SetExtend, clock, vars
<1>4. QED
  BY <1>1, <1>2, <1>3 DEF Next

(* A check every PERIOD that may be late by DELAY executes the task of     *)
(* every minute longer than both, in which nothing is set.                 *)
THEOREM NoTaskMissed == Spec => TasksRun
<1>1. Init => ReadInv /\ RunInv
  BY DEF Init, ReadInv, RunInv
<1>2. Spec => [][NoneMissed]_vars
  BY <1>1, InitTypes, NextClock, NextRead, NextRun, StepRuns, PTL DEF Spec
<1>3. QED
  BY <1>2 DEF TasksRun, NoneMissed, DueNow
=============================================================================
