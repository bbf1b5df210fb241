--------------------------- MODULE SoftTimerProofs --------------------------
(***************************************************************************)
(* Theorems about the timer pool, for every number of slots, every set of  *)
(* timers and whatever callbacks and handlers do with them.                *)
(***************************************************************************)
EXTENDS SoftTimer, FiniteSetTheorems, WellFoundedInduction, TLAPS

(***************************************************************************)
(* Type correctness.  What a slot and the stores of app_timer_start hold   *)
(* depends on where the superloop is: the poll never runs inside a start,  *)
(* and a live slot belongs to a timer.                                     *)
(***************************************************************************)
Book ==
  /\ new # NoStart => new.name \in Names /\ pc \in {"main", "callback"}
  /\ new # NoStart /\ "state" \notin new.done => ~Live(new.slot)
  /\ new # NoStart /\ "fields" \in new.done => name[new.slot] = new.name
  /\ pc \in {"poll", "rearm", "activate"} => rest = <<>>
  /\ pc \in {"rearm", "activate"} => Live(i)
  /\ \A s \in Slots : Live(s) /\ ~Storing(s) => name[s] \in Names

LEMMA SlotZero == 0 \in Slots /\ 0 \in 0 .. TickMod - 1
BY TimerAssumption DEF Slots

LEMMA NoStartType ==
  NoStart \in [slot : Slots, name : Names \cup {NoName}, start : 0 .. TickMod - 1,
               done : {{}, {"state"}, {"fields"}}]
BY SlotZero DEF NoStart

(* The counter counts modulo a positive number.                            *)
LEMMA ModType == TickMod \in Nat /\ TickMod > 0
BY TimerAssumption

(* Scripts are sequences of operations on timers.                          *)
LEMMA ScriptTypes ==
  ASSUME NEW mx \in Mixes
  PROVE  /\ BootScript[mx] \in Seq(Ops)
         /\ \A script \in HandlerScripts[mx] : script \in Seq(Ops)
         /\ \A n \in Names : CallbackScripts[mx][n] \subseteq Seq(Ops)
BY TimerAssumption

LEMMA InitBook == Init => TypeOK /\ Book
<1> SUFFICES ASSUME Init PROVE TypeOK /\ Book
  OBVIOUS
<1>1. TypeOK
  BY SlotZero, NoStartType, ScriptTypes DEF Init, TypeOK, States, PCs
<1>2. Book
  BY DEF Init, Book, Live
<1>3. QED
  BY <1>1, <1>2

(* Which step app_timer_poll takes to its next slot.                       *)
LEMMA AdvanceType ==
  ASSUME i \in Slots, Advance
  PROVE  pc' \in {"main", "poll"} /\ i' \in Slots
BY TimerAssumption DEF Advance, Slots

(* A tick leaves live slots live and dead ones dead.                       *)
LEMMA TickLive ==
  ASSUME TypeOK, Tick
  PROVE  \A s \in Slots : Live(s)' = Live(s)
BY DEF Tick, Live, Expired, TypeOK, States

(* The second of the two stores ends the start.                            *)
LEMMA StoredStep ==
  ASSUME TypeOK, NEW half \in {"state", "fields"}, half \notin new.done, Stored(half)
  PROVE  \/ new' = NoStart /\ {"state", "fields"} \ {half} \subseteq new.done
         \/ /\ new' = [new EXCEPT !.done = {half}]
            /\ new.done = {}
<1>1. new.done \in {{}, {"state"}, {"fields"}}
  BY DEF TypeOK
<1>2. CASE new.done = {}
  BY <1>2 DEF Stored
<1>3. CASE new.done # {}
  BY <1>1, <1>3 DEF Stored
<1>4. QED
  BY <1>2, <1>3

LEMMA NextBook == TypeOK /\ Book /\ [Next]_vars => (TypeOK /\ Book)'
<1> SUFFICES ASSUME TypeOK, Book, [Next]_vars PROVE TypeOK' /\ Book'
  OBVIOUS
<1> USE DEF slots, ghosts
<1>1. CASE Tick
  <2>1. ticks' \in 0 .. TickMod - 1
    BY <1>1, TimerAssumption, SMT DEF Tick, TypeOK
  <2>2. state' \in [Slots -> States]
    BY <1>1 DEF Tick, TypeOK, States
  <2>3. age' \in [Names -> Nat]
    BY <1>1, TimerAssumption DEF Tick, TypeOK, Older
  <2>4. torn' \subseteq Names
    <3>1. new.done = {"state"} => new # NoStart
      BY DEF NoStart
    <3>2. torn \subseteq Names
      BY DEF TypeOK
    <3>3. QED
      BY <1>1, <3>1, <3>2 DEF Tick, Book
  <2>5. TypeOK'
    BY <1>1, <2>1, <2>2, <2>3, <2>4 DEF Tick, TypeOK
  <2>6. Book'
    BY <1>1, TickLive DEF Tick, Book, Storing, TypeOK
  <2>7. QED
    BY <2>5, <2>6
<1>2. ASSUME NEW script \in HandlerScripts[mix], Handle(script) PROVE TypeOK' /\ Book'
  <2>1. script \in Seq(Ops)
    BY ScriptTypes DEF TypeOK
  <2>2. QED
    BY <1>2, <2>1 DEF Handle, TypeOK, Book, Live, Storing
<1>3. ASSUME NEW n \in Names, Stop(n) PROVE TypeOK' /\ Book'
  <2>1. pc \in {"main", "callback"} /\ new = NoStart /\ rest' \in Seq(Ops)
    BY <1>3 DEF Stop, NextOp, TypeOK, Book, PCs
  <2>2. state' \in [Slots -> States]
    BY <1>3 DEF Stop, Stopped, TypeOK, States
  <2>3. \A s \in Slots : Live(s)' => Live(s)
    BY <1>3 DEF Stop, Stopped, Live, TypeOK
  <2>4. TypeOK'
    BY <1>3, <2>1, <2>2 DEF Stop, TypeOK
  <2>5. Book'
    BY <1>3, <2>1, <2>3 DEF Stop, Book, Storing
  <2>6. QED
    BY <2>4, <2>5
<1>4. ASSUME NEW n \in Names, Start(n) PROVE TypeOK' /\ Book'
  <2>1. pc \in {"main", "callback"} /\ new = NoStart /\ rest' \in Seq(Ops)
    BY <1>4 DEF Start, NextOp, TypeOK, Book, PCs
  <2>2. state' \in [Slots -> States]
    BY <1>4 DEF Start, Stopped, TypeOK, States
  <2>3. \A s \in Slots : Live(s)' => Live(s)
    BY <1>4 DEF Start, Stopped, Live, TypeOK
  <2>4. \/ new' = NoStart
        \/ \E s \in Slots : /\ ~Live(s)'
                            /\ new' = [slot |-> s, name |-> n, start |-> ticks, done |-> {}]
    BY <1>4, <2>1 DEF Start, FirstFree, Live
  <2>5. /\ new' \in [slot : Slots, name : Names \cup {NoName}, start : 0 .. TickMod - 1,
                     done : {{}, {"state"}, {"fields"}}]
        /\ new' # NoStart => new'.name \in Names /\ ~Live(new.slot)' /\ new'.done = {}
    BY <2>4, NoStartType DEF TypeOK
  <2>6. age' \in [Names -> Nat]
    BY <1>4 DEF Start, TypeOK
  <2>7. TypeOK'
    BY <1>4, <2>1, <2>2, <2>5, <2>6 DEF Start, TypeOK
  <2>8. UNCHANGED <<pc, name>>
    BY <1>4 DEF Start
  <2>9. Book'
    BY <2>1, <2>3, <2>5, <2>8 DEF Book, Storing
  <2>10. QED
    BY <2>7, <2>9
<1>5. ASSUME NEW n \in Names, Reset(n) PROVE TypeOK' /\ Book'
  <2>1. /\ ticks' = 0 /\ state' = [s \in Slots |-> "INACTIVE"]
        /\ start' = [s \in Slots |-> 0] /\ name' = [s \in Slots |-> NoName]
        /\ pc' = "main" /\ i' = 0 /\ rest' = BootScript[mix] /\ new' = NoStart
        /\ running' = NoName /\ torn' = {}
        /\ age' = [m \in Names |-> 0] /\ mix' = mix
    BY <1>5 DEF Reset, NextOp
  <2>2. TypeOK'
    BY <2>1, SlotZero, NoStartType, ScriptTypes DEF TypeOK, States, PCs
  <2>3. Book'
    BY <2>1 DEF Book, Live
  <2>4. QED
    BY <2>2, <2>3
<1>6. CASE StoreState
  <2>1. /\ new # NoStart /\ new.slot \in Slots /\ new.name \in Names
        /\ pc \in {"main", "callback"} /\ "state" \notin new.done
    BY <1>6 DEF StoreState, Book, TypeOK
  <2>2. /\ state' = [state EXCEPT ![new.slot] = "ACTIVE"]
        /\ UNCHANGED <<mix, ticks, start, name, pc, i, rest, ghosts>>
    BY <1>6 DEF StoreState
  <2>3. (new' = NoStart /\ "fields" \in new.done) \/ new' = [new EXCEPT !.done = {"state"}]
    BY <1>6, <2>1, StoredStep DEF StoreState
  <2>4. \/ new' = NoStart /\ name[new.slot] = new.name
        \/ /\ Storing(new.slot)' /\ new' # NoStart /\ new'.name = new.name
           /\ new'.done = {"state"} /\ new'.slot = new.slot /\ new'.start = new.start
    BY <2>1, <2>3 DEF TypeOK, Storing, NoStart, Book
  <2>5. TypeOK'
    BY <2>2, <2>3, NoStartType DEF TypeOK, States
  <2>6. \A s \in Slots \ {new.slot} : Live(s)' = Live(s) /\ ~Storing(s)
    BY <2>2 DEF Live, Storing, TypeOK
  <2>7. (\A s \in Slots : Live(s) /\ ~Storing(s) => name[s] \in Names)'
    BY <2>1, <2>2, <2>4, <2>6 DEF Book
  <2>8. Book'
    BY <2>1, <2>2, <2>4, <2>7 DEF Book
  <2>9. QED
    BY <2>5, <2>8
<1>7. CASE StoreFields
  <2>1. /\ new # NoStart /\ new.slot \in Slots /\ new.name \in Names
        /\ new.start \in 0 .. TickMod - 1
        /\ pc \in {"main", "callback"} /\ "fields" \notin new.done
    BY <1>7 DEF StoreFields, Book, TypeOK
  <2>2. /\ start' = [start EXCEPT ![new.slot] = new.start]
        /\ name' = [name EXCEPT ![new.slot] = new.name]
        /\ UNCHANGED <<mix, ticks, state, pc, i, rest, ghosts>>
    BY <1>7 DEF StoreFields
  <2>3. (new' = NoStart /\ "state" \in new.done) \/ new' = [new EXCEPT !.done = {"fields"}]
    BY <1>7, <2>1, StoredStep DEF StoreFields
  <2>4. name'[new.slot] = new.name /\ \A s \in Slots \ {new.slot} : name'[s] = name[s]
    BY <2>1, <2>2 DEF TypeOK
  <2>5. TypeOK'
    BY <2>1, <2>2, <2>3, NoStartType DEF TypeOK
  <2>6. new' # NoStart =>
          /\ new'.name = new.name /\ new'.slot = new.slot /\ new'.done = {"fields"}
          /\ "state" \notin new.done
    BY <1>7, <2>1, <2>3 DEF TypeOK, NoStart, StoreFields, Stored
  <2>7. \A s \in Slots : Live(s)' = Live(s)
    BY <2>2 DEF Live
  <2>8. (\A s \in Slots : Live(s) /\ ~Storing(s) => name[s] \in Names)'
    BY <2>1, <2>4, <2>7 DEF Book, Storing
  <2>9. Book'
    BY <2>1, <2>2, <2>4, <2>6, <2>7, <2>8 DEF Book
  <2>10. QED
    BY <2>5, <2>9
<1>8. CASE PollBegin
  BY <1>8, SlotZero DEF PollBegin, TypeOK, Book, Storing, Live, PCs
<1>9. CASE PollSkip
  BY <1>9, AdvanceType DEF PollSkip, TypeOK, Book, Storing, Live, PCs
<1>10. CASE PollCall
  <2>1. name[i] \in Names
    BY <1>10 DEF PollCall, TypeOK, Book, Storing, Live
  <2>2. rest' \in Seq(Ops)
    BY <1>10, <2>1, ScriptTypes DEF PollCall, TypeOK
  <2>3. QED
    BY <1>10, <2>1, <2>2 DEF PollCall, TypeOK, Book, Storing, Live, PCs
<1>11. CASE PollReturn
  BY <1>11, AdvanceType DEF PollReturn, TypeOK, Book, Storing, Live, PCs
<1>12. CASE RearmTime
  BY <1>12 DEF RearmTime, TypeOK, Book, Storing, Live, PCs
<1>13. CASE RearmState
  BY <1>13, AdvanceType DEF RearmState, TypeOK, Book, Storing, Live, PCs, States
<1>14. CASE Expire
  BY <1>14, AdvanceType DEF Expire, TypeOK, Book, Storing, Live, PCs, States
<1>15. CASE UNCHANGED vars
  BY <1>15 DEF vars, TypeOK, Book, Storing, Live
<1>16. QED
  BY <1>1, <1>2, <1>3, <1>4, <1>5, <1>6, <1>7, <1>8, <1>9, <1>10, <1>11, <1>12,
     <1>13, <1>14, <1>15 DEF Next

(* Every static and local of the timer module keeps its type, and the poll *)
(* never meets a half stored slot.                                         *)
THEOREM TypeCorrect == Spec => [](TypeOK /\ Book)
<1>1. QED
  BY InitBook, NextBook, PTL DEF Spec

(***************************************************************************)
(* One live slot per name.  A start that is being stored has stopped the   *)
(* timer of its name first, and no other slot comes to life meanwhile.     *)
(***************************************************************************)
NewIsAlone ==
  new # NoStart => \A s \in Slots : Live(s) /\ s # new.slot => name[s] # new.name

UniqueInv == UniqueNames /\ NewIsAlone

(* Slots that keep their names and do not come to life cannot clash.       *)
LEMMA UniqueFrame ==
  ASSUME UniqueInv, UNCHANGED <<name, new>>, \A s \in Slots : Live(s)' => Live(s)
  PROVE  UniqueInv'
<1>1. \A s \in Slots : Storing(s)' = Storing(s)
  BY DEF Storing
<1>2. UniqueNames'
  BY <1>1 DEF UniqueInv, UniqueNames
<1>3. NewIsAlone'
  BY DEF UniqueInv, NewIsAlone
<1>4. QED
  BY <1>2, <1>3 DEF UniqueInv

LEMMA NextUnique == TypeOK /\ Book /\ UniqueInv /\ [Next]_vars => UniqueInv'
<1> SUFFICES ASSUME TypeOK, Book, UniqueInv, [Next]_vars PROVE UniqueInv'
  OBVIOUS
<1> USE DEF slots
<1>1. CASE Tick
  <2>1. \A s \in Slots : Live(s)' => Live(s)
    BY <1>1, TickLive
  <2>2. QED
    BY <1>1, <2>1, UniqueFrame DEF Tick
<1>2. ASSUME NEW n \in Names, Stop(n) PROVE UniqueInv'
  <2>1. \A s \in Slots : Live(s)' => Live(s)
    BY <1>2 DEF Stop, Stopped, Live, TypeOK
  <2>2. QED
    BY <1>2, <2>1, UniqueFrame DEF Stop
<1>3. ASSUME NEW n \in Names, Start(n) PROVE UniqueInv'
  <2>1. /\ UNCHANGED name /\ new = NoStart
        /\ \A s \in Slots : Live(s)' => Live(s) /\ name[s] # n
    BY <1>3 DEF Start, NextOp, Stopped, Named, Live, TypeOK
  <2>2. UniqueNames'
    BY <2>1 DEF UniqueInv, UniqueNames, Storing
  <2>3. new' # NoStart => new'.name = n
    BY <1>3, <2>1 DEF Start
  <2>4. NewIsAlone'
    BY <2>1, <2>3 DEF NewIsAlone
  <2>5. QED
    BY <2>2, <2>4 DEF UniqueInv
<1>4. ASSUME NEW n \in Names, Reset(n) PROVE UniqueInv'
  <2>1. /\ \A s \in Slots : ~Live(s)'
        /\ new' = NoStart
    BY <1>4 DEF Reset, NextOp, Live
  <2>2. QED
    BY <2>1 DEF UniqueInv, UniqueNames, NewIsAlone
<1>5. CASE StoreState
  <2>1. /\ new # NoStart /\ new.slot \in Slots /\ "state" \notin new.done
        /\ UNCHANGED name /\ Stored("state")
        /\ \A s \in Slots \ {new.slot} : Live(s)' = Live(s)
    BY <1>5 DEF StoreState, TypeOK, Live
  <2>2. \A s \in Slots \ {new.slot} : Live(s) => ~Storing(s) /\ name[s] # new.name
    BY <2>1 DEF UniqueInv, NewIsAlone, Storing
  <2>3. CASE new' = NoStart
    <3>1. name[new.slot] = new.name
      BY <2>1, <2>3, StoredStep DEF Book, NoStart
    <3>2. UniqueNames'
      BY <2>1, <2>2, <3>1 DEF UniqueInv, UniqueNames
    <3>3. QED
      BY <2>3, <3>2 DEF UniqueInv, NewIsAlone
  <2>4. CASE new' # NoStart
    <3>1. new'.slot = new.slot /\ new'.name = new.name
      BY <2>1, <2>4, StoredStep DEF TypeOK
    <3>2. UniqueNames'
      BY <2>1, <2>2, <2>4, <3>1 DEF UniqueInv, UniqueNames, Storing
    <3>3. NewIsAlone'
      BY <2>1, <2>2, <3>1 DEF NewIsAlone
    <3>4. QED
      BY <3>2, <3>3 DEF UniqueInv
  <2>5. QED
    BY <2>3, <2>4
<1>6. CASE StoreFields
  <2>1. /\ new # NoStart /\ new.slot \in Slots /\ "fields" \notin new.done
        /\ UNCHANGED state /\ Stored("fields") /\ name'[new.slot] = new.name
        /\ \A s \in Slots \ {new.slot} : name'[s] = name[s]
    BY <1>6 DEF StoreFields, TypeOK
  <2>2. /\ \A s \in Slots : Live(s)' = Live(s)
        /\ \A s \in Slots \ {new.slot} : Live(s) => ~Storing(s) /\ name[s] # new.name
    BY <2>1 DEF UniqueInv, NewIsAlone, Storing, Live
  <2>3. CASE new' = NoStart
    <3>1. UniqueNames'
      BY <2>1, <2>2 DEF UniqueInv, UniqueNames
    <3>2. QED
      BY <2>3, <3>1 DEF UniqueInv, NewIsAlone
  <2>4. CASE new' # NoStart
    <3>1. new'.slot = new.slot /\ new'.name = new.name
      BY <2>1, <2>4, StoredStep DEF TypeOK
    <3>2. UniqueNames'
      BY <2>1, <2>2, <2>4, <3>1 DEF UniqueInv, UniqueNames, Storing
    <3>3. NewIsAlone'
      BY <2>1, <2>2, <3>1 DEF NewIsAlone
    <3>4. QED
      BY <3>2, <3>3 DEF UniqueInv
  <2>5. QED
    BY <2>3, <2>4
<1>7. CASE RearmState
  <2>1. \A s \in Slots : Live(s)' => Live(s)
    BY <1>7 DEF RearmState, Book, Live, TypeOK
  <2>2. QED
    BY <1>7, <2>1, UniqueFrame DEF RearmState
<1>8. CASE Expire
  <2>1. \A s \in Slots : Live(s)' => Live(s)
    BY <1>8 DEF Expire, Live, TypeOK
  <2>2. QED
    BY <1>8, <2>1, UniqueFrame DEF Expire
<1>9. ASSUME UNCHANGED <<state, name, new>> PROVE UniqueInv'
  BY <1>9, UniqueFrame DEF Live
<1>10. QED
  BY <1>1, <1>2, <1>3, <1>4, <1>5, <1>6, <1>7, <1>8, <1>9
     DEF Next, vars, Handle, PollBegin, PollSkip, PollCall, PollReturn, RearmTime

(* A name has at most one live slot, so app_timer_stop stops the timer.    *)
THEOREM NamesUnique == Spec => []UniqueNames
<1>1. Init => UniqueInv
  BY DEF Init, UniqueInv, UniqueNames, NewIsAlone, Live
<1>2. UniqueInv => UniqueNames
  BY DEF UniqueInv
<1>3. QED
  BY <1>1, <1>2, TypeCorrect, NextUnique, PTL DEF Spec

(***************************************************************************)
(* No timer is pending early, unless a tick hit its slot while it was half *)
(* stored.  As long as a timer's interval is not over, the time its slot   *)
(* counts from is exactly as long ago as the timer was armed, modulo the   *)
(* wrap of system_ticks; so it is for the start being stored and for the   *)
(* slot being re-armed.                                                    *)
(***************************************************************************)
InTime(from, n) == age[n] < Interval[n] => Elapsed(from, ticks) = age[n]

ActiveInTime ==
  \A s \in Slots : (state[s] = "ACTIVE" \/ Rearming(s)) /\ ~Storing(s)
                      => InTime(start[s], name[s]) \/ name[s] \in torn

NewInTime ==
  new # NoStart =>
    /\ InTime(new.start, new.name)
    /\ "fields" \in new.done => start[new.slot] = new.start
    /\ state[new.slot] = "PENDING" => new.name \in torn

EarlyInv == NotEarly /\ ActiveInTime /\ NewInTime

(* One more tick is one more elapsed, short of a full turn of the counter. *)
LEMMA ElapsedTick ==
  ASSUME NEW t \in 0 .. TickMod - 1, NEW s \in 0 .. TickMod - 1,
         Elapsed(s, t) + 1 < TickMod
  PROVE  Elapsed(s, (t + 1) % TickMod) = Elapsed(s, t) + 1
<1>1. Elapsed(s, t) = IF t >= s THEN t - s ELSE t - s + TickMod
  BY ModType, SMTT(30) DEF Elapsed
<1>2. (t + 1) % TickMod = IF t = TickMod - 1 THEN 0 ELSE t + 1
  BY ModType, SMTT(30)
<1>3. CASE t = TickMod - 1
  <2>1. s # 0 /\ (t + 1) % TickMod = 0
    BY <1>1, <1>2, <1>3, ModType
  <2>2. Elapsed(s, 0) = TickMod - s
    BY <2>1, ModType, SMTT(30) DEF Elapsed
  <2>3. QED
    BY <1>1, <1>3, <2>1, <2>2, ModType
<1>4. CASE t # TickMod - 1
  <2>1. t + 1 \in 0 .. TickMod - 1 /\ (t + 1) % TickMod = t + 1
    BY <1>2, <1>4, ModType
  <2>2. Elapsed(s, t + 1) = IF t + 1 >= s THEN t + 1 - s ELSE t + 1 - s + TickMod
    BY <2>1, ModType, SMTT(30) DEF Elapsed
  <2>3. QED
    BY <1>1, <1>4, <2>1, <2>2, ModType
<1>5. QED
  BY <1>3, <1>4

(* No time has elapsed since now.                                          *)
LEMMA ElapsedNow ==
  ASSUME NEW t \in 0 .. TickMod - 1
  PROVE  Elapsed(t, t) = 0
BY ModType, SMT DEF Elapsed

(* A tick keeps the count of every timer in step with its age, and a timer *)
(* found expired has reached its interval.                                 *)
LEMMA TickInTime ==
  ASSUME TypeOK, Tick, NEW n \in Names, NEW from \in 0 .. TickMod - 1, InTime(from, n)
  PROVE  /\ InTime(from, n)'
         /\ Elapsed(from, ticks') >= Interval[n] => age'[n] >= Interval[n]
<1>1. /\ ticks' = (ticks + 1) % TickMod /\ ticks \in 0 .. TickMod - 1
      /\ age'[n] = IF age[n] < Interval[n] THEN age[n] + 1 ELSE age[n]
      /\ age[n] \in Nat /\ Interval[n] \in 1 .. TickMod - 1
  BY TimerAssumption DEF Tick, TypeOK, Older
<1>2. CASE age[n] < Interval[n]
  <2>2. Elapsed(from, ticks) = age[n]
    BY <1>2 DEF InTime
  <2>3. age[n] + 1 < TickMod
    BY <1>1, <1>2, TimerAssumption
  <2>4. Elapsed(from, ticks') = age[n] + 1
    BY <1>1, <2>2, <2>3, ElapsedTick
  <2>5. QED
    BY <1>1, <1>2, <2>4 DEF InTime
<1>3. CASE ~(age[n] < Interval[n])
  BY <1>1, <1>3, TimerAssumption DEF InTime
<1>4. QED
  BY <1>2, <1>3

(* A step that leaves every slot, count and start alone leaves timers in   *)
(* time.                                                                   *)
LEMMA EarlyFrame ==
  ASSUME EarlyInv, UNCHANGED <<ticks, slots, new, age, torn>>,
         pc # "activate", pc' # "activate"
  PROVE  EarlyInv'
BY DEF EarlyInv, NotEarly, ActiveInTime, NewInTime, InTime, Storing, Rearming, slots

LEMMA TickEarly == TypeOK /\ Book /\ EarlyInv /\ Tick => EarlyInv'
<1> SUFFICES ASSUME TypeOK, Book, EarlyInv, Tick PROVE EarlyInv'
  OBVIOUS
<1>1. /\ UNCHANGED <<start, name, pc, i, new>>
      /\ torn \subseteq torn'
      /\ \A s \in Slots : state'[s] = IF Expired(s, ticks') THEN "PENDING" ELSE state[s]
  BY DEF Tick
<1>2. \A s \in Slots : Storing(s)' = Storing(s) /\ Rearming(s)' = Rearming(s)
  BY <1>1 DEF Storing, Rearming
<1>3. \A n \in Names : age[n] >= Interval[n] => age'[n] >= Interval[n]
  BY TimerAssumption DEF Tick, Older, TypeOK
<1>4. \A s \in Slots : Live(s) /\ ~Storing(s) => name[s] \in Names
  BY DEF Book
<1>5. ASSUME NEW s \in Slots, state[s] = "ACTIVE" \/ Rearming(s), ~Storing(s)
      PROVE  /\ InTime(start[s], name[s])' \/ name[s] \in torn'
             /\ state'[s] = "PENDING" /\ state[s] = "ACTIVE"
                  => age'[name[s]] >= Interval[name[s]] \/ name[s] \in torn'
  <2>1. name[s] \in Names /\ start[s] \in 0 .. TickMod - 1
    BY <1>4, <1>5 DEF Live, Rearming, Book, TypeOK
  <2>2. CASE name[s] \in torn
    BY <2>2, <1>1
  <2>3. CASE name[s] \notin torn
    <3>1. InTime(start[s], name[s])
      BY <1>5, <2>3 DEF EarlyInv, ActiveInTime
    <3>2. InTime(start[s], name[s])'
      BY <2>1, <3>1, <1>1, TickInTime
    <3>3. IntervalAt(s) = Interval[name[s]]
      BY <2>1, TimerAssumption DEF IntervalAt
    <3>4. state'[s] = "PENDING" /\ state[s] = "ACTIVE"
            => Elapsed(start[s], ticks') >= Interval[name[s]]
      BY <1>1, <3>3 DEF Expired
    <3>5. QED
      BY <2>1, <3>1, <3>2, <3>4, <1>1, TickInTime
  <2>4. QED
    BY <2>2, <2>3
<1>6. ActiveInTime'
  BY <1>1, <1>2, <1>5 DEF ActiveInTime
<1>7. NotEarly'
  <2> SUFFICES ASSUME NEW s \in Slots, state'[s] = "PENDING", ~Storing(s), ~Rearming(s)
               PROVE  age'[name[s]] >= Interval[name[s]] \/ name[s] \in torn'
    BY <1>1, <1>2 DEF NotEarly
  <2>1. CASE state[s] = "PENDING"
    BY <2>1, <1>1, <1>3, <1>4 DEF EarlyInv, NotEarly, Live
  <2>2. CASE state[s] # "PENDING"
    BY <2>2, <1>1, <1>5 DEF Expired
  <2>3. QED
    BY <2>1, <2>2
<1>8. NewInTime'
  <2> SUFFICES ASSUME new # NoStart PROVE NewInTime'
    BY <1>1 DEF NewInTime
  <2>1. /\ new.name \in Names /\ new.slot \in Slots /\ new.start \in 0 .. TickMod - 1
        /\ new.done \in {{}, {"state"}, {"fields"}}
    BY DEF Book, TypeOK
  <2>2. InTime(new.start, new.name)'
    BY <2>1, <1>1, TickInTime DEF EarlyInv, NewInTime
  <2>3. state'[new.slot] = "PENDING" => new.name \in torn'
    <3>1. CASE new.done = {"state"}
      BY <3>1 DEF Tick
    <3>2. CASE new.done # {"state"}
      BY <3>2, <2>1, <1>1 DEF Book, Live, Expired
    <3>3. QED
      BY <3>1, <3>2
  <2>4. QED
    BY <1>1, <2>2, <2>3 DEF NewInTime, EarlyInv
<1>9. QED
  BY <1>6, <1>7, <1>8 DEF EarlyInv

LEMMA NextEarly ==
  TypeOK /\ Book /\ UniqueInv /\ EarlyInv /\ [Next]_vars => EarlyInv'
<1> SUFFICES ASSUME TypeOK, Book, UniqueInv, EarlyInv, [Next]_vars PROVE EarlyInv'
  OBVIOUS
<1> USE DEF slots, ghosts
<1>1. CASE Tick
  BY <1>1, TickEarly
<1>2. ASSUME NEW script \in HandlerScripts[mix], Handle(script) PROVE EarlyInv'
  BY <1>2, EarlyFrame DEF Handle
<1>3. ASSUME NEW n \in Names, Stop(n) PROVE EarlyInv'
  <2>1. /\ UNCHANGED <<ticks, start, name, pc, i, new, age, torn>> /\ new = NoStart
        /\ pc # "activate"
        /\ \A s \in Slots : state'[s] = state[s] \/ state'[s] = "INACTIVE"
    BY <1>3 DEF Stop, NextOp, Stopped, Book
  <2>2. QED
    BY <2>1 DEF EarlyInv, NotEarly, ActiveInTime, NewInTime, InTime, Storing, Rearming
<1>4. ASSUME NEW n \in Names, Start(n) PROVE EarlyInv'
  <2>1. /\ UNCHANGED <<ticks, start, name, pc, i>> /\ new = NoStart
        /\ pc # "activate" /\ ticks \in 0 .. TickMod - 1
        /\ \A s \in Slots : \/ state'[s] = state[s] /\ (Live(s) => name[s] # n)
                            \/ state'[s] = "INACTIVE"
    BY <1>4 DEF Start, NextOp, Stopped, Named, Book, TypeOK
  <2>2. /\ torn' = torn \ {n} /\ age'[n] = 0
        /\ \A m \in Names \ {n} : age'[m] = age[m]
    BY <1>4 DEF Start, TypeOK
  <2>3. \A s \in Slots : Live(s) => name[s] \in Names
    BY <2>1 DEF Book, Storing
  <2>4. ASSUME NEW s \in Slots, Live(s)'
        PROVE  /\ state'[s] = state[s] /\ name[s] \in Names \ {n}
               /\ age'[name[s]] = age[name[s]]
               /\ name[s] \in torn => name[s] \in torn'
    BY <2>1, <2>2, <2>3, <2>4 DEF Live
  <2>5. NotEarly'
    BY <2>1, <2>4 DEF EarlyInv, NotEarly, Storing, Rearming, Live
  <2>6. ActiveInTime'
    BY <2>1, <2>4 DEF EarlyInv, ActiveInTime, InTime, Storing, Rearming, Live
  <2>7. \/ new' = NoStart
        \/ \E s \in Slots : /\ state'[s] = "INACTIVE"
                            /\ new' = [slot |-> s, name |-> n, start |-> ticks, done |-> {}]
    BY <1>4, <2>1 DEF Start, FirstFree
  <2>8. NewInTime'
    BY <2>1, <2>2, <2>7, ElapsedNow DEF NewInTime, InTime
  <2>9. QED
    BY <2>5, <2>6, <2>8 DEF EarlyInv
<1>5. ASSUME NEW n \in Names, Reset(n) PROVE EarlyInv'
  <2>1. /\ \A s \in Slots : state'[s] = "INACTIVE"
        /\ new' = NoStart /\ pc' = "main"
    BY <1>5 DEF Reset, NextOp
  <2>2. QED
    BY <2>1 DEF EarlyInv, NotEarly, ActiveInTime, NewInTime, Rearming
<1>6. CASE StoreState
  <2>1. /\ new # NoStart /\ new.slot \in Slots /\ "state" \notin new.done
        /\ UNCHANGED <<ticks, start, name, pc, i, age, torn>> /\ Stored("state")
        /\ state'[new.slot] = "ACTIVE" /\ pc # "activate"
        /\ \A s \in Slots \ {new.slot} : state'[s] = state[s] /\ ~Storing(s)
    BY <1>6 DEF StoreState, TypeOK, Storing, Book
  <2>2. CASE new' = NoStart
    <3>1. "fields" \in new.done
      BY <2>1, <2>2, StoredStep DEF NoStart, TypeOK
    <3>2. start[new.slot] = new.start /\ name[new.slot] = new.name
      BY <2>1, <3>1 DEF EarlyInv, NewInTime, Book
    <3>3. InTime(start[new.slot], name[new.slot])
      BY <2>1, <3>2 DEF EarlyInv, NewInTime
    <3>4. QED
      BY <2>1, <2>2, <3>3 DEF EarlyInv, NotEarly, ActiveInTime, NewInTime, InTime, Storing,
         Rearming
  <2>3. CASE new' # NoStart
    <3>1. /\ new'.slot = new.slot /\ new'.name = new.name /\ new'.start = new.start
          /\ new'.done = {"state"}
      BY <2>1, <2>3, StoredStep DEF TypeOK
    <3>2. QED
      BY <2>1, <2>3, <3>1 DEF EarlyInv, NotEarly, ActiveInTime, NewInTime, InTime, Storing,
         Rearming
  <2>4. QED
    BY <2>2, <2>3
<1>7. CASE StoreFields
  <2>1. /\ new # NoStart /\ new.slot \in Slots /\ "fields" \notin new.done
        /\ UNCHANGED <<ticks, state, pc, i, age, torn>> /\ Stored("fields")
        /\ start'[new.slot] = new.start /\ name'[new.slot] = new.name
        /\ pc # "activate"
        /\ \A s \in Slots \ {new.slot} :
             start'[s] = start[s] /\ name'[s] = name[s] /\ ~Storing(s)
    BY <1>7 DEF StoreFields, TypeOK, Storing, Book
  <2>2. InTime(new.start, new.name) /\ (state[new.slot] = "PENDING" => new.name \in torn)
    BY <2>1 DEF EarlyInv, NewInTime
  <2>3. CASE new' = NoStart
    BY <2>1, <2>2, <2>3 DEF EarlyInv, NotEarly, ActiveInTime, NewInTime, InTime, Storing,
       Rearming
  <2>4. CASE new' # NoStart
    <3>1. /\ new'.slot = new.slot /\ new'.name = new.name /\ new'.start = new.start
      BY <2>1, <2>4, StoredStep DEF TypeOK
    <3>2. QED
      BY <2>1, <2>2, <2>4, <3>1 DEF EarlyInv, NotEarly, ActiveInTime, NewInTime, InTime,
         Storing, Rearming
  <2>5. QED
    BY <2>3, <2>4
<1>8. CASE RearmTime
  <2>1. /\ new = NoStart /\ i \in Slots /\ Live(i) /\ name[i] \in Names
        /\ pc' = "activate" /\ UNCHANGED <<ticks, state, name, i, new>>
        /\ ticks \in 0 .. TickMod - 1
    BY <1>8 DEF RearmTime, Book, TypeOK, Storing
  <2>2. /\ start'[i] = ticks /\ \A s \in Slots \ {i} : start'[s] = start[s]
        /\ age'[name[i]] = 0 /\ \A n \in Names \ {name[i]} : age'[n] = age[n]
        /\ torn' = torn \ {name[i]}
    BY <1>8, <2>1 DEF RearmTime, TypeOK
  <2>3. \A s \in Slots \ {i} : Live(s) => name[s] \in Names \ {name[i]}
    BY <2>1 DEF UniqueInv, UniqueNames, Storing, Book
  <2>4. InTime(start[i], name[i])'
    BY <2>1, <2>2, ElapsedNow DEF InTime
  <2>5. ASSUME NEW s \in Slots \ {i}, Live(s)
        PROVE  /\ ~Storing(s) /\ ~Rearming(s) /\ start'[s] = start[s]
               /\ age'[name[s]] = age[name[s]]
               /\ name[s] \in torn => name[s] \in torn'
    BY <1>8, <2>1, <2>2, <2>3, <2>5 DEF Storing, Rearming
  <2>6. NotEarly'
    BY <2>1, <2>5 DEF EarlyInv, NotEarly, Live, Storing, Rearming
  <2>7. ActiveInTime'
    BY <2>1, <2>4, <2>5 DEF EarlyInv, ActiveInTime, InTime, Live, Storing, Rearming
  <2>8. QED
    BY <2>1, <2>6, <2>7 DEF EarlyInv, NewInTime
<1>9. CASE RearmState
  <2>1. /\ new = NoStart /\ i \in Slots /\ pc = "activate"
        /\ UNCHANGED <<ticks, start, name, new, age, torn>>
        /\ state'[i] = "ACTIVE" /\ \A s \in Slots \ {i} : state'[s] = state[s]
        /\ pc' # "activate"
    BY <1>9, AdvanceType DEF RearmState, Book, TypeOK
  <2>2. QED
    BY <2>1 DEF EarlyInv, NotEarly, ActiveInTime, NewInTime, InTime, Storing, Rearming
<1>10. CASE Expire
  <2>1. /\ new = NoStart /\ i \in Slots /\ pc # "activate"
        /\ UNCHANGED <<ticks, start, name, new, age, torn>>
        /\ state'[i] = "INACTIVE" /\ \A s \in Slots \ {i} : state'[s] = state[s]
        /\ pc' # "activate"
    BY <1>10, AdvanceType DEF Expire, Book, TypeOK
  <2>2. QED
    BY <2>1 DEF EarlyInv, NotEarly, ActiveInTime, NewInTime, InTime, Storing, Rearming
<1>11. CASE PollBegin
  BY <1>11, EarlyFrame DEF PollBegin
<1>12. CASE PollSkip
  BY <1>12, AdvanceType, EarlyFrame DEF PollSkip, TypeOK
<1>13. CASE PollCall
  BY <1>13, EarlyFrame DEF PollCall
<1>14. CASE PollReturn
  BY <1>14, AdvanceType, EarlyFrame DEF PollReturn, TypeOK
<1>15. CASE UNCHANGED vars
  BY <1>15 DEF vars, EarlyInv, NotEarly, ActiveInTime, NewInTime, InTime, Storing, Rearming
<1>16. QED
  BY <1>1, <1>2, <1>3, <1>4, <1>5, <1>6, <1>7, <1>8, <1>9, <1>10, <1>11, <1>12,
     <1>13, <1>14, <1>15 DEF Next

(* A timer is pending only after its whole interval, for any interval      *)
(* shorter than a turn of system_ticks, unless a tick hit its slot while   *)
(* app_timer_start was storing it.                                         *)
THEOREM PendingNotEarly == Spec => []NotEarly
<1>1. Init => EarlyInv
  BY DEF Init, EarlyInv, NotEarly, ActiveInTime, NewInTime, Rearming
<1>2. EarlyInv => NotEarly
  BY DEF EarlyInv
<1>3. Init => UniqueInv
  BY DEF Init, UniqueInv, UniqueNames, NewIsAlone, Live
<1>4. QED
  BY <1>1, <1>2, <1>3, TypeCorrect, NextUnique, NextEarly, PTL DEF Spec

(***************************************************************************)
(* No start is lost and no stopped timer comes back: the slots implement   *)
(* the set of timers that are on.  app_timer_poll ends the slot it is at   *)
(* when a single-shot timer's name is in it after its callback.  The       *)
(* callback may have freed this very slot, and a start may have filled it  *)
(* again: then only repeating timers can be in it.  There is a slot for    *)
(* every timer in use.                                                     *)
(***************************************************************************)
InUse ==
  /\ Touched(rest) \subseteq Used(mix)
  /\ new # NoStart => new.name \in Used(mix)
  /\ \A s \in Slots : Live(s) /\ ~Storing(s) => name[s] \in Used(mix)

Own == Live(i) /\ ~Storing(i) /\ name[i] = running

Recycled ==
  /\ Begun(rest) \subseteq Repeat
  /\ new # NoStart => new.name \in Repeat
  /\ Live(i) /\ ~Storing(i) => name[i] \in Repeat

InCallback ==
  pc = "callback" =>
    /\ running \in Touched(rest) => Begun(rest) \subseteq Repeat
    /\ Own \/ Recycled

HalfStored == new # NoStart /\ "state" \in new.done => Live(new.slot)

SlotInv == InUse /\ InCallback /\ HalfStored

(* What is left of a script names and starts no other timers.              *)
LEMMA TailTouched ==
  ASSUME NEW script \in Seq(Ops), script # <<>>
  PROVE  /\ Touched(Tail(script)) \subseteq Touched(script)
         /\ Begun(Tail(script)) \subseteq Begun(script)
         /\ Head(script).name \in Touched(script)
         /\ Head(script).op = "start" => Head(script).name \in Begun(script)
<1>1. /\ 1 \in DOMAIN script /\ Head(script) = script[1]
      /\ \A k \in DOMAIN Tail(script) : k + 1 \in DOMAIN script /\ Tail(script)[k] = script[k + 1]
  OBVIOUS
<1>2. QED
  BY <1>1 DEF Touched, Begun

(* A mix uses the timers that its scripts name.                            *)
LEMMA ScriptsUsed ==
  ASSUME NEW mx \in Mixes
  PROVE  /\ Touched(BootScript[mx]) \subseteq Used(mx)
         /\ \A script \in HandlerScripts[mx] : Touched(script) \subseteq Used(mx)
         /\ \A n \in Names : \A script \in CallbackScripts[mx][n] :
              Touched(script) \subseteq Used(mx)
BY DEF Used

LEMMA NothingTouched == Touched(<<>>) = {} /\ Begun(<<>>) = {}
BY DEF Touched, Begun

(* The smallest of a set of slots.                                         *)
LEMMA Smallest ==
  ASSUME NEW S \in SUBSET Slots, S # {}
  PROVE  \E s \in S : \A t \in S : s <= t
<1> DEFINE Less == {ss \in Nat \X Nat : ss[1] < ss[2]}
<1>1. IsWellFoundedOn(Less, Nat)
  BY NatLessThanWellFounded, Zenon DEF OpToRel
<1>2. S \subseteq Nat
  BY TimerAssumption DEF Slots
<1>3. \E s \in S : \A t \in S : <<t, s>> \notin Less
  <2> HIDE DEF Less
  <2>1. QED
    BY <1>1, <1>2, WFMin, Zenon
<1>4. PICK s \in S : \A t \in S : <<t, s>> \notin Less
  BY <1>3
<1>5. \A t \in S : ~(t < s)
  BY <1>2, <1>4
<1>6. QED
  BY <1>2, <1>5

(* There is a slot for a timer in use that has none: the names of the live *)
(* slots are different, and they are the other timers in use.              *)
LEMMA PoolSuffices ==
  ASSUME TypeOK, UniqueNames, InUse, new = NoStart, NEW n \in Used(mix)
  PROVE  \E s \in Slots : Stopped(n)[s] = "INACTIVE"
<1> DEFINE Others == Used(mix) \ {n}
           Held == [s \in Slots |-> name[s]]
<1>1. SUFFICES ASSUME \A s \in Slots : Stopped(n)[s] # "INACTIVE" PROVE FALSE
  OBVIOUS
<1>2. \A s \in Slots : Live(s) /\ ~Storing(s) /\ name[s] # n
  BY <1>1 DEF Stopped, Named, Live, Storing
<1>3. Held \in [Slots -> Others]
  BY <1>2 DEF InUse
<1>4. IsFiniteSet(Slots) /\ Cardinality(Slots) = MAX_SOFT_TIMERS
  <2>1. 0 \in Int /\ MAX_SOFT_TIMERS - 1 \in Int /\ MAX_SOFT_TIMERS \in Nat
        /\ MAX_SOFT_TIMERS - 1 - 0 + 1 = MAX_SOFT_TIMERS /\ ~(0 > MAX_SOFT_TIMERS - 1)
    BY TimerAssumption
  <2>2. QED
    BY <2>1, FS_Interval DEF Slots
<1>5. IsFiniteSet(Used(mix)) /\ Cardinality(Used(mix)) <= MAX_SOFT_TIMERS
  BY CallerAssumption DEF TypeOK
<1>6. IsFiniteSet(Others) /\ Cardinality(Others) = Cardinality(Used(mix)) - 1
  BY <1>5, FS_RemoveElement
<1>7. Cardinality(Used(mix)) \in Nat
  BY <1>5, FS_CardinalityType
<1>8. Cardinality(Others) < Cardinality(Slots)
  BY <1>4, <1>5, <1>6, <1>7, TimerAssumption
<1>9. \E s, t \in Slots : s # t /\ Held[s] = Held[t]
  <2> HIDE DEF Held, Others
  <2>1. QED
    BY <1>3, <1>4, <1>6, <1>8, FS_PigeonHole
<1>10. QED
  BY <1>2, <1>9 DEF UniqueNames

(* The steps that leave slots, starts and scripts alone, outside of a      *)
(* callback.                                                               *)
LEMMA SlotFrame ==
  ASSUME SlotInv, UNCHANGED <<mix, name, new>>, Touched(rest') \subseteq Used(mix),
         pc' # "callback", \A s \in Slots : Live(s)' => Live(s),
         \A s \in Slots : Stays(s)' = Stays(s),
         new # NoStart => new.slot \in Slots /\ Live(new.slot)' = Live(new.slot)
  PROVE  SlotInv' /\ On' = On
<1>1. \A s \in Slots : Storing(s)' = Storing(s)
  BY DEF Storing
<1>2. InUse'
  BY <1>1 DEF SlotInv, InUse
<1>3. InCallback'
  BY DEF InCallback
<1>4. HalfStored'
  BY DEF SlotInv, HalfStored
<1>5. \A n \in Names : HasSlot(n)' = HasSlot(n)
  BY DEF HasSlot
<1>6. On' = On
  BY <1>5 DEF On
<1>7. QED
  BY <1>2, <1>3, <1>4, <1>6 DEF SlotInv

LEMMA StopOff ==
  ASSUME TypeOK, Book, UniqueInv, SlotInv, NEW n \in Names, Stop(n)
  PROVE  SlotInv' /\ On' = On \ {n}
<1>1. /\ new = NoStart /\ rest # <<>> /\ Head(rest).name = n /\ rest' = Tail(rest)
      /\ rest \in Seq(Ops)
      /\ UNCHANGED <<mix, name, pc, i, new, running>>
  BY DEF Stop, NextOp, TypeOK
<1>2. \A s \in Slots : /\ Live(s)' <=> Live(s) /\ name[s] # n
                       /\ ~Storing(s) /\ ~Storing(s)'
  BY <1>1 DEF Stop, Stopped, Named, Live, Storing
<1>3. /\ Touched(rest') \subseteq Touched(rest) /\ Begun(rest') \subseteq Begun(rest)
      /\ n \in Touched(rest)
  BY <1>1, TailTouched
<1>4. i \in Slots
  BY DEF TypeOK
<1>5. InUse'
  BY <1>1, <1>2, <1>3 DEF SlotInv, InUse
<1>6. InCallback'
  <2> SUFFICES ASSUME pc = "callback"
               PROVE  /\ running \in Touched(rest') => Begun(rest') \subseteq Repeat
                      /\ Own' \/ Recycled'
    BY <1>1 DEF InCallback
  <2>1. CASE Own /\ n # running
    BY <2>1, <1>1, <1>2, <1>3, <1>4 DEF SlotInv, InCallback, Own
  <2>2. CASE Own /\ n = running
    BY <2>2, <1>1, <1>2, <1>3, <1>4 DEF SlotInv, InCallback, Own, Recycled
  <2>3. CASE Recycled
    BY <2>3, <1>1, <1>2, <1>3, <1>4 DEF Recycled
  <2>4. QED
    BY <2>1, <2>2, <2>3 DEF SlotInv, InCallback
<1>7. HalfStored'
  BY <1>1 DEF HalfStored
<1>8. \A s \in Slots : Stays(s)' <=> Stays(s) /\ name[s] # n
  BY <1>1, <1>2 DEF Stays, Ending
<1>9. \A m \in Names : HasSlot(m)' <=> HasSlot(m) /\ m # n
  BY <1>1, <1>8 DEF HasSlot
<1>10. On' = On \ {n}
  BY <1>9 DEF On
<1>11. QED
  BY <1>5, <1>6, <1>7, <1>10 DEF SlotInv

LEMMA StartOn ==
  ASSUME TypeOK, Book, UniqueInv, SlotInv, NEW n \in Names, Start(n)
  PROVE  SlotInv' /\ On' = On \cup {n}
<1>1. /\ new = NoStart /\ rest # <<>> /\ Head(rest).name = n /\ Head(rest).op = "start"
      /\ rest' = Tail(rest) /\ rest \in Seq(Ops)
      /\ state' = Stopped(n)
      /\ UNCHANGED <<mix, name, pc, i, running>>
  BY DEF Start, NextOp, TypeOK
<1>2. \A s \in Slots : (Live(s)' <=> Live(s) /\ name[s] # n) /\ ~Storing(s)
  BY <1>1 DEF Stopped, Named, Live, Storing
<1>3. /\ Touched(rest') \subseteq Touched(rest) /\ Begun(rest') \subseteq Begun(rest)
      /\ n \in Touched(rest) /\ n \in Begun(rest)
  BY <1>1, TailTouched
<1>4. i \in Slots
  BY DEF TypeOK
<1>5. n \in Used(mix)
  BY <1>3 DEF SlotInv, InUse
<1>6. FirstFree(state') # {}
  <2>1. \E s \in Slots : state'[s] = "INACTIVE"
    BY <1>1, <1>5, PoolSuffices DEF SlotInv, UniqueInv
  <2>2. {s \in Slots : state'[s] = "INACTIVE"} # {}
    BY <2>1
  <2>3. \E s \in {t \in Slots : state'[t] = "INACTIVE"} :
          \A t \in {u \in Slots : state'[u] = "INACTIVE"} : s <= t
    BY <2>2, Smallest
  <2>4. QED
    BY <2>3 DEF FirstFree
<1>7. PICK free \in Slots : /\ state'[free] = "INACTIVE"
                            /\ new' = [slot |-> free, name |-> n, start |-> ticks, done |-> {}]
  BY <1>6 DEF Start, FirstFree
<1>8. /\ new' # NoStart /\ new'.name = n /\ new'.slot = free /\ new'.done = {}
  BY <1>7, TimerAssumption DEF NoStart
<1>9. \A s \in Slots : Live(s)' => ~Storing(s)'
  BY <1>7, <1>8 DEF Storing, Live
<1>10. InUse'
  BY <1>1, <1>2, <1>3, <1>5, <1>8 DEF SlotInv, InUse
<1>11. InCallback'
  <2> SUFFICES ASSUME pc = "callback"
               PROVE  /\ running \in Touched(rest') => Begun(rest') \subseteq Repeat
                      /\ Own' \/ Recycled'
    BY <1>1 DEF InCallback
  <2>1. CASE Own /\ n # running
    BY <2>1, <1>1, <1>2, <1>3, <1>4, <1>9 DEF SlotInv, InCallback, Own
  <2>2. CASE Own /\ n = running
    BY <2>2, <1>1, <1>2, <1>3, <1>4, <1>8 DEF SlotInv, InCallback, Own, Recycled
  <2>3. CASE Recycled
    BY <2>3, <1>1, <1>2, <1>3, <1>4, <1>8 DEF Recycled
  <2>4. QED
    BY <2>1, <2>2, <2>3 DEF SlotInv, InCallback
<1>12. HalfStored'
  BY <1>8 DEF HalfStored
<1>13. \A s \in Slots : Stays(s)' <=> Stays(s) /\ name[s] # n
  BY <1>1, <1>2, <1>9 DEF Stays, Ending
<1>14. \A m \in Names : HasSlot(m)' <=> HasSlot(m) \/ m = n
  BY <1>1, <1>8, <1>13 DEF HasSlot
<1>15. On' = On \cup {n}
  BY <1>14 DEF On
<1>16. QED
  BY <1>10, <1>11, <1>12, <1>15 DEF SlotInv

(* A start that is being stored in the slot that app_timer_poll is at is   *)
(* the start of a repeating timer.                                         *)
LEMMA StoredStays ==
  ASSUME SlotInv, Book, new # NoStart, new.slot = i
  PROVE  pc = "callback" => Recycled /\ new.name \in Repeat
BY DEF SlotInv, InCallback, Own, Recycled, Storing

LEMMA StoreKeeps ==
  ASSUME TypeOK, Book, UniqueInv, SlotInv, StoreState \/ StoreFields
  PROVE  SlotInv' /\ On' = On
<1>0. PICK at \in Slots : at = new.slot
  BY DEF TypeOK
<1>1. /\ new # NoStart /\ at = new.slot /\ new.name \in Names /\ pc \in {"main", "callback"}
      /\ UNCHANGED <<mix, pc, i, rest, running>> /\ i \in Slots
  BY <1>0 DEF StoreState, StoreFields, Book, TypeOK, ghosts
<1>2. \A s \in Slots \ {at} : /\ Live(s)' = Live(s) /\ name'[s] = name[s]
                              /\ ~Storing(s) /\ ~Storing(s)'
  <2>1. \A s \in Slots \ {at} : Live(s)' = Live(s) /\ name'[s] = name[s] /\ ~Storing(s)
    BY <1>1 DEF StoreState, StoreFields, TypeOK, Live, Storing
  <2>2. new' = NoStart \/ new'.slot = at
    BY <1>1, StoredStep DEF StoreState, StoreFields, TypeOK
  <2>3. QED
    BY <2>1, <2>2 DEF Storing
<1>3. CASE new' = NoStart
  <2>1. Live(at)' /\ name'[at] = new.name
    <3>1. CASE StoreState
      <4>1. "fields" \in new.done
        BY <3>1, <1>3, StoredStep DEF StoreState, NoStart, TypeOK
      <4>2. state'[at] = "ACTIVE" /\ name' = name
        BY <3>1, <1>1 DEF StoreState, TypeOK
      <4>3. QED
        BY <1>1, <4>1, <4>2 DEF Book, Live
    <3>2. CASE StoreFields
      <4>1. "state" \in new.done
        BY <3>2, <1>3, StoredStep DEF StoreFields, NoStart, TypeOK
      <4>2. name'[at] = new.name /\ state' = state
        BY <3>2, <1>1 DEF StoreFields, TypeOK
      <4>3. QED
        BY <1>1, <4>1, <4>2 DEF SlotInv, HalfStored, Live
    <3>3. QED
      BY <3>1, <3>2
  <2>2. ~Storing(at)' /\ Storing(at)
    BY <1>1, <1>3 DEF Storing
  <2>3. at = i => ~Ending(at)'
    BY <1>1, <2>1, StoredStays DEF Ending
  <2>4. Stays(at)' /\ ~Stays(at)
    BY <2>1, <2>2, <2>3, <1>1 DEF Stays, Ending
  <2>5. \A s \in Slots \ {at} : Stays(s)' = Stays(s)
    BY <1>1, <1>2 DEF Stays, Ending
  <2>6. \A n \in Names : HasSlot(n)' = HasSlot(n)
    BY <1>1, <1>2, <1>3, <2>1, <2>4, <2>5 DEF HasSlot
  <2>7. On' = On
    BY <2>6 DEF On
  <2>8. InUse'
    BY <1>1, <1>2, <1>3, <2>1 DEF SlotInv, InUse
  <2>9. InCallback'
    <3>1. CASE at = i
      BY <3>1, <1>1, <1>3, <2>1, StoredStays DEF SlotInv, InCallback, Recycled
    <3>2. CASE at # i
      BY <3>2, <1>1, <1>2, <1>3 DEF SlotInv, InCallback, Recycled, Own
    <3>3. QED
      BY <3>1, <3>2
  <2>10. HalfStored'
    BY <1>3 DEF HalfStored
  <2>11. QED
    BY <2>7, <2>8, <2>9, <2>10 DEF SlotInv
<1>4. CASE new' # NoStart
  <2>1. new'.slot = at /\ new'.name = new.name
    <3>1. PICK half \in {"state", "fields"} : half \notin new.done /\ Stored(half)
      BY DEF StoreState, StoreFields
    <3>2. new' = [new EXCEPT !.done = {half}]
      BY <1>4, <3>1, StoredStep
    <3>3. QED
      BY <1>1, <3>2 DEF TypeOK
  <2>2. Storing(at) /\ Storing(at)'
    BY <1>1, <1>4, <2>1 DEF Storing
  <2>3. \A s \in Slots : Stays(s)' = Stays(s) /\ (Stays(s) => name'[s] = name[s])
    BY <1>1, <1>2, <2>2 DEF Stays, Ending
  <2>4. \A n \in Names : HasSlot(n)' = HasSlot(n)
    BY <1>1, <1>4, <2>1, <2>3 DEF HasSlot
  <2>5. On' = On
    BY <2>4 DEF On
  <2>6. InUse'
    BY <1>1, <1>2, <1>4, <2>1, <2>2 DEF SlotInv, InUse
  <2>7. InCallback'
    <3>1. CASE at = i
      BY <3>1, <1>1, <2>1, <2>2, StoredStays DEF SlotInv, InCallback, Recycled
    <3>2. CASE at # i
      BY <3>2, <1>1, <1>2, <1>4, <2>1 DEF SlotInv, InCallback, Recycled, Own
    <3>3. QED
      BY <3>1, <3>2
  <2>8. HalfStored'
    <3>1. CASE StoreState
      BY <3>1, <1>1, <2>1 DEF StoreState, HalfStored, Live, TypeOK
    <3>2. CASE StoreFields
      <4>1. new' = [new EXCEPT !.done = {"fields"}]
        BY <3>2, <1>4, StoredStep DEF StoreFields
      <4>2. QED
        BY <4>1 DEF HalfStored, TypeOK
    <3>3. QED
      BY <3>1, <3>2
  <2>9. QED
    BY <2>5, <2>6, <2>7, <2>8 DEF SlotInv
<1>5. QED
  BY <1>3, <1>4

(* The callback of a single-shot timer is the end of it; no other slot has *)
(* its name.                                                               *)
LEMMA CallOn ==
  ASSUME TypeOK, Book, UniqueInv, SlotInv, PollCall
  PROVE  /\ SlotInv' /\ name[i] \in On
         /\ On' = IF name[i] \in Repeat THEN On ELSE On \ {name[i]}
<1>1. /\ pc = "poll" /\ pc' = "callback" /\ new = NoStart /\ i \in Slots
      /\ UNCHANGED <<mix, state, name, i, new>> /\ running' = name[i]
  BY DEF PollCall, Book, TypeOK, slots
<1>2. \A s \in Slots : /\ Live(s)' = Live(s) /\ ~Storing(s) /\ ~Storing(s)'
                       /\ Live(s) => name[s] \in Names
  BY <1>1 DEF Live, Storing, Book
<1>3. Live(i)
  BY DEF PollCall, Live
<1>4. mix \in Mixes /\ name[i] \in Names /\ rest' \in CallbackScripts[mix][name[i]]
  BY <1>1, <1>2, <1>3 DEF PollCall, TypeOK
<1>5. Touched(rest') \subseteq Used(mix)
  BY <1>4, ScriptsUsed
<1>6. InUse'
  BY <1>1, <1>2, <1>5 DEF SlotInv, InUse
<1>7. name[i] \in Touched(rest') => Begun(rest') \subseteq Repeat
  BY <1>4, CallerAssumption
<1>8. InCallback'
  BY <1>1, <1>2, <1>3, <1>7 DEF InCallback, Own
<1>9. HalfStored'
  BY <1>1 DEF HalfStored
<1>10. \A s \in Slots : Stays(s)' <=> Stays(s) /\ (s = i => name[i] \in Repeat)
  BY <1>1, <1>2 DEF Stays, Ending
<1>11. \A s \in Slots \ {i} : Live(s) => name[s] # name[i]
  BY <1>1, <1>2, <1>3 DEF UniqueInv, UniqueNames
<1>12. \A n \in Names : HasSlot(n)' <=> HasSlot(n) /\ (n = name[i] => name[i] \in Repeat)
  BY <1>1, <1>10, <1>11 DEF HasSlot, Stays
<1>13. On' = IF name[i] \in Repeat THEN On ELSE On \ {name[i]}
  BY <1>4, <1>12 DEF On
<1>14. name[i] \in On
  BY <1>1, <1>2, <1>3, <1>4 DEF On, HasSlot, Stays, Ending
<1>15. QED
  BY <1>6, <1>8, <1>9, <1>13, <1>14 DEF SlotInv

(* A callback runs exactly while the poll waits for it.                    *)
Calling == pc = "callback" <=> running # NoName

LEMMA NextCalling == TypeOK /\ Book /\ Calling /\ [Next]_vars => Calling'
<1> SUFFICES ASSUME TypeOK, Book, Calling, [Next]_vars PROVE Calling'
  OBVIOUS
<1>1. CASE PollCall
  <2>1. name[i] # NoName
    BY <1>1, TimerAssumption DEF PollCall, Book, TypeOK, Live, Storing
  <2>2. QED
    BY <1>1, <2>1 DEF PollCall, Calling
<1>2. CASE PollSkip \/ PollReturn
  BY <1>2, AdvanceType DEF PollSkip, PollReturn, Calling, TypeOK, ghosts
<1>3. CASE RearmState \/ Expire
  BY <1>3, AdvanceType DEF RearmState, Expire, Calling, TypeOK, ghosts
<1>4. CASE PollBegin \/ RearmTime
  BY <1>4 DEF PollBegin, RearmTime, Calling, ghosts
<1>5. CASE \/ Tick \/ StoreState \/ StoreFields \/ UNCHANGED vars
           \/ \E script \in HandlerScripts[mix] : Handle(script)
           \/ \E n \in Names : Stop(n) \/ Start(n) \/ Reset(n)
  BY <1>5 DEF Tick, StoreState, StoreFields, Handle, Stop, Start, Reset, Calling, vars, ghosts
<1>6. QED
  BY <1>1, <1>2, <1>3, <1>4, <1>5 DEF Next

(* A step that changes neither the timers that are on nor what the running *)
(* callback or handler will do is no step of the set of timers.            *)
LEMMA Stutter ==
  ASSUME On' = On, UNCHANGED <<mix, running, rest>>
  PROVE  [Timers!Next]_(Timers!vars)
BY DEF Timers!vars

(* What every step does to the slots, and to the set of timers.            *)
LEMMA NextTimers ==
  TypeOK /\ Book /\ UniqueInv /\ SlotInv /\ Calling /\ [Next]_vars
    => SlotInv' /\ [Timers!Next]_(Timers!vars)
<1> SUFFICES ASSUME TypeOK, Book, UniqueInv, SlotInv, Calling, [Next]_vars
             PROVE  SlotInv' /\ [Timers!Next]_(Timers!vars)
  OBVIOUS
<1> USE DEF slots, ghosts
<1>1. CASE Tick
  <2>1. /\ UNCHANGED <<mix, name, pc, i, rest, new, running>>
        /\ \A s \in Slots : Live(s)' = Live(s)
        /\ i \in Slots /\ new.slot \in Slots
    BY <1>1, TickLive DEF Tick, TypeOK
  <2>2. \A s \in Slots : Storing(s)' = Storing(s) /\ Stays(s)' = Stays(s)
    BY <2>1 DEF Storing, Stays, Ending
  <2>3. InUse' /\ HalfStored'
    BY <2>1, <2>2 DEF SlotInv, InUse, HalfStored
  <2>4. InCallback'
    BY <2>1, <2>2 DEF SlotInv, InCallback, Own, Recycled
  <2>5. On' = On
    BY <2>1, <2>2 DEF On, HasSlot
  <2>6. QED
    BY <2>1, <2>3, <2>4, <2>5, Stutter DEF SlotInv
<1>2. ASSUME NEW script \in HandlerScripts[mix], Handle(script)
      PROVE  SlotInv' /\ [Timers!Next]_(Timers!vars)
  <2>1. Touched(rest') \subseteq Used(mix)
    BY <1>2, ScriptsUsed DEF Handle, TypeOK
  <2>2. SlotInv' /\ On' = On
    BY <1>2, <2>1, SlotFrame DEF Handle, Stays, Ending, Live, Storing
  <2>3. Timers!Handle(script)
    BY <1>2, <2>2 DEF Handle, Calling, Timers!Handle
  <2>4. QED
    BY <2>2, <2>3 DEF Timers!Next
<1>3. ASSUME NEW n \in Names, Stop(n) PROVE SlotInv' /\ [Timers!Next]_(Timers!vars)
  <2>1. SlotInv' /\ On' = On \ {n}
    BY <1>3, StopOff
  <2>2. Timers!Stop(n)
    BY <1>3, <2>1 DEF Stop, NextOp, Timers!Stop, Timers!Does
  <2>3. QED
    BY <2>1, <2>2 DEF Timers!Next
<1>4. ASSUME NEW n \in Names, Start(n) PROVE SlotInv' /\ [Timers!Next]_(Timers!vars)
  <2>1. SlotInv' /\ On' = On \cup {n}
    BY <1>4, StartOn
  <2>2. Timers!Start(n)
    BY <1>4, <2>1 DEF Start, NextOp, Timers!Start, Timers!Does
  <2>3. QED
    BY <2>1, <2>2 DEF Timers!Next
<1>5. ASSUME NEW n \in Names, Reset(n) PROVE SlotInv' /\ [Timers!Next]_(Timers!vars)
  <2>1. /\ \A s \in Slots : ~Live(s)'
        /\ new' = NoStart /\ pc' = "main"
    BY <1>5 DEF Reset, NextOp, Live
  <2>2. Touched(rest') \subseteq Used(mix')
    BY <1>5, ScriptsUsed DEF Reset, TypeOK
  <2>3. On' = {}
    BY <2>1 DEF On, HasSlot, Stays
  <2>4. Timers!Reset(n)
    BY <1>5, <2>3 DEF Reset, NextOp, Timers!Reset, Timers!Does
  <2>5. QED
    BY <2>1, <2>2, <2>4 DEF SlotInv, InUse, InCallback, HalfStored, Timers!Next
<1>6. CASE StoreState \/ StoreFields
  BY <1>6, StoreKeeps, Stutter DEF StoreState, StoreFields
<1>7. CASE PollBegin
  <2>1. SlotInv' /\ On' = On
    BY <1>7, SlotFrame DEF PollBegin, Stays, Ending, Live, Storing, SlotInv, InUse
  <2>2. QED
    BY <1>7, <2>1, Stutter DEF PollBegin
<1>8. CASE PollSkip
  <2>1. /\ pc = "poll" /\ pc' \in {"main", "poll"}
        /\ UNCHANGED <<mix, slots, rest, new, running>> /\ new = NoStart
    BY <1>8, AdvanceType DEF PollSkip, TypeOK, Book
  <2>2. SlotInv' /\ On' = On
    BY <2>1, SlotFrame DEF Stays, Ending, Live, Storing, SlotInv, InUse
  <2>3. QED
    BY <2>1, <2>2, Stutter
<1>9. CASE PollCall
  <2>1. /\ SlotInv' /\ name[i] \in On
        /\ On' = IF name[i] \in Repeat THEN On ELSE On \ {name[i]}
    BY <1>9, CallOn
  <2>2. /\ rest = <<>> /\ running = NoName /\ running' = name[i] /\ UNCHANGED mix
        /\ rest' \in CallbackScripts[mix][name[i]]
    BY <1>9 DEF PollCall, Book, Calling
  <2>3. Timers!Call(name[i]) /\ name[i] \in Names
    BY <2>1, <2>2 DEF Timers!Call, On
  <2>4. QED
    BY <2>1, <2>3 DEF Timers!Next
<1>10. CASE PollReturn
  <2>1. /\ pc = "callback" /\ new = NoStart /\ i \in Slots
        /\ UNCHANGED <<mix, slots, rest, new>>
        /\ \/ pc' = "rearm" /\ i' = i
           \/ ~Live(i) /\ pc' \in {"main", "poll"}
    BY <1>10, AdvanceType DEF PollReturn, TypeOK
  <2>2. \A s \in Slots : Stays(s)' = Stays(s)
    BY <2>1 DEF Stays, Ending, Live, Storing
  <2>3. SlotInv' /\ On' = On
    BY <2>1, <2>2, SlotFrame DEF Live, SlotInv, InUse
  <2>4. Timers!Return
    BY <1>10, <2>1, <2>3 DEF PollReturn, Calling, Timers!Return
  <2>5. QED
    BY <2>3, <2>4 DEF Timers!Next
<1>11. CASE RearmTime
  <2>1. \A s \in Slots : Stays(s)' = Stays(s)
    BY <1>11 DEF RearmTime, Stays, Ending, Live, Storing
  <2>2. new = NoStart
    BY <1>11 DEF RearmTime, Book
  <2>3. SlotInv' /\ On' = On
    BY <1>11, <2>1, <2>2, SlotFrame DEF RearmTime, Live, SlotInv, InUse
  <2>4. QED
    BY <1>11, <2>3, Stutter DEF RearmTime
<1>12. CASE RearmState
  <2>1. /\ pc = "activate" /\ pc' \in {"main", "poll"} /\ i \in Slots /\ Live(i)
        /\ new = NoStart /\ UNCHANGED <<mix, name, rest, new, running>>
        /\ state' = [state EXCEPT ![i] = "ACTIVE"]
    BY <1>12, AdvanceType DEF RearmState, TypeOK, Book
  <2>2. \A s \in Slots : Live(s)' = Live(s)
    BY <2>1 DEF Live, TypeOK
  <2>3. \A s \in Slots : Stays(s)' = Stays(s)
    BY <2>1, <2>2 DEF Stays, Ending, Storing
  <2>4. SlotInv' /\ On' = On
    BY <2>1, <2>2, <2>3, SlotFrame DEF SlotInv, InUse
  <2>5. QED
    BY <2>1, <2>4, Stutter
<1>13. CASE Expire
  <2>1. /\ pc = "rearm" /\ name[i] \notin Repeat /\ pc' \in {"main", "poll"} /\ i \in Slots
        /\ new = NoStart /\ UNCHANGED <<mix, name, rest, new, running>>
        /\ state' = [state EXCEPT ![i] = "INACTIVE"]
    BY <1>13, AdvanceType DEF Expire, TypeOK, Book
  <2>2. \A s \in Slots : Live(s)' <=> Live(s) /\ s # i
    BY <2>1 DEF Live, TypeOK
  <2>3. \A s \in Slots : Stays(s)' <=> Stays(s)
    BY <2>1, <2>2 DEF Stays, Ending, Storing
  <2>4. Touched(rest') \subseteq Used(mix) /\ pc' # "callback"
    BY <2>1 DEF SlotInv, InUse
  <2>5. \A s \in Slots : (Live(s)' => Live(s)) /\ Stays(s)' = Stays(s)
    BY <2>2, <2>3 DEF Stays
  <2>6. SlotInv' /\ On' = On
    BY <2>1, <2>4, <2>5, SlotFrame
  <2>7. QED
    BY <2>1, <2>6, Stutter
<1>14. CASE UNCHANGED vars
  BY <1>14 DEF vars, SlotInv, InUse, InCallback, Own, Recycled, HalfStored, On, HasSlot,
     Stays, Ending, Live, Storing, Timers!vars
<1>15. QED
  BY <1>1, <1>2, <1>3, <1>4, <1>5, <1>6, <1>7, <1>8, <1>9, <1>10, <1>11, <1>12,
     <1>13, <1>14 DEF Next

(* The pool implements the set of timers: a timer is on from its start to  *)
(* its stop or its last call, if there is a slot for every timer in use    *)
(* and no callback that touches its own timer starts a single-shot one.    *)
THEOREM PoolIsTimerSet == Spec => ImplementsTimerSet
<1>1. Init => Timers!Init /\ SlotInv /\ UniqueInv /\ Calling
  <2> SUFFICES ASSUME Init PROVE Timers!Init /\ SlotInv /\ UniqueInv /\ Calling
    OBVIOUS
  <2>1. SlotInv
    BY ScriptsUsed DEF Init, SlotInv, InUse, InCallback, HalfStored, Live
  <2>2. UniqueInv /\ Calling
    BY DEF Init, UniqueInv, UniqueNames, NewIsAlone, Live, Calling
  <2>3. On = {}
    BY DEF Init, On, HasSlot, Stays, Live
  <2>4. QED
    BY <2>1, <2>2, <2>3 DEF Init, Timers!Init
<1>2. QED
  BY <1>1, TypeCorrect, NextUnique, NextCalling, NextTimers, PTL
     DEF Spec, ImplementsTimerSet, Timers!Spec
=============================================================================
