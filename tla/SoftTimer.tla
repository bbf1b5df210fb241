----------------------------- MODULE SoftTimer -----------------------------
(***************************************************************************)
(* app_timer.c: the pool of software timers.                               *)
(*                                                                         *)
(* TIMER6 interrupts the superloop every millisecond and marks the active  *)
(* timers whose interval is over; app_timer_poll, in the superloop, calls  *)
(* their callbacks and re-arms them.  Callbacks and event handlers start   *)
(* and stop timers by name.  An interrupt is one step; it may arrive       *)
(* between any two steps of the superloop.                                 *)
(*                                                                         *)
(* Every name is always started with the same interval, repeat flag and    *)
(* callback, so these fields of a slot are the ones of name[s].  No caller *)
(* passes a null callback, a zero interval, an empty or a long name: those *)
(* early returns of start and stop are left out.  A null callback check    *)
(* and app_timer_is_active, which nothing calls, are left out too.         *)
(***************************************************************************)
EXTENDS Integers, Sequences, FiniteSets

CONSTANTS Names,            (* timer names in use                          *)
          NoName,           (* a slot never used                           *)
          MAX_SOFT_TIMERS,
          TickMod,          (* values of system_ticks: 2^32                *)
          Interval,         (* interval_ms of each name                    *)
          Repeat,           (* the names started with repeat = true        *)
          Mixes,            (* groups of timers: a behaviour uses one      *)
          BootScript,       (* what main() does before the superloop       *)
          CallbackScripts,  (* what the callback of each name may do       *)
          HandlerScripts    (* what event handlers may do                  *)

Ops == [op : {"start", "stop", "reset"}, name : Names]

ASSUME TimerAssumption ==
  /\ NoName \notin Names
  /\ MAX_SOFT_TIMERS \in Nat \ {0}
  /\ TickMod \in Nat \ {0}
  /\ Interval \in [Names -> 1 .. TickMod - 1]
  /\ Repeat \subseteq Names
  /\ BootScript \in [Mixes -> Seq(Ops)]
  /\ CallbackScripts \in [Mixes -> [Names -> SUBSET Seq(Ops)]]
  /\ HandlerScripts \in [Mixes -> SUBSET Seq(Ops)]

\* The timers that a script names, and those it starts.
Touched(script) == {script[k].name : k \in DOMAIN script}
Begun(script) == {script[k].name : k \in {j \in DOMAIN script : script[j].op = "start"}}

\* The timers in use in a mix.
Used(mx) ==
  UNION {Touched(s) : s \in {BootScript[mx]} \cup HandlerScripts[mx]
                              \cup UNION {CallbackScripts[mx][n] : n \in Names}}

(* What the firmware's callers keep to: there is a slot for every timer;   *)
(* and a callback that stops or restarts its own timer starts only         *)
(* repeating ones, because one of these may get the slot that              *)
(* app_timer_poll is at, which would end a single-shot timer.              *)
ASSUME CallerAssumption ==
  \A mx \in Mixes :
    /\ IsFiniteSet(Used(mx)) /\ Cardinality(Used(mx)) <= MAX_SOFT_TIMERS
    /\ \A n \in Names : \A s \in CallbackScripts[mx][n] :
         n \in Touched(s) => Begun(s) \subseteq Repeat

Slots == 0 .. MAX_SOFT_TIMERS - 1

VARIABLES
  mix,      (* the group of timers in use                                  *)
  ticks,    (* system_ticks                                                *)
  state,    (* state of each slot                                          *)
  start,    (* start_time of each slot                                     *)
  name,     (* whose repeat, interval, callback and name a slot holds      *)
  pc,       (* where the superloop is                                      *)
  i,        (* index of app_timer_poll                                     *)
  rest,     (* operations the running handler or callback will still do    *)
  new,      (* the app_timer_start that is storing its slot                *)
  running,  (* history: the timer whose callback was called                *)
  age,      (* history: ticks since the timer was started or re-armed      *)
  torn      (* history: timers a tick hit while their slot was half stored *)

slots == <<state, start, name>>
ghosts == <<running, age, torn>>
vars == <<mix, ticks, slots, pc, i, rest, new, ghosts>>

NoStart == [slot |-> 0, name |-> NoName, start |-> 0, done |-> {}]

Live(s) == state[s] # "INACTIVE"

\* find_timer_by_name, as the set of what it may find.
Named(n) == {s \in Slots : Live(s) /\ name[s] = n}

\* find_free_timer: the first slot that is inactive in the given states.
FirstFree(st) == {s \in Slots : /\ st[s] = "INACTIVE"
                                /\ \A t \in Slots : st[t] = "INACTIVE" => s <= t}

\* What app_timer_stop leaves in the states of the slots.
Stopped(n) == [s \in Slots |-> IF s \in Named(n) THEN "INACTIVE" ELSE state[s]]

Init ==
  /\ mix \in Mixes
  /\ ticks = 0
  /\ state = [s \in Slots |-> "INACTIVE"]
  /\ start = [s \in Slots |-> 0]
  /\ name = [s \in Slots |-> NoName]
  /\ pc = "main" /\ i = 0 /\ rest = BootScript[mix] /\ new = NoStart
  /\ running = NoName /\ torn = {}
  /\ age = [n \in Names |-> 0]

-----------------------------------------------------------------------------
(* The interrupt.                                                           *)

\* An unused slot has the interval 0.
IntervalAt(s) == IF name[s] = NoName THEN 0 ELSE Interval[name[s]]

\* (faulty variant) the difference is not taken modulo 2^32
ElapsedUnwrapped(from, now) == now - from

Elapsed(from, now) == (now - from) % TickMod

Expired(s, now) == state[s] = "ACTIVE" /\ Elapsed(start[s], now) >= IntervalAt(s)

Older(n) == IF age[n] < Interval[n] THEN age[n] + 1 ELSE age[n]

\* (faulty variant) the counter does not wrap
TickUnwrapped ==
  /\ ticks' = ticks + 1
  /\ state' = [s \in Slots |-> IF Expired(s, ticks') THEN "PENDING" ELSE state[s]]
  /\ age' = [n \in Names |-> Older(n)]
  /\ torn' = IF new.done = {"state"} THEN torn \cup {new.name} ELSE torn
  /\ UNCHANGED <<mix, start, name, pc, i, rest, new, running>>

Tick ==
  /\ ticks' = (ticks + 1) % TickMod
  /\ state' = [s \in Slots |-> IF Expired(s, ticks') THEN "PENDING" ELSE state[s]]
  /\ age' = [n \in Names |-> Older(n)]
  /\ torn' = IF new.done = {"state"} THEN torn \cup {new.name} ELSE torn
  /\ UNCHANGED <<mix, start, name, pc, i, rest, new, running>>

-----------------------------------------------------------------------------
(* Code that uses timers: main() before its loop, the event handlers, and   *)
(* the callbacks.                                                           *)

NextOp(op, n) == /\ rest # <<>> /\ new = NoStart
                /\ Head(rest) = [op |-> op, name |-> n]

\* An event handler runs.
Handle(script) ==
  /\ pc = "main" /\ rest = <<>> /\ new = NoStart
  /\ rest' = script
  /\ UNCHANGED <<mix, ticks, slots, pc, i, new, ghosts>>

\* app_timer_stop
Stop(n) ==
  /\ NextOp("stop", n)
  /\ state' = Stopped(n)
  /\ rest' = Tail(rest)
  /\ UNCHANGED <<mix, ticks, start, name, pc, i, new, running, age, torn>>

\* (faulty variant) the timer of the same name is not stopped
StartTwice(n) ==
  /\ NextOp("start", n)
  /\ torn' = torn \ {n}
  /\ age' = [age EXCEPT ![n] = 0]
  /\ rest' = Tail(rest)
  /\ IF FirstFree(state) = {}
       THEN UNCHANGED new
       ELSE \E s \in FirstFree(state) :
              new' = [slot |-> s, name |-> n, start |-> ticks, done |-> {}]
  /\ UNCHANGED <<mix, ticks, slots, pc, i, running>>

\* app_timer_start, up to the stores: the timer of the same name is stopped,
\* a free slot is found and system_ticks is read.
Start(n) ==
  /\ NextOp("start", n)
  /\ state' = Stopped(n)
  /\ torn' = torn \ {n}
  /\ age' = [age EXCEPT ![n] = 0]
  /\ rest' = Tail(rest)
  /\ IF FirstFree(state') = {}
       THEN UNCHANGED new
       ELSE \E s \in FirstFree(state') :
              new' = [slot |-> s, name |-> n, start |-> ticks, done |-> {}]
  /\ UNCHANGED <<mix, ticks, start, name, pc, i, running>>

\* The stores of app_timer_start, in the order the build gives them.
Stored(half) == IF new.done \cup {half} = {"state", "fields"}
                  THEN new' = NoStart
                  ELSE new' = [new EXCEPT !.done = @ \cup {half}]

StoreState ==
  /\ new # NoStart /\ "state" \notin new.done
  /\ state' = [state EXCEPT ![new.slot] = "ACTIVE"]
  /\ Stored("state")
  /\ UNCHANGED <<mix, ticks, start, name, pc, i, rest, ghosts>>

StoreFields ==
  /\ new # NoStart /\ "fields" \notin new.done
  /\ start' = [start EXCEPT ![new.slot] = new.start]
  /\ name' = [name EXCEPT ![new.slot] = new.name]
  /\ Stored("fields")
  /\ UNCHANGED <<mix, ticks, state, pc, i, rest, ghosts>>

\* NVIC_SystemReset in a callback: main() starts over with fresh statics.
Reset(n) ==
  /\ NextOp("reset", n)
  /\ ticks' = 0
  /\ state' = [s \in Slots |-> "INACTIVE"]
  /\ start' = [s \in Slots |-> 0]
  /\ name' = [s \in Slots |-> NoName]
  /\ pc' = "main" /\ i' = 0 /\ rest' = BootScript[mix]
  /\ running' = NoName /\ torn' = {}
  /\ age' = [m \in Names |-> 0]
  /\ UNCHANGED <<mix, new>>

-----------------------------------------------------------------------------
(* app_timer_poll                                                           *)

PollBegin ==
  /\ pc = "main" /\ rest = <<>> /\ new = NoStart
  /\ pc' = "poll" /\ i' = 0
  /\ UNCHANGED <<mix, ticks, slots, rest, new, ghosts>>

Advance == IF i = MAX_SOFT_TIMERS - 1
             THEN pc' = "main" /\ i' = 0
             ELSE pc' = "poll" /\ i' = i + 1

PollSkip ==
  /\ pc = "poll" /\ state[i] # "PENDING"
  /\ Advance
  /\ UNCHANGED <<mix, ticks, slots, rest, new, ghosts>>

PollCall ==
  /\ pc = "poll" /\ state[i] = "PENDING"
  /\ pc' = "callback"
  /\ rest' \in CallbackScripts[mix][name[i]]
  /\ running' = name[i]
  /\ UNCHANGED <<mix, ticks, slots, i, new, age, torn>>

\* (faulty variant) a timer that its callback stopped is processed further
PollReturnBlind ==
  /\ pc = "callback" /\ rest = <<>> /\ new = NoStart
  /\ running' = NoName
  /\ pc' = "rearm"
  /\ UNCHANGED <<mix, ticks, slots, i, rest, new, age, torn>>

\* The callback has returned: a slot it has left inactive is done with.
PollReturn ==
  /\ pc = "callback" /\ rest = <<>> /\ new = NoStart
  /\ running' = NoName
  /\ IF Live(i) THEN pc' = "rearm" /\ UNCHANGED i ELSE Advance
  /\ UNCHANGED <<mix, ticks, slots, rest, new, age, torn>>

\* (faulty variant) the starting point is not renewed
RearmTimeKept ==
  /\ pc = "rearm" /\ name[i] \in Repeat
  /\ age' = [age EXCEPT ![name[i]] = 0]
  /\ torn' = torn \ {name[i]}
  /\ pc' = "activate"
  /\ UNCHANGED <<mix, ticks, slots, i, rest, new, running>>

RearmTime ==
  /\ pc = "rearm" /\ name[i] \in Repeat
  /\ start' = [start EXCEPT ![i] = ticks]
  /\ age' = [age EXCEPT ![name[i]] = 0]
  /\ torn' = torn \ {name[i]}
  /\ pc' = "activate"
  /\ UNCHANGED <<mix, ticks, state, name, i, rest, new, running>>

RearmState ==
  /\ pc = "activate"
  /\ state' = [state EXCEPT ![i] = "ACTIVE"]
  /\ Advance
  /\ UNCHANGED <<mix, ticks, start, name, rest, new, ghosts>>

Expire ==
  /\ pc = "rearm" /\ name[i] \notin Repeat
  /\ state' = [state EXCEPT ![i] = "INACTIVE"]
  /\ Advance
  /\ UNCHANGED <<mix, ticks, start, name, rest, new, ghosts>>

Next ==
  \/ Tick
  \/ \E script \in HandlerScripts[mix] : Handle(script)
  \/ \E n \in Names : Stop(n) \/ Start(n) \/ Reset(n)
  \/ StoreState \/ StoreFields
  \/ PollBegin \/ PollSkip \/ PollCall \/ PollReturn
  \/ RearmTime \/ RearmState \/ Expire

Spec == Init /\ [][Next]_vars

(***************************************************************************)
(* The timer interrupt keeps arriving; the processor executes the          *)
(* superloop's code, whose handlers and callbacks are finite; and main()   *)
(* calls app_timer_poll in every round of its loop, however many events    *)
(* the rounds dispatch.                                                    *)
(***************************************************************************)
Work == \/ \E n \in Names : Stop(n) \/ Start(n) \/ Reset(n)
        \/ StoreState \/ StoreFields
        \/ PollSkip \/ PollCall \/ PollReturn \/ RearmTime \/ RearmState \/ Expire

FairSpec == Spec /\ WF_vars(Tick) /\ WF_vars(Work) /\ SF_vars(PollBegin)

-----------------------------------------------------------------------------
(* Properties.                                                              *)

States == {"INACTIVE", "ACTIVE", "PENDING"}
PCs == {"main", "poll", "callback", "rearm", "activate"}

(* Each variable holds values of the static or local it models.            *)
TypeOK ==
  /\ mix \in Mixes
  /\ ticks \in 0 .. TickMod - 1
  /\ state \in [Slots -> States]
  /\ start \in [Slots -> 0 .. TickMod - 1]
  /\ name \in [Slots -> Names \cup {NoName}]
  /\ pc \in PCs /\ i \in Slots /\ rest \in Seq(Ops)
  /\ new \in [slot : Slots, name : Names \cup {NoName}, start : 0 .. TickMod - 1,
              done : {{}, {"state"}, {"fields"}}]
  /\ running \in Names \cup {NoName} /\ torn \subseteq Names
  /\ age \in [Names -> Nat]

\* app_timer_start has not yet stored all of slot s.
Storing(s) == new # NoStart /\ new.slot = s

\* app_timer_poll has stored the new start_time of slot s, but not its state.
Rearming(s) == pc = "activate" /\ i = s

(* Starting a timer again, from a handler, from another callback or from   *)
(* its own, never leaves two live slots with one name: app_timer_stop,     *)
(* which stops the first it finds, stops the timer.                        *)
UniqueNames ==
  \A s, t \in Slots :
    (Live(s) /\ Live(t) /\ s # t /\ ~Storing(s) /\ ~Storing(t)) => name[s] # name[t]

(* A timer is pending only after its whole interval, across the wrap of    *)
(* system_ticks, unless a tick hit its slot while it was half stored.      *)
NotEarly ==
  \A s \in Slots :
    (state[s] = "PENDING" /\ ~Storing(s) /\ ~Rearming(s))
      => (age[name[s]] >= Interval[name[s]] \/ name[s] \in torn)

(* The timers that nothing stops or restarts, feeddog among them, are      *)
(* called again and again, unless the program is reset.                    *)
Permanent(mx) ==
  (Repeat \cap Touched(BootScript[mx]))
    \ UNION {Touched(s) : s \in HandlerScripts[mx]
                                \cup UNION {CallbackScripts[mx][n] : n \in Names}}

PermanentKeepFiring ==
  \A n \in UNION {Permanent(mx) : mx \in Mixes} :
    []<>(n \in Permanent(mix) => running = n \/ (pc = "main" /\ rest = BootScript[mix]))

(***************************************************************************)
(* The set of timers that the slots implement.  A timer has a slot when a  *)
(* live slot that will stay carries its name, or when a start is storing   *)
(* it.  A slot stays unless app_timer_poll will end it: the slot it is at, *)
(* when a single-shot timer's name is in it after its callback.            *)
(***************************************************************************)
Ending(s) == s = i /\ pc \in {"callback", "rearm"} /\ name[s] \notin Repeat

Stays(s) == Live(s) /\ ~Storing(s) /\ ~Ending(s)

HasSlot(n) == \/ \E s \in Slots : Stays(s) /\ name[s] = n
              \/ new # NoStart /\ new.name = n

On == {n \in Names : HasSlot(n)}

Timers == INSTANCE TimerSet WITH on <- On, called <- running, todo <- rest

(* The pool implements the set of timers of TimerSet: no start is lost to  *)
(* a full pool or to the poll's own bookkeeping of a slot that a callback  *)
(* freed and filled again, no stopped timer comes back or is called, and   *)
(* no tick or poll turns a timer on or off.                                *)
ImplementsTimerSet == Timers!Spec
=============================================================================
