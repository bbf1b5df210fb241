------------------------------ MODULE TimerSet ------------------------------
(***************************************************************************)
(* What the software timers promise to the code that uses them: a set of   *)
(* timers that are on.  A timer is on from the moment it is started until  *)
(* it is stopped or, if it is a single-shot one, until its callback is     *)
(* called; only timers that are on are called, one at a time; and what     *)
(* handlers and callbacks do with timers is done in the order they do it.  *)
(* There is no limit to the number of timers, and nothing but the          *)
(* operations below changes the set.                                       *)
(***************************************************************************)
EXTENDS Sequences

CONSTANTS Names, NoName,
          Repeat,           (* the timers that a call does not end         *)
          Mixes,            (* groups of timers: a behaviour uses one      *)
          BootScript, CallbackScripts, HandlerScripts

VARIABLES mix,    (* the group of timers in use                            *)
          on,     (* the timers that are on                                *)
          called, (* the timer whose callback runs, or NoName              *)
          todo    (* what the running handler or callback will still do    *)

vars == <<mix, on, called, todo>>

Init ==
  /\ mix \in Mixes
  /\ on = {} /\ called = NoName /\ todo = BootScript[mix]

Does(op, n) == todo # <<>> /\ Head(todo) = [op |-> op, name |-> n]

Start(n) ==
  /\ Does("start", n)
  /\ on' = on \cup {n} /\ todo' = Tail(todo)
  /\ UNCHANGED <<mix, called>>

Stop(n) ==
  /\ Does("stop", n)
  /\ on' = on \ {n} /\ todo' = Tail(todo)
  /\ UNCHANGED <<mix, called>>

\* The program starts over.
Reset(n) ==
  /\ Does("reset", n)
  /\ on' = {} /\ called' = NoName /\ todo' = BootScript[mix]
  /\ UNCHANGED mix

Handle(script) ==
  /\ called = NoName /\ todo = <<>>
  /\ todo' = script
  /\ UNCHANGED <<mix, on, called>>

Call(n) ==
  /\ called = NoName /\ todo = <<>> /\ n \in on
  /\ on' = IF n \in Repeat THEN on ELSE on \ {n}
  /\ called' = n /\ todo' \in CallbackScripts[mix][n]
  /\ UNCHANGED mix

Return ==
  /\ called # NoName /\ todo = <<>>
  /\ called' = NoName
  /\ UNCHANGED <<mix, on, todo>>

Next ==
  \/ \E script \in HandlerScripts[mix] : Handle(script)
  \/ \E n \in Names : Start(n) \/ Stop(n) \/ Reset(n) \/ Call(n)
  \/ Return

Spec == Init /\ [][Next]_vars
=============================================================================
