----------------------------- MODULE EventQueue -----------------------------
(***************************************************************************)
(* What the event bus promises to its publishers and handlers: a bounded   *)
(* first-in first-out queue.  An event that is accepted is dispatched      *)
(* exactly once, in the order of acceptance; dispatching hands one event   *)
(* at a time to the subscribers.                                           *)
(***************************************************************************)
EXTENDS Naturals, Sequences

CONSTANTS Events,     (* the event_t values (type and params) in use       *)
          Capacity,   (* pending events the queue can hold                 *)
          NoEvent     (* no event is being dispatched                      *)

VARIABLES queue,      (* accepted events, oldest first                     *)
          current     (* the event whose handlers are running, or NoEvent  *)

vars == <<queue, current>>

Init == /\ queue = <<>>
        /\ current = NoEvent

Accept(e) == /\ Len(queue) < Capacity
             /\ queue' = Append(queue, e)
             /\ UNCHANGED current

Dispatch == /\ current = NoEvent
            /\ queue # <<>>
            /\ current' = Head(queue)
            /\ queue' = Tail(queue)

Finish == /\ current # NoEvent
          /\ current' = NoEvent
          /\ UNCHANGED queue

Next == (\E e \in Events : Accept(e)) \/ Dispatch \/ Finish

Spec == Init /\ [][Next]_vars
=============================================================================
