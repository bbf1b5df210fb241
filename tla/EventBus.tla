------------------------------ MODULE EventBus ------------------------------
(***************************************************************************)
(* app_eventbus.c, at the grain at which it really interleaves.            *)
(*                                                                         *)
(* Two actors touch the ring buffer.  The superloop publishes (from timer  *)
(* callbacks and from event handlers) and polls; the USART interrupts      *)
(* publish.  All interrupts have the same priority, so an interrupt is one *)
(* step, but it may arrive between any two memory accesses of the          *)
(* superloop: nothing masks it.  The statics are not volatile: the build   *)
(* may keep a loaded value in a register until it stores the result, or    *)
(* load it again; Reload is that choice.                                   *)
(*                                                                         *)
(* Registers, parameters and locals are reset when they go out of use.     *)
(*                                                                         *)
(* Publishers pass enumerators below EVENT_COUNT only, so the first guard  *)
(* of app_eventbus_publish never rejects and is left out.                  *)
(***************************************************************************)
EXTENDS Integers, Sequences, SequencesExt

CONSTANTS Events,              (* event_t values in use                     *)
          IsrEvents,           (* those that USART interrupts publish       *)
          Handlers,            (* handler functions of the firmware         *)
          NoEvent,             (* contents of a slot never written          *)
          EVENT_QUEUE_SIZE,
          MAX_EVENT_HANDLERS,
          ByteMod              (* values of a uint8_t: 256                  *)

ASSUME BusAssumption ==
  /\ IsrEvents \subseteq Events
  /\ NoEvent \notin Events
  /\ EVENT_QUEUE_SIZE \in Nat /\ EVENT_QUEUE_SIZE >= 2
  /\ MAX_EVENT_HANDLERS \in Nat \ {0}
  /\ ByteMod \in Nat /\ EVENT_QUEUE_SIZE + 1 < ByteMod

VARIABLES
  eventQueue,   (* slot contents, indexed from 0                            *)
  queueHead,    (* next slot to write                                       *)
  queueTail,    (* next slot to read                                        *)
  queueSize,    (* number of pending events, as the code counts them        *)
  eventHandlers,(* the subscribers, in order                                *)
  pc,           (* where the superloop is                                   *)
  caller,       (* where app_eventbus_publish returns to                    *)
  pub,          (* the event the superloop is publishing                    *)
  currentEvent, (* the event app_eventbus_poll took                         *)
  hi,           (* handlers already called for currentEvent, plus one       *)
  sizeReg,      (* the register that holds queueSize                        *)
  headReg,      (* the register that holds queueHead                        *)
  called,       (* history: whom the loop over the handlers has called for  *)
                (* currentEvent, in order                                   *)
  raced         (* history: an interrupt hit a read-modify-write            *)

ring == <<eventQueue, queueHead, queueTail, queueSize>>
main == <<pc, caller, pub, currentEvent, hi, called, sizeReg, headReg>>
vars == <<ring, eventHandlers, main, raced>>

Slots == 0 .. EVENT_QUEUE_SIZE - 1

\* The superloop has read queueSize and has not yet stored what it derives.
Publishing == {"pub_slot", "pub_head", "pub_size"}
Taking     == {"take_slot", "take_tail", "take_size"}
\* The superloop runs code that may call the bus: a timer callback, or a handler.
Outside    == {"idle", "handler"}

\* (faulty variant) the index runs off the array
SuccUnwrapped(i) == i + 1

Succ(i) == (i + 1) % EVENT_QUEUE_SIZE

Init ==
  /\ eventQueue = [i \in Slots |-> NoEvent]
  /\ queueHead = 0 /\ queueTail = 0 /\ queueSize = 0
  /\ eventHandlers = <<>>
  /\ pc = "idle" /\ caller = "idle"
  /\ pub = NoEvent /\ currentEvent = NoEvent
  /\ hi = 1 /\ called = <<>> /\ sizeReg = 0 /\ headReg = 0
  /\ raced = FALSE

-----------------------------------------------------------------------------
(* app_eventbus_subscribe: a full table or a known handler changes nothing. *)

Subscribe(h) ==
  /\ pc \in Outside
  /\ Len(eventHandlers) < MAX_EVENT_HANDLERS
  /\ \A i \in DOMAIN eventHandlers : eventHandlers[i] # h
  /\ eventHandlers' = Append(eventHandlers, h)
  /\ UNCHANGED <<ring, main, raced>>

-----------------------------------------------------------------------------
(* app_eventbus_publish in the superloop, one memory access at a time.      *)

PublishCheck(e) ==
  /\ pc \in Outside
  /\ queueSize < EVENT_QUEUE_SIZE
  /\ sizeReg' = queueSize
  /\ pub' = e
  /\ caller' = pc
  /\ pc' = "pub_slot"
  /\ UNCHANGED <<ring, eventHandlers, currentEvent, hi, called, headReg, raced>>

PublishSlot ==
  /\ pc = "pub_slot"
  /\ eventQueue' = [eventQueue EXCEPT ![queueHead] = pub]
  /\ headReg' = queueHead
  /\ pc' = "pub_head"
  /\ UNCHANGED <<queueHead, queueTail, queueSize, eventHandlers, caller, pub,
                 currentEvent, hi, called, sizeReg, raced>>

PublishHead ==
  /\ pc = "pub_head"
  /\ queueHead' = Succ(headReg)
  /\ headReg' = 0
  /\ pc' = "pub_size"
  /\ UNCHANGED <<eventQueue, queueTail, queueSize, eventHandlers, caller, pub,
                 currentEvent, hi, called, sizeReg, raced>>

PublishSize ==
  /\ pc = "pub_size"
  /\ queueSize' = (sizeReg + 1) % ByteMod
  /\ pc' = caller
  /\ caller' = "idle" /\ pub' = NoEvent /\ sizeReg' = 0
  /\ UNCHANGED <<eventQueue, queueHead, queueTail, eventHandlers, currentEvent,
                 hi, called, headReg, raced>>

Reload ==
  /\ \/ /\ pc = "pub_head"
        /\ headReg' = queueHead
        /\ UNCHANGED sizeReg
     \/ /\ pc \in {"pub_size", "take_size"}
        /\ sizeReg' = queueSize
        /\ UNCHANGED headReg
  /\ UNCHANGED <<ring, eventHandlers, pc, caller, pub, currentEvent, hi, called, raced>>

-----------------------------------------------------------------------------
(* app_eventbus_poll, called by the superloop: while events are counted,    *)
(* take one and call every handler.                                         *)

\* (faulty variant) the loop stops one event early
PollCheckEarly ==
  /\ pc \in {"idle", "loop"}
  /\ IF queueSize > 1
       THEN pc' = "take_slot" /\ sizeReg' = queueSize
       ELSE pc' = "idle" /\ UNCHANGED sizeReg
  /\ called' = <<>>
  /\ UNCHANGED <<ring, eventHandlers, caller, pub, currentEvent, hi, headReg, raced>>

PollCheck ==
  /\ pc \in {"idle", "loop"}
  /\ IF queueSize > 0
       THEN pc' = "take_slot" /\ sizeReg' = queueSize
       ELSE pc' = "idle" /\ UNCHANGED sizeReg
  /\ called' = <<>>
  /\ UNCHANGED <<ring, eventHandlers, caller, pub, currentEvent, hi, headReg, raced>>

\* (faulty variant) the tail is advanced before the slot is read
TakeSlotLate ==
  /\ pc = "take_slot"
  /\ currentEvent' = eventQueue[Succ(queueTail)]
  /\ pc' = "take_tail"
  /\ UNCHANGED <<ring, eventHandlers, caller, pub, hi, called, sizeReg, headReg, raced>>

TakeSlot ==
  /\ pc = "take_slot"
  /\ currentEvent' = eventQueue[queueTail]
  /\ pc' = "take_tail"
  /\ UNCHANGED <<ring, eventHandlers, caller, pub, hi, called, sizeReg, headReg, raced>>

\* (faulty variant) the tail is not advanced
TakeTailKept ==
  /\ pc = "take_tail"
  /\ pc' = "take_size"
  /\ UNCHANGED <<ring, eventHandlers, caller, pub, currentEvent, hi, called, sizeReg, headReg, raced>>

TakeTail ==
  /\ pc = "take_tail"
  /\ queueTail' = Succ(queueTail)
  /\ pc' = "take_size"
  /\ UNCHANGED <<eventQueue, queueHead, queueSize, eventHandlers, caller, pub,
                 currentEvent, hi, called, sizeReg, headReg, raced>>

TakeSize ==
  /\ pc = "take_size"
  /\ queueSize' = (sizeReg - 1) % ByteMod
  /\ sizeReg' = 0
  /\ hi' = 1
  /\ pc' = "handler"
  /\ UNCHANGED <<eventQueue, queueHead, queueTail, eventHandlers, caller, pub,
                 currentEvent, called, headReg, raced>>

\* (faulty variant) the loop stops one handler early
HandlerReturnEarly ==
  /\ pc = "handler"
  /\ IF hi < Len(eventHandlers)
       THEN /\ called' = Append(called, eventHandlers[hi]) /\ hi' = hi + 1
            /\ UNCHANGED <<pc, currentEvent>>
       ELSE pc' = "loop" /\ hi' = 1 /\ currentEvent' = NoEvent /\ UNCHANGED called
  /\ UNCHANGED <<ring, eventHandlers, caller, pub, sizeReg, headReg, raced>>

HandlerReturn ==
  /\ pc = "handler"
  /\ IF hi <= Len(eventHandlers)
       THEN /\ called' = Append(called, eventHandlers[hi]) /\ hi' = hi + 1
            /\ UNCHANGED <<pc, currentEvent>>
       ELSE pc' = "loop" /\ hi' = 1 /\ currentEvent' = NoEvent /\ UNCHANGED called
  /\ UNCHANGED <<ring, eventHandlers, caller, pub, sizeReg, headReg, raced>>

-----------------------------------------------------------------------------
(* app_eventbus_publish in a USART interrupt: one step for the superloop.   *)

\* (faulty variant) the limit is off by one
IsrPublishLate(e) ==
  /\ queueSize <= EVENT_QUEUE_SIZE
  /\ eventQueue' = [eventQueue EXCEPT ![queueHead] = e]
  /\ queueHead' = Succ(queueHead)
  /\ queueSize' = (queueSize + 1) % ByteMod
  /\ raced' = (raced \/ pc \in Publishing \cup Taking)
  /\ UNCHANGED <<queueTail, eventHandlers, main>>

IsrPublish(e) ==
  /\ queueSize < EVENT_QUEUE_SIZE
  /\ eventQueue' = [eventQueue EXCEPT ![queueHead] = e]
  /\ queueHead' = Succ(queueHead)
  /\ queueSize' = (queueSize + 1) % ByteMod
  /\ raced' = (raced \/ pc \in Publishing \cup Taking)
  /\ UNCHANGED <<queueTail, eventHandlers, main>>

Next ==
  \/ \E h \in Handlers : Subscribe(h)
  \/ \E e \in Events : PublishCheck(e)
  \/ PublishSlot \/ PublishHead \/ PublishSize \/ Reload
  \/ PollCheck \/ TakeSlot \/ TakeTail \/ TakeSize \/ HandlerReturn
  \/ \E e \in IsrEvents : IsrPublish(e)

Spec == Init /\ [][Next]_vars

(***************************************************************************)
(* The processor never stops between two instructions; a handler is finite *)
(* code, so it returns however many events it publishes; and main() calls  *)
(* app_eventbus_poll after every app_timer_poll, so the poll is entered    *)
(* again however often timer callbacks publish.                            *)
(***************************************************************************)
Fairness ==
  /\ WF_vars(PublishSlot) /\ WF_vars(PublishHead) /\ WF_vars(PublishSize)
  /\ WF_vars(TakeSlot) /\ WF_vars(TakeTail) /\ WF_vars(TakeSize)
  /\ SF_vars(PollCheck) /\ SF_vars(HandlerReturn)

FairSpec == Spec /\ Fairness

-----------------------------------------------------------------------------
(* Properties.                                                              *)

PCs == Outside \cup Publishing \cup Taking \cup {"loop"}

SlotValues == Events \cup {NoEvent}

(* Every variable has the type of the static or register it stands for.    *)
TypeOK ==
  /\ eventQueue \in [Slots -> SlotValues]
  /\ queueHead \in Slots /\ queueTail \in Slots /\ headReg \in Slots
  /\ queueSize \in 0 .. ByteMod - 1 /\ sizeReg \in 0 .. ByteMod - 1
  /\ eventHandlers \in Seq(Handlers) /\ Len(eventHandlers) <= MAX_EVENT_HANDLERS
  /\ called \in Seq(Handlers)
  /\ pc \in PCs /\ caller \in Outside
  /\ pub \in SlotValues /\ currentEvent \in SlotValues
  /\ hi \in Nat \ {0}
  /\ raced \in BOOLEAN

(* Whatever the interrupts do, the event counter never wraps below zero,   *)
(* and overshoots the capacity by at most one: the superloop may store a   *)
(* count that an interrupt has meanwhile brought to the limit.             *)
SizeBound == queueSize <= EVENT_QUEUE_SIZE + 1

\* The slot k places after slot f.
SlotAt(f, k) == (f + k) % EVENT_QUEUE_SIZE

(* As long as no interrupt has hit a read-modify-write of the superloop,   *)
(* the counter is the distance from tail to head, outside those windows.   *)
Occupancy ==
  ~raced /\ pc \notin Publishing \cup Taking =>
    /\ queueSize <= EVENT_QUEUE_SIZE
    /\ queueHead = SlotAt(queueTail, queueSize)

(* Each subscriber is called exactly once per event.  No handler is called *)
(* twice, although app_network_model_init registers its handler again      *)
(* whenever the network is lost; and when the loop over the handlers ends, *)
(* it has called everyone who is subscribed by then, those included that   *)
(* subscribed while it ran, whatever its handlers published meanwhile.     *)
CalledOnce ==
  /\ IsInjective(called)
  /\ pc = "loop" => Range(called) = Range(eventHandlers)

(***************************************************************************)
(* The bounded queue the bus implements.  An event joins the abstract      *)
(* queue when queueSize is stored, and leaves it when queueSize is stored. *)
(***************************************************************************)
Pred(i) == (i - 1) % EVENT_QUEUE_SIZE

First == IF pc = "take_size" THEN Pred(queueTail) ELSE queueTail

\* The contents of n slots of q, from slot f on.
Window(q, f, n) == [i \in 1 .. n |-> q[SlotAt(f, i - 1)]]

Pending == Window(eventQueue, First, queueSize)

InHandlers == pc = "handler" \/ (pc \in Publishing /\ caller = "handler")

Dispatched == IF InHandlers THEN currentEvent ELSE NoEvent

Bus == INSTANCE EventQueue WITH Capacity <- EVENT_QUEUE_SIZE,
                                queue <- Pending, current <- Dispatched

(* Until an interrupt hits one of the superloop's read-modify-writes, the  *)
(* ring buffer implements the first-in first-out queue of EventQueue, the  *)
(* interrupts that arrive elsewhere included.                              *)
FifoUntilRaced == Bus!Init /\ [][Bus!Next \/ raced']_(Bus!vars)

(* An accepted event reaches the handlers, unless the counter was raced.   *)
EventuallyDispatched ==
  \A e \in Events :
    (\E i \in DOMAIN Pending : Pending[i] = e) ~> (Dispatched = e \/ raced)

(* The poll loop leaves nothing behind: when it has seen the counter at    *)
(* zero, no slot holds an event that was accepted and not dispatched.      *)
(* Broken by an interrupt that hits a read-modify-write.                   *)
NothingLeftBehind == (pc = "idle" /\ queueSize = 0) => queueHead = queueTail
=============================================================================
