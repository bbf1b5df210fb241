--------------------------- MODULE EventBusProofs ---------------------------
(***************************************************************************)
(* Theorems about the event bus, for every queue size, every set of events *)
(* and every set of handlers.                                              *)
(***************************************************************************)
EXTENDS EventBus, TLAPS

(* Succ advances an index of the ring and stays inside it.                 *)
LEMMA SuccIndex ==
  ASSUME NEW i \in Slots
  PROVE  /\ Succ(i) \in Slots
         /\ Succ(i) = IF i = EVENT_QUEUE_SIZE - 1 THEN 0 ELSE i + 1
BY BusAssumption, SMT DEF Succ, Slots

(***************************************************************************)
(* Type correctness.                                                       *)
(***************************************************************************)
LEMMA InitTypeOK == Init => TypeOK
<1> SUFFICES ASSUME Init PROVE TypeOK
  OBVIOUS
<1>1. 0 \in Slots /\ 0 \in 0 .. ByteMod - 1 /\ 1 \in Nat \ {0}
  BY BusAssumption DEF Slots
<1>2. eventQueue \in [Slots -> SlotValues] /\ NoEvent \in SlotValues
  BY DEF Init, SlotValues
<1>3. <<>> \in Seq(Handlers) /\ Len(<<>>) <= MAX_EVENT_HANDLERS
  BY BusAssumption
<1>4. "idle" \in PCs /\ "idle" \in Outside
  BY DEF PCs, Outside
<1>5. QED
  BY <1>1, <1>2, <1>3, <1>4 DEF Init, TypeOK

(* A uint8_t holds what is stored in it modulo 256.                         *)
LEMMA ByteRange ==
  ASSUME NEW n \in Int
  PROVE  n % ByteMod \in 0 .. ByteMod - 1
BY BusAssumption, SMT

LEMMA NextTypeOK == TypeOK /\ [Next]_vars => TypeOK'
<1> SUFFICES ASSUME TypeOK, [Next]_vars PROVE TypeOK'
  OBVIOUS
<1> USE DEF TypeOK, SlotValues, PCs, Outside, Publishing, Taking, ring, main
<1>s. /\ Succ(queueHead) \in Slots /\ Succ(queueTail) \in Slots
      /\ Succ(headReg) \in Slots /\ 0 \in Slots
  BY SuccIndex, BusAssumption DEF Slots
<1>1. ASSUME NEW h \in Handlers, Subscribe(h) PROVE TypeOK'
  <2>1. eventHandlers \in Seq(Handlers) /\ Len(eventHandlers) < MAX_EVENT_HANDLERS
    BY <1>1 DEF Subscribe
  <2>2. Append(eventHandlers, h) \in Seq(Handlers)
        /\ Len(Append(eventHandlers, h)) <= MAX_EVENT_HANDLERS
    BY ONLY <2>1, BusAssumption, h \in Handlers
  <2>3. QED
    BY <1>1, <2>2 DEF Subscribe
<1>2. ASSUME NEW e \in Events, PublishCheck(e) PROVE TypeOK'
  BY <1>2 DEF PublishCheck
<1>3. CASE PublishSlot
  BY <1>3 DEF PublishSlot
<1>4. CASE PublishHead
  BY <1>4, <1>s DEF PublishHead
<1>5. CASE PublishSize
  <2>0. sizeReg + 1 \in Int
    BY BusAssumption
  <2>1. (sizeReg + 1) % ByteMod \in 0 .. ByteMod - 1
    BY ONLY <2>0, ByteRange
  <2>2. QED
    BY <1>5, <2>1, BusAssumption DEF PublishSize
<1>6. CASE Reload
  BY <1>6 DEF Reload
<1>7. CASE PollCheck
  BY <1>7 DEF PollCheck
<1>8. CASE TakeSlot
  BY <1>8 DEF TakeSlot
<1>9. CASE TakeTail
  BY <1>9, <1>s DEF TakeTail
<1>10. CASE TakeSize
  <2>0. sizeReg - 1 \in Int
    BY BusAssumption
  <2>1. (sizeReg - 1) % ByteMod \in 0 .. ByteMod - 1
    BY ONLY <2>0, ByteRange
  <2>2. QED
    BY <1>10, <2>1, BusAssumption DEF TakeSize
<1>11. CASE HandlerReturn
  <2>1. called' \in Seq(Handlers) /\ hi' \in Nat \ {0}
    <3>1. eventHandlers \in Seq(Handlers) /\ called \in Seq(Handlers) /\ hi \in Nat \ {0}
      OBVIOUS
    <3>2. CASE hi <= Len(eventHandlers)
      <4>1. eventHandlers[hi] \in Handlers
        BY ONLY <3>1, <3>2
      <4>2. called' = Append(called, eventHandlers[hi]) /\ hi' = hi + 1
        BY <1>11, <3>2 DEF HandlerReturn
      <4>3. QED
        BY ONLY <3>1, <4>1, <4>2
    <3>3. CASE ~(hi <= Len(eventHandlers))
      <4>1. called' = called /\ hi' = 1
        BY <1>11, <3>3 DEF HandlerReturn
      <4>2. QED
        BY ONLY <3>1, <4>1
    <3>4. QED
      BY <3>2, <3>3
  <2>2. pc' \in PCs /\ currentEvent' \in SlotValues
    BY <1>11 DEF HandlerReturn
  <2>3. UNCHANGED <<ring, eventHandlers, caller, pub, sizeReg, headReg, raced>>
    BY <1>11 DEF HandlerReturn
  <2>4. QED
    BY <2>1, <2>2, <2>3
<1>12. ASSUME NEW e \in IsrEvents, IsrPublish(e) PROVE TypeOK'
  <2>0. queueSize + 1 \in Int
    BY BusAssumption
  <2>1. (queueSize + 1) % ByteMod \in 0 .. ByteMod - 1
    BY ONLY <2>0, ByteRange
  <2>2. raced' \in BOOLEAN
    BY <1>12 DEF IsrPublish
  <2>3. eventQueue' \in [Slots -> SlotValues]
    BY <1>12, BusAssumption DEF IsrPublish
  <2>4. QED
    BY <1>12, <1>s, <2>1, <2>2, <2>3 DEF IsrPublish
<1>13. CASE UNCHANGED vars
  BY <1>13 DEF vars
<1>14. QED
  BY <1>1, <1>2, <1>3, <1>4, <1>5, <1>6, <1>7, <1>8, <1>9, <1>10, <1>11,
     <1>12, <1>13 DEF Next

(* Every variable of the bus keeps the type of the static or register it   *)
(* models, whatever the interrupts do.                                     *)
THEOREM TypeCorrect == Spec => []TypeOK
<1>1. QED
  BY InitTypeOK, NextTypeOK, PTL DEF Spec

(***************************************************************************)
(* The counter never wraps below zero and exceeds the capacity by at most  *)
(* one.  The strengthening says what the superloop's register may hold in  *)
(* each window: the interrupts only increase queueSize, and never beyond   *)
(* the capacity.                                                           *)
(***************************************************************************)
SizeInv ==
  /\ SizeBound
  /\ pc \in Publishing => queueSize <= EVENT_QUEUE_SIZE /\ sizeReg <= EVENT_QUEUE_SIZE
  /\ pc \in Taking => queueSize >= 1 /\ sizeReg >= 1 /\ sizeReg <= EVENT_QUEUE_SIZE + 1

(* A count inside the range of a byte is stored as it is.                  *)
LEMMA ByteExact ==
  ASSUME NEW n \in 0 .. EVENT_QUEUE_SIZE + 1
  PROVE  n % ByteMod = n
BY BusAssumption, SMT

LEMMA NextSizeInv == TypeOK /\ SizeInv /\ [Next]_vars => SizeInv'
<1> SUFFICES ASSUME TypeOK, SizeInv, [Next]_vars PROVE SizeInv'
  OBVIOUS
<1> USE BusAssumption DEF TypeOK, SizeInv, SizeBound, Outside, Publishing, Taking, ring, main
<1>1. ASSUME NEW h \in Handlers, Subscribe(h) PROVE SizeInv'
  BY <1>1 DEF Subscribe
<1>2. ASSUME NEW e \in Events, PublishCheck(e) PROVE SizeInv'
  BY <1>2 DEF PublishCheck
<1>3. CASE PublishSlot
  BY <1>3 DEF PublishSlot
<1>4. CASE PublishHead
  BY <1>4 DEF PublishHead
<1>5. CASE PublishSize
  <2>1. (sizeReg + 1) % ByteMod = sizeReg + 1
    BY <1>5, ByteExact DEF PublishSize
  <2>2. QED
    BY <1>5, <2>1, BusAssumption DEF PublishSize
<1>6. CASE Reload
  BY <1>6 DEF Reload
<1>7. CASE PollCheck
  BY <1>7 DEF PollCheck
<1>8. CASE TakeSlot
  BY <1>8 DEF TakeSlot
<1>9. CASE TakeTail
  BY <1>9 DEF TakeTail
<1>10. CASE TakeSize
  <2>1. (sizeReg - 1) % ByteMod = sizeReg - 1
    BY <1>10, ByteExact DEF TakeSize
  <2>2. QED
    BY <1>10, <2>1, BusAssumption DEF TakeSize
<1>11. CASE HandlerReturn
  BY <1>11 DEF HandlerReturn
<1>12. ASSUME NEW e \in IsrEvents, IsrPublish(e) PROVE SizeInv'
  <2>1. (queueSize + 1) % ByteMod = queueSize + 1
    BY <1>12, ByteExact DEF IsrPublish
  <2>2. QED
    BY <1>12, <2>1 DEF IsrPublish
<1>13. CASE UNCHANGED vars
  BY <1>13 DEF vars
<1>14. QED
  BY <1>1, <1>2, <1>3, <1>4, <1>5, <1>6, <1>7, <1>8, <1>9, <1>10, <1>11,
     <1>12, <1>13 DEF Next

(* With interrupts publishing between any two accesses of the superloop,   *)
(* the event counter stays between zero and one above the capacity.        *)
THEOREM SizeBounded == Spec => []SizeBound
<1>1. Init => SizeInv
  BY BusAssumption DEF Init, SizeInv, SizeBound, Publishing, Taking
<1>2. SizeInv => SizeBound
  BY DEF SizeInv
<1>3. QED
  BY <1>1, <1>2, TypeCorrect, NextSizeInv, PTL DEF Spec

(***************************************************************************)
(* Calls of the subscribers.  No one is in the table twice, and whom the   *)
(* loop over the handlers has called is the part of the table that it has  *)
(* been through, also while a handler publishes.                           *)
(***************************************************************************)
CallInv ==
  /\ \A a, b \in 1 .. Len(eventHandlers) : eventHandlers[a] = eventHandlers[b] => a = b
  /\ Len(called) <= Len(eventHandlers)
  /\ \A k \in 1 .. Len(called) : called[k] = eventHandlers[k]
  /\ pc \in Taking => called = <<>>
  /\ InHandlers => Len(called) = hi - 1
  /\ pc = "loop" => Len(called) = Len(eventHandlers)

\* Wherever the superloop is, a subscription leaves the calls made alone.
LEMMA SubscribeCalls ==
  ASSUME TypeOK, CallInv, NEW h \in Handlers, Subscribe(h)
  PROVE  CallInv'
<1>1. /\ eventHandlers \in Seq(Handlers) /\ called \in Seq(Handlers)
      /\ eventHandlers' = Append(eventHandlers, h)
      /\ \A i \in 1 .. Len(eventHandlers) : eventHandlers[i] # h
      /\ UNCHANGED <<called, pc, caller, hi>> /\ pc \in Outside
  BY DEF Subscribe, TypeOK, main
<1>2. /\ Len(eventHandlers') = Len(eventHandlers) + 1
      /\ \A i \in 1 .. Len(eventHandlers) : eventHandlers'[i] = eventHandlers[i]
      /\ eventHandlers'[Len(eventHandlers) + 1] = h
      /\ Len(eventHandlers) \in Nat /\ Len(called) \in Nat
  BY <1>1
<1>3. (\A a, b \in 1 .. Len(eventHandlers) : eventHandlers[a] = eventHandlers[b] => a = b)'
  BY <1>1, <1>2 DEF CallInv
<1>4. Len(called') <= Len(eventHandlers') /\ \A k \in 1 .. Len(called') : called'[k] = eventHandlers'[k]
  BY <1>1, <1>2 DEF CallInv
<1>5. QED
  BY <1>1, <1>3, <1>4 DEF CallInv, InHandlers, Outside, Taking

\* The loop calls the next handler, or is through with them.
LEMMA ReturnCalls ==
  ASSUME TypeOK, CallInv, HandlerReturn
  PROVE  CallInv'
<1>1. /\ eventHandlers \in Seq(Handlers) /\ called \in Seq(Handlers) /\ hi \in Nat \ {0}
      /\ eventHandlers' = eventHandlers /\ Len(called) = hi - 1
  BY DEF HandlerReturn, TypeOK, CallInv, InHandlers
<1>2. CASE hi <= Len(eventHandlers)
  <2>1. /\ called' = Append(called, eventHandlers[hi])
        /\ hi' = hi + 1 /\ pc' = "handler" /\ eventHandlers[hi] \in Handlers
    BY <1>1, <1>2 DEF HandlerReturn
  <2>2. /\ Len(called') = hi /\ called'[hi] = eventHandlers[hi]
        /\ \A k \in 1 .. hi - 1 : called'[k] = called[k]
    BY <1>1, <2>1
  <2>3. \A k \in 1 .. Len(called') : called'[k] = eventHandlers[k]
    BY <1>1, <2>2 DEF CallInv
  <2>4. QED
    BY <1>1, <1>2, <2>1, <2>2, <2>3 DEF CallInv, Taking
<1>3. CASE ~(hi <= Len(eventHandlers))
  <2>1. called' = called /\ pc' = "loop"
    BY <1>3 DEF HandlerReturn
  <2>2. Len(called) = Len(eventHandlers)
    BY <1>1, <1>3 DEF CallInv
  <2>3. QED
    BY <1>1, <2>1, <2>2 DEF CallInv, Taking, InHandlers, Publishing
<1>4. QED
  BY <1>2, <1>3

LEMMA NextCalls == TypeOK /\ CallInv /\ [Next]_vars => CallInv'
<1> SUFFICES ASSUME TypeOK, CallInv, [Next]_vars PROVE CallInv'
  OBVIOUS
<1>1. ASSUME NEW h \in Handlers, Subscribe(h) PROVE CallInv'
  BY <1>1, SubscribeCalls
<1>2. CASE HandlerReturn
  BY <1>2, ReturnCalls
<1>3. CASE PollCheck
  <2>1. called' = <<>> /\ eventHandlers' = eventHandlers /\ Len(eventHandlers) \in Nat
    BY <1>3 DEF PollCheck, TypeOK
  <2>2. pc' \in {"take_slot", "idle"}
    BY <1>3 DEF PollCheck
  <2>3. QED
    BY <2>1, <2>2 DEF CallInv, InHandlers, Publishing
<1>4. CASE TakeSize
  <2>1. called = <<>> /\ called' = called /\ eventHandlers' = eventHandlers /\ hi' = 1 /\ pc' = "handler"
    BY <1>4 DEF TakeSize, CallInv, Taking
  <2>2. QED
    BY <2>1 DEF CallInv, Taking
<1>5. ASSUME UNCHANGED <<eventHandlers, called, hi>>,
             InHandlers' => InHandlers, pc' \in Taking => pc \in Taking, pc' # "loop" \/ pc' = pc
      PROVE  CallInv'
  BY <1>5 DEF CallInv
<1>6. CASE (\E e \in Events : PublishCheck(e)) \/ PublishSlot \/ PublishHead \/ PublishSize
  BY <1>5, <1>6 DEF TypeOK, PublishCheck, PublishSlot, PublishHead, PublishSize, Outside, Publishing, Taking, InHandlers
<1>7. CASE Reload \/ TakeSlot \/ TakeTail \/ (\E e \in IsrEvents : IsrPublish(e)) \/ UNCHANGED vars
  BY <1>5, <1>7 DEF Reload, TakeSlot, TakeTail, IsrPublish, vars, main, Publishing, Taking, InHandlers
<1>8. QED
  BY <1>1, <1>2, <1>3, <1>4, <1>6, <1>7 DEF Next

(* However often a component registers its handler, and whoever subscribes *)
(* or publishes while an event is handled, each subscriber is called once  *)
(* for it and none is left out.                                            *)
THEOREM HandlersCalledOnce == Spec => []CalledOnce
<1>1. Init => CallInv
  BY DEF Init, CallInv, InHandlers, Publishing
<1>2. TypeOK /\ CallInv => CalledOnce
  <2> SUFFICES ASSUME TypeOK, CallInv PROVE CalledOnce
    OBVIOUS
  <2>1. called \in Seq(Handlers) /\ eventHandlers \in Seq(Handlers)
    BY DEF TypeOK
  <2>2. IsInjective(called)
    BY <2>1 DEF CallInv, IsInjective
  <2>3. pc = "loop" => Range(called) = Range(eventHandlers)
    BY <2>1 DEF CallInv, Range
  <2>4. QED
    BY <2>2, <2>3 DEF CalledOnce
<1>3. QED
  BY <1>1, <1>2, NextCalls, TypeCorrect, PTL DEF Spec

(***************************************************************************)
(* The ring buffer between races.  End is the slot after the last counted  *)
(* event; the invariant says where head and tail stand in each window and  *)
(* what the slots they delimit hold.                                       *)
(***************************************************************************)
End == SlotAt(First, queueSize)

RingOK ==
  /\ queueSize <= EVENT_QUEUE_SIZE
  /\ pc \in Publishing => queueSize < EVENT_QUEUE_SIZE
  /\ pc \in Taking => queueSize >= 1
  /\ pc \in Publishing \cup Taking => sizeReg = queueSize
  /\ pc = "pub_head" => headReg = queueHead
  /\ queueHead = IF pc = "pub_size" THEN Succ(End) ELSE End
  /\ pc \in {"pub_head", "pub_size"} => eventQueue[End] = pub
  /\ pc \in {"take_tail", "take_size"} => currentEvent = eventQueue[First]
  /\ pc \in Publishing => pub \in Events
  /\ InHandlers => currentEvent \in Events
  /\ \A i \in 1 .. queueSize : Pending[i] \in Events

RingInv == ~raced => RingOK

(* Walking k slots from i, and one more.                                   *)
LEMMA RingWalk ==
  ASSUME NEW i \in Slots, NEW k \in 0 .. EVENT_QUEUE_SIZE
  PROVE  /\ SlotAt(i, k) \in Slots
         /\ SlotAt(i, k) =
              IF i + k >= EVENT_QUEUE_SIZE THEN i + k - EVENT_QUEUE_SIZE ELSE i + k
BY BusAssumption, SMT DEF Slots, SlotAt

(* The index before an index.                                              *)
LEMMA PredIndex ==
  ASSUME NEW i \in Slots
  PROVE  Pred(i) = IF i = 0 THEN EVENT_QUEUE_SIZE - 1 ELSE i - 1
BY BusAssumption, SMT DEF Slots, Pred

(* Stepping back undoes Succ.                                              *)
LEMMA RingBack ==
  ASSUME NEW i \in Slots
  PROVE  Pred(Succ(i)) = i
<1>1. Succ(i) \in Slots
  BY SuccIndex
<1>2. Pred(Succ(i)) =
        IF Succ(i) = 0 THEN EVENT_QUEUE_SIZE - 1 ELSE Succ(i) - 1
  BY <1>1, PredIndex
<1>3. QED
  BY <1>2, SuccIndex, BusAssumption DEF Slots

(* Different distances below the queue size reach different slots.         *)
LEMMA RingDistinct ==
  ASSUME NEW i \in Slots,
         NEW j \in 0 .. EVENT_QUEUE_SIZE - 1, NEW k \in 0 .. EVENT_QUEUE_SIZE - 1, j # k
  PROVE  SlotAt(i, j) # SlotAt(i, k)
<1>1. j \in 0 .. EVENT_QUEUE_SIZE /\ k \in 0 .. EVENT_QUEUE_SIZE
  BY BusAssumption
<1>2. /\ SlotAt(i, j) =
           IF i + j >= EVENT_QUEUE_SIZE THEN i + j - EVENT_QUEUE_SIZE ELSE i + j
      /\ SlotAt(i, k) =
           IF i + k >= EVENT_QUEUE_SIZE THEN i + k - EVENT_QUEUE_SIZE ELSE i + k
  BY <1>1, RingWalk
<1>3. QED
  BY <1>2, BusAssumption DEF Slots

(* One step further from i is one step further from where k steps lead,    *)
(* and k steps from the slot after i.                                      *)
LEMMA RingNext ==
  ASSUME NEW i \in Slots, NEW k \in 0 .. EVENT_QUEUE_SIZE - 1
  PROVE  /\ SlotAt(i, k + 1) = Succ(SlotAt(i, k))
         /\ SlotAt(i, k + 1) = SlotAt(Succ(i), k)
<1>1. k \in 0 .. EVENT_QUEUE_SIZE /\ k + 1 \in 0 .. EVENT_QUEUE_SIZE
  BY BusAssumption
<1>2. Succ(i) \in Slots /\ SlotAt(i, k) \in Slots
  BY <1>1, SuccIndex, RingWalk
<1>3. /\ SlotAt(i, k) =
           IF i + k >= EVENT_QUEUE_SIZE THEN i + k - EVENT_QUEUE_SIZE ELSE i + k
      /\ SlotAt(i, k + 1) =
           IF i + (k + 1) >= EVENT_QUEUE_SIZE THEN i + (k + 1) - EVENT_QUEUE_SIZE
                                              ELSE i + (k + 1)
      /\ SlotAt(Succ(i), k) =
           IF Succ(i) + k >= EVENT_QUEUE_SIZE THEN Succ(i) + k - EVENT_QUEUE_SIZE
                                              ELSE Succ(i) + k
  BY <1>1, <1>2, RingWalk
<1>4. /\ Succ(SlotAt(i, k)) =
           IF SlotAt(i, k) = EVENT_QUEUE_SIZE - 1
             THEN 0 ELSE SlotAt(i, k) + 1
      /\ Succ(i) = IF i = EVENT_QUEUE_SIZE - 1 THEN 0 ELSE i + 1
  BY <1>2, SuccIndex
<1>5. QED
  BY <1>3, <1>4, BusAssumption DEF Slots

(* Succ undoes stepping back.                                              *)
LEMMA RingForth ==
  ASSUME NEW i \in Slots
  PROVE  /\ Pred(i) \in Slots
         /\ Succ(Pred(i)) = i
<1>1. Pred(i) = IF i = 0 THEN EVENT_QUEUE_SIZE - 1 ELSE i - 1
  BY PredIndex
<1>2. Pred(i) \in Slots
  BY <1>1, BusAssumption DEF Slots
<1>3. QED
  BY <1>1, <1>2, SuccIndex, BusAssumption DEF Slots

(* Two sequences with equal lengths and equal elements are equal.          *)
LEMMA SeqEqual ==
  ASSUME NEW S, NEW s \in Seq(S), NEW t \in Seq(S), Len(s) = Len(t),
         \A i \in 1 .. Len(s) : s[i] = t[i]
  PROVE  s = t
OBVIOUS

(***************************************************************************)
(* The counted slots as a sequence: what they are, what storing one more   *)
(* event does to them, and what taking the oldest one does.                *)
(***************************************************************************)
LEMMA WindowValue ==
  ASSUME NEW q \in [Slots -> SlotValues], NEW f \in Slots, NEW n \in 0 .. EVENT_QUEUE_SIZE
  PROVE  /\ Window(q, f, n) \in Seq(SlotValues)
         /\ Len(Window(q, f, n)) = n
         /\ \A i \in 1 .. n : Window(q, f, n)[i] = q[SlotAt(f, i - 1)]
<1>1. n \in Nat
  BY BusAssumption
<1>2. \A i \in 1 .. n : i - 1 \in 0 .. EVENT_QUEUE_SIZE
  BY BusAssumption
<1>3. \A i \in 1 .. n : SlotAt(f, i - 1) \in Slots
  BY <1>2, RingWalk
<1>4. \A i \in 1 .. n : q[SlotAt(f, i - 1)] \in SlotValues
  BY <1>3
<1>5. QED
  BY <1>1, <1>4 DEF Window

LEMMA WindowAppend ==
  ASSUME NEW q \in [Slots -> SlotValues], NEW f \in Slots,
         NEW n \in 0 .. EVENT_QUEUE_SIZE - 1, NEW e \in SlotValues
  PROVE  Window([q EXCEPT ![SlotAt(f, n)] = e], f, n + 1) = Append(Window(q, f, n), e)
<1> DEFINE r == [q EXCEPT ![SlotAt(f, n)] = e]
           w == Window(q, f, n)
           x == Window(r, f, n + 1)
<1>1. n \in Nat /\ n \in 0 .. EVENT_QUEUE_SIZE /\ n + 1 \in 0 .. EVENT_QUEUE_SIZE
  BY BusAssumption
<1>4. SlotAt(f, n) \in Slots
  BY <1>1, RingWalk
<1>r. r \in [Slots -> SlotValues]
  BY <1>4
<1> HIDE DEF r
<1>2. /\ w \in Seq(SlotValues) /\ Len(w) = n
      /\ \A i \in 1 .. n : w[i] = q[SlotAt(f, i - 1)]
  BY <1>1, WindowValue
<1>3. /\ x \in Seq(SlotValues) /\ Len(x) = n + 1
      /\ \A i \in 1 .. n + 1 : x[i] = r[SlotAt(f, i - 1)]
  BY <1>1, <1>r, WindowValue
<1>5. x[n + 1] = e
  <2>1. n + 1 - 1 = n /\ n + 1 \in 1 .. n + 1
    BY <1>1
  <2>2. x[n + 1] = r[SlotAt(f, n + 1 - 1)]
    BY ONLY <1>3, <2>1
  <2>3. x[n + 1] = r[SlotAt(f, n)]
    BY ONLY <2>1, <2>2
  <2>4. r[SlotAt(f, n)] = e
    BY <1>4 DEF r
  <2>5. QED
    BY ONLY <2>3, <2>4
<1>6. \A i \in 1 .. n : x[i] = w[i]
  <2> SUFFICES ASSUME NEW i \in 1 .. n PROVE x[i] = w[i]
    OBVIOUS
  <2>1. /\ i - 1 \in 0 .. EVENT_QUEUE_SIZE - 1 /\ i - 1 # n
        /\ i - 1 \in 0 .. EVENT_QUEUE_SIZE /\ i \in 1 .. n + 1
    BY <1>1, BusAssumption
  <2>2. /\ SlotAt(f, i - 1) \in Slots
        /\ SlotAt(f, i - 1) # SlotAt(f, n)
    BY <2>1, RingWalk, RingDistinct
  <2>3. r[SlotAt(f, i - 1)] = q[SlotAt(f, i - 1)]
    BY <2>2 DEF r
  <2>4. QED
    BY <1>2, <1>3, <2>1, <2>3
<1>7. /\ Append(w, e) \in Seq(SlotValues) /\ Len(Append(w, e)) = n + 1
      /\ \A i \in 1 .. n : Append(w, e)[i] = w[i]
      /\ Append(w, e)[n + 1] = e
  BY <1>2
<1>8. \A i \in 1 .. n + 1 : x[i] = Append(w, e)[i]
  <2> SUFFICES ASSUME NEW i \in 1 .. n + 1 PROVE x[i] = Append(w, e)[i]
    OBVIOUS
  <2>1. CASE i = n + 1
    BY <2>1, <1>5, <1>7
  <2>2. CASE i # n + 1
    <3>1. i \in 1 .. n
      BY <2>2, <1>1
    <3>2. QED
      BY <3>1, <1>6, <1>7
  <2>3. QED
    BY <2>1, <2>2
<1>9. x = Append(w, e)
  BY <1>3, <1>7, <1>8, SeqEqual
<1>10. QED
  BY <1>9 DEF r

LEMMA WindowTail ==
  ASSUME NEW q \in [Slots -> SlotValues], NEW f \in Slots, NEW n \in 1 .. EVENT_QUEUE_SIZE
  PROVE  /\ Window(q, f, n) # <<>>
         /\ Head(Window(q, f, n)) = q[f]
         /\ Window(q, Succ(f), n - 1) = Tail(Window(q, f, n))
<1> DEFINE w == Window(q, f, n)
           x == Window(q, Succ(f), n - 1)
<1>1. n \in Nat /\ n \in 0 .. EVENT_QUEUE_SIZE /\ n - 1 \in 0 .. EVENT_QUEUE_SIZE - 1
      /\ n - 1 \in 0 .. EVENT_QUEUE_SIZE
  BY BusAssumption
<1>2. /\ w \in Seq(SlotValues) /\ Len(w) = n
      /\ \A i \in 1 .. n : w[i] = q[SlotAt(f, i - 1)]
  BY <1>1, WindowValue
<1>3. /\ x \in Seq(SlotValues) /\ Len(x) = n - 1
      /\ \A i \in 1 .. n - 1 : x[i] = q[SlotAt(Succ(f), i - 1)]
  BY <1>1, SuccIndex, WindowValue
<1>4. w # <<>> /\ Head(w) = w[1]
  BY <1>1, <1>2
<1>5. w[1] = q[f]
  <2>1. w[1] = q[SlotAt(f, 1 - 1)]
    BY <1>1, <1>2
  <2>2. SlotAt(f, 0) = f
    BY RingWalk, BusAssumption DEF Slots
  <2>3. QED
    BY <2>1, <2>2
<1>6. \A i \in 1 .. n - 1 : x[i] = w[i + 1]
  <2> SUFFICES ASSUME NEW i \in 1 .. n - 1 PROVE x[i] = w[i + 1]
    OBVIOUS
  <2>1. i - 1 \in 0 .. EVENT_QUEUE_SIZE - 1 /\ i + 1 \in 1 .. n
        /\ i + 1 - 1 = (i - 1) + 1
    BY <1>1, BusAssumption
  <2>2. SlotAt(f, (i - 1) + 1) = SlotAt(Succ(f), i - 1)
    BY <2>1, RingNext
  <2>3. QED
    BY <1>2, <1>3, <2>1, <2>2
<1>7. /\ Tail(w) \in Seq(SlotValues) /\ Len(Tail(w)) = n - 1
      /\ \A i \in 1 .. n - 1 : Tail(w)[i] = w[i + 1]
  BY <1>1, <1>2, <1>4
<1>8. x = Tail(w)
  BY <1>3, <1>6, <1>7, SeqEqual
<1>9. QED
  BY <1>4, <1>5, <1>8

(***************************************************************************)
(* The two steps that change the queue.  Storing the counter after a slot  *)
(* has been written appends; storing it after the tail has moved removes   *)
(* the head.                                                               *)
(***************************************************************************)

(* First is a slot.                                                        *)
LEMMA FirstType == TypeOK => First \in Slots
<1>1. TypeOK => queueTail \in Slots
  BY DEF TypeOK
<1>2. queueTail \in Slots => Pred(queueTail) \in Slots
  BY RingForth
<1>3. QED
  BY <1>1, <1>2 DEF First

LEMMA AcceptStep ==
  ASSUME TypeOK, TypeOK', NEW e \in Events,
         queueSize < EVENT_QUEUE_SIZE, queueSize' = queueSize + 1,
         First' = First, eventQueue' = [eventQueue EXCEPT ![End] = e]
  PROVE  /\ Pending' = Append(Pending, e)
         /\ End' = Succ(End)
         /\ Len(Pending) < EVENT_QUEUE_SIZE
<1>1. /\ eventQueue \in [Slots -> SlotValues] /\ eventQueue' \in [Slots -> SlotValues]
      /\ First \in Slots /\ e \in SlotValues
  BY FirstType DEF TypeOK, SlotValues
<1>2. queueSize \in 0 .. EVENT_QUEUE_SIZE - 1 /\ queueSize \in 0 .. EVENT_QUEUE_SIZE
  BY BusAssumption DEF TypeOK
<1>3. Pending' = Window(eventQueue', First, queueSize')
  BY DEF Pending
<1>4. Pending' = Append(Pending, e)
  <2>1. Pending' = Window([eventQueue EXCEPT ![SlotAt(First, queueSize)] = e],
                          First, queueSize + 1)
    BY <1>3 DEF End
  <2>2. Window([eventQueue EXCEPT ![SlotAt(First, queueSize)] = e], First, queueSize + 1)
          = Append(Window(eventQueue, First, queueSize), e)
    BY ONLY <1>1, <1>2, WindowAppend, Zenon
  <2>3. QED
    BY <2>1, <2>2 DEF Pending
<1>5. End' = Succ(End)
  BY <1>1, <1>2, RingNext DEF End
<1>6. Len(Pending) = queueSize
  BY <1>1, <1>2, WindowValue DEF Pending
<1>7. QED
  BY <1>4, <1>5, <1>6

LEMMA DispatchStep ==
  ASSUME TypeOK, TypeOK',
         queueSize >= 1, queueSize <= EVENT_QUEUE_SIZE, queueSize' = queueSize - 1,
         First' = Succ(First), UNCHANGED eventQueue
  PROVE  /\ Pending # <<>>
         /\ Head(Pending) = eventQueue[First]
         /\ Pending' = Tail(Pending)
         /\ End' = End
<1>1. eventQueue \in [Slots -> SlotValues] /\ First \in Slots
  BY FirstType DEF TypeOK
<1>2. queueSize \in 1 .. EVENT_QUEUE_SIZE /\ queueSize - 1 \in 0 .. EVENT_QUEUE_SIZE - 1
      /\ queueSize - 1 + 1 = queueSize
  BY BusAssumption DEF TypeOK
<1>3. Pending' = Window(eventQueue, Succ(First), queueSize - 1)
  BY DEF Pending
<1>4. /\ Pending # <<>> /\ Head(Pending) = eventQueue[First]
      /\ Pending' = Tail(Pending)
  BY <1>1, <1>2, <1>3, WindowTail DEF Pending
<1>5. SlotAt(First, queueSize - 1 + 1) = SlotAt(Succ(First), queueSize - 1)
  BY <1>1, <1>2, RingNext
<1>6. QED
  BY <1>2, <1>4, <1>5 DEF End

(* Writing the slot after the counted ones does not disturb them.          *)
LEMMA SlotWriteStep ==
  ASSUME TypeOK, TypeOK', queueSize < EVENT_QUEUE_SIZE, UNCHANGED queueSize,
         First' = First, NEW e, eventQueue' = [eventQueue EXCEPT ![End] = e]
  PROVE  Pending' = Pending
<1>1. /\ eventQueue \in [Slots -> SlotValues] /\ eventQueue' \in [Slots -> SlotValues]
      /\ First \in Slots
  BY FirstType DEF TypeOK
<1>2. queueSize \in 0 .. EVENT_QUEUE_SIZE - 1 /\ queueSize \in 0 .. EVENT_QUEUE_SIZE
  BY BusAssumption DEF TypeOK
<1>3. \A i \in 1 .. queueSize :
        eventQueue'[SlotAt(First, i - 1)] = eventQueue[SlotAt(First, i - 1)]
  <2> SUFFICES ASSUME NEW i \in 1 .. queueSize
               PROVE  eventQueue'[SlotAt(First, i - 1)] = eventQueue[SlotAt(First, i - 1)]
    OBVIOUS
  <2>1. /\ i - 1 \in 0 .. EVENT_QUEUE_SIZE - 1 /\ i - 1 # queueSize
        /\ i - 1 \in 0 .. EVENT_QUEUE_SIZE
    BY <1>2, BusAssumption
  <2>2. SlotAt(First, i - 1) \in Slots /\ SlotAt(First, i - 1) # End
    BY <1>1, <1>2, <2>1, RingWalk, RingDistinct DEF End
  <2>3. QED
    BY <1>1, <2>2
<1>4. QED
  BY <1>3 DEF Pending, Window

(* A step that leaves slots, counter and oldest slot alone leaves the      *)
(* counted events alone.                                                   *)
LEMMA FrameStep ==
  ASSUME UNCHANGED <<eventQueue, queueSize>>, First' = First
  PROVE  Pending' = Pending /\ End' = End
BY DEF Pending, End

(* Pending has queueSize elements.                                         *)
LEMMA PendingLength ==
  ASSUME TypeOK, queueSize <= EVENT_QUEUE_SIZE
  PROVE  Pending \in Seq(SlotValues) /\ Len(Pending) = queueSize
<1>1. eventQueue \in [Slots -> SlotValues] /\ First \in Slots
  BY FirstType DEF TypeOK
<1>2. queueSize \in 0 .. EVENT_QUEUE_SIZE
  BY BusAssumption DEF TypeOK
<1>3. QED
  BY <1>1, <1>2, WindowValue DEF Pending

(* The actions that write neither slots, indices nor counter.              *)
Calm ==
  \/ \E h \in Handlers : Subscribe(h)
  \/ \E e \in Events : PublishCheck(e)
  \/ Reload \/ PollCheck \/ TakeSlot \/ HandlerReturn
  \/ UNCHANGED vars

LEMMA CalmStep ==
  ASSUME TypeOK, RingOK, Calm
  PROVE  RingOK' /\ Pending' = Pending
<1> USE DEF Outside, Publishing, Taking, ring, main
<1>1. UNCHANGED <<eventQueue, queueHead, queueTail, queueSize>>
  BY DEF Calm, Subscribe, PublishCheck, Reload, PollCheck, TakeSlot, HandlerReturn, vars
<1>2. (pc = "take_size") <=> (pc' = "take_size")
  BY DEF Calm, Subscribe, PublishCheck, Reload, PollCheck, TakeSlot, HandlerReturn, vars,
         TypeOK
<1>3. First' = First
  BY <1>1, <1>2 DEF First
<1>4. Pending' = Pending /\ End' = End
  BY <1>1, <1>3, FrameStep
<1>5. \A i \in 1 .. queueSize : Pending[i] \in Events
  BY DEF RingOK
<1>6. eventQueue'[End'] = eventQueue[End] /\ eventQueue'[First'] = eventQueue[First]
  BY <1>1, <1>3, <1>4
<1> DEFINE R == /\ queueSize <= EVENT_QUEUE_SIZE
                /\ pc \in Publishing => queueSize < EVENT_QUEUE_SIZE
                /\ pc \in Taking => queueSize >= 1
                /\ pc \in Publishing \cup Taking => sizeReg = queueSize
                /\ pc = "pub_head" => headReg = queueHead
                /\ queueHead = IF pc = "pub_size" THEN Succ(End) ELSE End
                /\ pc \in {"pub_head", "pub_size"} => eventQueue[End] = pub
                /\ pc \in {"take_tail", "take_size"} => currentEvent = eventQueue[First]
                /\ pc \in Publishing => pub \in Events
                /\ InHandlers => currentEvent \in Events
<1>7. R
  BY DEF RingOK
<1>8. ASSUME NEW h \in Handlers, Subscribe(h) PROVE R'
  BY <1>1, <1>4, <1>6, <1>7, <1>8 DEF Subscribe, InHandlers
<1>9. ASSUME NEW e \in Events, PublishCheck(e) PROVE R'
  BY <1>1, <1>4, <1>6, <1>7, <1>9 DEF PublishCheck, InHandlers
<1>10. ASSUME Reload PROVE R'
  BY <1>1, <1>4, <1>6, <1>7, <1>10 DEF Reload, InHandlers
<1>11. ASSUME PollCheck PROVE R'
  BY <1>1, <1>4, <1>6, <1>7, <1>11, BusAssumption DEF PollCheck, InHandlers, TypeOK
<1>12. ASSUME TakeSlot PROVE R'
  <2>1. First = queueTail
    BY <1>12 DEF TakeSlot, First
  <2>2. QED
    BY <1>1, <1>4, <1>6, <1>7, <1>12, <2>1 DEF TakeSlot, InHandlers
<1>13. ASSUME HandlerReturn PROVE R'
  BY <1>1, <1>4, <1>6, <1>7, <1>13 DEF HandlerReturn, InHandlers
<1>14. ASSUME UNCHANGED vars PROVE R'
  BY <1>1, <1>4, <1>6, <1>7, <1>14 DEF vars, InHandlers
<1>15. R'
  BY <1>8, <1>9, <1>10, <1>11, <1>12, <1>13, <1>14 DEF Calm
<1>16. (\A i \in 1 .. queueSize : Pending[i] \in Events)'
  BY <1>1, <1>4, <1>5
<1>17. QED
  BY <1>4, <1>15, <1>16 DEF RingOK

(* The actions that write a slot, an index or the counter, one at a time:  *)
(* each keeps the ring in order and says what becomes of the counted       *)
(* events.                                                                 *)
LEMMA PublishSlotStep ==
  ASSUME TypeOK, TypeOK', RingOK, PublishSlot
  PROVE  RingOK' /\ Pending' = Pending
<1> USE DEF PublishSlot, Outside, Publishing, Taking
<1>1. queueHead = End /\ queueSize < EVENT_QUEUE_SIZE /\ First' = First
  BY DEF RingOK, First
<1>2. eventQueue' = [eventQueue EXCEPT ![End] = pub]
  BY <1>1
<1>3. Pending' = Pending
  BY <1>1, <1>2, SlotWriteStep
<1>4. End' = End
  BY <1>1 DEF End
<1>5. eventQueue'[End'] = pub
  BY <1>1, <1>2, <1>4 DEF TypeOK
<1>6. (\A i \in 1 .. queueSize : Pending[i] \in Events)'
  BY <1>3 DEF RingOK
<1>7. QED
  BY <1>1, <1>3, <1>4, <1>5, <1>6 DEF RingOK, InHandlers

LEMMA PublishHeadStep ==
  ASSUME TypeOK, TypeOK', RingOK, PublishHead
  PROVE  RingOK' /\ Pending' = Pending
<1> USE DEF PublishHead, Outside, Publishing, Taking
<1>1. First' = First
  BY DEF First
<1>2. Pending' = Pending /\ End' = End
  BY <1>1, FrameStep
<1>3. queueHead' = Succ(End')
  BY <1>2 DEF RingOK
<1>4. (\A i \in 1 .. queueSize : Pending[i] \in Events)'
  BY <1>2 DEF RingOK
<1>5. eventQueue'[End'] = pub'
  BY <1>2 DEF RingOK
<1>6. QED
  BY <1>2, <1>3, <1>4, <1>5 DEF RingOK, InHandlers

(* An appended sequence has the old elements and the new one.              *)
LEMMA AppendRange ==
  ASSUME NEW S, NEW s \in Seq(S), NEW T, NEW e \in T, \A i \in 1 .. Len(s) : s[i] \in T
  PROVE  \A i \in 1 .. Len(s) + 1 : Append(s, e)[i] \in T
OBVIOUS

LEMMA PublishSizeStep ==
  ASSUME TypeOK, TypeOK', RingOK, PublishSize
  PROVE  /\ RingOK'
         /\ pub \in Events /\ Len(Pending) < EVENT_QUEUE_SIZE
         /\ Pending' = Append(Pending, pub)
<1> USE DEF PublishSize, Outside, Publishing, Taking
<1>1. /\ pub \in Events /\ queueSize < EVENT_QUEUE_SIZE /\ sizeReg = queueSize
      /\ queueHead = Succ(End) /\ eventQueue[End] = pub /\ First' = First
  BY DEF RingOK, First, TypeOK
<1>2. queueSize' = queueSize + 1
  BY <1>1, ByteExact, BusAssumption DEF TypeOK
<1>3. eventQueue' = [eventQueue EXCEPT ![End] = pub]
  BY <1>1 DEF TypeOK
<1>4. /\ Pending' = Append(Pending, pub) /\ End' = Succ(End)
      /\ Len(Pending) < EVENT_QUEUE_SIZE
  BY <1>1, <1>2, <1>3, AcceptStep
<1>5. Pending \in Seq(SlotValues) /\ Len(Pending) = queueSize
  BY <1>1, PendingLength, BusAssumption DEF TypeOK
<1>6. (\A i \in 1 .. queueSize : Pending[i] \in Events)'
  BY <1>1, <1>2, <1>4, <1>5, AppendRange DEF RingOK
<1>7. queueHead' = End' /\ queueSize' <= EVENT_QUEUE_SIZE
  BY <1>1, <1>2, <1>4, BusAssumption DEF TypeOK
<1>8. QED
  BY <1>1, <1>4, <1>6, <1>7 DEF RingOK, InHandlers, TypeOK

LEMMA TakeTailStep ==
  ASSUME TypeOK, TypeOK', RingOK, TakeTail
  PROVE  RingOK' /\ Pending' = Pending
<1> USE DEF TakeTail, Outside, Publishing, Taking
<1>1. First = queueTail /\ First' = Pred(Succ(queueTail)) /\ queueTail \in Slots
  BY DEF First, TypeOK
<1>2. First' = First
  BY <1>1, RingBack
<1>3. Pending' = Pending /\ End' = End
  BY <1>2, FrameStep
<1>4. (\A i \in 1 .. queueSize : Pending[i] \in Events)'
  BY <1>3 DEF RingOK
<1>5. QED
  BY <1>2, <1>3, <1>4 DEF RingOK, InHandlers

LEMMA TakeSizeStep ==
  ASSUME TypeOK, TypeOK', RingOK, TakeSize
  PROVE  /\ RingOK'
         /\ Pending # <<>> /\ Head(Pending) = currentEvent
         /\ Pending' = Tail(Pending)
<1> USE DEF TakeSize, Outside, Publishing, Taking
<1>1. /\ queueSize >= 1 /\ queueSize <= EVENT_QUEUE_SIZE /\ sizeReg = queueSize
      /\ queueHead = End /\ currentEvent = eventQueue[First]
  BY DEF RingOK
<1>2. queueSize' = queueSize - 1
  BY <1>1, ByteExact, BusAssumption DEF TypeOK
<1>3. First' = Succ(First)
  BY RingForth DEF First, TypeOK
<1>4. /\ Pending # <<>> /\ Head(Pending) = currentEvent
      /\ Pending' = Tail(Pending) /\ End' = End
  BY <1>1, <1>2, <1>3, DispatchStep
<1>5. Pending \in Seq(SlotValues) /\ Len(Pending) = queueSize
  BY <1>1, PendingLength
<1>6. \A i \in 1 .. queueSize : Pending[i] \in Events
  BY DEF RingOK
<1>7. \A i \in 1 .. queueSize - 1 : Tail(Pending)[i] = Pending[i + 1]
  BY <1>4, <1>5
<1>8. \A i \in 1 .. queueSize - 1 : i + 1 \in 1 .. queueSize
  BY <1>1, BusAssumption DEF TypeOK
<1>9. (\A i \in 1 .. queueSize : Pending[i] \in Events)'
  BY <1>2, <1>4, <1>6, <1>7, <1>8
<1>10. currentEvent \in Events
  <2>1. Head(Pending) = Pending[1] /\ 1 \in 1 .. queueSize
    BY <1>1, <1>4, <1>5, BusAssumption DEF TypeOK
  <2>2. QED
    BY <1>4, <1>6, <2>1
<1>11. queueSize' <= EVENT_QUEUE_SIZE
  BY <1>1, <1>2, BusAssumption DEF TypeOK
<1>12. QED
  BY <1>1, <1>4, <1>9, <1>10, <1>11 DEF RingOK, InHandlers

LEMMA IsrPublishStep ==
  ASSUME TypeOK, TypeOK', RingOK, NEW e \in IsrEvents, IsrPublish(e),
         pc \notin Publishing \cup Taking
  PROVE  /\ RingOK'
         /\ Len(Pending) < EVENT_QUEUE_SIZE
         /\ Pending' = Append(Pending, e)
<1> USE DEF IsrPublish, Outside, Publishing, Taking, main
<1>1. /\ queueHead = End /\ queueSize < EVENT_QUEUE_SIZE /\ First' = First
      /\ UNCHANGED pc /\ e \in Events
  BY BusAssumption DEF RingOK, First
<1>2. queueSize' = queueSize + 1
  BY <1>1, ByteExact, BusAssumption DEF TypeOK
<1>3. eventQueue' = [eventQueue EXCEPT ![End] = e]
  BY <1>1
<1>4. /\ Pending' = Append(Pending, e) /\ End' = Succ(End)
      /\ Len(Pending) < EVENT_QUEUE_SIZE
  BY <1>1, <1>2, <1>3, AcceptStep
<1>5. Pending \in Seq(SlotValues) /\ Len(Pending) = queueSize
  BY <1>1, PendingLength, BusAssumption DEF TypeOK
<1>6. (\A i \in 1 .. queueSize : Pending[i] \in Events)'
  BY <1>1, <1>2, <1>4, <1>5, AppendRange DEF RingOK
<1>7. queueHead' = End' /\ queueSize' <= EVENT_QUEUE_SIZE
  BY <1>1, <1>2, <1>4, BusAssumption DEF TypeOK
<1>8. QED
  BY <1>1, <1>4, <1>6, <1>7 DEF RingOK, InHandlers

(* Until a race, every step keeps the ring in order.                       *)
LEMMA NextRingInv == TypeOK /\ TypeOK' /\ RingInv /\ [Next]_vars => RingInv'
<1> SUFFICES ASSUME TypeOK, TypeOK', RingInv, [Next]_vars, ~raced'
             PROVE  RingOK'
  BY DEF RingInv
<1>1. ~raced
  BY DEF Next, vars, main, ring, Subscribe, PublishCheck, PublishSlot, PublishHead,
     PublishSize, Reload, PollCheck, TakeSlot, TakeTail, TakeSize, HandlerReturn, IsrPublish
<1>2. RingOK
  BY <1>1 DEF RingInv
<1>3. ASSUME NEW e \in IsrEvents, IsrPublish(e) PROVE RingOK'
  <2>1. pc \notin Publishing \cup Taking
    BY <1>3 DEF IsrPublish
  <2>2. QED
    BY <1>2, <1>3, <2>1, IsrPublishStep
<1>4. QED
  BY <1>2, <1>3, CalmStep, PublishSlotStep, PublishHeadStep, PublishSizeStep,
     TakeTailStep, TakeSizeStep DEF Next, Calm

LEMMA InitRingInv == Init => RingInv
<1> SUFFICES ASSUME Init PROVE RingOK
  BY DEF RingInv
<1>1. First = 0 /\ queueSize = 0 /\ queueHead = 0 /\ pc = "idle"
  BY DEF Init, First
<1>2. SlotAt(0, 0) = 0
  BY RingWalk, BusAssumption DEF Slots
<1>3. QED
  BY <1>1, <1>2, BusAssumption DEF RingOK, End, InHandlers, Publishing, Taking

(* The ring invariant holds until the first race.                          *)
THEOREM RingCorrect == Spec => []RingInv
<1>1. QED
  BY InitRingInv, NextRingInv, TypeCorrect, PTL DEF Spec

(* Until an interrupt hits a read-modify-write of the superloop, the       *)
(* counter is the distance from the tail to the head.                      *)
THEOREM CounterIsDistance == Spec => []Occupancy
<1>1. RingInv => Occupancy
  BY DEF RingInv, RingOK, Occupancy, End, First, Publishing, Taking
<1>2. QED
  BY <1>1, RingCorrect, PTL

\* An event is left behind in the ring only after a race.
LeftBehindByRace == ~raced => NothingLeftBehind

(* The race is the only way to leave an event behind: interrupts that hit  *)
(* no read-modify-write, reentrant publications and the counter's overshoot*)
(* do not, for any size of the ring.                                       *)
THEOREM OnlyRacesLeaveBehind == Spec => []LeftBehindByRace
<1>1. TypeOK /\ Occupancy => LeftBehindByRace
  <2> SUFFICES ASSUME TypeOK, Occupancy, ~raced, pc = "idle", queueSize = 0
               PROVE  queueHead = queueTail
    BY DEF LeftBehindByRace, NothingLeftBehind
  <2>1. queueHead = SlotAt(queueTail, 0)
    BY DEF Occupancy, Publishing, Taking
  <2>2. queueTail \in Slots
    BY DEF TypeOK
  <2>3. 0 \in 0 .. EVENT_QUEUE_SIZE
    BY BusAssumption
  <2>4. SlotAt(queueTail, 0) = IF queueTail + 0 >= EVENT_QUEUE_SIZE THEN queueTail + 0 - EVENT_QUEUE_SIZE
                               ELSE queueTail + 0
    BY <2>2, <2>3, RingWalk
  <2>5. QED
    BY <2>1, <2>2, <2>4, BusAssumption DEF Slots
<1>2. QED
  BY <1>1, TypeCorrect, CounterIsDistance, PTL

(***************************************************************************)
(* Refinement: until a race, every step of the ring buffer is a step of    *)
(* the bounded queue, or changes neither queue nor current event.          *)
(***************************************************************************)
LEMMA BusInit == Init => Bus!Init
<1> SUFFICES ASSUME Init PROVE Bus!Init
  OBVIOUS
<1>1. TypeOK /\ queueSize = 0 /\ Dispatched = NoEvent
  BY InitTypeOK DEF Init, Dispatched, InHandlers, Publishing
<1>2. Pending = <<>>
  BY <1>1, PendingLength, BusAssumption
<1>3. QED
  BY <1>1, <1>2 DEF Bus!Init

LEMMA BusNext ==
  ASSUME TypeOK, TypeOK', RingInv, [Next]_vars
  PROVE  [Bus!Next \/ raced']_(Bus!vars)
<1> SUFFICES ASSUME ~raced' PROVE [Bus!Next]_(Bus!vars)
  OBVIOUS
<1> USE DEF Outside, Publishing, Taking, Dispatched, InHandlers, Bus!vars
<1>1. ~raced
  BY DEF Next, vars, main, ring, Subscribe, PublishCheck, PublishSlot, PublishHead,
     PublishSize, Reload, PollCheck, TakeSlot, TakeTail, TakeSize, HandlerReturn, IsrPublish
<1>2. RingOK
  BY <1>1 DEF RingInv
<1>3. InHandlers => currentEvent # NoEvent
  BY <1>2, BusAssumption DEF RingOK
<1>4. ASSUME NEW h \in Handlers, Subscribe(h) PROVE UNCHANGED Bus!vars
  BY <1>2, <1>4, CalmStep DEF Calm, Subscribe, main
<1>5. ASSUME NEW e \in Events, PublishCheck(e) PROVE UNCHANGED Bus!vars
  BY <1>2, <1>5, CalmStep DEF Calm, PublishCheck
<1>6. CASE PublishSlot
  BY <1>2, <1>6, PublishSlotStep DEF PublishSlot
<1>7. CASE PublishHead
  BY <1>2, <1>7, PublishHeadStep DEF PublishHead
<1>8. ASSUME PublishSize PROVE Bus!Accept(pub) /\ pub \in Events
  <2>1. /\ pub \in Events /\ Len(Pending) < EVENT_QUEUE_SIZE
        /\ Pending' = Append(Pending, pub)
    BY <1>2, <1>8, PublishSizeStep
  <2>2. UNCHANGED Dispatched
    BY <1>8 DEF PublishSize, TypeOK
  <2>3. QED
    BY <2>1, <2>2 DEF Bus!Accept
<1>9. CASE Reload
  BY <1>2, <1>9, CalmStep DEF Calm, Reload
<1>10. CASE PollCheck
  BY <1>2, <1>10, CalmStep DEF Calm, PollCheck
<1>11. CASE TakeSlot
  BY <1>2, <1>11, CalmStep DEF Calm, TakeSlot
<1>12. CASE TakeTail
  BY <1>2, <1>12, TakeTailStep DEF TakeTail
<1>13. ASSUME TakeSize PROVE Bus!Dispatch
  <2>1. Dispatched = NoEvent /\ Dispatched' = currentEvent
    BY <1>13 DEF TakeSize
  <2>2. QED
    BY <1>2, <1>13, <2>1, TakeSizeStep DEF Bus!Dispatch
<1>14. ASSUME HandlerReturn PROVE UNCHANGED Bus!vars \/ Bus!Finish
  <2>1. Pending' = Pending
    BY <1>2, <1>14, CalmStep DEF Calm
  <2>2. Dispatched = currentEvent /\ currentEvent # NoEvent
    BY <1>3, <1>14 DEF HandlerReturn
  <2>3. Dispatched' = Dispatched \/ Dispatched' = NoEvent
    BY <1>14 DEF HandlerReturn
  <2>4. QED
    BY <2>1, <2>2, <2>3 DEF Bus!Finish
<1>15. ASSUME NEW e \in IsrEvents, IsrPublish(e) PROVE Bus!Accept(e) /\ e \in Events
  <2>1. pc \notin Publishing \cup Taking
    BY <1>15 DEF IsrPublish
  <2>2. Len(Pending) < EVENT_QUEUE_SIZE /\ Pending' = Append(Pending, e)
    BY <1>2, <1>15, <2>1, IsrPublishStep
  <2>3. UNCHANGED Dispatched
    BY <1>15 DEF IsrPublish, main
  <2>4. QED
    BY <2>2, <2>3, BusAssumption DEF Bus!Accept
<1>16. CASE UNCHANGED vars
  BY <1>2, <1>16, CalmStep DEF Calm, vars, main
<1>17. QED
  BY <1>4, <1>5, <1>6, <1>7, <1>8, <1>9, <1>10, <1>11, <1>12, <1>13, <1>14, <1>15,
     <1>16 DEF Next, Bus!Next

(* The ring buffer implements the bounded first-in first-out queue until   *)
(* an interrupt hits one of the superloop's read-modify-writes.            *)
THEOREM ImplementsFifo == Spec => FifoUntilRaced
<1>1. TypeOK /\ TypeOK' /\ RingInv /\ [Next]_vars => [Bus!Next \/ raced']_(Bus!vars)
  BY BusNext
<1>2. QED
  BY <1>1, BusInit, TypeCorrect, RingCorrect, PTL DEF Spec, FifoUntilRaced
=============================================================================
