--------------------------- MODULE PanelBusProofs ---------------------------
(***************************************************************************)
(* Theorems about the two buses, for every set of frames and statuses,     *)
(* every number of matching bindings and every size of the event queue.    *)
(***************************************************************************)
EXTENDS PanelBus, TLAPS

(***************************************************************************)
(* Type correctness.  The superloop has something left to execute wherever *)
(* it executes.                                                            *)
(***************************************************************************)
HasJob == pc \notin {"idle", "check"} => left > 0

LEMMA QueueSize == EVENT_QUEUE_SIZE \in Nat
BY BusAssumption

LEMMA NothingType == Nothing \in Contents /\ Nothing.part = 0
BY DEF Nothing, Contents

\* The contents of the buffers are what their DMA or the superloop put there.
LEMMA PlacesType ==
  /\ Same(Nothing) \in [1 .. 2 -> Contents]
  /\ \A x \in Statuses : Same(x) \in [1 .. 2 -> Statuses \cup {Blank}]
  /\ Same(Blank) \in [1 .. 2 -> Statuses \cup {Blank}]
  /\ Same(Blank) \in [1 .. 2 -> Sent]
BY NothingType DEF Same, Sent

LEMMA InitType == Init => TypeOK /\ HasJob
<1> SUFFICES ASSUME Init PROVE TypeOK /\ HasJob
  OBVIOUS
<1>1. sender \in {Nothing} \cup [frame : Frames, part : {1}] /\ rxBuf \in [1 .. 2 -> Contents]
  BY PlacesType DEF Init
<1>2. status \in Statuses /\ txBuf \in [1 .. 2 -> Statuses \cup {Blank}] /\ out \in [1 .. 2 -> Sent]
  BY PlacesType, BusAssumption DEF Init
<1>3. rxCount \in 0 .. 2 /\ queued \in 0 .. EVENT_QUEUE_SIZE /\ dma \in 0 .. 2 /\ left \in Nat
  BY BusAssumption DEF Init
<1>4. QED
  BY <1>1, <1>2, <1>3 DEF Init, TypeOK, HasJob

\* The part of a frame that comes next is its first or its second.
LEMMA PartNumber ==
  ASSUME TypeOK
  PROVE  sender.part \in 0 .. 1 /\ (sender.part = 0 => sender = Nothing)
BY NothingType DEF TypeOK, Nothing

LEMMA PanelPartType ==
  ASSUME TypeOK, NEW f \in Frames, PanelPart(f)
  PROVE  /\ sender' \in {Nothing} \cup [frame : Frames, part : {1}]
         /\ rxBuf' \in [1 .. 2 -> Contents] /\ rxCount' \in 0 .. 2
         /\ unseen' \in BOOLEAN /\ owed' \in Frames \cup {NoFrame}
<1> DEFINE p == sender.part + 1
           place == [frame |-> f, part |-> p]
<1>1. p \in 1 .. 2
  BY PartNumber
<1>2. place \in Contents
  BY <1>1 DEF Contents
<1>3. sender' \in {Nothing} \cup [frame : Frames, part : {1}]
  BY <1>1 DEF PanelPart
<1>4. rxBuf' \in [1 .. 2 -> Contents]
  BY <1>2, NothingType DEF PanelPart, TypeOK, rx
<1>5. rxCount' = rxCount \/ (rxCount < 2 /\ rxCount' = rxCount + 1) \/ rxCount' = 1
  BY DEF PanelPart, rx
<1>6. rxCount' \in 0 .. 2
  BY <1>5 DEF TypeOK
<1>7. unseen' \in BOOLEAN
  BY DEF PanelPart, TypeOK, rx
<1>8. owed' \in Frames \cup {NoFrame}
  BY DEF PanelPart, TypeOK
<1>9. QED
  BY <1>3, <1>4, <1>6, <1>7, <1>8

\* A frame that is acted on is a panel's, so that its bindings are a number.
LEMMA CheckType ==
  ASSUME TypeOK, HasJob, Check
  PROVE  /\ left' \in Nat /\ job' \in {"none", "scene", "knob", "extend"}
         /\ pc' \in {"next", "idle"} /\ (pc' = "next" => left' > 0)
         /\ owed' \in Frames \cup {NoFrame}
<1> DEFINE f == rxBuf[2].frame
<1>1. rxBuf[2] \in Contents
  BY DEF TypeOK
<1>2. Sound(f) => f \in Frames
  BY <1>1 DEF Sound, Contents, Nothing
<1>3. Sound(f) => Matches[f] \in Nat
  BY <1>2, BusAssumption
<1>4. left' \in Nat /\ pc' \in {"next", "idle"} /\ (pc' = "next" => left' > 0)
  BY <1>3 DEF Check, TypeOK
<1>5. job' \in {"none", "scene", "knob", "extend"}
  BY DEF Check, Executes, TypeOK
<1>6. owed' \in Frames \cup {NoFrame}
  BY DEF Check, TypeOK
<1>7. QED
  BY <1>4, <1>5, <1>6

LEMMA NextType == TypeOK /\ HasJob /\ [Next]_vars => (TypeOK /\ HasJob)'
<1> SUFFICES ASSUME TypeOK, HasJob, [Next]_vars PROVE TypeOK' /\ HasJob'
  OBVIOUS
<1> USE DEF TypeOK, HasJob
<1>1. CASE \E f \in Frames : PanelPart(f)
  <2> PICK f \in Frames : PanelPart(f)
    BY <1>1
  <2>1. UNCHANGED <<listening, queued, status, txBuf, src, dma, pin, out, pin3, tail3, before, pc, job, left>>
    BY DEF PanelPart, tx, ext, main
  <2>2. QED
    BY <2>1, PanelPartType
<1>2. CASE IsrIdle
  <2>1. queued' \in 0 .. EVENT_QUEUE_SIZE
    BY <1>2, QueueSize DEF IsrIdle
  <2>2. rxCount' \in 0 .. 2 /\ owed' \in Frames \cup {NoFrame}
    BY <1>2 DEF IsrIdle
  <2>3. unseen' \in BOOLEAN
    BY <1>2 DEF IsrIdle
  <2>4. UNCHANGED <<sender, rxBuf, listening, status, txBuf, src, dma, pin, out, pin3, tail3,
                    before, pc, job, left>>
    BY <1>2 DEF IsrIdle, panels, tx, ext, main
  <2>5. QED
    BY <2>1, <2>2, <2>3, <2>4
<1>3. CASE DmaHalf
  <2>1. 3 - dma \in 1 .. 2 /\ dma' \in 0 .. 2
    BY <1>3 DEF DmaHalf
  <2>2. out' \in [1 .. 2 -> Sent]
    BY <1>3, <2>1 DEF DmaHalf, Sent
  <2>3. QED
    BY <1>3, <2>1, <2>2 DEF DmaHalf, panels, rx, ext, main
<1>4. CASE IsrSent
  <2>1. pin' \in BOOLEAN /\ listening' \in BOOLEAN
    BY <1>4 DEF IsrSent
  <2>2. UNCHANGED <<sender, rxBuf, rxCount, unseen, queued, status, txBuf, src, dma, out, pin3,
                    tail3, before, pc, job, left, owed>>
    BY <1>4 DEF IsrSent, panels, rx, ext, main
  <2>3. QED
    BY <2>1, <2>2
<1>5. CASE IsrSent3
  <2>1. tail3' \in BOOLEAN /\ pin3' \in BOOLEAN /\ before' \in {"none", "scene", "knob", "extend"}
    BY <1>5 DEF IsrSent3
  <2>2. UNCHANGED <<sender, rxBuf, rxCount, unseen, listening, queued, status, txBuf, src, dma,
                    pin, out, pc, job, left, owed>>
    BY <1>5 DEF IsrSent3, panels, rx, tx, main
  <2>3. QED
    BY <2>1, <2>2
<1>6. CASE Request
  BY <1>6 DEF Request, panels, rx, tx, ext
<1>7. CASE Poll
  BY <1>7, QueueSize DEF Poll, panels, rx, tx, ext
<1>8. CASE Check
  BY <1>8, CheckType DEF Check, panels, rx, tx, ext
<1>9. CASE BuildPanelFrame
  <2>1. status' \in Statuses /\ txBuf' \in [1 .. 2 -> Statuses \cup {Blank}]
    BY <1>9, PlacesType DEF BuildPanelFrame
  <2>2. QED
    BY <1>9, <2>1 DEF BuildPanelFrame, panels, rx, tx, ext
<1>10. CASE NoScene \/ RaisePin3
  <2>1. pc' \in {"icons", "data"} /\ pin3' \in BOOLEAN /\ left > 0
    BY <1>10 DEF NoScene, RaisePin3, ext
  <2>2. UNCHANGED <<sender, rxBuf, rxCount, unseen, listening, queued, status, txBuf, src, dma,
                    pin, out, tail3, before, job, left, owed>>
    BY <1>10 DEF NoScene, RaisePin3, panels, rx, tx, ext
  <2>3. QED
    BY <2>1, <2>2
<1>11. CASE Send
  <2>1. src' \in {"reset", "status"} /\ dma' \in 0 .. 2 /\ out' \in [1 .. 2 -> Sent]
    BY <1>11, PlacesType DEF Send
  <2>2. QED
    BY <1>11, <2>1 DEF Send, panels, rx, ext
<1>12. CASE WriteExt
  BY <1>12 DEF WriteExt, Done, panels, rx, tx
<1>13. CASE Icons
  BY <1>13 DEF Icons, Done, panels, rx, tx, ext
<1>14. CASE UNCHANGED vars
  BY <1>14 DEF vars, panels, rx, tx, ext, main
<1>15. QED
  BY <1>1, <1>2, <1>3, <1>4, <1>5, <1>6, <1>7, <1>8, <1>9, <1>10, <1>11, <1>12, <1>13, <1>14
  DEF Next, Running

(* Every variable keeps its type, whatever panels, interrupts, DMA and     *)
(* superloop do: the event queue is never overfull, and what the superloop *)
(* is through with it has begun.                                           *)
THEOREM TypeCorrect == Spec => [](TypeOK /\ HasJob)
<1>1. QED
  BY InitType, NextType, PTL DEF Spec

(***************************************************************************)
(* What the panels know.  The host drives the bus exactly while it does    *)
(* not listen, and as long as the DMA has something to fetch.  Once a      *)
(* status is sent, the buffer holds the host's status, and so does what    *)
(* the DMA has fetched, unless the superloop waits with a newer one.       *)
(***************************************************************************)
Driving == (pin <=> ~listening) /\ (dma > 0 => pin)

BufferIsStatus == src = "status" \/ pc = "wait" => txBuf = Same(status)

FetchedIsStatus ==
  src = "status" /\ pc # "wait" => \A h \in 1 .. 2 : h <= 2 - dma => out[h] = status

StatusInv == Driving /\ BufferIsStatus /\ FetchedIsStatus

LEMMA InitStatus == Init => StatusInv
BY DEF Init, StatusInv, Driving, BufferIsStatus, FetchedIsStatus

\* What the DMA fetches of a status is the status.
LEMMA FetchStatus ==
  ASSUME TypeOK, StatusInv, DmaHalf
  PROVE  FetchedIsStatus'
<1> SUFFICES ASSUME src' = "status", pc' # "wait", NEW h \in 1 .. 2, h <= 2 - dma'
             PROVE  out'[h] = status'
  BY DEF FetchedIsStatus
<1>1. src = "status" /\ pc # "wait" /\ status' = status
  BY DEF DmaHalf, main
<1>2. txBuf[3 - dma] = status
  BY <1>1 DEF DmaHalf, StatusInv, BufferIsStatus, Same, TypeOK
<1>3. dma \in 1 .. 2 /\ dma' = dma - 1 /\ out' = [out EXCEPT ![3 - dma] = status]
  BY <1>1, <1>2 DEF DmaHalf, TypeOK
<1>4. CASE h = 3 - dma
  BY <1>1, <1>3, <1>4 DEF TypeOK
<1>5. CASE h # 3 - dma
  <2>1. h <= 2 - dma /\ out'[h] = out[h]
    BY <1>3, <1>5 DEF TypeOK
  <2>2. QED
    BY <1>1, <2>1 DEF StatusInv, FetchedIsStatus
<1>6. QED
  BY <1>4, <1>5

LEMMA NextStatus == TypeOK /\ StatusInv /\ [Next]_vars => StatusInv'
<1> SUFFICES ASSUME TypeOK, StatusInv, [Next]_vars PROVE StatusInv'
  OBVIOUS
<1> USE DEF StatusInv, Driving, BufferIsStatus, FetchedIsStatus
<1>1. CASE DmaHalf
  <2>1. Driving' /\ BufferIsStatus'
    BY <1>1 DEF DmaHalf, TypeOK, main
  <2>2. QED
    BY <1>1, <2>1, FetchStatus
<1>2. CASE IsrSent
  BY <1>2 DEF IsrSent, main
<1>3. CASE BuildPanelFrame
  BY <1>3 DEF BuildPanelFrame, tx
<1>4. CASE Send
  BY <1>4 DEF Send
<1>5. CASE \E f \in Frames : PanelPart(f)
  BY <1>5 DEF PanelPart, tx, main
<1>6. CASE IsrIdle \/ IsrSent3
  BY <1>6 DEF IsrIdle, IsrSent3, tx, main
<1>7. CASE Request \/ Poll \/ Check
  BY <1>7 DEF Request, Poll, Check, tx
<1>8. CASE NoScene \/ RaisePin3 \/ WriteExt \/ Icons
  BY <1>8 DEF NoScene, RaisePin3, WriteExt, Icons, Done, tx
<1>9. CASE UNCHANGED vars
  BY <1>9 DEF vars, tx, main
<1>10. QED
  BY <1>1, <1>2, <1>3, <1>4, <1>5, <1>6, <1>7, <1>8, <1>9 DEF Next, Running

(* Whatever is built into the buffer while the DMA sends it, when the bus  *)
(* is free the last frame on it was a whole one with the host's status.    *)
THEOREM StatusKnown == Spec => []PanelsKnowStatus
<1>1. TypeOK /\ StatusInv => PanelsKnowStatus
  <2> SUFFICES ASSUME TypeOK, StatusInv, ~pin, src = "status", pc # "wait"
               PROVE  out = Same(status)
    BY DEF PanelsKnowStatus
  <2>1. dma = 0
    BY DEF StatusInv, Driving, TypeOK
  <2>2. \A h \in 1 .. 2 : out[h] = status
    BY <2>1 DEF StatusInv, FetchedIsStatus
  <2>3. QED
    BY <2>2 DEF Same, TypeOK
<1>2. QED
  BY <1>1, InitStatus, NextStatus, TypeCorrect, PTL DEF Spec

(***************************************************************************)
(* The extension bus.  Only while the display's icons are awaited, or      *)
(* behind a frame of app_puublic_set_extend, are bytes still in the shift  *)
(* register.                                                               *)
(***************************************************************************)
TailInv ==
  /\ tail3 /\ pc # "icons" => before = "extend"
  /\ pc = "data" /\ ~pin3 => before = "extend"

LEMMA NextTail == TailInv /\ [Next]_vars => TailInv'
<1> SUFFICES ASSUME TailInv, [Next]_vars PROVE TailInv'
  OBVIOUS
<1> USE DEF TailInv
<1>1. CASE IsrSent3
  BY <1>1 DEF IsrSent3, main
<1>2. CASE RaisePin3
  BY <1>2 DEF RaisePin3
<1>3. CASE WriteExt
  BY <1>3 DEF WriteExt, Done
<1>4. CASE Icons
  BY <1>4 DEF Icons, Done, ext
<1>5. CASE Request \/ Poll \/ Check \/ BuildPanelFrame \/ NoScene \/ Send
  BY <1>5 DEF Request, Poll, Check, BuildPanelFrame, NoScene, Send, ext
<1>6. CASE (\E f \in Frames : PanelPart(f)) \/ IsrIdle \/ DmaHalf \/ IsrSent \/ UNCHANGED vars
  <2>1. UNCHANGED <<ext, main>>
    BY <1>6 DEF PanelPart, IsrIdle, DmaHalf, IsrSent, vars
  <2>2. QED
    BY <2>1 DEF ext, main
<1>7. QED
  BY <1>1, <1>2, <1>3, <1>4, <1>5, <1>6 DEF Next, Running

(* The interrupt at the end of an extension frame takes the bus away only  *)
(* from a frame that follows one of app_puublic_set_extend.                *)
THEOREM ExtensionDriven == Spec => []ScenesAreDriven
<1>1. Init => TailInv
  BY DEF Init, TailInv
<1>2. TailInv => ScenesAreDriven
  BY DEF TailInv, ScenesAreDriven
<1>3. QED
  BY <1>1, <1>2, NextTail, PTL DEF Spec

(***************************************************************************)
(* Presses.  A frame that waits to be acted on is all that the buffer      *)
(* holds, and is counted by the DMA, queued or being checked.              *)
(***************************************************************************)
OwedInv ==
  owed # NoFrame => rxBuf = Whole(owed) /\ (rxCount > 0 \/ queued > 0 \/ pc = "check")

(* The handler that finds the frame in the buffer acts on it.              *)
LEMMA CheckActs ==
  ASSUME TypeOK, Check, owed # NoFrame, rxBuf = Whole(owed)
  PROVE  owed' = NoFrame
<1>1. /\ rxBuf[1] = [frame |-> owed, part |-> 1]
      /\ rxBuf[2] = [frame |-> owed, part |-> 2]
      /\ rxBuf[2] = Whole(owed)[2]
  BY DEF Whole
<1>2. rxBuf[1].frame = owed /\ rxBuf[1].part = 1 /\ rxBuf[2].frame = owed
  BY <1>1
<1>3. Sound(owed)
  BY <1>1 DEF Sound
<1>4. Matches[owed] > 0 => pc' = "next" /\ job' = Executes(owed) /\ left' = Matches[owed]
  BY <1>2, <1>3 DEF Check
<1>5. ActedOn(owed)
  BY <1>4 DEF ActedOn
<1>6. QED
  BY <1>5 DEF Check

LEMMA NextOwed == TypeOK /\ OwedInv /\ [Next]_vars => OwedInv'
<1> SUFFICES ASSUME TypeOK, OwedInv, [Next]_vars, owed' # NoFrame
             PROVE  rxBuf' = Whole(owed') /\ (rxCount' > 0 \/ queued' > 0 \/ pc' = "check")
  BY DEF OwedInv
<1> USE DEF OwedInv
<1>1. CASE \E f \in Frames : PanelPart(f)
  <2> PICK f \in Frames : PanelPart(f)
    BY <1>1
  <2>0. rxCount \in 0 .. 2
    BY DEF TypeOK
  <2>1. CASE sender.part + 1 = 2 /\ listening /\ rxBuf' = Whole(f)
    <3>1. owed' = f
      BY <2>1 DEF PanelPart
    <3>2. rxCount' > 0
      BY <2>0, <2>1 DEF PanelPart
    <3>3. QED
      BY <2>1, <3>1, <3>2
  <2>2. CASE ~(sender.part + 1 = 2 /\ listening /\ rxBuf' = Whole(f))
    <3>1. owed' = owed /\ rxBuf' = Whole(owed)
      BY <2>2 DEF PanelPart
    <3>2. queued' = queued /\ pc' = pc /\ rxCount' >= rxCount
      BY <2>0 DEF PanelPart, rx, main
    <3>3. rxCount > 0 => rxCount' > 0
      <4>1. rxCount' \in 0 .. 2
        BY PanelPartType
      <4>2. QED
        BY <2>0, <3>2, <4>1
    <3>4. QED
      BY <3>1, <3>2, <3>3
  <2>3. QED
    BY <2>1, <2>2
<1>2. CASE IsrIdle
  <2>1. owed' = owed /\ rxBuf' = rxBuf /\ queued \in Nat
        /\ (queued' = queued + 1 \/ (queued' = queued /\ queued # 0))
    BY <1>2 DEF IsrIdle, TypeOK
  <2>2. queued' > 0
    BY <2>1
  <2>3. QED
    BY <2>1, <2>2
<1>3. CASE Poll
  <2>1. owed' = owed /\ UNCHANGED rx
    BY <1>3 DEF Poll
  <2>2. rxBuf[1].part = 1
    BY <2>1 DEF Whole
  <2>3. QED
    BY <1>3, <2>1, <2>2 DEF Poll, rx
<1>4. CASE Check
  <2>1. owed # NoFrame => owed' = NoFrame
    BY <1>4, CheckActs
  <2>2. QED
    BY <1>4, <2>1 DEF Check
<1>5. CASE DmaHalf \/ IsrSent \/ IsrSent3
  BY <1>5 DEF DmaHalf, IsrSent, IsrSent3, panels, rx, main
<1>6. CASE Request \/ BuildPanelFrame \/ NoScene \/ Send
  BY <1>6 DEF Request, BuildPanelFrame, NoScene, Send, panels, rx
<1>7. CASE RaisePin3 \/ WriteExt \/ Icons
  BY <1>7 DEF RaisePin3, WriteExt, Icons, Done, panels, rx
<1>8. CASE UNCHANGED vars
  BY <1>8 DEF vars, panels, rx, main
<1>9. QED
  BY <1>1, <1>2, <1>3, <1>4, <1>5, <1>6, <1>7, <1>8 DEF Next, Running

(* When all is handled, no frame is left that came alone and entirely,     *)
(* whose bytes no other frame touched before the handler looked, and whose *)
(* event, or an earlier one, was queued: each has been acted on, for all   *)
(* its entries and as its own type, although one event may be handled with *)
(* another's frame and frames come in while others are executed.           *)
THEOREM LastPressHandled == Spec => []LastPressActedOn
<1>1. Init => OwedInv
  BY DEF Init, OwedInv
<1>2. TypeOK /\ OwedInv => LastPressActedOn
  BY DEF OwedInv, LastPressActedOn, Quiet, TypeOK
<1>3. QED
  BY <1>1, <1>2, NextOwed, TypeCorrect, PTL DEF Spec

(***************************************************************************)
(* Progress.  Remaining counts the steps until the superloop comes back:   *)
(* its own, those of what it still has to execute, and those of the DMA    *)
(* and of the interrupts it waits for.                                     *)
(***************************************************************************)
Place == [next |-> 6, wait |-> 5, ext |-> 4, data |-> 3, icons |-> 2, check |-> 1, idle |-> 0]

WorkLeft == 7 * left + Place[pc]

Bit(b) == IF b THEN 1 ELSE 0

AwaitedLeft ==
  CASE pc = "wait"  -> dma + Bit(pin)
    [] pc = "icons" -> Bit(tail3)
    [] OTHER        -> 0

Remaining == 4 * WorkLeft + AwaitedLeft

Executing == pc \notin {"idle", "check"}

\* A step of what the superloop waits for.
Awaited == (pc = "wait" /\ (DmaHalf \/ IsrSent)) \/ (pc = "icons" /\ IsrSent3)

\* Nothing that panels, interrupts and DMA do puts the superloop back while it
\* executes something, and each of its own steps, and of those it waits for,
\* brings it nearer to its end.
Nearer == Executing => /\ Remaining' \in Nat /\ Remaining' <= Remaining
                       /\ Running \/ Awaited => Remaining' < Remaining

ExecutionEnds == [][Nearer]_vars

LEMMA Places ==
  /\ Place["next"] = 6 /\ Place["wait"] = 5 /\ Place["ext"] = 4 /\ Place["data"] = 3
  /\ Place["icons"] = 2 /\ Place["check"] = 1 /\ Place["idle"] = 0
BY DEF Place

\* The superloop never waits for more than three steps of others.
LEMMA AwaitedFew == TypeOK => WorkLeft \in Nat /\ AwaitedLeft \in 0 .. 3
<1> SUFFICES ASSUME TypeOK PROVE WorkLeft \in Nat /\ AwaitedLeft \in 0 .. 3
  OBVIOUS
<1>1. Place[pc] \in 0 .. 6 /\ left \in Nat
  BY Places DEF TypeOK
<1>2. WorkLeft \in Nat
  BY <1>1 DEF WorkLeft
<1>3. \A b \in BOOLEAN : Bit(b) \in 0 .. 1
  BY DEF Bit
<1>4. dma \in 0 .. 2 /\ Bit(pin) \in 0 .. 1 /\ Bit(tail3) \in 0 .. 1
  BY <1>3 DEF TypeOK
<1>5. AwaitedLeft \in 0 .. 3
  BY <1>4 DEF AwaitedLeft
<1>6. QED
  BY <1>2, <1>5

LEMMA AwaitedFewAfter == (TypeOK => WorkLeft \in Nat /\ AwaitedLeft \in 0 .. 3)'
BY AwaitedFew, PTL

\* A step more of its own outweighs all that the superloop may wait for.
LEMMA Weighted ==
  \A w, v \in Nat, a, b \in 0 .. 3 :
    /\ 4 * v + b \in Nat
    /\ v < w => 4 * v + b < 4 * w + a
    /\ b <= a => 4 * w + b <= 4 * w + a
    /\ b < a => 4 * w + b < 4 * w + a
OBVIOUS

\* Each of its own steps leaves the superloop less to do, whatever it then
\* has to wait for.
LEMMA RunningNearer ==
  ASSUME TypeOK, HasJob, TypeOK', Executing, Running
  PROVE  Remaining' \in Nat /\ Remaining' < Remaining
<1> USE Places DEF TypeOK, HasJob, Executing
<1>1. WorkLeft' < WorkLeft
  <2>1. ~Check
    BY DEF Check
  <2>2. CASE BuildPanelFrame \/ NoScene
    BY <2>2 DEF BuildPanelFrame, NoScene, WorkLeft
  <2>3. CASE Send
    BY <2>3 DEF Send, WorkLeft
  <2>4. CASE RaisePin3
    BY <2>4 DEF RaisePin3, WorkLeft
  <2>5. CASE WriteExt
    <3>1. pc = "data" /\ left \in Nat /\ WorkLeft = 7 * left + 3
      BY <2>5 DEF WriteExt, WorkLeft
    <3>2. WorkLeft' = 7 * left + 2 \/ WorkLeft' = 0
      BY <2>5 DEF WriteExt, Done, WorkLeft
    <3>3. QED
      BY <3>1, <3>2
  <2>6. CASE Icons
    <3>1. pc = "icons" /\ left \in Nat /\ WorkLeft = 7 * left + 2
      BY <2>6 DEF Icons, WorkLeft
    <3>2. WorkLeft' = 7 * (left - 1) + 6 \/ WorkLeft' = 0
      BY <2>6 DEF Icons, Done, WorkLeft
    <3>3. QED
      BY <3>1, <3>2
  <2>7. QED
    BY <2>1, <2>2, <2>3, <2>4, <2>5, <2>6 DEF Running
<1>2. WorkLeft \in Nat /\ AwaitedLeft \in 0 .. 3
  BY AwaitedFew
<1>3. WorkLeft' \in Nat /\ AwaitedLeft' \in 0 .. 3
  BY AwaitedFewAfter
<1> HIDE DEF TypeOK, HasJob, Executing
<1>4. Remaining = 4 * WorkLeft + AwaitedLeft /\ Remaining' = 4 * WorkLeft' + AwaitedLeft'
  BY DEF Remaining
<1>5. QED
  BY <1>1, <1>2, <1>3, <1>4, Weighted

\* Nobody else changes what the superloop has to do, and what it waits for
\* only comes nearer.
LEMMA OthersNearer ==
  ASSUME TypeOK, TypeOK', UNCHANGED main, AwaitedLeft' <= AwaitedLeft
  PROVE  /\ Remaining' \in Nat /\ Remaining' <= Remaining
         /\ AwaitedLeft' < AwaitedLeft => Remaining' < Remaining
<1>1. WorkLeft \in Nat /\ AwaitedLeft \in 0 .. 3
  BY AwaitedFew
<1>2. WorkLeft' = WorkLeft
  BY DEF WorkLeft, main
<1>3. AwaitedLeft' \in 0 .. 3
  BY AwaitedFewAfter
<1>4. Remaining = 4 * WorkLeft + AwaitedLeft /\ Remaining' = 4 * WorkLeft' + AwaitedLeft'
  BY DEF Remaining
<1>5. QED
  BY <1>1, <1>2, <1>3, <1>4, Weighted

LEMMA DmaNearer ==
  ASSUME TypeOK, DmaHalf
  PROVE  UNCHANGED main /\ AwaitedLeft' <= AwaitedLeft /\ (pc = "wait" => AwaitedLeft' < AwaitedLeft)
<1>1. UNCHANGED main /\ pc' = pc /\ pin' = pin /\ tail3' = tail3 /\ dma' = dma - 1 /\ dma \in 1 .. 2
  BY DEF DmaHalf, main, ext, TypeOK
<1>2. Bit(pin) \in Nat /\ Bit(tail3) \in Nat /\ Bit(pin)' = Bit(pin) /\ Bit(tail3)' = Bit(tail3)
  BY <1>1 DEF Bit
<1>3. QED
  BY <1>1, <1>2 DEF AwaitedLeft

LEMMA SentNearer ==
  ASSUME TypeOK, IsrSent
  PROVE  UNCHANGED main /\ AwaitedLeft' <= AwaitedLeft /\ (pc = "wait" => AwaitedLeft' < AwaitedLeft)
<1>1. UNCHANGED main /\ pc' = pc /\ pin = TRUE /\ ~pin' /\ tail3' = tail3 /\ dma' = dma /\ dma \in 0 .. 2
  BY DEF IsrSent, main, ext, TypeOK
<1>2. Bit(pin) = 1 /\ Bit(pin)' = 0 /\ Bit(tail3) \in Nat /\ Bit(tail3)' = Bit(tail3)
  BY <1>1 DEF Bit
<1>3. CASE pc = "wait"
  <2>1. AwaitedLeft = dma + 1 /\ AwaitedLeft' = dma
    BY <1>1, <1>2, <1>3 DEF AwaitedLeft
  <2>2. QED
    BY <1>1, <1>3, <2>1
<1>4. CASE pc # "wait"
  <2>1. AwaitedLeft' = AwaitedLeft
    BY <1>1, <1>2, <1>4 DEF AwaitedLeft
  <2>2. AwaitedLeft \in 0 .. 3
    BY AwaitedFew
  <2>3. QED
    BY <1>1, <1>4, <2>1, <2>2
<1>5. QED
  BY <1>3, <1>4

LEMMA Sent3Nearer ==
  ASSUME TypeOK, IsrSent3
  PROVE  UNCHANGED main /\ AwaitedLeft' <= AwaitedLeft /\ (pc = "icons" => AwaitedLeft' < AwaitedLeft)
<1>1. UNCHANGED main /\ pc' = pc /\ pin' = pin /\ tail3 /\ ~tail3' /\ dma' = dma /\ dma \in 0 .. 2
  BY DEF IsrSent3, main, tx, TypeOK
<1>2. Bit(tail3) = 1 /\ Bit(tail3)' = 0 /\ Bit(pin)' = Bit(pin)
  BY <1>1 DEF Bit
<1>3. CASE pc = "icons"
  <2>1. AwaitedLeft = 1 /\ AwaitedLeft' = 0
    BY <1>1, <1>2, <1>3 DEF AwaitedLeft
  <2>2. QED
    BY <1>1, <2>1
<1>4. CASE pc # "icons"
  <2>1. AwaitedLeft' = AwaitedLeft
    BY <1>1, <1>2, <1>4 DEF AwaitedLeft
  <2>2. AwaitedLeft \in 0 .. 3
    BY AwaitedFew
  <2>3. QED
    BY <1>1, <1>4, <2>1, <2>2
<1>5. QED
  BY <1>3, <1>4

\* Steps that have nothing to do with what the superloop waits for.
LEMMA RestNearer ==
  ASSUME TypeOK, UNCHANGED <<tx, ext, main>>
  PROVE  UNCHANGED main /\ AwaitedLeft' <= AwaitedLeft
<1>1. UNCHANGED <<pc, dma, pin, tail3>>
  BY DEF tx, ext, main
<1>2. AwaitedLeft' = AwaitedLeft
  BY <1>1 DEF AwaitedLeft, Bit
<1>3. AwaitedLeft \in 0 .. 3
  BY AwaitedFew
<1>4. QED
  BY <1>2, <1>3

(* The superloop comes back from what it executes after a number of steps  *)
(* that is known when it begins, whatever interrupts, DMA and panels do in *)
(* between: scenes are executed one after the other, and the waits for     *)
(* USART2's pin and for UART3 are not begun again.  With the fairness of   *)
(* FairSpec this is why SuperloopReturns holds.                            *)
THEOREM ExecutionProgresses == Spec => ExecutionEnds
<1>1. ASSUME TypeOK, HasJob, TypeOK', [Next]_vars, Executing
      PROVE  /\ Remaining' \in Nat /\ Remaining' <= Remaining
             /\ Running \/ Awaited => Remaining' < Remaining
  <2>1. CASE Running
    <3>1. Remaining' \in Nat /\ Remaining' < Remaining
      BY <1>1, <2>1, RunningNearer
    <3>2. Remaining \in Nat
      BY <1>1, AwaitedFew DEF Remaining
    <3>3. QED
      BY <3>1, <3>2
  <2>2. CASE ~Running /\ DmaHalf
    <3>1. ~(pc = "icons" /\ IsrSent3)
      BY <1>1, <2>2 DEF DmaHalf, IsrSent3, ext, TypeOK
    <3>2. QED
      BY <1>1, <2>2, <3>1, DmaNearer, OthersNearer DEF Awaited
  <2>3. CASE ~Running /\ IsrSent
    <3>1. ~(pc = "icons" /\ IsrSent3)
      BY <1>1, <2>3 DEF IsrSent, IsrSent3, ext, TypeOK
    <3>2. QED
      BY <1>1, <2>3, <3>1, SentNearer, OthersNearer DEF Awaited
  <2>4. CASE ~Running /\ IsrSent3
    <3>1. ~DmaHalf /\ ~IsrSent
      BY <1>1, <2>4 DEF IsrSent3, DmaHalf, IsrSent, ext, TypeOK
    <3>2. QED
      BY <1>1, <2>4, <3>1, Sent3Nearer, OthersNearer DEF Awaited
  <2>5. CASE ~Running /\ ~DmaHalf /\ ~IsrSent /\ ~IsrSent3
    <3>1. ~Request /\ ~Poll
      BY <1>1 DEF Request, Poll, Executing
    <3>2. (\E f \in Frames : PanelPart(f)) \/ IsrIdle \/ UNCHANGED vars
      BY <1>1, <2>5, <3>1 DEF Next
    <3>3. UNCHANGED <<tx, ext, main>>
      BY <3>2 DEF PanelPart, IsrIdle, vars
    <3>4. QED
      BY <1>1, <2>5, <3>3, RestNearer, OthersNearer DEF Awaited
  <2>6. QED
    BY <2>1, <2>2, <2>3, <2>4, <2>5
<1>2. TypeOK /\ HasJob /\ TypeOK' /\ [Next]_vars => [Nearer]_vars
  BY <1>1 DEF Nearer
<1>3. QED
  BY <1>2, TypeCorrect, PTL DEF Spec, ExecutionEnds

(* No order of the interrupts, the DMA and USART2_dma_send_data leaves the *)
(* host deaf to its panels with the bus free, or has it listen to its own  *)
(* frame.                                                                  *)
THEOREM NotLeftDeaf == Spec => []Driving
<1>1. StatusInv => Driving
  BY DEF StatusInv
<1>2. QED
  BY <1>1, InitStatus, NextStatus, TypeCorrect, PTL DEF Spec
=============================================================================
