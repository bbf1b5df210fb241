------------------------------ MODULE PanelBus ------------------------------
(***************************************************************************)
(* The two RS-485 buses of the host: USART2 to the panels, by DMA in both  *)
(* directions, and UART3 to the extension boards, by a blocking loop; with *)
(* the handler of panel frames and the execution of scenes, which write to *)
(* both.  The superloop, the USART2 and UART3 interrupts, the DMA and the  *)
(* panels interleave.                                                      *)
(*                                                                         *)
(* Panels' frames have two parts: the bytes 0 to 2, which no checksum      *)
(* covers, and the bytes 3 to 9, the checksum with them; a place of the    *)
(* buffer holds Nothing while the second part is coming into it.  The      *)
(* host's frames have two halves, so that the DMA can be between them.  A  *)
(* status is all that my_panel_full_status holds.  The frames of           *)
(* temperature panels, which are only printed, are left out.               *)
(*                                                                         *)
(* Two timing assumptions: nothing gets between the line being idle and    *)
(* the interrupt for it, and the two bytes UART3 still shifts out when its *)
(* loop ends are out before the display's icons are written.               *)
(***************************************************************************)
EXTENDS Integers

CONSTANTS Frames,            (* frames that panels send                    *)
          Type,              (* KEY or KNOB                                *)
          Matches,           (* entries of the bindings that match a frame *)
          Statuses,          (* contents of my_panel_full_status           *)
          Zero,              (* the one with every byte 0                  *)
          NoFrame, Blank, ResetCmd,
          EVENT_QUEUE_SIZE

ASSUME BusAssumption ==
  /\ NoFrame \notin Frames
  /\ Type \in [Frames -> {"KEY", "KNOB"}]
  /\ Zero \in Statuses
  /\ Matches \in [Frames -> Nat]
  /\ EVENT_QUEUE_SIZE \in Nat

VARIABLES
  sender,    (* the panel frame on the wire, and its parts already out      *)
  rxBuf,     (* rx2_buf.buffer, in parts                                    *)
  rxCount,   (* parts the DMA has received since it was started, at most 2  *)
  unseen,    (* the receiver has had bytes since it last saw the line idle  *)
  listening, (* USART2's receiver and idle interrupt are enabled            *)
  queued,    (* EVENT_USART2_RECV_MSG in the event queue                    *)
  status,    (* my_panel_full_status                                        *)
  txBuf,     (* my_panel_tx_buf                                             *)
  src,       (* the buffer tx2_buf.tx_ptr points to                         *)
  dma,       (* halves the transmitting DMA has still to fetch              *)
  pin,       (* RD2: the host drives the panels' bus                        *)
  out,       (* what the host has put on the panels' bus since pin rose     *)
  pin3,      (* RD3: the host drives the extension bus                      *)
  tail3,     (* UART3 has bytes that are not out yet                        *)
  pc, job, left, (* the superloop: place, what it executes, how often       *)
  owed,      (* history: the frame that came alone and entirely, is still   *)
             (* all that the buffer holds, and has not been acted on        *)
  before     (* history: the job whose extension frame may not be out yet   *)

panels == <<sender>>
rx == <<rxBuf, rxCount, unseen>>
tx == <<src, dma, pin, out>>
ext == <<pin3, tail3, before>>
main == <<pc, job, left>>
vars == <<panels, rx, listening, queued, status, txBuf, tx, ext, main, owed>>

Nothing == [frame |-> NoFrame, part |-> 0]
Whole(f) == [p \in 1 .. 2 |-> [frame |-> f, part |-> p]]
Same(x) == [h \in 1 .. 2 |-> x]

\* dev_public_host sends the panels a reset before the superloop starts.
Init ==
  /\ sender = Nothing
  /\ rxBuf = Same(Nothing) /\ rxCount = 0
  /\ unseen = FALSE /\ listening = FALSE
  /\ queued = 0
  /\ status = Zero /\ txBuf = Same(Blank)
  /\ src = "reset" /\ dma = 2 /\ pin = TRUE /\ out = Same(Blank)
  /\ pin3 = FALSE /\ tail3 = FALSE
  /\ pc = "idle" /\ job = "none" /\ left = 0
  /\ owed = NoFrame /\ before = "none"

-----------------------------------------------------------------------------
(* The panels and the receiver.                                             *)

\* The next part of a panel's frame is out, and in the buffer if the receiver
\* is on and the DMA has room; a panel may begin at any time.
PanelPart(f) ==
  LET p == sender.part + 1
      buf == [rxBuf EXCEPT ![rxCount + 1] = [frame |-> f, part |-> p]]
  IN /\ sender.frame \in {NoFrame, f}
     /\ sender' = IF p = 2 THEN Nothing ELSE [frame |-> f, part |-> p]
     /\ IF listening
        THEN /\ \/ rxCount = 2 /\ UNCHANGED <<rxBuf, rxCount>>
                \/ rxCount < 2 /\ rxCount' = rxCount + 1 /\ rxBuf' = buf
                \/ rxCount = 0 /\ rxCount' = 1 /\ rxBuf' = [buf EXCEPT ![2] = Nothing]
             /\ unseen' = TRUE
        ELSE UNCHANGED rx
     /\ owed' = IF p = 2 /\ listening /\ rxBuf' = Whole(f) THEN f
                ELSE IF rxBuf' = Whole(owed) THEN owed ELSE NoFrame
     /\ UNCHANGED <<listening, queued, status, txBuf, tx, ext, main>>

\* The receiver sees the line idle; the first half of USART2_IRQHandler
\* publishes a reference to the buffer, which other events in the queue may
\* leave no room for, and starts the DMA again.
LineIdle == listening /\ unseen /\ sender = Nothing

\* (faulty variant) the length is read after the DMA is started again
IsrIdleReset ==
  /\ LineIdle
  /\ unseen' = FALSE /\ rxCount' = 0
  /\ UNCHANGED <<panels, rxBuf, listening, queued, status, txBuf, tx, ext, main, owed>>

\* (faulty variant) the event is stored in a full queue too
IsrIdleUnbounded ==
  /\ LineIdle
  /\ unseen' = FALSE /\ rxCount' = 0
  /\ queued' = queued + 1
  /\ UNCHANGED <<panels, rxBuf, listening, status, txBuf, tx, ext, main, owed>>

IsrIdle ==
  /\ LineIdle
  /\ unseen' = FALSE /\ rxCount' = 0
  /\ \/ queued < EVENT_QUEUE_SIZE /\ queued' = queued + 1 /\ UNCHANGED owed
     \/ UNCHANGED queued /\ owed' = IF queued = 0 THEN NoFrame ELSE owed
  /\ UNCHANGED <<panels, rxBuf, listening, status, txBuf, tx, ext, main>>

-----------------------------------------------------------------------------
(* The transmitting DMA, and the interrupts when everything is out.         *)

DmaHalf ==
  /\ dma > 0
  /\ dma' = dma - 1
  /\ out' = [out EXCEPT ![3 - dma] = IF src = "reset" THEN ResetCmd ELSE txBuf[3 - dma]]
  /\ UNCHANGED <<panels, rx, listening, queued, status, txBuf, src, pin, ext, main, owed>>

\* (faulty variant) the receiver stays off
IsrSentDeaf ==
  /\ pin /\ dma = 0
  /\ pin' = FALSE
  /\ UNCHANGED <<panels, rx, listening, queued, status, txBuf, src, dma, out, ext, main, owed>>

\* (faulty variant) the pin stays high
IsrSentDriving ==
  /\ pin /\ dma = 0 /\ ~listening
  /\ listening' = TRUE
  /\ UNCHANGED <<panels, rx, queued, status, txBuf, tx, ext, main, owed>>

IsrSent ==
  /\ pin /\ dma = 0
  /\ pin' = FALSE /\ listening' = TRUE
  /\ UNCHANGED <<panels, rx, queued, status, txBuf, src, dma, out, ext, main, owed>>

IsrSent3 ==
  /\ tail3
  /\ tail3' = FALSE /\ pin3' = FALSE
  /\ before' = IF pc = "data" THEN before ELSE "none"
  /\ UNCHANGED <<panels, rx, listening, queued, status, txBuf, tx, main, owed>>

-----------------------------------------------------------------------------
(* The superloop: other events, frames, and other reasons to write.         *)

\* Cloud messages, timer tasks and the display's keys.
Request ==
  /\ pc = "idle"
  /\ job' \in {"scene", "extend"}
  /\ pc' = "next" /\ left' = 1
  /\ UNCHANGED <<panels, rx, listening, queued, status, txBuf, tx, ext, owed>>

\* app_public_event_handler looks at the first byte.
Poll ==
  /\ pc = "idle" /\ queued > 0
  /\ queued' = queued - 1
  /\ pc' = IF rxBuf[1].part = 1 THEN "check" ELSE "idle"
  /\ UNCHANGED <<panels, rx, listening, status, txBuf, tx, ext, job, left, owed>>

\* app_panel_protocol_check: the checksum, then the type, and how many entries
\* match.  By now another frame may have begun to overwrite the first bytes.
Sound(f) == f # NoFrame /\ rxBuf[2] = Whole(f)[2]

Executes(f) == IF Type[f] = "KEY" THEN "scene" ELSE "knob"

\* For history: all entries of frame f are executed, as the type of f.
ActedOn(f) ==
  /\ rxBuf = Whole(f)
  /\ f # NoFrame /\ Matches[f] > 0 =>
       pc' = "next" /\ job' = Executes(f) /\ left' = Matches[f]

Check ==
  LET f == rxBuf[2].frame
      acts == Sound(f) /\ rxBuf[1].part = 1 /\ Matches[f] > 0
  IN /\ pc = "check"
     /\ job' = IF acts THEN Executes(rxBuf[1].frame) ELSE job
     /\ left' = IF acts THEN Matches[f] ELSE left
     /\ pc' = IF acts THEN "next" ELSE "idle"
     /\ owed' = IF ActedOn(owed) THEN NoFrame ELSE owed
     /\ UNCHANGED <<panels, rx, listening, queued, status, txBuf, tx, ext>>

\* The superloop is through with what it executes.
Done == pc' = "idle" /\ job' = "none" /\ left' = 0

\* app_build_panel_frame builds the frame in place, whether or not it is being sent.
BuildPanelFrame ==
  /\ pc = "next" /\ job = "scene"
  /\ status' \in Statuses /\ txBuf' = Same(status')
  /\ pc' = "wait"
  /\ UNCHANGED <<panels, rx, listening, queued, tx, ext, job, left, owed>>

\* There is no scene of that number: only the icons are written.
NoScene ==
  /\ pc = "next" /\ job = "scene"
  /\ pc' = "icons"
  /\ UNCHANGED <<panels, rx, listening, queued, status, txBuf, tx, ext, job, left, owed>>

\* USART2_dma_send_data
\* (faulty variant) a frame is given up when the pin is high
SendIfFree ==
  /\ pc = "wait"
  /\ IF pin THEN UNCHANGED <<listening, tx>>
     ELSE /\ src' = "status" /\ dma' = 2 /\ out' = Same(Blank)
          /\ pin' = TRUE /\ listening' = FALSE
  /\ pc' = "ext"
  /\ UNCHANGED <<panels, rx, queued, status, txBuf, ext, job, left, owed>>

Send ==
  /\ pc = "wait" /\ ~pin
  /\ src' = "status" /\ dma' = 2 /\ out' = Same(Blank)
  /\ pin' = TRUE /\ listening' = FALSE
  /\ pc' = "ext"
  /\ UNCHANGED <<panels, rx, queued, status, txBuf, ext, job, left, owed>>

\* UART3_send_data waits on PD1, which nothing ever raises, and raises PD0.
RaisePin3 ==
  /\ pc = "ext" \/ (pc = "next" /\ job # "scene")
  /\ pin3' = TRUE
  /\ pc' = "data"
  /\ UNCHANGED <<panels, rx, listening, queued, status, txBuf, tx, tail3, before, job, left, owed>>

WriteExt ==
  /\ pc = "data"
  /\ tail3' = TRUE
  /\ before' = job
  /\ IF job = "extend" THEN Done ELSE pc' = "icons" /\ UNCHANGED <<job, left>>
  /\ UNCHANGED <<panels, rx, listening, queued, status, txBuf, tx, pin3, owed>>

\* (faulty variant) no icons are written
IconsLeftOut ==
  /\ pc = "icons"
  /\ IF left = 1 THEN Done ELSE pc' = "next" /\ left' = left - 1 /\ UNCHANGED job
  /\ UNCHANGED <<panels, rx, listening, queued, status, txBuf, tx, ext, owed>>

Icons ==
  /\ pc = "icons" /\ ~tail3
  /\ IF left = 1 THEN Done ELSE pc' = "next" /\ left' = left - 1 /\ UNCHANGED job
  /\ UNCHANGED <<panels, rx, listening, queued, status, txBuf, tx, ext, owed>>

-----------------------------------------------------------------------------
Running == \/ Check \/ BuildPanelFrame \/ NoScene \/ Send \/ RaisePin3
           \/ WriteExt \/ Icons

Next == \/ \E f \in Frames : PanelPart(f)
        \/ IsrIdle
        \/ DmaHalf \/ IsrSent \/ IsrSent3
        \/ Request \/ Poll
        \/ Running

Spec == Init /\ [][Next]_vars

\* The interrupts and the DMA are served; what the superloop runs goes on.
FairSpec == Spec /\ WF_vars(DmaHalf) /\ WF_vars(IsrSent) /\ WF_vars(IsrSent3) /\ WF_vars(Running)

-----------------------------------------------------------------------------
(* Properties.                                                              *)

\* Every variable has its type; the event queue is never overfull.
Contents == {Nothing} \cup [frame : Frames, part : 1 .. 2]
Sent == Statuses \cup {Blank, ResetCmd}

TypeOK ==
  /\ sender \in {Nothing} \cup [frame : Frames, part : {1}]
  /\ rxBuf \in [1 .. 2 -> Contents] /\ rxCount \in 0 .. 2
  /\ unseen \in BOOLEAN /\ listening \in BOOLEAN
  /\ queued \in 0 .. EVENT_QUEUE_SIZE
  /\ status \in Statuses /\ txBuf \in [1 .. 2 -> Statuses \cup {Blank}]
  /\ src \in {"reset", "status"} /\ dma \in 0 .. 2 /\ pin \in BOOLEAN
  /\ out \in [1 .. 2 -> Sent]
  /\ pin3 \in BOOLEAN /\ tail3 \in BOOLEAN
  /\ pc \in {"idle", "check", "next", "wait", "ext", "data", "icons"}
  /\ job \in {"none", "scene", "knob", "extend"} /\ left \in Nat
  /\ owed \in Frames \cup {NoFrame}
  /\ before \in {"none", "scene", "knob", "extend"}

\* Although the frame is built in the buffer that the DMA may still be sending,
\* and a mixed frame may go out, the last frame the panels have heard when the
\* bus is free again is a whole one with the status the host has: PP:430, US:225.
PanelsKnowStatus ==
  ~pin /\ src = "status" /\ pc # "wait" => out = Same(status)

\* All that was received is handled, and nothing is coming in.
Quiet == pc = "idle" /\ queued = 0 /\ rxCount = 0 /\ sender = Nothing

\* The buffer is passed by reference and one event may be handled with another
\* frame's bytes; but a frame that came alone and entirely has been acted on, for
\* all its entries and as the type it was sent with, when everything is handled:
\* PR:96, US:322, PP:126.  It is acted on unless, before the handler has looked at
\* it, bytes of another frame get into the buffer (the first three are enough,
\* even if the rest is then cut off: what follows of the first frame is then
\* executed as the type of the other), or no event was queued and its own found
\* no room.
LastPressActedOn == Quiet => owed = NoFrame

\* UART3 waits on the wrong pin, so its interrupt may take the bus away from a
\* frame that has just begun; that happens only to a frame that follows one of
\* app_puublic_set_extend, which writes nothing to the display: US:246, PP:389.
ScenesAreDriven == pc = "data" /\ ~pin3 => before = "extend"

\* The superloop comes back from everything it executes: the wait for the pin
\* in USART2_dma_send_data ends (US:225).
SuperloopReturns == []<>(pc = "idle")

\* The host hears the panels again after every frame it has sent (US:349).
ListensAgain == []<>listening
=============================================================================
