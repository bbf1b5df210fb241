--------------------------- MODULE FirmwareStore ----------------------------
(***************************************************************************)
(* What the firmware update promises to the owner of the device.  One      *)
(* version runs, and the device says so.  Another one gets there in one    *)
(* way only: it is assigned to a device that is not being updated, loaded, *)
(* found whole, announced, and installed by the next start.  The update    *)
(* may be given up before it is announced, and then nothing has changed;   *)
(* after that nothing can stop it.  A version that is assigned meanwhile   *)
(* waits for no one: it is not taken.  There is no page, no connection and *)
(* no state machine.                                                       *)
(***************************************************************************)
CONSTANTS Versions, FirstVersion, NoVersion

VARIABLES runs,      (* the version that runs                              *)
          announced, (* the version the device says it has                 *)
          stage,     (* of the update: "none", "loading", "whole", "marked"*)
          target     (* the version it is to, or NoVersion                 *)

vars == <<runs, announced, stage, target>>

Init ==
  /\ runs = FirstVersion /\ announced = FirstVersion
  /\ stage = "none" /\ target = NoVersion

Assign(v) ==
  /\ stage = "none"
  /\ stage' = "loading" /\ target' = v
  /\ UNCHANGED <<runs, announced>>

Load ==
  /\ stage = "loading" /\ stage' = "whole"
  /\ UNCHANGED <<runs, announced, target>>

Mark ==
  /\ stage = "whole" /\ stage' = "marked"
  /\ announced' = target
  /\ UNCHANGED <<runs, target>>

Install ==
  /\ stage = "marked"
  /\ runs' = target
  /\ stage' = "none" /\ target' = NoVersion
  /\ UNCHANGED announced

GiveUp ==
  /\ stage \in {"loading", "whole"}
  /\ stage' = "none" /\ target' = NoVersion
  /\ UNCHANGED <<runs, announced>>

Next == (\E v \in Versions : Assign(v)) \/ Load \/ Mark \/ Install \/ GiveUp

Spec == Init /\ [][Next]_vars
=============================================================================
