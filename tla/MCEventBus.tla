----------------------------- MODULE MCEventBus -----------------------------
(* The bus with three slots, two events and two subscribers.               *)
EXTENDS EventBus
=============================================================================
