---------------------------- MODULE MCOtaUpdate ----------------------------
(* MCOtaUpdate.cfg: two versions of two packets each, one of them the      *)
(* device's first, and saves that succeed.  MCOtaUpdateLive.cfg: one       *)
(* version of one packet, saves that may fail, and fairness.               *)
EXTENDS OtaUpdate
=============================================================================
