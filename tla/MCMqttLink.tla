----------------------------- MODULE MCMqttLink -----------------------------
(* Two topics instead of five, error limits of one and two instead of five *)
(* and ten, one press of the key; the smallest where every limit is met    *)
(* and missed.                                                             *)
EXTENDS MqttLink
=============================================================================
