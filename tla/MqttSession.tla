---------------------------- MODULE MqttSession ----------------------------
(***************************************************************************)
(* What the state machines of the link promise to the application: MQTT    *)
(* clients that live one after the other.  An attempt, asked for by a link *)
(* event, opens a connection of its own before a client is created over    *)
(* it; the client connects once, subscribes once, and is lost at most      *)
(* once; what is lost stays lost until the next client.                    *)
(***************************************************************************)
EXTENDS Naturals

CONSTANTS Topics

VARIABLES attempt,    (* "asked" for, "opened" its connection, or "done":   *)
                      (* it has made the client                            *)
          connected,  (* the server has accepted the client                *)
          lost,       (* the client has noticed that its connection ended  *)
          handlers    (* how many message handlers each topic has          *)

vars == <<attempt, connected, lost, handlers>>

NoHandlers == [t \in Topics |-> 0]

Init ==
  /\ attempt = "asked"
  /\ connected = FALSE /\ lost = FALSE /\ handlers = NoHandlers

\* Any attempt may be abandoned for a new one; its client does nothing more.
Ask == attempt' = "asked" /\ UNCHANGED <<connected, lost, handlers>>

Open ==
  /\ attempt = "asked" /\ attempt' = "opened"
  /\ UNCHANGED <<connected, lost, handlers>>

Create ==
  /\ attempt = "opened" /\ attempt' = "done"
  /\ connected' = FALSE /\ lost' = FALSE /\ handlers' = NoHandlers

Connect ==
  /\ attempt = "done" /\ ~connected /\ ~lost
  /\ connected' = TRUE
  /\ UNCHANGED <<attempt, lost, handlers>>

Subscribe(acked) ==
  /\ attempt = "done" /\ connected /\ handlers = NoHandlers
  /\ handlers' = [t \in Topics |-> IF t \in acked THEN 1 ELSE 0]
  /\ UNCHANGED <<attempt, connected, lost>>

Lose ==
  /\ attempt = "done" /\ connected
  /\ connected' = FALSE /\ lost' = TRUE
  /\ UNCHANGED <<attempt, handlers>>

Next ==
  \/ Ask \/ Open \/ Create \/ Connect \/ Lose
  \/ \E acked \in SUBSET Topics : Subscribe(acked)

Spec == Init /\ [][Next]_vars
=============================================================================
