------------------------------ MODULE MqttLink ------------------------------
(***************************************************************************)
(* The connection to the MQTT server: the state machines of                *)
(* app_network_model.c, the supervision of the cable and the lease in      *)
(* wiz_interface.c, and what they use of MQTTClient.c, mqtt_interface.c,   *)
(* connect_nb and DNS_run_nb.                                              *)
(*                                                                         *)
(* Everything runs in the superloop: app_timer_poll calls each due timer   *)
(* once, then app_eventbus_poll dispatches all events.  Between two calls  *)
(* the cable, the W5500 and the servers do what they like.  DHCP, name     *)
(* resolution and MQTT use the same socket 0 of the chip one after the     *)
(* other.                                                                  *)
(***************************************************************************)
EXTENDS Naturals, Sequences

CONSTANTS
  Topics,        (* the topics subscribed to                               *)
  LastTopic,     (* the one subscribed to last                             *)
  TaskErrLimit,  (* mqtt_task_err ends mqtt_task                           *)
  ErrLimit,      (* do_mqtt_err_flag ends do_mqtt                          *)
  MaxPresses,    (* bound: presses of the key                              *)
  SlowPhy        (* after a reset of the chip the PHY takes longer than    *)
                 (* wizinit's period to find the link                      *)

ASSUME LinkAssumption ==
  /\ LastTopic \in Topics
  /\ TaskErrLimit \in Nat \ {0}
  /\ ErrLimit \in Nat \ {0}
  /\ MaxPresses \in Nat
  /\ SlowPhy \in BOOLEAN

VARIABLES
  static,   (* net_info.dhcp = NETINFO_STATIC                              *)
  phy,      (* the PHY: "up", "down", or "reset" with the chip             *)
  presses,  (* history: presses of the key                                 *)
  seen,     (* my_phy_status.last_status = PHY_LINK_ON                     *)
  dhcp,     (* dhcp_init_flag                                              *)
  ip,       (* the chip has an address (SIPR)                              *)
  sock,     (* status of socket 0                                          *)
  events,   (* the event bus                                               *)
  ran,      (* callbacks this round of the loop does not call (again)      *)
  timers,   (* live timers                                                 *)
  task,     (* mqtt_task_flag and mqtt_task_err                            *)
  dns,      (* state of DNS_run_nb                                         *)
  net,      (* state of ConnectNetwork_nb                                  *)
  conn,     (* state of connect_nb                                         *)
  mqtt,     (* do_mqtt_flag and do_mqtt_err_flag                           *)
  client,   (* mqtt_client: isconnected, ping_outstanding,                 *)
            (* heartbeat_timeout_flag, and how many of the message handlers*)
            (* each topic has                                              *)
  expired,  (* its ping_timer has expired                                  *)
  opened    (* history: ConnectNetwork_nb has opened the socket since the  *)
            (* last app_network_init                                       *)

chip == <<phy, ip, sock>>
attempt == <<task, dns, net, conn, opened>>
session == <<mqtt, client, expired>>
vars == <<static, presses, chip, seen, dhcp, events, ran, timers, attempt, session>>

Callbacks == {"wizinit", "timer_cb", "mqtt_task", "http_task", "do_mqtt"}
EventNames == {"LINK_ON", "PHY_LINK_OFF", "MQTT_CONNECT", "NETWOR_OFF"}

Least(a, b) == IF a < b THEN a ELSE b

\* The client after memset and MQTTClientInit.
FreshClient ==
  [connected |-> FALSE, ping |-> FALSE, lost |-> FALSE, handlers |-> [t \in Topics |-> 0]]

Init ==
  /\ static \in BOOLEAN
  /\ phy = "reset" /\ ip = FALSE /\ sock = "closed"
  /\ presses = 0 /\ seen = FALSE /\ dhcp = FALSE
  /\ events = <<>> /\ ran = {} /\ timers = {}
  /\ task = [flag |-> "dns", err |-> 0]
  /\ dns = 0 /\ net = 0 /\ conn = 0 /\ opened = FALSE
  /\ mqtt = [flag |-> "connect", err |-> 0]
  /\ client = FreshClient /\ expired = FALSE

-----------------------------------------------------------------------------
(* The superloop.  No timer is called between the dispatches of one poll,   *)
(* and none twice before them.  Without events a round is one callback.     *)

Call(t) == t \notin ran

Publish(t, es) ==
  /\ events' = events \o es
  /\ ran' = IF events' = <<>> THEN {} ELSE ran \cup {t}

Dispatch(e, more) ==
  /\ events # <<>> /\ Head(events) = e
  /\ events' = Tail(events) \o more
  /\ ran' = IF events' = <<>> THEN {} ELSE Callbacks

-----------------------------------------------------------------------------
(* wizinit_timer and the key.                                               *)

\* wizinit_timer: the edges of the link, then wiz_dhcp_task.  DHCP_run takes
\* socket 0 for itself.
Wizinit ==
  LET on == phy = "up"
      edge == IF on = seen THEN <<>> ELSE IF on THEN <<"LINK_ON">> ELSE <<"PHY_LINK_OFF">>
  IN /\ Call("wizinit")
     /\ seen' = on
     /\ phy' = IF phy = "reset" THEN "down" ELSE phy
     /\ IF dhcp
          THEN /\ sock' = "udp"
               /\ \/ Publish("wizinit", edge) /\ UNCHANGED <<dhcp, ip>>
                  \/ /\ Publish("wizinit", edge \o <<"MQTT_CONNECT">>)
                     /\ dhcp' = FALSE /\ ip' = TRUE
          ELSE Publish("wizinit", edge) /\ UNCHANGED <<dhcp, ip, sock>>
     /\ UNCHANGED <<static, presses, timers, attempt, session>>

\* dev_key_check: the key that asks for a connection.
UserKey ==
  /\ Call("timer_cb")
  /\ presses < MaxPresses /\ presses' = presses + 1
  /\ Publish("timer_cb", <<"LINK_ON">>)
  /\ UNCHANGED <<static, chip, seen, dhcp, timers, attempt, session>>

-----------------------------------------------------------------------------
(* app_networt_status and the board's handler of EVENT_NETWOR_OFF.          *)

\* app_network_init and network_init, for EVENT_PHY_LINK_ON and
\* EVENT_USER_LINK_ON.
LinkOn ==
  /\ Dispatch("LINK_ON", IF static THEN <<"MQTT_CONNECT">> ELSE <<>>)
  /\ task' = [flag |-> "dns", err |-> 0]
  /\ timers' = timers \ {"do_mqtt", "mqtt_task"}
  /\ mqtt' = [mqtt EXCEPT !.flag = "connect"]
  /\ ip' = static /\ dhcp' = (dhcp \/ ~static)
  /\ opened' = FALSE
  /\ UNCHANGED <<static, presses, phy, sock, seen, dns, net, conn, client, expired>>

LinkOff ==
  /\ Dispatch("PHY_LINK_OFF", <<>>)
  /\ timers' = timers \ {"do_mqtt", "mqtt_task", "http_task"}
  /\ UNCHANGED <<static, presses, chip, seen, dhcp, attempt, session>>

\* app_mqttconn_init
MqttConnect ==
  /\ Dispatch("MQTT_CONNECT", <<>>)
  /\ timers' = timers \cup {"mqtt_task"}
  /\ UNCHANGED <<static, presses, chip, seen, dhcp, attempt, session>>

\* (faulty variant) the chip is not reset
NetworkLostUnreset ==
  /\ Dispatch("NETWOR_OFF", <<>>)
  /\ UNCHANGED <<static, presses, chip, seen, dhcp, timers, attempt, session>>

\* app_network_model_init resets the W5500.
NetworkLost ==
  /\ Dispatch("NETWOR_OFF", <<>>)
  /\ phy' = "reset" /\ ip' = FALSE /\ sock' = "closed"
  /\ UNCHANGED <<static, presses, seen, dhcp, timers, attempt, session>>

-----------------------------------------------------------------------------
(* app_network_mqtt_task and app_network_http_task.                         *)

\* The end of the function: too many errors stop the task.
TaskEnds(flag, err, ts) ==
  IF err >= TaskErrLimit
    THEN task' = [flag |-> flag, err |-> 0] /\ timers' = ts \ {"mqtt_task"}
    ELSE task' = [flag |-> flag, err |-> err] /\ timers' = ts

MqttTask(f) ==
  /\ "mqtt_task" \in timers /\ Call("mqtt_task") /\ Publish("mqtt_task", <<>>)
  /\ task.flag = f

\* MQTT_DNS_INIT, with DNS_run_nb: the query is sent, is pending, or ends
\* with an answer or without one.  An answer is whatever has been received.
MqttDnsQuery ==
  /\ MqttTask("dns") /\ dns = 0
  /\ sock' = "udp" /\ dns' = 1
  /\ TaskEnds("dns", task.err, timers)
  /\ UNCHANGED <<static, presses, phy, ip, seen, dhcp, net, conn, opened, session>>

MqttDnsPending ==
  /\ MqttTask("dns") /\ dns = 1
  /\ TaskEnds("dns", task.err, timers)
  /\ UNCHANGED <<static, presses, chip, seen, dhcp, dns, net, conn, opened, session>>

\* (faulty variant) the query's socket stays open
MqttDnsEndOpen ==
  /\ MqttTask("dns") /\ dns = 1
  /\ \/ sock \in {"udp", "established"} /\ TaskEnds("client_init", task.err, timers)
     \/ TaskEnds("dns", task.err + 1, timers)
  /\ dns' = 0
  /\ UNCHANGED <<static, presses, chip, seen, dhcp, net, conn, opened, session>>

MqttDnsEnd ==
  /\ MqttTask("dns") /\ dns = 1
  /\ \/ sock \in {"udp", "established"} /\ TaskEnds("client_init", task.err, timers)
     \/ TaskEnds("dns", task.err + 1, timers)
  /\ sock' = "closed" /\ dns' = 0
  /\ UNCHANGED <<static, presses, phy, ip, seen, dhcp, net, conn, opened, session>>

\* ConnectNetwork_nb, state 0: socket() needs an address.
OpenSocket ==
  /\ MqttTask("client_init") /\ net = 0
  /\ IF ip THEN sock' = "init" /\ net' = 1 /\ opened' = TRUE
           ELSE UNCHANGED <<sock, net, opened>>
  /\ TaskEnds("client_init", task.err, timers)
  /\ UNCHANGED <<static, presses, phy, ip, seen, dhcp, dns, conn, session>>

\* States 1 and 2 call connect_nb.  The command is only heard by a socket
\* that was just opened.
SendConnect ==
  /\ MqttTask("client_init") /\ net > 0 /\ conn = 0
  /\ sock' = IF sock = "init" THEN "syn" ELSE sock
  /\ conn' = 1
  /\ TaskEnds("client_init", task.err, timers)
  /\ UNCHANGED <<static, presses, phy, ip, seen, dhcp, dns, net, opened, session>>

AwaitConnect ==
  /\ MqttTask("client_init") /\ net > 0 /\ conn = 1
  /\ sock \notin {"established", "closed"}
  /\ TaskEnds("client_init", task.err, timers)
  /\ UNCHANGED <<static, presses, chip, seen, dhcp, dns, net, conn, opened, session>>

ConnectFailed ==
  /\ MqttTask("client_init") /\ net > 0 /\ conn = 1 /\ sock = "closed"
  /\ conn' = 0 /\ net' = IF net = 1 THEN 2 ELSE 0
  /\ TaskEnds("client_init", task.err, timers)
  /\ UNCHANGED <<static, presses, chip, seen, dhcp, dns, opened, session>>

\* State 1 finds the connection and lets state 2 ask again.
FirstConnected ==
  /\ MqttTask("client_init") /\ net = 1 /\ conn = 1 /\ sock = "established"
  /\ conn' = 0 /\ net' = 2
  /\ TaskEnds("client_init", task.err, timers)
  /\ UNCHANGED <<static, presses, chip, seen, dhcp, dns, opened, session>>

\* (faulty variant) the old client is connected again
ClientKept ==
  /\ MqttTask("client_init") /\ net = 2 /\ conn = 1 /\ sock = "established"
  /\ conn' = 0 /\ net' = 0
  /\ client' = [client EXCEPT !.connected = FALSE, !.ping = FALSE] /\ expired' = TRUE
  /\ TaskEnds("client_succ", task.err, timers \cup {"do_mqtt"})
  /\ UNCHANGED <<static, presses, chip, seen, dhcp, dns, opened, mqtt>>

\* mqtt_client_init with a connection: the client starts afresh.
ClientCreated ==
  /\ MqttTask("client_init") /\ net = 2 /\ conn = 1 /\ sock = "established"
  /\ conn' = 0 /\ net' = 0
  /\ client' = FreshClient /\ expired' = TRUE
  /\ TaskEnds("client_succ", task.err, timers \cup {"do_mqtt"})
  /\ UNCHANGED <<static, presses, chip, seen, dhcp, dns, opened, mqtt>>

ClientSucc ==
  /\ MqttTask("client_succ")
  /\ TaskEnds("client_succ", task.err, (timers \ {"mqtt_task"}) \cup {"http_task"})
  /\ UNCHANGED <<static, presses, chip, seen, dhcp, dns, net, conn, opened, session>>

\* app_network_http_task: DNS_run_nb again, over socket 1.  Its failures are
\* counted as mqtt_task's.  http_task_flag is left to OtaUpdate: here the check
\* that ends the task may come at any call.
HttpDns ==
  /\ "http_task" \in timers /\ Call("http_task") /\ Publish("http_task", <<>>)
  /\ \/ dns' = 1 - dns /\ UNCHANGED task
     \/ dns = 1 /\ UNCHANGED <<dns, task>>
     \/ /\ dns = 1 /\ dns' = 0
        /\ task' = [task EXCEPT !.err = Least(@ + 1, TaskErrLimit)]
  /\ UNCHANGED <<static, presses, chip, seen, dhcp, timers, net, conn, opened, session>>

HttpCheck ==
  /\ "http_task" \in timers /\ Call("http_task") /\ Publish("http_task", <<>>)
  /\ timers' = timers \ {"http_task"}
  /\ UNCHANGED <<static, presses, chip, seen, dhcp, attempt, session>>

-----------------------------------------------------------------------------
(* timer_do_mqtt.  A packet that was sent puts ping_timer 30 s off, and the *)
(* waits for an acknowledgement take one second: no ping is due in them.    *)

DoMqtt(f) == "do_mqtt" \in timers /\ Call("do_mqtt") /\ mqtt.flag = f

\* CONNECT_MQTT.  MQTTConnect refuses a client that is connected.
Connect ==
  /\ DoMqtt("connect") /\ Publish("do_mqtt", <<>>)
  /\ \/ /\ ~client.connected /\ sock = "established"
        /\ client' = [client EXCEPT !.connected = TRUE]
        /\ mqtt' = [mqtt EXCEPT !.flag = "subscribe"]
     \/ mqtt' = [mqtt EXCEPT !.flag = "error"] /\ UNCHANGED client
  /\ expired' = (expired /\ client.connected)
  /\ UNCHANGED <<static, presses, chip, seen, dhcp, timers, attempt>>

\* SUB_TOPIC: each topic is acknowledged or not, the last one decides.  There
\* are as many handlers as topics.
Subscribe ==
  /\ DoMqtt("subscribe") /\ Publish("do_mqtt", <<>>)
  /\ \E acked \in SUBSET Topics :
       /\ (client.connected /\ sock = "established") \/ acked = {}
       /\ client' = [client EXCEPT !.handlers =
                       [t \in Topics |-> client.handlers[t] + (IF t \in acked THEN 1 ELSE 0)]]
       /\ mqtt' = [mqtt EXCEPT !.flag = IF LastTopic \in acked THEN "keep_alive" ELSE "error"]
  /\ expired' = (expired /\ sock # "established")
  /\ UNCHANGED <<static, presses, chip, seen, dhcp, timers, attempt>>

\* The client after keepalive has found the connection lost.
LostClient(ping) ==
  [connected |-> FALSE, ping |-> ping, lost |-> TRUE, handlers |-> client.handlers]

\* (faulty variant) the client is not told that it is disconnected
HeartbeatConnected(ping) ==
  CASE expired /\ ping /\ ~client.lost ->
         /\ client' = [client EXCEPT !.ping = ping, !.lost = TRUE]
         /\ Publish("do_mqtt", <<"NETWOR_OFF">>) /\ UNCHANGED expired
    [] expired /\ ~ping /\ sock' = "established" ->
         /\ client' = [client EXCEPT !.ping = TRUE]
         /\ Publish("do_mqtt", <<>>) /\ expired' = FALSE
    [] OTHER ->
         /\ client' = [client EXCEPT !.ping = ping]
         /\ Publish("do_mqtt", <<>>) /\ UNCHANGED expired

\* keepalive(c), after a packet that leaves ping_outstanding as given.
Heartbeat(ping) ==
  CASE expired /\ ping /\ ~client.lost ->
         /\ client' = LostClient(ping)
         /\ Publish("do_mqtt", <<"NETWOR_OFF">>) /\ UNCHANGED expired
    [] expired /\ ~ping /\ sock' = "established" ->
         /\ client' = [client EXCEPT !.ping = TRUE]
         /\ Publish("do_mqtt", <<>>) /\ expired' = FALSE
    [] expired /\ ~ping /\ sock' # "established" /\ client.connected ->
         /\ client' = LostClient(ping)
         /\ Publish("do_mqtt", <<"NETWOR_OFF">>) /\ UNCHANGED expired
    [] OTHER ->
         /\ client' = [client EXCEPT !.ping = ping]
         /\ Publish("do_mqtt", <<>>) /\ UNCHANGED expired

\* KEEP_ALIVE: MQTTYield reads at most one packet.  It never fails: the type
\* of a packet, an unsigned short, is not FAILURE.
KeepAlive ==
  /\ DoMqtt("keep_alive")
  /\ UNCHANGED sock
  /\ \/ Heartbeat(client.ping)
     \/ sock = "established" /\ Heartbeat(FALSE)
  /\ UNCHANGED <<static, presses, phy, ip, seen, dhcp, timers, attempt, mqtt>>

\* A message to ota/inform whose acknowledgement cannot be sent, because the
\* connection ends in between.
KeepAliveNoAck ==
  /\ DoMqtt("keep_alive")
  /\ sock = "established" /\ sock' = "closed"
  /\ Heartbeat(client.ping)
  /\ mqtt' = [mqtt EXCEPT !.flag = "error"]
  /\ UNCHANGED <<static, presses, phy, ip, seen, dhcp, timers, attempt>>

\* (faulty variant) one error too many is allowed
MqttErrorLate ==
  /\ DoMqtt("error") /\ Publish("do_mqtt", <<>>)
  /\ IF mqtt.err >= ErrLimit
       THEN mqtt' = [flag |-> "connect", err |-> 0] /\ timers' = timers \ {"do_mqtt"}
       ELSE mqtt' = [flag |-> "connect", err |-> mqtt.err + 1] /\ UNCHANGED timers
  /\ UNCHANGED <<static, presses, chip, seen, dhcp, attempt, client, expired>>

\* ERROR_STATUS, and the end of the function.
MqttError ==
  /\ DoMqtt("error") /\ Publish("do_mqtt", <<>>)
  /\ IF mqtt.err + 1 >= ErrLimit
       THEN mqtt' = [flag |-> "connect", err |-> 0] /\ timers' = timers \ {"do_mqtt"}
       ELSE mqtt' = [flag |-> "connect", err |-> mqtt.err + 1] /\ UNCHANGED timers
  /\ UNCHANGED <<static, presses, chip, seen, dhcp, attempt, client, expired>>

\* MQTTPublish for a report or an answer.
Report ==
  /\ client.connected /\ sock = "established"
  /\ expired' = FALSE
  /\ UNCHANGED <<static, presses, chip, seen, dhcp, events, ran, timers, attempt, mqtt, client>>

-----------------------------------------------------------------------------
(* The cable, the chip, the server and time.                                *)

LinkDown ==
  /\ phy = "up" /\ phy' = "down"
  /\ UNCHANGED <<static, presses, ip, sock, seen, dhcp, events, ran, timers, attempt, session>>

LinkUp ==
  /\ phy = "down" \/ (phy = "reset" /\ ~SlowPhy)
  /\ phy' = "up"
  /\ UNCHANGED <<static, presses, ip, sock, seen, dhcp, events, ran, timers, attempt, session>>

\* The server accepts, refuses or does not answer.
ServerAnswers ==
  /\ sock = "syn" /\ sock' \in {"established", "closed"}
  /\ UNCHANGED <<static, presses, phy, ip, seen, dhcp, events, ran, timers, attempt, session>>

ConnectionEnds ==
  /\ sock = "established" /\ sock' = "closed"
  /\ UNCHANGED <<static, presses, phy, ip, seen, dhcp, events, ran, timers, attempt, session>>

\* ping_timer runs out; only KEEP_ALIVE looks at it.
Expire ==
  /\ ~expired /\ mqtt.flag = "keep_alive" /\ expired' = TRUE
  /\ UNCHANGED <<static, presses, chip, seen, dhcp, events, ran, timers, attempt, mqtt, client>>

-----------------------------------------------------------------------------
MqttTaskRuns ==
  \/ MqttDnsQuery \/ MqttDnsPending \/ MqttDnsEnd
  \/ OpenSocket \/ SendConnect \/ AwaitConnect \/ ConnectFailed
  \/ FirstConnected \/ ClientCreated \/ ClientSucc

DoMqttRuns == Connect \/ Subscribe \/ KeepAlive \/ KeepAliveNoAck \/ MqttError

Dispatches == LinkOn \/ LinkOff \/ MqttConnect \/ NetworkLost

Next ==
  \/ Wizinit \/ UserKey \/ Dispatches
  \/ MqttTaskRuns \/ HttpDns \/ HttpCheck \/ DoMqttRuns \/ Report
  \/ LinkDown \/ LinkUp \/ ServerAnswers \/ ConnectionEnds \/ Expire

Spec == Init /\ [][Next]_vars

\* The superloop dispatches events and calls every live timer again and again;
\* time passes.  Nothing is assumed of cable, servers and users.
FairSpec ==
  /\ Spec
  /\ WF_vars(Dispatches)
  /\ SF_vars(Wizinit) /\ SF_vars(DoMqttRuns)
  /\ WF_vars(Expire)

-----------------------------------------------------------------------------
TypeOK ==
  /\ static \in BOOLEAN /\ presses \in 0 .. MaxPresses
  /\ seen \in BOOLEAN /\ dhcp \in BOOLEAN
  /\ phy \in {"up", "down", "reset"} /\ ip \in BOOLEAN
  /\ sock \in {"closed", "udp", "init", "syn", "established"}
  /\ events \in Seq(EventNames) /\ ran \in SUBSET Callbacks
  /\ timers \in SUBSET {"mqtt_task", "http_task", "do_mqtt"}
  /\ task \in [flag : {"dns", "client_init", "client_succ"}, err : 0 .. TaskErrLimit]
  /\ dns \in {0, 1} /\ net \in {0, 1, 2} /\ conn \in {0, 1}
  /\ mqtt \in [flag : {"connect", "subscribe", "keep_alive", "error"}, err : 0 .. ErrLimit - 1]
  /\ client \in [connected : BOOLEAN, ping : BOOLEAN, lost : BOOLEAN,
                 handlers : [Topics -> Nat]]
  /\ expired \in BOOLEAN /\ opened \in BOOLEAN

\* No attempt succeeds with what an abandoned one has left in the statics of
\* DNS_run_nb, ConnectNetwork_nb and connect_nb, or in the socket: a client is
\* created over a connection that was opened since the last link event.
NoStaleSuccess == task.flag = "client_succ" => opened

\* However often the client connects again, no topic has two handlers, so no
\* command from the cloud is executed twice (deliverMessage calls them all).
TopicOnce == \A t \in Topics : client.handlers[t] <= 1

\* How far the attempt that the last link event asked for has come.
Attempt == IF task.flag = "client_succ" THEN "done" ELSE IF opened THEN "opened" ELSE "asked"

Session == INSTANCE MqttSession WITH
  attempt <- Attempt, connected <- client.connected, lost <- client.lost,
  handlers <- client.handlers

\* The state machines implement the clients of MqttSession, whatever statics
\* and sockets abandoned attempts leave behind and in whichever order the
\* events and the errors come: each client has a connection of its own, none
\* is connected, subscribed or lost twice, and none is used after its loss,
\* which keepalive() would not notice a second time.
ImplementsSession == Session!Spec

\* A connection that ends is noticed, unless a link event stops the client
\* first.
LossNoticed ==
  (client.connected /\ mqtt.flag = "keep_alive" /\ "do_mqtt" \in timers
     /\ sock # "established")
    ~> (~client.connected \/ "do_mqtt" \notin timers)

\* A client that has lost its server is given up for a new attempt as soon as
\* the cable stays in: the reset of the chip takes the PHY down, which is
\* taken for the cable.
LostIsRetried ==
  <>[](phy = "up") => <>[]~(client.lost /\ task.flag = "client_succ")
=============================================================================
