--------------------------- MODULE MqttLinkProofs ---------------------------
(***************************************************************************)
(* Theorems about the connection to the MQTT server, for any topics and    *)
(* error limits, whatever the cable, the chip and the servers do.          *)
(***************************************************************************)
EXTENDS MqttLink, TLAPS

(***************************************************************************)
(* The inductive invariant.  An attempt uses its own connection or none;   *)
(* the client runs only after an attempt, on a socket nobody opens again;  *)
(* and a client that lost its server has a closed socket as soon as it is  *)
(* called again.                                                           *)
(***************************************************************************)
Pending(e) == \E k \in 1 .. Len(events) : events[k] = e

AttemptInv ==
  /\ task.flag = "client_init" /\ ~opened => sock \in {"closed", "udp"}
  /\ task.flag = "client_succ" => opened /\ sock \in {"closed", "udp", "established"}
  /\ "do_mqtt" \in timers => task.flag = "client_succ"

ClientInv ==
  /\ client.lost => ~client.connected
  /\ client.lost /\ task.flag = "client_succ" =>
       sock # "established" \/ (Pending("NETWOR_OFF") /\ ~Call("do_mqtt"))
  /\ ~client.connected /\ ~client.lost => \A t \in Topics : client.handlers[t] = 0
  /\ mqtt.flag = "subscribe" => \A t \in Topics : client.handlers[t] = 0
  /\ \A t \in Topics : client.handlers[t] <= 1

LinkInv == AttemptInv /\ ClientInv

\* The loss is still to be handled, and the client is not called before.
Waits == Pending("NETWOR_OFF") /\ ~Call("do_mqtt")

(***************************************************************************)
(* The event bus and the end of mqtt_task.                                 *)
(***************************************************************************)
LEMMA PublishBus ==
  ASSUME TypeOK, NEW t \in Callbacks, NEW es \in Seq(EventNames), Publish(t, es)
  PROVE  /\ events' \in Seq(EventNames) /\ ran' \in SUBSET Callbacks
         /\ Waits => Waits'
         /\ es = <<"NETWOR_OFF">> /\ t = "do_mqtt" => Waits'
<1>1. events \in Seq(EventNames) /\ ran \in SUBSET Callbacks
  BY DEF TypeOK
<1>2. events' = events \o es /\ ran' = IF events' = <<>> THEN {} ELSE ran \cup {t}
  BY DEF Publish
<1>3. events' \in Seq(EventNames)
  BY <1>1, <1>2
<1>4. Pending("NETWOR_OFF") => Pending("NETWOR_OFF")' /\ events' # <<>>
  BY <1>1, <1>2 DEF Pending
<1>5. es = <<"NETWOR_OFF">> => Pending("NETWOR_OFF")' /\ events' # <<>>
  <2> SUFFICES ASSUME es = <<"NETWOR_OFF">>
               PROVE  Pending("NETWOR_OFF")' /\ events' # <<>>
    OBVIOUS
  <2>1. Len(events') = Len(events) + 1 /\ events'[Len(events) + 1] = "NETWOR_OFF"
    BY <1>1, <1>2
  <2>2. Len(events) + 1 \in 1 .. Len(events')
    BY <1>1, <2>1
  <2>3. QED
    BY <1>1, <2>1, <2>2 DEF Pending
<1>6. QED
  BY <1>1, <1>2, <1>3, <1>4, <1>5 DEF Waits, Call

LEMMA DispatchBus ==
  ASSUME TypeOK, NEW e, NEW more \in Seq(EventNames), Dispatch(e, more)
  PROVE  /\ events' \in Seq(EventNames) /\ ran' \in SUBSET Callbacks
         /\ Waits /\ e # "NETWOR_OFF" => Waits'
<1>1. events \in Seq(EventNames) /\ ran \in SUBSET Callbacks
  BY DEF TypeOK
<1>2. events # <<>> /\ Head(events) = e /\ events' = Tail(events) \o more
      /\ ran' = IF events' = <<>> THEN {} ELSE Callbacks
  BY DEF Dispatch
<1>3. Tail(events) \in Seq(EventNames) /\ Len(Tail(events)) = Len(events) - 1
      /\ Head(events) = events[1] /\ Len(events) \in Nat
      /\ \A k \in 1 .. Len(events) - 1 : Tail(events)[k] = events[k + 1]
  BY <1>1, <1>2
<1>4. events' \in Seq(EventNames) /\ Len(events') = Len(Tail(events)) + Len(more)
      /\ \A k \in 1 .. Len(Tail(events)) : events'[k] = Tail(events)[k]
  BY <1>2, <1>3
<1>5. ASSUME NEW k \in 1 .. Len(events), events[k] = "NETWOR_OFF", e # "NETWOR_OFF"
      PROVE  Pending("NETWOR_OFF")' /\ events' # <<>>
  <2>1. k # 1 /\ k - 1 \in 1 .. Len(events) - 1 /\ (k - 1) + 1 = k
    BY <1>2, <1>3, <1>5
  <2>2. events'[k - 1] = "NETWOR_OFF"
    BY <1>3, <1>4, <1>5, <2>1
  <2>3. k - 1 \in 1 .. Len(events')
    BY <1>3, <1>4, <2>1
  <2>4. QED
    BY <2>2, <2>3 DEF Pending
<1>6. ran' \in SUBSET Callbacks /\ (events' # <<>> => "do_mqtt" \in ran')
  BY <1>2 DEF Callbacks
<1>7. QED
  BY <1>4, <1>5, <1>6 DEF Waits, Call, Pending

TaskFlags == {"dns", "client_init", "client_succ"}
Timers == {"mqtt_task", "http_task", "do_mqtt"}

LEMMA TaskEndsIn ==
  ASSUME NEW f \in TaskFlags, NEW err \in Nat, NEW ts \in SUBSET Timers, TaskEnds(f, err, ts)
  PROVE  /\ task' \in [flag : TaskFlags, err : 0 .. TaskErrLimit] /\ task'.flag = f
         /\ timers' \in SUBSET ts /\ timers' \in SUBSET Timers
<1>1. TaskErrLimit \in Nat \ {0}
  BY LinkAssumption
<1>2. CASE err >= TaskErrLimit
  BY <1>1, <1>2 DEF TaskEnds
<1>3. CASE ~(err >= TaskErrLimit)
  BY <1>1, <1>3 DEF TaskEnds
<1>4. QED
  BY <1>2, <1>3

LEMMA ClientFrame ==
  ASSUME ClientInv, UNCHANGED client,
         mqtt'.flag = "subscribe" => mqtt.flag = "subscribe",
         task'.flag = "client_succ" /\ sock' = "established" =>
           task.flag = "client_succ" /\ sock = "established" /\ (Waits => Waits')
  PROVE  ClientInv'
BY DEF ClientInv, Waits

ClientType == [connected : BOOLEAN, ping : BOOLEAN, lost : BOOLEAN, handlers : [Topics -> Nat]]

LEMMA FreshType ==
  /\ FreshClient \in ClientType
  /\ ~FreshClient.connected /\ ~FreshClient.lost /\ \A t \in Topics : FreshClient.handlers[t] = 0
BY DEF FreshClient, ClientType

LEMMA HeartbeatStep ==
  ASSUME TypeOK, NEW ping \in BOOLEAN, Heartbeat(ping)
  PROVE  /\ events' \in Seq(EventNames) /\ ran' \in SUBSET Callbacks
         /\ client' \in ClientType /\ expired' \in BOOLEAN
         /\ client'.handlers = client.handlers
         /\ \/ client'.lost = client.lost /\ client'.connected = client.connected /\ (Waits => Waits')
            \/ client'.lost = TRUE /\ client'.connected = FALSE /\ Waits'
<1>1. client \in ClientType /\ expired \in BOOLEAN
  BY DEF TypeOK, ClientType
<1>2. "do_mqtt" \in Callbacks /\ <<>> \in Seq(EventNames) /\ <<"NETWOR_OFF">> \in Seq(EventNames)
  BY DEF Callbacks, EventNames
<1>3. ASSUME client' = LostClient(ping), Publish("do_mqtt", <<"NETWOR_OFF">>), UNCHANGED expired
      PROVE  /\ events' \in Seq(EventNames) /\ ran' \in SUBSET Callbacks
             /\ client' \in ClientType /\ expired' \in BOOLEAN
             /\ client'.handlers = client.handlers
             /\ client'.lost = TRUE /\ client'.connected = FALSE /\ Waits'
  <2>1. client' \in ClientType /\ client'.handlers = client.handlers
        /\ client'.lost = TRUE /\ client'.connected = FALSE
    BY <1>1, <1>3 DEF LostClient, ClientType
  <2>2. events' \in Seq(EventNames) /\ ran' \in SUBSET Callbacks /\ Waits'
    BY <1>2, <1>3, PublishBus
  <2>3. QED
    BY <1>1, <1>3, <2>1, <2>2
<1>4. ASSUME NEW p \in BOOLEAN, client' = [client EXCEPT !.ping = p], Publish("do_mqtt", <<>>),
             expired' \in BOOLEAN
      PROVE  /\ events' \in Seq(EventNames) /\ ran' \in SUBSET Callbacks
             /\ client' \in ClientType /\ expired' \in BOOLEAN
             /\ client'.handlers = client.handlers
             /\ client'.lost = client.lost /\ client'.connected = client.connected
             /\ (Waits => Waits')
  <2>1. client' \in ClientType /\ client'.handlers = client.handlers
        /\ client'.lost = client.lost /\ client'.connected = client.connected
    BY <1>1, <1>4 DEF ClientType
  <2>2. events' \in Seq(EventNames) /\ ran' \in SUBSET Callbacks /\ (Waits => Waits')
    BY <1>2, <1>4, PublishBus
  <2>3. QED
    BY <1>4, <2>1, <2>2
<1>5. \/ client' = LostClient(ping) /\ Publish("do_mqtt", <<"NETWOR_OFF">>) /\ UNCHANGED expired
      \/ client' = [client EXCEPT !.ping = TRUE] /\ Publish("do_mqtt", <<>>) /\ expired' = FALSE
      \/ client' = [client EXCEPT !.ping = ping] /\ Publish("do_mqtt", <<>>) /\ UNCHANGED expired
  BY DEF Heartbeat
<1>6. QED
  BY <1>1, <1>3, <1>4, <1>5

(***************************************************************************)
(* Each step keeps the types and the invariant.                            *)
(***************************************************************************)
LEMMA InitLink == Init => TypeOK /\ LinkInv
<1> SUFFICES ASSUME Init PROVE TypeOK /\ LinkInv
  OBVIOUS
<1>1. TypeOK
  <2>1. /\ static \in BOOLEAN /\ ip \in BOOLEAN /\ seen \in BOOLEAN /\ dhcp \in BOOLEAN
        /\ opened \in BOOLEAN /\ expired \in BOOLEAN
    BY DEF Init
  <2>2. presses \in 0 .. MaxPresses /\ task.err \in 0 .. TaskErrLimit /\ mqtt.err \in 0 .. ErrLimit - 1
    BY LinkAssumption DEF Init
  <2>3. /\ task \in [flag : {"dns", "client_init", "client_succ"}, err : 0 .. TaskErrLimit]
        /\ mqtt \in [flag : {"connect", "subscribe", "keep_alive", "error"}, err : 0 .. ErrLimit - 1]
    BY <2>2 DEF Init
  <2>4. client \in ClientType
    BY FreshType DEF Init
  <2>5. events \in Seq(EventNames) /\ ran \in SUBSET Callbacks
    BY DEF Init
  <2>6. timers \in SUBSET {"mqtt_task", "http_task", "do_mqtt"} /\ phy = "reset" /\ sock = "closed"
        /\ dns = 0 /\ net = 0 /\ conn = 0
    BY DEF Init
  <2>7. QED
    BY <2>1, <2>2, <2>3, <2>4, <2>5, <2>6 DEF TypeOK, ClientType
<1>2. LinkInv
  BY FreshType DEF Init, LinkInv, AttemptInv, ClientInv
<1>3. QED
  BY <1>1, <1>2

LEMMA NoEvents == /\ <<>> \in Seq(EventNames)
                  /\ \A e \in EventNames : <<e>> \in Seq(EventNames)
OBVIOUS

\* The supervision of the link and the dispatch of its events.
LEMMA SupervisionInv ==
  ASSUME TypeOK, LinkInv, Wizinit \/ UserKey \/ Dispatches
  PROVE  TypeOK' /\ LinkInv'
<1>1. AttemptInv /\ ClientInv
  BY DEF LinkInv
<1>2. CASE Wizinit
  <2> DEFINE edge == IF (phy = "up") = seen THEN <<>>
                     ELSE IF phy = "up" THEN <<"LINK_ON">> ELSE <<"PHY_LINK_OFF">>
  <2>1. PICK es \in {edge, edge \o <<"MQTT_CONNECT">>} : Publish("wizinit", es)
    BY <1>2 DEF Wizinit
  <2>2. edge \in Seq(EventNames) /\ <<"MQTT_CONNECT">> \in Seq(EventNames)
    BY NoEvents DEF EventNames
  <2> HIDE DEF edge
  <2>3. es \in Seq(EventNames)
    <3>1. edge \o <<"MQTT_CONNECT">> \in Seq(EventNames)
      BY <2>2
    <3>2. QED
      BY <2>1, <2>2, <3>1
  <2>4. events' \in Seq(EventNames) /\ ran' \in SUBSET Callbacks /\ (Waits => Waits')
    BY <2>1, <2>3, PublishBus DEF Callbacks
  <2>5. seen' \in BOOLEAN
    BY <1>2 DEF Wizinit
  <2>6. phy' \in {"up", "down", "reset"} /\ dhcp' \in BOOLEAN /\ ip' \in BOOLEAN
        /\ sock' \in {"udp", sock}
    BY <1>2 DEF Wizinit, TypeOK
  <2>7. UNCHANGED <<static, presses, timers, task, dns, net, conn, opened, mqtt, client, expired>>
    BY <1>2 DEF Wizinit, attempt, session
  <2>8. TypeOK'
    BY <2>4, <2>5, <2>6, <2>7 DEF TypeOK
  <2>9. AttemptInv'
    BY <1>1, <2>6, <2>7 DEF AttemptInv
  <2>10. ClientInv'
    BY <1>1, <2>4, <2>6, <2>7, ClientFrame
  <2>11. QED
    BY <2>8, <2>9, <2>10 DEF LinkInv
<1>3. CASE UserKey
  <2>1. events' \in Seq(EventNames) /\ ran' \in SUBSET Callbacks /\ (Waits => Waits')
    BY <1>3, NoEvents, PublishBus DEF UserKey, Callbacks, EventNames
  <2>2. presses' \in 0 .. MaxPresses
    BY <1>3, LinkAssumption DEF UserKey, TypeOK
  <2>3. UNCHANGED <<static, phy, ip, sock, seen, dhcp, timers, task, dns, net, conn, opened,
                    mqtt, client, expired>>
    BY <1>3 DEF UserKey, chip, attempt, session
  <2>4. TypeOK'
    BY <2>1, <2>2, <2>3 DEF TypeOK
  <2>5. AttemptInv' /\ ClientInv'
    BY <1>1, <2>1, <2>3, ClientFrame DEF AttemptInv
  <2>6. QED
    BY <2>4, <2>5 DEF LinkInv
<1>4. CASE LinkOn
  <2>1. events' \in Seq(EventNames) /\ ran' \in SUBSET Callbacks
    BY <1>4, NoEvents, DispatchBus DEF LinkOn, EventNames
  <2>2. task' = [flag |-> "dns", err |-> 0] /\ timers' = timers \ {"do_mqtt", "mqtt_task"}
        /\ mqtt' = [mqtt EXCEPT !.flag = "connect"] /\ opened' = FALSE
        /\ UNCHANGED <<static, presses, phy, sock, seen, dns, net, conn, client, expired>>
    BY <1>4 DEF LinkOn
  <2>3. ip' \in BOOLEAN /\ dhcp' \in BOOLEAN
    BY <1>4 DEF LinkOn, TypeOK
  <2>4. mqtt' \in [flag : {"connect", "subscribe", "keep_alive", "error"}, err : 0 .. ErrLimit - 1]
        /\ mqtt'.flag = "connect"
    BY <2>2 DEF TypeOK
  <2>5. TypeOK'
    <3>1. task' \in [flag : {"dns", "client_init", "client_succ"}, err : 0 .. TaskErrLimit]
      BY <2>2, LinkAssumption
    <3>2. timers' \in SUBSET {"mqtt_task", "http_task", "do_mqtt"} /\ opened' \in BOOLEAN
      BY <2>2 DEF TypeOK
    <3>3. QED
      BY <2>1, <2>2, <2>3, <2>4, <3>1, <3>2 DEF TypeOK
  <2>6. AttemptInv' /\ ClientInv'
    BY <1>1, <2>2, <2>4, ClientFrame DEF AttemptInv
  <2>7. QED
    BY <2>5, <2>6 DEF LinkInv
<1>5. CASE LinkOff \/ MqttConnect
  <2>1. events' \in Seq(EventNames) /\ ran' \in SUBSET Callbacks /\ (Waits => Waits')
    <3>1. PICK e \in {"PHY_LINK_OFF", "MQTT_CONNECT"} : Dispatch(e, <<>>)
      BY <1>5 DEF LinkOff, MqttConnect
    <3>2. QED
      BY <3>1, NoEvents, DispatchBus
  <2>2. UNCHANGED <<static, presses, phy, ip, sock, seen, dhcp, task, dns, net, conn, opened,
                    mqtt, client, expired>>
    BY <1>5 DEF LinkOff, MqttConnect, chip, attempt, session
  <2>3. timers' \in SUBSET {"mqtt_task", "http_task", "do_mqtt"} /\ timers' \subseteq timers \cup {"mqtt_task"}
    BY <1>5 DEF LinkOff, MqttConnect, TypeOK
  <2>4. TypeOK'
    BY <2>1, <2>2, <2>3 DEF TypeOK
  <2>5. AttemptInv' /\ ClientInv'
    BY <1>1, <2>1, <2>2, <2>3, ClientFrame DEF AttemptInv
  <2>6. QED
    BY <2>4, <2>5 DEF LinkInv
<1>6. CASE NetworkLost
  <2>1. events' \in Seq(EventNames) /\ ran' \in SUBSET Callbacks
    BY <1>6, NoEvents, DispatchBus DEF NetworkLost
  <2>2. phy' = "reset" /\ ip' = FALSE /\ sock' = "closed"
        /\ UNCHANGED <<static, presses, seen, dhcp, timers, task, dns, net, conn, opened,
                       mqtt, client, expired>>
    BY <1>6 DEF NetworkLost, attempt, session
  <2>3. TypeOK'
    <3>1. ip' \in BOOLEAN /\ phy' \in {"up", "down", "reset"} /\ sock' \in {"closed", "udp"}
      BY <2>2
    <3>2. QED
      BY <2>1, <2>2, <3>1 DEF TypeOK
  <2>4. AttemptInv' /\ ClientInv'
    BY <1>1, <2>2, ClientFrame DEF AttemptInv
  <2>5. QED
    BY <2>3, <2>4 DEF LinkInv
<1>7. QED
  BY <1>2, <1>3, <1>4, <1>5, <1>6 DEF Dispatches

\* One call of app_network_mqtt_task.
LEMMA MqttTaskInv ==
  ASSUME TypeOK, LinkInv, MqttTaskRuns
  PROVE  TypeOK' /\ LinkInv'
<1>1. AttemptInv /\ ClientInv
  BY DEF LinkInv
<1>2. PICK f \in TaskFlags : MqttTask(f)
  BY DEF MqttTaskRuns, MqttDnsQuery, MqttDnsPending, MqttDnsEnd, OpenSocket, SendConnect,
     AwaitConnect, ConnectFailed, FirstConnected, ClientCreated, ClientSucc, TaskFlags
<1>3. task.flag = f /\ events' \in Seq(EventNames) /\ ran' \in SUBSET Callbacks /\ (Waits => Waits')
  BY <1>2, NoEvents, PublishBus DEF MqttTask, Callbacks
<1>4. UNCHANGED <<static, presses, phy, ip, seen, dhcp, mqtt>>
  BY DEF MqttTaskRuns, MqttDnsQuery, MqttDnsPending, MqttDnsEnd, OpenSocket, SendConnect,
     AwaitConnect, ConnectFailed, FirstConnected, ClientCreated, ClientSucc, chip, session
<1>5. task.err \in Nat /\ task.err + 1 \in Nat /\ timers \in SUBSET Timers
  BY LinkAssumption DEF TypeOK, Timers
<1>6. ASSUME task' \in [flag : TaskFlags, err : 0 .. TaskErrLimit], timers' \in SUBSET Timers,
             sock' \in {"closed", "udp", "init", "syn", "established"},
             dns' \in {0, 1}, net' \in {0, 1, 2}, conn' \in {0, 1}, opened' \in BOOLEAN,
             client' \in ClientType, expired' \in BOOLEAN
      PROVE  TypeOK'
  BY <1>3, <1>4, <1>6 DEF TypeOK, TaskFlags, Timers, ClientType
<1>7. /\ dns \in {0, 1} /\ net \in {0, 1, 2} /\ conn \in {0, 1} /\ opened \in BOOLEAN
      /\ client \in ClientType /\ expired \in BOOLEAN
      /\ sock \in {"closed", "udp", "init", "syn", "established"}
  BY DEF TypeOK, ClientType
<1>8. CASE MqttDnsQuery \/ MqttDnsPending
  <2>1. task.flag = "dns" /\ TaskEnds("dns", task.err, timers) /\ sock' \in {sock, "udp"}
        /\ dns' \in {0, 1} /\ UNCHANGED <<net, conn, opened, client, expired>>
    BY <1>7, <1>8 DEF MqttDnsQuery, MqttDnsPending, MqttTask, session, chip
  <2>2. task' \in [flag : TaskFlags, err : 0 .. TaskErrLimit] /\ task'.flag = "dns"
        /\ timers' \in SUBSET timers /\ timers' \in SUBSET Timers
    BY <1>5, <2>1, TaskEndsIn DEF TaskFlags
  <2>3. TypeOK'
    BY <1>6, <1>7, <2>1, <2>2
  <2>4. AttemptInv' /\ ClientInv'
    BY <1>1, <1>3, <1>4, <2>1, <2>2, ClientFrame DEF AttemptInv
  <2>5. QED
    BY <2>3, <2>4 DEF LinkInv
<1>9. CASE MqttDnsEnd
  <2>1. task.flag = "dns" /\ sock' = "closed" /\ dns' = 0
        /\ UNCHANGED <<net, conn, opened, client, expired>>
        /\ (TaskEnds("client_init", task.err, timers) \/ TaskEnds("dns", task.err + 1, timers))
    BY <1>9 DEF MqttDnsEnd, MqttTask, session
  <2>2. task' \in [flag : TaskFlags, err : 0 .. TaskErrLimit] /\ task'.flag \in {"dns", "client_init"}
        /\ timers' \in SUBSET timers /\ timers' \in SUBSET Timers
    BY <1>5, <2>1, TaskEndsIn DEF TaskFlags
  <2>3. TypeOK'
    BY <1>6, <1>7, <2>1, <2>2
  <2>4. AttemptInv' /\ ClientInv'
    BY <1>1, <1>3, <1>4, <2>1, <2>2, ClientFrame DEF AttemptInv
  <2>5. QED
    BY <2>3, <2>4 DEF LinkInv
<1>10. CASE OpenSocket \/ SendConnect \/ AwaitConnect \/ ConnectFailed \/ FirstConnected
  <2>1. task.flag = "client_init" /\ TaskEnds("client_init", task.err, timers)
        /\ UNCHANGED <<client, expired, dns>>
    BY <1>10 DEF OpenSocket, SendConnect, AwaitConnect, ConnectFailed, FirstConnected, MqttTask,
       session, chip
  <2>2. \/ sock' = sock /\ opened' = opened
        \/ sock' = "init" /\ opened' = TRUE
        \/ sock = "init" /\ sock' = "syn" /\ opened' = opened
    BY <1>10 DEF OpenSocket, SendConnect, AwaitConnect, ConnectFailed, FirstConnected, chip
  <2>3. net' \in {0, 1, 2} /\ conn' \in {0, 1}
    BY <1>7, <1>10 DEF OpenSocket, SendConnect, AwaitConnect, ConnectFailed, FirstConnected
  <2>4. task' \in [flag : TaskFlags, err : 0 .. TaskErrLimit] /\ task'.flag = "client_init"
        /\ timers' \in SUBSET timers /\ timers' \in SUBSET Timers
    BY <1>5, <2>1, TaskEndsIn DEF TaskFlags
  <2>5. TypeOK'
    BY <1>6, <1>7, <2>1, <2>2, <2>3, <2>4
  <2>6. AttemptInv' /\ ClientInv'
    BY <1>1, <1>3, <1>4, <2>1, <2>2, <2>4, ClientFrame DEF AttemptInv
  <2>7. QED
    BY <2>5, <2>6 DEF LinkInv
<1>11. CASE ClientCreated
  <2>1. task.flag = "client_init" /\ TaskEnds("client_succ", task.err, timers \cup {"do_mqtt"})
        /\ client' = FreshClient /\ expired' = TRUE /\ conn' = 0 /\ net' = 0
        /\ sock = "established" /\ UNCHANGED <<sock, dns, opened>>
    BY <1>11 DEF ClientCreated, MqttTask, chip
  <2>2. task' \in [flag : TaskFlags, err : 0 .. TaskErrLimit] /\ task'.flag = "client_succ"
        /\ timers' \in SUBSET Timers
    BY <1>5, <2>1, TaskEndsIn DEF TaskFlags, Timers
  <2>3. TypeOK'
    BY <1>6, <1>7, <2>1, <2>2, FreshType
  <2>4. AttemptInv'
    BY <1>1, <2>1, <2>2 DEF AttemptInv
  <2>5. ClientInv'
    BY <2>1, FreshType DEF ClientInv
  <2>6. QED
    BY <2>3, <2>4, <2>5 DEF LinkInv
<1>12. CASE ClientSucc
  <2>1. task.flag = "client_succ"
        /\ TaskEnds("client_succ", task.err, (timers \ {"mqtt_task"}) \cup {"http_task"})
        /\ UNCHANGED <<sock, dns, net, conn, opened, client, expired>>
    BY <1>12 DEF ClientSucc, MqttTask, chip, session
  <2>2. task' \in [flag : TaskFlags, err : 0 .. TaskErrLimit] /\ task'.flag = "client_succ"
        /\ timers' \in SUBSET Timers
    BY <1>5, <2>1, TaskEndsIn DEF TaskFlags, Timers
  <2>3. TypeOK'
    BY <1>6, <1>7, <2>1, <2>2
  <2>4. AttemptInv' /\ ClientInv'
    BY <1>1, <1>3, <1>4, <2>1, <2>2, ClientFrame DEF AttemptInv
  <2>5. QED
    BY <2>3, <2>4 DEF LinkInv
<1>13. QED
  BY <1>8, <1>9, <1>10, <1>11, <1>12 DEF MqttTaskRuns

\* The client's steps leave the attempt alone, and the socket open or closed.
LEMMA ClientInvStep ==
  ASSUME TypeOK, LinkInv, DoMqttRuns
  PROVE  TypeOK' /\ LinkInv'
<1>1. AttemptInv /\ ClientInv
  BY DEF LinkInv
<1>2. /\ "do_mqtt" \in timers /\ Call("do_mqtt")
      /\ UNCHANGED <<static, presses, phy, ip, seen, dhcp, task, dns, net, conn, opened>>
      /\ timers' \subseteq timers
  BY DEF DoMqttRuns, Connect, Subscribe, KeepAlive, KeepAliveNoAck, MqttError, DoMqtt, chip, attempt
<1>3. task.flag = "client_succ" /\ ~Waits
  BY <1>1, <1>2 DEF AttemptInv, Waits
<1>4. client.lost => sock # "established" /\ ~client.connected
  BY <1>1, <1>3 DEF ClientInv, Waits
<1>5. client \in ClientType /\ expired \in BOOLEAN
      /\ mqtt \in [flag : {"connect", "subscribe", "keep_alive", "error"}, err : 0 .. ErrLimit - 1]
      /\ sock \in {"closed", "udp", "init", "syn", "established"}
      /\ timers' \in SUBSET {"mqtt_task", "http_task", "do_mqtt"}
  BY <1>2 DEF TypeOK, ClientType
<1>6. ASSUME events' \in Seq(EventNames), ran' \in SUBSET Callbacks, client' \in ClientType,
             expired' \in BOOLEAN, sock' \in {sock, "closed"},
             mqtt' \in [flag : {"connect", "subscribe", "keep_alive", "error"}, err : 0 .. ErrLimit - 1]
      PROVE  TypeOK' /\ AttemptInv'
  <2>1. TypeOK'
    BY <1>2, <1>5, <1>6 DEF TypeOK, ClientType
  <2>2. AttemptInv'
    BY <1>1, <1>2, <1>3, <1>6 DEF AttemptInv
  <2>3. QED
    BY <2>1, <2>2
<1>7. ASSUME Publish("do_mqtt", <<>>)
      PROVE  events' \in Seq(EventNames) /\ ran' \in SUBSET Callbacks
  BY <1>7, NoEvents, PublishBus DEF Callbacks
<1>8. CASE Connect
  <2>1. events' \in Seq(EventNames) /\ ran' \in SUBSET Callbacks /\ sock' = sock
    BY <1>7, <1>8 DEF Connect, chip
  <2>2. expired' \in BOOLEAN
    BY <1>5, <1>8 DEF Connect
  <2>3. CASE UNCHANGED client /\ mqtt' = [mqtt EXCEPT !.flag = "error"]
    <3>1. mqtt' \in [flag : {"connect", "subscribe", "keep_alive", "error"}, err : 0 .. ErrLimit - 1]
          /\ mqtt'.flag = "error"
      BY <1>5, <2>3
    <3>2. ClientInv'
      BY <1>1, <1>2, <1>4, <2>1, <2>3, <3>1 DEF ClientInv
    <3>3. QED
      BY <1>5, <1>6, <2>1, <2>2, <2>3, <3>1, <3>2 DEF LinkInv
  <2>4. CASE /\ ~client.connected /\ sock = "established"
             /\ client' = [client EXCEPT !.connected = TRUE]
             /\ mqtt' = [mqtt EXCEPT !.flag = "subscribe"]
    <3>1. mqtt' \in [flag : {"connect", "subscribe", "keep_alive", "error"}, err : 0 .. ErrLimit - 1]
          /\ mqtt'.flag = "subscribe"
      BY <1>5, <2>4
    <3>2. client' \in ClientType /\ client'.connected = TRUE /\ client'.lost = client.lost
          /\ client'.handlers = client.handlers
      BY <1>5, <2>4 DEF ClientType
    <3>3. ~client.lost
      BY <1>4, <2>4
    <3>4. \A t \in Topics : client.handlers[t] = 0
      BY <1>1, <2>4, <3>3 DEF ClientInv
    <3>5. ClientInv'
      BY <3>1, <3>2, <3>3, <3>4 DEF ClientInv
    <3>6. QED
      BY <1>6, <2>1, <2>2, <3>1, <3>2, <3>5 DEF LinkInv
  <2>5. QED
    BY <1>8, <2>3, <2>4 DEF Connect
<1>9. CASE Subscribe
  <2>1. events' \in Seq(EventNames) /\ ran' \in SUBSET Callbacks /\ sock' = sock
    BY <1>7, <1>9 DEF Subscribe, chip
  <2>2. expired' \in BOOLEAN
    BY <1>5, <1>9 DEF Subscribe
  <2>3. PICK acked \in SUBSET Topics :
          /\ client.connected \/ acked = {}
          /\ client' = [client EXCEPT !.handlers =
                          [t \in Topics |-> client.handlers[t] + (IF t \in acked THEN 1 ELSE 0)]]
          /\ mqtt' = [mqtt EXCEPT !.flag = IF LastTopic \in acked THEN "keep_alive" ELSE "error"]
    BY <1>9 DEF Subscribe
  <2>4. mqtt' \in [flag : {"connect", "subscribe", "keep_alive", "error"}, err : 0 .. ErrLimit - 1]
        /\ mqtt'.flag # "subscribe"
    BY <1>5, <2>3
  <2> DEFINE h == [t \in Topics |-> client.handlers[t] + (IF t \in acked THEN 1 ELSE 0)]
  <2>5. \A t \in Topics : client.handlers[t] = 0
    BY <1>1, <1>9 DEF ClientInv, Subscribe, DoMqtt
  <2>6. h \in [Topics -> Nat] /\ (\A t \in Topics : h[t] <= 1)
        /\ (acked = {} => \A t \in Topics : h[t] = 0)
    BY <2>5
  <2> HIDE DEF h
  <2>7. client' \in ClientType /\ client'.connected = client.connected /\ client'.lost = client.lost
        /\ client'.handlers = h
    BY <1>5, <2>3, <2>6 DEF ClientType, h
  <2>8. ClientInv'
    BY <1>2, <1>3, <1>4, <2>1, <2>3, <2>4, <2>6, <2>7 DEF ClientInv
  <2>9. QED
    BY <1>6, <2>1, <2>2, <2>4, <2>7, <2>8 DEF LinkInv
<1>10. CASE KeepAlive \/ KeepAliveNoAck
  <2>1. PICK ping \in BOOLEAN : Heartbeat(ping)
    BY <1>5, <1>10 DEF KeepAlive, KeepAliveNoAck, ClientType
  <2>2. /\ events' \in Seq(EventNames) /\ ran' \in SUBSET Callbacks
        /\ client' \in ClientType /\ expired' \in BOOLEAN
        /\ client'.handlers = client.handlers
        /\ \/ client'.lost = client.lost /\ client'.connected = client.connected
           \/ client'.lost = TRUE /\ client'.connected = FALSE /\ Waits'
    BY <2>1, HeartbeatStep
  <2>3. sock' \in {sock, "closed"} /\ (sock = "closed" => sock' = "closed")
    BY <1>10 DEF KeepAlive, KeepAliveNoAck
  <2>4. mqtt' \in [flag : {"connect", "subscribe", "keep_alive", "error"}, err : 0 .. ErrLimit - 1]
        /\ mqtt'.flag # "subscribe"
    BY <1>5, <1>10 DEF KeepAlive, KeepAliveNoAck, DoMqtt
  <2>5. ClientInv'
    BY <1>1, <1>2, <1>3, <1>4, <2>2, <2>3, <2>4 DEF ClientInv, Waits
  <2>6. QED
    BY <1>6, <2>2, <2>3, <2>4, <2>5 DEF LinkInv
<1>11. CASE MqttError
  <2>1. events' \in Seq(EventNames) /\ ran' \in SUBSET Callbacks
        /\ UNCHANGED <<sock, client, expired>>
    BY <1>7, <1>11 DEF MqttError, chip
  <2>2. mqtt'.flag = "connect"
        /\ mqtt' \in [flag : {"connect", "subscribe", "keep_alive", "error"}, err : 0 .. ErrLimit - 1]
    BY <1>5, <1>11, LinkAssumption DEF MqttError
  <2>3. ClientInv'
    BY <1>1, <1>2, <1>3, <1>4, <2>1, <2>2 DEF ClientInv
  <2>4. QED
    BY <1>5, <1>6, <2>1, <2>2, <2>3 DEF LinkInv
<1>12. QED
  BY <1>8, <1>9, <1>10, <1>11 DEF DoMqttRuns

\* The update's name resolution, and the surroundings.
LEMMA OutsideInv ==
  ASSUME TypeOK, LinkInv,
         \/ HttpDns \/ HttpCheck \/ Report \/ LinkDown \/ LinkUp \/ ServerAnswers
         \/ ConnectionEnds \/ Expire \/ UNCHANGED vars
  PROVE  TypeOK' /\ LinkInv'
<1>1. AttemptInv /\ ClientInv
  BY DEF LinkInv
<1>2. CASE HttpDns
  <2>1. events' \in Seq(EventNames) /\ ran' \in SUBSET Callbacks /\ (Waits => Waits')
    BY <1>2, NoEvents, PublishBus DEF HttpDns, Callbacks
  <2>2. UNCHANGED <<static, presses, phy, ip, sock, seen, dhcp, timers, net, conn, opened,
                    mqtt, client, expired>>
    BY <1>2 DEF HttpDns, chip, session
  <2>3. dns' \in {0, 1}
    BY <1>2 DEF HttpDns, TypeOK
  <2>4. task' \in [flag : {"dns", "client_init", "client_succ"}, err : 0 .. TaskErrLimit]
        /\ task'.flag = task.flag
    <3>1. Least(task.err + 1, TaskErrLimit) \in 0 .. TaskErrLimit
      BY LinkAssumption DEF TypeOK, Least
    <3>2. task' = task \/ task' = [task EXCEPT !.err = Least(task.err + 1, TaskErrLimit)]
      BY <1>2 DEF HttpDns
    <3>3. QED
      BY <3>1, <3>2 DEF TypeOK
  <2>5. TypeOK'
    BY <2>1, <2>2, <2>3, <2>4 DEF TypeOK
  <2>6. AttemptInv' /\ ClientInv'
    BY <1>1, <2>1, <2>2, <2>4, ClientFrame DEF AttemptInv
  <2>7. QED
    BY <2>5, <2>6 DEF LinkInv
<1>3. CASE HttpCheck
  <2>1. events' \in Seq(EventNames) /\ ran' \in SUBSET Callbacks /\ (Waits => Waits')
    BY <1>3, NoEvents, PublishBus DEF HttpCheck, Callbacks
  <2>2. UNCHANGED <<static, presses, phy, ip, sock, seen, dhcp, task, dns, net, conn, opened,
                    mqtt, client, expired>>
    BY <1>3 DEF HttpCheck, chip, attempt, session
  <2>3. timers' \in SUBSET {"mqtt_task", "http_task", "do_mqtt"} /\ timers' \subseteq timers
    BY <1>3 DEF HttpCheck, TypeOK
  <2>4. TypeOK'
    BY <2>1, <2>2, <2>3 DEF TypeOK
  <2>5. AttemptInv' /\ ClientInv'
    BY <1>1, <2>1, <2>2, <2>3, ClientFrame DEF AttemptInv
  <2>6. QED
    BY <2>4, <2>5 DEF LinkInv
<1>4. CASE Report \/ LinkDown \/ LinkUp \/ ServerAnswers \/ ConnectionEnds \/ Expire \/ UNCHANGED vars
  <2>1. UNCHANGED <<static, presses, ip, seen, dhcp, events, ran, timers, task, dns, net, conn,
                    opened, mqtt, client>>
    BY <1>4 DEF Report, LinkDown, LinkUp, ServerAnswers, ConnectionEnds, Expire, vars,
       chip, attempt, session
  <2>2. phy' \in {"up", "down", "reset"} /\ expired' \in BOOLEAN
    BY <1>4 DEF Report, LinkDown, LinkUp, ServerAnswers, ConnectionEnds, Expire, vars,
       chip, attempt, session, TypeOK
  <2>3. \/ sock' = sock
        \/ sock = "syn" /\ sock' \in {"established", "closed"}
        \/ sock = "established" /\ sock' = "closed"
    BY <1>4 DEF Report, LinkDown, LinkUp, ServerAnswers, ConnectionEnds, Expire, vars,
       chip, attempt, session
  <2>4. TypeOK'
    BY <2>1, <2>2, <2>3 DEF TypeOK
  <2>5. AttemptInv'
    BY <1>1, <2>1, <2>3 DEF AttemptInv
  <2>6. task.flag = "client_succ" /\ sock' = "established" => sock = "established"
    BY <1>1, <2>3 DEF AttemptInv
  <2>7. Waits' = Waits
    BY <2>1 DEF Waits, Pending, Call
  <2>8. ClientInv'
    BY <1>1, <2>1, <2>6, <2>7, ClientFrame
  <2>9. QED
    BY <2>4, <2>5, <2>8 DEF LinkInv
<1>5. QED
  BY <1>2, <1>3, <1>4

LEMMA NextLink == TypeOK /\ LinkInv /\ [Next]_vars => (TypeOK /\ LinkInv)'
BY SupervisionInv, MqttTaskInv, ClientInvStep, OutsideInv DEF Next

LEMMA AlwaysLink == Spec => [](TypeOK /\ LinkInv)
BY InitLink, NextLink, PTL DEF Spec

(* Every variable keeps its type: the error counters stop at their limits, *)
(* only known events are queued.                                           *)
THEOREM TypeCorrect == Spec => []TypeOK
BY AlwaysLink, PTL

(* Whatever an abandoned attempt leaves in the statics and the socket, a   *)
(* client is created over a connection of its own attempt only.            *)
THEOREM AttemptsFresh == Spec => []NoStaleSuccess
<1>1. LinkInv => NoStaleSuccess
  BY DEF LinkInv, AttemptInv, NoStaleSuccess
<1>2. QED
  BY <1>1, AlwaysLink, PTL

(* However often the client connects and subscribes again, a topic has one *)
(* handler.                                                                *)
THEOREM HandlersOnce == Spec => []TopicOnce
<1>1. LinkInv => TopicOnce
  BY DEF LinkInv, ClientInv, TopicOnce
<1>2. QED
  BY <1>1, AlwaysLink, PTL

(***************************************************************************)
(* The state machines implement the clients of MqttSession.  timer_do_mqtt *)
(* is at its first state while an attempt has no client, and where it is   *)
(* later tells what has become of the client.                              *)
(***************************************************************************)
StageInv ==
  /\ task.flag # "client_succ" => mqtt.flag = "connect"
  /\ mqtt.flag = "subscribe" => client.connected
  /\ mqtt.flag = "keep_alive" => client.connected \/ client.lost

LEMMA TaskEndsFlag ==
  ASSUME NEW f, NEW err, NEW ts, TaskEnds(f, err, ts)
  PROVE  task'.flag = f
BY DEF TaskEnds

\* The steps that leave attempt and client as they are.
LEMMA SessionFrame ==
  ASSUME StageInv, UNCHANGED <<opened, client, mqtt>>, task'.flag = task.flag
  PROVE  StageInv' /\ [Session!Next]_(Session!vars)
BY DEF StageInv, Session!vars, Attempt

\* A link event asks for a new attempt.
LEMMA LinkOnSession ==
  ASSUME TypeOK, LinkOn
  PROVE  StageInv' /\ [Session!Next]_(Session!vars)
<1>1. task'.flag = "dns" /\ opened' = FALSE /\ mqtt'.flag = "connect" /\ UNCHANGED client
  BY DEF LinkOn, TypeOK
<1>2. Session!Ask
  BY <1>1 DEF Session!Ask, Attempt
<1>3. QED
  BY <1>1, <1>2 DEF StageInv, Session!Next

\* An attempt opens its connection, and makes its client once it has one.
LEMMA AttemptSession ==
  ASSUME TypeOK, LinkInv, StageInv, MqttTaskRuns
  PROVE  StageInv' /\ [Session!Next]_(Session!vars)
<1>1. CASE MqttDnsQuery \/ MqttDnsPending \/ MqttDnsEnd
  <2>1. task.flag = "dns" /\ task'.flag \in {"dns", "client_init"}
    BY <1>1, TaskEndsFlag DEF MqttDnsQuery, MqttDnsPending, MqttDnsEnd, MqttTask
  <2>2. UNCHANGED <<opened, client, mqtt>>
    BY <1>1 DEF MqttDnsQuery, MqttDnsPending, MqttDnsEnd, session
  <2>3. QED
    BY <2>1, <2>2 DEF StageInv, Session!vars, Attempt
<1>2. CASE OpenSocket
  <2>1. task.flag = "client_init" /\ task'.flag = "client_init" /\ UNCHANGED <<client, mqtt>>
    BY <1>2, TaskEndsFlag DEF OpenSocket, MqttTask, session
  <2>2. CASE opened' = opened
    BY <2>1, <2>2, SessionFrame
  <2>3. CASE opened' # opened
    <3>1. opened = FALSE /\ opened' = TRUE
      BY <1>2, <2>3 DEF OpenSocket, TypeOK
    <3>2. Session!Open
      BY <2>1, <3>1 DEF Session!Open, Attempt
    <3>3. QED
      BY <2>1, <3>2 DEF StageInv, Session!Next
  <2>4. QED
    BY <2>2, <2>3
<1>3. CASE SendConnect \/ AwaitConnect \/ ConnectFailed \/ FirstConnected \/ ClientSucc
  <2>1. task'.flag = task.flag
    BY <1>3, TaskEndsFlag
       DEF SendConnect, AwaitConnect, ConnectFailed, FirstConnected, ClientSucc, MqttTask
  <2>2. UNCHANGED <<opened, client, mqtt>>
    BY <1>3 DEF SendConnect, AwaitConnect, ConnectFailed, FirstConnected, ClientSucc, session
  <2>3. QED
    BY <2>1, <2>2, SessionFrame
<1>4. CASE ClientCreated
  <2>1. /\ task.flag = "client_init" /\ task'.flag = "client_succ" /\ sock = "established"
        /\ client' = FreshClient /\ UNCHANGED <<opened, mqtt>>
    BY <1>4, TaskEndsFlag DEF ClientCreated, MqttTask
  <2>2. opened
    BY <2>1 DEF LinkInv, AttemptInv
  <2>3. Session!Create
    BY <2>1, <2>2 DEF Session!Create, Attempt, FreshClient, Session!NoHandlers
  <2>4. mqtt'.flag = "connect"
    BY <2>1 DEF StageInv
  <2>5. QED
    BY <2>3, <2>4 DEF StageInv, Session!Next
<1>5. QED
  BY <1>1, <1>2, <1>3, <1>4 DEF MqttTaskRuns

\* timer_do_mqtt takes the client through its life: it runs only for a client
\* of the present attempt, and for one that was lost only in ERROR_STATUS and
\* in vain.
LEMMA ClientSession ==
  ASSUME TypeOK, LinkInv, StageInv, DoMqttRuns
  PROVE  StageInv' /\ [Session!Next]_(Session!vars)
<1>1. "do_mqtt" \in timers /\ Call("do_mqtt") /\ UNCHANGED <<task, opened>>
  BY DEF DoMqttRuns, Connect, Subscribe, KeepAlive, KeepAliveNoAck, MqttError, DoMqtt, attempt
<1>2. task.flag = "client_succ" /\ ~Waits
  BY <1>1 DEF LinkInv, AttemptInv, Waits
<1>3. Attempt = "done" /\ Attempt' = "done"
  BY <1>1, <1>2 DEF Attempt
<1>4. client.lost => sock # "established" /\ ~client.connected
  BY <1>2 DEF LinkInv, ClientInv, Waits
<1>5. /\ client \in ClientType
      /\ mqtt \in [flag : {"connect", "subscribe", "keep_alive", "error"}, err : 0 .. ErrLimit - 1]
  BY DEF TypeOK, ClientType
<1>6. CASE Connect
  <2>1. CASE UNCHANGED client /\ mqtt' = [mqtt EXCEPT !.flag = "error"]
    <3>1. mqtt'.flag = "error"
      BY <1>5, <2>1
    <3>2. QED
      BY <1>1, <1>2, <2>1, <3>1 DEF StageInv, Session!vars, Attempt
  <2>2. CASE /\ ~client.connected /\ sock = "established"
             /\ client' = [client EXCEPT !.connected = TRUE]
             /\ mqtt' = [mqtt EXCEPT !.flag = "subscribe"]
    <3>1. mqtt'.flag = "subscribe"
      BY <1>5, <2>2
    <3>2. /\ client'.connected = TRUE /\ client'.lost = client.lost
          /\ client'.handlers = client.handlers
      BY <1>5, <2>2 DEF ClientType
    <3>3. Session!Connect
      BY <1>3, <1>4, <2>2, <3>2 DEF Session!Connect
    <3>4. QED
      BY <1>1, <1>2, <3>1, <3>2, <3>3 DEF StageInv, Session!Next
  <2>3. QED
    BY <1>6, <2>1, <2>2 DEF Connect
<1>7. CASE Subscribe
  <2>1. PICK acked \in SUBSET Topics :
          /\ client' = [client EXCEPT !.handlers =
                          [t \in Topics |-> client.handlers[t] + (IF t \in acked THEN 1 ELSE 0)]]
          /\ mqtt' = [mqtt EXCEPT !.flag = IF LastTopic \in acked THEN "keep_alive" ELSE "error"]
    BY <1>7 DEF Subscribe
  <2>2. client.connected /\ \A t \in Topics : client.handlers[t] = 0
    BY <1>7 DEF StageInv, Subscribe, DoMqtt, LinkInv, ClientInv
  <2>3. client.handlers \in [Topics -> Nat]
    BY <1>5 DEF ClientType
  <2>4. client.handlers = Session!NoHandlers
    BY <2>2, <2>3 DEF Session!NoHandlers
  <2> DEFINE h == [t \in Topics |-> client.handlers[t] + (IF t \in acked THEN 1 ELSE 0)]
  <2>5. h = [t \in Topics |-> IF t \in acked THEN 1 ELSE 0]
    BY <2>2
  <2> HIDE DEF h
  <2>6. client'.handlers = h /\ client'.connected = client.connected /\ client'.lost = client.lost
    BY <1>5, <2>1 DEF ClientType, h
  <2>7. Session!Subscribe(acked)
    BY <1>3, <2>2, <2>4, <2>5, <2>6 DEF Session!Subscribe
  <2>8. mqtt'.flag \in {"keep_alive", "error"}
    BY <1>5, <2>1
  <2>9. QED
    BY <1>1, <1>2, <2>2, <2>6, <2>7, <2>8 DEF StageInv, Session!Next
<1>8. CASE KeepAlive \/ KeepAliveNoAck
  <2>1. PICK ping \in BOOLEAN : Heartbeat(ping)
    BY <1>5, <1>8 DEF KeepAlive, KeepAliveNoAck, ClientType
  <2>2. mqtt.flag = "keep_alive" /\ mqtt'.flag \in {"keep_alive", "error"}
    BY <1>5, <1>8 DEF KeepAlive, KeepAliveNoAck, DoMqtt
  <2>3. client.connected \/ client.lost
    BY <2>2 DEF StageInv
  <2>4. \/ UNCHANGED <<client.connected, client.lost, client.handlers>>
        \/ /\ client.connected /\ client'.connected = FALSE /\ client'.lost = TRUE
           /\ client'.handlers = client.handlers
    <3>1. CASE client' = LostClient(ping) /\ (client.connected \/ ~client.lost)
      BY <2>3, <3>1 DEF LostClient
    <3>2. CASE \E p \in BOOLEAN : client' = [client EXCEPT !.ping = p]
      BY <1>5, <3>2 DEF ClientType
    <3>3. QED
      BY <2>1, <3>1, <3>2 DEF Heartbeat
  <2>5. CASE UNCHANGED <<client.connected, client.lost, client.handlers>>
    BY <1>1, <1>2, <1>3, <2>2, <2>3, <2>5 DEF StageInv, Session!vars
  <2>6. CASE /\ client.connected /\ client'.connected = FALSE /\ client'.lost = TRUE
             /\ client'.handlers = client.handlers
    <3>1. Session!Lose
      BY <1>3, <2>6 DEF Session!Lose
    <3>2. QED
      BY <1>1, <1>2, <2>2, <2>6, <3>1 DEF StageInv, Session!Next
  <2>7. QED
    BY <2>4, <2>5, <2>6
<1>9. CASE MqttError
  <2>1. mqtt'.flag = "connect" /\ UNCHANGED client
    BY <1>9 DEF MqttError
  <2>2. QED
    BY <1>1, <1>2, <2>1 DEF StageInv, Session!vars, Attempt
<1>10. QED
  BY <1>6, <1>7, <1>8, <1>9 DEF DoMqttRuns

LEMMA NextSession ==
  TypeOK /\ LinkInv /\ StageInv /\ [Next]_vars => StageInv' /\ [Session!Next]_(Session!vars)
<1> SUFFICES ASSUME TypeOK, LinkInv, StageInv, [Next]_vars
             PROVE  StageInv' /\ [Session!Next]_(Session!vars)
  OBVIOUS
<1>1. CASE LinkOn
  BY <1>1, LinkOnSession
<1>2. CASE Wizinit \/ UserKey \/ LinkOff \/ MqttConnect \/ NetworkLost \/ HttpCheck
  <2>1. UNCHANGED <<task, opened, client, mqtt>>
    BY <1>2 DEF Wizinit, UserKey, LinkOff, MqttConnect, NetworkLost, HttpCheck, attempt, session
  <2>2. QED
    BY <2>1, SessionFrame
<1>3. CASE HttpDns
  <2>1. task' = task \/ task' = [task EXCEPT !.err = Least(@ + 1, TaskErrLimit)]
    BY <1>3 DEF HttpDns
  <2>2. task'.flag = task.flag
    BY <2>1 DEF TypeOK
  <2>3. UNCHANGED <<opened, client, mqtt>>
    BY <1>3 DEF HttpDns, session
  <2>4. QED
    BY <2>2, <2>3, SessionFrame
<1>4. CASE Report \/ LinkDown \/ LinkUp \/ ServerAnswers \/ ConnectionEnds \/ Expire \/ UNCHANGED vars
  <2>1. UNCHANGED <<task, opened, client, mqtt>>
    BY <1>4 DEF Report, LinkDown, LinkUp, ServerAnswers, ConnectionEnds, Expire, vars, attempt,
       session
  <2>2. QED
    BY <2>1, SessionFrame
<1>5. CASE MqttTaskRuns
  BY <1>5, AttemptSession
<1>6. CASE DoMqttRuns
  BY <1>6, ClientSession
<1>7. QED
  BY <1>1, <1>2, <1>3, <1>4, <1>5, <1>6 DEF Next, Dispatches

(* The link implements the clients of MqttSession: each has a connection   *)
(* of its own attempt, connects and subscribes once, and is never used     *)
(* after the one loss that keepalive notices in its life.                  *)
THEOREM LinkIsSession == Spec => ImplementsSession
<1>1. Init => Session!Init /\ StageInv
  BY DEF Init, StageInv, Session!Init, Attempt, FreshClient, Session!NoHandlers
<1>2. QED
  BY <1>1, AlwaysLink, NextSession, PTL DEF Spec, ImplementsSession, Session!Spec

(***************************************************************************)
(* A loss is found.  What LossNoticed owes to single steps: once the ping  *)
(* timer of a client without a connection has expired, it stays expired,   *)
(* and the next KEEP_ALIVE finds the loss.                                 *)
(***************************************************************************)
Cut == client.connected /\ mqtt.flag = "keep_alive" /\ sock # "established"

FoundNext == Cut /\ expired => expired' /\ (KeepAlive => ~client'.connected)

LossIsFound == [][FoundNext]_vars

LEMMA KeepAliveFinds ==
  ASSUME TypeOK, LinkInv, Cut, expired, KeepAlive
  PROVE  expired' /\ ~client'.connected
<1>1. client \in ClientType /\ client.connected /\ sock # "established" /\ sock' = sock
  BY DEF TypeOK, ClientType, Cut, KeepAlive
<1>2. Heartbeat(client.ping)
  BY <1>1 DEF KeepAlive
<1>3. ~client.lost
  BY <1>1 DEF LinkInv, ClientInv
<1>4. client' = LostClient(client.ping) /\ UNCHANGED expired
  BY <1>1, <1>2, <1>3 DEF Heartbeat, ClientType
<1>5. QED
  BY <1>4 DEF LostClient

(* A client that sits on a broken connection is found out by the first     *)
(* KEEP_ALIVE after its ping timer has expired, whether or not a ping is   *)
(* outstanding, and nothing winds the timer up again meanwhile.            *)
THEOREM LossFound == Spec => LossIsFound
<1>1. ASSUME TypeOK, LinkInv, [Next]_vars, Cut, expired
      PROVE  expired' /\ (KeepAlive => ~client'.connected)
  <2>1. CASE KeepAlive
    BY <1>1, <2>1, KeepAliveFinds
  <2>2. CASE ~KeepAlive /\ MqttTaskRuns
    BY <1>1, <2>2
    DEF MqttTaskRuns, MqttDnsQuery, MqttDnsPending, MqttDnsEnd, OpenSocket, SendConnect, AwaitConnect,
        ConnectFailed, FirstConnected, ClientCreated, ClientSucc, session
  <2>3. CASE ~KeepAlive /\ DoMqttRuns
    <3>1. Connect \/ Subscribe \/ MqttError \/ KeepAliveNoAck
      BY <2>3 DEF DoMqttRuns
    <3>2. MqttError
      BY <1>1, <3>1 DEF Connect, Subscribe, KeepAliveNoAck, DoMqtt, Cut
    <3>3. QED
      BY <1>1, <2>3, <3>2 DEF MqttError
  <2>4. CASE ~KeepAlive /\ ~MqttTaskRuns /\ ~DoMqttRuns
    BY <1>1, <2>4
    DEF Next, Dispatches, Wizinit, UserKey, LinkOn, LinkOff, MqttConnect, NetworkLost, HttpDns,
        HttpCheck, Report, LinkDown, LinkUp, ServerAnswers, ConnectionEnds, Expire, Cut, session, vars
  <2>5. QED
    BY <2>1, <2>2, <2>3, <2>4
<1>2. TypeOK /\ LinkInv /\ [Next]_vars => [FoundNext]_vars
  BY <1>1 DEF FoundNext
<1>3. QED
  BY <1>2, AlwaysLink, PTL DEF Spec, LossIsFound

(***************************************************************************)
(* A loss leads to a new attempt.  What LostIsRetried owes to single       *)
(* steps: as long as the lost client is there, something is under way that *)
(* ends in a link event.  A link event that was published is dispatched;   *)
(* while wizinit_timer has not seen the cable, the next time it sees it    *)
(* publishes one; and the reset of the chip makes it lose sight of it.     *)
(***************************************************************************)
RetryUnderWay ==
  client.lost /\ task.flag = "client_succ" =>
    Pending("NETWOR_OFF") \/ phy = "reset" \/ ~seen \/ Pending("LINK_ON")

LEMMA PublishKeeps ==
  ASSUME TypeOK, NEW t, NEW es \in Seq(EventNames), Publish(t, es), NEW e
  PROVE  /\ Pending(e) => Pending(e)'
         /\ (\E k \in 1 .. Len(es) : es[k] = e) => Pending(e)'
<1>1. events \in Seq(EventNames) /\ events' = events \o es
  BY DEF TypeOK, Publish
<1>2. ASSUME NEW k \in 1 .. Len(es), es[k] = e
      PROVE  Pending(e)'
  <2>1. Len(events) + k \in 1 .. Len(events') /\ events'[Len(events) + k] = es[k]
    BY <1>1
  <2>2. QED
    BY <1>2, <2>1 DEF Pending
<1>3. Pending(e) => Pending(e)'
  BY <1>1 DEF Pending
<1>4. QED
  BY <1>2, <1>3

LEMMA DispatchKeeps ==
  ASSUME TypeOK, NEW d, NEW more \in Seq(EventNames), Dispatch(d, more), NEW e, e # d, Pending(e)
  PROVE  Pending(e)'
<1>1. /\ events \in Seq(EventNames) /\ events # <<>>
      /\ Head(events) = d /\ events' = Tail(events) \o more
  BY DEF TypeOK, Dispatch
<1>2. /\ Tail(events) \in Seq(EventNames) /\ Len(Tail(events)) = Len(events) - 1
      /\ Head(events) = events[1] /\ Len(events) \in Nat
      /\ \A k \in 1 .. Len(events) - 1 : Tail(events)[k] = events[k + 1]
  BY <1>1
<1>3. /\ Len(events') = Len(Tail(events)) + Len(more) /\ Len(more) \in Nat
      /\ \A k \in 1 .. Len(Tail(events)) : events'[k] = Tail(events)[k]
  BY <1>1, <1>2
<1>4. PICK k \in 1 .. Len(events) : events[k] = e
  BY DEF Pending
<1>5. k # 1 /\ k - 1 \in 1 .. Len(events) - 1 /\ (k - 1) + 1 = k
  BY <1>1, <1>2, <1>4
<1>6. events'[k - 1] = e /\ k - 1 \in 1 .. Len(events')
  BY <1>2, <1>3, <1>4, <1>5
<1>7. QED
  BY <1>6 DEF Pending

\* Callbacks only add events.
LEMMA RetryFrame ==
  ASSUME RetryUnderWay, UNCHANGED <<phy, seen>>,
         Pending("NETWOR_OFF") => Pending("NETWOR_OFF")', Pending("LINK_ON") => Pending("LINK_ON")',
         client'.lost /\ task'.flag = "client_succ" =>
           (client.lost /\ task.flag = "client_succ") \/ Pending("NETWOR_OFF")'
  PROVE  RetryUnderWay'
BY DEF RetryUnderWay

LEMMA CallbackKeeps ==
  ASSUME TypeOK, NEW t, Publish(t, <<>>) \/ UNCHANGED events
  PROVE  /\ Pending("NETWOR_OFF") => Pending("NETWOR_OFF")'
         /\ Pending("LINK_ON") => Pending("LINK_ON")'
<1>1. CASE Publish(t, <<>>)
  BY <1>1, NoEvents, PublishKeeps
<1>2. CASE UNCHANGED events
  BY <1>2 DEF Pending
<1>3. QED
  BY <1>1, <1>2

\* wizinit_timer has seen the cable only with a link event behind it.
LEMMA WizinitRetry ==
  ASSUME TypeOK, RetryUnderWay, Wizinit
  PROVE  RetryUnderWay'
<1>1. UNCHANGED <<client, task>> /\ (seen' <=> phy = "up")
  BY DEF Wizinit, attempt, session
<1>2. CASE phy # "up"
  BY <1>1, <1>2 DEF RetryUnderWay
<1>3. CASE phy = "up"
  <2> DEFINE edge == IF seen THEN <<>> ELSE <<"LINK_ON">>
  <2>1. edge \in Seq(EventNames) /\ edge \o <<"MQTT_CONNECT">> \in Seq(EventNames)
    <3>1. "LINK_ON" \in EventNames /\ "MQTT_CONNECT" \in EventNames
      BY DEF EventNames
    <3>2. edge \in Seq(EventNames) /\ <<"MQTT_CONNECT">> \in Seq(EventNames)
      BY <3>1, NoEvents
    <3> HIDE DEF edge
    <3>3. QED
      BY <3>2
  <2>2. Publish("wizinit", edge) \/ Publish("wizinit", edge \o <<"MQTT_CONNECT">>)
    BY <1>3 DEF Wizinit, TypeOK
  <2>3. CASE seen
    <3>1. /\ Pending("NETWOR_OFF") => Pending("NETWOR_OFF")'
          /\ Pending("LINK_ON") => Pending("LINK_ON")'
      BY <2>1, <2>2, PublishKeeps
    <3>2. QED
      BY <1>1, <1>3, <2>3, <3>1 DEF RetryUnderWay
  <2>4. CASE ~seen
    <3>1. edge = <<"LINK_ON">>
      BY <2>4
    <3>2. edge[1] = "LINK_ON" /\ 1 \in 1 .. Len(edge)
      BY <3>1
    <3>3. /\ (edge \o <<"MQTT_CONNECT">>)[1] = "LINK_ON"
          /\ 1 \in 1 .. Len(edge \o <<"MQTT_CONNECT">>)
      BY <3>1
    <3>4. Pending("LINK_ON")'
      BY <2>1, <2>2, <3>2, <3>3, PublishKeeps
    <3>5. QED
      BY <3>4 DEF RetryUnderWay
  <2>5. QED
    BY <2>3, <2>4
<1>4. QED
  BY <1>2, <1>3

LEMMA DispatchRetry ==
  ASSUME TypeOK, RetryUnderWay, Dispatches
  PROVE  RetryUnderWay'
<1>1. CASE LinkOn
  <2>1. task'.flag = "dns"
    BY <1>1 DEF LinkOn
  <2>2. QED
    BY <2>1 DEF RetryUnderWay
<1>2. CASE NetworkLost
  BY <1>2 DEF NetworkLost, RetryUnderWay
<1>3. CASE LinkOff \/ MqttConnect
  <2>1. UNCHANGED <<phy, seen, client, task>>
    BY <1>3 DEF LinkOff, MqttConnect, chip, attempt, session
  <2>2. PICK d \in {"PHY_LINK_OFF", "MQTT_CONNECT"} : Dispatch(d, <<>>)
    BY <1>3 DEF LinkOff, MqttConnect
  <2>3. /\ Pending("NETWOR_OFF") => Pending("NETWOR_OFF")'
        /\ Pending("LINK_ON") => Pending("LINK_ON")'
    BY <2>2, NoEvents, DispatchKeeps
  <2>4. QED
    BY <2>1, <2>3, RetryFrame
<1>4. QED
  BY <1>1, <1>2, <1>3 DEF Dispatches

LEMMA AttemptRetry ==
  ASSUME TypeOK, RetryUnderWay, MqttTaskRuns
  PROVE  RetryUnderWay'
<1>1. UNCHANGED <<phy, seen>> /\ Publish("mqtt_task", <<>>)
  BY DEF MqttTaskRuns, MqttDnsQuery, MqttDnsPending, MqttDnsEnd, OpenSocket, SendConnect, AwaitConnect,
         ConnectFailed, FirstConnected, ClientCreated, ClientSucc, MqttTask, chip
<1>2. CASE ClientCreated
  <2>1. ~client'.lost
    BY <1>2 DEF ClientCreated, FreshClient
  <2>2. QED
    BY <2>1 DEF RetryUnderWay
<1>3. CASE ClientSucc
  <2>1. task.flag = "client_succ" /\ UNCHANGED client
    BY <1>3 DEF ClientSucc, MqttTask, session
  <2>2. QED
    BY <1>1, <2>1, CallbackKeeps, RetryFrame
<1>4. CASE ~ClientCreated /\ ~ClientSucc
  <2>1. task'.flag # "client_succ"
    BY <1>4, TaskEndsFlag
    DEF MqttTaskRuns, MqttDnsQuery, MqttDnsPending, MqttDnsEnd, OpenSocket, SendConnect, AwaitConnect,
        ConnectFailed, FirstConnected
  <2>2. QED
    BY <2>1 DEF RetryUnderWay
<1>5. QED
  BY <1>2, <1>3, <1>4

\* keepalive() publishes the loss it finds.
LEMMA ClientRetry ==
  ASSUME TypeOK, RetryUnderWay, DoMqttRuns
  PROVE  RetryUnderWay'
<1>1. UNCHANGED <<phy, seen, task>> /\ client \in ClientType
  BY DEF DoMqttRuns, Connect, Subscribe, KeepAlive, KeepAliveNoAck, MqttError, chip, attempt, TypeOK,
         ClientType
<1>2. CASE Connect \/ Subscribe \/ MqttError
  <2>1. Publish("do_mqtt", <<>>)
    BY <1>2 DEF Connect, Subscribe, MqttError
  <2>2. client'.lost = client.lost
    <3>1. CASE Connect \/ MqttError
      BY <1>1, <3>1 DEF Connect, MqttError, ClientType
    <3>2. CASE Subscribe
      BY <1>1, <3>2 DEF Subscribe, ClientType
    <3>3. QED
      BY <1>2, <3>1, <3>2
  <2>3. QED
    BY <1>1, <2>1, <2>2, CallbackKeeps, RetryFrame
<1>3. CASE KeepAlive \/ KeepAliveNoAck
  <2>1. PICK ping \in BOOLEAN : Heartbeat(ping)
    BY <1>1, <1>3 DEF KeepAlive, KeepAliveNoAck, ClientType
  <2>2. client'.lost = client.lost \/ Pending("NETWOR_OFF")'
    BY <2>1, HeartbeatStep DEF Waits
  <2>3. PICK es \in {<<>>, <<"NETWOR_OFF">>} : Publish("do_mqtt", es)
    BY <2>1 DEF Heartbeat
  <2>4. es \in Seq(EventNames)
    BY <2>3, NoEvents DEF EventNames
  <2>5. /\ Pending("NETWOR_OFF") => Pending("NETWOR_OFF")'
        /\ Pending("LINK_ON") => Pending("LINK_ON")'
    BY <2>3, <2>4, PublishKeeps
  <2>6. QED
    BY <1>1, <2>2, <2>5, RetryFrame
<1>4. QED
  BY <1>2, <1>3 DEF DoMqttRuns

(* If the PHY takes longer to come back from a reset than wizinit_timer's  *)
(* period, as the code relies on, a client that has lost its server is     *)
(* never stranded: the loss, the reset of the chip, the cable or the link  *)
(* event that it leads to is always still to come, whatever other events   *)
(* are queued and however the cable is pulled and plugged meanwhile.       *)
THEOREM LossNotStranded ==
  ASSUME SlowPhy
  PROVE  Spec => []RetryUnderWay
<1>1. Init => RetryUnderWay
  BY DEF Init, RetryUnderWay, FreshClient
<1>2. ASSUME TypeOK, RetryUnderWay, [Next]_vars
      PROVE  RetryUnderWay'
  <2>1. CASE Wizinit
    BY <1>2, <2>1, WizinitRetry
  <2>2. CASE Dispatches
    BY <1>2, <2>2, DispatchRetry
  <2>3. CASE MqttTaskRuns
    BY <1>2, <2>3, AttemptRetry
  <2>4. CASE DoMqttRuns
    BY <1>2, <2>4, ClientRetry
  <2>5. CASE UserKey
    <3>1. UNCHANGED <<phy, seen, client, task>> /\ Publish("timer_cb", <<"LINK_ON">>)
      BY <2>5 DEF UserKey, chip, attempt, session
    <3>2. /\ Pending("NETWOR_OFF") => Pending("NETWOR_OFF")'
          /\ Pending("LINK_ON") => Pending("LINK_ON")'
      BY <1>2, <3>1, NoEvents, PublishKeeps DEF EventNames
    <3>3. QED
      BY <1>2, <3>1, <3>2, RetryFrame
  <2>6. CASE HttpDns \/ HttpCheck
    <3>1. UNCHANGED <<phy, seen, client>> /\ Publish("http_task", <<>>)
      BY <2>6 DEF HttpDns, HttpCheck, chip, session
    <3>2. task'.flag = task.flag
      BY <1>2, <2>6 DEF HttpDns, HttpCheck, attempt, TypeOK
    <3>3. QED
      BY <1>2, <3>1, <3>2, CallbackKeeps, RetryFrame
  <2>7. CASE Report \/ ServerAnswers \/ ConnectionEnds \/ Expire \/ UNCHANGED vars
    <3>1. UNCHANGED <<phy, seen, client, task, events>>
      BY <2>7 DEF Report, ServerAnswers, ConnectionEnds, Expire, chip, attempt, session, vars
    <3>2. QED
      BY <1>2, <3>1, CallbackKeeps, RetryFrame
  <2>8. CASE LinkDown \/ LinkUp
    <3>1. phy # "reset" /\ UNCHANGED <<seen, client, task, events>>
      BY <2>8, SlowPhy DEF LinkDown, LinkUp, attempt, session
    <3>2. Pending("NETWOR_OFF")' = Pending("NETWOR_OFF") /\ Pending("LINK_ON")' = Pending("LINK_ON")
      BY <3>1 DEF Pending
    <3>3. QED
      BY <1>2, <3>1, <3>2 DEF RetryUnderWay
  <2>9. QED
    BY <1>2, <2>1, <2>2, <2>3, <2>4, <2>5, <2>6, <2>7, <2>8 DEF Next
<1>3. QED
  BY <1>1, <1>2, TypeCorrect, PTL DEF Spec
=============================================================================
