---------------------------- MODULE MCSoftTimer ----------------------------
(***************************************************************************)
(* The firmware's timers that start and stop each other, with the scripts  *)
(* their code follows and intervals scaled down.  feeddog stands for the   *)
(* three timers that main() starts and nothing touches again (feeddog,     *)
(* timer_task, timer_cb).  once is a single-shot timer whose callback      *)
(* returns: app_timer.h offers it, and the firmware's only single-shot     *)
(* timer, timeout, resets the device.  A behaviour uses the timers of one  *)
(* mix: of a script it keeps the operations on these.                      *)
(***************************************************************************)
EXTENDS SoftTimer

Do(o, n) == [op |-> o, name |-> n]

Kept(mx, script) == SelectSeq(script, LAMBDA o : o.name \in mx)
Scripts(mx, S) == {Kept(mx, s) : s \in S}

MCNames == UNION Mixes

MCRepeat == Names \ {"timeout", "once"}

MCInterval == [n \in Names |-> IF n \in {"feeddog", "do_mqtt", "do_ota", "timeout"} THEN 2 ELSE 1]

MCBootScript == [mx \in Mixes |-> Kept(mx, <<Do("start", "feeddog")>>)]

(* app_network_mqtt_task starts do_mqtt, later stops itself and starts     *)
(* http_task, or gives up; timer_do_mqtt gives up, or handles a message    *)
(* that asks for an upgrade (SoftUpdate, or ota/inform);                   *)
(* app_network_http_task starts do_ota and stops itself; timer_do_ota      *)
(* starts timeout, or stops itself; timer_timeout resets.                  *)
MCCallbackScripts ==
  [mx \in Mixes |-> [n \in Names |->
     Scripts(mx, CASE n = "feeddog"   -> {<<>>}
               [] n = "mqtt_task" -> {<<>>, <<Do("start", "do_mqtt")>>, <<Do("stop", n)>>,
                                      <<Do("stop", n), Do("start", "http_task")>>}
               [] n = "do_mqtt"   -> {<<>>, <<Do("stop", n)>>, <<Do("start", "http_task")>>,
                                      <<Do("start", "do_ota")>>}
               [] n = "http_task" -> {<<>>, <<Do("start", "do_ota"), Do("stop", n)>>}
               [] n = "do_ota"    -> {<<>>, <<Do("stop", n)>>, <<Do("start", "timeout")>>}
               [] n = "once"      -> {<<>>, <<Do("start", "do_ota")>>}
               [] n = "timeout"   -> {<<Do("reset", n)>>})]]

(* app_networt_status, when the interface is configured, when the cable is *)
(* plugged in and when it is out.  Where mqtt_task is left out, do_mqtt is *)
(* started in its place.  Any handler may start and stop once.            *)
Connecting(mx) == IF "mqtt_task" \in mx THEN "mqtt_task" ELSE "do_mqtt"

MCHandlerScripts ==
  [mx \in Mixes |-> Scripts(mx,
          {<<Do("start", Connecting(mx))>>,
           <<Do("stop", "do_mqtt"), Do("stop", "mqtt_task")>>,
           <<Do("stop", "do_mqtt"), Do("stop", "mqtt_task"), Do("stop", "http_task")>>,
           <<Do("start", "once")>>,
           <<Do("stop", "once")>>})]
=============================================================================
