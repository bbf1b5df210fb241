----------------------------- MODULE OtaUpdate -----------------------------
(***************************************************************************)
(* Firmware updates: app_http_ota.c, the HTTP task of app_network_model.c  *)
(* that starts it, and the device information they save.                   *)
(*                                                                         *)
(* timer_do_ota drives one exchange at a time over HTTP_SOCKET_ID: report  *)
(* the version, get a task, download its packets into the OTA area of      *)
(* flash, compare the digest, report, mark the image for the boot loader   *)
(* and reset.  The HTTP task resolves the server's name over the same      *)
(* socket and in the same buffer.  The W5500 receives while the superloop  *)
(* computes: data and the end of a connection arrive between any two of    *)
(* its register accesses.                                                  *)
(*                                                                         *)
(* An answer arrives in two parts; of a packet the first brings the HTTP   *)
(* header.  The digest is taken to tell any two images apart.  Packets are *)
(* numbered from 0 and every image has Packets of them.                    *)
(***************************************************************************)
EXTENDS Integers, Sequences

CONSTANTS Versions,       (* firmware versions that the server offers      *)
          FirstVersion,   (* CUR_VER, the version of a device never updated*)
          NoVersion,      (* the application area holds no whole image     *)
          Packets,
          SavesMayFail    (* saves of the device information may fail, as  *)
                          (* well as succeed                               *)

ASSUME OtaAssumption ==
  /\ FirstVersion \in Versions
  /\ NoVersion \notin Versions
  /\ Packets \in Nat \ {0}
  /\ SavesMayFail \in BOOLEAN

VARIABLES
  flag,      (* ota_flag                                                   *)
  report,    (* is_report                                                  *)
  ip,        (* my_httpconn holds the server's address                     *)
  task,      (* my_ota_info: the version and current_packet                *)
  step,      (* download_step                                              *)
  buf,       (* the first total_len bytes of http_buf: parts of an answer  *)
  dirty,     (* something else was written over them                       *)
  pc,        (* where timer_do_ota is                                      *)
  timers,    (* live timers, of do_ota, timeout and http_task              *)
  http,      (* http_task_flag, DNS_run_nb's state, g_report, and whether  *)
             (* http_params holds the server's address                     *)
  sock,      (* HTTP_SOCKET_ID: its status, the answer the server sends on *)
             (* this connection, the parts still to come, and those in the *)
             (* receive buffer                                             *)
  area,      (* the OTA area of flash                                      *)
  info,      (* the saved device information in flash                      *)
  ram,       (* my_dev_save_info                                           *)
  installed, (* the version in the application area of flash               *)
  failed     (* history: a save of the device information failed           *)

update == <<flag, report, ip, task, step, buf, dirty>>
storage == <<area, info, ram, installed, failed>>
vars == <<update, pc, timers, http, sock, storage>>

-----------------------------------------------------------------------------
(* Answers of the server, their parts, and pages of flash.                  *)

PacketNumbers == 0 .. Packets - 1

Answer(k, v, p) == [kind |-> k, ver |-> v, pkt |-> p]
Plain(k) == Answer(k, FirstVersion, 0)
Nothing == Plain("nothing")

Part(a, h) == [of |-> a, half |-> h]
BothParts(a) == <<Part(a, 1), Part(a, 2)>>
Garbage == <<Part(Nothing, 0)>>
Image(v) == [p \in PacketNumbers |-> BothParts(Answer("bin", v, p))]

\* The answers whose status is 200 or 206: the packet that was asked for, or
\* another text, a JSON object with a code for one.
Bodies == {"bin", "text"}

\* What the server may answer to the request of each state, if anything.
\* "none" has the code not_exist, "ok" any other code and no task; "refusal"
\* has another status than Bodies.
Answers ==
  CASE flag = "GET_TASK" -> {Plain("ok"), Plain("none")}
                              \cup {Answer("task", v, 0) : v \in Versions}
    [] flag = "DOWNLOADING" -> {Plain("refusal")}
                              \cup {Answer(k, task.ver, task.cur) : k \in Bodies}
    [] OTHER -> {Plain("ok")}

Status(st) == [st |-> st, answer |-> Nothing, left |-> 0, rx |-> 0]
Closed == Status("closed")
Readable == sock.st \in {"established", "close_wait"}

Info(v, f) == [ver |-> v, flag |-> f]
\* A page that is erased reads as the defaults of dev_load_device_save_info.
BlankInfo == Info(FirstVersion, FALSE)

HttpStart == [flag |-> "dns", dns |-> 0, report |-> TRUE, resolved |-> FALSE]

FirstTask == [ver |-> FirstVersion, cur |-> 0]

Init ==
  /\ flag = "IDLE" /\ report = TRUE /\ ip = FALSE
  /\ task = FirstTask /\ step = 0 /\ buf = <<>> /\ dirty = FALSE
  /\ pc = "main" /\ timers = {} /\ http = HttpStart /\ sock = Closed
  /\ area = [p \in PacketNumbers |-> <<>>]
  /\ info = BlankInfo /\ ram = info
  /\ installed = FirstVersion
  /\ failed = FALSE

-----------------------------------------------------------------------------
(* Saving the device information, and resets.                               *)

\* dev_set_save_device_info(new), then NVIC_SystemReset if it has succeeded.
\* A page that fails to be saved, or that a power failure cuts off, keeps its
\* contents, is blank, or is written with an error elsewhere.
SaveInfo(new) ==
  /\ ram' = new
  /\ \/ info' = new /\ pc' = "halt" /\ UNCHANGED failed
     \/ /\ SavesMayFail
        /\ info' \in {info, BlankInfo, new} /\ pc' = "main" /\ failed' = TRUE
  /\ UNCHANGED <<area, installed>>

\* The boot loader installs a flagged image and clears the flag.
BootLoader ==
  /\ installed' = IF info.flag
                    THEN IF area = Image(info.ver) THEN info.ver ELSE NoVersion
                    ELSE installed
  /\ info' = [info EXCEPT !.flag = FALSE]
  /\ ram' = info'
  /\ UNCHANGED <<area, failed>>

\* Power failure or watchdog: the program starts again.
Reset ==
  /\ flag' = "IDLE" /\ report' = TRUE /\ ip' = FALSE
  /\ task' = FirstTask /\ step' = 0 /\ buf' = <<>> /\ dirty' = FALSE
  /\ pc' = "main" /\ timers' = {} /\ http' = HttpStart /\ sock' = Closed
  /\ BootLoader

\* NVIC_SystemReset after the information has been saved.
SystemReset == pc = "halt" /\ Reset

\* timer_timeout
Timeout == pc = "main" /\ "timeout" \in timers /\ Reset

\* EVENT_USART0_SET_INFO
SetInfo ==
  /\ pc = "main"
  /\ SaveInfo(ram)
  /\ UNCHANGED <<update, timers, http, sock>>

-----------------------------------------------------------------------------
(* app_ota_check, and those who call it.                                    *)

OtaCheck(rep, others) ==
  IF flag = "IDLE"
    THEN /\ report' = rep /\ ip' = http.resolved /\ flag' = "REPORT_VER"
         /\ timers' = others \cup {"do_ota"}
         /\ UNCHANGED <<task, step, buf, dirty>>
    ELSE timers' = others /\ UNCHANGED update

\* A message to ota/inform.
Inform ==
  /\ pc = "main"
  /\ OtaCheck(FALSE, timers)
  /\ UNCHANGED <<pc, http, sock, storage>>

\* The MQTT task has created its client (CLIENT_SUCC).
MqttUp ==
  /\ pc = "main"
  /\ http' = [http EXCEPT !.resolved = FALSE]
  /\ timers' = timers \cup {"http_task"}
  /\ UNCHANGED <<update, pc, sock, storage>>

SoftUpdate ==
  /\ pc = "main"
  /\ http' = [http EXCEPT !.report = FALSE]
  /\ timers' = timers \cup {"http_task"}
  /\ UNCHANGED <<update, pc, sock, storage>>

LinkOff ==
  /\ pc = "main"
  /\ timers' = timers \ {"http_task"}
  /\ UNCHANGED <<update, pc, http, sock, storage>>

\* EVENT_NETWOR_OFF: app_network_model_init resets the W5500.
ChipReset ==
  /\ pc = "main"
  /\ sock' = Closed
  /\ UNCHANGED <<update, pc, timers, http, storage>>

-----------------------------------------------------------------------------
(* app_network_http_task, with DNS_run_nb over the shared socket and buffer.*)

HttpTask(f) == pc = "main" /\ "http_task" \in timers /\ http.flag = f

Overwritten == dirty' = (dirty \/ buf # <<>>)

DnsQuery ==
  /\ HttpTask("dns") /\ http.dns = 0
  /\ sock' = Status("udp")
  /\ http' = [http EXCEPT !.dns = 1]
  /\ Overwritten
  /\ UNCHANGED <<flag, report, ip, task, step, buf, pc, timers, storage>>

\* Nothing was received: the query is repeated.
DnsRepeat ==
  /\ HttpTask("dns") /\ http.dns = 1 /\ sock.rx = 0
  /\ Overwritten
  /\ UNCHANGED <<flag, report, ip, task, step, buf, pc, timers, http, sock, storage>>

\* Something was received, or the last repetition was in vain.
DnsEnd ==
  /\ HttpTask("dns") /\ http.dns = 1
  /\ \/ http' = [http EXCEPT !.dns = 0]
     \/ /\ sock.rx > 0
        /\ http' = [http EXCEPT !.dns = 0, !.flag = "check", !.resolved = TRUE]
  /\ sock' = Closed
  /\ IF sock.st = "udp" /\ sock.rx > 0 THEN Overwritten ELSE UNCHANGED dirty
  /\ UNCHANGED <<flag, report, ip, task, step, buf, pc, timers, storage>>

\* The MQTT task resolves its own server, with the same statics of
\* DNS_run_nb and the same buffer, over another socket.  (DHCP writes into
\* the buffer as well.)
MqttDns ==
  /\ pc = "main"
  /\ \E d \in {0, 1} : http' = [http EXCEPT !.dns = d]
  /\ Overwritten
  /\ UNCHANGED <<flag, report, ip, task, step, buf, pc, timers, sock, storage>>

HttpCheck ==
  /\ HttpTask("check")
  /\ OtaCheck(http.report, timers \ {"http_task"})
  /\ http' = [http EXCEPT !.flag = "dns"]
  /\ UNCHANGED <<pc, sock, storage>>

-----------------------------------------------------------------------------
(* timer_do_ota.                                                            *)

DoOta(f) == pc = "main" /\ "do_ota" \in timers /\ flag = f

\* app_http_send_packet: each call takes the socket one step further.
SendPacket ==
  CASE sock.st = "closed" -> sock' = Status("init")
    [] sock.st = "init" /\ ip -> sock' \in {Status("established"), Closed}
    [] sock.st = "established" /\ sock.answer = Nothing ->
         \E a \in Answers \cup {Nothing} :
           sock' = [sock EXCEPT !.answer = a, !.left = IF a = Nothing THEN 0 ELSE 2]
    [] OTHER -> UNCHANGED sock

\* The requests of all states but DOWNLOADING: send, then look for the answer.
Request ==
  /\ \E f \in {"REPORT_VER", "GET_TASK", "REPORT_OK", "REPORT_CHECK_FAIL"} : DoOta(f)
  /\ SendPacket
  /\ pc' = "receive"
  /\ UNCHANGED <<update, timers, http, storage>>

\* app_parse_http_data: what an answer of kind k does to flag, task, timers.
\* (faulty variant) the state machine is idle but its timer runs on
StoppedRunning == flag' = "IDLE" /\ UNCHANGED <<task, timers>>

Stopped == flag' = "IDLE" /\ timers' = timers \ {"do_ota"} /\ UNCHANGED task

Waiting == IF flag = "REPORT_VER" THEN (IF report THEN "IDLE" ELSE "GET_TASK") ELSE flag

\* (faulty variant) a new task goes on counting where the last one stopped
UnderstandResumed(a) ==
  CASE Waiting = "GET_TASK" /\ a.kind = "task" ->
         /\ flag' = "DOWNLOADING"
         /\ task' = [task EXCEPT !.ver = a.ver]
         /\ timers' = timers \cup {"timeout"}
    [] Waiting = "GET_TASK" /\ a.kind # "none" ->
         flag' = "GET_TASK" /\ UNCHANGED <<task, timers>>
    [] OTHER -> Stopped

\* (faulty variant) the timeout is not started
UnderstandUntimed(a) ==
  CASE Waiting = "GET_TASK" /\ a.kind = "task" ->
         /\ flag' = "DOWNLOADING"
         /\ task' = [ver |-> a.ver, cur |-> 0]
         /\ UNCHANGED timers
    [] Waiting = "GET_TASK" /\ a.kind # "none" ->
         flag' = "GET_TASK" /\ UNCHANGED <<task, timers>>
    [] OTHER -> Stopped

Understand(a) ==
  CASE Waiting = "GET_TASK" /\ a.kind = "task" ->
         /\ flag' = "DOWNLOADING"
         /\ task' = [ver |-> a.ver, cur |-> 0]
         /\ timers' = timers \cup {"timeout"}
    [] Waiting = "GET_TASK" /\ a.kind # "none" ->
         flag' = "GET_TASK" /\ UNCHANGED <<task, timers>>
    [] OTHER -> Stopped

\* app_http_recv_packet finds nothing, or something it cannot parse.
NoAnswer ==
  /\ pc = "receive" /\ ~(Readable /\ sock.rx = 2)
  /\ sock' = IF sock.rx > 0 \/ sock.st = "close_wait" THEN Closed ELSE sock
  /\ pc' = "main"
  /\ UNCHANGED <<update, timers, http, storage>>

GotAnswer ==
  /\ pc = "receive" /\ Readable /\ sock.rx = 2
  /\ sock' = Closed
  /\ Understand(sock.answer)
  /\ IF flag = "REPORT_OK"
       THEN SaveInfo(Info(task.ver, TRUE))
       ELSE pc' = "main" /\ UNCHANGED storage
  /\ UNCHANGED <<report, ip, step, buf, dirty, http>>

\* (faulty variant) the digest is not compared
AllDownloadedUnchecked ==
  /\ DoOta("DOWNLOADING") /\ task.cur >= Packets
  /\ flag' = "REPORT_OK"
  /\ UNCHANGED <<report, ip, task, step, buf, dirty, pc, timers, http, sock, storage>>

AllDownloaded ==
  /\ DoOta("DOWNLOADING") /\ task.cur >= Packets
  /\ flag' = IF area = Image(task.ver) THEN "REPORT_OK" ELSE "REPORT_CHECK_FAIL"
  /\ UNCHANGED <<report, ip, task, step, buf, dirty, pc, timers, http, sock, storage>>

RequestPacket ==
  /\ DoOta("DOWNLOADING") /\ task.cur < Packets /\ step = 0
  /\ buf' = <<>> /\ dirty' = FALSE
  /\ SendPacket
  /\ step' = IF sock.st = "established" THEN 1 ELSE 0
  /\ UNCHANGED <<flag, report, ip, task, pc, timers, http, storage>>

\* The parts that are in the receive buffer.
Received == [k \in 1 .. sock.rx |-> Part(sock.answer, 2 - sock.left - sock.rx + k)]

\* (faulty variant) the receive buffer keeps what was read
ReadPacketAgain ==
  /\ DoOta("DOWNLOADING") /\ task.cur < Packets /\ step = 1
  /\ buf' = IF Readable THEN buf \o Received ELSE buf
  /\ pc' = "status"
  /\ UNCHANGED <<flag, report, ip, task, step, dirty, timers, http, sock, storage>>

\* app_http_recv_bin_packet reads what has arrived, ...
ReadPacket ==
  /\ DoOta("DOWNLOADING") /\ task.cur < Packets /\ step = 1
  /\ CASE Readable ->
            /\ buf' = buf \o Received
            /\ sock' = [sock EXCEPT !.rx = 0]
            /\ UNCHANGED dirty
       [] sock.rx > 0 /\ ~Readable ->
            /\ sock' = IF sock.st = "udp" THEN sock ELSE Closed
            /\ dirty' = TRUE
            /\ UNCHANGED buf
       [] OTHER -> UNCHANGED <<buf, sock, dirty>>
  /\ pc' = "status"
  /\ UNCHANGED <<flag, report, ip, task, step, timers, http, storage>>

\* ... then looks whether the server has closed the connection, ...
StillOpen ==
  /\ pc = "status" /\ sock.st # "close_wait"
  /\ pc' = "main"
  /\ UNCHANGED <<update, timers, http, sock, storage>>

\* The page that app_parse_http_bin finds in the buffer, if any: the status is
\* looked at, what the body is is not.
Found == IF buf = <<>> THEN {}
         ELSE IF dirty THEN {Garbage}
         ELSE IF buf[1].of.kind \in Bodies THEN {buf} ELSE {}

EndOfPacket ==
  /\ pc = "status" /\ sock.st = "close_wait"
  /\ sock' = Closed /\ buf' = <<>> /\ dirty' = FALSE
  /\ pc' = "main"

\* ... and if so writes a page of flash and asks for the next packet, ...
PacketWritten ==
  /\ EndOfPacket
  /\ \E page \in Found : area' = [area EXCEPT ![task.cur] = page]
  /\ task' = [task EXCEPT !.cur = @ + 1]
  /\ step' = 0
  /\ UNCHANGED <<flag, report, ip, timers, http, info, ram, installed, failed>>

\* ... or fails to: there is no page, or its writing has an error.
PacketRefused ==
  /\ EndOfPacket
  /\ \/ Found \subseteq {Garbage} /\ UNCHANGED area
     \/ Found # {} /\ area' = [area EXCEPT ![task.cur] = Garbage]
  /\ UNCHANGED <<flag, report, ip, task, step, timers, http, info, ram, installed, failed>>

-----------------------------------------------------------------------------
(* The network, at any moment.                                              *)

Arrive ==
  /\ \/ sock.st = "established" /\ sock.left > 0
        /\ sock' = [sock EXCEPT !.left = @ - 1, !.rx = @ + 1]
     \/ sock.st = "udp" /\ sock.rx = 0 /\ sock' = [sock EXCEPT !.rx = 1]
  /\ UNCHANGED <<update, pc, timers, http, storage>>

ServerCloses ==
  /\ sock.st = "established" /\ sock.left = 0
  /\ sock' = [sock EXCEPT !.st = "close_wait"]
  /\ UNCHANGED <<update, pc, timers, http, storage>>

ConnectionLost ==
  /\ Readable
  /\ sock' = IF sock.rx = 0 THEN Closed
             ELSE [sock EXCEPT !.st = "closed", !.left = 0]
  /\ UNCHANGED <<update, pc, timers, http, storage>>

Network == Arrive \/ ServerCloses \/ ConnectionLost
HttpStep == DnsQuery \/ DnsRepeat \/ DnsEnd \/ MqttDns \/ HttpCheck
OtaStep == \/ Request \/ NoAnswer \/ GotAnswer
           \/ AllDownloaded \/ RequestPacket \/ ReadPacket
           \/ StillOpen \/ PacketWritten \/ PacketRefused

Next == \/ Network \/ HttpStep \/ OtaStep
        \/ Inform \/ MqttUp \/ SoftUpdate \/ LinkOff \/ ChipReset \/ SetInfo
        \/ SystemReset \/ Timeout \/ Reset

Spec == Init /\ [][Next]_vars

(***************************************************************************)
(* A callback returns: the steps inside timer_do_ota are finite code.  The *)
(* poll calls timer_timeout once its 60 s are over, however often other    *)
(* callbacks run before.                                                   *)
(***************************************************************************)
FairSpec ==
  /\ Spec
  /\ WF_vars(NoAnswer \/ GotAnswer \/ StillOpen \/ PacketWritten \/ PacketRefused \/ SystemReset)
  /\ SF_vars(Timeout)

-----------------------------------------------------------------------------
(* Properties.                                                              *)

Flags == {"IDLE", "REPORT_VER", "GET_TASK", "DOWNLOADING", "REPORT_OK", "REPORT_CHECK_FAIL"}

AnswerType == [kind : {"nothing", "ok", "none", "task", "refusal"} \cup Bodies,
               ver : Versions, pkt : PacketNumbers]
InfoType == [ver : Versions, flag : BOOLEAN]
Parts == Seq([of : AnswerType, half : 0 .. 2])

(* Every variable holds values of what it stands for; no more than one     *)
(* answer is collected in http_buf.                                        *)
TypeOK ==
  /\ flag \in Flags /\ report \in BOOLEAN /\ ip \in BOOLEAN
  /\ task \in [ver : Versions, cur : 0 .. Packets]
  /\ step \in {0, 1} /\ buf \in Parts /\ Len(buf) <= 2 /\ dirty \in BOOLEAN
  /\ pc \in {"main", "receive", "status", "halt"}
  /\ timers \subseteq {"do_ota", "timeout", "http_task"}
  /\ http \in [flag : {"dns", "check"}, dns : {0, 1}, report : BOOLEAN, resolved : BOOLEAN]
  /\ sock \in [st : {"closed", "init", "established", "close_wait", "udp"},
               answer : AnswerType, left : 0 .. 2, rx : 0 .. 2]
  /\ area \in [PacketNumbers -> Parts]
  /\ info \in InfoType /\ ram \in InfoType
  /\ installed \in Versions \cup {NoVersion} /\ failed \in BOOLEAN

(* The boot loader is told to install whole images only, and the version   *)
(* the device announces afterwards is the one that runs: whatever is lost, *)
(* cut short or overwritten on the way, unless the device information      *)
(* itself could not be saved.                                              *)
InstalledIsAnnounced ==
  ~failed => IF info.flag THEN area = Image(info.ver) ELSE installed = info.ver

(* What may come of the request for packet p of version v: the beginning   *)
(* of an answer to it, as far as it came, be it the packet or another text.*)
Beginnings(v, p) ==
  {SubSeq(BothParts(Answer(k, v, p)), 1, n) : k \in Bodies, n \in 1 .. 2}

(* While an update is downloaded, every page that counts as written holds  *)
(* the body, or its beginning, of what the server answered to the request  *)
(* for that very packet of that very task, or is damaged by the name       *)
(* resolution in the shared buffer: never the answer to another request,   *)
(* and never one of an earlier task.  The body may be anything, an error   *)
(* in JSON sent with status 200 included; such a page counts, and only the *)
(* digest will tell (InstalledIsAnnounced).                                *)
PagesInPlace ==
  flag = "DOWNLOADING" =>
    \A p \in 0 .. task.cur - 1 : area[p] \in Beginnings(task.ver, p) \cup {Garbage}

(* An update that has begun keeps its timer, so that it refuses other      *)
(* checks only while something will act on it; once it has a task, the     *)
(* timeout is armed.                                                       *)
UpdateIsDriven ==
  /\ flag # "IDLE" <=> "do_ota" \in timers
  /\ flag \in {"DOWNLOADING", "REPORT_OK", "REPORT_CHECK_FAIL"} => "timeout" \in timers

(* A download ends, by success, by failure or by the reset of the timeout, *)
(* even where the state machine waits for a connection that is gone.       *)
DownloadEnds == flag = "DOWNLOADING" ~> flag = "IDLE"

(* When a packet is written, all of it has been received.  Broken by data  *)
(* that arrive, with the end of the connection, after the receive buffer   *)
(* was read and before the socket's status is.                             *)
WrittenWhole == [][PacketWritten => sock.left = 0 /\ sock.rx = 0]_vars

-----------------------------------------------------------------------------
(* What firmware updates implement.                                         *)

Stage == IF info.flag THEN "marked"
         ELSE IF flag = "DOWNLOADING" THEN "loading"
         ELSE IF flag = "REPORT_OK" THEN "whole" ELSE "none"

Target == IF info.flag THEN info.ver
          ELSE IF flag \in {"DOWNLOADING", "REPORT_OK"} THEN task.ver ELSE NoVersion

Firmware == INSTANCE FirmwareStore WITH
  runs <- installed, announced <- info.ver, stage <- Stage, target <- Target

(* The version that runs changes only to one that was assigned, downloaded,*)
(* found whole and marked in one go, and it is the announced one; a lost   *)
(* connection, a refused page, a reset or the 60 s timeout only end the    *)
(* update they come in.  The promise ends when the device information      *)
(* could not be saved.                                                     *)
UpdatesInOneGo == Firmware!Init /\ [][Firmware!Next \/ failed']_(Firmware!vars)
=============================================================================
