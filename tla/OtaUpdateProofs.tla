-------------------------- MODULE OtaUpdateProofs ---------------------------
(***************************************************************************)
(* Theorems about firmware updates, for every set of versions and every    *)
(* number of packets.                                                      *)
(***************************************************************************)
EXTENDS OtaUpdate, TLAPS

(***************************************************************************)
(* Type correctness.  What may be in http_buf depends on the phase of the  *)
(* download and on what the connection can still bring.                    *)
(***************************************************************************)
Collecting ==
  /\ pc = "receive" => flag # "DOWNLOADING"
  /\ pc = "status" => flag = "DOWNLOADING" /\ step = 1
  /\ step = 1 => flag = "DOWNLOADING" /\ task.cur < Packets
  /\ step = 0 => buf = <<>>
  /\ sock.st = "established" /\ sock.answer = Nothing => sock.left = 0 /\ sock.rx = 0
  /\ Readable => Len(buf) + sock.left + sock.rx <= 2

SockType == [st : {"closed", "init", "established", "close_wait", "udp"},
             answer : AnswerType, left : 0 .. 2, rx : 0 .. 2]

LEMMA PacketZero == 0 \in PacketNumbers /\ PacketNumbers \subseteq Nat
BY OtaAssumption DEF PacketNumbers

LEMMA NothingType == Nothing \in AnswerType
BY PacketZero, OtaAssumption DEF Nothing, Plain, Answer, AnswerType

LEMMA StatusType ==
  ASSUME NEW st \in {"closed", "init", "established", "close_wait", "udp"}
  PROVE  Status(st) \in SockType /\ Status(st).st = st /\ Status(st).answer = Nothing
         /\ Status(st).left = 0 /\ Status(st).rx = 0
BY NothingType DEF Status, SockType

LEMMA GarbageType == Garbage \in Parts /\ Len(Garbage) = 1
BY NothingType DEF Garbage, Part, Parts

LEMMA AnswersType ==
  ASSUME TypeOK, flag = "DOWNLOADING" => task.cur < Packets
  PROVE  Answers \cup {Nothing} \subseteq AnswerType
<1>1. \A k \in {"ok", "none", "refusal"} : Plain(k) \in AnswerType
  BY PacketZero, OtaAssumption DEF Plain, Answer, AnswerType
<1>2. \A v \in Versions : Answer("task", v, 0) \in AnswerType
  BY PacketZero DEF Answer, AnswerType
<1>3. CASE flag = "DOWNLOADING"
  <2>0. task.ver \in Versions /\ task.cur \in 0 .. Packets /\ task.cur < Packets
    BY <1>3 DEF TypeOK
  <2>1. task.cur \in PacketNumbers
    BY <2>0, OtaAssumption DEF PacketNumbers
  <2>2. \A k \in Bodies : Answer(k, task.ver, task.cur) \in AnswerType
    BY <2>0, <2>1 DEF Answer, AnswerType
  <2>3. QED
    BY <1>1, <1>3, <2>2, NothingType DEF Answers
<1>4. CASE flag = "GET_TASK"
  BY <1>1, <1>2, <1>4, NothingType DEF Answers
<1>5. CASE flag \notin {"DOWNLOADING", "GET_TASK"}
  BY <1>1, <1>5, NothingType DEF Answers
<1>6. QED
  BY <1>3, <1>4, <1>5

(* Sending takes the socket a step further; before an answer nothing can   *)
(* have been received, and an answer has two parts.                        *)
LEMMA SendPacketSock ==
  ASSUME TypeOK, Collecting, SendPacket, flag = "DOWNLOADING" => task.cur < Packets
  PROVE  /\ sock' \in SockType
         /\ sock'.st = "established" /\ sock'.answer = Nothing => sock'.left = 0 /\ sock'.rx = 0
         /\ sock'.st \in {"established", "close_wait"} => sock'.left + sock'.rx <= 2
<1>1. sock \in SockType
  BY DEF TypeOK, SockType
<1>2. CASE sock.st = "closed"
  BY <1>2, StatusType DEF SendPacket
<1>3. CASE sock.st = "init" /\ ip
  <2>1. sock' = Status("established") \/ sock' = Status("closed")
    BY <1>3 DEF SendPacket, Closed
  <2>2. QED
    BY <2>1, StatusType
<1>4. CASE sock.st = "established" /\ sock.answer = Nothing
  <2>1. PICK a \in Answers \cup {Nothing} :
          sock' = [sock EXCEPT !.answer = a, !.left = IF a = Nothing THEN 0 ELSE 2]
    BY <1>4 DEF SendPacket
  <2>2. a \in AnswerType
    BY AnswersType
  <2>3. sock.rx = 0 /\ sock.left = 0
    BY <1>4 DEF Collecting
  <2>4. PICK n \in {0, 2} : (a = Nothing => n = 0) /\ sock' = [sock EXCEPT !.answer = a, !.left = n]
    BY <2>1
  <2>5. sock' \in SockType /\ sock'.answer = a /\ sock'.rx = 0 /\ sock'.left = n
    <3>1. n \in 0 .. 2
      OBVIOUS
    <3>2. sock' \in SockType
      BY <1>1, <2>2, <2>4, <3>1 DEF SockType
    <3>3. sock'.answer = a /\ sock'.left = n /\ sock'.rx = sock.rx
      BY <1>1, <2>4 DEF SockType
    <3>4. QED
      BY <2>3, <3>2, <3>3
  <2>6. QED
    BY <2>4, <2>5
<1>5. CASE /\ sock.st # "closed"
           /\ ~(sock.st = "init" /\ ip)
           /\ ~(sock.st = "established" /\ sock.answer = Nothing)
  <2>1. sock' = sock
    BY <1>5 DEF SendPacket
  <2>2. Readable => sock.left + sock.rx <= 2
    BY <1>1 DEF Collecting, TypeOK, SockType, Parts
  <2>3. QED
    BY <1>1, <1>5, <2>1, <2>2 DEF Readable, Collecting
<1>6. QED
  BY <1>2, <1>3, <1>4, <1>5

(* What the buffer has once the receive buffer has been read.              *)
LEMMA ReceivedParts ==
  ASSUME TypeOK, Collecting, Readable
  PROVE  /\ buf \o Received \in Parts
         /\ Len(buf \o Received) = Len(buf) + sock.rx
<1> DEFINE P == [of : AnswerType, half : 0 .. 2]
<1>1. buf \in Seq(P) /\ Len(buf) \in Nat /\ sock.rx \in 0 .. 2 /\ sock.left \in 0 .. 2
  BY DEF TypeOK, Parts
<1>2. sock.answer \in AnswerType
  BY DEF TypeOK
<1>3. Len(buf) + sock.left + sock.rx <= 2
  BY DEF Collecting
<1>4. \A k \in 1 .. sock.rx : Part(sock.answer, 2 - sock.left - sock.rx + k) \in P
  <2> TAKE k \in 1 .. sock.rx
  <2>1. 2 - sock.left - sock.rx + k \in 0 .. 2
    BY <1>1, <1>3
  <2>2. QED
    BY <1>2, <2>1 DEF Part
<1>5. Received \in [1 .. sock.rx -> P]
  BY <1>4 DEF Received
<1>6. Received \in Seq(P) /\ Len(Received) = sock.rx
  <2> HIDE DEF P
  <2>1. sock.rx \in Nat
    BY <1>1
  <2>2. QED
    BY <1>5, <2>1
<1>7. QED
  <2> HIDE DEF P
  <2>1. buf \o Received \in Seq(P) /\ Len(buf \o Received) = Len(buf) + Len(Received)
    BY <1>1, <1>6
  <2>2. QED
    BY <1>6, <2>1 DEF P, Parts

(* What app_parse_http_bin writes is a sequence of parts.                  *)
LEMMA FoundParts == ASSUME TypeOK PROVE Found \subseteq Parts
BY GarbageType DEF Found, TypeOK

LEMMA HttpStartType ==
  HttpStart \in [flag : {"dns", "check"}, dns : {0, 1}, report : BOOLEAN, resolved : BOOLEAN]
BY DEF HttpStart

LEMMA BlankInfoType == BlankInfo \in InfoType
BY OtaAssumption DEF BlankInfo, Info, InfoType

LEMMA SaveInfoType ==
  ASSUME TypeOK, NEW new \in InfoType, SaveInfo(new)
  PROVE  /\ ram' \in InfoType /\ info' \in InfoType /\ failed' \in BOOLEAN
         /\ pc' \in {"main", "halt"}
         /\ UNCHANGED <<area, installed>>
BY BlankInfoType DEF SaveInfo, TypeOK

LEMMA UnderstandType ==
  ASSUME TypeOK, NEW a \in AnswerType, Understand(a)
  PROVE  /\ flag' \in Flags
         /\ task' \in [ver : Versions, cur : 0 .. Packets]
         /\ timers' \subseteq {"do_ota", "timeout", "http_task"}
<1>1. 0 \in 0 .. Packets
  BY OtaAssumption
<1>2. QED
  BY <1>1 DEF Understand, Stopped, TypeOK, AnswerType, Flags, Waiting

LEMMA ResetType == ASSUME TypeOK, Reset PROVE TypeOK' /\ Collecting'
<1>1. Closed \in SockType /\ Closed.st = "closed"
  BY StatusType DEF Closed
<1>2. FirstTask \in [ver : Versions, cur : 0 .. Packets]
  BY OtaAssumption DEF FirstTask
<1>3. <<>> \in Parts /\ Len(<<>>) = 0
  BY DEF Parts
<1>4. info' \in InfoType /\ ram' = info' /\ installed' \in Versions \cup {NoVersion}
  BY DEF Reset, BootLoader, TypeOK, InfoType
<1>5. area' = area /\ failed' = failed
  BY DEF Reset, BootLoader
<1>6. TypeOK'
  <2>1. area' \in [PacketNumbers -> Parts] /\ failed' \in BOOLEAN
    BY <1>5 DEF TypeOK
  <2>2. buf' \in Parts /\ Len(buf') <= 2
    BY <1>3 DEF Reset
  <2>3. sock' \in SockType /\ http' = HttpStart /\ task' = FirstTask
    BY <1>1 DEF Reset
  <2>4. QED
    BY <1>2, <1>4, <2>1, <2>2, <2>3, HttpStartType DEF Reset, TypeOK, SockType, Flags
<1>7. Collecting'
  BY <1>1 DEF Reset, Collecting, Readable
<1>8. QED
  BY <1>6, <1>7

LEMMA InitCollecting == Init => TypeOK /\ Collecting
<1> SUFFICES ASSUME Init PROVE TypeOK /\ Collecting
  OBVIOUS
<1>1. Closed \in SockType /\ Closed.st = "closed"
  BY StatusType DEF Closed
<1>2. FirstTask \in [ver : Versions, cur : 0 .. Packets]
  BY OtaAssumption DEF FirstTask
<1>3. <<>> \in Parts /\ Len(<<>>) = 0
  BY DEF Parts
<1>4. TypeOK
  <2>1. area \in [PacketNumbers -> Parts]
    BY <1>3 DEF Init
  <2>2. buf \in Parts /\ Len(buf) <= 2
    BY <1>3 DEF Init
  <2>3. sock \in SockType /\ http = HttpStart /\ task = FirstTask
    BY <1>1 DEF Init
  <2>4. info \in InfoType /\ ram \in InfoType /\ installed \in Versions
    BY BlankInfoType, OtaAssumption DEF Init
  <2>5. QED
    BY <1>2, <2>1, <2>2, <2>3, <2>4, HttpStartType DEF Init, TypeOK, SockType, Flags
<1>5. Collecting
  BY <1>1 DEF Init, Collecting, Readable
<1>6. QED
  BY <1>4, <1>5

LEMMA NextCollecting == TypeOK /\ Collecting /\ [Next]_vars => (TypeOK /\ Collecting)'
<1> SUFFICES ASSUME TypeOK, Collecting, [Next]_vars PROVE TypeOK' /\ Collecting'
  OBVIOUS
<1> USE DEF update, storage
<1>a. sock \in SockType
  BY DEF TypeOK, SockType
<1>b. Closed \in SockType /\ Closed.st = "closed"
  BY StatusType DEF Closed
<1>c. Status("udp") \in SockType /\ Status("udp").st = "udp"
  BY StatusType
<1>d. buf \in Parts /\ Len(buf) \in Nat /\ task.cur \in 0 .. Packets /\ Packets \in Nat
  BY OtaAssumption DEF TypeOK, Parts
<1>1. CASE SetInfo
  <2>1. ram \in InfoType
    BY DEF TypeOK
  <2>2. ram' \in InfoType /\ info' \in InfoType /\ failed' \in BOOLEAN
        /\ pc' \in {"main", "halt"} /\ UNCHANGED <<area, installed>>
    BY <1>1, <2>1, SaveInfoType DEF SetInfo
  <2>3. QED
    BY <1>1, <2>2 DEF SetInfo, TypeOK, Collecting, Readable
<1>2. CASE Inform
  <2>1. flag' \in Flags /\ report' \in BOOLEAN /\ ip' \in BOOLEAN
        /\ timers' \subseteq {"do_ota", "timeout", "http_task"}
        /\ (flag' = flag \/ (flag = "IDLE" /\ pc' = "main"))
        /\ UNCHANGED <<task, step, buf, dirty, pc, http, sock, storage>>
    BY <1>2 DEF Inform, OtaCheck, TypeOK, Flags
  <2>2. TypeOK'
    BY <2>1 DEF TypeOK
  <2>3. Collecting'
    BY <2>1 DEF Collecting, Readable
  <2>4. QED
    BY <2>2, <2>3
<1>3. CASE MqttUp \/ SoftUpdate \/ LinkOff
  <2>1. timers' \subseteq {"do_ota", "timeout", "http_task"} /\ UNCHANGED <<update, pc, sock, storage>>
    BY <1>3 DEF MqttUp, SoftUpdate, LinkOff, TypeOK
  <2>2. http' \in [flag : {"dns", "check"}, dns : {0, 1}, report : BOOLEAN, resolved : BOOLEAN]
    BY <1>3 DEF MqttUp, SoftUpdate, LinkOff, TypeOK
  <2>3. QED
    BY <2>1, <2>2 DEF TypeOK, Collecting, Readable
<1>4. CASE DnsQuery
  BY <1>4, <1>c DEF DnsQuery, HttpTask, Overwritten, TypeOK, Collecting, Readable, SockType
<1>5. CASE DnsRepeat
  BY <1>5 DEF DnsRepeat, HttpTask, Overwritten, TypeOK, Collecting, Readable
<1>5a. CASE MqttDns
  <2>1. /\ dirty' \in BOOLEAN
        /\ UNCHANGED <<flag, report, ip, task, step, buf, pc, timers, sock, storage>>
    BY <1>5a DEF MqttDns, Overwritten, TypeOK
  <2>2. http' \in [flag : {"dns", "check"}, dns : {0, 1}, report : BOOLEAN, resolved : BOOLEAN]
    BY <1>5a DEF MqttDns, TypeOK
  <2>3. QED
    BY <2>1, <2>2 DEF TypeOK, Collecting, Readable
<1>6. CASE DnsEnd
  BY <1>6, <1>b DEF DnsEnd, HttpTask, Overwritten, TypeOK, Collecting, Readable, SockType
<1>7. CASE HttpCheck
  BY <1>7 DEF HttpCheck, HttpTask, OtaCheck, TypeOK, Collecting, Readable, Flags
<1>8. CASE Request
  <2>1. flag # "DOWNLOADING" /\ buf = <<>> /\ SendPacket
    BY <1>8 DEF Request, DoOta, Collecting, TypeOK
  <2>2. /\ sock' \in SockType
        /\ sock'.st = "established" /\ sock'.answer = Nothing => sock'.left = 0 /\ sock'.rx = 0
        /\ sock'.st \in {"established", "close_wait"} => sock'.left + sock'.rx <= 2
    BY <2>1, SendPacketSock
  <2>3. TypeOK'
    BY <1>8, <2>2 DEF Request, TypeOK, SockType
  <2>4. Collecting'
    BY <1>8, <2>1, <2>2, <2>3 DEF Request, Collecting, Readable, SockType
  <2>5. QED
    BY <2>3, <2>4
<1>9. CASE NoAnswer
  BY <1>9, <1>b DEF NoAnswer, TypeOK, Collecting, Readable, SockType
<1>10. CASE GotAnswer
  <2>1. flag # "DOWNLOADING" /\ step # 1
    BY <1>10 DEF GotAnswer, Collecting
  <2>2. step = 0 /\ buf = <<>>
    BY <2>1 DEF TypeOK, Collecting
  <2>3. /\ flag' \in Flags
        /\ task' \in [ver : Versions, cur : 0 .. Packets]
        /\ timers' \subseteq {"do_ota", "timeout", "http_task"}
    <3>1. sock.answer \in AnswerType
      BY DEF TypeOK
    <3>2. QED
      BY <1>10, <3>1, UnderstandType DEF GotAnswer
  <2>4. /\ ram' \in InfoType /\ info' \in InfoType /\ failed' \in BOOLEAN
        /\ pc' \in {"main", "halt"} /\ UNCHANGED <<area, installed>>
    <3>1. CASE flag = "REPORT_OK"
      <4>1. Info(task.ver, TRUE) \in InfoType
        BY DEF TypeOK, Info, InfoType
      <4>2. SaveInfo(Info(task.ver, TRUE))
        BY <1>10, <3>1 DEF GotAnswer
      <4>3. QED
        BY <4>1, <4>2, SaveInfoType
    <3>2. CASE flag # "REPORT_OK"
      BY <1>10, <3>2 DEF GotAnswer, TypeOK
    <3>3. QED
      BY <3>1, <3>2
  <2>5. TypeOK'
    BY <1>10, <1>b, <2>3, <2>4 DEF GotAnswer, TypeOK, SockType
  <2>6. Collecting'
    BY <1>10, <1>b, <2>2, <2>4 DEF GotAnswer, Collecting, Readable
  <2>7. QED
    BY <2>5, <2>6
<1>11. CASE AllDownloaded
  BY <1>11, <1>d DEF AllDownloaded, DoOta, TypeOK, Collecting, Readable, Flags
<1>12. CASE RequestPacket
  <2>1. /\ sock' \in SockType
        /\ sock'.st = "established" /\ sock'.answer = Nothing => sock'.left = 0 /\ sock'.rx = 0
        /\ sock'.st \in {"established", "close_wait"} => sock'.left + sock'.rx <= 2
    BY <1>12, SendPacketSock DEF RequestPacket
  <2>2. <<>> \in Parts /\ Len(<<>>) = 0
    BY DEF Parts
  <2>3. TypeOK'
    <3>1. buf' \in Parts /\ Len(buf') <= 2 /\ dirty' \in BOOLEAN /\ step' \in {0, 1}
      <4>1. buf' = <<>> /\ dirty' = FALSE
        BY <1>12 DEF RequestPacket
      <4>2. step' \in {0, 1}
        BY <1>12 DEF RequestPacket
      <4>3. dirty' \in BOOLEAN
        BY <4>1
      <4>4. buf' \in Parts /\ Len(buf') <= 2
        BY <2>2, <4>1
      <4>5. QED
        BY <4>2, <4>3, <4>4
    <3>2. UNCHANGED <<flag, report, ip, task, pc, timers, http, storage>>
      BY <1>12 DEF RequestPacket
    <3>3. QED
      BY <2>1, <3>1, <3>2 DEF TypeOK, SockType
  <2>4. Collecting'
    BY <1>12, <2>1, <2>2 DEF RequestPacket, DoOta, Collecting, Readable, SockType
  <2>5. QED
    BY <2>3, <2>4
<1>13. CASE ReadPacket
  <2>1. CASE Readable
    <3>1. buf' \in Parts /\ Len(buf') = Len(buf) + sock.rx /\ Len(buf) + sock.left + sock.rx <= 2
      BY <1>13, <2>1, ReceivedParts DEF ReadPacket, Collecting
    <3>2. sock' = [sock EXCEPT !.rx = 0]
      BY <1>13, <2>1 DEF ReadPacket
    <3>3. /\ sock' \in SockType /\ sock'.st = sock.st /\ sock'.left = sock.left
          /\ sock'.answer = sock.answer /\ sock'.rx = 0 /\ sock.left \in 0 .. 2 /\ sock.rx \in 0 .. 2
      BY <1>a, <3>2 DEF SockType
    <3>4. Len(buf') <= 2
      BY <1>d, <3>1, <3>3
    <3>5. Len(buf') + sock'.left + sock'.rx <= 2
      BY <1>d, <3>1, <3>3
    <3>6. TypeOK'
      BY <1>13, <2>1, <3>1, <3>3, <3>4 DEF ReadPacket, TypeOK, SockType
    <3>7. Collecting'
      BY <1>13, <2>1, <3>3, <3>5 DEF ReadPacket, DoOta, Collecting, Readable
    <3>8. QED
      BY <3>6, <3>7
  <2>2. CASE ~Readable
    <3>1. buf' = buf /\ dirty' \in BOOLEAN /\ (sock' = sock \/ sock' = Closed)
      BY <1>13, <2>2 DEF ReadPacket, TypeOK
    <3>2. TypeOK'
      BY <1>13, <1>a, <1>b, <3>1 DEF ReadPacket, TypeOK, SockType
    <3>3. Collecting'
      BY <1>13, <1>b, <2>2, <3>1 DEF ReadPacket, DoOta, Collecting, Readable
    <3>4. QED
      BY <3>2, <3>3
  <2>3. QED
    BY <2>1, <2>2
<1>14. CASE StillOpen
  BY <1>14 DEF StillOpen, TypeOK, Collecting, Readable
<1>15. ASSUME EndOfPacket PROVE /\ sock' \in SockType /\ ~Readable' /\ sock'.st # "established"
                                /\ buf' = <<>> /\ buf' \in Parts /\ Len(buf') = 0
                                /\ dirty' = FALSE /\ pc = "status" /\ pc' = "main"
  BY <1>15, <1>b DEF EndOfPacket, Readable, Parts
<1>16. CASE PacketWritten
  <2>1. task.cur < Packets /\ flag = "DOWNLOADING"
    BY <1>15, <1>16 DEF PacketWritten, Collecting
  <2>2. task' \in [ver : Versions, cur : 0 .. Packets]
    BY <1>16, <1>d, <2>1 DEF PacketWritten, TypeOK
  <2>3. area' \in [PacketNumbers -> Parts]
    BY <1>16, FoundParts DEF PacketWritten, TypeOK
  <2>4. TypeOK'
    BY <1>15, <1>16, <2>2, <2>3 DEF PacketWritten, TypeOK, SockType
  <2>5. Collecting'
    BY <1>15, <1>16, <2>1 DEF PacketWritten, Collecting
  <2>6. QED
    BY <2>4, <2>5
<1>17. CASE PacketRefused
  <2>1. area' \in [PacketNumbers -> Parts]
    BY <1>17, GarbageType DEF PacketRefused, TypeOK
  <2>2. TypeOK'
    BY <1>15, <1>17, <2>1 DEF PacketRefused, TypeOK, SockType
  <2>3. Collecting'
    BY <1>15, <1>17 DEF PacketRefused, Collecting
  <2>4. QED
    BY <2>2, <2>3
<1>18. CASE Arrive
  <2>1. CASE sock.st = "established"
    <3>1. sock.left > 0 /\ sock' = [sock EXCEPT !.left = @ - 1, !.rx = @ + 1]
      BY <1>18, <2>1 DEF Arrive
    <3>2. sock.left \in 1 .. 2 /\ sock.rx \in 0 .. 2 /\ Len(buf) + sock.left + sock.rx <= 2
      BY <1>a, <2>1, <3>1 DEF SockType, Collecting, Readable
    <3>3. sock.left - 1 \in 0 .. 2 /\ sock.rx + 1 \in 0 .. 2
      BY <1>d, <3>2
    <3>4. /\ sock' \in SockType /\ sock'.st = "established" /\ sock'.answer = sock.answer
          /\ sock'.left = sock.left - 1 /\ sock'.rx = sock.rx + 1
      BY <1>a, <2>1, <3>1, <3>3 DEF SockType
    <3>5. Len(buf) + sock'.left + sock'.rx <= 2
      BY <1>d, <3>2, <3>4
    <3>6. TypeOK'
      BY <1>18, <3>4 DEF Arrive, TypeOK, SockType
    <3>7. Collecting'
      BY <1>18, <2>1, <3>1, <3>4, <3>5 DEF Arrive, Collecting, Readable
    <3>8. QED
      BY <3>6, <3>7
  <2>2. CASE sock.st # "established"
    <3>1. sock' \in SockType /\ sock'.st = "udp"
      BY <1>18, <1>a, <2>2 DEF Arrive, SockType
    <3>2. QED
      BY <1>18, <3>1 DEF Arrive, TypeOK, Collecting, Readable, SockType
  <2>3. QED
    BY <2>1, <2>2
<1>19. CASE ServerCloses
  <2>1. /\ sock' \in SockType /\ sock'.st = "close_wait" /\ sock'.left = sock.left /\ sock'.rx = sock.rx
        /\ Readable
    BY <1>19, <1>a DEF ServerCloses, SockType, Readable
  <2>2. QED
    BY <1>19, <2>1 DEF ServerCloses, TypeOK, Collecting, Readable, SockType
<1>20. CASE ConnectionLost
  <2>1. sock' \in SockType /\ sock'.st = "closed"
    <3>1. sock' = Closed \/ sock' = [sock EXCEPT !.st = "closed", !.left = 0]
      BY <1>20 DEF ConnectionLost
    <3>2. CASE sock' = [sock EXCEPT !.st = "closed", !.left = 0]
      <4>1. sock' = [st |-> "closed", answer |-> sock.answer, left |-> 0, rx |-> sock.rx]
        BY <1>a, <3>2 DEF SockType
      <4>2. sock.answer \in AnswerType /\ sock.rx \in 0 .. 2 /\ 0 \in 0 .. 2
        BY <1>a DEF SockType
      <4>3. QED
        BY <4>1, <4>2 DEF SockType
    <3>3. QED
      BY <1>b, <3>1, <3>2
  <2>2. QED
    BY <1>20, <2>1 DEF ConnectionLost, TypeOK, Collecting, Readable, SockType
<1>20a. CASE ChipReset
  BY <1>20a, <1>b DEF ChipReset, TypeOK, Collecting, Readable, SockType
<1>21. CASE SystemReset \/ Timeout \/ Reset
  BY <1>21, ResetType DEF SystemReset, Timeout
<1>22. CASE UNCHANGED vars
  BY <1>22 DEF vars, TypeOK, Collecting, Readable
<1>23. QED
  BY <1>1, <1>2, <1>3, <1>4, <1>5, <1>5a, <1>6, <1>7, <1>8, <1>9, <1>10, <1>11, <1>12, <1>13, <1>14,
     <1>16, <1>17, <1>18, <1>19, <1>20, <1>20a, <1>21, <1>22 DEF Next, Network, HttpStep, OtaStep

(* Every variable holds values of what it stands for, and http_buf never   *)
(* collects more than one answer: total_len is reset with each request and *)
(* a connection brings one answer only.                                    *)
THEOREM TypeCorrect == Spec => [](TypeOK /\ Collecting)
<1>1. TypeOK /\ Collecting /\ [Next]_vars => (TypeOK /\ Collecting)'
  BY NextCollecting
<1>2. QED
  BY <1>1, InitCollecting, PTL DEF Spec

-----------------------------------------------------------------------------
(***************************************************************************)
(* What the boot loader is told.  Between resets the saved information has *)
(* no flag, except after the save that ends an update; and the state that  *)
(* leads there is entered by the comparison of the digests only, after     *)
(* which nothing writes to the area.                                       *)
(***************************************************************************)
Saved ==
  /\ InstalledIsAnnounced
  /\ ~failed => ram = info
  /\ ~failed /\ pc # "halt" => ~info.flag
  /\ flag = "REPORT_OK" => area = Image(task.ver)

LEMMA ResetSaved == TypeOK /\ Saved /\ Reset => Saved'
<1> SUFFICES ASSUME TypeOK, Saved, Reset PROVE Saved'
  OBVIOUS
<1>1. /\ info' = [info EXCEPT !.flag = FALSE] /\ ram' = info'
      /\ area' = area /\ failed' = failed /\ flag' = "IDLE"
  BY DEF Reset, BootLoader
<1>2. info'.flag = FALSE /\ info'.ver = info.ver
  BY <1>1 DEF TypeOK, InfoType
<1>3. ~failed => installed' = info.ver
  BY DEF Reset, BootLoader, Saved, InstalledIsAnnounced
<1>4. InstalledIsAnnounced'
  BY <1>1, <1>2, <1>3 DEF InstalledIsAnnounced
<1>5. QED
  BY <1>1, <1>2, <1>4 DEF Saved

LEMMA NextSaved == TypeOK /\ Collecting /\ Saved /\ [Next]_vars => Saved'
<1> SUFFICES ASSUME TypeOK, Collecting, Saved, [Next]_vars PROVE Saved'
  OBVIOUS
<1> USE DEF update, storage
<1>1. ASSUME UNCHANGED <<storage, task>>, flag' = flag \/ flag' # "REPORT_OK",
             pc' # "halt", pc # "halt" \/ pc' = pc
      PROVE  Saved'
  BY <1>1 DEF Saved, InstalledIsAnnounced
<1>2. CASE SetInfo
  <2>1. pc = "main" /\ UNCHANGED <<flag, task, area, installed>> /\ SaveInfo(ram)
    BY <1>2 DEF SetInfo, SaveInfo
  <2>2. CASE failed'
    BY <2>1, <2>2 DEF Saved, InstalledIsAnnounced
  <2>3. CASE ~failed'
    <3>1. ~failed /\ ram' = ram /\ info' = ram
      BY <2>1, <2>3 DEF SaveInfo, TypeOK
    <3>2. QED
      BY <2>1, <3>1 DEF Saved, InstalledIsAnnounced
  <2>4. QED
    BY <2>2, <2>3
<1>3. CASE Inform \/ HttpCheck
  <2>1. /\ UNCHANGED <<storage, task, pc>> /\ pc = "main"
        /\ flag' = flag \/ flag' = "REPORT_VER"
    BY <1>3 DEF Inform, HttpCheck, HttpTask, OtaCheck
  <2>2. QED
    BY <1>1, <2>1
<1>4. CASE MqttUp \/ SoftUpdate \/ LinkOff \/ ChipReset \/ DnsQuery \/ DnsRepeat \/ DnsEnd \/ MqttDns
  BY <1>1, <1>4 DEF MqttUp, SoftUpdate, LinkOff, ChipReset, DnsQuery, DnsRepeat, DnsEnd, MqttDns,
                    HttpTask
<1>5. CASE Request \/ NoAnswer \/ RequestPacket \/ ReadPacket \/ StillOpen
  BY <1>1, <1>5 DEF Request, NoAnswer, RequestPacket, ReadPacket, StillOpen, DoOta
<1>6. CASE GotAnswer
  <2>1. pc = "receive" /\ Understand(sock.answer)
    BY <1>6 DEF GotAnswer
  <2>2. flag' # "REPORT_OK" \/ (flag' = flag /\ task' = task)
    BY <2>1 DEF Understand, Stopped
  <2>3. CASE flag = "REPORT_OK"
    <3>1. SaveInfo(Info(task.ver, TRUE)) /\ area = Image(task.ver)
      BY <1>6, <2>3 DEF GotAnswer, Saved
    <3>2. UNCHANGED <<area, installed>>
      BY <3>1 DEF SaveInfo
    <3>3. flag' # "REPORT_OK"
      BY <2>1, <2>3 DEF Understand, Stopped, Waiting
    <3>4. CASE failed'
      BY <3>2, <3>3, <3>4 DEF Saved, InstalledIsAnnounced
    <3>5. CASE ~failed'
      <4>1. info' = Info(task.ver, TRUE) /\ ram' = info' /\ pc' = "halt"
        BY <3>1, <3>5 DEF SaveInfo
      <4>2. info'.ver = task.ver /\ info'.flag
        BY <4>1 DEF Info
      <4>3. InstalledIsAnnounced'
        BY <3>1, <3>2, <4>2 DEF InstalledIsAnnounced, Image
      <4>4. QED
        BY <3>3, <4>1, <4>3 DEF Saved
    <3>6. QED
      BY <3>4, <3>5
  <2>4. CASE flag # "REPORT_OK"
    <3>1. UNCHANGED storage /\ pc' = "main"
      BY <1>6, <2>4 DEF GotAnswer
    <3>2. QED
      BY <2>1, <2>2, <2>4, <3>1 DEF Saved, InstalledIsAnnounced
  <2>5. QED
    BY <2>3, <2>4
<1>7. CASE AllDownloaded
  <2>1. /\ UNCHANGED <<storage, task, pc>> /\ pc = "main"
        /\ flag' = "REPORT_OK" => area = Image(task.ver)
    BY <1>7 DEF AllDownloaded, DoOta
  <2>2. QED
    BY <2>1 DEF Saved, InstalledIsAnnounced, Image
<1>8. CASE PacketWritten \/ PacketRefused
  <2>1. /\ flag = "DOWNLOADING" /\ flag' = flag /\ pc = "status" /\ pc' = "main"
        /\ UNCHANGED <<info, ram, installed, failed>>
    BY <1>8 DEF PacketWritten, PacketRefused, EndOfPacket, Collecting
  <2>2. QED
    BY <2>1 DEF Saved, InstalledIsAnnounced
<1>9. CASE Network
  <2>1. UNCHANGED <<storage, task, pc, flag>>
    BY <1>9 DEF Network, Arrive, ServerCloses, ConnectionLost
  <2>2. QED
    BY <2>1 DEF Saved, InstalledIsAnnounced
<1>10. CASE SystemReset \/ Timeout \/ Reset
  BY <1>10, ResetSaved DEF SystemReset, Timeout
<1>11. CASE UNCHANGED vars
  BY <1>11 DEF vars, Saved, InstalledIsAnnounced
<1>12. QED
  BY <1>2, <1>3, <1>4, <1>5, <1>6, <1>7, <1>8, <1>9, <1>10, <1>11 DEF Next, HttpStep, OtaStep

LEMMA SavedHolds == Spec => []Saved
<1>1. Init => Saved
  BY DEF Init, Saved, InstalledIsAnnounced, BlankInfo, Info
<1>2. TypeOK /\ Collecting /\ Saved /\ [Next]_vars => Saved'
  BY NextSaved
<1>3. QED
  BY <1>1, <1>2, TypeCorrect, PTL DEF Spec

(* The boot loader is told to install whole images only, and the version   *)
(* the device announces is the one that runs, for any number of packets    *)
(* and whatever the network, the name resolution, flash errors and resets  *)
(* do, unless the device information itself could not be saved.            *)
THEOREM FlaggedImagesAreWhole == Spec => []InstalledIsAnnounced
<1>1. Saved => InstalledIsAnnounced
  BY DEF Saved
<1>2. QED
  BY <1>1, SavedHolds, PTL

-----------------------------------------------------------------------------
(***************************************************************************)
(* Firmware updates implement a FirmwareStore: each step takes the store's *)
(* update a stage further, gives it up, or leaves the store alone.         *)
(***************************************************************************)
FirmwareFrame == UNCHANGED Firmware!vars

\* The stage depends on the saved flag and on the state machine only.
LEMMA SameStage ==
  ASSUME UNCHANGED <<info, installed>>, flag' = flag,
         flag \in {"DOWNLOADING", "REPORT_OK"} => task'.ver = task.ver
  PROVE  FirmwareFrame
BY DEF FirmwareFrame, Firmware!vars, Stage, Target

\* Between updates the state machine changes without the store.
LEMMA OutsideUpdate ==
  ASSUME UNCHANGED <<info, installed>>, flag \notin {"DOWNLOADING", "REPORT_OK"},
         flag' \notin {"DOWNLOADING", "REPORT_OK"}
  PROVE  FirmwareFrame
BY DEF FirmwareFrame, Firmware!vars, Stage, Target

\* An update that is not yet marked is given up.
LEMMA GivenUp ==
  ASSUME UNCHANGED <<info, installed>>, flag' \notin {"DOWNLOADING", "REPORT_OK"}
  PROVE  Firmware!GiveUp \/ FirmwareFrame
<1>1. CASE ~info.flag /\ flag \in {"DOWNLOADING", "REPORT_OK"}
  BY <1>1 DEF Firmware!GiveUp, Stage, Target
<1>2. CASE info.flag \/ flag \notin {"DOWNLOADING", "REPORT_OK"}
  BY <1>2 DEF FirmwareFrame, Firmware!vars, Stage, Target
<1>3. QED
  BY <1>1, <1>2

\* The start installs a marked image and ends any other update.
LEMMA ResetFirmware ==
  ASSUME TypeOK, Saved, Reset, ~failed
  PROVE  Firmware!Next \/ FirmwareFrame
<1>1. /\ info' = [info EXCEPT !.flag = FALSE] /\ flag' = "IDLE"
      /\ installed' = IF info.flag
                        THEN IF area = Image(info.ver) THEN info.ver ELSE NoVersion
                        ELSE installed
  BY DEF Reset, BootLoader
<1>2. info'.flag = FALSE /\ info'.ver = info.ver
  BY <1>1 DEF TypeOK, InfoType
<1>3. Stage' = "none" /\ Target' = NoVersion
  BY <1>1, <1>2 DEF Stage, Target
<1>4. CASE info.flag
  <2>1. installed' = info.ver
    BY <1>1, <1>4 DEF Saved, InstalledIsAnnounced
  <2>2. Firmware!Install
    BY <1>2, <1>3, <1>4, <2>1 DEF Firmware!Install, Stage, Target
  <2>3. QED
    BY <2>2 DEF Firmware!Next
<1>5. CASE ~info.flag
  <2>1. installed' = installed
    BY <1>1, <1>5
  <2>2. CASE flag \in {"DOWNLOADING", "REPORT_OK"}
    <3>1. Firmware!GiveUp
      BY <1>2, <1>3, <1>5, <2>1, <2>2 DEF Firmware!GiveUp, Stage
    <3>2. QED
      BY <3>1 DEF Firmware!Next
  <2>3. CASE flag \notin {"DOWNLOADING", "REPORT_OK"}
    BY <1>2, <1>3, <1>5, <2>1, <2>3 DEF FirmwareFrame, Firmware!vars, Stage, Target
  <2>4. QED
    BY <2>2, <2>3
<1>6. QED
  BY <1>4, <1>5

\* A task begins an update, the end of the last report marks it.
LEMMA AnswerFirmware ==
  ASSUME TypeOK, Collecting, Saved, GotAnswer, ~failed'
  PROVE  Firmware!Next \/ FirmwareFrame
<1>1. pc = "receive" /\ flag # "DOWNLOADING" /\ Understand(sock.answer)
  BY DEF GotAnswer, Collecting
<1>2. CASE flag = "REPORT_OK"
  <2>1. flag' = "IDLE" /\ task' = task
    BY <1>1, <1>2 DEF Understand, Stopped, Waiting
  <2>2. SaveInfo(Info(task.ver, TRUE))
    BY <1>2 DEF GotAnswer
  <2>3. info' = Info(task.ver, TRUE) /\ installed' = installed /\ ~failed
    <3>1. installed' = installed
      BY <2>2 DEF SaveInfo
    <3>2. info' = Info(task.ver, TRUE) /\ failed' = failed
      BY <2>2 DEF SaveInfo
    <3>3. ~failed
      BY <3>2
    <3>4. QED
      BY <3>1, <3>2, <3>3
  <2>4. info'.ver = task.ver /\ info'.flag = TRUE
    BY <2>3 DEF Info
  <2>5. ~info.flag
    BY <1>1, <2>3 DEF Saved
  <2>6. Firmware!Mark
    BY <1>2, <2>3, <2>4, <2>5 DEF Firmware!Mark, Stage, Target
  <2>7. QED
    BY <2>6 DEF Firmware!Next
<1>3. CASE flag # "REPORT_OK"
  <2>1. UNCHANGED <<info, installed, failed>>
    BY <1>3 DEF GotAnswer, storage
  <2>2. ~info.flag
    BY <1>1, <2>1 DEF Saved
  <2>3. CASE flag' = "DOWNLOADING"
    <3>1. task' = [ver |-> sock.answer.ver, cur |-> 0]
      BY <1>1, <2>3 DEF Understand, Stopped
    <3>2. task'.ver \in Versions
      BY <3>1 DEF TypeOK, AnswerType
    <3>3. Firmware!Assign(task'.ver)
      BY <1>1, <1>3, <2>1, <2>2, <2>3 DEF Firmware!Assign, Stage, Target
    <3>4. QED
      BY <3>2, <3>3 DEF Firmware!Next
  <2>4. CASE flag' # "DOWNLOADING"
    <3>1. flag' # "REPORT_OK"
      BY <1>1 DEF Understand, Stopped
    <3>2. QED
      BY <1>1, <1>3, <2>1, <2>4, <3>1, OutsideUpdate
  <2>5. QED
    BY <2>3, <2>4
<1>4. QED
  BY <1>2, <1>3

LEMMA NextFirmware ==
  TypeOK /\ Collecting /\ Saved /\ [Next]_vars => [Firmware!Next \/ failed']_(Firmware!vars)
<1> SUFFICES ASSUME TypeOK, Collecting, Saved, [Next]_vars, ~failed'
             PROVE  Firmware!Next \/ FirmwareFrame
  BY DEF FirmwareFrame
<1> USE DEF update, storage
<1>1. CASE SetInfo
  <2>1. /\ UNCHANGED <<flag, task, installed>> /\ ~failed /\ info' = ram
    BY <1>1 DEF SetInfo, SaveInfo
  <2>2. info' = info
    BY <2>1 DEF Saved
  <2>3. QED
    BY <2>1, <2>2, SameStage
<1>2. CASE Inform \/ HttpCheck
  <2>1. UNCHANGED <<info, installed, task>>
        /\ (flag' = flag \/ (flag = "IDLE" /\ flag' = "REPORT_VER"))
    BY <1>2 DEF Inform, HttpCheck, HttpTask, OtaCheck
  <2>2. QED
    BY <2>1, SameStage, OutsideUpdate
<1>3. CASE MqttUp \/ SoftUpdate \/ LinkOff \/ ChipReset \/ DnsQuery \/ DnsRepeat \/ DnsEnd \/ MqttDns
  <2>1. UNCHANGED <<info, installed, task, flag>>
    BY <1>3 DEF MqttUp, SoftUpdate, LinkOff, ChipReset, DnsQuery, DnsRepeat, DnsEnd, MqttDns
  <2>2. QED
    BY <2>1, SameStage
<1>4. CASE Request \/ NoAnswer \/ RequestPacket \/ ReadPacket \/ StillOpen \/ Network
  <2>1. UNCHANGED <<info, installed, task, flag>>
    BY <1>4 DEF Request, NoAnswer, RequestPacket, ReadPacket, StillOpen, Network, Arrive,
                ServerCloses, ConnectionLost
  <2>2. QED
    BY <2>1, SameStage
<1>5. CASE GotAnswer
  BY <1>5, AnswerFirmware
<1>6. CASE AllDownloaded
  <2>1. /\ UNCHANGED <<info, installed, task, failed, pc>> /\ pc = "main" /\ flag = "DOWNLOADING"
        /\ flag' \in {"REPORT_OK", "REPORT_CHECK_FAIL"}
    BY <1>6 DEF AllDownloaded, DoOta
  <2>2. ~info.flag
    BY <2>1 DEF Saved
  <2>3. CASE flag' = "REPORT_OK"
    <3>1. Firmware!Load
      BY <2>1, <2>2, <2>3 DEF Firmware!Load, Stage, Target
    <3>2. QED
      BY <3>1 DEF Firmware!Next
  <2>4. CASE flag' = "REPORT_CHECK_FAIL"
    BY <2>1, <2>4, GivenUp DEF Firmware!Next
  <2>5. QED
    BY <2>1, <2>3, <2>4
<1>7. CASE PacketWritten \/ PacketRefused
  <2>1. UNCHANGED <<info, installed, flag>> /\ (task' = task \/ task' = [task EXCEPT !.cur = @ + 1])
    BY <1>7 DEF PacketWritten, PacketRefused
  <2>2. task'.ver = task.ver
    BY <2>1 DEF TypeOK
  <2>3. QED
    BY <2>1, <2>2, SameStage
<1>8. CASE SystemReset \/ Timeout \/ Reset
  <2>1. Reset /\ ~failed
    BY <1>8 DEF SystemReset, Timeout, Reset, BootLoader
  <2>2. QED
    BY <2>1, ResetFirmware
<1>9. CASE UNCHANGED vars
  BY <1>9, SameStage DEF vars
<1>10. QED
  BY <1>1, <1>2, <1>3, <1>4, <1>5, <1>6, <1>7, <1>8, <1>9 DEF Next, HttpStep, OtaStep

(* The version that runs changes only to one that was assigned to a device *)
(* with no update in progress, downloaded, found whole and marked, for any *)
(* number of packets, until the device information cannot be saved.        *)
THEOREM UpdatesAreWhole == Spec => UpdatesInOneGo
<1>1. Init => Firmware!Init
  BY DEF Init, BlankInfo, Info, Stage, Target, Firmware!Init
<1>2. TypeOK /\ Collecting /\ Saved /\ [Next]_vars => [Firmware!Next \/ failed']_(Firmware!vars)
  BY NextFirmware
<1>3. QED
  BY <1>1, <1>2, TypeCorrect, SavedHolds, PTL DEF Spec, UpdatesInOneGo

-----------------------------------------------------------------------------
(* The steps that leave the state machine and its timers alone.            *)
LEMMA SameDriven ==
  ASSUME UpdateIsDriven, flag' = flag,
         "do_ota" \in timers' <=> "do_ota" \in timers,
         "timeout" \in timers => "timeout" \in timers'
  PROVE  UpdateIsDriven'
BY DEF UpdateIsDriven

(* A state machine that is not idle has its timer, and one that has a task *)
(* has its timeout, whatever the other tasks and messages do meanwhile.    *)
THEOREM Driven == Spec => []UpdateIsDriven
<1>1. Init => UpdateIsDriven
  BY DEF Init, UpdateIsDriven
<1>2. UpdateIsDriven /\ [Next]_vars => UpdateIsDriven'
  <2> SUFFICES ASSUME UpdateIsDriven, [Next]_vars PROVE UpdateIsDriven'
    OBVIOUS
  <2> USE DEF update, storage
  <2>1. CASE Inform \/ HttpCheck
    <3>1. PICK others : /\ "do_ota" \in others <=> "do_ota" \in timers
                        /\ "timeout" \in others <=> "timeout" \in timers
                        /\ \E rep : OtaCheck(rep, others)
      <4>1. CASE Inform
        BY <4>1 DEF Inform
      <4>2. CASE HttpCheck
        BY <4>2 DEF HttpCheck
      <4>3. QED
        BY <2>1, <4>1, <4>2
    <3>2. QED
      BY <3>1 DEF OtaCheck, UpdateIsDriven
  <2>2. CASE MqttUp \/ SoftUpdate \/ LinkOff \/ ChipReset
    BY <2>2, SameDriven DEF MqttUp, SoftUpdate, LinkOff, ChipReset
  <2>3. CASE SetInfo \/ DnsQuery \/ DnsRepeat \/ DnsEnd \/ MqttDns
    BY <2>3, SameDriven DEF SetInfo, DnsQuery, DnsRepeat, DnsEnd, MqttDns
  <2>4. CASE Request \/ NoAnswer \/ RequestPacket \/ ReadPacket \/ StillOpen
    BY <2>4, SameDriven DEF Request, NoAnswer, RequestPacket, ReadPacket, StillOpen
  <2>5. CASE GotAnswer
    <3>1. Understand(sock.answer)
      BY <2>5 DEF GotAnswer
    <3>2. QED
      BY <3>1 DEF Understand, Stopped, Waiting, UpdateIsDriven
  <2>6. CASE AllDownloaded
    BY <2>6 DEF AllDownloaded, DoOta, UpdateIsDriven
  <2>7. CASE PacketWritten \/ PacketRefused
    BY <2>7, SameDriven DEF PacketWritten, PacketRefused
  <2>8. CASE Network
    BY <2>8, SameDriven DEF Network, Arrive, ServerCloses, ConnectionLost
  <2>9. CASE SystemReset \/ Timeout \/ Reset
    BY <2>9 DEF SystemReset, Timeout, Reset, UpdateIsDriven
  <2>10. CASE UNCHANGED vars
    BY <2>10 DEF vars, UpdateIsDriven
  <2>11. QED
    BY <2>1, <2>2, <2>3, <2>4, <2>5, <2>6, <2>7, <2>8, <2>9, <2>10 DEF Next, HttpStep, OtaStep
<1>3. QED
  BY <1>1, <1>2, PTL DEF Spec

-----------------------------------------------------------------------------
(***************************************************************************)
(* Pages of the download.  While one is running, a connection that can be  *)
(* read was opened for the current packet, its answer is divided between   *)
(* buffer, chip and network in this order, and a buffer that nothing else  *)
(* has written to is the beginning of such an answer.                      *)
(***************************************************************************)
IsBeginning(b, a) == \A k \in 1 .. Len(b) : b[k] = Part(a, k)

Current == {Plain("refusal")} \cup {Answer(k, task.ver, task.cur) : k \in Bodies}

Connected ==
  (flag = "DOWNLOADING" /\ Readable) =>
     \/ sock.answer = Nothing /\ sock.left = 0 /\ sock.rx = 0 /\ buf = <<>>
     \/ /\ sock.answer \in Current
        /\ Len(buf) + sock.left + sock.rx = 2
        /\ IsBeginning(buf, sock.answer)

Collected == (flag = "DOWNLOADING" /\ ~dirty) => \E a \in Current : IsBeginning(buf, a)

PageInv == Connected /\ Collected /\ PagesInPlace

LEMMA EmptyBegins == Len(<<>>) = 0 /\ \E a \in Current : IsBeginning(<<>>, a)
BY DEF Current, IsBeginning

(* Outside of a download there is nothing to keep.                         *)
LEMMA NoDownload == flag' # "DOWNLOADING" => PageInv'
BY DEF PageInv, Connected, Collected, PagesInPlace

(* Steps that leave the buffer, the task and the area alone, and the       *)
(* connection or at least nothing to be read from it.                      *)
LEMMA SamePages ==
  ASSUME PageInv, UNCHANGED <<task, buf, area>>, ~dirty' => ~dirty,
         flag' = flag \/ flag' # "DOWNLOADING", sock' = sock \/ ~Readable'
  PROVE  PageInv'
<1>1. CASE flag' # "DOWNLOADING"
  BY <1>1, NoDownload
<1>2. CASE flag' = flag
  <2>1. Connected'
    BY <1>2 DEF PageInv, Connected, Readable, Current
  <2>2. Collected' /\ PagesInPlace'
    BY <1>2 DEF PageInv, Collected, PagesInPlace, Current
  <2>3. QED
    BY <2>1, <2>2 DEF PageInv
<1>3. QED
  BY <1>1, <1>2

(* A packet that is read goes on where the buffer ends.                    *)
LEMMA ReceivedBegins ==
  ASSUME TypeOK, Collecting, Readable, Len(buf) + sock.left + sock.rx = 2,
         IsBeginning(buf, sock.answer)
  PROVE  IsBeginning(buf \o Received, sock.answer)
<1> DEFINE P == [of : AnswerType, half : 0 .. 2]
<1>1. Len(buf) \in Nat /\ sock.rx \in Nat /\ sock.left \in Nat /\ buf \in Seq(P)
  BY DEF TypeOK, Parts
<1>2. Len(buf) = 2 - sock.left - sock.rx
  BY <1>1
<1>3. buf \o Received \in Parts /\ Len(buf \o Received) = Len(buf) + sock.rx
  BY ReceivedParts
<1>4. Len(Received) = sock.rx
  BY <1>1 DEF Received
<1>5. ASSUME NEW k \in 1 .. Len(buf) + sock.rx
      PROVE  (buf \o Received)[k] = Part(sock.answer, k)
  <2>1. CASE k <= Len(buf)
    <3>1. k \in 1 .. Len(buf)
      BY <1>1, <2>1
    <3>2. (buf \o Received)[k] = buf[k]
      BY <1>1, <1>4, <3>1 DEF Received
    <3>3. QED
      BY <3>1, <3>2 DEF IsBeginning
  <2>2. CASE k > Len(buf)
    <3>1. k - Len(buf) \in 1 .. sock.rx
      BY <1>1, <2>2
    <3>2. (buf \o Received)[k] = Received[k - Len(buf)]
      BY <1>1, <1>4, <2>2, <3>1 DEF Received
    <3>3. Received[k - Len(buf)] = Part(sock.answer, 2 - sock.left - sock.rx + (k - Len(buf)))
      BY <3>1 DEF Received
    <3>4. 2 - sock.left - sock.rx + (k - Len(buf)) = k
      BY <1>1, <1>2
    <3>5. QED
      BY <3>2, <3>3, <3>4
  <2>3. k \in Nat
    BY <1>1
  <2>4. k <= Len(buf) \/ k > Len(buf)
    BY <1>1, <2>3
  <2>5. QED
    BY <2>1, <2>2, <2>4
<1>6. QED
  BY <1>3, <1>5 DEF IsBeginning

(* The beginnings of a pair.                                               *)
LEMMA PairBeginnings ==
  ASSUME NEW x, NEW y
  PROVE  SubSeq(<<x, y>>, 1, 1) = <<x>> /\ SubSeq(<<x, y>>, 1, 2) = <<x, y>>
<1> DEFINE s == <<x, y>>
<1>1. s \in Seq({x, y}) /\ Len(s) = 2 /\ s[1] = x /\ s[2] = y
  OBVIOUS
<1> HIDE DEF s
<1>2. SubSeq(s, 1, 1) \in Seq({x, y}) /\ Len(SubSeq(s, 1, 1)) = 1 /\ SubSeq(s, 1, 1)[1] = x
  BY <1>1
<1>3. /\ SubSeq(s, 1, 2) \in Seq({x, y}) /\ Len(SubSeq(s, 1, 2)) = 2
      /\ SubSeq(s, 1, 2)[1] = x /\ SubSeq(s, 1, 2)[2] = y
  BY <1>1
<1>4. \A b \in Seq({x, y}) : (Len(b) = 1 /\ b[1] = x) => b = <<x>>
  OBVIOUS
<1>5. \A b \in Seq({x, y}) : (Len(b) = 2 /\ b[1] = x /\ b[2] = y) => b = <<x, y>>
  OBVIOUS
<1>6. SubSeq(s, 1, 1) = <<x>> /\ SubSeq(s, 1, 2) = <<x, y>>
  BY <1>2, <1>3, <1>4, <1>5, Zenon
<1>7. QED
  BY <1>6 DEF s

(* What app_parse_http_bin finds is a beginning of an answer to the        *)
(* request for the current packet, or damaged.                             *)
LEMMA FoundIsCurrent ==
  ASSUME TypeOK, Collected, flag = "DOWNLOADING"
  PROVE  Found \subseteq Beginnings(task.ver, task.cur) \cup {Garbage}
<1>1. SUFFICES ASSUME ~dirty, buf # <<>>, buf[1].of.kind \in Bodies
               PROVE  buf \in Beginnings(task.ver, task.cur)
  BY DEF Found
<1>2. PICK a \in Current : IsBeginning(buf, a)
  BY <1>1 DEF Collected
<1>3. buf \in Parts /\ Len(buf) \in 1 .. 2
  <2>1. buf \in Parts /\ Len(buf) <= 2
    BY DEF TypeOK
  <2>2. Len(buf) \in Nat
    BY <2>1 DEF Parts
  <2>3. Len(buf) # 0
    BY <1>1, <2>1 DEF Parts
  <2>4. Len(buf) \in 1 .. 2
    <3> HIDE DEF Parts
    <3>1. \A n \in Nat : (n <= 2 /\ n # 0) => n \in 1 .. 2
      OBVIOUS
    <3>2. QED
      BY <2>1, <2>2, <2>3, <3>1
  <2>5. QED
    BY <2>1, <2>4
<1>4. PICK k \in Bodies : a = Answer(k, task.ver, task.cur)
  <2>1. buf[1] = Part(a, 1)
    BY <1>2, <1>3 DEF IsBeginning
  <2>2. a.kind \in Bodies
    BY <1>1, <2>1 DEF Part
  <2>3. a # Plain("refusal")
    BY <2>2 DEF Plain, Answer, Bodies
  <2>4. QED
    BY <1>2, <2>3 DEF Current
<1>5. \A n \in 1 .. Len(buf) : buf[n] = Part(a, n)
  BY <1>2 DEF IsBeginning
<1>6. buf = SubSeq(BothParts(a), 1, Len(buf))
  <2>1. BothParts(a) = <<Part(a, 1), Part(a, 2)>>
    BY DEF BothParts
  <2>2. CASE Len(buf) = 1
    <3>1. buf = <<Part(a, 1)>>
      BY <1>3, <1>5, <2>2 DEF Parts
    <3>2. SubSeq(BothParts(a), 1, 1) = <<Part(a, 1)>>
      BY <2>1, PairBeginnings
    <3>3. QED
      BY <2>2, <3>1, <3>2
  <2>3. CASE Len(buf) = 2
    <3>1. buf = <<Part(a, 1), Part(a, 2)>>
      BY <1>3, <1>5, <2>3 DEF Parts
    <3>2. SubSeq(BothParts(a), 1, 2) = <<Part(a, 1), Part(a, 2)>>
      BY <2>1, PairBeginnings
    <3>3. QED
      BY <2>3, <3>1, <3>2
  <2>4. QED
    BY <1>3, <2>2, <2>3
<1>7. QED
  BY <1>3, <1>4, <1>6 DEF Beginnings

LEMMA NextPages == TypeOK /\ Collecting /\ PageInv /\ [Next]_vars => PageInv'
<1> SUFFICES ASSUME TypeOK, Collecting, PageInv, [Next]_vars PROVE PageInv'
  OBVIOUS
<1> USE DEF update, storage
<1>a. sock \in SockType /\ buf \in Parts /\ Len(buf) \in Nat /\ dirty \in BOOLEAN
  BY DEF TypeOK, SockType, Parts
<1>b. ASSUME sock' = Closed \/ sock' = Status("udp") PROVE ~Readable'
  BY <1>b DEF Closed, Status, Readable
<1>1. CASE SetInfo \/ Inform \/ MqttUp \/ SoftUpdate \/ LinkOff \/ ChipReset
  <2>1. /\ UNCHANGED <<task, buf, dirty, area>>
        /\ sock' = sock \/ sock' = Closed
        /\ flag' = flag \/ flag' # "DOWNLOADING"
    BY <1>1 DEF SetInfo, SaveInfo, Inform, OtaCheck, MqttUp, SoftUpdate, LinkOff, ChipReset
  <2>2. QED
    BY <1>b, <2>1, SamePages
<1>2. CASE HttpStep
  <2>1. /\ UNCHANGED <<task, buf, area>>
        /\ ~dirty' => ~dirty
        /\ sock' = sock \/ sock' = Closed \/ sock' = Status("udp")
        /\ flag' = flag \/ flag' # "DOWNLOADING"
    BY <1>2 DEF HttpStep, DnsQuery, DnsRepeat, DnsEnd, MqttDns, HttpCheck, OtaCheck, Overwritten
  <2>2. QED
    BY <1>b, <2>1, SamePages
<1>3. CASE Request
  BY <1>3, NoDownload DEF Request, DoOta
<1>4. CASE NoAnswer \/ StillOpen
  <2>1. UNCHANGED <<task, buf, dirty, area, flag>> /\ (sock' = sock \/ sock' = Closed)
    BY <1>4 DEF NoAnswer, StillOpen
  <2>2. QED
    BY <1>b, <2>1, SamePages
<1>5. CASE GotAnswer
  <2>1. flag # "DOWNLOADING" /\ buf = <<>> /\ buf' = buf /\ sock' = Closed
    BY <1>5 DEF GotAnswer, Collecting, TypeOK
  <2>2. flag' # "DOWNLOADING" \/ task'.cur = 0
    BY <1>5, <2>1 DEF GotAnswer, Understand, Stopped
  <2>3. CASE flag' # "DOWNLOADING"
    BY <2>3, NoDownload
  <2>4. CASE task'.cur = 0
    <3>1. Connected'
      BY <1>b, <2>1 DEF Connected
    <3>2. Collected'
      BY <2>1 DEF Collected, Current, IsBeginning
    <3>3. PagesInPlace'
      BY <2>4 DEF PagesInPlace
    <3>4. QED
      BY <3>1, <3>2, <3>3 DEF PageInv
  <2>5. QED
    BY <2>2, <2>3, <2>4
<1>6. CASE AllDownloaded
  BY <1>6, NoDownload DEF AllDownloaded
<1>7. CASE RequestPacket
  <2>1. /\ flag = "DOWNLOADING" /\ buf = <<>> /\ buf' = <<>> /\ UNCHANGED <<flag, task, area>>
        /\ SendPacket
    BY <1>7 DEF RequestPacket, DoOta, Collecting
  <2>2. Collected' /\ PagesInPlace'
    BY <2>1, EmptyBegins DEF PageInv, Collected, PagesInPlace, Current
  <2>3. CASE sock' = sock
    BY <2>1, <2>2, <2>3 DEF PageInv, Connected, Readable, Current
  <2>4. CASE sock.st \in {"closed", "init"} /\ sock' # sock
    <3>1. sock' \in {Status("init"), Status("established"), Closed}
      BY <2>1, <2>4 DEF SendPacket
    <3>2. sock'.answer = Nothing /\ sock'.left = 0 /\ sock'.rx = 0
      BY <3>1, StatusType DEF Closed
    <3>3. QED
      BY <2>1, <2>2, <3>2 DEF PageInv, Connected
  <2>5. CASE sock.st = "established" /\ sock.answer = Nothing
    <3>1. PICK a \in Answers \cup {Nothing} :
            sock' = [sock EXCEPT !.answer = a, !.left = IF a = Nothing THEN 0 ELSE 2]
      BY <2>1, <2>5 DEF SendPacket
    <3>2. PICK n \in {0, 2} : /\ n = IF a = Nothing THEN 0 ELSE 2
                              /\ sock' = [sock EXCEPT !.answer = a, !.left = n]
      BY <3>1
    <3>3. sock.rx = 0
      BY <2>5 DEF Collecting
    <3>4. sock'.answer = a /\ sock'.left = n /\ sock'.rx = 0
      BY <1>a, <3>2, <3>3 DEF SockType
    <3>5. a = Nothing \/ a \in Current
      BY <2>1, <3>1 DEF Answers, Current
    <3>6. IsBeginning(<<>>, a) /\ Len(<<>>) = 0
      BY DEF IsBeginning
    <3>7. Connected'
      BY <2>1, <3>2, <3>4, <3>5, <3>6 DEF Connected, Current
    <3>8. QED
      BY <2>2, <3>7 DEF PageInv
  <2>6. QED
    BY <2>1, <2>3, <2>4, <2>5 DEF SendPacket
<1>8. CASE ReadPacket
  <2>1. flag = "DOWNLOADING" /\ UNCHANGED <<flag, task, area>>
    BY <1>8 DEF ReadPacket, DoOta
  <2>2. PagesInPlace'
    BY <2>1 DEF PageInv, PagesInPlace
  <2>3. CASE ~Readable
    <3>1. buf' = buf /\ (~dirty' => ~dirty) /\ (sock' = sock \/ sock' = Closed)
      BY <1>8, <2>3 DEF ReadPacket
    <3>2. QED
      BY <1>b, <2>1, <3>1, SamePages
  <2>4. CASE Readable
    <3>1. buf' = buf \o Received /\ dirty' = dirty /\ sock' = [sock EXCEPT !.rx = 0]
      BY <1>8, <2>4 DEF ReadPacket
    <3>2. /\ sock'.answer = sock.answer /\ sock'.left = sock.left /\ sock'.rx = 0
          /\ sock.rx \in Nat /\ sock.left \in Nat
      BY <1>a, <3>1 DEF SockType
    <3>3. Len(buf') = Len(buf) + sock.rx
      BY <2>4, <3>1, ReceivedParts
    <3>4. CASE sock.answer = Nothing /\ sock.left = 0 /\ sock.rx = 0 /\ buf = <<>>
      <4>1. buf' = <<>>
        <5>1. buf' \in Parts /\ Len(buf') = 0
          BY <2>4, <3>1, <3>3, <3>4, ReceivedParts
        <5>2. QED
          BY <5>1 DEF Parts
      <4>2. Connected'
        BY <3>2, <3>4, <4>1 DEF Connected
      <4>3. Collected'
        BY <2>1, <4>1, EmptyBegins DEF Collected, Current
      <4>4. QED
        BY <2>2, <4>2, <4>3 DEF PageInv
    <3>5. CASE /\ sock.answer \in Current
               /\ Len(buf) + sock.left + sock.rx = 2
               /\ IsBeginning(buf, sock.answer)
      <4>1. IsBeginning(buf', sock.answer)
        BY <2>4, <3>1, <3>5, ReceivedBegins
      <4>2. Len(buf') + sock'.left + sock'.rx = 2
        BY <1>a, <3>2, <3>3, <3>5
      <4>3. Current' = Current
        BY <2>1 DEF Current
      <4>4. Connected'
        BY <3>2, <3>5, <4>1, <4>2, <4>3 DEF Connected, IsBeginning
      <4>5. Collected'
        BY <3>5, <4>1, <4>3 DEF Collected, IsBeginning
      <4>6. QED
        BY <2>2, <4>4, <4>5 DEF PageInv
    <3>6. QED
      BY <2>1, <2>4, <3>4, <3>5 DEF PageInv, Connected
  <2>5. QED
    BY <2>3, <2>4
<1>9. CASE PacketWritten \/ PacketRefused
  <2>1. /\ flag = "DOWNLOADING" /\ flag' = flag /\ buf' = <<>> /\ sock' = Closed
        /\ task.cur \in 0 .. Packets - 1 /\ Packets \in Nat
    BY <1>9, OtaAssumption DEF PacketWritten, PacketRefused, EndOfPacket, Collecting, TypeOK
  <2>2. Connected' /\ Collected'
    BY <1>b, <2>1 DEF Connected, Collected, Current, IsBeginning
  <2>3. \A p \in 0 .. task.cur - 1 : area[p] \in Beginnings(task.ver, p) \cup {Garbage}
    BY <2>1 DEF PageInv, PagesInPlace
  <2>4. area \in [PacketNumbers -> Parts] /\ task.cur \in PacketNumbers
        /\ \A p \in 0 .. task.cur - 1 : p \in PacketNumbers /\ p # task.cur
    BY <2>1 DEF TypeOK, PacketNumbers
  <2>5. CASE PacketWritten
    <3>1. PICK page \in Found : area' = [area EXCEPT ![task.cur] = page]
      BY <2>5 DEF PacketWritten
    <3>2. page \in Beginnings(task.ver, task.cur) \cup {Garbage}
      BY <2>1, <3>1, FoundIsCurrent DEF PageInv
    <3>3. task'.ver = task.ver /\ task'.cur = task.cur + 1
      BY <2>5 DEF PacketWritten, TypeOK
    <3>4. ASSUME NEW p \in 0 .. task'.cur - 1
          PROVE  area'[p] \in Beginnings(task'.ver, p) \cup {Garbage}
      <4>1. p = task.cur \/ p \in 0 .. task.cur - 1
        BY <2>1, <3>3
      <4>2. CASE p = task.cur
        BY <2>4, <3>1, <3>2, <3>3, <4>2
      <4>3. CASE p \in 0 .. task.cur - 1
        BY <2>3, <2>4, <3>1, <3>3, <4>3
      <4>4. QED
        BY <4>1, <4>2, <4>3
    <3>5. PagesInPlace'
      BY <3>4 DEF PagesInPlace, Beginnings, BothParts, Garbage
    <3>6. QED
      BY <2>2, <3>5 DEF PageInv
  <2>6. CASE PacketRefused
    <3>1. task' = task /\ (area' = area \/ area' = [area EXCEPT ![task.cur] = Garbage])
      BY <2>6 DEF PacketRefused
    <3>2. \A p \in 0 .. task.cur - 1 : area'[p] = area[p]
      BY <2>4, <3>1
    <3>3. PagesInPlace'
      BY <2>3, <3>1, <3>2 DEF PagesInPlace
    <3>4. QED
      BY <2>2, <3>3 DEF PageInv
  <2>7. QED
    BY <1>9, <2>5, <2>6
<1>10. CASE Network
  <2>1. UNCHANGED <<task, buf, dirty, area, flag>>
    BY <1>10 DEF Network, Arrive, ServerCloses, ConnectionLost
  <2>2. CASE sock.st = "established" /\ (Arrive \/ ServerCloses)
    <3>1. /\ sock'.answer = sock.answer
          /\ sock'.left + sock'.rx = sock.left + sock.rx
          /\ (sock.left = 0 /\ sock.rx = 0) => (sock'.left = 0 /\ sock'.rx = 0)
          /\ sock'.left \in Int /\ sock'.rx \in Int /\ sock.left \in Int /\ sock.rx \in Int
      <4>1. CASE Arrive
        <5>1. sock.left > 0 /\ sock' = [sock EXCEPT !.left = @ - 1, !.rx = @ + 1]
          BY <2>2, <4>1 DEF Arrive
        <5>2. /\ sock'.answer = sock.answer /\ sock'.left = sock.left - 1 /\ sock'.rx = sock.rx + 1
              /\ sock.left \in Nat /\ sock.rx \in Nat
          BY <1>a, <5>1 DEF SockType
        <5>3. QED
          BY <5>1, <5>2
      <4>2. CASE ServerCloses
        BY <1>a, <4>2 DEF ServerCloses, SockType
      <4>3. QED
        BY <2>2, <4>1, <4>2
    <3>2. CASE flag # "DOWNLOADING"
      BY <2>1, <3>2, NoDownload
    <3>3. CASE flag = "DOWNLOADING"
      <4>1. Readable
        BY <2>2 DEF Readable
      <4>2. Connected'
        <5>1. CASE sock.answer = Nothing /\ sock.left = 0 /\ sock.rx = 0 /\ buf = <<>>
          BY <2>1, <3>1, <5>1 DEF Connected
        <5>2. CASE /\ sock.answer \in Current
                   /\ Len(buf) + sock.left + sock.rx = 2
                   /\ IsBeginning(buf, sock.answer)
          <6>0. Len(buf) \in Int
            BY <1>a
          <6>a. /\ Len(buf) + sock.left + sock.rx = 2
                /\ sock'.left + sock'.rx = sock.left + sock.rx
                /\ sock.left \in Int /\ sock.rx \in Int /\ sock'.left \in Int /\ sock'.rx \in Int
            BY <3>1, <5>2, Zenon
          <6>1. Len(buf) + sock'.left + sock'.rx = 2
            BY <6>0, <6>a
          <6>2. sock'.answer \in Current' /\ IsBeginning(buf', sock'.answer)
            BY <2>1, <3>1, <5>2 DEF Current, IsBeginning
          <6>3. Len(buf') + sock'.left + sock'.rx = 2
            BY <2>1, <6>1
          <6>4. QED
            BY <6>2, <6>3 DEF Connected
        <5>3. QED
          BY <3>3, <4>1, <5>1, <5>2 DEF PageInv, Connected
      <4>3. Collected' /\ PagesInPlace'
        BY <2>1 DEF PageInv, Collected, PagesInPlace, Current
      <4>4. QED
        BY <4>2, <4>3 DEF PageInv
    <3>4. QED
      BY <3>2, <3>3
  <2>3. CASE ~(sock.st = "established" /\ (Arrive \/ ServerCloses))
    <3>1. ~Readable'
      <4>1. CASE Arrive
        <5>1. sock.st = "udp" /\ sock' = [sock EXCEPT !.rx = 1]
          BY <2>3, <4>1 DEF Arrive
        <5>2. QED
          BY <1>a, <5>1 DEF SockType, Readable
      <4>2. CASE ServerCloses
        BY <2>3, <4>2 DEF ServerCloses
      <4>3. CASE ConnectionLost
        <5>1. sock' = Closed \/ sock' = [sock EXCEPT !.st = "closed", !.left = 0]
          BY <4>3 DEF ConnectionLost
        <5>2. QED
          BY <1>a, <1>b, <5>1 DEF SockType, Readable
      <4>4. QED
        BY <1>10, <4>1, <4>2, <4>3 DEF Network
    <3>2. QED
      BY <2>1, <3>1, SamePages
  <2>4. QED
    BY <2>2, <2>3
<1>11. CASE SystemReset \/ Timeout \/ Reset
  BY <1>11, NoDownload DEF SystemReset, Timeout, Reset
<1>12. CASE UNCHANGED vars
  BY <1>12, SamePages DEF vars
<1>13. QED
  BY <1>1, <1>2, <1>3, <1>4, <1>5, <1>6, <1>7, <1>8, <1>9, <1>10, <1>11, <1>12 DEF Next, OtaStep

(* Every page that counts as written holds what the server answered to the *)
(* request for that packet of the running task, packet or not, or is       *)
(* damaged: never the answer to another request, whatever the network and  *)
(* the name resolution do to socket and buffer, and however often downloads*)
(* are begun again.                                                        *)
THEOREM PagesRight == Spec => []PagesInPlace
<1>1. Init => PageInv
  BY DEF Init, PageInv, Connected, Collected, PagesInPlace
<1>2. TypeOK /\ Collecting /\ PageInv /\ [Next]_vars => PageInv'
  BY NextPages
<1>3. PageInv => PagesInPlace
  BY DEF PageInv
<1>4. QED
  BY <1>1, <1>2, <1>3, TypeCorrect, PTL DEF Spec

=============================================================================
