-------------------------- MODULE WifiManagerProofs --------------------------
(***************************************************************************)
(* Theorems about WifiManager for every queue length, every retry maximum  *)
(* and every set of requests and orders.                                   *)
(***************************************************************************)
EXTENDS WifiManager, TLAPS

ConstantsOK == /\ QueueLen \in Nat \ {0}
               /\ MaxRetry \in Nat \ {0}
               /\ Orders \subseteq Messages

LEMMA Constants == ConstantsOK
  BY QueueLenAssumption, MaxRetryAssumption, OrdersAssumption
     DEF ConstantsOK, Messages, EventMessages

(***************************************************************************)
(* Type correctness.                                                       *)
(***************************************************************************)
LEMMA InitTypeOK == Init => TypeOK
  <1> SUFFICES ASSUME NEW conf \in {"none", "good"}, InitWith(conf) PROVE TypeOK
    BY DEF Init
  <1>1. TypeData
    BY Constants DEF InitWith, TypeData, OwnOrders, ConstantsOK, Messages, EventMessages, Bits
  <1>2. TypeFlags
    BY Zenon DEF InitWith, TypeFlags
  <1> QED
    BY <1>1, <1>2 DEF TypeOK

\* The manager task keeps queues, messages, bits and counters in range.
LEMMA ManagerTypeData == TypeData /\ Manager => TypeData'
  <1> SUFFICES ASSUME TypeData, Manager PROVE TypeData'
    OBVIOUS
  <1> USE Constants DEF ConstantsOK, TypeData, OwnOrders, mgr, driver, web, Receive,
                        Messages, EventMessages, DriverEvents, Bits
  <1>1. CASE ScanDone
    BY <1>1 DEF ScanDone
  <1>2. CASE StartWifiScan
    <2>1. bits' \subseteq Bits
      BY <1>2, Zenon DEF StartWifiScan
    <2> QED
      BY <1>2, <2>1 DEF StartWifiScan, MayScan
  <1>3. CASE LoadAndRestoreSta
    BY <1>3 DEF LoadAndRestoreSta, AfterFetch, FetchResults
  <1>4. CASE LoadAndRestoreStaRest
    BY <1>4 DEF LoadAndRestoreStaRest, SetMode, apUp
  <1>5. CASE ManagerSend
    BY <1>5 DEF ManagerSend, Send, SendTo
  <1>6. ASSUME NEW r \in {"CONNECT_USER", "CONNECT_AUTO", "CONNECT_RESTORE"},
               ConnectSta(r)
        PROVE  TypeData'
    BY <1>6 DEF ConnectSta, RequestBit
  <1>7. CASE DisconnectSta
    BY <1>7 DEF DisconnectSta
  <1>8. CASE StaDisconnected
    BY <1>8 DEF StaDisconnected, AddressAfter, ConsumedRequest, DisconnectCause,
                 RamAfter
  <1>9. CASE StaDisconnectedFailed
    BY <1>9 DEF StaDisconnectedFailed, ToReceive, DisconnectCause
  <1>10. CASE StaDisconnectedByUser
    BY <1>10 DEF StaDisconnectedByUser, DisconnectCause
  <1>11. CASE StaDisconnectedLost
    BY <1>11 DEF StaDisconnectedLost, ToReceive, RetryTimerAfter, CountsRetry,
                  BelowMaxRetry, DisconnectCause
  <1>12. CASE StaGotIp
    BY <1>12 DEF StaGotIp, RetriesAfterGotIp
  <1>13. CASE StartAp
    BY <1>13 DEF StartAp, SetMode, apUp
  <1>14. CASE StopAp
    <2>1. CASE "WIFI_CONNECTED" \in bits
      <3>1. /\ SetMode("sta") /\ mpc' = "httpd_stop" /\ msg' = "STOP_AP"
            /\ UNCHANGED <<out, ux, retries, bits, hand, link, saved, hpc>>
        BY <1>14, <2>1, Zenon DEF StopAp
      <3>2. queue' \in Seq(Messages) /\ Len(queue') <= QueueLen
        BY <1>14 DEF StopAp
      <3> QED
        BY <3>1, <3>2 DEF SetMode, apUp
    <2>2. CASE "WIFI_CONNECTED" \notin bits
      <3>1. UNCHANGED <<out, ux, retries, bits, hand, evq, mode, link, saved,
                        hpc, mpc, msg>>
        BY <1>14, <2>2, Zenon DEF StopAp
      <3>2. queue' \in Seq(Messages) /\ Len(queue') <= QueueLen
        BY <1>14 DEF StopAp
      <3> QED
        BY <3>1, <3>2
    <2> QED
      BY <2>1, <2>2
  <1>15. CASE HttpClientInit
    BY <1>15 DEF HttpClientInit
  <1>16. CASE HttpdStopped
    BY <1>16 DEF HttpdStopped, ServerAfter, ToReceive
  <1>17. CASE HttpdRequest
    BY <1>17 DEF HttpdRequest
  <1>18. CASE HttpdRequestDone
    BY <1>18 DEF HttpdRequestDone, ToReceive
  <1> QED
    BY <1>1, <1>2, <1>3, <1>4, <1>5, <1>6, <1>7, <1>8, <1>9, <1>10, <1>11,
       <1>12, <1>13, <1>14, <1>15, <1>16, <1>17, <1>18 DEF Manager

\* The manager task keeps the flags Boolean.
LEMMA ManagerTypeFlags == TypeFlags /\ Manager => TypeFlags'
  <1> SUFFICES ASSUME TypeFlags, Manager PROVE TypeFlags'
    OBVIOUS
  <1> USE DEF TypeFlags, mgr, driver, web
  <1>1. CASE ScanDone
    BY <1>1, Zenon DEF ScanDone
  <1>2. CASE StartWifiScan
    BY <1>2, Zenon DEF StartWifiScan, MayScan
  <1>3. CASE LoadAndRestoreSta
    BY <1>3, Zenon DEF LoadAndRestoreSta, AfterFetch, FetchResults
  <1>4. CASE LoadAndRestoreStaRest
    BY <1>4, Zenon DEF LoadAndRestoreStaRest, SetMode, apUp
  <1>5. CASE ManagerSend
    BY <1>5, Zenon DEF ManagerSend, Send, SendTo
  <1>6. ASSUME NEW r \in {"CONNECT_USER", "CONNECT_AUTO", "CONNECT_RESTORE"},
               ConnectSta(r)
        PROVE  TypeFlags'
    BY <1>6, Zenon DEF ConnectSta, RequestBit
  <1>7. CASE DisconnectSta
    BY <1>7, Zenon DEF DisconnectSta
  <1>8. CASE StaDisconnected
    BY <1>8, Zenon DEF StaDisconnected, AddressAfter, ConsumedRequest, DisconnectCause,
                         RamAfter
  <1>9. CASE StaDisconnectedFailed
    BY <1>9, Zenon DEF StaDisconnectedFailed, ToReceive, DisconnectCause
  <1>10. CASE StaDisconnectedByUser
    BY <1>10, Zenon DEF StaDisconnectedByUser, DisconnectCause
  <1>11. CASE StaDisconnectedLost
    BY <1>11, Zenon DEF StaDisconnectedLost, ToReceive, RetryTimerAfter, CountsRetry,
                  BelowMaxRetry, DisconnectCause
  <1>12. CASE StaGotIp
    BY <1>12, Zenon DEF StaGotIp, RetriesAfterGotIp
  <1>13. CASE StartAp
    BY <1>13, Zenon DEF StartAp, SetMode, apUp
  <1>14. CASE StopAp
    BY <1>14, Zenon DEF StopAp, SetMode, apUp
  <1>15. CASE HttpClientInit
    BY <1>15, Zenon DEF HttpClientInit
  <1>16. CASE HttpdStopped
    BY <1>16, Zenon DEF HttpdStopped, ServerAfter, ToReceive
  <1>17. CASE HttpdRequest
    BY <1>17, Zenon DEF HttpdRequest
  <1>18. CASE HttpdRequestDone
    BY <1>18, Zenon DEF HttpdRequestDone, ToReceive
  <1> QED
    BY <1>1, <1>2, <1>3, <1>4, <1>5, <1>6, <1>7, <1>8, <1>9, <1>10, <1>11,
       <1>12, <1>13, <1>14, <1>15, <1>16, <1>17, <1>18 DEF Manager

\* Every step that is not the manager task's.
Others == \/ EventHandler \/ EventSend \/ TimerRetry \/ TimerRetrySend
          \/ Httpd \/ Client \/ (\E m \in Orders : AppSend(m))
          \/ Driver \/ Restart

\* The other tasks and the driver keep queues, messages, bits and counters
\* in range.
LEMMA OthersTypeData == TypeData /\ Others => TypeData'
  <1> SUFFICES ASSUME TypeData, Others PROVE TypeData'
    OBVIOUS
  <1> USE Constants DEF ConstantsOK, TypeData, OwnOrders, mgr, driver, web,
                        Messages, EventMessages, DriverEvents, Bits
  <1>1. CASE EventHandler
    BY <1>1 DEF EventHandler, BitsAfter
  <1>2. CASE EventSend
    BY <1>2 DEF EventSend, Send, SendTo
  <1>3. CASE TimerRetry
    BY <1>3 DEF TimerRetry, TimerAfterTick
  <1>4. CASE TimerRetrySend
    BY <1>4 DEF TimerRetrySend, Send, SendTo
  <1>5. CASE GetApJsonSent
    BY <1>5 DEF GetApJsonSent
  <1>6. CASE ScanAsync
    BY <1>6 DEF ScanAsync, Send, SendTo
  <1>7. CASE ConnectAsync
    BY <1>7 DEF ConnectAsync, Send, SendTo
  <1>8. CASE GetApJson
    BY <1>8 DEF GetApJson
  <1>9. CASE GetConnect
    BY <1>9 DEF GetConnect
  <1>10. CASE PostWifiSetup
    BY <1>10 DEF PostWifiSetup
  <1>11. ASSUME NEW m \in Orders, AppSend(m) PROVE TypeData'
    BY <1>11 DEF AppSend, Send, SendTo
  <1>12. CASE DriverJoined
    BY <1>12 DEF DriverJoined, Post
  <1>13. CASE DriverJoinFails
    BY <1>13 DEF DriverJoinFails, Disconnected, Post
  <1>14. CASE DriverLeaves
    BY <1>14 DEF DriverLeaves, Disconnected, Post
  <1>15. CASE DriverLosesLink
    BY <1>15 DEF DriverLosesLink, Disconnected, Post
  <1>16. CASE DriverScanDone
    BY <1>16 DEF DriverScanDone, Post
  <1>17. CASE Restart
    BY <1>17 DEF Restart
  <1> QED
    BY <1>1, <1>2, <1>3, <1>4, <1>5, <1>6, <1>7, <1>8, <1>9,
       <1>10, <1>11, <1>12, <1>13, <1>14, <1>15, <1>16, <1>17
       DEF Others, Httpd, Client, Driver

\* The other tasks and the driver keep the flags Boolean.
LEMMA OthersTypeFlags == TypeFlags /\ Others => TypeFlags'
  <1> SUFFICES ASSUME TypeFlags, Others PROVE TypeFlags'
    OBVIOUS
  <1> USE DEF TypeFlags, mgr, driver, web
  <1>1. CASE EventHandler
    BY <1>1, Zenon DEF EventHandler, BitsAfter
  <1>2. CASE EventSend
    BY <1>2, Zenon DEF EventSend, Send, SendTo
  <1>3. CASE TimerRetry
    BY <1>3, Zenon DEF TimerRetry, TimerAfterTick
  <1>4. CASE TimerRetrySend
    BY <1>4, Zenon DEF TimerRetrySend, Send, SendTo
  <1>5. CASE GetApJsonSent
    BY <1>5, Zenon DEF GetApJsonSent
  <1>6. CASE ScanAsync
    BY <1>6, Zenon DEF ScanAsync, Send, SendTo
  <1>7. CASE ConnectAsync
    BY <1>7, Zenon DEF ConnectAsync, Send, SendTo
  <1>8. CASE GetApJson
    BY <1>8, Zenon DEF GetApJson
  <1>9. CASE GetConnect
    BY <1>9, Zenon DEF GetConnect
  <1>10. CASE PostWifiSetup
    BY <1>10, Zenon DEF PostWifiSetup
  <1>11. ASSUME NEW m \in Orders, AppSend(m) PROVE TypeFlags'
    BY <1>11, Zenon DEF AppSend, Send, SendTo
  <1>12. CASE DriverJoined
    BY <1>12, Zenon DEF DriverJoined, Post
  <1>13. CASE DriverJoinFails
    BY <1>13, Zenon DEF DriverJoinFails, Disconnected, Post
  <1>14. CASE DriverLeaves
    BY <1>14, Zenon DEF DriverLeaves, Disconnected, Post
  <1>15. CASE DriverLosesLink
    BY <1>15, Zenon DEF DriverLosesLink, Disconnected, Post
  <1>16. CASE DriverScanDone
    BY <1>16, Zenon DEF DriverScanDone, Post
  <1>17. CASE Restart
    BY <1>17, Zenon DEF Restart
  <1> QED
    BY <1>1, <1>2, <1>3, <1>4, <1>5, <1>6, <1>7, <1>8, <1>9,
       <1>10, <1>11, <1>12, <1>13, <1>14, <1>15, <1>16, <1>17
       DEF Others, Httpd, Client, Driver

\* A step of the specification is a step of the manager, of the others, or none.
LEMMA NextSplit == Next <=> Manager \/ Others
  BY DEF Next, Others

LEMMA StutterTypeOK == TypeOK /\ UNCHANGED vars => TypeOK'
  <1> SUFFICES ASSUME TypeOK, UNCHANGED vars PROVE TypeOK'
    OBVIOUS
  <1>1. TypeData'
    BY DEF TypeOK, TypeData, OwnOrders, vars, mgr, driver, web
  <1>2. TypeFlags'
    BY Zenon DEF TypeOK, TypeFlags, vars, mgr, driver, web
  <1> QED
    BY <1>1, <1>2 DEF TypeOK

\* Every variable of the manager, of the tasks around it and of the driver stays
\* in its range, whatever the queue length and whatever clients ask for.
THEOREM TypeCorrect == Spec => []TypeOK
  <1>1. TypeOK /\ [Next]_vars => TypeOK'
    <2> SUFFICES ASSUME TypeOK, [Next]_vars PROVE TypeOK'
      OBVIOUS
    <2>1. CASE Manager
      BY <2>1, ManagerTypeData, ManagerTypeFlags, Zenon DEF TypeOK
    <2>2. CASE Others
      BY <2>2, OthersTypeData, OthersTypeFlags, Zenon DEF TypeOK
    <2>3. CASE UNCHANGED vars
      BY <2>3, StutterTypeOK
    <2> QED
      BY <2>1, <2>2, <2>3, NextSplit
  <1> QED
    BY <1>1, InitTypeOK, PTL DEF Spec

(***************************************************************************)
(* The published and the shown state of the station link.                  *)
(***************************************************************************)
\* A step that touches neither a link message nor what the messages are about.
LEMMA LinkUntouched ==
  ASSUME LinkViewConsistent, queue' = queue, hand' = hand, sta_ip' = sta_ip,
         Connected' <=> Connected
  PROVE  LinkViewConsistent'
  BY DEF LinkViewConsistent, LinkInHand, LinkInQueue, LinkSettled, LinkMessages

\* Taking a message keeps the newest link message behind it in force.
LEMMA LinkReceiveQueue ==
  ASSUME TypeData, LinkInQueue, NEW m \in Messages,
         Receive(m), hand' = hand, Connected' <=> Connected
  PROVE  LinkInQueue'
  <1> USE DEF LinkMessages
  <1>1. queue # << >> /\ queue' = Tail(queue) /\ queue \in Seq(Messages)
    BY DEF Receive, TypeData
  <1>2. /\ Len(queue') = Len(queue) - 1 /\ Len(queue) \in Nat \ {0}
        /\ \A i \in 1..Len(queue') : queue'[i] = queue[i + 1]
    BY <1>1
  <1> SUFFICES ASSUME hand' \notin LinkMessages, NEW i \in 1..Len(queue'),
                      queue'[i] \in LinkMessages,
                      \A j \in (i+1)..Len(queue') : queue'[j] \notin LinkMessages
               PROVE  Connected' <=> queue'[i] = "STA_GOT_IP"
    BY Zenon DEF LinkInQueue
  <1>3. i + 1 \in 1..Len(queue) /\ queue[i + 1] = queue'[i]
    BY <1>2
  <1>4. ASSUME NEW j \in ((i+1)+1)..Len(queue) PROVE queue[j] \notin LinkMessages
    <2>1. j - 1 \in (i+1)..Len(queue') /\ j - 1 \in 1..Len(queue')
          /\ queue'[j - 1] = queue[j]
      BY <1>2, <1>3
    <2> QED
      BY <2>1
  <1>5. Connected <=> queue[i + 1] = "STA_GOT_IP"
    BY <1>3, <1>4, Zenon DEF LinkInQueue
  <1> QED
    BY <1>3, <1>5

\* Taking a message when no message about the link is behind it.
LEMMA LinkReceiveLast ==
  ASSUME TypeData, NEW m \in Messages, Receive(m),
         \A i \in 1..Len(queue') : queue'[i] \notin LinkMessages
  PROVE  /\ queue[1] = m /\ 1 \in 1..Len(queue)
         /\ \A i \in 2..Len(queue) : queue[i] \notin LinkMessages
  <1>1. queue # << >> /\ queue' = Tail(queue) /\ queue \in Seq(Messages)
    BY DEF Receive, TypeData
  <1>2. queue[1] = m /\ 1 \in 1..Len(queue)
    BY <1>1 DEF Receive
  <1>3. ASSUME NEW i \in 2..Len(queue) PROVE queue[i] \notin LinkMessages
    <2>1. i - 1 \in 1..Len(queue') /\ queue'[i - 1] = queue[i]
      BY <1>1
    <2> QED
      BY <2>1
  <1> QED
    BY <1>2, <1>3

\* Taking a message that is not about the link.
LEMMA LinkReceiveOther ==
  ASSUME TypeData, LinkViewConsistent, NEW m \in Messages \ LinkMessages,
         Receive(m), hand' = hand, sta_ip' = sta_ip, Connected' <=> Connected
  PROVE  LinkViewConsistent'
  <1>1. LinkInHand'
    BY DEF LinkInHand, LinkViewConsistent, LinkMessages
  <1>2. LinkInQueue'
    BY LinkReceiveQueue, Zenon DEF LinkViewConsistent
  <1>3. LinkSettled'
    <2> SUFFICES ASSUME hand \notin LinkMessages,
                        \A i \in 1..Len(queue') : queue'[i] \notin LinkMessages
                 PROVE  Connected <=> sta_ip
      BY DEF LinkSettled, LinkMessages
    <2>1. /\ queue[1] = m
          /\ \A i \in 2..Len(queue) : queue[i] \notin LinkMessages
      BY LinkReceiveLast, Zenon
    <2>2. ASSUME NEW i \in 1..Len(queue) PROVE i = 1 \/ i \in 2..Len(queue)
      BY DEF TypeData
    <2> QED
      BY <2>1, <2>2, Zenon DEF LinkViewConsistent, LinkSettled
  <1> QED
    BY <1>1, <1>2, <1>3 DEF LinkViewConsistent

\* Taking a message about the link: the address string now shows what it said.
LEMMA LinkReceiveLink ==
  ASSUME TypeData, LinkViewConsistent, NEW m \in LinkMessages,
         Receive(m), hand' = hand, sta_ip' <=> m = "STA_GOT_IP",
         Connected' <=> Connected
  PROVE  LinkViewConsistent'
  <1>1. LinkInHand'
    BY DEF LinkInHand, LinkViewConsistent, LinkMessages
  <1>2. LinkInQueue'
    BY LinkReceiveQueue, Zenon
       DEF LinkViewConsistent, LinkMessages, Messages, EventMessages
  <1>3. LinkSettled'
    <2> SUFFICES ASSUME hand \notin LinkMessages,
                        \A i \in 1..Len(queue') : queue'[i] \notin LinkMessages
                 PROVE  Connected <=> m = "STA_GOT_IP"
      BY DEF LinkSettled, LinkMessages
    <2>1. /\ queue[1] = m /\ 1 \in 1..Len(queue)
          /\ \A i \in 2..Len(queue) : queue[i] \notin LinkMessages
      BY LinkReceiveLast, Zenon DEF LinkMessages, Messages, EventMessages
    <2> QED
      BY <2>1 DEF LinkViewConsistent, LinkInQueue
  <1> QED
    BY <1>1, <1>2, <1>3 DEF LinkViewConsistent

\* Sending a message that is not about the link.
LEMMA LinkSendOther ==
  ASSUME TypeData, LinkViewConsistent, NEW m \in Messages \ LinkMessages,
         Send(m), hand' \in LinkMessages <=> hand \in LinkMessages,
         hand \in LinkMessages => hand' = hand, sta_ip' = sta_ip,
         Connected' <=> Connected
  PROVE  LinkViewConsistent'
  <1> USE DEF LinkViewConsistent, LinkMessages
  <1>1. /\ queue' = Append(queue, m) /\ queue \in Seq(Messages)
    BY DEF Send, SendTo, TypeData
  <1>2. /\ Len(queue') = Len(queue) + 1 /\ Len(queue) \in Nat
        /\ \A i \in 1..Len(queue) : queue'[i] = queue[i]
        /\ queue'[Len(queue) + 1] = m
    BY <1>1
  <1>3. LinkInHand'
    BY DEF LinkInHand
  <1>4. LinkInQueue'
    BY <1>2 DEF LinkInQueue
  <1>5. LinkSettled'
    BY <1>2 DEF LinkSettled
  <1> QED
    BY <1>3, <1>4, <1>5

LEMMA LinkRestart == Restart => LinkViewConsistent'
  BY DEF Restart, LinkViewConsistent, LinkInHand, LinkInQueue, LinkSettled,
         LinkMessages, Connected

\* What a step that is not about the link leaves alone.
Keeps == hand' = hand /\ sta_ip' = sta_ip /\ (Connected' <=> Connected)
TakesOther == \E m \in Messages \ LinkMessages : Receive(m)

\* A handler of the manager task takes a message that is not about the link, or
\* takes one and shows what it says, or continues and leaves the queue alone.
LEMMA LinkManager ==
  ASSUME TypeData, LinkViewConsistent, Manager
  PROVE  LinkViewConsistent'
  <1> USE DEF mgr, driver, web, Keeps, Connected
  <1>r. ASSUME TakesOther, Keeps PROVE LinkViewConsistent'
    BY <1>r, LinkReceiveOther, Zenon DEF TakesOther
  <1>q. ASSUME queue' = queue, Keeps PROVE LinkViewConsistent'
    BY <1>q, LinkUntouched, Zenon
  <1>m. {"SCAN_DONE", "START_WIFI_SCAN", "LOAD_AND_RESTORE_STA", "CONNECT_USER",
         "CONNECT_AUTO", "CONNECT_RESTORE", "DISCONNECT_STA", "START_AP",
         "STOP_AP", "HTTP_CLIENT_INIT", "HTTPD_REQUEST"}
           = Messages \ LinkMessages
    BY DEF LinkMessages, Messages, EventMessages
  <1>1. CASE ScanDone
    <2>1. TakesOther
      BY <1>1, <1>m, Zenon DEF ScanDone, TakesOther
    <2>2. Keeps
      BY <1>1, Zenon DEF ScanDone
    <2> QED
      BY <2>1, <2>2, <1>r
  <1>2. CASE StartWifiScan
    <2>1. TakesOther
      BY <1>2, <1>m, Zenon DEF StartWifiScan, TakesOther
    <2>2. Keeps
      BY <1>2, SMT DEF StartWifiScan, MayScan
    <2> QED
      BY <2>1, <2>2, <1>r
  <1>3. CASE LoadAndRestoreSta
    <2>1. TakesOther
      BY <1>3, <1>m, Zenon DEF LoadAndRestoreSta, TakesOther
    <2>2. Keeps
      BY <1>3, Zenon DEF LoadAndRestoreSta
    <2> QED
      BY <2>1, <2>2, <1>r
  <1>4. CASE LoadAndRestoreStaRest
    BY <1>4, <1>q, Zenon DEF LoadAndRestoreStaRest, SetMode
  <1>5. CASE ManagerSend
    <2>1. out \in Messages \ LinkMessages
      BY <1>5 DEF ManagerSend, TypeData, OwnOrders, Messages, EventMessages,
                  LinkMessages
    <2>2. Send(out) /\ Keeps
      BY <1>5, Zenon DEF ManagerSend
    <2> QED
      BY <2>1, <2>2, LinkSendOther, Zenon
  <1>6. ASSUME NEW r \in {"CONNECT_USER", "CONNECT_AUTO", "CONNECT_RESTORE"},
               ConnectSta(r)
        PROVE  LinkViewConsistent'
    <2>1. TakesOther
      BY <1>6, <1>m, Zenon DEF ConnectSta, TakesOther
    <2>2. Keeps
      BY <1>6, SMT DEF ConnectSta, RequestBit
    <2> QED
      BY <2>1, <2>2, <1>r
  <1>7. CASE DisconnectSta
    <2>1. TakesOther
      BY <1>7, <1>m, Zenon DEF DisconnectSta, TakesOther
    <2>2. Keeps
      BY <1>7, SMT DEF DisconnectSta
    <2> QED
      BY <2>1, <2>2, <1>r
  <1>8. CASE StaDisconnected
    <2>1. Receive("STA_DISCONNECTED") /\ hand' = hand /\ sta_ip' = FALSE
      BY <1>8, Zenon DEF StaDisconnected, AddressAfter
    <2>2. Connected' <=> Connected
      <3>1. bits' = bits \ ConsumedRequest(DisconnectCause(bits))
        BY <1>8, Zenon DEF StaDisconnected
      <3>2. "WIFI_CONNECTED" \notin ConsumedRequest(DisconnectCause(bits))
        BY DEF ConsumedRequest
      <3> QED
        BY <3>1, <3>2, Zenon
    <2> QED
      BY <2>1, <2>2, LinkReceiveLink, Zenon DEF LinkMessages
  <1>9. CASE StaDisconnectedFailed
    BY <1>9, <1>q, Zenon DEF StaDisconnectedFailed, ToReceive
  <1>10. CASE StaDisconnectedByUser
    BY <1>10, <1>q, Zenon DEF StaDisconnectedByUser
  <1>11. CASE StaDisconnectedLost
    <2>1. queue' = queue /\ hand' = hand /\ sta_ip' = sta_ip
      BY <1>11, Zenon DEF StaDisconnectedLost
    <2>2. Connected' <=> Connected
      <3>1. \/ bits' = bits \ {"REQUEST_RESTORE_STA", "CONFIGURE_MODE"}
            \/ bits' = bits \ {"REQUEST_RESTORE_STA"}
        BY <1>11, Zenon DEF StaDisconnectedLost
      <3> QED
        BY <3>1
    <2> QED
      BY <2>1, <2>2, <1>q
  <1>12. CASE StaGotIp
    <2>1. Receive("STA_GOT_IP") /\ hand' = hand /\ sta_ip' = TRUE
      BY <1>12, Zenon DEF StaGotIp
    <2>2. Connected' <=> Connected
      BY <1>12, SMT DEF StaGotIp
    <2> QED
      BY <2>1, <2>2, LinkReceiveLink, Zenon DEF LinkMessages
  <1>13. CASE StartAp
    <2>1. TakesOther
      BY <1>13, <1>m, Zenon DEF StartAp, TakesOther
    <2>2. Keeps
      BY <1>13, Zenon DEF StartAp
    <2> QED
      BY <2>1, <2>2, <1>r
  <1>14. CASE StopAp
    <2>1. TakesOther
      BY <1>14, <1>m, Zenon DEF StopAp, TakesOther
    <2>2. Keeps
      BY <1>14, Zenon DEF StopAp
    <2> QED
      BY <2>1, <2>2, <1>r
  <1>15. CASE HttpClientInit
    <2>1. TakesOther
      BY <1>15, <1>m, Zenon DEF HttpClientInit, TakesOther
    <2>2. Keeps
      BY <1>15, Zenon DEF HttpClientInit
    <2> QED
      BY <2>1, <2>2, <1>r
  <1>16. CASE HttpdStopped
    BY <1>16, <1>q, Zenon DEF HttpdStopped, ToReceive
  <1>17. CASE HttpdRequest
    <2>1. TakesOther
      BY <1>17, <1>m, Zenon DEF HttpdRequest, TakesOther
    <2>2. Keeps
      BY <1>17, Zenon DEF HttpdRequest
    <2> QED
      BY <2>1, <2>2, <1>r
  <1>18. CASE HttpdRequestDone
    BY <1>18, <1>q, Zenon DEF HttpdRequestDone, ToReceive
  <1> QED
    BY <1>1, <1>2, <1>3, <1>4, <1>5, <1>6, <1>7, <1>8, <1>9, <1>10, <1>11,
       <1>12, <1>13, <1>14, <1>15, <1>16, <1>17, <1>18 DEF Manager

\* The event task publishes a change of the link in the bit and holds the
\* message that says so; the other tasks send messages about other things.
LEMMA LinkOthers ==
  ASSUME TypeData, LinkViewConsistent, Others
  PROVE  LinkViewConsistent'
  <1> USE DEF mgr, driver, web, Keeps, Connected
  <1>q. ASSUME queue' = queue, Keeps PROVE LinkViewConsistent'
    BY <1>q, LinkUntouched, Zenon
  <1>s. ASSUME NEW m \in Messages \ LinkMessages, Send(m), Keeps
        PROVE  LinkViewConsistent'
    BY <1>s, LinkSendOther, Zenon
  <1>m. {"CONNECT_AUTO", "START_WIFI_SCAN", "LOAD_AND_RESTORE_STA"} \cup Orders
           \subseteq Messages \ LinkMessages
    BY OrdersAssumption DEF LinkMessages, Messages, EventMessages
  <1>1. CASE EventHandler
    <2> DEFINE e == Head(evq)
    <2>1. /\ hand = "NONE" /\ queue' = queue /\ sta_ip' = sta_ip
          /\ bits' = BitsAfter(bits, e)
          /\ hand' = IF e \in EventMessages THEN e ELSE "NONE"
      BY <1>1, Zenon DEF EventHandler
    <2>2. e \in DriverEvents
      BY <1>1 DEF EventHandler, TypeData
    <2> HIDE DEF e
    <2>3. CASE e \in LinkMessages
      <3>1. hand' = e /\ (Connected' <=> e = "STA_GOT_IP")
        BY <2>1, <2>3, SMT DEF LinkMessages, EventMessages, BitsAfter
      <3> QED
        BY <2>3, <3>1 DEF LinkViewConsistent, LinkInHand, LinkInQueue, LinkSettled
    <2>4. CASE e \notin LinkMessages
      <3>1. hand' \notin LinkMessages /\ hand \notin LinkMessages
            /\ (Connected' <=> Connected)
        BY <2>1, <2>2, <2>4, SMT DEF LinkMessages, EventMessages, DriverEvents, BitsAfter
      <3> QED
        BY <2>1, <3>1
           DEF LinkViewConsistent, LinkInHand, LinkInQueue, LinkSettled
    <2> QED
      BY <2>3, <2>4
  <1>2. CASE EventSend
    <2>1. hand # "NONE" /\ Send(hand) /\ hand' = "NONE" /\ sta_ip' = sta_ip
          /\ (Connected' <=> Connected)
      BY <1>2, Zenon DEF EventSend
    <2>2. hand \in EventMessages
      BY <2>1 DEF TypeData
    <2>3. CASE hand \in LinkMessages
      <3>1. /\ Len(queue') = Len(queue) + 1 /\ Len(queue) \in Nat
            /\ queue'[Len(queue) + 1] = hand
        BY <2>1 DEF Send, SendTo, TypeData
      <3>2. Connected <=> hand = "STA_GOT_IP"
        BY <2>3 DEF LinkViewConsistent, LinkInHand
      <3>3. LinkInHand'
        BY <2>1 DEF LinkInHand, LinkMessages
      <3>4. LinkInQueue'
        <4> SUFFICES ASSUME NEW i \in 1..Len(queue'),
                       \A j \in (i+1)..Len(queue') : queue'[j] \notin LinkMessages
                     PROVE  Connected' <=> queue'[i] = "STA_GOT_IP"
          BY Zenon DEF LinkInQueue
        <4>1. Len(queue) + 1 \notin (i+1)..Len(queue')
          BY <2>3, <3>1
        <4>2. i = Len(queue) + 1
          BY <3>1, <4>1
        <4> QED
          BY <2>1, <3>1, <3>2, <4>2
      <3>5. LinkSettled'
        BY <2>3, <3>1 DEF LinkSettled
      <3> QED
        BY <3>3, <3>4, <3>5 DEF LinkViewConsistent
    <2>4. CASE hand \notin LinkMessages
      <3>1. /\ hand \in Messages \ LinkMessages
            /\ hand' \in LinkMessages <=> hand \in LinkMessages
        BY <2>1, <2>2, <2>4 DEF LinkMessages, Messages, EventMessages
      <3> QED
        BY <2>1, <2>4, <3>1, LinkSendOther, Zenon
    <2> QED
      BY <2>3, <2>4
  <1>3. CASE TimerRetry
    BY <1>3, <1>q, Zenon DEF TimerRetry
  <1>4. CASE TimerRetrySend
    BY <1>4, <1>s, <1>m, Zenon DEF TimerRetrySend
  <1>5. CASE GetApJsonSent
    BY <1>5, <1>q, Zenon DEF GetApJsonSent
  <1>6. CASE ScanAsync
    BY <1>6, <1>s, <1>m, Zenon DEF ScanAsync
  <1>7. CASE ConnectAsync
    BY <1>7, <1>s, <1>m, Zenon DEF ConnectAsync
  <1>8. CASE GetApJson
    BY <1>8, <1>q, Zenon DEF GetApJson
  <1>9. CASE GetConnect
    <2>1. queue' = queue /\ hand' = hand /\ sta_ip' = sta_ip
      BY <1>9, Zenon DEF GetConnect
    <2>2. Connected' <=> Connected
      BY <1>9, SMT DEF GetConnect
    <2> QED
      BY <2>1, <2>2, <1>q
  <1>10. CASE PostWifiSetup
    BY <1>10, <1>q, Zenon DEF PostWifiSetup
  <1>11. ASSUME NEW m \in Orders, AppSend(m) PROVE LinkViewConsistent'
    BY <1>11, <1>s, <1>m, Zenon DEF AppSend
  <1>12. CASE DriverJoined
    BY <1>12, <1>q, Zenon DEF DriverJoined
  <1>13. CASE Disconnected
    BY <1>13, <1>q, Zenon DEF Disconnected
  <1>14. CASE DriverScanDone
    BY <1>14, <1>q, Zenon DEF DriverScanDone
  <1>15. CASE Restart
    BY <1>15, LinkRestart
  <1> QED
    BY <1>1, <1>2, <1>3, <1>4, <1>5, <1>6, <1>7, <1>8, <1>9,
       <1>10, <1>11, <1>12, <1>13, <1>14, <1>15
       DEF Others, Httpd, Client, Driver, DriverJoinFails, DriverLeaves,
           DriverLosesLink

\* Whatever the tasks do in between, the newest link message on its way says
\* what the CONNECTED bit says, and with none on its way the address string
\* agrees with the bit; for every queue length, retry maximum and client.
THEOREM LinkViewCorrect == Spec => []LinkViewConsistent
  <1>1. Init => LinkViewConsistent
    BY DEF Init, InitWith, LinkViewConsistent, LinkInHand, LinkInQueue,
           LinkSettled, LinkMessages, Connected
  <1>2. TypeOK /\ LinkViewConsistent /\ [Next]_vars => LinkViewConsistent'
    <2> SUFFICES ASSUME TypeData, LinkViewConsistent, [Next]_vars
                 PROVE  LinkViewConsistent'
      BY DEF TypeOK
    <2>1. CASE Manager
      BY <2>1, LinkManager
    <2>2. CASE Others
      BY <2>2, LinkOthers
    <2>3. CASE UNCHANGED vars
      BY <2>3, LinkUntouched, Zenon DEF vars, mgr, Connected
    <2> QED
      BY <2>1, <2>2, <2>3, NextSplit
  <1> QED
    BY <1>1, <1>2, TypeCorrect, PTL DEF Spec

(***************************************************************************)
(* The scan bit.                                                           *)
(***************************************************************************)
EndsScan == {"SCAN_DONE", "STA_DISCONNECTED"}

\* An event that ends the scan is still there after more events are posted.
LEMMA ScanBitPost ==
  ASSUME TypeData, ScanBitIsCleared, NEW e, evq' = Append(evq, e),
         "SCAN" \in bits' => "SCAN" \in bits,
         scanning => scanning' \/ e \in EndsScan
  PROVE  ScanBitIsCleared'
  <1>1. /\ Len(evq') = Len(evq) + 1 /\ Len(evq) \in Nat
        /\ \A i \in 1..Len(evq) : evq'[i] = evq[i]
        /\ evq'[Len(evq) + 1] = e
    BY DEF TypeData
  <1>2. \A i \in 1..Len(evq) : i \in 1..Len(evq')
    BY <1>1
  <1>3. Len(evq) + 1 \in 1..Len(evq')
    BY <1>1
  <1> QED
    BY <1>1, <1>2, <1>3, Zenon DEF ScanBitIsCleared, EndsScan

LEMMA ScanBitKept ==
  ASSUME ScanBitIsCleared, evq' = evq, scanning => scanning',
         "SCAN" \in bits' => "SCAN" \in bits \/ scanning'
  PROVE  ScanBitIsCleared'
  BY Zenon DEF ScanBitIsCleared

LEMMA ScanBitSetMode ==
  ASSUME TypeData, ScanBitIsCleared, NEW m, SetMode(m), scanning' = scanning,
         bits' = bits
  PROVE  ScanBitIsCleared'
  <1>1. (\E e : evq' = Append(evq, e)) \/ evq' = evq
    BY DEF SetMode
  <1>2. scanning => scanning'
    BY Zenon
  <1>3. "SCAN" \in bits' => "SCAN" \in bits
    BY Zenon
  <1> QED
    BY <1>1, <1>2, <1>3, ScanBitPost, ScanBitKept, Zenon

\* The manager task sets the bit only together with a scan, and takes no event.
LEMMA ScanBitManager ==
  ASSUME TypeData, ScanBitIsCleared, Manager
  PROVE  ScanBitIsCleared'
  <1> DEFINE Drops == evq' = evq /\ scanning' = scanning
                      /\ ("SCAN" \in bits' => "SCAN" \in bits)
  <1> USE DEF mgr, driver, web
  <1>k. ASSUME Drops PROVE ScanBitIsCleared'
    BY <1>k, ScanBitKept, Zenon
  <1>1. CASE ScanDone
    BY <1>1, <1>k, Zenon DEF ScanDone
  <1>2. CASE StartWifiScan
    <2>1. evq' = evq /\ (scanning' = TRUE \/ UNCHANGED <<bits, scanning>>)
      BY <1>2, Zenon DEF StartWifiScan
    <2>2. CASE scanning' = TRUE
      BY <2>2, Zenon DEF ScanBitIsCleared
    <2>3. CASE UNCHANGED <<bits, scanning>>
      BY <2>1, <2>3, <1>k, Zenon
    <2> QED
      BY <2>1, <2>2, <2>3
  <1>3. CASE LoadAndRestoreSta
    BY <1>3, <1>k, Zenon DEF LoadAndRestoreSta
  <1>4. CASE LoadAndRestoreStaRest
    BY <1>4, ScanBitSetMode, Zenon DEF LoadAndRestoreStaRest
  <1>5. CASE ManagerSend
    BY <1>5, <1>k, Zenon DEF ManagerSend
  <1>6. ASSUME NEW r \in {"CONNECT_USER", "CONNECT_AUTO", "CONNECT_RESTORE"},
               ConnectSta(r)
        PROVE  ScanBitIsCleared'
    <2>1. evq' = evq /\ scanning' = scanning
      BY <1>6, Zenon DEF ConnectSta
    <2>2. "SCAN" \in bits' => "SCAN" \in bits
      BY <1>6, SMT DEF ConnectSta, RequestBit
    <2> QED
      BY <2>1, <2>2, <1>k
  <1>7. CASE DisconnectSta
    <2>1. evq' = evq /\ scanning' = scanning
      BY <1>7, Zenon DEF DisconnectSta
    <2>2. "SCAN" \in bits' => "SCAN" \in bits
      BY <1>7, SMT DEF DisconnectSta
    <2> QED
      BY <2>1, <2>2, <1>k
  <1>8. CASE StaDisconnected
    BY <1>8, <1>k, Zenon DEF StaDisconnected
  <1>9. CASE StaDisconnectedFailed
    BY <1>9, <1>k, Zenon DEF StaDisconnectedFailed
  <1>10. CASE StaDisconnectedByUser
    BY <1>10, <1>k, Zenon DEF StaDisconnectedByUser
  <1>11. CASE StaDisconnectedLost
    BY <1>11, <1>k, Zenon DEF StaDisconnectedLost
  <1>12. CASE StaGotIp
    BY <1>12, <1>k, Zenon DEF StaGotIp
  <1>13. CASE StartAp
    BY <1>13, ScanBitSetMode, Zenon DEF StartAp
  <1>14. CASE StopAp
    <2>1. scanning' = scanning /\ bits' = bits /\ (SetMode("sta") \/ evq' = evq)
      BY <1>14, Zenon DEF StopAp
    <2> QED
      BY <2>1, <1>k, ScanBitSetMode, Zenon
  <1>15. CASE HttpClientInit
    BY <1>15, <1>k, Zenon DEF HttpClientInit
  <1>16. CASE HttpdStopped
    BY <1>16, <1>k, Zenon DEF HttpdStopped
  <1>17. CASE HttpdRequest
    BY <1>17, <1>k, Zenon DEF HttpdRequest
  <1>18. CASE HttpdRequestDone
    BY <1>18, <1>k, Zenon DEF HttpdRequestDone
  <1> QED
    BY <1>1, <1>2, <1>3, <1>4, <1>5, <1>6, <1>7, <1>8, <1>9, <1>10, <1>11,
       <1>12, <1>13, <1>14, <1>15, <1>16, <1>17, <1>18 DEF Manager

\* The driver ends a scan only with an event, and the event task clears the bit
\* when it takes that event.
LEMMA ScanBitOthers ==
  ASSUME TypeData, ScanBitIsCleared, Others
  PROVE  ScanBitIsCleared'
  <1> USE DEF mgr, driver, web
  <1>k. ASSUME evq' = evq, scanning' = scanning,
               "SCAN" \in bits' => "SCAN" \in bits
        PROVE  ScanBitIsCleared'
    BY <1>k, ScanBitKept, Zenon
  <1>1. CASE EventHandler
    <2> DEFINE e == Head(evq)
    <2>1. /\ evq # << >> /\ evq' = Tail(evq) /\ scanning' = scanning
          /\ bits' = BitsAfter(bits, e)
      BY <1>1, Zenon DEF EventHandler
    <2>2. e = evq[1] /\ evq \in Seq(DriverEvents)
      BY <2>1 DEF TypeData
    <2> HIDE DEF e
    <2>3. CASE e \in EndsScan
      <3>1. "SCAN" \notin bits'
        BY <2>1, <2>3 DEF EndsScan, BitsAfter
      <3> QED
        BY <3>1, Zenon DEF ScanBitIsCleared
    <2>4. CASE e \notin EndsScan
      <3>1. "SCAN" \in bits' => "SCAN" \in bits
        BY <2>1, <2>4 DEF EndsScan, BitsAfter
      <3>2. ASSUME NEW i \in 1..Len(evq), evq[i] \in EndsScan
            PROVE  \E j \in 1..Len(evq') : evq'[j] \in EndsScan
        <4>1. i # 1
          BY <2>2, <2>4, <3>2
        <4>2. i - 1 \in 1..Len(evq') /\ evq'[i - 1] = evq[i]
          BY <2>1, <2>2, <4>1
        <4> QED
          BY <3>2, <4>2
      <3> QED
        BY <2>1, <3>1, <3>2, Zenon DEF ScanBitIsCleared, EndsScan
    <2> QED
      BY <2>3, <2>4
  <1>2. CASE EventSend
    BY <1>2, <1>k, Zenon DEF EventSend
  <1>3. CASE TimerRetry
    BY <1>3, <1>k, Zenon DEF TimerRetry
  <1>4. CASE TimerRetrySend
    BY <1>4, <1>k, Zenon DEF TimerRetrySend
  <1>5. CASE GetApJsonSent
    BY <1>5, <1>k, Zenon DEF GetApJsonSent
  <1>6. CASE ScanAsync
    BY <1>6, <1>k, Zenon DEF ScanAsync
  <1>7. CASE ConnectAsync
    BY <1>7, <1>k, Zenon DEF ConnectAsync
  <1>8. CASE GetApJson
    BY <1>8, <1>k, Zenon DEF GetApJson
  <1>9. CASE GetConnect
    <2>1. evq' = evq /\ scanning' = scanning
      BY <1>9, Zenon DEF GetConnect
    <2>2. "SCAN" \in bits' => "SCAN" \in bits
      BY <1>9, SMT DEF GetConnect
    <2> QED
      BY <2>1, <2>2, <1>k
  <1>10. CASE PostWifiSetup
    BY <1>10, <1>k, Zenon DEF PostWifiSetup
  <1>11. ASSUME NEW m \in Orders, AppSend(m) PROVE ScanBitIsCleared'
    BY <1>11, <1>k, Zenon DEF AppSend
  <1>12. CASE DriverJoined
    BY <1>12, ScanBitPost, Zenon DEF DriverJoined, Post
  <1>13. CASE Disconnected
    BY <1>13, ScanBitPost, Zenon DEF Disconnected, Post, EndsScan
  <1>14. CASE DriverScanDone
    BY <1>14, ScanBitPost, Zenon DEF DriverScanDone, Post, EndsScan
  <1>15. CASE Restart
    BY <1>15, Zenon DEF Restart, ScanBitIsCleared
  <1> QED
    BY <1>1, <1>2, <1>3, <1>4, <1>5, <1>6, <1>7, <1>8, <1>9,
       <1>10, <1>11, <1>12, <1>13, <1>14, <1>15
       DEF Others, Httpd, Client, Driver, DriverJoinFails, DriverLeaves,
           DriverLosesLink

\* The scan bit, which makes scan orders be ignored, is never set for good: a
\* scan is running, or an event that clears the bit waits for the event task.
THEOREM ScanBitCorrect == Spec => []ScanBitIsCleared
  <1>1. Init => ScanBitIsCleared
    BY Zenon DEF Init, InitWith, ScanBitIsCleared
  <1>2. TypeOK /\ ScanBitIsCleared /\ [Next]_vars => ScanBitIsCleared'
    <2> SUFFICES ASSUME TypeData, ScanBitIsCleared, [Next]_vars
                 PROVE  ScanBitIsCleared'
      BY DEF TypeOK
    <2>1. CASE Manager
      BY <2>1, ScanBitManager
    <2>2. CASE Others
      BY <2>2, ScanBitOthers
    <2>3. CASE UNCHANGED vars
      BY <2>3, ScanBitKept, Zenon DEF vars, driver
    <2> QED
      BY <2>1, <2>2, <2>3, NextSplit
  <1> QED
    BY <1>1, <1>2, TypeCorrect, PTL DEF Spec
=============================================================================
