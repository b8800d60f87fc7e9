---------------------------- MODULE WifiManager ----------------------------
(***************************************************************************)
(* The connection manager of manager.c: one task that takes orders and     *)
(* events from a short FreeRTOS queue, and the four other contexts that    *)
(* feed that queue with blocking sends:                                    *)
(*                                                                         *)
(*   the event task    runs wifi_manager_event_handler                     *)
(*   the timer task    runs wifi_manager_timer_retry_cb                    *)
(*   the httpd task    GET /ap.json, GET /connect, POST /wifi_setup        *)
(*   other app tasks   call the public wifi_manager_send_message           *)
(*                                                                         *)
(* A handler of the manager task is one action up to the next point where  *)
(* the code can block (a send to the queue, the json mutex, httpd_stop) and *)
(* one more action for what follows it.  The WiFi driver, the event loop   *)
(* and the FreeRTOS timer are external: the Driver* actions are all they   *)
(* may do as far as the calls of manager.c depend on it.                   *)
(***************************************************************************)
EXTENDS Naturals, Sequences

CONSTANTS
    QueueLen,   \* length given to xQueueCreate (3 in the code)
    MaxRetry,   \* WIFI_MANAGER_MAX_RETRY_START_AP
    EvLen,      \* bound on the events waiting in the default event loop
    Requests,   \* the http requests clients issue
    Orders,     \* the messages other tasks send through the public API
    Restarts    \* may the device restart (esp_restart, a failed ESP_ERROR_CHECK)

ASSUME QueueLenAssumption == QueueLen \in Nat \ {0}
ASSUME MaxRetryAssumption == MaxRetry \in Nat \ {0}
ASSUME EvLenAssumption    == EvLen \in Nat \ {0}
ASSUME RequestsAssumption == Requests \subseteq {"ap.json", "connect", "wifi_setup"}
ASSUME OrdersAssumption   ==
    Orders \subseteq {"DISCONNECT_STA", "CONNECT_USER", "STOP_AP", "HTTPD_REQUEST"}
ASSUME RestartsAssumption == Restarts \in BOOLEAN

VARIABLES
    queue,      \* wifi_manager_queue
    mpc,        \* where the manager task is
    msg,        \* the message it is handling
    out,        \* the message it is about to send to its own queue
    ux,         \* uxBits, the copy of the event bits taken by the handler
    retries,    \* the local counter of failed attempts
    sta_ip,     \* is wifi_manager_sta_ip an address other than 0.0.0.0
    bits,       \* wifi_manager_event_group
    timer,      \* is wifi_manager_retry_timer active
    tick,       \* is the retry callback waiting to send
    hand,       \* the message the event task is about to send
    evq,        \* events posted by the driver, not handled yet
    mode,       \* esp_wifi_set_mode, "off" before esp_wifi_start
    link,       \* the station link as the driver knows it
    scanning,   \* is the driver scanning
    ram,        \* is wifi_manager_sta_config filled in
    drv,        \* has the driver been given a station configuration
    saved,      \* the configuration files: none, readable, or missing a key
    hpc,        \* where the httpd task is
    http,       \* httpd_handle # NULL
    dns         \* is the DNS hijack running

mgr    == <<mpc, msg, out, ux, retries, sta_ip>>
driver == <<evq, mode, link, scanning, drv>>
web    == <<hpc, http, dns>>
vars   == <<queue, mgr, bits, timer, tick, hand, driver, ram, saved, web>>

EventMessages == {"SCAN_DONE", "STA_DISCONNECTED", "STA_GOT_IP"}
Messages == EventMessages \cup
    {"START_WIFI_SCAN", "LOAD_AND_RESTORE_STA", "CONNECT_USER",
     "CONNECT_AUTO", "CONNECT_RESTORE", "DISCONNECT_STA", "START_AP",
     "STOP_AP", "HTTP_CLIENT_INIT", "HTTPD_REQUEST"}
DriverEvents == EventMessages \cup {"AP_START", "AP_STOP"}
Bits == {"WIFI_CONNECTED", "AP_STARTED", "REQUEST_STA_CONNECT",
         "REQUEST_RESTORE_STA", "REQUEST_DISCONNECT", "SCAN", "CONFIGURE_MODE"}

(***************************************************************************)
(* The queue.  Every sender in the repository uses portMAX_DELAY: a send   *)
(* is an action that is enabled when there is room.                        *)
(***************************************************************************)
\* Mutated form of SendTo: wifi_manager_send_message_to_front.
SendToFront(q, m) == <<m>> \o q

SendTo(q, m) == Append(q, m)

Send(m) == /\ Len(queue) < QueueLen
           /\ queue' = SendTo(queue, m)

Receive(m) == /\ mpc = "receive"
              /\ queue # << >>
              /\ Head(queue) = m
              /\ queue' = Tail(queue)

(***************************************************************************)
(* The state at the end of wifi_manager_start and of the first part of the *)
(* task: http server up, AP mode not started, first order enqueued.        *)
(***************************************************************************)
InitWith(conf) ==
    /\ queue = <<"LOAD_AND_RESTORE_STA">>
    /\ mpc = "receive" /\ msg = "NONE" /\ out = "NONE" /\ ux = {}
    /\ retries = 0 /\ sta_ip = FALSE /\ bits = {}
    /\ timer = FALSE /\ tick = FALSE /\ hand = "NONE"
    /\ evq = << >> /\ mode = "off"
    /\ link = "down" /\ scanning = FALSE
    /\ ram = FALSE /\ drv = FALSE /\ saved = conf
    /\ hpc = "idle" /\ http = TRUE /\ dns = FALSE

Init == \E conf \in {"none", "good"} : InitWith(conf)

\* esp_restart: everything but the files is lost.
Restart ==
    /\ Restarts
    /\ queue' = <<"LOAD_AND_RESTORE_STA">>
    /\ mpc' = "receive" /\ msg' = "NONE" /\ out' = "NONE" /\ ux' = {}
    /\ retries' = 0 /\ sta_ip' = FALSE /\ bits' = {}
    /\ timer' = FALSE /\ tick' = FALSE /\ hand' = "NONE"
    /\ evq' = << >> /\ mode' = "off"
    /\ link' = "down" /\ scanning' = FALSE
    /\ ram' = FALSE /\ drv' = FALSE /\ saved' = saved
    /\ hpc' = "idle" /\ http' = TRUE /\ dns' = FALSE

----------------------------------------------------------------------------
(***************************************************************************)
(* The calls that change the mode return once the driver has switched, its *)
(* event posted.  The soft AP runs exactly in mode "apsta".                *)
(***************************************************************************)
apUp == mode = "apsta"

SetMode(m) ==
    /\ mode' = m
    /\ evq' = CASE m = "apsta" /\ ~apUp -> Append(evq, "AP_START")
                [] m = "sta" /\ apUp    -> Append(evq, "AP_STOP")
                [] OTHER                -> evq

(***************************************************************************)
(* The manager task.                                                       *)
(***************************************************************************)
\* The access point list is rebuilt under the json mutex, or left alone when
\* the mutex cannot be had for a second or the scan failed.
ScanDone == /\ Receive("SCAN_DONE")
            /\ UNCHANGED <<mgr, bits, timer, tick, hand, driver, ram, saved, web>>

MayScan(b) == "SCAN" \notin b

StartWifiScan ==
    /\ Receive("START_WIFI_SCAN")
    /\ \/ MayScan(bits) /\ bits' = bits \cup {"SCAN"} /\ scanning' = TRUE
       \/ ~MayScan(bits) /\ UNCHANGED <<bits, scanning>>
    /\ UNCHANGED <<mgr, timer, tick, hand, evq, mode, link, drv,
                   ram, saved, web>>

\* What wifi_manager_fetch_wifi_sta_config may answer.  A key missing from a
\* file erases every file; the fetch then fails on the next file it reads,
\* unless the key was missing from the last one.
FetchResults(conf) == CASE conf = "none" -> {FALSE}
                        [] conf = "good" -> {TRUE}
                        [] OTHER         -> {TRUE, FALSE}

AfterFetch(ok) == IF ok THEN "CONNECT_RESTORE" ELSE "START_AP"

LoadAndRestoreSta ==
    /\ Receive("LOAD_AND_RESTORE_STA")
    /\ \E ok \in FetchResults(saved) :
          /\ out' = AfterFetch(ok)
          /\ ram' = (ram \/ ok)
    /\ saved' = IF saved = "bad" THEN "none" ELSE saved
    /\ mpc' = "send" /\ msg' = "LOAD_AND_RESTORE_STA"
    /\ UNCHANGED <<ux, retries, sta_ip, bits, timer, tick, hand, driver, web>>

\* The driver is set up after the order to connect has been sent.
LoadAndRestoreStaRest ==
    /\ mpc = "load"
    /\ SetMode("sta") /\ drv' = ram
    /\ mpc' = "receive" /\ msg' = "NONE"
    /\ UNCHANGED <<queue, out, ux, retries, sta_ip, bits, timer, tick, hand,
                   link, scanning, ram, saved, web>>

\* wifi_manager_send_message called by the manager task itself.
ManagerSend ==
    /\ mpc = "send"
    /\ Send(out)
    /\ out' = "NONE"
    /\ IF msg = "LOAD_AND_RESTORE_STA"
       THEN mpc' = "load" /\ msg' = msg
       ELSE mpc' = "receive" /\ msg' = "NONE"
    /\ UNCHANGED <<ux, retries, sta_ip, bits, timer, tick, hand, driver, ram,
                   saved, web>>

RequestBit(reason) ==
    CASE reason = "CONNECT_USER"    -> {"REQUEST_STA_CONNECT"}
      [] reason = "CONNECT_RESTORE" -> {"REQUEST_RESTORE_STA"}
      [] OTHER                      -> {}

ConnectSta(reason) ==
    /\ Receive(reason)
    /\ bits' = bits \cup RequestBit(reason)
    /\ link' = IF "WIFI_CONNECTED" \notin bits /\ link = "down"
               THEN "joining" ELSE link
    /\ UNCHANGED <<mgr, timer, tick, hand, evq, mode, scanning, drv,
                   ram, saved, web>>

DisconnectSta ==
    /\ Receive("DISCONNECT_STA")
    /\ bits' = bits \cup {"REQUEST_DISCONNECT"}
    /\ link' = IF link \in {"joining", "up"} THEN "leaving" ELSE link
    /\ UNCHANGED <<mgr, timer, tick, hand, evq, mode, scanning, drv,
                   ram, saved, web>>

\* Which of the three branches of WM_EVENT_STA_DISCONNECTED the copied bits
\* select.
DisconnectCause(b) ==
    CASE "REQUEST_STA_CONNECT" \in b -> "failed attempt"
      [] "REQUEST_STA_CONNECT" \notin b /\ "REQUEST_DISCONNECT" \in b
                                     -> "user disconnect"
      [] OTHER                       -> "lost connection"

ConsumedRequest(cause) ==
    CASE cause = "failed attempt"  -> {"REQUEST_STA_CONNECT"}
      [] cause = "user disconnect" -> {"REQUEST_DISCONNECT"}
      [] OTHER                     -> {}

\* Mutated form of AddressAfter: the address string is not reset.
AddressKept(ip) == ip

AddressAfter(ip) == FALSE

\* Mutated form of RamAfter: a lost connection clears it too.
RamOnlyWhenFailed(r, cause) == r /\ cause = "failed attempt"

\* memset of wifi_manager_sta_config.
RamAfter(r, cause) == r /\ cause # "user disconnect"

\* Up to the wait for the json mutex.
StaDisconnected ==
    /\ Receive("STA_DISCONNECTED")
    /\ sta_ip' = AddressAfter(sta_ip)
    /\ ux' = bits
    /\ bits' = bits \ ConsumedRequest(DisconnectCause(bits))
    /\ ram' = RamAfter(ram, DisconnectCause(bits))
    /\ mpc' = "json" /\ msg' = "STA_DISCONNECTED"
    /\ UNCHANGED <<out, retries, timer, tick, hand, driver, saved, web>>

\* The json mutex is held across a blocking call only by GET /ap.json.
JsonMutexFree == hpc # "ap.json"

\* Mutated form of BelowMaxRetry: one attempt too many.
UpToMaxRetry(n) == n <= MaxRetry

BelowMaxRetry(n) == n < MaxRetry

\* Mutated form of CountsRetry: failures are never counted.
NeverCounts(b) == FALSE

CountsRetry(b) == "AP_STARTED" \notin b \/ "CONFIGURE_MODE" \in b

\* Mutated form of RetryTimerAfter: the timer is not started.
RetryTimerKept(t, n) == t

RetryTimerAfter(t, n) == t \/ BelowMaxRetry(n)

ToReceive == mpc' = "receive" /\ msg' = "NONE" /\ ux' = {}

StaDisconnectedFailed ==
    /\ mpc = "json" /\ msg = "STA_DISCONNECTED" /\ JsonMutexFree
    /\ DisconnectCause(ux) = "failed attempt"
    /\ ToReceive
    /\ UNCHANGED <<queue, out, retries, sta_ip, bits, timer, tick, hand,
                   driver, ram, saved, web>>

StaDisconnectedByUser ==
    /\ mpc = "json" /\ msg = "STA_DISCONNECTED" /\ JsonMutexFree
    /\ DisconnectCause(ux) = "user disconnect"
    /\ out' = "START_AP" /\ mpc' = "send" /\ msg' = msg /\ ux' = {}
    /\ UNCHANGED <<queue, retries, sta_ip, bits, timer, tick, hand, driver,
                   ram, saved, web>>

StaDisconnectedLost ==
    /\ mpc = "json" /\ msg = "STA_DISCONNECTED" /\ JsonMutexFree
    /\ DisconnectCause(ux) = "lost connection"
    /\ timer' = RetryTimerAfter(timer, retries)
    /\ IF CountsRetry(ux) /\ ~BelowMaxRetry(retries)
       THEN /\ retries' = 0
            /\ bits' = bits \ {"REQUEST_RESTORE_STA", "CONFIGURE_MODE"}
            /\ out' = "START_AP" /\ mpc' = "send" /\ msg' = msg /\ ux' = {}
       ELSE /\ retries' = IF CountsRetry(ux) THEN retries + 1 ELSE retries
            /\ bits' = bits \ {"REQUEST_RESTORE_STA"}
            /\ out' = out /\ ToReceive
    /\ UNCHANGED <<queue, sta_ip, tick, hand, driver, ram, saved, web>>

\* Mutated form of RetriesAfterGotIp: the counter survives a success.
RetriesKept(n) == n

RetriesAfterGotIp(n) == 0

StaGotIp ==
    /\ Receive("STA_GOT_IP")
    /\ bits' = bits \ {"REQUEST_STA_CONNECT", "REQUEST_RESTORE_STA"}
    /\ sta_ip' = TRUE
    /\ retries' = RetriesAfterGotIp(retries)
    /\ out' = "HTTP_CLIENT_INIT" /\ mpc' = "send" /\ msg' = "STA_GOT_IP"
    /\ UNCHANGED <<ux, timer, tick, hand, driver, ram, saved, web>>

StartAp ==
    /\ Receive("START_AP")
    /\ SetMode("apsta")
    /\ mpc' = "httpd_stop" /\ msg' = "START_AP"
    /\ UNCHANGED <<out, ux, retries, sta_ip, bits, timer, tick, hand,
                   link, scanning, drv, ram, saved, web>>

StopAp ==
    /\ Receive("STOP_AP")
    /\ \/ /\ "WIFI_CONNECTED" \in bits
          /\ SetMode("sta") /\ dns' = FALSE
          /\ mpc' = "httpd_stop" /\ msg' = "STOP_AP"
       \/ /\ "WIFI_CONNECTED" \notin bits
          /\ UNCHANGED <<mode, evq, dns, mpc, msg>>
    /\ UNCHANGED <<out, ux, retries, sta_ip, bits, timer, tick, hand,
                   link, scanning, drv, ram, saved, hpc, http>>

HttpClientInit ==
    /\ Receive("HTTP_CLIENT_INIT")
    /\ dns' = FALSE
    /\ mpc' = "httpd_stop" /\ msg' = "HTTP_CLIENT_INIT"
    /\ UNCHANGED <<out, ux, retries, sta_ip, bits, timer, tick, hand, driver,
                   ram, saved, hpc, http>>

\* Mutated form of ServerAfter: START_AP stops the server and leaves it so.
ServerStopped(m) == FALSE

ServerAfter(m) == m # "HTTP_CLIENT_INIT"

\* httpd_stop returns once the httpd task has left its handler.
HttpdStopped ==
    /\ mpc = "httpd_stop"
    /\ http => hpc = "idle"
    /\ http' = ServerAfter(msg)
    /\ dns' = (dns \/ msg = "START_AP")
    /\ ToReceive
    /\ UNCHANGED <<queue, out, retries, sta_ip, bits, timer, tick, hand,
                   driver, ram, saved, hpc>>

HttpdRequest ==
    /\ Receive("HTTPD_REQUEST")
    /\ mpc' = "json" /\ msg' = "HTTPD_REQUEST"
    /\ UNCHANGED <<out, ux, retries, sta_ip, bits, timer, tick, hand, driver,
                   ram, saved, web>>

HttpdRequestDone ==
    /\ mpc = "json" /\ msg = "HTTPD_REQUEST" /\ JsonMutexFree
    /\ ToReceive
    /\ UNCHANGED <<queue, out, retries, sta_ip, bits, timer, tick, hand,
                   driver, ram, saved, web>>

Manager ==
    \/ ScanDone \/ StartWifiScan
    \/ LoadAndRestoreSta \/ LoadAndRestoreStaRest \/ ManagerSend
    \/ \E r \in {"CONNECT_USER", "CONNECT_AUTO", "CONNECT_RESTORE"} : ConnectSta(r)
    \/ DisconnectSta \/ StaDisconnected \/ StaDisconnectedFailed
    \/ StaDisconnectedByUser \/ StaDisconnectedLost \/ StaGotIp
    \/ StartAp \/ StopAp \/ HttpClientInit \/ HttpdStopped
    \/ HttpdRequest \/ HttpdRequestDone

----------------------------------------------------------------------------
(***************************************************************************)
(* The event task: wifi_manager_event_handler changes the bits and then    *)
(* sends, blocking, before it looks at the next event.                     *)
(***************************************************************************)
\* Mutated form of BitsAfter: a lost link leaves a scan marked as running.
BitsAfterKeepScan(b, e) ==
    CASE e = "SCAN_DONE"        -> b \ {"SCAN"}
      [] e = "STA_DISCONNECTED" -> b \ {"WIFI_CONNECTED"}
      [] e = "STA_GOT_IP"       -> b \cup {"WIFI_CONNECTED"}
      [] e = "AP_START"         -> b \cup {"AP_STARTED"}
      [] OTHER                  -> b \ {"AP_STARTED"}

BitsAfter(b, e) ==
    CASE e = "SCAN_DONE"        -> b \ {"SCAN"}
      [] e = "STA_DISCONNECTED" -> b \ {"WIFI_CONNECTED", "SCAN"}
      [] e = "STA_GOT_IP"       -> b \cup {"WIFI_CONNECTED"}
      [] e = "AP_START"         -> b \cup {"AP_STARTED"}
      [] OTHER                  -> b \ {"AP_STARTED"}

EventHandler ==
    /\ hand = "NONE" /\ evq # << >>
    /\ evq' = Tail(evq)
    /\ bits' = BitsAfter(bits, Head(evq))
    /\ hand' = IF Head(evq) \in EventMessages THEN Head(evq) ELSE "NONE"
    /\ UNCHANGED <<queue, mgr, timer, tick, mode, link, scanning, drv,
                   ram, saved, web>>

EventSend ==
    /\ hand # "NONE"
    /\ Send(hand)
    /\ hand' = "NONE"
    /\ UNCHANGED <<mgr, bits, timer, tick, driver, ram, saved, web>>

(***************************************************************************)
(* The timer task: the callback stops the timer and sends, blocking.       *)
(***************************************************************************)
TimerAfterTick(t) == FALSE

TimerRetry ==
    /\ timer /\ ~tick
    /\ timer' = TimerAfterTick(timer) /\ tick' = TRUE
    /\ UNCHANGED <<queue, mgr, bits, hand, driver, ram, saved, web>>

TimerRetrySend ==
    /\ tick
    /\ Send("CONNECT_AUTO")
    /\ tick' = FALSE
    /\ UNCHANGED <<mgr, bits, timer, hand, driver, ram, saved, web>>

(***************************************************************************)
(* The httpd task, one request at a time.  A client reaches the server     *)
(* through the soft AP or through the station link.                        *)
(***************************************************************************)
Reaches(r) == /\ r \in Requests /\ http /\ hpc = "idle" /\ mpc # "httpd_stop"
              /\ apUp \/ link = "up"

\* The list is sent with the json mutex held, then a scan is requested.
GetApJson ==
    /\ Reaches("ap.json")
    /\ hpc' = "ap.json"
    /\ UNCHANGED <<queue, mgr, bits, timer, tick, hand, driver, ram, saved,
                   http, dns>>

GetApJsonSent ==
    /\ hpc = "ap.json"
    /\ hpc' = "scan"
    /\ UNCHANGED <<queue, mgr, bits, timer, tick, hand, driver, ram, saved,
                   http, dns>>

ScanAsync ==
    /\ hpc = "scan"
    /\ Send("START_WIFI_SCAN")
    /\ hpc' = "idle"
    /\ UNCHANGED <<mgr, bits, timer, tick, hand, driver, ram, saved, http, dns>>

GetConnect ==
    /\ Reaches("connect")
    /\ bits' = bits \cup {"CONFIGURE_MODE"}
    /\ hpc' = "connect"
    /\ UNCHANGED <<queue, mgr, timer, tick, hand, driver, ram, saved, http, dns>>

ConnectAsync ==
    /\ hpc = "connect"
    /\ Send("LOAD_AND_RESTORE_STA")
    /\ hpc' = "idle"
    /\ UNCHANGED <<mgr, bits, timer, tick, hand, driver, ram, saved, http, dns>>

\* The body is stored as it comes; whether it parses shows at the next load.
PostWifiSetup ==
    /\ Reaches("wifi_setup")
    /\ saved' \in {"good", "bad"}
    /\ UNCHANGED <<queue, mgr, bits, timer, tick, hand, driver, ram, web>>

AppSend(m) ==
    /\ Send(m)
    /\ UNCHANGED <<mgr, bits, timer, tick, hand, driver, ram, saved, web>>

Httpd == GetApJsonSent \/ ScanAsync \/ ConnectAsync
Client == GetApJson \/ GetConnect \/ PostWifiSetup

----------------------------------------------------------------------------
(***************************************************************************)
(* The driver (external).  A dropped link ends a running scan without      *)
(* SCAN_DONE (comment at manager.c:449).                                   *)
(***************************************************************************)
Post(e) == Len(evq) < EvLen /\ evq' = Append(evq, e)

DriverJoined ==
    /\ link = "joining" /\ drv
    /\ Post("STA_GOT_IP")
    /\ link' = "up"
    /\ UNCHANGED <<queue, mgr, bits, timer, tick, hand, mode, scanning,
                   drv, ram, saved, web>>

Disconnected ==
    /\ Post("STA_DISCONNECTED")
    /\ link' = "down"
    /\ scanning' = FALSE
    /\ UNCHANGED <<queue, mgr, bits, timer, tick, hand, mode, drv, ram,
                   saved, web>>

DriverJoinFails == link = "joining" /\ Disconnected
DriverLeaves    == link = "leaving" /\ Disconnected
DriverLosesLink == link = "up" /\ Disconnected

DriverScanDone ==
    /\ scanning
    /\ Post("SCAN_DONE")
    /\ scanning' = FALSE
    /\ UNCHANGED <<queue, mgr, bits, timer, tick, hand, mode, link, drv,
                   ram, saved, web>>

Driver == \/ DriverJoined \/ DriverJoinFails \/ DriverLeaves \/ DriverLosesLink
          \/ DriverScanDone

Next == \/ Manager \/ EventHandler \/ EventSend
        \/ TimerRetry \/ TimerRetrySend \/ Httpd \/ Client
        \/ \E m \in Orders : AppSend(m)
        \/ Driver \/ Restart

Spec == Init /\ [][Next]_vars

(***************************************************************************)
(* Every task runs when it can, the retry timer expires, and the driver    *)
(* decides an attempt and answers a disconnect.  That a link which is up   *)
(* stays up or drops, and that clients act, is not assumed.                *)
(***************************************************************************)
Fairness ==
    /\ WF_vars(Manager)
    /\ WF_vars(EventHandler) /\ WF_vars(EventSend)
    /\ WF_vars(TimerRetry) /\ WF_vars(TimerRetrySend)
    /\ WF_vars(Httpd)
    /\ WF_vars(DriverJoined \/ DriverJoinFails) /\ WF_vars(DriverLeaves)
    /\ WF_vars(DriverScanDone)

FairSpec == Spec /\ Fairness

----------------------------------------------------------------------------
(***************************************************************************)
(* Properties.                                                             *)
(***************************************************************************)
\* What the manager task sends to itself.
OwnOrders == {"CONNECT_RESTORE", "START_AP", "HTTP_CLIENT_INIT"}

TypeData ==
    /\ queue \in Seq(Messages) /\ Len(queue) <= QueueLen
    /\ mpc \in {"receive", "json", "send", "load", "httpd_stop"}
    /\ msg \in Messages \cup {"NONE"} /\ out \in Messages \cup {"NONE"}
    /\ mpc = "send" => out \in OwnOrders
    /\ ux \subseteq Bits /\ bits \subseteq Bits
    /\ retries \in 0..MaxRetry
    /\ hand \in EventMessages \cup {"NONE"}
    /\ evq \in Seq(DriverEvents)
    /\ mode \in {"off", "sta", "apsta"}
    /\ link \in {"down", "joining", "up", "leaving"}
    /\ saved \in {"none", "good", "bad"}
    /\ hpc \in {"idle", "ap.json", "scan", "connect"}

TypeFlags ==
    /\ sta_ip \in BOOLEAN /\ timer \in BOOLEAN /\ tick \in BOOLEAN
    /\ scanning \in BOOLEAN /\ ram \in BOOLEAN /\ drv \in BOOLEAN
    /\ http \in BOOLEAN /\ dns \in BOOLEAN

\* Every variable stays in its range: the queue within its length, the retry
\* counter within its maximum, and a message in hand whenever one is sent.
TypeOK == TypeData /\ TypeFlags

LinkMessages == {"STA_DISCONNECTED", "STA_GOT_IP"}
Connected == "WIFI_CONNECTED" \in bits

\* The event group is changed by the event task and the address string by the
\* manager, each at its own time.  Whatever happens in between, the newest link
\* message still on its way says what the bit says, and when none is on its
\* way the address string agrees with the bit.
LinkInHand == hand \in LinkMessages => (Connected <=> hand = "STA_GOT_IP")
LinkInQueue ==
    hand \notin LinkMessages =>
        \A i \in 1..Len(queue) :
            /\ queue[i] \in LinkMessages
            /\ \A j \in (i+1)..Len(queue) : queue[j] \notin LinkMessages
            => (Connected <=> queue[i] = "STA_GOT_IP")
LinkSettled ==
    /\ hand \notin LinkMessages
    /\ \A i \in 1..Len(queue) : queue[i] \notin LinkMessages
    => (Connected <=> sta_ip)
LinkViewConsistent == LinkInHand /\ LinkInQueue /\ LinkSettled

\* Nothing is left to happen by itself: no message, event or timer pending.
Quiescent == /\ mpc = "receive" /\ queue = << >> /\ hpc = "idle"
             /\ hand = "NONE" /\ evq = << >> /\ ~timer /\ ~tick

Portal == apUp /\ http /\ dns

\* The device does not come to rest out of reach: when nothing is pending, the
\* station is linked or being linked, or the configuration portal is served.
\* There is one way to rest so: the counter is at its maximum, so the
\* timer is not started, while AP_STARTED keeps the threshold branch, which
\* would reset the counter and open the portal, from being taken.
StrandedOnlyWithApStarted ==
    Quiescent /\ link = "down" /\ ~Portal =>
        retries = MaxRetry /\ apUp /\ "CONFIGURE_MODE" \notin bits

\* The scan bit, which makes further scan orders be ignored, is never left
\* set without something under way that clears it (comment at manager.c:449).
ScanBitIsCleared ==
    "SCAN" \in bits =>
        \/ scanning
        \/ \E i \in 1..Len(evq) : evq[i] \in {"SCAN_DONE", "STA_DISCONNECTED"}

\* The manager task never waits for room in the queue that it alone empties:
\* an order put in the queue "will be process in the main task thread"
\* (manager.h:268).
OwnQueueHasRoom == mpc = "send" => Len(queue) < QueueLen

\* A station that is down is linked again or the portal is served.
LinkDownIsResolved == link = "down" ~> (link = "up" \/ Portal)
=============================================================================
