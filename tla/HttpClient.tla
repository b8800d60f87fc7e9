----------------------------- MODULE HttpClient -----------------------------
(***************************************************************************)
(* The http client of http_client.c.  An order task connects and closes    *)
(* the one esp_http_client handle, a send task performs requests with the  *)
(* same handle, and both run http_client_handler when the library raises   *)
(* an event.  The WiFi manager task switches the client on and off through *)
(* the callbacks registered in http_client_initialize.                     *)
(*                                                                         *)
(* The library (esp_http_client) is external: what a request returns and   *)
(* the events it raises are free, as far as this code tells them apart.    *)
(***************************************************************************)
EXTENDS Naturals, Sequences

CONSTANTS
    OrderLen,       \* length of http_client_order_queue (4)
    SendLen,        \* length of http_client_send_queue (4)
    MaxError,       \* CONFIG_HTTP_CLIENT_MAX_ERROR
    MaxTryConnect,  \* CONFIG_HTTP_CLIENT_MAX_TRY_CONNECT
    MaxTrySend,     \* CONFIG_HTTP_CLIENT_MAX_TRY_SEND
    UseOta          \* CONFIG_USE_OTA

ASSUME OrderLenAssumption == OrderLen \in Nat \ {0}
ASSUME SendLenAssumption  == SendLen \in Nat \ {0}
ASSUME LimitsAssumption   ==
    /\ MaxError \in Nat \ {0} /\ MaxTryConnect \in Nat /\ MaxTrySend \in Nat
    /\ MaxError <= MaxTryConnect
ASSUME UseOtaAssumption   == UseOta \in BOOLEAN

VARIABLES
    wifi,       \* HC_WIFI_OK
    status,     \* HC_STATUS_OK
    ready,      \* what the last ready or not-ready callback said
    cb,         \* the callback the manager task is in
    orders,     \* http_client_order_queue
    requests,   \* how many requests http_client_send_queue holds
    apc,        \* where an application task is in http_client_send_message
    client,     \* the handle: "null" or "live"
    opc,        \* where the order task is
    spc,        \* where the send task is
    hev,        \* what http_client_handler is doing in each of the two tasks
    result,     \* what the last esp_http_client_perform of each returned
    tries,      \* try_to_send
    errors,     \* error_count
    ota         \* the firmware_upgrade task

bitsAndCalls == <<wifi, status, ready, cb>>
queues       == <<orders, requests, apc>>
tasks        == <<opc, spc, tries>>
hcvars == <<bitsAndCalls, queues, client, tasks, hev, result, errors, ota>>

Tasks == {"order", "send"}

HCInitial ==
    /\ wifi = FALSE /\ status = FALSE /\ ready = FALSE /\ cb = "none"
    /\ orders = << >> /\ requests = 0 /\ apc = "idle"
    /\ client = "null" /\ opc = "receive" /\ spc = "wait"
    /\ hev = [t \in Tasks |-> "none"] /\ result = [t \in Tasks |-> "ok"]
    /\ tries = 0 /\ errors = 0 /\ ota = "none"

SendOrder(o) == /\ Len(orders) < OrderLen
                /\ orders' = Append(orders, o)

----------------------------------------------------------------------------
(***************************************************************************)
(* The callbacks the manager task runs.  cb_wifi_connect sets the bit and  *)
(* sends an order, blocking; cb_wifi_lost tells the application, then      *)
(* clears the bit.                                                         *)
(***************************************************************************)
CbWifiConnect ==
    /\ cb = "connect"
    /\ wifi' = TRUE /\ cb' = "order"
    /\ UNCHANGED <<status, ready, queues, client, tasks, hev, result, errors, ota>>

CbWifiConnectSend ==
    /\ cb = "order"
    /\ SendOrder("CONNECT")
    /\ cb' = "none"
    /\ UNCHANGED <<wifi, status, ready, requests, apc, client, tasks, hev,
                   result, errors, ota>>

CbWifiLost ==
    /\ cb = "lost"
    /\ ready' = FALSE /\ cb' = "clear"
    /\ UNCHANGED <<wifi, status, queues, client, tasks, hev, result, errors, ota>>

CbWifiLostClear ==
    /\ cb = "clear"
    /\ wifi' = FALSE /\ cb' = "none"
    /\ UNCHANGED <<status, ready, queues, client, tasks, hev, result, errors, ota>>

Callbacks == CbWifiConnect \/ CbWifiConnectSend \/ CbWifiLost \/ CbWifiLostClear

\* The manager task enters a callback.
Calls(c) ==
    /\ cb = "none" /\ cb' = c
    /\ UNCHANGED <<wifi, status, ready, queues, client, tasks, hev, result,
                   errors, ota>>

(***************************************************************************)
(* http_client_send_message: the check of the bit, then the blocking send. *)
(***************************************************************************)
AppChecks ==
    /\ apc = "idle" /\ wifi
    /\ apc' = "send"
    /\ UNCHANGED <<bitsAndCalls, orders, requests, client, tasks, hev, result,
                   errors, ota>>

AppSends ==
    /\ apc = "send" /\ requests < SendLen
    /\ requests' = requests + 1 /\ apc' = "idle"
    /\ UNCHANGED <<bitsAndCalls, orders, client, tasks, hev, result, errors, ota>>

----------------------------------------------------------------------------
(***************************************************************************)
(* http_client_handler, in the task t that called the library.             *)
(***************************************************************************)
Goes(t, h) == hev' = [hev EXCEPT ![t] = h]

\* Mutated form of Reboots: the limit is never acted upon.
NeverReboots(e) == FALSE

Reboots(e) == e > MaxTryConnect

\* HTTP_EVENT_ERROR.
HandlerError(t) ==
    /\ hev[t] = "error"
    /\ errors' = errors + 1
    /\ Goes(t, CASE errors' = MaxError /\ wifi -> "DISCONNECT"
                 [] Reboots(errors')           -> "reboot"
                 [] OTHER                      -> "none")
    /\ UNCHANGED <<bitsAndCalls, queues, client, tasks, result, ota>>

\* http_client_send_order, once it has seen HC_WIFI_OK.
HandlerSendOrder(t) ==
    /\ hev[t] \in {"CONNECT", "DISCONNECT"}
    /\ SendOrder(hev[t])
    /\ Goes(t, "none")
    /\ UNCHANGED <<bitsAndCalls, requests, apc, client, tasks, result, errors, ota>>

\* HTTP_EVENT_DISCONNECTED: the application is told, the bit is cleared, and
\* five seconds later the order to connect again is sent.
HandlerDisconnected(t) ==
    /\ hev[t] = "disconnected"
    /\ ready' = FALSE /\ Goes(t, "clear")
    /\ UNCHANGED <<wifi, status, cb, queues, client, tasks, result, errors, ota>>

\* Mutated form of StatusAfterLoss: the bit is not cleared.
StatusKept(s) == s

StatusAfterLoss(s) == FALSE

HandlerClear(t) ==
    /\ hev[t] = "clear"
    /\ status' = StatusAfterLoss(status) /\ errors' = 0 /\ Goes(t, "delay")
    /\ UNCHANGED <<wifi, ready, cb, queues, client, tasks, result, ota>>

\* Mutated form of AfterDelay: no order to connect again.
NoReconnect(w) == "none"

AfterDelay(w) == IF w THEN "CONNECT" ELSE "none"

HandlerDelayOver(t) ==
    /\ hev[t] = "delay"
    /\ Goes(t, AfterDelay(wifi))
    /\ UNCHANGED <<bitsAndCalls, queues, client, tasks, result, errors, ota>>

\* HTTP_EVENT_ON_FINISH with a response that names a firmware file.
HandlerUpgrade(t) ==
    /\ hev[t] = "upgrade"
    /\ ready' = FALSE /\ Goes(t, "upgrade clear")
    /\ UNCHANGED <<wifi, status, cb, queues, client, tasks, result, errors, ota>>

HandlerUpgradeStarts(t) ==
    /\ hev[t] = "upgrade clear"
    /\ status' = FALSE /\ ota' = "running" /\ Goes(t, "none")
    /\ UNCHANGED <<wifi, ready, cb, queues, client, tasks, result, errors>>

Handler(t) == \/ HandlerError(t) \/ HandlerSendOrder(t) \/ HandlerDisconnected(t)
              \/ HandlerClear(t) \/ HandlerDelayOver(t)
              \/ HandlerUpgrade(t) \/ HandlerUpgradeStarts(t)

(***************************************************************************)
(* The firmware upgrade: cb_ota_finish tells the application and sets the  *)
(* bit when it fails; when it succeeds the device restarts.                *)
(***************************************************************************)
OtaFails ==
    /\ ota = "running"
    /\ ready' = TRUE /\ ota' = "failed"
    /\ UNCHANGED <<wifi, status, cb, queues, client, tasks, hev, result, errors>>

OtaFailsSetsStatus ==
    /\ ota = "failed"
    /\ status' = TRUE /\ ota' = "none"
    /\ UNCHANGED <<wifi, ready, cb, queues, client, tasks, hev, result, errors>>

----------------------------------------------------------------------------
(***************************************************************************)
(* esp_http_client_perform (external): a result, and at most one event     *)
(* that this code reacts to besides ON_CONNECTED, which resets the error   *)
(* count.  A null handle crashes the device.                               *)
(***************************************************************************)
Outcomes ==
    [res : {"ok"}, event : {"none", "disconnected"}]
      \cup [res : {"fetch", "fail"}, event : {"none", "error"}]
      \cup (IF UseOta /\ ota = "none"
            THEN {[res |-> "ok", event |-> "upgrade"]} ELSE {})

Perform(t, o) ==
    /\ client = "live" /\ hev[t] = "none"
    /\ result' = [result EXCEPT ![t] = o.res]
    /\ Goes(t, o.event)
    /\ errors' \in {errors, 0}
    /\ o.event = "error" => errors' = errors

(***************************************************************************)
(* The order task.                                                         *)
(***************************************************************************)
OrderReceive ==
    /\ opc = "receive" /\ orders # << >>
    /\ orders' = Tail(orders)
    /\ opc' = CASE Head(orders) = "DISCONNECT" /\ status -> "close"
                [] Head(orders) = "CONNECT" /\ ~status   -> "init"
                [] OTHER                                 -> "receive"
    /\ UNCHANGED <<bitsAndCalls, requests, apc, client, spc, tries, hev, result,
                   errors, ota>>

\* esp_http_client_close and esp_http_client_cleanup both close; the handle
\* is forgotten when both have returned.
OrderClose ==
    /\ opc \in {"close", "cleanup"} /\ hev["order"] = "none"
    /\ \/ Goes("order", "disconnected")
       \/ opc = "cleanup" /\ UNCHANGED hev
    /\ opc' = IF opc = "close" THEN "cleanup" ELSE "null"
    /\ UNCHANGED <<bitsAndCalls, queues, client, spc, tries, result, errors, ota>>

OrderForget ==
    /\ opc = "null" /\ hev["order"] = "none"
    /\ client' = "null" /\ opc' = "receive"
    /\ UNCHANGED <<bitsAndCalls, queues, spc, tries, hev, result, errors, ota>>

OrderInit ==
    /\ opc = "init"
    /\ client' = "live" /\ opc' = "perform"
    /\ UNCHANGED <<bitsAndCalls, queues, spc, tries, hev, result, errors, ota>>

OrderPerform(o) ==
    /\ opc = "perform" /\ Perform("order", o)
    /\ opc' = "performed"
    /\ UNCHANGED <<bitsAndCalls, queues, client, spc, tries, ota>>

\* Success ends the loop; after a failure it starts over with a new handle.
OrderPerformed ==
    /\ opc = "performed" /\ hev["order"] = "none"
    /\ \/ /\ result["order"] = "ok"
          /\ status' = TRUE /\ opc' = "ready"
       \/ /\ result["order"] # "ok"
          /\ opc' = "init" /\ UNCHANGED status
    /\ result' = [result EXCEPT !["order"] = "ok"]
    /\ UNCHANGED <<wifi, ready, cb, queues, client, spc, tries, hev, errors, ota>>

\* Mutated form of ReadyAfterConnect: the callbacks are not run.
ReadyKept(r) == r

ReadyAfterConnect(r) == TRUE

OrderReady ==
    /\ opc = "ready"
    /\ ready' = ReadyAfterConnect(ready) /\ opc' = "receive"
    /\ UNCHANGED <<wifi, status, cb, queues, client, spc, tries, hev, result,
                   errors, ota>>

OrderTask == \/ OrderReceive \/ OrderClose \/ OrderForget \/ OrderInit
             \/ (\E o \in Outcomes : OrderPerform(o))
             \/ OrderPerformed \/ OrderReady

(***************************************************************************)
(* The send task.                                                          *)
(***************************************************************************)
SendWait ==
    /\ spc = "wait" /\ status
    /\ spc' = "receive"
    /\ UNCHANGED <<bitsAndCalls, queues, client, opc, tries, hev, result, errors, ota>>

SendReceive ==
    /\ spc = "receive" /\ requests > 0
    /\ requests' = requests - 1
    /\ tries' = MaxTrySend /\ spc' = "perform"
    /\ UNCHANGED <<bitsAndCalls, orders, apc, client, opc, hev, result, errors, ota>>

SendPerform(o) ==
    /\ spc = "perform" /\ Perform("send", o)
    /\ spc' = "performed"
    /\ UNCHANGED <<bitsAndCalls, queues, client, opc, tries, ota>>

\* Mutated form of LastTry: the counter is decremented before it is tested.
LastTryPre(n) == n <= 1

LastTry(n) == n = 0

\* do ... while(try_to_send--), left when the headers were fetched.
SendPerformed ==
    /\ spc = "performed" /\ hev["send"] = "none"
    /\ \/ /\ result["send"] = "fetch" /\ ~LastTry(tries)
          /\ tries' = tries - 1 /\ spc' = "perform"
       \/ /\ result["send"] # "fetch" \/ LastTry(tries)
          /\ tries' = 0
          /\ spc' = IF result["send"] = "ok" THEN "wait" ELSE "log"
    /\ result' = [result EXCEPT !["send"] = "ok"]
    /\ UNCHANGED <<bitsAndCalls, queues, client, opc, hev, errors, ota>>

\* FLASH_LOGE of the failed request.
SendLogs ==
    /\ spc = "log"
    /\ spc' = "wait"
    /\ UNCHANGED <<bitsAndCalls, queues, client, opc, tries, hev, result, errors, ota>>

SendTask == \/ SendWait \/ SendReceive \/ (\E o \in Outcomes : SendPerform(o))
            \/ SendPerformed \/ SendLogs

(***************************************************************************)
(* The device restarts: too many errors, an upgrade that succeeded, or a   *)
(* request performed with a null handle.                                   *)
(***************************************************************************)
MustRestart == \/ \E t \in Tasks : hev[t] = "reboot"
               \/ ota = "running"
               \/ spc = "perform" /\ client = "null"

\* Nothing of the client is kept in flash.
HCReset ==
    /\ wifi' = FALSE /\ status' = FALSE /\ ready' = FALSE /\ cb' = "none"
    /\ orders' = << >> /\ requests' = 0 /\ apc' = "idle"
    /\ client' = "null" /\ opc' = "receive" /\ spc' = "wait"
    /\ hev' = [t \in Tasks |-> "none"] /\ result' = [t \in Tasks |-> "ok"]
    /\ tries' = 0 /\ errors' = 0 /\ ota' = "none"

HCRestart == MustRestart /\ HCReset

ClientStep == \/ Callbacks \/ OrderTask \/ SendTask \/ (\E t \in Tasks : Handler(t))
              \/ OtaFails \/ OtaFailsSetsStatus

HCNext == \/ ClientStep \/ AppSends \/ HCRestart
          \/ AppChecks \/ (\E c \in {"connect", "lost"} : Calls(c))

HCSpec == HCInitial /\ [][HCNext]_hcvars

(***************************************************************************)
(* The tasks run when they can, the delays and a download end, and a       *)
(* connection attempt that can be made again and again succeeds in the end. *)
(***************************************************************************)
Connects == OrderPerform([res |-> "ok", event |-> "none"])

HCFairness ==
    /\ WF_hcvars(Callbacks) /\ WF_hcvars(OrderTask) /\ WF_hcvars(SendTask)
    /\ WF_hcvars(Handler("order")) /\ WF_hcvars(Handler("send"))
    /\ WF_hcvars(HCRestart) /\ WF_hcvars(OtaFailsSetsStatus)
    /\ SF_hcvars(Connects)

----------------------------------------------------------------------------
(***************************************************************************)
(* Properties.                                                             *)
(***************************************************************************)
HandlerStates == {"none", "error", "CONNECT", "DISCONNECT", "reboot",
                  "disconnected", "clear", "delay", "upgrade", "upgrade clear"}

\* Every variable stays in its range.
HCTypeOK ==
    /\ {wifi, status, ready} \subseteq BOOLEAN
    /\ cb \in {"none", "connect", "order", "lost", "clear"}
    /\ orders \in Seq({"CONNECT", "DISCONNECT"}) /\ Len(orders) <= OrderLen
    /\ requests \in 0..SendLen /\ apc \in {"idle", "send"}
    /\ client \in {"null", "live"}
    /\ opc \in {"receive", "close", "cleanup", "null", "init", "perform",
                "performed", "ready"}
    /\ spc \in {"wait", "receive", "perform", "performed", "log"}
    /\ hev \in [Tasks -> HandlerStates]
    /\ result \in [Tasks -> {"ok", "fetch", "fail"}]
    /\ tries \in 0..MaxTrySend /\ errors \in 0..(MaxTryConnect + 2)
    /\ ota \in {"none", "running", "failed"}

\* The limit is not jumped over: whoever counts beyond it restarts the device, and
\* only the other task, in its own handler, can count once more before that
\* (http_client.c:221-227).
LimitKept ==
    /\ errors > MaxTryConnect => \E t \in Tasks : hev[t] = "reboot"
    /\ errors > MaxTryConnect + 1 => \A t \in Tasks : hev[t] = "reboot"

AtRest == /\ opc = "receive" /\ orders = << >> /\ cb = "none" /\ ota = "none"
          /\ \A t \in Tasks : hev[t] = "none"
          /\ spc \in {"wait", "receive"}

\* No reconnection is ever forgotten: when nothing is under way and the WiFi is
\* there, the client is connected.
RestMeansConnected == AtRest /\ wifi => status

OwnQueueFull == hev["order"] \in {"CONNECT", "DISCONNECT"} /\ Len(orders) = OrderLen

\* While the WiFi stays the client becomes connected, unless the order task
\* waits for room in the queue that only it empties.
ClientConnects == wifi ~> (status \/ ~wifi \/ OwnQueueFull)

\* A request is performed over a connection: the send task waits for the bit
\* that is "Set if http connection established" (http_client.h:33).
SendsOverClient == spc = "perform" => client = "live"
=============================================================================
