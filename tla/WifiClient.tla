----------------------------- MODULE WifiClient -----------------------------
(***************************************************************************)
(* The connection manager together with the callbacks that the http client *)
(* registers with it (http_client.c:479-484).  The manager task calls them *)
(* at the end of a handler; they keep HC_WIFI_OK, the bit from which       *)
(* http_client_send_message and http_client_send_order learn whether there *)
(* is a network.  What the client does with an order is in HttpClient.     *)
(***************************************************************************)
EXTENDS WifiManager

VARIABLES
    wifi_ok,    \* HC_WIFI_OK
    cb          \* the callback the manager task is in

clientVars == <<wifi_ok, cb>>

ClientInit == Init /\ wifi_ok = FALSE /\ cb = "none"

\* The message whose handler the manager task is in or is about to enter.
Handled == IF mpc = "receive" THEN Head(queue) ELSE msg

\* The messages that end in cb_wifi_lost.  WM_ORDER_STOP_AP calls it only when
\* it has stopped the access point.
LostMessages == {"STA_DISCONNECTED", "START_AP", "SCAN_DONE", "START_WIFI_SCAN"}

CallbackAfter(m, from) ==
    CASE m = "HTTP_CLIENT_INIT"                -> "connect"
      [] m \in LostMessages                    -> "lost"
      [] m = "STOP_AP" /\ from = "httpd_stop"  -> "lost"
      [] OTHER                                 -> "none"

ManagerThenCallback ==
    /\ cb = "none"
    /\ Manager
    /\ cb' = IF mpc' = "receive" THEN CallbackAfter(Handled, mpc) ELSE "none"
    /\ UNCHANGED wifi_ok

\* Every variable of the manager keeps its value.
Callback ==
    /\ cb # "none"
    /\ wifi_ok' = (cb = "connect")
    /\ cb' = "none"
    /\ UNCHANGED vars

Around == \/ EventHandler \/ EventSend \/ TimerRetry \/ TimerRetrySend \/ Httpd
          \/ Driver

RestartBoth == Restart /\ wifi_ok' = FALSE /\ cb' = "none"

ClientAsks == Client \/ \E m \in Orders : AppSend(m)

ClientNext == \/ ManagerThenCallback \/ Callback \/ RestartBoth
              \/ (Around \/ ClientAsks) /\ UNCHANGED clientVars

ClientSpec == ClientInit /\ [][ClientNext]_<<vars, clientVars>>

----------------------------------------------------------------------------
\* Nothing that concerns the link is under way.
LinkAtRest == /\ cb = "none" /\ mpc = "receive" /\ queue = << >>
              /\ hand = "NONE" /\ evq = << >>
              /\ link \in {"up", "down"}

\* HTTP_CLIENT_INIT may come after the loss of the link it
\* was queued for, and the client then takes a link that is down for one that is
\* up.  It does so only for a time: a retry is on its way, whose outcome will
\* be told to the client.
WrongOnlyUntilRetry == LinkAtRest /\ wifi_ok /\ link = "down" => timer \/ tick
=============================================================================
