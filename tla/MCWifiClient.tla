---------------------------- MODULE MCWifiClient ----------------------------
(***************************************************************************)
(* WifiClient for TLC: a budget caps the requests and orders that come     *)
(* from outside, and history variables remember which message has cleared  *)
(* HC_WIFI_OK and whether a load has failed over a link that was up.       *)
(***************************************************************************)
EXTENDS WifiClient, Budget

VARIABLES
    clearedBy,  \* the message that has cleared HC_WIFI_OK, if one has
    fellBack    \* has a load failed since the link came up

clientHistory == <<clearedBy, fellBack>>
boundedVars == <<vars, clientVars, asked, clientHistory>>

BoundedInit == ClientInit /\ asked = 0 /\ clearedBy = "NONE" /\ fellBack = FALSE

\* wifi_manager_fetch_wifi_sta_config has failed; the portal is to be opened.
LoadFails == mpc = "receive" /\ mpc' = "send" /\ out' = "START_AP"

RememberFallBack == fellBack' = (link' = "up" /\ (fellBack \/ LoadFails))

BoundedNext ==
    \/ Asked /\ ClientAsks /\ UNCHANGED <<clientVars, clientHistory>>
    \/ /\ \/ /\ ManagerThenCallback
             /\ clearedBy' = IF cb' = "lost" /\ wifi_ok THEN Handled ELSE clearedBy
          \/ /\ Callback
             /\ clearedBy' = IF cb = "connect" THEN "NONE" ELSE clearedBy
          \/ RestartBoth /\ clearedBy' = "NONE"
          \/ Around /\ UNCHANGED <<clientVars, clearedBy>>
       /\ RememberFallBack /\ UNCHANGED asked

BoundedSpec == BoundedInit /\ [][BoundedNext]_boundedVars

\* HC_WIFI_OK is "Set if wifi connection established" (http_client.h:34): once
\* every message about the link has been handled, a link that is up is known to
\* the client.  But cb_wifi_lost is registered for the two messages of a scan
\* and for the order to stop the access point too, which comes over a link that is
\* up (http_client.c:481, 483-484); and a load that fails opens the portal, and
\* tells of a loss, whether or not the link is up (482).  After these no one sets
\* the bit again.
LinkedIsKnown ==
    LinkAtRest /\ link = "up" =>
        \/ wifi_ok
        \/ clearedBy \in {"START_WIFI_SCAN", "SCAN_DONE", "STOP_AP"}
        \/ fellBack
=============================================================================
