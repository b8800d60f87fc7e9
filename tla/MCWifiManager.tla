--------------------------- MODULE MCWifiManager ---------------------------
(***************************************************************************)
(* WifiManager for TLC.  A budget caps the requests and orders that come   *)
(* from outside, and history variables count the disconnections the driver *)
(* has reported in a row and keep what has been published and not shown.   *)
(* Everything else is finite by itself.                                    *)
(***************************************************************************)
EXTENDS WifiManager, Budget

VARIABLES
    lost,       \* disconnections since the last success or portal, capped
    pending,    \* an attempt to join was to come when ram was cleared
    unshown     \* the states of the link that were published and are not shown

mcVars == <<vars, asked, lost, pending, unshown>>

MCInit == Init /\ asked = 0 /\ lost = 0 /\ pending = FALSE /\ unshown = << >>

Asks == Client \/ \E m \in Orders : AppSend(m)

Unasked == \/ Manager \/ EventHandler \/ EventSend
           \/ TimerRetry \/ TimerRetrySend \/ Httpd \/ Restart

LossCap == MaxRetry + 2

CountLosses ==
    lost' = CASE link # "down" /\ link' = "down" ->
                     IF lost < LossCap THEN lost + 1 ELSE lost
              [] link' = "up" /\ link # "up" -> 0
              [] mode' = "apsta" /\ mode # "apsta" -> 0
              [] OTHER -> lost

Coming == {queue[i] : i \in 1..Len(queue)} \cup {evq[i] : i \in 1..Len(evq)} \cup {hand}
JoinsToCome ==
    \/ link # "down" \/ timer \/ tick
    \/ Coming \cap {"CONNECT_USER", "CONNECT_AUTO", "CONNECT_RESTORE",
                    "STA_DISCONNECTED"} # {}

RememberPending ==
    pending' = IF ram /\ ~ram' THEN JoinsToCome' ELSE pending /\ ~ram'

\* The event task publishes a state of the link with the bit; a handler of the
\* manager is to show the oldest.
FollowPublished ==
    unshown' = IF Restart THEN << >>
               ELSE IF EventHandler /\ Head(evq) \in LinkMessages
                    THEN Append(unshown, Head(evq) = "STA_GOT_IP")
               ELSE IF StaDisconnected \/ StaGotIp THEN Tail(unshown)
               ELSE unshown

MCNext == \/ Asked /\ Asks /\ UNCHANGED <<lost, pending, unshown>>
          \/ /\ Unasked \/ Driver
             /\ UNCHANGED asked /\ CountLosses /\ RememberPending /\ FollowPublished

MCSpec == MCInit /\ [][MCNext]_mcVars
MCFairSpec == MCSpec /\ Fairness

\* With no client at work the portal opens after exactly MaxRetry + 1
\* disconnections in a row: "Setting it to 2 for instance means there will be
\* 3 attempts in total" (manager.h:48).
PortalAfterAllRetries ==
    mpc = "send" /\ msg = "STA_DISCONNECTED" /\ out = "START_AP" =>
        lost = MaxRetry + 1

\* After a request "to disconnect and forget about the access point"
\* (manager.h:273) has been honoured the device is not linked again before a
\* configuration is loaded, unless a retry, or an order to connect, was to come
\* already: nothing takes that back, and the driver keeps its configuration.
ForgottenMeansOffline == ~ram /\ link = "up" => pending

\* The published state of the link is the CONNECTED bit, what is shown is the
\* address string, and the feed is what was published and is not shown yet.
Feed == INSTANCE LinkFeed
    WITH published <- Connected, feed <- unshown, shown <- sta_ip

\* The manager implements LinkFeed: the address string follows every change of
\* the CONNECTED bit, none lost, none repeated, none overtaken.
FollowsEveryLinkChange == Feed!Spec
=============================================================================
