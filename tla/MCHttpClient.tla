---------------------------- MODULE MCHttpClient ----------------------------
(***************************************************************************)
(* HttpClient for TLC.  The WiFi may come whenever it is not there; a      *)
(* budget caps the other calls of the manager task and the requests of the *)
(* application.  Two history variables remember who has changed the two    *)
(* ready bits last, a third how often a request has been performed.        *)
(***************************************************************************)
EXTENDS HttpClient

CONSTANT MaxCalls   \* calls in a budget: losses, repeated connects, requests

VARIABLES
    calls,      \* how many there have been
    restored,   \* was it cb_ota_finish that set HC_STATUS_OK
    withdrawn,  \* was it cb_wifi_lost that cleared the ready bit
    tried       \* how often the request of the send task was performed

history == <<restored, withdrawn, tried>>

MCInit == /\ HCInitial /\ calls = 0
          /\ restored = FALSE /\ withdrawn = FALSE /\ tried = 0

\* The first connect, and the one after a loss or a restart, are free.
Finds == ~wifi /\ Calls("connect")
Asks  == AppChecks \/ Calls("lost") \/ (wifi /\ Calls("connect"))

Remembers ==
    /\ restored' = (status' /\ (restored \/ (ota = "failed" /\ ota' = "none")))
    /\ withdrawn' = (~ready' /\ (withdrawn \/ (cb = "lost" /\ cb' = "clear")))
    /\ tried' = CASE spc' \notin {"perform", "performed"}   -> 0
                  [] spc = "perform" /\ spc' = "performed" -> tried + 1
                  [] OTHER                                 -> tried

MCNext == \/ calls < MaxCalls /\ Asks /\ calls' = calls + 1 /\ UNCHANGED history
          \/ /\ ClientStep \/ AppSends \/ HCRestart \/ Finds
             /\ UNCHANGED calls /\ Remembers

MCSpec == MCInit /\ [][MCNext]_<<hcvars, calls, history>>
MCFairSpec == MCSpec /\ HCFairness

\* HC_STATUS_OK is never set without a handle: what the order task does to the
\* handle and what either task's handler does to the bit agree (http_client.h:33,
\* "Set if http connection established").  The one exception is the bit that a
\* failed upgrade sets, whatever the order task has done in the meantime.  And the
\* count of errors, which both tasks raise and reset and which is compared with ==
\* and with >, does not pass the limit unless the device is about to restart.
StatusMeansClient == HCTypeOK /\ LimitKept /\ (client = "null" /\ status => restored)

\* The flash log and the application are told "when the http client activates"
\* (flash.c:238), by other calls than those that keep the bit: at rest, with the
\* WiFi there, a connected client is known as ready.  The exceptions are a WiFi
\* loss that the connection has survived, and the bit a failed upgrade has set.
ReadyAnnounced == AtRest /\ wifi /\ status => ready \/ withdrawn \/ restored

\* A request whose headers do not come is given up after MaxTrySend + 1 attempts
\* and no earlier, one more than the "maximal try send" of Kconfig:178
\* (http_client.c:326, 334).
GivesUpAfterAllTries ==
    [][spc = "performed" /\ spc' \in {"perform", "log"} /\ result["send"] = "fetch" =>
          (spc' = "log" <=> tried = MaxTrySend + 1)]_<<hcvars, calls, history>>
=============================================================================
