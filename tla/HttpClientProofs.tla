-------------------------- MODULE HttpClientProofs --------------------------
(***************************************************************************)
(* Theorems about HttpClient for all lengths of its queues and all limits, *)
(* with and without firmware upgrades, and about its history variables.    *)
(***************************************************************************)
EXTENDS MCHttpClient, TLAPS

OrderKinds == {"CONNECT", "DISCONNECT"}

\* HCTypeOK without the Boolean variables and the error count.
Ranges ==
    /\ cb \in {"none", "connect", "order", "lost", "clear"}
    /\ orders \in Seq(OrderKinds) /\ Len(orders) <= OrderLen
    /\ requests \in 0..SendLen /\ apc \in {"idle", "send"}
    /\ client \in {"null", "live"}
    /\ opc \in {"receive", "close", "cleanup", "null", "init", "perform",
                "performed", "ready"}
    /\ spc \in {"wait", "receive", "perform", "performed", "log"}
    /\ hev \in [Tasks -> HandlerStates]
    /\ result \in [Tasks -> {"ok", "fetch", "fail"}]
    /\ tries \in 0..MaxTrySend
    /\ ota \in {"none", "running", "failed"}

Flags == {wifi, status, ready} \subseteq BOOLEAN

\* The count goes beyond the limit only by a task that is about to restart the
\* device, and each of the two tasks can do so once.
ErrorBound ==
    /\ errors \in Nat /\ errors <= MaxTryConnect + 2
    /\ errors > MaxTryConnect => \E t \in Tasks : hev[t] = "reboot"
    /\ errors > MaxTryConnect + 1 => \A t \in Tasks : hev[t] = "reboot"

Limits == /\ OrderLen \in Nat \ {0} /\ SendLen \in Nat \ {0}
          /\ MaxError \in Nat \ {0} /\ MaxTryConnect \in Nat /\ MaxTrySend \in Nat
          /\ MaxError <= MaxTryConnect

LEMMA LimitsOK == Limits
  BY OrderLenAssumption, SendLenAssumption, LimitsAssumption DEF Limits

LEMMA InitRanges == HCInitial => Ranges /\ ErrorBound
  BY LimitsOK DEF HCInitial, Ranges, ErrorBound, Limits, OrderKinds, Tasks, HandlerStates

LEMMA InitFlags == HCInitial => Flags
  BY Zenon DEF HCInitial, Flags

\* The room that xQueueSend waits for.
LEMMA SendOrderInRange ==
  ASSUME Ranges, NEW o \in OrderKinds, SendOrder(o)
  PROVE  orders' \in Seq(OrderKinds) /\ Len(orders') <= OrderLen
  BY LimitsOK DEF Ranges, SendOrder, Limits

\* The handler of either task changes its own state only.
LEMMA GoesInRange ==
  ASSUME Ranges, NEW t \in Tasks, NEW h \in HandlerStates, Goes(t, h)
  PROVE  hev' \in [Tasks -> HandlerStates]
  BY DEF Ranges, Goes

LEMMA OutcomeData ==
  ASSUME NEW o \in Outcomes
  PROVE  /\ o.res \in {"ok", "fetch", "fail"}
         /\ o.event \in {"none", "disconnected", "error", "upgrade"}
  BY DEF Outcomes

\* What HTTP_EVENT_ERROR leads to.
LEMMA ErrorStep ==
  ASSUME Limits, errors \in Nat, NEW t \in Tasks, HandlerError(t)
  PROVE  /\ hev[t] = "error" /\ errors' = errors + 1
         /\ \E h \in {"DISCONNECT", "reboot", "none"} :
               Goes(t, h) /\ (errors' > MaxTryConnect => h = "reboot")
         /\ UNCHANGED <<bitsAndCalls, queues, client, tasks, result, ota>>
  <1>1. CASE errors' = MaxError /\ wifi
    BY <1>1 DEF HandlerError, Limits
  <1>2. CASE ~(errors' = MaxError /\ wifi) /\ errors' > MaxTryConnect
    BY <1>2 DEF HandlerError, Reboots
  <1>3. CASE ~(errors' = MaxError /\ wifi) /\ ~(errors' > MaxTryConnect)
    BY <1>3 DEF HandlerError, Reboots
  <1> QED
    BY <1>1, <1>2, <1>3

\* The callbacks, the application and the upgrade.
Around == \/ Callbacks \/ OtaFails \/ OtaFailsSetsStatus \/ AppSends \/ AppChecks
          \/ (\E c \in {"connect", "lost"} : Calls(c))

LEMMA HCNextSplit ==
  HCNext <=> \/ Around \/ OrderTask \/ SendTask \/ (\E t \in Tasks : Handler(t))
             \/ HCRestart
  BY Zenon DEF HCNext, ClientStep, Around

LEMMA NextRanges == Ranges /\ [HCNext]_hcvars => Ranges'
  <1> SUFFICES ASSUME Ranges, [HCNext]_hcvars PROVE Ranges'
    OBVIOUS
  <1> USE LimitsOK DEF Limits, bitsAndCalls, queues, tasks
  <1>1. CASE Around
    <2>1. CASE CbWifiConnectSend
      <3>1. orders' \in Seq(OrderKinds) /\ Len(orders') <= OrderLen
        BY <2>1, SendOrderInRange DEF CbWifiConnectSend, OrderKinds
      <3> QED
        BY <2>1, <3>1 DEF CbWifiConnectSend, Ranges
    <2>2. CASE CbWifiConnect \/ CbWifiLost \/ CbWifiLostClear
      BY <2>2 DEF CbWifiConnect, CbWifiLost, CbWifiLostClear, Ranges
    <2>3. CASE OtaFails \/ OtaFailsSetsStatus \/ AppSends \/ AppChecks
      BY <2>3 DEF OtaFails, OtaFailsSetsStatus, AppSends, AppChecks, Ranges
    <2>4. ASSUME NEW c \in {"connect", "lost"}, Calls(c) PROVE Ranges'
      BY <2>4 DEF Calls, Ranges
    <2> QED
      BY <1>1, <2>1, <2>2, <2>3, <2>4 DEF Around, Callbacks
  <1>2. ASSUME NEW t \in Tasks, Handler(t) PROVE Ranges'
    <2>1. CASE HandlerSendOrder(t)
      <3>1. orders' \in Seq(OrderKinds) /\ Len(orders') <= OrderLen
        BY <2>1, SendOrderInRange DEF HandlerSendOrder, OrderKinds
      <3>2. hev' \in [Tasks -> HandlerStates]
        BY <2>1, GoesInRange DEF HandlerSendOrder, HandlerStates
      <3> QED
        BY <2>1, <3>1, <3>2 DEF HandlerSendOrder, Ranges
    <2>2. CASE HandlerError(t)
      <3>1. UNCHANGED <<bitsAndCalls, queues, client, tasks, result, ota>>
        BY <2>2 DEF HandlerError
      <3>2. hev' \in [Tasks -> HandlerStates]
        BY <2>2, GoesInRange DEF HandlerError, HandlerStates
      <3> QED
        BY <3>1, <3>2 DEF Ranges
    <2>3. CASE HandlerDisconnected(t) \/ HandlerClear(t) \/ HandlerUpgrade(t)
      <3>1. hev' \in [Tasks -> HandlerStates]
        BY <2>3, GoesInRange DEF HandlerDisconnected, HandlerClear, HandlerUpgrade, HandlerStates
      <3>2. UNCHANGED <<cb, queues, client, tasks, result, ota>>
        BY <2>3, Zenon DEF HandlerDisconnected, HandlerClear, HandlerUpgrade
      <3> QED
        BY <3>1, <3>2 DEF Ranges
    <2>4. CASE HandlerDelayOver(t) \/ HandlerUpgradeStarts(t)
      <3>1. hev' \in [Tasks -> HandlerStates]
        BY <2>4, GoesInRange DEF HandlerDelayOver, AfterDelay, HandlerUpgradeStarts,
                                 HandlerStates
      <3>2. UNCHANGED <<cb, queues, client, tasks, result>> /\ ota' \in {ota, "running"}
        BY <2>4 DEF HandlerDelayOver, HandlerUpgradeStarts
      <3> QED
        BY <3>1, <3>2 DEF Ranges
    <2> QED
      BY <1>2, <2>1, <2>2, <2>3, <2>4 DEF Handler
  <1>3. CASE OrderTask
    <2>1. CASE OrderReceive
      <3>1. orders' \in Seq(OrderKinds) /\ Len(orders') <= OrderLen
        BY <2>1 DEF OrderReceive, Ranges
      <3> QED
        BY <2>1, <3>1 DEF OrderReceive, Ranges
    <2>2. CASE OrderClose
      <3>1. hev' \in [Tasks -> HandlerStates]
        BY <2>2 DEF OrderClose, Goes, Ranges, Tasks, HandlerStates
      <3> QED
        BY <2>2, <3>1 DEF OrderClose, Ranges
    <2>3. CASE OrderForget \/ OrderInit \/ OrderReady
      BY <2>3 DEF OrderForget, OrderInit, OrderReady, Ranges
    <2>4. ASSUME NEW o \in Outcomes, OrderPerform(o) PROVE Ranges'
      BY <2>4, OutcomeData DEF OrderPerform, Perform, Goes, Ranges, Tasks, HandlerStates
    <2>5. CASE OrderPerformed
      BY <2>5 DEF OrderPerformed, Ranges, Tasks
    <2> QED
      BY <1>3, <2>1, <2>2, <2>3, <2>4, <2>5 DEF OrderTask
  <1>4. CASE SendTask
    <2>1. CASE SendWait \/ SendReceive \/ SendLogs
      BY <2>1 DEF SendWait, SendReceive, SendLogs, Ranges
    <2>2. ASSUME NEW o \in Outcomes, SendPerform(o) PROVE Ranges'
      BY <2>2, OutcomeData DEF SendPerform, Perform, Goes, Ranges, Tasks, HandlerStates
    <2>3. CASE SendPerformed
      BY <2>3 DEF SendPerformed, LastTry, Ranges, Tasks
    <2> QED
      BY <1>4, <2>1, <2>2, <2>3 DEF SendTask
  <1>5. CASE HCRestart
    <2>1. /\ hev' \in [Tasks -> HandlerStates]
          /\ result' \in [Tasks -> {"ok", "fetch", "fail"}]
      BY <1>5 DEF HCRestart, HCReset, HandlerStates
    <2>2. orders' \in Seq(OrderKinds) /\ Len(orders') <= OrderLen
      BY <1>5 DEF HCRestart, HCReset
    <2> QED
      BY <1>5, <2>1, <2>2 DEF HCRestart, HCReset, Ranges
  <1>6. CASE UNCHANGED hcvars
    BY <1>6 DEF hcvars, Ranges
  <1> QED
    BY <1>1, <1>2, <1>3, <1>4, <1>5, <1>6, HCNextSplit

LEMMA NextFlags == Flags /\ [HCNext]_hcvars => Flags'
  <1> SUFFICES ASSUME Flags, [HCNext]_hcvars PROVE Flags'
    OBVIOUS
  <1> USE DEF Flags, bitsAndCalls
  <1>1. CASE Around
    BY <1>1, Zenon DEF Around, Callbacks, CbWifiConnect, CbWifiConnectSend, CbWifiLost,
       CbWifiLostClear, OtaFails, OtaFailsSetsStatus, AppSends, AppChecks, Calls
  <1>2. ASSUME NEW t \in Tasks, Handler(t) PROVE Flags'
    BY <1>2, Zenon DEF Handler, HandlerError, HandlerSendOrder, HandlerDisconnected,
       HandlerClear, StatusAfterLoss, HandlerDelayOver, HandlerUpgrade, HandlerUpgradeStarts
  <1>3. CASE OrderTask
    BY <1>3, Zenon DEF OrderTask, OrderReceive, OrderClose, OrderForget, OrderInit,
       OrderPerform, OrderPerformed, OrderReady, ReadyAfterConnect
  <1>4. CASE SendTask
    BY <1>4, Zenon DEF SendTask, SendWait, SendReceive, SendPerform, SendPerformed, SendLogs
  <1>5. CASE HCRestart
    BY <1>5, Zenon DEF HCRestart, HCReset
  <1>6. CASE UNCHANGED hcvars
    BY <1>6, Zenon DEF hcvars
  <1> QED
    BY <1>1, <1>2, <1>3, <1>4, <1>5, <1>6, HCNextSplit, Zenon

\* HTTP_EVENT_ERROR counts up; everything else keeps the count or resets it, and
\* a task that has called esp_restart does nothing any more.
LEMMA NextErrors == Ranges /\ ErrorBound /\ [HCNext]_hcvars => ErrorBound'
  <1> SUFFICES ASSUME Ranges, ErrorBound, [HCNext]_hcvars PROVE ErrorBound'
    OBVIOUS
  <1> USE LimitsOK DEF Limits, ErrorBound, Ranges, Tasks
  <1>1. CASE errors' \in {errors, 0} /\ \A t \in Tasks : hev[t] = "reboot" => hev'[t] = "reboot"
    BY <1>1
  <1>2. CASE Around
    BY <1>1, <1>2 DEF Around, Callbacks, CbWifiConnect, CbWifiConnectSend, CbWifiLost,
       CbWifiLostClear, OtaFails, OtaFailsSetsStatus, AppSends, AppChecks, Calls
  <1>3. ASSUME NEW t \in Tasks, HandlerError(t) PROVE ErrorBound'
    <2>1. hev[t] = "error" /\ errors' = errors + 1
      BY <1>3, ErrorStep
    <2>2. PICK h \in {"DISCONNECT", "reboot", "none"} :
             Goes(t, h) /\ (errors' > MaxTryConnect => h = "reboot")
      BY <1>3, ErrorStep
    <2>3. /\ errors' > MaxTryConnect => hev'[t] = "reboot"
          /\ \A u \in Tasks : u # t => hev'[u] = hev[u]
      BY <2>2 DEF Goes
    <2>4. errors <= MaxTryConnect + 1
      BY <2>1
    <2>5. errors > MaxTryConnect => \E u \in Tasks : u # t /\ hev'[u] = "reboot"
      BY <2>1, <2>3
    <2> QED
      BY <2>1, <2>3, <2>4, <2>5
  <1>4. ASSUME NEW t \in Tasks, Handler(t), ~HandlerError(t) PROVE ErrorBound'
    BY <1>1, <1>4 DEF Handler, HandlerSendOrder, HandlerDisconnected, HandlerClear,
       HandlerDelayOver, HandlerUpgrade, HandlerUpgradeStarts, Goes
  <1>5. CASE OrderTask
    BY <1>1, <1>5 DEF OrderTask, OrderReceive, OrderClose, OrderForget, OrderInit,
       OrderPerform, OrderPerformed, OrderReady, Perform, Goes
  <1>6. CASE SendTask
    BY <1>1, <1>6 DEF SendTask, SendWait, SendReceive, SendPerform, SendPerformed, SendLogs,
       Perform, Goes
  <1>7. CASE HCRestart
    BY <1>7 DEF HCRestart, HCReset
  <1>8. CASE UNCHANGED hcvars
    BY <1>1, <1>8 DEF hcvars
  <1> QED
    BY <1>2, <1>3, <1>4, <1>5, <1>6, <1>7, <1>8, HCNextSplit

TypeInv == Ranges /\ Flags /\ ErrorBound

LEMMA NextTypeInv == TypeInv /\ [HCNext]_hcvars => TypeInv'
  BY NextRanges, NextFlags, NextErrors, Zenon DEF TypeInv

LEMMA TypeInvMeans == TypeInv => HCTypeOK /\ LimitKept
  BY LimitsOK DEF TypeInv, Ranges, Flags, ErrorBound, HCTypeOK, LimitKept, OrderKinds, Limits

LEMMA MCIsHC == [MCNext]_<<hcvars, calls, history>> => [HCNext]_hcvars
  BY Zenon DEF MCNext, Asks, Finds, HCNext

LEMMA MCTypeInv == MCSpec => []TypeInv
  <1>1. MCInit => TypeInv
    BY InitRanges, InitFlags, Zenon DEF MCInit, TypeInv
  <1>2. TypeInv /\ [MCNext]_<<hcvars, calls, history>> => TypeInv'
    BY MCIsHC, NextTypeInv, Zenon
  <1> QED
    BY <1>1, <1>2, PTL DEF MCSpec

\* No queue of the client is ever overfull, and its error count is above the limit
\* (http_client.c:226) only while a task that has seen it there is about to restart
\* the device; it is two above only while both are.
THEOREM ClientTypeCorrect == HCSpec => [](HCTypeOK /\ LimitKept)
  <1>1. HCInitial => TypeInv
    BY InitRanges, InitFlags, Zenon DEF TypeInv
  <1> QED
    BY <1>1, NextTypeInv, TypeInvMeans, PTL DEF HCSpec

----------------------------------------------------------------------------
(***************************************************************************)
(* No reconnection is forgotten.                                           *)
(***************************************************************************)
\* What leads to a connection: an order on its way, or an upgrade that either
\* restores the bit or restarts the device.
Coming ==
    \/ cb = "order"
    \/ \E i \in 1..Len(orders) : orders[i] = "CONNECT"
    \/ opc \in {"init", "perform", "performed"}
    \/ \E t \in Tasks : hev[t] \in {"delay", "CONNECT"}
    \/ ota # "none"

Awaited == wifi => status \/ Coming

LEMMA NextAwaited == Ranges /\ Awaited /\ [HCNext]_hcvars => Awaited'
  <1> SUFFICES ASSUME Ranges, Awaited, [HCNext]_hcvars, wifi' PROVE status' \/ Coming'
    BY DEF Awaited
  <1> USE DEF bitsAndCalls, queues, tasks
  <1>1. CASE Around
    <2>1. CASE CbWifiConnectSend
      <3>1. orders' = Append(orders, "CONNECT") /\ orders \in Seq(OrderKinds)
        BY <2>1 DEF CbWifiConnectSend, SendOrder, Ranges
      <3>2. orders'[Len(orders')] = "CONNECT" /\ Len(orders') \in 1..Len(orders')
        BY <3>1
      <3> QED
        BY <3>2 DEF Coming
    <2>2. CASE CbWifiConnect
      BY <2>2 DEF CbWifiConnect, Coming
    <2>3. CASE CbWifiLost \/ CbWifiLostClear \/ AppSends \/ AppChecks
      BY <2>3 DEF CbWifiLost, CbWifiLostClear, AppSends, AppChecks, Awaited, Coming
    <2>4. CASE OtaFails \/ OtaFailsSetsStatus
      BY <2>4 DEF OtaFails, OtaFailsSetsStatus, Coming
    <2>5. ASSUME NEW c \in {"connect", "lost"}, Calls(c) PROVE status' \/ Coming'
      BY <2>5 DEF Calls, Awaited, Coming
    <2> QED
      BY <1>1, <2>1, <2>2, <2>3, <2>4, <2>5 DEF Around, Callbacks
  <1>2. ASSUME NEW t \in Tasks, Handler(t) PROVE status' \/ Coming'
    <2>0. hev \in [Tasks -> HandlerStates]
      BY DEF Ranges
    <2>1. CASE HandlerSendOrder(t)
      <3>1. /\ hev[t] \in {"CONNECT", "DISCONNECT"} /\ orders' = Append(orders, hev[t])
            /\ orders \in Seq(OrderKinds) /\ hev' = [hev EXCEPT ![t] = "none"]
            /\ UNCHANGED <<bitsAndCalls, opc, ota>>
        BY <2>1 DEF HandlerSendOrder, SendOrder, Ranges, Goes
      <3>2. Len(orders') = Len(orders) + 1 /\ orders'[Len(orders')] = hev[t]
        BY <3>1 DEF OrderKinds
      <3>3. \A i \in 1..Len(orders) : orders'[i] = orders[i] /\ i \in 1..Len(orders')
        BY <3>1 DEF OrderKinds
      <3>4. Len(orders') \in 1..Len(orders')
        BY <3>1, <3>2
      <3>5. CASE hev[t] = "CONNECT"
        BY <3>2, <3>4, <3>5 DEF Coming
      <3>6. CASE hev[t] = "DISCONNECT"
        <4>1. \A u \in Tasks : hev[u] \in {"delay", "CONNECT"} => hev'[u] = hev[u]
          BY <2>0, <3>1, <3>6
        <4> QED
          BY <3>1, <3>3, <4>1 DEF Awaited, Coming
      <3> QED
        BY <3>1, <3>5, <3>6
    <2>2. CASE HandlerClear(t)
      <3>1. hev'[t] = "delay"
        BY <2>0, <2>2 DEF HandlerClear, Goes
      <3> QED
        BY <3>1 DEF Coming
    <2>3. CASE HandlerDelayOver(t)
      <3>1. hev'[t] = "CONNECT"
        BY <2>0, <2>3 DEF HandlerDelayOver, Goes, AfterDelay
      <3> QED
        BY <3>1 DEF Coming
    <2>4. CASE HandlerUpgradeStarts(t)
      BY <2>4 DEF HandlerUpgradeStarts, Coming
    <2>5. CASE HandlerError(t) \/ HandlerDisconnected(t) \/ HandlerUpgrade(t)
      <3>1. UNCHANGED <<wifi, status, cb, queues, tasks, ota>>
        BY <2>5, Zenon DEF HandlerError, HandlerDisconnected, HandlerUpgrade
      <3>2. \A u \in Tasks : hev[u] \in {"delay", "CONNECT"} => hev'[u] = hev[u]
        BY <2>0, <2>5 DEF HandlerError, HandlerDisconnected, HandlerUpgrade, Goes
      <3> QED
        BY <3>1, <3>2 DEF Awaited, Coming
    <2> QED
      BY <1>2, <2>1, <2>2, <2>3, <2>4, <2>5 DEF Handler
  <1>3. CASE OrderReceive
    <2>1. /\ orders \in Seq(OrderKinds) /\ orders # << >> /\ orders' = Tail(orders)
          /\ UNCHANGED <<bitsAndCalls, hev, ota>>
      BY <1>3 DEF OrderReceive, Ranges
    <2>2. CASE Head(orders) = "CONNECT" /\ ~status
      BY <1>3, <2>2 DEF OrderReceive, Coming
    <2>3. CASE Head(orders) # "CONNECT" /\ ~status
      <3>1. ASSUME NEW i \in 1..Len(orders), orders[i] = "CONNECT"
            PROVE  i - 1 \in 1..Len(orders') /\ orders'[i - 1] = "CONNECT"
        BY <2>1, <2>3, <3>1
      <3>2. opc = "receive"
        BY <1>3 DEF OrderReceive
      <3> QED
        BY <2>1, <2>3, <3>1, <3>2 DEF Awaited, Coming
    <2> QED
      BY <2>1, <2>2, <2>3
  <1>4. CASE OrderTask /\ ~OrderReceive
    <2>1. CASE OrderClose \/ OrderForget
      <3>1. UNCHANGED <<bitsAndCalls, queues, ota>>
        BY <2>1 DEF OrderClose, OrderForget
      <3>2. \A u \in Tasks : hev[u] \in {"delay", "CONNECT"} => hev'[u] = hev[u]
        BY <2>1 DEF OrderClose, OrderForget, Goes, Ranges
      <3>3. opc \notin {"init", "perform", "performed"}
        BY <2>1 DEF OrderClose, OrderForget
      <3> QED
        BY <3>1, <3>2, <3>3 DEF Awaited, Coming
    <2>2. CASE OrderInit
      BY <2>2 DEF OrderInit, Coming
    <2>3. ASSUME NEW o \in Outcomes, OrderPerform(o) PROVE status' \/ Coming'
      BY <2>3 DEF OrderPerform, Coming
    <2>4. CASE OrderPerformed
      BY <2>4 DEF OrderPerformed, Coming
    <2>5. CASE OrderReady
      BY <2>5 DEF OrderReady, Awaited, Coming
    <2> QED
      BY <1>4, <2>1, <2>2, <2>3, <2>4, <2>5 DEF OrderTask
  <1>5. CASE SendTask
    <2>1. UNCHANGED <<bitsAndCalls, orders, opc, ota>>
      BY <1>5, Zenon DEF SendTask, SendWait, SendReceive, SendPerform, SendPerformed, SendLogs
    <2>2. \A u \in Tasks : hev[u] \in {"delay", "CONNECT"} => hev'[u] = hev[u]
      BY <1>5 DEF SendTask, SendWait, SendReceive, SendPerform, SendPerformed, SendLogs,
                  Perform, Goes, Ranges
    <2> QED
      BY <2>1, <2>2 DEF Awaited, Coming
  <1>6. CASE HCRestart
    BY <1>6 DEF HCRestart, HCReset
  <1>7. CASE UNCHANGED hcvars
    BY <1>7 DEF hcvars, Awaited, Coming
  <1> QED
    BY <1>1, <1>2, <1>3, <1>4, <1>5, <1>6, <1>7, HCNextSplit

\* When nothing is under way in the client and the WiFi is there, the client is
\* connected: the order to connect again that http_client_handler or the callback
\* of the manager sends is never dropped or overtaken.
THEOREM NoReconnectForgotten == HCSpec => []RestMeansConnected
  <1> DEFINE Inv == Ranges /\ Awaited
  <1>1. HCInitial => Inv
    BY InitRanges, Zenon DEF HCInitial, Awaited
  <1>2. Inv /\ [HCNext]_hcvars => Inv'
    BY NextRanges, NextAwaited
  <1>3. Inv => RestMeansConnected
    BY DEF Ranges, Awaited, Coming, RestMeansConnected, AtRest
  <1> QED
    BY <1>1, <1>2, <1>3, PTL DEF HCSpec

----------------------------------------------------------------------------
(***************************************************************************)
(* The handle and the bit.                                                 *)
(***************************************************************************)
\* The order task closes a handle only with HC_STATUS_OK cleared, by the event
\* that closing it raises, and sets the bit only while it has a handle.
HandleMatches ==
    /\ opc \in {"perform", "performed", "ready"} => client = "live"
    /\ opc \in {"cleanup", "null"} /\ hev["order"] \notin {"disconnected", "clear"} =>
          (status => restored)
    /\ client = "null" => (status => restored)

\* The history only forgets a restored bit when the bit is cleared.
LEMMA RestoredStays ==
  ASSUME [MCNext]_<<hcvars, calls, history>>, restored, status'
  PROVE  restored'
  <1>1. CASE Remembers
    BY <1>1 DEF Remembers
  <1>2. CASE UNCHANGED history
    BY <1>2 DEF history
  <1> QED
    BY <1>1, <1>2 DEF MCNext

\* Who sets the bit: the order task after a request, or a failed upgrade.
LEMMA WhoSetsStatus ==
  ASSUME [MCNext]_<<hcvars, calls, history>>, ~status, status'
  PROVE  restored' \/ (opc = "performed" /\ opc' = "ready")
  <1>1. CASE OtaFailsSetsStatus
    <2>1. ota = "failed" /\ ota' = "none"
      BY <1>1 DEF OtaFailsSetsStatus
    <2>2. Remembers
      BY <2>1 DEF MCNext, Asks, AppChecks, Calls, hcvars
    <2> QED
      BY <2>1, <2>2 DEF Remembers
  <1>2. CASE ~OtaFailsSetsStatus /\ ~OrderPerformed
    <2>1. Callbacks \/ OtaFails \/ AppSends \/ AppChecks => UNCHANGED status
      BY DEF Callbacks, CbWifiConnect, CbWifiConnectSend, CbWifiLost, CbWifiLostClear,
             OtaFails, AppSends, AppChecks, bitsAndCalls
    <2>2. ASSUME NEW c \in {"connect", "lost"}, Calls(c) PROVE UNCHANGED status
      BY <2>2 DEF Calls
    <2>3. ASSUME NEW t \in Tasks, Handler(t) PROVE ~status'
      BY <2>3 DEF Handler, HandlerError, HandlerSendOrder, HandlerDisconnected, HandlerClear,
         StatusAfterLoss, HandlerDelayOver, HandlerUpgrade, HandlerUpgradeStarts, bitsAndCalls
    <2>4. OrderTask => UNCHANGED status
      BY <1>2, Zenon DEF OrderTask, OrderReceive, OrderClose, OrderForget, OrderInit,
         OrderPerform, OrderReady, bitsAndCalls
    <2>5. SendTask => UNCHANGED status
      BY Zenon DEF SendTask, SendWait, SendReceive, SendPerform, SendPerformed, SendLogs,
         bitsAndCalls
    <2>6. HCRestart => ~status'
      BY DEF HCRestart, HCReset
    <2>7. UNCHANGED hcvars => UNCHANGED status
      BY Zenon DEF hcvars, bitsAndCalls
    <2> QED
      BY <1>2, <2>1, <2>2, <2>3, <2>4, <2>5, <2>6, <2>7, MCIsHC, HCNextSplit DEF Around
  <1>3. OrderPerformed => opc = "performed" /\ opc' = "ready"
    BY DEF OrderPerformed
  <1> QED
    BY <1>1, <1>2, <1>3

LEMMA NextHandleMatches ==
  TypeInv /\ HandleMatches /\ [MCNext]_<<hcvars, calls, history>> => HandleMatches'
  <1> SUFFICES ASSUME TypeInv, HandleMatches, [MCNext]_<<hcvars, calls, history>>
               PROVE  HandleMatches'
    OBVIOUS
  <1> USE DEF queues, tasks
  <1>1. [HCNext]_hcvars
    BY MCIsHC
  \* The only steps that do more than take the bit away.
  <1>2. CASE OrderTask
    <2>1. CASE OrderForget
      <3>1. client' = "null" /\ opc' = "receive" /\ UNCHANGED status /\ (status => restored)
        BY <2>1 DEF OrderForget, HandleMatches, bitsAndCalls
      <3> QED
        BY <3>1, RestoredStays DEF HandleMatches
    <2>2. CASE OrderClose
      <3>1. UNCHANGED <<client, status>> /\ opc' \in {"cleanup", "null"}
        BY <2>2 DEF OrderClose, bitsAndCalls
      <3>2. CASE hev'["order"] = "disconnected"
        BY <3>1, <3>2, RestoredStays DEF HandleMatches
      <3>3. CASE hev'["order"] # "disconnected"
        <4>1. opc = "cleanup" /\ hev["order"] = "none"
          BY <2>2, <3>3 DEF OrderClose, Goes, TypeInv, Ranges, Tasks
        <4> QED
          BY <3>1, <4>1, RestoredStays DEF HandleMatches
      <3> QED
        BY <3>2, <3>3
    <2>3. CASE OrderInit
      BY <2>3 DEF OrderInit, HandleMatches
    <2>4. ASSUME NEW o \in Outcomes, OrderPerform(o) PROVE HandleMatches'
      BY <2>4 DEF OrderPerform, Perform, HandleMatches
    <2>5. CASE OrderPerformed
      BY <2>5 DEF OrderPerformed, HandleMatches
    <2>6. CASE OrderReady
      BY <2>6 DEF OrderReady, HandleMatches
    <2>7. CASE OrderReceive
      <3>1. UNCHANGED <<client, status>> /\ opc' \in {"close", "init", "receive"}
        BY <2>7 DEF OrderReceive, bitsAndCalls
      <3> QED
        BY <3>1, RestoredStays DEF HandleMatches
    <2> QED
      BY <1>2, <2>1, <2>2, <2>3, <2>4, <2>5, <2>6, <2>7 DEF OrderTask
  <1>3. ASSUME NEW t \in Tasks, Handler(t) PROVE HandleMatches'
    <2>1. UNCHANGED <<client, opc>>
      BY <1>3, Zenon DEF Handler, HandlerError, HandlerSendOrder, HandlerDisconnected,
         HandlerClear, HandlerDelayOver, HandlerUpgrade, HandlerUpgradeStarts
    <2>2. status' => status
      BY <1>3, Zenon DEF Handler, HandlerError, HandlerSendOrder, HandlerDisconnected,
         HandlerClear, StatusAfterLoss, HandlerDelayOver, HandlerUpgrade,
         HandlerUpgradeStarts, bitsAndCalls
    <2>3. hev["order"] \in {"disconnected", "clear"} =>
             hev'["order"] \in {"disconnected", "clear"} \/ ~status'
      BY <1>3 DEF Handler, HandlerError, HandlerSendOrder, HandlerDisconnected, HandlerClear,
         StatusAfterLoss, HandlerDelayOver, HandlerUpgrade, HandlerUpgradeStarts, Goes,
         TypeInv, Ranges, Tasks
    <2> QED
      BY <2>1, <2>2, <2>3, RestoredStays DEF HandleMatches
  <1>4. CASE SendTask
    <2>1. UNCHANGED <<client, opc, status>>
      BY <1>4, Zenon DEF SendTask, SendWait, SendReceive, SendPerform, SendPerformed, SendLogs,
                         bitsAndCalls
    <2>2. UNCHANGED hev["order"]
      BY <1>4 DEF SendTask, SendWait, SendReceive, SendPerform, SendPerformed, SendLogs,
                  Perform, Goes, TypeInv, Ranges, Tasks
    <2> QED
      BY <2>1, <2>2, RestoredStays DEF HandleMatches
  <1>5. CASE Around \/ UNCHANGED hcvars
    <2>1. UNCHANGED <<client, opc, hev>>
      BY <1>5, Zenon DEF Around, Callbacks, CbWifiConnect, CbWifiConnectSend, CbWifiLost,
         CbWifiLostClear, OtaFails, OtaFailsSetsStatus, AppSends, AppChecks, Calls, hcvars
    <2> QED
      BY <2>1, RestoredStays, WhoSetsStatus DEF HandleMatches
  <1>6. CASE HCRestart
    BY <1>6 DEF HCRestart, HCReset, HandleMatches
  <1> QED
    BY <1>1, <1>2, <1>3, <1>4, <1>5, <1>6, HCNextSplit

\* HC_STATUS_OK is set only over a handle, whatever the two tasks and their handlers
\* do to both, except by a failed upgrade; and every variable is in its range.
THEOREM StatusNeedsHandle == MCSpec => []StatusMeansClient
  <1>1. MCInit => HandleMatches
    BY DEF MCInit, HCInitial, HandleMatches
  <1>2. TypeInv /\ HandleMatches /\ [MCNext]_<<hcvars, calls, history>> => HandleMatches'
    BY NextHandleMatches
  <1>3. TypeInv /\ HandleMatches => StatusMeansClient
    BY TypeInvMeans DEF HandleMatches, StatusMeansClient
  <1> QED
    BY <1>1, <1>2, <1>3, MCTypeInv, PTL DEF MCSpec

----------------------------------------------------------------------------
(***************************************************************************)
(* What the application and the flash log are told.                        *)
(***************************************************************************)
\* The bit is set without the callbacks having run only between the two halves of
\* OrderReady, and withdrawn without the bit having gone only in the handlers.
Announced ==
    status => \/ ready \/ withdrawn \/ restored \/ opc = "ready"
              \/ \E t \in Tasks : hev[t] \in {"clear", "upgrade clear"}

LEMMA WithdrawnStays ==
  ASSUME [MCNext]_<<hcvars, calls, history>>, withdrawn, ~ready'
  PROVE  withdrawn'
  <1>1. CASE Remembers
    BY <1>1 DEF Remembers
  <1>2. CASE UNCHANGED history
    BY <1>2 DEF history
  <1> QED
    BY <1>1, <1>2 DEF MCNext

LEMMA LossIsRemembered ==
  ASSUME [MCNext]_<<hcvars, calls, history>>, CbWifiLost
  PROVE  withdrawn'
  <1>1. cb = "lost" /\ cb' = "clear" /\ ~ready'
    BY DEF CbWifiLost
  <1>2. Remembers
    BY <1>1 DEF MCNext, Asks, AppChecks, Calls, hcvars, bitsAndCalls
  <1> QED
    BY <1>1, <1>2 DEF Remembers

LEMMA NextAnnounced ==
  TypeInv /\ Announced /\ [MCNext]_<<hcvars, calls, history>> => Announced'
  <1> SUFFICES ASSUME TypeInv, Announced, [MCNext]_<<hcvars, calls, history>>, status'
               PROVE  Announced'
    BY DEF Announced
  <1> USE DEF queues, tasks
  <1>1. [HCNext]_hcvars
    BY MCIsHC
  <1>2. hev \in [Tasks -> HandlerStates]
    BY DEF TypeInv, Ranges
  <1>3. CASE OrderPerformed
    <2>1. CASE opc' = "ready"
      BY <2>1 DEF Announced
    <2>2. CASE opc' # "ready"
      <3>1. UNCHANGED <<status, ready, hev>> /\ opc # "ready"
        BY <1>3, <2>2 DEF OrderPerformed
      <3> QED
        BY <3>1, RestoredStays, WithdrawnStays DEF Announced
    <2> QED
      BY <2>1, <2>2
  <1>4. CASE OrderReady
    BY <1>4 DEF OrderReady, ReadyAfterConnect, Announced
  <1>5. CASE OrderTask /\ ~OrderPerformed /\ ~OrderReady
    <2>1. UNCHANGED <<status, ready>>
      BY <1>5, Zenon DEF OrderTask, OrderReceive, OrderClose, OrderForget, OrderInit,
                         OrderPerform, bitsAndCalls
    <2>2. opc # "ready" /\ \A t \in Tasks : hev[t] # "none" => hev'[t] = hev[t]
      BY <1>2, <1>5 DEF OrderTask, OrderReceive, OrderClose, OrderForget, OrderInit,
                         OrderPerform, Perform, Goes, Tasks
    <2> QED
      BY <2>1, <2>2, RestoredStays, WithdrawnStays DEF Announced
  <1>6. ASSUME NEW t \in Tasks, Handler(t) PROVE Announced'
    <2>1. CASE HandlerDisconnected(t) \/ HandlerUpgrade(t)
      <3>1. hev'[t] \in {"clear", "upgrade clear"}
        BY <1>2, <2>1 DEF HandlerDisconnected, HandlerUpgrade, Goes
      <3> QED
        BY <3>1 DEF Announced
    <2>2. ~HandlerClear(t) /\ ~HandlerUpgradeStarts(t)
      BY DEF HandlerClear, StatusAfterLoss, HandlerUpgradeStarts
    <2>3. CASE HandlerError(t) \/ HandlerSendOrder(t) \/ HandlerDelayOver(t)
      <3>1. UNCHANGED <<status, ready, opc>>
        BY <2>3, Zenon DEF HandlerError, HandlerSendOrder, HandlerDelayOver, bitsAndCalls
      <3>2. \A u \in Tasks : hev[u] \in {"clear", "upgrade clear"} => hev'[u] = hev[u]
        BY <1>2, <2>3 DEF HandlerError, HandlerSendOrder, HandlerDelayOver, Goes
      <3> QED
        BY <3>1, <3>2, RestoredStays, WithdrawnStays DEF Announced
    <2> QED
      BY <1>6, <2>1, <2>2, <2>3 DEF Handler
  <1>7. CASE SendTask
    <2>1. UNCHANGED <<status, ready, opc>>
      BY <1>7, Zenon DEF SendTask, SendWait, SendReceive, SendPerform, SendPerformed, SendLogs,
                         bitsAndCalls
    <2>2. \A t \in Tasks : hev[t] # "none" => hev'[t] = hev[t]
      BY <1>2, <1>7 DEF SendTask, SendWait, SendReceive, SendPerform, SendPerformed, SendLogs,
                        Perform, Goes, Tasks
    <2> QED
      BY <2>1, <2>2, RestoredStays, WithdrawnStays DEF Announced
  <1>8. CASE Around \/ UNCHANGED hcvars
    <2>1. CASE CbWifiLost
      BY <2>1, LossIsRemembered DEF Announced
    <2>2. CASE OtaFails
      BY <2>2 DEF OtaFails, Announced
    <2>3. CASE OtaFailsSetsStatus /\ ~status
      BY <2>3, WhoSetsStatus DEF OtaFailsSetsStatus, Announced
    <2>4. CASE ~CbWifiLost /\ ~OtaFails /\ ~(OtaFailsSetsStatus /\ ~status)
      <3>1. UNCHANGED <<ready, opc, hev>>
        BY <1>8, <2>4, Zenon DEF Around, Callbacks, CbWifiConnect, CbWifiConnectSend,
           CbWifiLostClear, OtaFailsSetsStatus, AppSends, AppChecks, Calls, hcvars, bitsAndCalls
      <3>2. status' => status
        BY <1>8, <2>4, Zenon DEF Around, Callbacks, CbWifiConnect, CbWifiConnectSend,
           CbWifiLostClear, AppSends, AppChecks, Calls, hcvars, bitsAndCalls
      <3> QED
        BY <3>1, <3>2, RestoredStays, WithdrawnStays DEF Announced
    <2> QED
      BY <2>1, <2>2, <2>3, <2>4
  <1>9. CASE HCRestart
    BY <1>9 DEF HCRestart, HCReset
  <1> QED
    BY <1>1, <1>3, <1>4, <1>5, <1>6, <1>7, <1>8, <1>9, HCNextSplit

\* At rest the application and the flash log know whether the client is connected,
\* with the two exceptions of ReadyAnnounced.
THEOREM ConnectionAnnounced == MCSpec => []ReadyAnnounced
  <1>1. MCInit => Announced
    BY DEF MCInit, HCInitial, Announced
  <1>2. TypeInv /\ Announced /\ [MCNext]_<<hcvars, calls, history>> => Announced'
    BY NextAnnounced
  <1>3. Announced => ReadyAnnounced
    BY DEF Announced, ReadyAnnounced, AtRest
  <1> QED
    BY <1>1, <1>2, <1>3, MCTypeInv, PTL DEF MCSpec

----------------------------------------------------------------------------
(***************************************************************************)
(* The attempts of the send task.                                          *)
(***************************************************************************)
\* do ... while (try_to_send--): what has been tried and what is left to try.
Attempts ==
    /\ tried \in Nat
    /\ spc = "perform"   => tried + tries = MaxTrySend
    /\ spc = "performed" => tried + tries = MaxTrySend + 1
    /\ spc \notin {"perform", "performed"} => tried = 0

LEMMA NextAttempts ==
  TypeInv /\ Attempts /\ [MCNext]_<<hcvars, calls, history>> => Attempts'
  <1> SUFFICES ASSUME TypeInv, Attempts, [MCNext]_<<hcvars, calls, history>> PROVE Attempts'
    OBVIOUS
  <1>1. MaxTrySend \in Nat /\ tries \in Nat /\ tried \in Nat
    BY LimitsOK DEF TypeInv, Ranges, Limits, Attempts
  <1>2. CASE UNCHANGED <<spc, tries, tried>>
    BY <1>2 DEF Attempts
  <1>3. CASE Remembers /\ UNCHANGED <<spc, tries>>
    <2>1. spc \in {"perform", "performed"} => tried' = tried
      BY <1>3 DEF Remembers
    <2>2. spc \notin {"perform", "performed"} => tried' = 0
      BY <1>3 DEF Remembers
    <2> QED
      BY <1>3, <2>1, <2>2 DEF Attempts
  <1>4. CASE Remembers /\ SendTask
    <2>1. CASE SendReceive
      BY <1>1, <1>4, <2>1 DEF SendReceive, Remembers, Attempts
    <2>2. ASSUME NEW o \in Outcomes, SendPerform(o) PROVE Attempts'
      <3>1. spc = "perform" /\ spc' = "performed" /\ tries' = tries
        BY <2>2 DEF SendPerform, tasks
      <3>2. tried' = tried + 1
        BY <1>4, <3>1 DEF Remembers
      <3> QED
        BY <1>1, <3>1, <3>2 DEF Attempts
    <2>3. CASE SendPerformed
      BY <1>1, <1>4, <2>3 DEF SendPerformed, LastTry, Remembers, Attempts
    <2>4. CASE SendWait \/ SendLogs
      BY <1>1, <1>4, <2>4 DEF SendWait, SendLogs, Remembers, Attempts, tasks
    <2> QED
      BY <1>4, <2>1, <2>2, <2>3, <2>4 DEF SendTask
  <1>5. CASE Remembers /\ HCRestart
    BY <1>5 DEF Remembers, HCRestart, HCReset, Attempts
  <1>6. ASSUME Around \/ OrderTask \/ \E t \in Tasks : Handler(t)
        PROVE  UNCHANGED <<spc, tries>>
    <2>1. Around => UNCHANGED <<spc, tries>>
      BY Zenon DEF Around, Callbacks, CbWifiConnect, CbWifiConnectSend, CbWifiLost,
         CbWifiLostClear, OtaFails, OtaFailsSetsStatus, AppSends, AppChecks, Calls, tasks
    <2>2. OrderTask => UNCHANGED <<spc, tries>>
      BY Zenon DEF OrderTask, OrderReceive, OrderClose, OrderForget, OrderInit, OrderPerform,
         OrderPerformed, OrderReady, tasks
    <2>3. ASSUME NEW t \in Tasks, Handler(t) PROVE UNCHANGED <<spc, tries>>
      BY <2>3, Zenon DEF Handler, HandlerError, HandlerSendOrder, HandlerDisconnected,
         HandlerClear, HandlerDelayOver, HandlerUpgrade, HandlerUpgradeStarts, tasks
    <2> QED
      BY <1>6, <2>1, <2>2, <2>3
  <1>7. ASSUME Asks \/ UNCHANGED hcvars PROVE UNCHANGED <<spc, tries>>
    BY <1>7, Zenon DEF Asks, AppChecks, Calls, hcvars, tasks
  <1> QED
    BY <1>2, <1>3, <1>4, <1>5, <1>6, <1>7, HCNextSplit DEF MCNext, HCNext, Finds, history

\* A request whose headers never come is performed MaxTrySend + 1 times, neither
\* more nor less often, and is then given up.
THEOREM RequestsGivenUp == MCSpec => GivesUpAfterAllTries
  <1> DEFINE Inv == TypeInv /\ Attempts
             Gives == spc = "performed" /\ spc' \in {"perform", "log"} /\ result["send"] = "fetch" =>
                        (spc' = "log" <=> tried = MaxTrySend + 1)
  <1>1. MCInit => Attempts
    BY DEF MCInit, HCInitial, Attempts
  <1>2. TypeInv /\ Attempts /\ [MCNext]_<<hcvars, calls, history>> => Attempts'
    BY NextAttempts
  <1>3. Inv /\ [MCNext]_<<hcvars, calls, history>> => [Gives]_<<hcvars, calls, history>>
    <2> SUFFICES ASSUME TypeInv, Attempts, [HCNext]_hcvars, spc = "performed",
                        spc' \in {"perform", "log"}, result["send"] = "fetch"
                 PROVE  spc' = "log" <=> tried = MaxTrySend + 1
      BY MCIsHC
    <2>1. SendPerformed
      <3>1. Around \/ OrderTask \/ UNCHANGED hcvars => UNCHANGED spc
        BY Zenon DEF Around, Callbacks, CbWifiConnect, CbWifiConnectSend, CbWifiLost,
           CbWifiLostClear, OtaFails, OtaFailsSetsStatus, AppSends, AppChecks, Calls, OrderTask,
           OrderReceive, OrderClose, OrderForget, OrderInit, OrderPerform, OrderPerformed,
           OrderReady, hcvars, tasks
      <3>2. ASSUME NEW t \in Tasks, Handler(t) PROVE UNCHANGED spc
        BY <3>2, Zenon DEF Handler, HandlerError, HandlerSendOrder, HandlerDisconnected,
           HandlerClear, HandlerDelayOver, HandlerUpgrade, HandlerUpgradeStarts, tasks
      <3>3. ~HCRestart
        BY DEF HCRestart, HCReset
      <3> QED
        BY <3>1, <3>2, <3>3, HCNextSplit
           DEF SendTask, SendWait, SendReceive, SendPerform, SendLogs
    <2>2. tries \in Nat /\ tried \in Nat /\ MaxTrySend \in Nat
      BY LimitsOK DEF TypeInv, Ranges, Limits, Attempts
    <2> QED
      BY <2>1, <2>2 DEF SendPerformed, LastTry, Attempts
  <1> QED
    BY <1>1, <1>2, <1>3, MCTypeInv, PTL DEF MCSpec, GivesUpAfterAllTries
=============================================================================
