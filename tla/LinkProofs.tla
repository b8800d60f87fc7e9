----------------------------- MODULE LinkProofs -----------------------------
(***************************************************************************)
(* Theorems about what becomes of the station link, for every queue        *)
(* length, retry maximum and set of requests and orders: that the device   *)
(* comes to rest out of reach in one way only, that the manager implements *)
(* LinkFeed, that what was forgotten is not joined again, what the         *)
(* http client takes the link for, and how many attempts the portal opens  *)
(* after.                                                                  *)
(***************************************************************************)
EXTENDS MCWifiManager, MCWifiClient, WifiManagerProofs, FiniteSetTheorems

(***************************************************************************)
(* Coming to rest out of reach.                                            *)
(***************************************************************************)
\* A message waits in the queue, and waits without a message n behind it; an event
\* waits in the event loop, and every event e there has an event f behind it.
Waits(m) == \E i \in 1..Len(queue) : queue[i] = m
Past(m, n) == \E i \in 1..Len(queue) :
                 queue[i] = m /\ \A j \in (i + 1)..Len(queue) : queue[j] # n
Posted(e) == \E i \in 1..Len(evq) : evq[i] = e
Followed(e, f) ==
    \A i \in 1..Len(evq) : evq[i] = e => \E j \in (i + 1)..Len(evq) : evq[j] = f

ApEvents == {"AP_START", "AP_STOP"}
NoAp == \A i \in 1..Len(evq) : evq[i] \notin ApEvents
DropLast == \E i \in 1..Len(evq) :
               /\ evq[i] = "STA_DISCONNECTED"
               /\ \A j \in (i + 1)..Len(evq) : evq[j] \notin ApEvents

Handling(m) == mpc = "json" /\ msg = m

\* No task has asked for the connection whose failure is not retried.
NoUserConnect ==
    /\ "REQUEST_STA_CONNECT" \notin bits /\ "REQUEST_STA_CONNECT" \notin ux
    /\ ~Waits("CONNECT_USER")

\* While the link is down the event that says so is still to come wherever the
\* CONNECTED bit, or an event that will set it, says otherwise.
DropFollows ==
    link \in {"down", "joining"} =>
        /\ Connected => Posted("STA_DISCONNECTED")
        /\ Followed("STA_GOT_IP", "STA_DISCONNECTED")

\* The same of the access point and the AP_STARTED bit.
ApFollows ==
    ~apUp =>
        /\ "AP_STARTED" \in bits => Posted("AP_STOP")
        /\ Followed("AP_START", "AP_STOP")

AddressMeansNoLosses == sta_ip => retries = 0 /\ ~Handling("STA_DISCONNECTED")

\* A request to configure that comes while a loss is handled orders a load.
SetupLoads ==
    Handling("STA_DISCONNECTED") /\ "CONFIGURE_MODE" \in bits \ ux =>
        hpc = "connect" \/ Waits("LOAD_AND_RESTORE_STA")

\* The order that ends the portal, and an order to open it that comes after.
EndsPortal == \/ Waits("HTTP_CLIENT_INIT")
              \/ mpc = "send" /\ out = "HTTP_CLIENT_INIT"
              \/ mpc = "httpd_stop" /\ msg = "HTTP_CLIENT_INIT"
StartWaits == Past("START_AP", "HTTP_CLIENT_INIT")
StartComes == \/ mpc = "send" /\ out = "START_AP"
              \/ StartWaits /\ ~(mpc = "send" /\ out = "HTTP_CLIENT_INIT")

\* A load ends in an order to join or to open the portal.
LoadSends ==
    /\ mpc = "send" /\ msg = "LOAD_AND_RESTORE_STA" => out # "HTTP_CLIENT_INIT"
    /\ mpc = "load" => Waits("CONNECT_RESTORE") \/ StartWaits

\* What still happens when the link is down: an order to join or to open the
\* portal is to come,
OrderComes ==
    \/ timer \/ tick \/ hpc = "connect"
    \/ Waits("CONNECT_AUTO") \/ Waits("CONNECT_RESTORE") \/ Waits("LOAD_AND_RESTORE_STA")
    \/ mpc = "send" /\ out = "CONNECT_RESTORE"
    \/ StartComes

\* the loss being handled ends in one,
WillRetry == Handling("STA_DISCONNECTED") /\
    (retries < MaxRetry \/ "REQUEST_DISCONNECT" \in ux \/ CountsRetry(ux))

\* the link was up, so that its loss is still to be handled,
WasUp == sta_ip \/ Waits("STA_GOT_IP") \/ hand = "STA_GOT_IP" \/ Posted("STA_GOT_IP")

\* a loss is still to be handled, with the access point off by then,
DropWaits == Waits("STA_DISCONNECTED") \/ hand = "STA_DISCONNECTED"
DropAfterAp == DropLast \/ (DropWaits /\ NoAp)
DropComes == DropWaits \/ Posted("STA_DISCONNECTED") \/ Handling("STA_DISCONNECTED")

\* or the access point is on and stays.
Stranded == retries = MaxRetry /\ "CONFIGURE_MODE" \notin bits
PortalStays == /\ ~EndsPortal
               /\ (http /\ dns) \/ (mpc = "httpd_stop" /\ msg = "START_AP")

Rescued == \/ OrderComes \/ WillRetry \/ WasUp
           \/ ~apUp /\ DropAfterAp
           \/ apUp /\ (DropComes \/ Stranded \/ PortalStays)

\* The inductive invariant.
ReachInv == /\ NoUserConnect /\ DropFollows /\ ApFollows /\ AddressMeansNoLosses
            /\ SetupLoads /\ LoadSends
            /\ link = "down" => Rescued

\* What a send, a receive, a posted event and a handled one make of these.
LEMMA QueueKept ==
  ASSUME queue' = queue
  PROVE  /\ \A k : Waits(k)' <=> Waits(k)
         /\ \A k, e : Past(k, e)' <=> Past(k, e)
         /\ StartWaits' <=> StartWaits
  BY DEF Waits, Past, StartWaits

LEMMA QueueSend ==
  ASSUME TypeData, NEW m \in Messages, Send(m)
  PROVE  /\ \A k : Waits(k)' <=> Waits(k) \/ k = m
         /\ \A k, e : Past(k, e) => Past(k, e)' \/ m = e
         /\ \A e : Past(m, e)'
         /\ StartWaits => StartWaits' \/ m = "HTTP_CLIENT_INIT"
         /\ m = "START_AP" => StartWaits'
  <1>1. queue' = Append(queue, m) /\ queue \in Seq(Messages)
    BY DEF Send, SendTo, TypeData
  <1>2. /\ Len(queue') = Len(queue) + 1 /\ Len(queue) \in Nat
        /\ \A i \in 1..Len(queue) : queue'[i] = queue[i]
        /\ queue'[Len(queue) + 1] = m
    BY <1>1
  <1>3. \A k : Waits(k)' <=> Waits(k) \/ k = m
    BY <1>2 DEF Waits
  <1>4. ASSUME NEW k, NEW e, Past(k, e), m # e PROVE Past(k, e)'
    <2>1. PICK i \in 1..Len(queue) :
             queue[i] = k /\ \A j \in (i + 1)..Len(queue) : queue[j] # e
      BY <1>4 DEF Past
    <2>2. i \in 1..Len(queue') /\ queue'[i] = k
      BY <1>2, <2>1
    <2>3. \A j \in (i + 1)..Len(queue') : queue'[j] # e
      BY <1>2, <1>4, <2>1
    <2> QED
      BY <2>2, <2>3 DEF Past
  <1>5. ASSUME NEW e PROVE Past(m, e)'
    <2>1. Len(queue') \in 1..Len(queue') /\ queue'[Len(queue')] = m
      BY <1>2
    <2>2. \A j \in (Len(queue') + 1)..Len(queue') : FALSE
      BY <1>2
    <2> QED
      BY <2>1, <2>2 DEF Past
  <1> QED
    BY <1>3, <1>4, <1>5 DEF StartWaits

LEMMA QueueReceive ==
  ASSUME TypeData, NEW m, Receive(m)
  PROVE  /\ \A k : Waits(k)' => Waits(k)
         /\ \A k : Waits(k) => Waits(k)' \/ k = m
         /\ Waits(m)
         /\ \A k, e : Past(k, e) => Past(k, e)' \/ (m = k /\ ~Waits(e)')
         /\ StartWaits => StartWaits' \/ (m = "START_AP" /\ ~Waits("HTTP_CLIENT_INIT")')
  <1>1. queue # << >> /\ queue' = Tail(queue) /\ queue \in Seq(Messages) /\ m = Head(queue)
    BY DEF Receive, TypeData
  <1>2. /\ Len(queue') = Len(queue) - 1 /\ Len(queue) \in Nat \ {0} /\ queue[1] = m
        /\ \A i \in 1..Len(queue') : queue'[i] = queue[i + 1]
    BY <1>1
  <1>a. \A i \in 2..Len(queue) : i - 1 \in 1..Len(queue') /\ queue'[i - 1] = queue[i]
    BY <1>2
  <1>b. \A i \in 1..Len(queue') : i + 1 \in 1..Len(queue) /\ queue'[i] = queue[i + 1]
    BY <1>2
  <1>c. \A i \in 1..Len(queue) : i = 1 \/ i \in 2..Len(queue)
    BY <1>2
  <1>d. 1 \in 1..Len(queue)
    BY <1>2
  <1>3. \A k : Waits(k)' => Waits(k)
    BY <1>b DEF Waits
  <1>4. \A k : Waits(k) => Waits(k)' \/ k = m
    BY <1>2, <1>a, <1>c DEF Waits
  <1>5. Waits(m)
    BY <1>2, <1>d DEF Waits
  <1>6. ASSUME NEW k, NEW e, Past(k, e), ~Past(k, e)'
        PROVE  m = k /\ ~Waits(e)'
    <2>1. PICK i \in 1..Len(queue) :
             queue[i] = k /\ \A j \in (i + 1)..Len(queue) : queue[j] # e
      BY <1>6 DEF Past
    <2>2. CASE i = 1
      <3>1. \A j \in 1..Len(queue') : j + 1 \in (i + 1)..Len(queue)
        BY <1>2, <2>2
      <3>2. ~Waits(e)'
        BY <3>1, <2>1, <1>b DEF Waits
      <3> QED
        BY <3>2, <2>1, <2>2, <1>2
    <2>3. CASE i # 1
      <3>1. i - 1 \in 1..Len(queue') /\ queue'[i - 1] = k
        BY <2>1, <2>3, <1>a, <1>c
      <3>2. \A j \in ((i - 1) + 1)..Len(queue') : j + 1 \in (i + 1)..Len(queue) /\ j \in 1..Len(queue')
        BY <1>2, <2>3
      <3>3. \A j \in ((i - 1) + 1)..Len(queue') : queue'[j] # e
        BY <3>2, <2>1, <1>b
      <3> QED
        BY <3>1, <3>3, <1>6 DEF Past
    <2> QED
      BY <2>2, <2>3
  <1> QED
    BY <1>3, <1>4, <1>5, <1>6 DEF StartWaits

\* What holds of the events while none is posted and none handled,
LEMMA EventsKept ==
  ASSUME evq' = evq
  PROVE  /\ \A k : Posted(k)' <=> Posted(k)
         /\ NoAp' <=> NoAp
         /\ DropLast' <=> DropLast
         /\ \A e, f : Followed(e, f) => Followed(e, f)'
  <1>1. \A k : Posted(k)' <=> Posted(k)
    BY DEF Posted
  <1>2. (NoAp' <=> NoAp) /\ (DropLast' <=> DropLast)
    BY DEF NoAp, DropLast
  <1>3. \A e, f : Followed(e, f) => Followed(e, f)'
    BY DEF Followed
  <1> QED
    BY <1>1, <1>2, <1>3

\* when one is posted,
LEMMA EventsPost ==
  ASSUME TypeData, NEW e, evq' = Append(evq, e)
  PROVE  /\ \A k : Posted(k)' <=> Posted(k) \/ k = e
         /\ NoAp => NoAp' \/ e \in ApEvents
         /\ DropLast => DropLast' \/ e \in ApEvents
         /\ e = "STA_DISCONNECTED" => DropLast'
         /\ \A f, g : Followed(f, g) /\ e # f => Followed(f, g)'
         /\ \A f : f # e => Followed(f, e)'
  <1>2. /\ Len(evq') = Len(evq) + 1 /\ Len(evq) \in Nat
        /\ \A i \in 1..Len(evq) : evq'[i] = evq[i]
        /\ evq'[Len(evq) + 1] = e
    BY DEF TypeData
  <1>a. \A i \in 1..Len(evq) : i \in 1..Len(evq') /\ Len(evq) + 1 \in (i + 1)..Len(evq')
    BY <1>2
  <1>b. \A i \in 1..Len(evq') : i \in 1..Len(evq) \/ i = Len(evq) + 1
    BY <1>2
  <1>c. Len(evq) + 1 \in 1..Len(evq') /\ \A j \in ((Len(evq) + 1) + 1)..Len(evq') : FALSE
    BY <1>2
  <1>d. \A i \in 1..Len(evq) : \A j \in (i + 1)..Len(evq') :
           (j \in (i + 1)..Len(evq) /\ j \in 1..Len(evq)) \/ j = Len(evq) + 1
    BY <1>2
  <1>e. \A i \in 1..Len(evq) : \A j \in (i + 1)..Len(evq) :
           j \in (i + 1)..Len(evq') /\ j \in 1..Len(evq)
    BY <1>2
  <1>3. \A k : Posted(k)' <=> Posted(k) \/ k = e
    BY <1>2, <1>a, <1>b, <1>c DEF Posted
  <1>4. NoAp => NoAp' \/ e \in ApEvents
    BY <1>2, <1>b DEF NoAp
  <1>5. DropLast => DropLast' \/ e \in ApEvents
    <2> SUFFICES ASSUME e \notin ApEvents, NEW i \in 1..Len(evq),
                        evq[i] = "STA_DISCONNECTED",
                        \A j \in (i + 1)..Len(evq) : evq[j] \notin ApEvents
                 PROVE  DropLast'
      BY DEF DropLast
    <2>1. i \in 1..Len(evq') /\ evq'[i] = "STA_DISCONNECTED"
      BY <1>2, <1>a
    <2>2. \A j \in (i + 1)..Len(evq') : evq'[j] \notin ApEvents
      BY <1>2, <1>d
    <2> QED
      BY <2>1, <2>2 DEF DropLast
  <1>6. e = "STA_DISCONNECTED" => DropLast'
    <2> SUFFICES ASSUME e = "STA_DISCONNECTED" PROVE DropLast'
      OBVIOUS
    <2>2. \A j \in ((Len(evq) + 1) + 1)..Len(evq') : evq'[j] \notin ApEvents
      BY <1>c
    <2> QED
      BY <2>2, <1>2, <1>c DEF DropLast
  <1>7. ASSUME NEW f, NEW g, Followed(f, g), e # f PROVE Followed(f, g)'
    <2> SUFFICES ASSUME NEW i \in 1..Len(evq'), evq'[i] = f
                 PROVE  \E j \in (i + 1)..Len(evq') : evq'[j] = g
      BY DEF Followed
    <2>1. i \in 1..Len(evq) /\ evq[i] = f
      BY <1>2, <1>b, <1>7
    <2>2. PICK j \in (i + 1)..Len(evq) : evq[j] = g
      BY <2>1, <1>7 DEF Followed
    <2> QED
      BY <2>1, <2>2, <1>2, <1>e
  <1>8. ASSUME NEW f, f # e PROVE Followed(f, e)'
    <2> SUFFICES ASSUME NEW i \in 1..Len(evq'), evq'[i] = f
                 PROVE  \E j \in (i + 1)..Len(evq') : evq'[j] = e
      BY DEF Followed
    <2>1. i \in 1..Len(evq)
      BY <1>2, <1>b, <1>8
    <2> QED
      BY <2>1, <1>2, <1>a
  <1> QED
    BY <1>3, <1>4, <1>5, <1>6, <1>7, <1>8

\* and when the event task takes the first.
LEMMA EventsTake ==
  ASSUME TypeData, evq # << >>, evq' = Tail(evq), NEW e, e = Head(evq)
  PROVE  /\ \A k : Posted(k)' => Posted(k)
         /\ \A k : Posted(k) => Posted(k)' \/ k = e
         /\ NoAp => NoAp'
         /\ DropLast => DropLast' \/ (e = "STA_DISCONNECTED" /\ NoAp')
         /\ \A f, g : Followed(f, g) => Followed(f, g)'
         /\ \A f, g : Followed(f, g) /\ e = f => Posted(g)'
  <1>2. /\ Len(evq') = Len(evq) - 1 /\ Len(evq) \in Nat \ {0} /\ evq[1] = e
        /\ \A i \in 1..Len(evq') : evq'[i] = evq[i + 1]
    BY DEF TypeData
  <1>a. \A i \in 2..Len(evq) : i - 1 \in 1..Len(evq') /\ evq'[i - 1] = evq[i]
    BY <1>2
  <1>b. \A i \in 1..Len(evq') : i + 1 \in 1..Len(evq) /\ evq'[i] = evq[i + 1]
    BY <1>2
  <1>c. \A i \in 1..Len(evq) : i = 1 \/ i \in 2..Len(evq)
    BY <1>2
  <1>d. 1 \in 1..Len(evq)
    BY <1>2
  <1>3. \A k : Posted(k)' => Posted(k)
    BY <1>b DEF Posted
  <1>4. \A k : Posted(k) => Posted(k)' \/ k = e
    BY <1>2, <1>a, <1>c DEF Posted
  <1>5. NoAp => NoAp'
    BY <1>b DEF NoAp
  <1>6. ASSUME DropLast, ~DropLast' PROVE e = "STA_DISCONNECTED" /\ NoAp'
    <2>1. PICK i \in 1..Len(evq) : /\ evq[i] = "STA_DISCONNECTED"
                                   /\ \A j \in (i + 1)..Len(evq) : evq[j] \notin ApEvents
      BY <1>6 DEF DropLast
    <2>2. CASE i = 1
      <3>1. \A j \in 1..Len(evq') : j + 1 \in (i + 1)..Len(evq)
        BY <1>2, <2>2
      <3> QED
        BY <3>1, <2>1, <2>2, <1>2 DEF NoAp
    <2>3. CASE i # 1
      <3>1. i - 1 \in 1..Len(evq') /\ evq'[i - 1] = "STA_DISCONNECTED"
        BY <2>1, <2>3, <1>a, <1>c
      <3>2. \A j \in ((i - 1) + 1)..Len(evq') : j + 1 \in (i + 1)..Len(evq) /\ j \in 1..Len(evq')
        BY <1>2, <2>3
      <3>3. \A j \in ((i - 1) + 1)..Len(evq') : evq'[j] \notin ApEvents
        BY <3>2, <2>1, <1>b
      <3> QED
        BY <3>1, <3>3, <1>6 DEF DropLast
    <2> QED
      BY <2>2, <2>3
  <1>7. ASSUME NEW f, NEW g, Followed(f, g) PROVE Followed(f, g)'
    <2> SUFFICES ASSUME NEW i \in 1..Len(evq'), evq'[i] = f
                 PROVE  \E j \in (i + 1)..Len(evq') : evq'[j] = g
      BY DEF Followed
    <2>1. i + 1 \in 1..Len(evq) /\ evq[i + 1] = f
      BY <1>b
    <2>2. PICK j \in ((i + 1) + 1)..Len(evq) : evq[j] = g
      BY <2>1, <1>7 DEF Followed
    <2>3. j - 1 \in (i + 1)..Len(evq') /\ evq'[j - 1] = g
      BY <1>2, <2>1, <2>2
    <2> QED
      BY <2>3
  <1>8. ASSUME NEW f, NEW g, Followed(f, g), e = f PROVE Posted(g)'
    <2>1. PICK j \in (1 + 1)..Len(evq) : evq[j] = g
      BY <1>8, <1>2, <1>d DEF Followed
    <2> QED
      BY <2>1, <1>a DEF Posted
  <1> QED
    BY <1>3, <1>4, <1>5, <1>6, <1>7, <1>8

\* A message that another task sends.
LEMMA SentMessages ==
  ASSUME TypeData
  PROVE  /\ hand # "NONE" => hand \in EventMessages
         /\ EventMessages \subseteq Messages \ {"HTTP_CLIENT_INIT", "START_AP"}
         /\ {"CONNECT_AUTO", "START_WIFI_SCAN", "LOAD_AND_RESTORE_STA"} \subseteq Messages
         /\ Orders \subseteq Messages \ (EventMessages \cup {"HTTP_CLIENT_INIT", "START_AP"})
  BY OrdersAssumption DEF TypeData, Messages, EventMessages

\* With the link down something is still to happen after a step of any other task
\* or of the driver,
LEMMA RescuedOthers ==
  ASSUME TypeData, ReachInv, LinkViewConsistent, Others, link' = "down"
  PROVE  Rescued'
  <1> USE SentMessages
      DEF mgr, driver, web, Rescued, OrderComes, StartComes, WillRetry, Handling, WasUp,
          DropAfterAp, DropWaits, DropComes, Stranded, PortalStays, EndsPortal, apUp
  <1>1. CASE EventHandler
    <2> DEFINE e == Head(evq)
    <2>1. /\ evq # << >> /\ evq' = Tail(evq) /\ hand = "NONE"
          /\ bits' = BitsAfter(bits, e) /\ hand' = IF e \in EventMessages THEN e ELSE "NONE"
          /\ link = "down" /\ UNCHANGED <<queue, mgr, timer, tick, mode, web>>
      BY <1>1 DEF EventHandler
    <2> HIDE DEF e
    <2>2. /\ \A k : Posted(k) => Posted(k)' \/ k = e
          /\ NoAp => NoAp'
          /\ DropLast => DropLast' \/ (e = "STA_DISCONNECTED" /\ NoAp')
      BY <2>1, EventsTake DEF e
    <2>3. /\ "CONFIGURE_MODE" \in bits' => "CONFIGURE_MODE" \in bits
      BY <2>1 DEF BitsAfter
    <2>4. Rescued
      BY <2>1 DEF ReachInv
    <2> QED
      BY <2>1, <2>2, <2>3, <2>4, QueueKept DEF EventMessages
  <1>2. CASE EventSend
    <2>1. Send(hand) /\ hand \in Messages /\ hand \in EventMessages
      BY <1>2, Zenon DEF EventSend
    <2>2. Rescued
      BY <1>2 DEF EventSend, ReachInv
    <2>3. hand # "HTTP_CLIENT_INIT" /\ hand # "START_AP"
      BY <2>1 DEF EventMessages
    <2> QED
      BY <1>2, <2>1, <2>2, <2>3, QueueSend, EventsKept DEF EventSend
  <1>3. CASE TimerRetry
    BY <1>3, QueueKept, EventsKept DEF TimerRetry, ReachInv
  <1>4. CASE TimerRetrySend
    <2>1. Rescued /\ Send("CONNECT_AUTO") /\ "CONNECT_AUTO" \in Messages
      BY <1>4 DEF TimerRetrySend, ReachInv
    <2> QED
      BY <1>4, <2>1, QueueSend DEF TimerRetrySend
  <1>5. CASE Httpd
    <2>1. CASE GetApJsonSent
      BY <2>1, QueueKept, EventsKept DEF GetApJsonSent, ReachInv
    <2>2. CASE ScanAsync
      <3>1. Rescued /\ Send("START_WIFI_SCAN") /\ "START_WIFI_SCAN" \in Messages
        BY <2>2 DEF ScanAsync, ReachInv
      <3> QED
        BY <2>2, <3>1, QueueSend, EventsKept DEF ScanAsync
    <2>3. CASE ConnectAsync
      <3>1. Rescued /\ Send("LOAD_AND_RESTORE_STA") /\ "LOAD_AND_RESTORE_STA" \in Messages
        BY <2>3 DEF ConnectAsync, ReachInv
      <3> QED
        BY <2>3, <3>1, QueueSend DEF ConnectAsync
    <2> QED
      BY <1>5, <2>1, <2>2, <2>3 DEF Httpd
  <1>6. CASE Client
    <2>1. CASE GetApJson
      BY <2>1, QueueKept, EventsKept DEF GetApJson, Reaches, ReachInv
    <2>2. CASE GetConnect
      BY <2>2 DEF GetConnect
    <2>3. CASE PostWifiSetup
      BY <2>3, QueueKept, EventsKept DEF PostWifiSetup, ReachInv
    <2> QED
      BY <1>6, <2>1, <2>2, <2>3 DEF Client
  <1>7. ASSUME NEW m \in Orders, AppSend(m) PROVE Rescued'
    <2>1. Rescued /\ Send(m) /\ m \in Messages /\ m # "HTTP_CLIENT_INIT"
      BY <1>7 DEF AppSend, ReachInv
    <2> QED
      BY <1>7, <2>1, QueueSend, EventsKept DEF AppSend
  <1>8. CASE DriverJoined
    BY <1>8 DEF DriverJoined
  <1>9. CASE Disconnected
    <2>1. evq' = Append(evq, "STA_DISCONNECTED")
      BY <1>9 DEF Disconnected, Post
    <2>2. DropLast' /\ Posted("STA_DISCONNECTED")'
      BY <2>1, EventsPost
    <2> QED
      BY <2>2
  <1>10. CASE DriverScanDone
    <2>1. evq' = Append(evq, "SCAN_DONE") /\ Rescued
      BY <1>10 DEF DriverScanDone, Post, ReachInv
    <2>2. "SCAN_DONE" \notin ApEvents
      BY DEF ApEvents
    <2> QED
      BY <1>10, <2>1, <2>2, EventsPost, QueueKept DEF DriverScanDone
  <1>11. CASE Restart
    <2>1. Waits("LOAD_AND_RESTORE_STA")'
      BY <1>11 DEF Restart, Waits
    <2> QED
      BY <2>1
  <1> QED
    BY <1>1, <1>2, <1>3, <1>4, <1>5, <1>6, <1>7, <1>8, <1>9, <1>10, <1>11
       DEF Others, Driver, DriverJoinFails, DriverLeaves, DriverLosesLink

\* Every nonempty set of places has a last one: of the intervals from its elements
\* to the end one contains no other.
LEMMA GreatestElement ==
  ASSUME NEW n \in Nat, NEW T \in SUBSET (1..n), T # {}
  PROVE  \E x \in T : \A y \in T : y <= x
  <1> DEFINE Above == {x..n : x \in T}
             Order == StrictSubsetOrdering(1..n)
  <1>1. IsWellFoundedOn(Order, SUBSET (1..n))
    <2>1. 1 \in Int /\ n \in Int
      OBVIOUS
    <2>2. IsFiniteSet(1..n)
      BY <2>1, FS_Interval
    <2>3. FiniteSubsetsOf(1..n) = SUBSET (1..n)
      BY <2>2, FS_FiniteSubsetsOfFinite
    <2>4. IsWellFoundedOn(StrictSubsetOrdering(1..n), FiniteSubsetsOf(1..n))
      BY FS_StrictSubsetOrderingWellFounded
    <2> QED
      BY <2>3, <2>4
  <1>2. Above \subseteq SUBSET (1..n) /\ Above # {}
    <2>1. ASSUME NEW x \in T PROVE x..n \subseteq 1..n
      <3>1. x \in 1..n
        OBVIOUS
      <3> QED
        BY <3>1
    <2>2. \A E \in Above : E \in SUBSET (1..n)
      BY <2>1, Zenon
    <2> QED
      BY <2>2, Zenon
  <1>3. PICK D \in Above : \A E \in Above : <<E, D>> \notin Order
    <2> HIDE DEF Order, Above
    <2> QED
      BY <1>1, <1>2, WFMin
  <1>4. PICK x \in T : D = x..n
    OBVIOUS
  <1>5. ASSUME NEW y \in T, ~(y <= x) PROVE FALSE
    <2>0. x \in Int /\ y \in Int /\ x < y /\ x <= n
      BY <1>5
    <2>1. y..n \in Above
      OBVIOUS
    <2>2. y..n \subseteq D /\ x \in D /\ x \notin y..n
      BY <1>4, <2>0
    <2> QED
      BY <1>2, <1>3, <2>1, <2>2 DEF StrictSubsetOrdering
  <1> QED
    BY <1>5

\* The CONNECTED bit tells of a link that was up.
LEMMA ConnectedWasUp ==
  ASSUME TypeData, LinkViewConsistent, Connected
  PROVE  WasUp
  <1>1. CASE hand \in LinkMessages
    BY <1>1 DEF LinkViewConsistent, LinkInHand, WasUp
  <1>2. CASE hand \notin LinkMessages
    <2>1. CASE \A i \in 1..Len(queue) : queue[i] \notin LinkMessages
      BY <1>2, <2>1 DEF LinkViewConsistent, LinkSettled, WasUp
    <2>2. CASE \E i \in 1..Len(queue) : queue[i] \in LinkMessages
      <3> DEFINE L == {i \in 1..Len(queue) : queue[i] \in LinkMessages}
      <3>1. Len(queue) \in Nat /\ L \in SUBSET (1..Len(queue)) /\ L # {}
        BY <2>2 DEF TypeData
      <3>2. PICK i \in L : \A j \in L : j <= i
        <4> HIDE DEF L
        <4> QED
          BY <3>1, GreatestElement
      <3>3. \A j \in (i + 1)..Len(queue) : queue[j] \notin LinkMessages
        <4> SUFFICES ASSUME NEW j \in (i + 1)..Len(queue), queue[j] \in LinkMessages PROVE FALSE
          OBVIOUS
        <4>1. j \in 1..Len(queue) /\ ~(j <= i)
          BY <3>1
        <4> QED
          BY <4>1, <3>2
      <3>4. queue[i] = "STA_GOT_IP"
        BY <1>2, <3>2, <3>3 DEF LinkViewConsistent, LinkInQueue
      <3> QED
        BY <3>2, <3>4 DEF WasUp, Waits
    <2> QED
      BY <2>1, <2>2
  <1> QED
    BY <1>1, <1>2

\* and after a step of the manager: each handler hands on what it was rescued by.
LEMMA RescuedManager ==
  ASSUME TypeData, ReachInv, LinkViewConsistent, Manager, link' = "down"
  PROVE  Rescued'
  <1> USE DEF mgr, driver, web, Rescued, OrderComes, StartComes, WillRetry, Handling, WasUp,
          DropAfterAp, DropWaits, DropComes, Stranded, PortalStays, EndsPortal, apUp
  <1>c. Connected => WasUp
    BY ConnectedWasUp
  <1>i. MaxRetry \in Nat \ {0} /\ retries \in 0..MaxRetry
    BY Constants DEF ConstantsOK, TypeData
  <1>r. link = "down" => Rescued
    BY DEF ReachInv
  <1>1. CASE ScanDone
    BY <1>1, <1>r, QueueReceive, EventsKept DEF ScanDone, Receive
  <1>2. CASE StartWifiScan
    BY <1>2, <1>r, QueueReceive, EventsKept DEF StartWifiScan, Receive
  <1>3. CASE LoadAndRestoreSta
    <2>1. out' \in {"CONNECT_RESTORE", "START_AP"} /\ mpc' = "send"
      BY <1>3 DEF LoadAndRestoreSta, AfterFetch
    <2> QED
      BY <2>1
  <1>4. CASE LoadAndRestoreStaRest
    <2>1. mpc = "load" /\ mpc' = "receive" /\ queue' = queue
      BY <1>4 DEF LoadAndRestoreStaRest
    <2> QED
      BY <2>1, QueueKept DEF ReachInv, LoadSends
  <1>5. CASE ManagerSend
    <2>1. /\ Send(out) /\ mpc = "send" /\ mpc' \in {"load", "receive"} /\ out \in OwnOrders
      BY <1>5 DEF ManagerSend, TypeData
    <2>2. out \in Messages
      BY <2>1 DEF OwnOrders, Messages
    <2> QED
      BY <1>5, <1>r, <2>1, <2>2, QueueSend, EventsKept DEF ManagerSend, OwnOrders
  <1>6. ASSUME NEW r \in {"CONNECT_USER", "CONNECT_AUTO", "CONNECT_RESTORE"}, ConnectSta(r)
        PROVE  Rescued'
    <2>1. Connected /\ Receive(r) /\ UNCHANGED <<sta_ip, hand, evq>>
      BY <1>6 DEF ConnectSta, Connected
    <2> QED
      BY <2>1, <1>c, QueueReceive, EventsKept
  <1>7. CASE DisconnectSta
    BY <1>7, <1>r, QueueReceive, EventsKept DEF DisconnectSta, Receive
  <1>8. CASE StaDisconnected
    <2>1. /\ Receive("STA_DISCONNECTED") /\ mpc = "receive" /\ mpc' = "json" /\ msg' = "STA_DISCONNECTED"
          /\ ux' = bits /\ sta_ip' = FALSE /\ Rescued
          /\ "CONFIGURE_MODE" \in bits' <=> "CONFIGURE_MODE" \in bits
          /\ UNCHANGED <<retries, timer, tick, hand, evq, mode, web>>
      BY <1>8, <1>r DEF StaDisconnected, AddressAfter, Receive, ConsumedRequest
    <2>2. sta_ip => retries < MaxRetry
      BY <1>i DEF ReachInv, AddressMeansNoLosses
    <2>3. ~apUp /\ NoAp => "AP_STARTED" \notin bits
      BY DEF ReachInv, ApFollows, Posted, NoAp, ApEvents
    <2> QED
      BY <2>1, <2>2, <2>3, QueueReceive, EventsKept DEF CountsRetry
  <1>9. CASE StaDisconnectedFailed
    <2>1. DisconnectCause(ux) # "failed attempt"
      BY <1>9 DEF StaDisconnectedFailed, ReachInv, NoUserConnect, DisconnectCause
    <2> QED
      BY <1>9, <2>1 DEF StaDisconnectedFailed
  <1>10. CASE StaDisconnectedByUser
    BY <1>10 DEF StaDisconnectedByUser
  <1>11. CASE StaDisconnectedLost
    <2>1. /\ mpc = "json" /\ msg = "STA_DISCONNECTED" /\ DisconnectCause(ux) = "lost connection"
          /\ timer' = (timer \/ retries < MaxRetry)
          /\ UNCHANGED <<queue, sta_ip, tick, hand, evq, mode, web>> /\ Rescued
      BY <1>11, <1>r DEF StaDisconnectedLost, RetryTimerAfter, BelowMaxRetry
    <2>2. "REQUEST_DISCONNECT" \notin ux
      BY <2>1 DEF DisconnectCause
    <2>3. CASE retries < MaxRetry
      BY <2>1, <2>3
    <2>4. CASE ~(retries < MaxRetry) /\ CountsRetry(ux)
      BY <2>4, <1>11 DEF StaDisconnectedLost, BelowMaxRetry
    <2>5. CASE ~(retries < MaxRetry) /\ ~CountsRetry(ux)
      <3>0. /\ retries' = retries /\ mpc' = "receive" /\ msg' = "NONE" /\ out' = out
            /\ bits' = bits \ {"REQUEST_RESTORE_STA"}
        BY <2>5, <1>11, Zenon DEF StaDisconnectedLost, ToReceive
      <3>1. /\ retries = MaxRetry /\ "CONFIGURE_MODE" \notin ux
            /\ "CONFIGURE_MODE" \in bits' <=> "CONFIGURE_MODE" \in bits
        BY <3>0, <2>5, <1>i DEF CountsRetry
      <3>2. "CONFIGURE_MODE" \in bits => hpc = "connect" \/ Waits("LOAD_AND_RESTORE_STA")
        BY <2>1, <3>1 DEF ReachInv, SetupLoads
      <3> QED
        BY <2>1, <2>2, <2>5, <3>0, <3>1, <3>2, QueueKept, EventsKept
    <2> QED
      BY <2>3, <2>4, <2>5
  <1>12. CASE StaGotIp
    BY <1>12 DEF StaGotIp
  <1>13. CASE StartAp
    <2>1. /\ Receive("START_AP") /\ mode' = "apsta" /\ (evq' = evq \/ evq' = Append(evq, "AP_START"))
          /\ mpc = "receive" /\ mpc' = "httpd_stop" /\ msg' = "START_AP" /\ Rescued
          /\ UNCHANGED <<retries, sta_ip, bits, timer, tick, hand, web>>
      BY <1>13, <1>r DEF StartAp, SetMode, Receive
    <2>2. \A k : Posted(k) => Posted(k)'
      BY <2>1, EventsKept, EventsPost
    <2>3. DropLast => Posted("STA_DISCONNECTED")
      BY DEF DropLast, Posted
    <2> QED
      BY <2>1, <2>2, <2>3, QueueReceive
  <1>14. CASE StopAp
    <2>1. CASE Connected
      <3>1. Receive("STOP_AP") /\ UNCHANGED <<sta_ip, hand>> /\ (evq' = evq \/ \E e : evq' = Append(evq, e))
        BY <1>14, <2>1 DEF StopAp, SetMode, Connected
      <3> QED
        BY <3>1, <2>1, <1>c, QueueReceive, EventsKept, EventsPost
    <2>2. CASE ~Connected
      <3>1. UNCHANGED <<mode, evq, dns, mpc, msg>>
        BY <1>14, <2>2 DEF StopAp, Connected
      <3> QED
        BY <1>14, <1>r, <3>1, QueueReceive, EventsKept DEF StopAp, Receive
    <2> QED
      BY <2>1, <2>2
  <1>15. CASE HttpClientInit
    BY <1>15, <1>r, QueueReceive, EventsKept DEF HttpClientInit, Receive
  <1>16. CASE HttpdStopped
    BY <1>16, <1>r, QueueKept, EventsKept DEF HttpdStopped, ServerAfter, ToReceive
  <1>17. CASE HttpdRequest
    BY <1>17, <1>r, QueueReceive, EventsKept DEF HttpdRequest, Receive
  <1>18. CASE HttpdRequestDone
    BY <1>18, <1>r, QueueKept, EventsKept DEF HttpdRequestDone, ToReceive
  <1> QED
    BY <1>1, <1>2, <1>3, <1>4, <1>5, <1>6, <1>7, <1>8, <1>9, <1>10, <1>11,
       <1>12, <1>13, <1>14, <1>15, <1>16, <1>17, <1>18 DEF Manager

\* What the other tasks do to the queue, and that they leave the manager alone.
LEMMA OthersKeep ==
  ASSUME TypeData, Others
  PROVE  \/ Restart
         \/ /\ UNCHANGED mgr
            /\ queue' = queue \/ \E m \in EventMessages \cup Orders \cup
                   {"CONNECT_AUTO", "START_WIFI_SCAN", "LOAD_AND_RESTORE_STA"} : Send(m)
  <1> USE DEF driver, web
  <1>1. CASE EventHandler
    BY <1>1, Zenon DEF EventHandler
  <1>2. CASE EventSend
    BY <1>2, SentMessages DEF EventSend
  <1>3. CASE TimerRetry \/ TimerRetrySend
    BY <1>3 DEF TimerRetry, TimerRetrySend
  <1>4. CASE Httpd
    BY <1>4 DEF Httpd, GetApJsonSent, ScanAsync, ConnectAsync
  <1>5. CASE Client
    BY <1>5, Zenon DEF Client, GetApJson, GetConnect, PostWifiSetup
  <1>6. CASE \E m \in Orders : AppSend(m)
    BY <1>6 DEF AppSend
  <1>7. CASE Driver
    BY <1>7, Zenon DEF Driver, DriverJoined, DriverJoinFails, DriverLeaves, DriverLosesLink, Disconnected, DriverScanDone
  <1> QED
    BY <1>1, <1>2, <1>3, <1>4, <1>5, <1>6, <1>7 DEF Others

\* An order that waits goes on waiting while the manager rests, and no other task
\* puts an order to end the portal behind one that opens it.
LEMMA OthersSend ==
  ASSUME TypeData, Others, ~Restart
  PROVE  /\ UNCHANGED mgr
         /\ \A k : Waits(k) => Waits(k)'
         /\ StartWaits => StartWaits'
         /\ "CONNECT_USER" \notin Orders => (Waits("CONNECT_USER")' => Waits("CONNECT_USER"))
  <1>1. UNCHANGED mgr
    BY OthersKeep
  <1>2. CASE queue' = queue
    BY <1>1, <1>2, QueueKept
  <1>3. ASSUME NEW m \in EventMessages \cup Orders \cup
                      {"CONNECT_AUTO", "START_WIFI_SCAN", "LOAD_AND_RESTORE_STA"}, Send(m)
        PROVE  /\ \A k : Waits(k) => Waits(k)'
               /\ StartWaits => StartWaits'
               /\ "CONNECT_USER" \notin Orders => (Waits("CONNECT_USER")' => Waits("CONNECT_USER"))
    <2>1. /\ m \in Messages /\ m # "HTTP_CLIENT_INIT"
          /\ "CONNECT_USER" \notin Orders => m # "CONNECT_USER"
      BY <1>3, SentMessages DEF EventMessages
    <2> QED
      BY <1>3, <2>1, QueueSend
  <1> QED
    BY <1>1, <1>2, <1>3, OthersKeep

\* What the manager does to the driver and to the bits it is told of.
LEMMA ManagerDriver ==
  ASSUME TypeData, Manager
  PROVE  /\ link' \in {"down", "joining"} => link \in {"down", "joining"}
         /\ Connected' <=> Connected
         /\ "AP_STARTED" \in bits' <=> "AP_STARTED" \in bits
         /\ UNCHANGED <<evq, mode>> \/ \E m \in {"sta", "apsta"} : SetMode(m)
  <1> USE DEF mgr, driver, web, Connected
  <1>1. CASE ScanDone \/ LoadAndRestoreSta \/ ManagerSend \/ StaDisconnectedFailed
             \/ StaDisconnectedByUser \/ HttpClientInit \/ HttpdStopped \/ HttpdRequest
             \/ HttpdRequestDone
    BY <1>1, Zenon DEF ScanDone, LoadAndRestoreSta, ManagerSend, StaDisconnectedFailed,
       StaDisconnectedByUser, HttpClientInit, HttpdStopped, HttpdRequest, HttpdRequestDone
  <1>2. CASE LoadAndRestoreStaRest \/ StartAp \/ StopAp
    BY <1>2, Zenon DEF LoadAndRestoreStaRest, StartAp, StopAp
  <1>3. CASE StartWifiScan
    BY <1>3 DEF StartWifiScan
  <1>4. ASSUME NEW r \in {"CONNECT_USER", "CONNECT_AUTO", "CONNECT_RESTORE"}, ConnectSta(r)
        PROVE  /\ link' \in {"down", "joining"} => link \in {"down", "joining"}
               /\ Connected' <=> Connected
               /\ "AP_STARTED" \in bits' <=> "AP_STARTED" \in bits
               /\ UNCHANGED <<evq, mode>>
    BY <1>4 DEF ConnectSta, RequestBit
  <1>5. CASE DisconnectSta
    BY <1>5 DEF DisconnectSta
  <1>6. CASE StaDisconnected
    BY <1>6 DEF StaDisconnected, ConsumedRequest
  <1>7. CASE StaDisconnectedLost
    <2>1. /\ UNCHANGED <<evq, mode, link>>
          /\ \/ bits' = bits \ {"REQUEST_RESTORE_STA", "CONFIGURE_MODE"}
             \/ bits' = bits \ {"REQUEST_RESTORE_STA"}
      BY <1>7, Zenon DEF StaDisconnectedLost
    <2> QED
      BY <2>1
  <1>8. CASE StaGotIp
    BY <1>8 DEF StaGotIp
  <1> QED
    BY <1>1, <1>2, <1>3, <1>4, <1>5, <1>6, <1>7, <1>8 DEF Manager

\* The parts of the inductive invariant, one after the other: the CONNECTED bit is
\* followed by the event that clears it,
LEMMA NextDropFollows ==
  ASSUME TypeData, DropFollows, Manager \/ Others
  PROVE  DropFollows'
  <1> USE DEF DropFollows, mgr, driver, web
  <1>1. CASE Manager
    <2>1. CASE UNCHANGED evq
      BY <1>1, <2>1, ManagerDriver, EventsKept
    <2>2. CASE \E m \in {"sta", "apsta"} : SetMode(m)
      <3>1. evq' = evq \/ \E e \in ApEvents : evq' = Append(evq, e)
        BY <2>2 DEF SetMode, ApEvents
      <3>2. "STA_GOT_IP" \notin ApEvents
        BY DEF ApEvents
      <3> QED
        BY <1>1, <3>1, <3>2, ManagerDriver, EventsKept, EventsPost
    <2> QED
      BY <1>1, <2>1, <2>2, ManagerDriver
  <1>2. CASE EventHandler
    <2> DEFINE e == Head(evq)
    <2>1. evq # << >> /\ evq' = Tail(evq) /\ bits' = BitsAfter(bits, e) /\ link' = link
      BY <1>2 DEF EventHandler
    <2> HIDE DEF e
    <2>2. /\ \A k : Posted(k) => Posted(k)' \/ k = e
          /\ \A f, g : Followed(f, g) => Followed(f, g)'
          /\ \A f, g : Followed(f, g) /\ e = f => Posted(g)'
      BY <2>1, EventsTake DEF e
    <2>3. Connected' => e = "STA_GOT_IP" \/ (Connected /\ e # "STA_DISCONNECTED")
      BY <2>1 DEF BitsAfter, Connected
    <2> QED
      BY <2>1, <2>2, <2>3
  <1>3. CASE DriverJoined
    BY <1>3 DEF DriverJoined
  <1>4. CASE Disconnected
    <2>1. evq' = Append(evq, "STA_DISCONNECTED")
      BY <1>4 DEF Disconnected, Post
    <2> QED
      BY <2>1, EventsPost
  <1>5. CASE DriverScanDone
    <2>1. evq' = Append(evq, "SCAN_DONE") /\ link' = link /\ bits' = bits
      BY <1>5 DEF DriverScanDone, Post
    <2> QED
      BY <2>1, EventsPost DEF Connected
  <1>6. CASE Restart
    BY <1>6 DEF Restart, Connected, Followed
  <1>7. CASE EventSend \/ TimerRetry \/ TimerRetrySend \/ Httpd \/ Client
             \/ \E m \in Orders : AppSend(m)
    <2>1. evq' = evq /\ link' = link
      BY <1>7, Zenon DEF EventSend, TimerRetry, TimerRetrySend, Httpd, GetApJsonSent, ScanAsync, ConnectAsync,
         Client, GetApJson, GetConnect, PostWifiSetup, AppSend
    <2>2. bits' = bits \/ bits' = bits \cup {"CONFIGURE_MODE"}
      BY <1>7, Zenon DEF EventSend, TimerRetry, TimerRetrySend, Httpd, GetApJsonSent, ScanAsync, ConnectAsync,
         Client, GetApJson, GetConnect, PostWifiSetup, AppSend
    <2> QED
      BY <2>1, <2>2, EventsKept DEF Connected
  <1> QED
    BY <1>1, <1>2, <1>3, <1>4, <1>5, <1>6, <1>7
       DEF Others, Driver, DriverJoinFails, DriverLeaves, DriverLosesLink

\* and so is the AP_STARTED bit;
LEMMA NextApFollows ==
  ASSUME TypeData, ApFollows, Manager \/ Others
  PROVE  ApFollows'
  <1> USE DEF ApFollows, mgr, driver, web, apUp
  <1>1. CASE Manager
    <2>1. CASE UNCHANGED <<evq, mode>>
      BY <1>1, <2>1, ManagerDriver, EventsKept
    <2>2. CASE SetMode("sta")
      <3>1. CASE mode = "apsta"
        <4>1. evq' = Append(evq, "AP_STOP")
          BY <2>2, <3>1 DEF SetMode
        <4> QED
          BY <4>1, EventsPost
      <3>2. CASE mode # "apsta"
        <4>1. evq' = evq
          BY <2>2, <3>2 DEF SetMode
        <4> QED
          BY <1>1, <3>2, <4>1, ManagerDriver, EventsKept
      <3> QED
        BY <3>1, <3>2
    <2>3. CASE SetMode("apsta")
      BY <2>3 DEF SetMode
    <2> QED
      BY <1>1, <2>1, <2>2, <2>3, ManagerDriver
  <1>2. CASE EventHandler
    <2> DEFINE e == Head(evq)
    <2>1. evq # << >> /\ evq' = Tail(evq) /\ bits' = BitsAfter(bits, e) /\ mode' = mode
      BY <1>2 DEF EventHandler
    <2> HIDE DEF e
    <2>2. /\ \A k : Posted(k) => Posted(k)' \/ k = e
          /\ \A f, g : Followed(f, g) => Followed(f, g)'
          /\ \A f, g : Followed(f, g) /\ e = f => Posted(g)'
      BY <2>1, EventsTake DEF e
    <2>3. "AP_STARTED" \in bits' =>
             e = "AP_START" \/ ("AP_STARTED" \in bits /\ e # "AP_STOP")
      BY <2>1 DEF BitsAfter
    <2> QED
      BY <2>1, <2>2, <2>3
  <1>3. ASSUME NEW e, e # "AP_START", Post(e), mode' = mode, bits' = bits
        PROVE  ApFollows'
    BY <1>3, EventsPost DEF Post
  <1>4. CASE DriverJoined
    BY <1>4, <1>3 DEF DriverJoined
  <1>5. CASE Disconnected
    BY <1>5, <1>3 DEF Disconnected
  <1>6. CASE DriverScanDone
    BY <1>6, <1>3 DEF DriverScanDone
  <1>7. CASE Restart
    BY <1>7 DEF Restart, Followed
  <1>8. CASE EventSend \/ TimerRetry \/ TimerRetrySend \/ Httpd \/ Client
             \/ \E m \in Orders : AppSend(m)
    <2>1. evq' = evq /\ mode' = mode
      BY <1>8, Zenon DEF EventSend, TimerRetry, TimerRetrySend, Httpd, GetApJsonSent, ScanAsync, ConnectAsync,
         Client, GetApJson, GetConnect, PostWifiSetup, AppSend
    <2>2. bits' = bits \/ bits' = bits \cup {"CONFIGURE_MODE"}
      BY <1>8, Zenon DEF EventSend, TimerRetry, TimerRetrySend, Httpd, GetApJsonSent, ScanAsync, ConnectAsync,
         Client, GetApJson, GetConnect, PostWifiSetup, AppSend
    <2> QED
      BY <2>1, <2>2, EventsKept
  <1> QED
    BY <1>1, <1>2, <1>4, <1>5, <1>6, <1>7, <1>8
       DEF Others, Driver, DriverJoinFails, DriverLeaves, DriverLosesLink

\* Only an order of another task sets the bit of the connection on request.
LEMMA NextNoUserConnect ==
  ASSUME TypeData, NoUserConnect, Manager \/ Others, "CONNECT_USER" \notin Orders
  PROVE  NoUserConnect'
  <1> DEFINE Bit == "REQUEST_STA_CONNECT"
             NotSet == Bit \notin bits' /\ Bit \notin ux'
  <1>a. ASSUME NEW m, Receive(m) PROVE m # "CONNECT_USER" /\ ~Waits("CONNECT_USER")'
    BY <1>a, QueueReceive DEF NoUserConnect
  <1>b. ASSUME queue' = queue PROVE ~Waits("CONNECT_USER")'
    BY <1>b, QueueKept DEF NoUserConnect
  <1>c. Bit \notin bits /\ Bit \notin ux
    BY DEF NoUserConnect
  <1> USE DEF mgr, driver, web
  <1>1. CASE ScanDone \/ LoadAndRestoreSta \/ StartAp \/ HttpClientInit \/ HttpdRequest
    <2>1. bits' = bits /\ ux' = ux /\ \E m : Receive(m)
      BY <1>1, Zenon DEF ScanDone, LoadAndRestoreSta, StartAp, HttpClientInit, HttpdRequest
    <2> QED
      BY <2>1, <1>a, <1>c DEF NoUserConnect
  <1>2. CASE LoadAndRestoreStaRest \/ StaDisconnectedFailed \/ StaDisconnectedByUser
             \/ HttpdStopped \/ HttpdRequestDone
    <2>1. bits' = bits /\ (ux' = ux \/ ux' = {}) /\ queue' = queue
      BY <1>2, Zenon DEF LoadAndRestoreStaRest, StaDisconnectedFailed, StaDisconnectedByUser,
                         HttpdStopped, HttpdRequestDone, ToReceive
    <2> QED
      BY <2>1, <1>b, <1>c DEF NoUserConnect
  <1>3. CASE ManagerSend
    <2>1. bits' = bits /\ ux' = ux /\ Send(out) /\ out \in OwnOrders
      BY <1>3 DEF ManagerSend, TypeData
    <2>2. out \in Messages /\ out # "CONNECT_USER"
      BY <2>1 DEF OwnOrders, Messages
    <2> QED
      BY <2>1, <2>2, QueueSend DEF NoUserConnect
  <1>4. CASE StartWifiScan \/ DisconnectSta \/ StaGotIp \/ StopAp
    <2>1. /\ ux' = ux /\ \E m : Receive(m)
          /\ bits' \in {bits, bits \cup {"SCAN"}, bits \cup {"REQUEST_DISCONNECT"},
                        bits \ {"REQUEST_STA_CONNECT", "REQUEST_RESTORE_STA"}}
      BY <1>4, Zenon DEF StartWifiScan, DisconnectSta, StaGotIp, StopAp
    <2> QED
      BY <2>1, <1>a, <1>c DEF NoUserConnect
  <1>5. ASSUME NEW r \in {"CONNECT_USER", "CONNECT_AUTO", "CONNECT_RESTORE"}, ConnectSta(r)
        PROVE  NoUserConnect'
    <2>1. ux' = ux /\ Receive(r) /\ bits' = bits \cup RequestBit(r)
      BY <1>5, Zenon DEF ConnectSta
    <2>2. r # "CONNECT_USER" /\ ~Waits("CONNECT_USER")'
      BY <2>1, <1>a
    <2>3. Bit \notin RequestBit(r)
      BY <2>2 DEF RequestBit
    <2> QED
      BY <2>1, <2>2, <2>3, <1>c DEF NoUserConnect
  <1>6. CASE StaDisconnected
    <2>1. ux' = bits /\ \E m : Receive(m)
      BY <1>6, Zenon DEF StaDisconnected
    <2>2. \E S : bits' = bits \ S
      BY <1>6, Zenon DEF StaDisconnected
    <2> QED
      BY <2>1, <2>2, <1>a, <1>c DEF NoUserConnect
  <1>7. CASE StaDisconnectedLost
    <2>1. (ux' = ux \/ ux' = {}) /\ queue' = queue /\ \E S : bits' = bits \ S
      BY <1>7, Zenon DEF StaDisconnectedLost, ToReceive
    <2> QED
      BY <2>1, <1>b, <1>c DEF NoUserConnect
  <1>8. CASE Restart
    BY <1>8 DEF Restart, NoUserConnect, Waits
  <1>9. CASE Others /\ ~Restart
    <2>1. ux' = ux /\ ~Waits("CONNECT_USER")'
      BY <1>9, OthersSend DEF NoUserConnect
    <2>2. CASE EventHandler
      BY <2>1, <2>2, <1>c DEF EventHandler, BitsAfter, NoUserConnect
    <2>3. CASE ~EventHandler
      <3>1. bits' = bits \/ bits' = bits \cup {"CONFIGURE_MODE"}
        BY <1>9, <2>3, Zenon DEF Others, EventSend, TimerRetry, TimerRetrySend, Httpd,
           GetApJsonSent, ScanAsync, ConnectAsync, Client, GetApJson, GetConnect,
           PostWifiSetup, AppSend, Driver, DriverJoined, DriverJoinFails, DriverLeaves,
           DriverLosesLink, Disconnected, DriverScanDone
      <3> QED
        BY <2>1, <3>1, <1>c DEF NoUserConnect
    <2> QED
      BY <2>2, <2>3
  <1> QED
    BY <1>1, <1>2, <1>3, <1>4, <1>5, <1>6, <1>7, <1>8, <1>9 DEF Manager

\* Where the handlers of the manager leave it.
LEMMA ManagerRests ==
  ASSUME Manager
  PROVE  /\ mpc' = "json" => StaDisconnected \/ HttpdRequest
         /\ mpc' = "load" => ManagerSend
         /\ mpc' = "send" => \/ LoadAndRestoreSta \/ StaGotIp
                             \/ StaDisconnectedByUser \/ StaDisconnectedLost
  <1> USE DEF mgr, Receive
  <1>1. CASE ScanDone \/ StartWifiScan \/ DisconnectSta
             \/ \E r \in {"CONNECT_USER", "CONNECT_AUTO", "CONNECT_RESTORE"} : ConnectSta(r)
    <2>1. mpc' = "receive"
      BY <1>1, Zenon DEF ScanDone, StartWifiScan, DisconnectSta, ConnectSta
    <2> QED
      BY <2>1
  <1>2. CASE StopAp \/ StartAp \/ HttpClientInit
    <2>1. mpc' = "receive" \/ mpc' = "httpd_stop"
      BY <1>2, Zenon DEF StopAp, StartAp, HttpClientInit
    <2> QED
      BY <2>1
  <1>3. CASE LoadAndRestoreStaRest \/ StaDisconnectedFailed \/ HttpdStopped \/ HttpdRequestDone
    <2>1. mpc' = "receive"
      BY <1>3, Zenon DEF LoadAndRestoreStaRest, StaDisconnectedFailed, HttpdStopped, HttpdRequestDone, ToReceive
    <2> QED
      BY <2>1
  <1>4. CASE LoadAndRestoreSta \/ StaDisconnectedByUser \/ StaGotIp
    <2>1. mpc' = "send"
      BY <1>4, Zenon DEF LoadAndRestoreSta, StaDisconnectedByUser, StaGotIp
    <2> QED
      BY <1>4, <2>1
  <1>5. CASE StaDisconnectedLost
    <2>1. mpc' = "send" \/ mpc' = "receive"
      BY <1>5, Zenon DEF StaDisconnectedLost, ToReceive
    <2> QED
      BY <1>5, <2>1
  <1>6. CASE ManagerSend
    <2>1. mpc' = "load" \/ mpc' = "receive"
      BY <1>6, Zenon DEF ManagerSend
    <2> QED
      BY <1>6, <2>1
  <1>7. CASE StaDisconnected \/ HttpdRequest
    <2>1. mpc' = "json"
      BY <1>7, Zenon DEF StaDisconnected, HttpdRequest
    <2> QED
      BY <1>7, <2>1
  <1> QED
    BY <1>1, <1>2, <1>3, <1>4, <1>5, <1>6, <1>7 DEF Manager

\* the counter is zero while there is an address;
LEMMA NextAddress ==
  ASSUME TypeData, AddressMeansNoLosses, Manager \/ Others
  PROVE  AddressMeansNoLosses'
  <1> USE DEF AddressMeansNoLosses, Handling, mgr, driver, web
  <1>1. CASE Others
    <2>1. CASE Restart
      BY <2>1 DEF Restart
    <2>2. CASE ~Restart
      BY <1>1, <2>2, OthersSend
    <2> QED
      BY <2>1, <2>2
  <1>2. CASE StaDisconnected
    BY <1>2, Zenon DEF StaDisconnected, AddressAfter
  <1>3. CASE StaDisconnectedLost
    BY <1>3, Zenon DEF StaDisconnectedLost
  <1>4. CASE StaGotIp
    BY <1>4 DEF StaGotIp, RetriesAfterGotIp
  <1>5. CASE HttpdRequest
    BY <1>5 DEF HttpdRequest
  <1>6. CASE Manager /\ ~StaDisconnected /\ ~StaDisconnectedLost /\ ~StaGotIp /\ ~HttpdRequest
    <2>1. sta_ip' = sta_ip /\ retries' = retries
      BY <1>6, Zenon DEF Manager, ScanDone, StartWifiScan, LoadAndRestoreSta,
         LoadAndRestoreStaRest, ManagerSend, ConnectSta, DisconnectSta, StaDisconnectedFailed,
         StaDisconnectedByUser, StartAp, StopAp, HttpClientInit, HttpdStopped, HttpdRequestDone
    <2>2. mpc' # "json"
      BY <1>6, ManagerRests
    <2> QED
      BY <2>1, <2>2
  <1> QED
    BY <1>1, <1>2, <1>3, <1>4, <1>5, <1>6

\* a request to configure during the handling of a loss comes with its order;
LEMMA NextSetupLoads ==
  ASSUME TypeData, SetupLoads, Manager \/ Others
  PROVE  SetupLoads'
  <1> USE DEF SetupLoads, Handling, mgr, driver, web
  <1>1. CASE StaDisconnected
    <2>1. ux' = bits /\ \E S : bits' = bits \ S
      BY <1>1, Zenon DEF StaDisconnected
    <2> QED
      BY <2>1
  <1>2. CASE HttpdRequest
    BY <1>2 DEF HttpdRequest
  <1>3. CASE Manager /\ ~StaDisconnected /\ ~HttpdRequest
    BY <1>3, ManagerRests
  <1>4. CASE Restart
    BY <1>4 DEF Restart
  <1>5. CASE Others /\ ~Restart
    <2>1. mpc' = mpc /\ msg' = msg /\ ux' = ux /\ \A k : Waits(k) => Waits(k)'
      BY <1>5, OthersSend
    <2>2. CASE GetConnect
      BY <2>2 DEF GetConnect
    <2>3. CASE ConnectAsync
      <3>1. Send("LOAD_AND_RESTORE_STA")
        BY <2>3 DEF ConnectAsync
      <3>2. Waits("LOAD_AND_RESTORE_STA")'
        BY <3>1, SentMessages, QueueSend
      <3> QED
        BY <3>2
    <2>4. CASE EventHandler
      <3>1. hpc' = hpc /\ "CONFIGURE_MODE" \in bits' => "CONFIGURE_MODE" \in bits
        BY <2>4 DEF EventHandler, BitsAfter
      <3>2. hpc' = hpc
        BY <2>4 DEF EventHandler
      <3> QED
        BY <2>1, <3>1, <3>2
    <2>5. CASE ~GetConnect /\ ~ConnectAsync /\ ~EventHandler
      <3>1. bits' = bits /\ (hpc' = hpc \/ hpc \in {"idle", "ap.json", "scan"})
        BY <1>5, <2>5, Zenon DEF Others, EventSend, TimerRetry, TimerRetrySend, Httpd,
           GetApJsonSent, ScanAsync, Client, GetApJson, Reaches, PostWifiSetup, AppSend,
           Driver, DriverJoined, DriverJoinFails, DriverLeaves, DriverLosesLink,
           Disconnected, DriverScanDone
      <3> QED
        BY <2>1, <3>1
    <2> QED
      BY <2>2, <2>3, <2>4, <2>5
  <1> QED
    BY <1>1, <1>2, <1>3, <1>4, <1>5

\* a load ends in an order.
LEMMA NextLoadSends ==
  ASSUME TypeData, LoadSends, Manager \/ Others
  PROVE  LoadSends'
  <1> USE DEF LoadSends, mgr, driver, web
  <1>1. CASE LoadAndRestoreSta
    <2>1. out' \in {"CONNECT_RESTORE", "START_AP"} /\ mpc' = "send"
      BY <1>1 DEF LoadAndRestoreSta, AfterFetch
    <2> QED
      BY <2>1
  <1>2. CASE ManagerSend
    <2>1. CASE msg = "LOAD_AND_RESTORE_STA"
      <3>1. Send(out) /\ mpc' = "load" /\ out \in {"CONNECT_RESTORE", "START_AP"}
        BY <1>2, <2>1 DEF ManagerSend, TypeData, OwnOrders
      <3>2. out \in Messages
        BY <3>1 DEF Messages
      <3> QED
        BY <3>1, <3>2, QueueSend
    <2>2. CASE msg # "LOAD_AND_RESTORE_STA"
      BY <1>2, <2>2 DEF ManagerSend
    <2> QED
      BY <2>1, <2>2
  <1>3. CASE Manager /\ ~LoadAndRestoreSta /\ ~ManagerSend
    <2>1. mpc' = "send" => msg' # "LOAD_AND_RESTORE_STA"
      <3>1. CASE StaDisconnectedByUser \/ StaDisconnectedLost \/ StaGotIp
        BY <3>1, Zenon DEF StaDisconnectedByUser, StaDisconnectedLost, StaGotIp, ToReceive
      <3>2. CASE ~StaDisconnectedByUser /\ ~StaDisconnectedLost /\ ~StaGotIp
        BY <1>3, <3>2, ManagerRests
      <3> QED
        BY <3>1, <3>2
    <2>2. mpc' # "load"
      BY <1>3, ManagerRests
    <2> QED
      BY <2>1, <2>2
  <1>4. CASE Restart
    BY <1>4 DEF Restart
  <1>5. CASE Others /\ ~Restart
    BY <1>5, OthersSend
  <1> QED
    BY <1>1, <1>2, <1>3, <1>4, <1>5

\* The invariant holds at first, is kept by stuttering, and is enough.
LEMMA ReachInit == Init => ReachInv
  <1> SUFFICES ASSUME NEW conf \in {"none", "good"}, InitWith(conf) PROVE ReachInv
    BY DEF Init
  <1>1. Waits("LOAD_AND_RESTORE_STA") /\ ~Waits("CONNECT_USER")
    BY DEF InitWith, Waits
  <1>2. \A e, f : Followed(e, f)
    BY DEF InitWith, Followed
  <1> QED
    BY <1>1, <1>2 DEF InitWith, ReachInv, NoUserConnect, DropFollows, ApFollows, Connected,
       AddressMeansNoLosses, Handling, SetupLoads, LoadSends, Rescued, OrderComes

LEMMA ReachKept == ReachInv /\ UNCHANGED vars => ReachInv'
  <1> SUFFICES ASSUME ReachInv, UNCHANGED vars PROVE ReachInv'
    OBVIOUS
  <1> USE DEF vars, mgr, driver, web
  <1>1. NoUserConnect' /\ AddressMeansNoLosses' /\ SetupLoads' /\ LoadSends'
    BY QueueKept DEF ReachInv, NoUserConnect, AddressMeansNoLosses, SetupLoads, LoadSends, Handling
  <1>2. DropFollows' /\ ApFollows'
    BY EventsKept DEF ReachInv, DropFollows, ApFollows, Connected, apUp
  <1>3. link' = "down" => Rescued'
    BY QueueKept, EventsKept DEF ReachInv, Rescued, OrderComes, StartComes, WillRetry,
       Handling, WasUp, DropAfterAp, DropWaits, DropComes, Stranded, PortalStays, EndsPortal, apUp
  <1> QED
    BY <1>1, <1>2, <1>3 DEF ReachInv

LEMMA ReachEnough == TypeData /\ LinkViewConsistent /\ ReachInv => StrandedOnlyWithApStarted
  <1> SUFFICES ASSUME TypeData, LinkViewConsistent, ReachInv, Quiescent, link = "down", ~Portal
               PROVE  retries = MaxRetry /\ apUp /\ "CONFIGURE_MODE" \notin bits
    BY DEF StrandedOnlyWithApStarted
  <1>1. \A k : ~Waits(k) /\ ~Posted(k)
    BY DEF Quiescent, Waits, Posted
  <1>2. ~StartWaits /\ ~DropLast
    BY DEF Quiescent, StartWaits, Past, DropLast
  <1>3. ~sta_ip
    <2>1. Connected <=> sta_ip
      BY DEF Quiescent, LinkViewConsistent, LinkSettled, LinkMessages
    <2> QED
      BY <2>1, <1>1 DEF ReachInv, DropFollows
  <1>4. Rescued
    BY DEF ReachInv
  <1>5. Stranded /\ apUp
    BY <1>1, <1>2, <1>3, <1>4 DEF Quiescent, Rescued, OrderComes, StartComes, WillRetry,
       Handling, WasUp, DropAfterAp, DropWaits, DropComes, PortalStays, Portal
  <1> QED
    BY <1>5 DEF Stranded

\* A device that comes to rest with the link down serves the portal, unless its
\* counter is at the maximum while the access point runs; for every queue
\* length and every retry maximum, as long as no other task orders a
\* connection of its own.
THEOREM StrandedOnlyThere ==
  ASSUME "CONNECT_USER" \notin Orders
  PROVE  Spec => []StrandedOnlyWithApStarted
  <1>1. TypeOK /\ LinkViewConsistent /\ ReachInv /\ [Next]_vars => ReachInv'
    <2> SUFFICES ASSUME TypeData, LinkViewConsistent, ReachInv, [Next]_vars
                 PROVE  ReachInv'
      BY DEF TypeOK
    <2>1. CASE Manager \/ Others
      <3>1. /\ NoUserConnect /\ DropFollows /\ ApFollows /\ AddressMeansNoLosses
            /\ SetupLoads /\ LoadSends
        BY DEF ReachInv
      <3>2. /\ NoUserConnect' /\ DropFollows' /\ ApFollows' /\ AddressMeansNoLosses'
            /\ SetupLoads' /\ LoadSends'
        BY <2>1, <3>1, NextNoUserConnect, NextDropFollows, NextApFollows, NextAddress,
           NextSetupLoads, NextLoadSends, Zenon
      <3>3. link' = "down" => Rescued'
        BY <2>1, RescuedManager, RescuedOthers
      <3> QED
        BY <3>2, <3>3 DEF ReachInv
    <2>2. CASE UNCHANGED vars
      BY <2>2, ReachKept
    <2> QED
      BY <2>1, <2>2, NextSplit
  <1>2. TypeOK /\ LinkViewConsistent /\ ReachInv => StrandedOnlyWithApStarted
    BY ReachEnough DEF TypeOK
  <1> QED
    BY <1>1, <1>2, ReachInit, TypeCorrect, LinkViewCorrect, PTL DEF Spec

\* The budget and the history variables only watch.
LEMMA WatchedStep == [MCNext]_mcVars => [Next]_vars
  <1>1. MCNext => Next
    BY Zenon DEF MCNext, Asks, Unasked, Next
  <1>2. UNCHANGED mcVars => UNCHANGED vars
    BY Zenon DEF mcVars
  <1> QED
    BY <1>1, <1>2, Zenon

LEMMA Watched == MCSpec => Spec
  <1>1. MCInit => Init
    BY DEF MCInit
  <1> QED
    BY <1>1, WatchedStep, PTL DEF MCSpec, Spec

LEMMA MCTypeCorrect == MCSpec => []TypeOK
  BY Watched, TypeCorrect, PTL

(***************************************************************************)
(* The feed of LinkFeed.                                                   *)
(***************************************************************************)
\* at finds, for each state of s, the message among w that carries it: in the
\* same order, and no message about the link carries none.
Carries(w, s, at) ==
    /\ \A k, l \in 1..Len(s) : k < l => at[k] < at[l]
    /\ \A k \in 1..Len(s) : w[at[k]] \in LinkMessages
    /\ \A k \in 1..Len(s) : s[k] <=> w[at[k]] = "STA_GOT_IP"
    /\ \A p \in 1..Len(w) : w[p] \in LinkMessages => \E k \in 1..Len(s) : at[k] = p

Carried(w, s) == \E at \in [1..Len(s) -> 1..Len(w)] : Carries(w, s, at)

\* What was published and is not shown is on its way, in the queue and then in
\* the hand of the event task, and nothing else about the link is.
FeedInv == unshown \in Seq(BOOLEAN) /\ Carried(Append(queue, hand), unshown)

Parcels == Messages \cup {"NONE"}

\* A message about something else is put in before the last.
LEMMA CarriedInsert ==
  ASSUME NEW q \in Seq(Parcels), NEW h \in Parcels, NEW m \in Parcels \ LinkMessages,
         NEW s \in Seq(BOOLEAN), Carried(Append(q, h), s)
  PROVE  Carried(Append(Append(q, m), h), s)
  <1> DEFINE w == Append(q, h)
             v == Append(Append(q, m), h)
             n == Len(q)
             N == Len(s)
  <1>1. PICK at \in [1..N -> 1..Len(w)] : Carries(w, s, at)
    BY DEF Carried
  <1>2. n \in Nat /\ N \in Nat /\ Len(w) = n + 1 /\ Len(v) = n + 2
    OBVIOUS
  <1>3. \A p \in 1..n : v[p] = w[p]
    OBVIOUS
  <1>4. v[n + 1] = m /\ v[n + 2] = w[n + 1]
    OBVIOUS
  <1>a. \A k \in 1..N : w[at[k]] \in LinkMessages /\ (s[k] <=> w[at[k]] = "STA_GOT_IP")
    BY <1>1 DEF Carries
  <1>b. \A k, l \in 1..N : k < l => at[k] < at[l]
    BY <1>1 DEF Carries
  <1>c. \A p \in 1..Len(w) : w[p] \in LinkMessages => \E k \in 1..N : at[k] = p
    BY <1>1 DEF Carries
  <1> DEFINE to == [k \in 1..N |-> IF at[k] = n + 1 THEN n + 2 ELSE at[k]]
  <1> HIDE DEF w, v, n, N
  <1>5. to \in [1..N -> 1..(n + 2)]
    BY <1>1, <1>2
  <1>6. \A k \in 1..N : \/ at[k] \in 1..n /\ to[k] = at[k]
                        \/ at[k] = n + 1 /\ to[k] = n + 2
    BY <1>1, <1>2
  <1> HIDE DEF to
  <1>7. \A k \in 1..N : v[to[k]] = w[at[k]]
    BY <1>3, <1>4, <1>6
  <1>8. \A k, l \in 1..N : k < l => to[k] < to[l]
    <2> SUFFICES ASSUME NEW k \in 1..N, NEW l \in 1..N, k < l PROVE to[k] < to[l]
      OBVIOUS
    <2>1. at[k] < at[l]
      BY <1>b
    <2>2. at[k] \in 1..n /\ to[k] = at[k]
      <3>1. at[l] \in 1..(n + 1) /\ at[k] # n + 1
        BY <1>1, <1>2, <2>1
      <3> QED
        BY <3>1, <1>6
    <2>3. (to[l] = at[l] /\ at[l] \in 1..n) \/ to[l] = n + 2
      BY <1>6
    <2> QED
      BY <2>1, <2>2, <2>3, <1>2
  <1>9. ASSUME NEW p \in 1..Len(v), v[p] \in LinkMessages
        PROVE  \E k \in 1..N : to[k] = p
    <2>1. p \in 1..n \/ p = n + 2
      BY <1>2, <1>4, <1>9
    <2>2. CASE p \in 1..n
      <3>1. PICK k \in 1..N : at[k] = p
        BY <1>2, <1>3, <1>9, <1>c, <2>2
      <3> QED
        BY <3>1, <2>2, <1>2, <1>6
    <2>3. CASE p = n + 2
      <3>1. PICK k \in 1..N : at[k] = n + 1
        BY <1>2, <1>4, <1>9, <1>c, <2>3, SMTT(40)
      <3> QED
        BY <3>1, <2>3, <1>2, <1>6
    <2> QED
      BY <2>1, <2>2, <2>3
  <1>10. Carries(v, s, to)
    BY <1>7, <1>8, <1>9, <1>a DEF Carries, N
  <1> QED
    BY <1>2, <1>5, <1>10 DEF Carried, v, N

\* Something else is put in last.
LEMMA CarriedPut ==
  ASSUME NEW w \in Seq(Parcels), NEW m \in Parcels \ LinkMessages,
         NEW s \in Seq(BOOLEAN), Carried(w, s)
  PROVE  Carried(Append(w, m), s)
  <1> DEFINE v == Append(w, m)
             n == Len(w)
             N == Len(s)
  <1>1. PICK at \in [1..N -> 1..n] : Carries(w, s, at)
    BY DEF Carried
  <1>2. n \in Nat /\ N \in Nat /\ Len(v) = n + 1 /\ v[n + 1] = m /\ \A p \in 1..n : v[p] = w[p]
    OBVIOUS
  <1>a. \A k \in 1..N : w[at[k]] \in LinkMessages /\ (s[k] <=> w[at[k]] = "STA_GOT_IP")
    BY <1>1 DEF Carries
  <1>b. \A k, l \in 1..N : k < l => at[k] < at[l]
    BY <1>1 DEF Carries
  <1>c. \A p \in 1..n : w[p] \in LinkMessages => \E k \in 1..N : at[k] = p
    BY <1>1 DEF Carries
  <1> HIDE DEF v, n, N
  <1>3. \A k \in 1..N : at[k] \in 1..n
    BY <1>1
  <1>4. at \in [1..N -> 1..(n + 1)]
    BY <1>1, <1>2
  <1>5. \A k \in 1..N : v[at[k]] = w[at[k]]
    BY <1>2, <1>3
  <1>6. \A p \in 1..Len(v) : v[p] \in LinkMessages => \E k \in 1..N : at[k] = p
    BY <1>2, <1>c
  <1>7. Carries(v, s, at)
    BY <1>5, <1>6, <1>a, <1>b DEF Carries, N
  <1> QED
    BY <1>2, <1>4, <1>7 DEF Carried, v, N

\* The last becomes a message about the link.
LEMMA CarriedPublish ==
  ASSUME NEW q \in Seq(Parcels), NEW h \in Parcels \ LinkMessages, NEW e \in LinkMessages,
         NEW s \in Seq(BOOLEAN), Carried(Append(q, h), s),
         NEW b \in BOOLEAN, b <=> e = "STA_GOT_IP"
  PROVE  Carried(Append(q, e), Append(s, b)) /\ Append(s, b) \in Seq(BOOLEAN)
  <1> DEFINE w == Append(q, h)
             v == Append(q, e)
             t == Append(s, b)
             n == Len(q)
             N == Len(s)
  <1>1. PICK at \in [1..N -> 1..Len(w)] : Carries(w, s, at)
    BY DEF Carried
  <1>2. /\ n \in Nat /\ N \in Nat /\ Len(w) = n + 1 /\ Len(v) = n + 1
        /\ Len(t) = N + 1 /\ t \in Seq(BOOLEAN)
    OBVIOUS
  <1>3. w[n + 1] = h /\ v[n + 1] = e /\ \A p \in 1..n : v[p] = w[p]
    OBVIOUS
  <1>4. t[N + 1] = b /\ \A k \in 1..N : t[k] = s[k]
    OBVIOUS
  <1>a. \A k \in 1..N : w[at[k]] \in LinkMessages /\ (s[k] <=> w[at[k]] = "STA_GOT_IP")
    BY <1>1 DEF Carries
  <1>b. \A k, l \in 1..N : k < l => at[k] < at[l]
    BY <1>1 DEF Carries
  <1>c. \A p \in 1..Len(w) : w[p] \in LinkMessages => \E k \in 1..N : at[k] = p
    BY <1>1 DEF Carries
  <1> DEFINE to == [k \in 1..(N + 1) |-> IF k = N + 1 THEN n + 1 ELSE at[k]]
  <1> HIDE DEF w, v, t, n, N
  <1>5. \A k \in 1..N : at[k] \in 1..n
    BY <1>1, <1>2, <1>3, <1>a
  <1>6. to \in [1..(N + 1) -> 1..(n + 1)]
    BY <1>2, <1>5
  <1>7. /\ \A k \in 1..N : to[k] = at[k]
        /\ to[N + 1] = n + 1
        /\ \A k \in 1..(N + 1) : k \in 1..N \/ k = N + 1
        /\ N + 1 \in 1..(N + 1)
    BY <1>2
  <1> HIDE DEF to
  <1>8. \A k, l \in 1..(N + 1) : k < l => to[k] < to[l]
    <2> SUFFICES ASSUME NEW k \in 1..(N + 1), NEW l \in 1..(N + 1), k < l PROVE to[k] < to[l]
      OBVIOUS
    <2>1. k \in 1..N
      BY <1>2
    <2>2. CASE l \in 1..N
      BY <2>1, <2>2, <1>7, <1>b
    <2>3. CASE l = N + 1
      BY <2>1, <2>3, <1>2, <1>5, <1>7
    <2> QED
      BY <2>2, <2>3, <1>7
  <1>9. \A k \in 1..N : v[to[k]] = w[at[k]]
    BY <1>3, <1>5, <1>7
  <1>10. \A k \in 1..(N + 1) : v[to[k]] \in LinkMessages /\ (t[k] <=> v[to[k]] = "STA_GOT_IP")
    <2>1. v[to[N + 1]] = e
      BY <1>3, <1>7
    <2>2. v[to[N + 1]] \in LinkMessages /\ (t[N + 1] <=> v[to[N + 1]] = "STA_GOT_IP")
      <3>1. t[N + 1] <=> b
        BY <1>4
      <3> QED
        BY <2>1, <3>1, Zenon
    <2>3. ASSUME NEW k \in 1..N
          PROVE  v[to[k]] \in LinkMessages /\ (t[k] <=> v[to[k]] = "STA_GOT_IP")
      BY <1>4, <1>9, <1>a, Zenon
    <2> QED
      BY <2>2, <2>3, <1>7, Zenon
  <1>11. ASSUME NEW p \in 1..Len(v), v[p] \in LinkMessages
         PROVE  \E k \in 1..(N + 1) : to[k] = p
    <2>1. CASE p = n + 1
      BY <2>1, <1>7
    <2>2. CASE p # n + 1
      <3>1. PICK k \in 1..N : at[k] = p
        BY <2>2, <1>2, <1>3, <1>11, <1>c
      <3>2. k \in 1..(N + 1)
        BY <1>2
      <3> QED
        BY <3>1, <3>2, <1>7
    <2> QED
      BY <2>1, <2>2
  <1>12. Carries(v, t, to)
    BY <1>2, <1>8, <1>10, <1>11 DEF Carries
  <1> QED
    BY <1>2, <1>6, <1>12 DEF Carried, v, t

\* The first is taken, and is about something else.
LEMMA CarriedTakeOther ==
  ASSUME NEW w \in Seq(Parcels), w # << >>, Head(w) \notin LinkMessages,
         NEW s \in Seq(BOOLEAN), Carried(w, s)
  PROVE  Carried(Tail(w), s)
  <1> DEFINE v == Tail(w)
             n == Len(v)
             N == Len(s)
  <1>1. PICK at \in [1..N -> 1..Len(w)] : Carries(w, s, at)
    BY DEF Carried
  <1>2. n \in Nat /\ N \in Nat /\ Len(w) = n + 1 /\ w[1] \notin LinkMessages
    OBVIOUS
  <1>3. \A p \in 1..n : v[p] = w[p + 1]
    OBVIOUS
  <1>a. \A k \in 1..N : w[at[k]] \in LinkMessages /\ (s[k] <=> w[at[k]] = "STA_GOT_IP")
    BY <1>1 DEF Carries
  <1>b. \A k, l \in 1..N : k < l => at[k] < at[l]
    BY <1>1 DEF Carries
  <1>c. \A p \in 1..Len(w) : w[p] \in LinkMessages => \E k \in 1..N : at[k] = p
    BY <1>1 DEF Carries
  <1> DEFINE to == [k \in 1..N |-> at[k] - 1]
  <1> HIDE DEF v, n, N
  <1>4. \A k \in 1..N : at[k] \in 2..(n + 1)
    BY <1>1, <1>2, <1>a
  <1>5. \A k \in 1..N : to[k] \in 1..n /\ at[k] = to[k] + 1
    BY <1>2, <1>4
  <1>d. \A k \in 1..N : to[k] = at[k] - 1
    OBVIOUS
  <1>6. to \in [1..N -> 1..n]
    BY <1>2, <1>4
  <1> HIDE DEF to
  <1>7. \A k, l \in 1..N : k < l => to[k] < to[l]
    BY <1>2, <1>5, <1>b
  <1>8. \A k \in 1..N : v[to[k]] = w[at[k]]
    BY <1>3, <1>5
  <1>9. ASSUME NEW p \in 1..n, v[p] \in LinkMessages
        PROVE  \E k \in 1..N : to[k] = p
    <2>1. p + 1 \in 1..Len(w) /\ w[p + 1] \in LinkMessages
      BY <1>2, <1>3, <1>9
    <2>2. PICK k \in 1..N : at[k] = p + 1
      BY <2>1, <1>c
    <2>3. to[k] = (p + 1) - 1
      BY <2>2, <1>d
    <2> QED
      BY <2>3, <1>2
  <1>10. Carries(v, s, to)
    BY <1>7, <1>8, <1>9, <1>a DEF Carries, N, n
  <1> QED
    BY <1>6, <1>10 DEF Carried, v, N, n

\* The first is taken, and is about the link: it carries the oldest state.
LEMMA CarriedTakeLink ==
  ASSUME NEW w \in Seq(Parcels), w # << >>, Head(w) \in LinkMessages,
         NEW s \in Seq(BOOLEAN), Carried(w, s)
  PROVE  /\ Carried(Tail(w), Tail(s)) /\ Tail(s) \in Seq(BOOLEAN)
         /\ s # << >> /\ (Head(s) <=> Head(w) = "STA_GOT_IP")
  <1> DEFINE v == Tail(w)
             n == Len(v)
             t == Tail(s)
             N == Len(t)
  <1>1. PICK at \in [1..Len(s) -> 1..Len(w)] : Carries(w, s, at)
    BY DEF Carried
  <1>a. \A k \in 1..Len(s) : w[at[k]] \in LinkMessages /\ (s[k] <=> w[at[k]] = "STA_GOT_IP")
    BY <1>1 DEF Carries
  <1>b. \A k, l \in 1..Len(s) : k < l => at[k] < at[l]
    BY <1>1 DEF Carries
  <1>c. \A p \in 1..Len(w) : w[p] \in LinkMessages => \E k \in 1..Len(s) : at[k] = p
    BY <1>1 DEF Carries
  <1>2. n \in Nat /\ Len(w) = n + 1 /\ Head(w) = w[1] /\ \A p \in 1..n : v[p] = w[p + 1]
    OBVIOUS
  <1>3. PICK j \in 1..Len(s) : at[j] = 1
    <2>1. 1 \in 1..Len(w) /\ w[1] \in LinkMessages
      BY <1>2
    <2> QED
      BY <2>1, <1>c
  <1>4. s # << >>
    BY <1>3
  <1>5. /\ N \in Nat /\ Len(s) = N + 1 /\ Head(s) = s[1] /\ t \in Seq(BOOLEAN)
        /\ \A k \in 1..N : t[k] = s[k + 1]
    BY <1>4
  <1> DEFINE to == [k \in 1..N |-> at[k + 1] - 1]
  <1> HIDE DEF v, n, t, N
  <1>6. at[1] = 1
    <2>1. 1 \in 1..Len(s) /\ at[1] \in 1..Len(w)
      BY <1>1, <1>5
    <2>2. ~(1 < j)
      BY <1>2, <1>3, <1>b, <2>1
    <2> QED
      BY <1>3, <1>5, <2>2
  <1>7. Head(s) <=> Head(w) = "STA_GOT_IP"
    <2>1. 1 \in 1..Len(s) /\ Head(s) = s[1]
      BY <1>5
    <2>2. s[1] <=> w[1] = "STA_GOT_IP"
      BY <2>1, <1>6, <1>a
    <2> QED
      BY <2>1, <2>2, <1>2, Zenon
  <1>8. \A k \in 1..N : k + 1 \in 1..Len(s) /\ at[k + 1] \in 2..(n + 1)
    <2> SUFFICES ASSUME NEW k \in 1..N PROVE k + 1 \in 1..Len(s) /\ at[k + 1] \in 2..(n + 1)
      OBVIOUS
    <2>1. k + 1 \in 1..Len(s) /\ 1 \in 1..Len(s) /\ 1 < k + 1
      BY <1>5
    <2>2. at[k + 1] \in 1..(n + 1) /\ 1 < at[k + 1]
      BY <1>1, <1>2, <1>6, <1>b, <2>1
    <2> QED
      BY <2>1, <2>2, <1>2
  <1>9. \A k \in 1..N : to[k] \in 1..n /\ at[k + 1] = to[k] + 1
    BY <1>2, <1>8
  <1>10. to \in [1..N -> 1..n]
    BY <1>2, <1>8
  <1> HIDE DEF to
  <1>11. \A k, l \in 1..N : k < l => to[k] < to[l]
    <2> SUFFICES ASSUME NEW k \in 1..N, NEW l \in 1..N, k < l PROVE to[k] < to[l]
      OBVIOUS
    <2>1. k + 1 < l + 1
      BY <1>5
    <2>2. at[k + 1] < at[l + 1]
      BY <2>1, <1>8, <1>b
    <2> QED
      BY <2>2, <1>2, <1>9
  <1>12. \A k \in 1..N : v[to[k]] = w[at[k + 1]]
    BY <1>2, <1>9
  <1>13. \A k \in 1..N : v[to[k]] \in LinkMessages /\ (t[k] <=> v[to[k]] = "STA_GOT_IP")
    <2> SUFFICES ASSUME NEW k \in 1..N
                 PROVE  v[to[k]] \in LinkMessages /\ (t[k] <=> v[to[k]] = "STA_GOT_IP")
      OBVIOUS
    <2>1. t[k] = s[k + 1] /\ v[to[k]] = w[at[k + 1]]
      BY <1>5, <1>12
    <2>2. w[at[k + 1]] \in LinkMessages /\ (s[k + 1] <=> w[at[k + 1]] = "STA_GOT_IP")
      BY <1>8, <1>a
    <2> QED
      BY <2>1, <2>2, Zenon
  <1>14. ASSUME NEW p \in 1..n, v[p] \in LinkMessages
         PROVE  \E k \in 1..N : to[k] = p
    <2>1. p + 1 \in 1..Len(w) /\ w[p + 1] \in LinkMessages
      BY <1>2, <1>14
    <2>2. PICK k \in 1..Len(s) : at[k] = p + 1
      BY <2>1, <1>c
    <2>3. k # 1
      BY <2>2, <1>2, <1>6
    <2>4. k - 1 \in 1..N /\ (k - 1) + 1 = k
      BY <2>3, <1>5
    <2>5. to[k - 1] = p
      BY <2>2, <2>4, <1>2, <1>9
    <2> QED
      BY <2>4, <2>5
  <1>15. Carries(v, t, to)
    BY <1>11, <1>13, <1>14 DEF Carries, n, N
  <1> QED
    BY <1>4, <1>5, <1>7, <1>10, <1>15 DEF Carried, v, t, n, N

\* A step that neither publishes nor shows a state of the link.
LEMMA FeedSent ==
  ASSUME TypeData, FeedInv, NEW m \in Messages \ LinkMessages, Send(m),
         UNCHANGED <<hand, unshown>>
  PROVE  FeedInv'
  <1>1. queue' = Append(queue, m) /\ queue \in Seq(Parcels) /\ hand \in Parcels /\ m \in Parcels
    BY DEF Send, SendTo, TypeData, Parcels, Messages
  <1>2. Carried(Append(Append(queue, m), hand), unshown)
    BY <1>1, CarriedInsert DEF FeedInv
  <1> QED
    BY <1>1, <1>2 DEF FeedInv

\* The event task puts the message of its hand into the queue.
LEMMA FeedPut ==
  ASSUME TypeData, FeedInv, EventSend, UNCHANGED unshown
  PROVE  FeedInv'
  <1>1. /\ queue' = Append(queue, hand) /\ hand' = "NONE"
        /\ Append(queue, hand) \in Seq(Parcels) /\ "NONE" \in Parcels \ LinkMessages
    BY DEF EventSend, Send, SendTo, TypeData, Parcels, Messages, EventMessages, LinkMessages
  <1>2. Carried(Append(Append(queue, hand), "NONE"), unshown)
    BY <1>1, CarriedPut DEF FeedInv
  <1> QED
    BY <1>1, <1>2 DEF FeedInv

\* It publishes a state of the link and takes the message into its hand.
LEMMA FeedPublished ==
  ASSUME TypeData, FeedInv, hand = "NONE", hand' \in LinkMessages, UNCHANGED queue,
         unshown' = Append(unshown, hand' = "STA_GOT_IP")
  PROVE  FeedInv'
  <1>1. queue \in Seq(Parcels) /\ hand \in Parcels \ LinkMessages
    BY DEF TypeData, Parcels, LinkMessages, Messages
  <1>2. PICK b \in BOOLEAN : b = (hand' = "STA_GOT_IP")
    BY Zenon
  <1>3. unshown' = Append(unshown, b) /\ (b <=> hand' = "STA_GOT_IP")
    BY <1>2, Zenon
  <1>4. Carried(Append(queue, hand'), Append(unshown, b)) /\ Append(unshown, b) \in Seq(BOOLEAN)
    BY <1>1, <1>3, CarriedPublish DEF FeedInv
  <1> QED
    BY <1>3, <1>4, Zenon DEF FeedInv

\* What taking the first message makes of what is on the way.
LEMMA FeedReceive ==
  ASSUME TypeData, NEW m, Receive(m), UNCHANGED hand
  PROVE  LET w == Append(queue, hand) IN
         w \in Seq(Parcels) /\ w # << >> /\ Head(w) = m /\ Append(queue', hand') = Tail(w)
  <1>1. /\ queue # << >> /\ queue' = Tail(queue) /\ queue \in Seq(Parcels) /\ hand \in Parcels
        /\ m = Head(queue)
    BY DEF Receive, TypeData, Parcels, Messages
  <1> QED
    BY <1>1

\* The manager takes a message about something else, and one about the link.
LEMMA FeedTakeOther ==
  ASSUME TypeData, FeedInv, NEW m \in Messages \ LinkMessages, Receive(m),
         UNCHANGED <<hand, unshown>>
  PROVE  FeedInv'
  BY FeedReceive, CarriedTakeOther DEF FeedInv

LEMMA FeedTakeLink ==
  ASSUME TypeData, FeedInv, NEW m \in LinkMessages, Receive(m),
         UNCHANGED hand, unshown' = Tail(unshown)
  PROVE  FeedInv' /\ unshown # << >> /\ (Head(unshown) <=> m = "STA_GOT_IP")
  <1> DEFINE w == Append(queue, hand)
  <1>1. w \in Seq(Parcels) /\ w # << >> /\ Head(w) = m /\ Append(queue', hand') = Tail(w)
    BY FeedReceive
  <1>2. unshown \in Seq(BOOLEAN) /\ Carried(w, unshown)
    BY DEF FeedInv
  <1> HIDE DEF w
  <1>3. Head(w) \in LinkMessages
    BY <1>1
  <1>4. /\ Carried(Tail(w), Tail(unshown)) /\ Tail(unshown) \in Seq(BOOLEAN)
        /\ unshown # << >> /\ (Head(unshown) <=> Head(w) = "STA_GOT_IP")
    BY <1>1, <1>2, <1>3, CarriedTakeLink, Zenon
  <1> QED
    BY <1>1, <1>4, Zenon DEF FeedInv

\* What a step does that neither publishes nor shows a state of the link.
Minds == \/ UNCHANGED queue
         \/ \E m \in Messages \ LinkMessages : Receive(m) \/ Send(m)
Settled == UNCHANGED <<hand, sta_ip>> /\ (Connected' <=> Connected) /\ Minds

\* Such a step keeps the feed; the handlers which are not about the link, and the
\* steps of all other tasks, are of this kind.
LEMMA FeedSettled ==
  ASSUME TypeData, FeedInv, Settled, UNCHANGED unshown
  PROVE  FeedInv'
  <1>1. CASE UNCHANGED queue
    BY <1>1 DEF FeedInv, Settled
  <1>2. ASSUME NEW m \in Messages \ LinkMessages, Receive(m) PROVE FeedInv'
    BY <1>2, FeedTakeOther DEF Settled
  <1>3. ASSUME NEW m \in Messages \ LinkMessages, Send(m) PROVE FeedInv'
    BY <1>3, FeedSent DEF Settled
  <1> QED
    BY <1>1, <1>2, <1>3 DEF Settled, Minds

LEMMA ManagerSettled ==
  ASSUME TypeData, Manager, ~StaDisconnected, ~StaGotIp
  PROVE  Settled
  <1> USE DEF mgr, driver, web
  <1>c. Connected' <=> Connected
    BY ManagerDriver
  <1>m. {"SCAN_DONE", "START_WIFI_SCAN", "LOAD_AND_RESTORE_STA", "CONNECT_USER",
         "CONNECT_AUTO", "CONNECT_RESTORE", "DISCONNECT_STA", "START_AP",
         "STOP_AP", "HTTP_CLIENT_INIT", "HTTPD_REQUEST"} = Messages \ LinkMessages
    BY DEF LinkMessages, Messages, EventMessages
  <1>1. CASE ScanDone \/ StartWifiScan \/ LoadAndRestoreSta \/ DisconnectSta \/ StartAp \/ StopAp
             \/ HttpClientInit \/ HttpdRequest
             \/ \E r \in {"CONNECT_USER", "CONNECT_AUTO", "CONNECT_RESTORE"} : ConnectSta(r)
    <2>1. UNCHANGED <<hand, sta_ip>>
      BY <1>1, Zenon DEF ScanDone, StartWifiScan, LoadAndRestoreSta, DisconnectSta, StartAp,
                         StopAp, HttpClientInit, HttpdRequest, ConnectSta
    <2>2. \E m \in Messages \ LinkMessages : Receive(m)
      BY <1>1, <1>m, Zenon DEF ScanDone, StartWifiScan, LoadAndRestoreSta, DisconnectSta,
                         StartAp, StopAp, HttpClientInit, HttpdRequest, ConnectSta
    <2> QED
      BY <2>1, <2>2, <1>c DEF Settled, Minds
  <1>2. CASE LoadAndRestoreStaRest \/ StaDisconnectedFailed \/ StaDisconnectedByUser
             \/ StaDisconnectedLost \/ HttpdStopped \/ HttpdRequestDone
    <2>1. UNCHANGED <<hand, sta_ip, queue>>
      BY <1>2, Zenon DEF LoadAndRestoreStaRest, StaDisconnectedFailed, StaDisconnectedByUser,
                         StaDisconnectedLost, HttpdStopped, HttpdRequestDone
    <2> QED
      BY <2>1, <1>c DEF Settled, Minds
  <1>3. CASE ManagerSend
    <2>1. UNCHANGED <<hand, sta_ip>> /\ Send(out) /\ out \in OwnOrders
      BY <1>3 DEF ManagerSend, TypeData
    <2>2. out \in Messages \ LinkMessages
      BY <2>1 DEF OwnOrders, Messages, EventMessages, LinkMessages
    <2> QED
      BY <2>1, <2>2, <1>c DEF Settled, Minds
  <1> QED
    BY <1>1, <1>2, <1>3 DEF Manager

\* The timer, the server, the clients, the other tasks and the driver.
Bystanders == \/ TimerRetry \/ TimerRetrySend \/ Httpd \/ Client
              \/ (\E m \in Orders : AppSend(m)) \/ Driver

LEMMA BystandersSettled ==
  ASSUME TypeData, Bystanders
  PROVE  Settled
  <1> USE DEF mgr, driver, web
  <1>1. UNCHANGED <<hand, sta_ip>>
    BY Zenon DEF Bystanders, TimerRetry, TimerRetrySend, Httpd, GetApJsonSent, ScanAsync,
       ConnectAsync, Client, GetApJson, GetConnect, PostWifiSetup, AppSend, Driver,
       DriverJoined, DriverJoinFails, DriverLeaves, DriverLosesLink, Disconnected, DriverScanDone
  <1>2. bits' = bits \/ bits' = bits \cup {"CONFIGURE_MODE"}
    BY Zenon DEF Bystanders, TimerRetry, TimerRetrySend, Httpd, GetApJsonSent, ScanAsync,
       ConnectAsync, Client, GetApJson, GetConnect, PostWifiSetup, AppSend, Driver,
       DriverJoined, DriverJoinFails, DriverLeaves, DriverLosesLink, Disconnected, DriverScanDone
  <1>3. Connected' <=> Connected
    BY <1>2 DEF Connected
  <1>4. {"CONNECT_AUTO", "START_WIFI_SCAN", "LOAD_AND_RESTORE_STA"} \cup Orders
           \subseteq Messages \ LinkMessages
    BY OrdersAssumption DEF LinkMessages, Messages, EventMessages
  <1>5. Minds
    BY <1>4, Zenon DEF Minds, Bystanders, TimerRetry, TimerRetrySend, Httpd, GetApJsonSent,
       ScanAsync, ConnectAsync, Client, GetApJson, GetConnect, PostWifiSetup, AppSend, Driver,
       DriverJoined, DriverJoinFails, DriverLeaves, DriverLosesLink, Disconnected, DriverScanDone
  <1> QED
    BY <1>1, <1>3, <1>5 DEF Settled

\* The message of the event task's hand changes and is about the link neither
\* before nor after.
LEMMA FeedIdle ==
  ASSUME TypeData, FeedInv, UNCHANGED <<queue, unshown>>,
         hand \notin LinkMessages, hand' \in Parcels \ LinkMessages
  PROVE  FeedInv'
  <1> DEFINE w == Append(queue, hand)
             v == Append(queue, hand')
  <1>1. queue \in Seq(Parcels)
    BY DEF TypeData, Parcels, Messages
  <1>2. PICK at \in [1..Len(unshown) -> 1..Len(w)] : Carries(w, unshown, at)
    BY DEF FeedInv, Carried
  <1>3. /\ Len(v) = Len(w)
        /\ \A p \in 1..Len(w) : \/ v[p] = w[p]
                                \/ v[p] \notin LinkMessages /\ w[p] \notin LinkMessages
    BY <1>1
  <1> HIDE DEF w, v
  <1>4. \A k \in 1..Len(unshown) : at[k] \in 1..Len(w)
    BY <1>2
  <1>5. Carries(v, unshown, at)
    BY <1>2, <1>3, <1>4 DEF Carries
  <1>6. Carried(v, unshown)
    BY <1>2, <1>3, <1>5 DEF Carried
  <1> QED
    BY <1>6 DEF FeedInv, v

\* After a restart nothing is on its way.
LEMMA FeedEmpty ==
  ASSUME NEW m \in Messages \ LinkMessages, NEW s, s = << >>
  PROVE  Carried(Append(<<m>>, "NONE"), s) /\ s \in Seq(BOOLEAN)
  <1> DEFINE w == Append(<<m>>, "NONE")
             at == [k \in 1..0 |-> 1]
  <1>1. Len(w) = 2 /\ w[1] = m /\ w[2] = "NONE" /\ Len(s) = 0 /\ s \in Seq(BOOLEAN)
    OBVIOUS
  <1>2. at \in [1..Len(s) -> 1..Len(w)]
    BY <1>1
  <1> HIDE DEF w, at
  <1>3. \A p \in 1..Len(w) : w[p] \notin LinkMessages
    BY <1>1 DEF LinkMessages
  <1>4. Carries(w, s, at)
    BY <1>1, <1>3 DEF Carries
  <1> QED
    BY <1>1, <1>2, <1>4 DEF Carried, w

\* Every step keeps the feed, and is a step of LinkFeed or changes nothing of it.
LEMMA FeedStep ==
  ASSUME TypeData, FeedInv, MCNext
  PROVE  FeedInv' /\ [Feed!Next]_<<Connected, unshown, sta_ip>>
  <1> USE DEF Feed!Next
  <1>s. ASSUME Settled, UNCHANGED unshown
        PROVE  FeedInv' /\ [Feed!Next]_<<Connected, unshown, sta_ip>>
    <2>1. Connected' = Connected
      BY <1>s, SMT DEF Settled, Connected
    <2> QED
      BY <1>s, <2>1, FeedSettled DEF Settled
  <1>1. CASE Asks /\ UNCHANGED unshown
    BY <1>1, <1>s, BystandersSettled DEF Asks, Bystanders
  <1>2. CASE (Unasked \/ Driver) /\ FollowPublished
    <2>1. CASE Restart
      <3>1. queue' = <<"LOAD_AND_RESTORE_STA">> /\ hand' = "NONE" /\ sta_ip' = FALSE /\ bits' = {}
            /\ unshown' = << >>
        BY <1>2, <2>1 DEF Restart, FollowPublished
      <3>2. Connected' = FALSE
        BY <3>1, SMT DEF Connected
      <3>3. FeedInv'
        <4>1. "LOAD_AND_RESTORE_STA" \in Messages \ LinkMessages
          BY DEF Messages, EventMessages, LinkMessages
        <4> QED
          BY <3>1, <4>1, FeedEmpty DEF FeedInv
      <3> QED
        BY <3>1, <3>2, <3>3 DEF Feed!Reset
    <2>2. CASE ~Restart /\ EventHandler /\ Head(evq) \in LinkMessages
      <3> DEFINE e == Head(evq)
      <3>1. /\ hand = "NONE" /\ UNCHANGED <<queue, sta_ip>> /\ bits' = BitsAfter(bits, e)
            /\ hand' = IF e \in EventMessages THEN e ELSE "NONE"
            /\ unshown' = Append(unshown, e = "STA_GOT_IP")
        BY <1>2, <2>2, Zenon DEF EventHandler, FollowPublished, mgr
      <3> HIDE DEF e
      <3>2. e \in LinkMessages
        BY <2>2 DEF e
      <3>3. hand' = e /\ (Connected' <=> e = "STA_GOT_IP")
        BY <3>1, <3>2, SMT DEF LinkMessages, EventMessages, BitsAfter, Connected
      <3>4. FeedInv'
        BY <3>1, <3>2, <3>3, FeedPublished
      <3>5. PICK up \in BOOLEAN : up = (e = "STA_GOT_IP")
        BY Zenon
      <3>6. Connected' = up
        BY <3>3, <3>5, SMT DEF Connected
      <3> QED
        BY <3>1, <3>4, <3>5, <3>6 DEF Feed!Publish
    <2>3. CASE ~Restart /\ ~(EventHandler /\ Head(evq) \in LinkMessages)
               /\ (StaDisconnected \/ StaGotIp)
      <3>1. unshown' = Tail(unshown)
        BY <1>2, <2>3, Zenon DEF FollowPublished
      <3>2. PICK m \in LinkMessages : Receive(m) /\ (sta_ip' <=> m = "STA_GOT_IP") /\ sta_ip' \in BOOLEAN
        BY <2>3 DEF StaDisconnected, StaGotIp, AddressAfter, LinkMessages
      <3>3. hand' = hand /\ Manager
        BY <2>3, Zenon DEF StaDisconnected, StaGotIp, Manager
      <3>4. FeedInv' /\ unshown # << >> /\ (Head(unshown) <=> m = "STA_GOT_IP")
        BY <3>1, <3>2, <3>3, FeedTakeLink
      <3>5. Head(unshown) \in BOOLEAN
        <4>1. unshown \in Seq(BOOLEAN) /\ unshown # << >>
          BY <3>4 DEF FeedInv
        <4> QED
          BY <4>1
      <3>6. sta_ip' = Head(unshown)
        <4>1. sta_ip' <=> Head(unshown)
          BY <3>2, <3>4, Zenon
        <4>2. ASSUME NEW a \in BOOLEAN, NEW b \in BOOLEAN, a <=> b PROVE a = b
          BY <4>2
        <4> QED
          BY <4>1, <4>2, <3>2, <3>5, Zenon
      <3>7. Connected' = Connected
        BY <3>3, ManagerDriver, SMT DEF Connected
      <3> QED
        BY <3>1, <3>4, <3>6, <3>7 DEF Feed!Show
    <2>4. CASE ~Restart /\ ~(EventHandler /\ Head(evq) \in LinkMessages)
               /\ ~(StaDisconnected \/ StaGotIp)
      <3>1. unshown' = unshown
        BY <1>2, <2>4, Zenon DEF FollowPublished
      <3>2. CASE Manager
        BY <2>4, <3>1, <3>2, <1>s, ManagerSettled
      <3>3. CASE EventSend
        <4>1. Connected' = Connected /\ sta_ip' = sta_ip
          BY <3>3 DEF EventSend, Connected, mgr
        <4> QED
          BY <3>1, <3>3, <4>1, FeedPut
      <3>4. CASE EventHandler
        <4> DEFINE e == Head(evq)
        <4>1. /\ hand = "NONE" /\ UNCHANGED <<queue, sta_ip>> /\ bits' = BitsAfter(bits, e)
              /\ hand' = IF e \in EventMessages THEN e ELSE "NONE"
          BY <3>4, Zenon DEF EventHandler, mgr
        <4>2. e \notin LinkMessages
          BY <2>4, <3>4
        <4> HIDE DEF e
        <4>3. Connected' = Connected
          BY <4>1, <4>2, SMT DEF Connected, BitsAfter, LinkMessages
        <4>4. hand \notin LinkMessages /\ hand' \in Parcels \ LinkMessages
          BY <4>1, <4>2 DEF LinkMessages, Parcels, Messages
        <4> QED
          BY <3>1, <4>1, <4>3, <4>4, FeedIdle
      <3>5. CASE Bystanders
        BY <3>1, <3>5, <1>s, BystandersSettled
      <3> QED
        BY <1>2, <2>4, <3>2, <3>3, <3>4, <3>5, Zenon DEF Unasked, Bystanders
    <2> QED
      BY <2>1, <2>2, <2>3, <2>4
  <1> QED
    BY <1>1, <1>2, Zenon DEF MCNext

\* The manager implements LinkFeed: the address string follows every change of
\* the CONNECTED bit, none lost, none repeated, none overtaken, whatever the
\* length of the queue, the clients and the other tasks do.
THEOREM ImplementsLinkFeed == MCSpec => FollowsEveryLinkChange
  <1>1. MCInit => FeedInv /\ Feed!Init
    <2> SUFFICES ASSUME NEW conf \in {"none", "good"}, InitWith(conf), unshown = << >>
                 PROVE  FeedInv /\ Feed!Init
      BY DEF MCInit, Init
    <2>1. queue = <<"LOAD_AND_RESTORE_STA">> /\ hand = "NONE" /\ sta_ip = FALSE /\ bits = {}
      BY DEF InitWith
    <2>2. "LOAD_AND_RESTORE_STA" \in Messages \ LinkMessages
      BY DEF Messages, EventMessages, LinkMessages
    <2>3. FeedInv
      BY <2>1, <2>2, FeedEmpty DEF FeedInv
    <2>4. Connected = FALSE
      BY <2>1, SMT DEF Connected
    <2> QED
      BY <2>1, <2>3, <2>4 DEF Feed!Init
  <1>2. ASSUME TypeOK, FeedInv, [MCNext]_mcVars
        PROVE  FeedInv' /\ [Feed!Next]_<<Connected, unshown, sta_ip>>
    <2>1. CASE MCNext
      BY <1>2, <2>1, FeedStep DEF TypeOK
    <2>2. CASE UNCHANGED mcVars
      <3>1. UNCHANGED <<queue, hand, bits, sta_ip, unshown>>
        BY <2>2, Zenon DEF mcVars, vars, mgr
      <3>2. Connected' = Connected
        BY <3>1, Zenon DEF Connected
      <3>3. FeedInv'
        BY <1>2, <3>1, Zenon DEF FeedInv
      <3> QED
        BY <3>1, <3>2, <3>3, Zenon
    <2> QED
      BY <1>2, <2>1, <2>2
  <1> QED
    BY <1>1, <1>2, MCTypeCorrect, PTL DEF MCSpec, FollowsEveryLinkChange, Feed!Spec

(***************************************************************************)
(* What is to be forgotten.                                                *)
(***************************************************************************)
Joins == {"CONNECT_USER", "CONNECT_AUTO", "CONNECT_RESTORE", "STA_DISCONNECTED"}

\* Nothing is on its way that joins the link, or that starts the retry timer.
Quiet == /\ link = "down" /\ ~timer /\ ~tick
         /\ \A m \in Joins : ~Waits(m) /\ ~Posted(m) /\ hand # m

\* The manager is not about to send for a join either.
Idle == /\ Quiet
        /\ ~(mpc = "send" /\ out = "CONNECT_RESTORE")
        /\ Handling("STA_DISCONNECTED") => DisconnectCause(ux) # "lost connection"

ForgottenInv == ~ram /\ ~pending => Idle

\* Once nothing is on its way that joins the link, no handler changes that without
\* loading a configuration,
LEMMA IdleManager ==
  ASSUME TypeData, Idle, Manager, ~ram'
  PROVE  Idle'
  <1> USE DEF Idle, Quiet, Handling, mgr, driver, web
  <1>r. ASSUME NEW m, Receive(m)
        PROVE  m \notin Joins /\ \A k \in Joins : ~Waits(k)'
    BY <1>r, QueueReceive
  <1>k. ASSUME queue' = queue PROVE \A k \in Joins : ~Waits(k)'
    BY <1>k, QueueKept
  <1>e. ASSUME evq' = evq \/ \E e \in ApEvents : evq' = Append(evq, e)
        PROVE  \A k \in Joins : ~Posted(k)'
    <2>1. ApEvents \cap Joins = {}
      BY DEF ApEvents, Joins
    <2> QED
      BY <1>e, <2>1, EventsKept, EventsPost
  <1>m. ASSUME NEW x, SetMode(x)
        PROVE  evq' = evq \/ \E e \in ApEvents : evq' = Append(evq, e)
    BY <1>m DEF SetMode, ApEvents
  <1>1. CASE ScanDone \/ StartWifiScan
    <2>1. /\ UNCHANGED <<link, timer, tick, hand, evq, mpc, msg, out, ux>>
          /\ \E m : Receive(m)
      BY <1>1, Zenon DEF ScanDone, StartWifiScan
    <2> QED
      BY <2>1, <1>r, <1>e
  <1>2. CASE LoadAndRestoreSta
    <2>1. /\ UNCHANGED <<link, timer, tick, hand, evq>> /\ \E m : Receive(m)
          /\ mpc' = "send" /\ out' = "START_AP"
      BY <1>2 DEF LoadAndRestoreSta, AfterFetch
    <2> QED
      BY <2>1, <1>r, <1>e
  <1>3. CASE LoadAndRestoreStaRest
    <2>1. /\ UNCHANGED <<link, timer, tick, hand, queue>> /\ SetMode("sta") /\ mpc' = "receive"
      BY <1>3, Zenon DEF LoadAndRestoreStaRest
    <2> QED
      BY <2>1, <1>k, <1>e, <1>m
  <1>4. CASE ManagerSend
    <2>1. /\ UNCHANGED <<link, timer, tick, hand, evq>> /\ Send(out)
          /\ out \in OwnOrders \ {"CONNECT_RESTORE"} /\ mpc' \in {"load", "receive"}
      BY <1>4 DEF ManagerSend, TypeData
    <2>2. out \in Messages /\ out \notin Joins
      BY <2>1 DEF OwnOrders, Messages, Joins
    <2>3. \A k \in Joins : ~Waits(k)'
      BY <2>1, <2>2, QueueSend
    <2> QED
      BY <2>1, <2>3, <1>e
  <1>5. ASSUME NEW r \in {"CONNECT_USER", "CONNECT_AUTO", "CONNECT_RESTORE"}, ConnectSta(r)
        PROVE  FALSE
    <2>1. Receive(r) /\ r \in Joins
      BY <1>5 DEF ConnectSta, Joins
    <2> QED
      BY <2>1, <1>r
  <1>6. CASE DisconnectSta
    <2>1. /\ UNCHANGED <<timer, tick, hand, evq, mpc, msg, out, ux>> /\ link' = "down"
          /\ \E m : Receive(m)
      BY <1>6 DEF DisconnectSta
    <2> QED
      BY <2>1, <1>r, <1>e
  <1>7. CASE StaDisconnected
    <2>1. Receive("STA_DISCONNECTED") /\ "STA_DISCONNECTED" \in Joins
      BY <1>7 DEF StaDisconnected, Joins
    <2> QED
      BY <2>1, <1>r
  <1>8. CASE StaDisconnectedFailed \/ HttpdStopped \/ HttpdRequestDone
    <2>1. UNCHANGED <<link, timer, tick, hand, evq, queue>> /\ mpc' = "receive"
      BY <1>8, Zenon DEF StaDisconnectedFailed, HttpdStopped, HttpdRequestDone, ToReceive
    <2> QED
      BY <2>1, <1>k, <1>e
  <1>9. CASE StaDisconnectedByUser
    <2>1. UNCHANGED <<link, timer, tick, hand, evq, queue>> /\ mpc' = "send" /\ out' = "START_AP"
      BY <1>9, Zenon DEF StaDisconnectedByUser
    <2> QED
      BY <2>1, <1>k, <1>e
  <1>10. CASE StaDisconnectedLost
    BY <1>10 DEF StaDisconnectedLost
  <1>11. CASE StaGotIp
    <2>1. /\ UNCHANGED <<link, timer, tick, hand, evq>> /\ \E m : Receive(m)
          /\ mpc' = "send" /\ out' = "HTTP_CLIENT_INIT"
      BY <1>11, Zenon DEF StaGotIp
    <2> QED
      BY <2>1, <1>r, <1>e
  <1>12. CASE StartAp \/ HttpClientInit
    <2>1. /\ UNCHANGED <<link, timer, tick, hand>> /\ \E m : Receive(m)
          /\ mpc' = "httpd_stop" /\ (evq' = evq \/ SetMode("apsta"))
      BY <1>12, Zenon DEF StartAp, HttpClientInit
    <2> QED
      BY <2>1, <1>r, <1>e, <1>m
  <1>13. CASE StopAp
    <2>1. /\ UNCHANGED <<link, timer, tick, hand>> /\ \E m : Receive(m)
          /\ (mpc' = "httpd_stop" \/ mpc' = mpc) /\ (evq' = evq \/ SetMode("sta"))
          /\ mpc = "receive"
      BY <1>13, Zenon DEF StopAp, Receive
    <2> QED
      BY <2>1, <1>r, <1>e, <1>m
  <1>14. CASE HttpdRequest
    <2>1. /\ UNCHANGED <<link, timer, tick, hand, evq>> /\ \E m : Receive(m)
          /\ mpc' = "json" /\ msg' = "HTTPD_REQUEST"
      BY <1>14, Zenon DEF HttpdRequest
    <2> QED
      BY <2>1, <1>r, <1>e
  <1> QED
    BY <1>1, <1>2, <1>3, <1>4, <1>5, <1>6, <1>7, <1>8, <1>9, <1>10, <1>11,
       <1>12, <1>13, <1>14 DEF Manager

\* nor does a restart,
LEMMA IdleRestart == Restart => Idle'
  BY DEF Restart, Idle, Quiet, Handling, Waits, Posted, Joins

\* The event that is handled was posted.
LEMMA FirstPosted == TypeData /\ evq # << >> => Posted(Head(evq))
  <1> SUFFICES ASSUME evq \in Seq(DriverEvents), evq # << >> PROVE Posted(Head(evq))
    BY DEF TypeData
  <1>1. 1 \in 1..Len(evq) /\ evq[1] = Head(evq)
    OBVIOUS
  <1> QED
    BY <1>1 DEF Posted

\* nor any other task or the driver.
LEMMA IdleOthers ==
  ASSUME TypeData, Idle, Others, "CONNECT_USER" \notin Orders
  PROVE  Idle'
  <1> USE DEF Idle, Quiet, Handling, mgr, driver, web
  <1>1. CASE EventHandler
    <2> DEFINE e == Head(evq)
    <2>1. /\ evq # << >> /\ evq' = Tail(evq) /\ hand' = IF e \in EventMessages THEN e ELSE "NONE"
          /\ UNCHANGED <<link, timer, tick, queue, mpc, msg, out, ux>>
      BY <1>1, Zenon DEF EventHandler
    <2>2. Posted(e)
      BY <2>1, FirstPosted
    <2>3. \A k : Posted(k)' => Posted(k)
      BY <2>1, EventsTake
    <2> HIDE DEF e
    <2>4. hand' \notin Joins
      BY <2>1, <2>2 DEF Joins
    <2> QED
      BY <2>1, <2>3, <2>4, QueueKept
  <1>2. ASSUME NEW m \in Messages \ Joins, Send(m), hand' \in {hand, "NONE"},
               UNCHANGED <<link, timer, tick, evq, mpc, msg, out, ux>>
        PROVE  Idle'
    <2>1. \A k \in Joins : ~Waits(k)'
      BY <1>2, QueueSend
    <2>2. \A k \in Joins : ~Posted(k)' /\ hand' # k
      BY <1>2, EventsKept DEF Joins
    <2> QED
      BY <1>2, <2>1, <2>2
  <1>3. CASE EventSend
    <2>1. /\ Send(hand) /\ hand' = "NONE" /\ hand # "NONE"
          /\ UNCHANGED <<link, timer, tick, evq, mpc, msg, out, ux>>
      BY <1>3, Zenon DEF EventSend
    <2>2. hand \in Messages \ Joins
      BY <2>1, SentMessages
    <2> QED
      BY <2>1, <2>2, <1>2
  <1>4. CASE TimerRetry \/ TimerRetrySend
    BY <1>4 DEF TimerRetry, TimerRetrySend
  <1>5. CASE GetApJsonSent \/ Client
    <2>1. UNCHANGED <<link, timer, tick, evq, mpc, msg, out, ux, hand, queue>>
      BY <1>5, Zenon DEF GetApJsonSent, Client, GetApJson, GetConnect, PostWifiSetup
    <2> QED
      BY <2>1, QueueKept, EventsKept
  <1>6. CASE ScanAsync \/ ConnectAsync \/ \E m \in Orders : AppSend(m)
    <2>1. {"START_WIFI_SCAN", "LOAD_AND_RESTORE_STA"} \cup Orders \subseteq Messages \ Joins
      BY OrdersAssumption DEF Messages, EventMessages, Joins
    <2>2. /\ \E m \in Messages \ Joins : Send(m)
          /\ UNCHANGED <<link, timer, tick, evq, mpc, msg, out, ux, hand>>
      BY <1>6, <2>1, Zenon DEF ScanAsync, ConnectAsync, AppSend
    <2> QED
      BY <2>2, <1>2
  <1>7. CASE DriverScanDone
    <2>1. /\ evq' = Append(evq, "SCAN_DONE")
          /\ UNCHANGED <<link, timer, tick, mpc, msg, out, ux, hand, queue>>
      BY <1>7, Zenon DEF DriverScanDone, Post
    <2>2. "SCAN_DONE" \notin Joins
      BY DEF Joins
    <2>3. \A k \in Joins : ~Posted(k)'
      <3>1. \A k : Posted(k)' <=> Posted(k) \/ k = "SCAN_DONE"
        BY <2>1, EventsPost, Zenon
      <3> QED
        BY <2>2, <3>1
    <2> QED
      BY <2>1, <2>3, QueueKept
  <1>8. CASE DriverJoined \/ DriverJoinFails \/ DriverLeaves \/ DriverLosesLink
    BY <1>8 DEF DriverJoined, DriverJoinFails, DriverLeaves, DriverLosesLink
  <1>9. CASE Restart
    BY <1>9, IdleRestart
  <1> QED
    BY <1>1, <1>3, <1>4, <1>5, <1>6, <1>7, <1>8, <1>9 DEF Others, Httpd, Driver

\* When the configuration is cleared the manager is at work on a request to
\* disconnect, or the device restarts.
LEMMA ClearedIdle ==
  ASSUME TypeData, Manager \/ Others, ram, ~ram', Quiet'
  PROVE  Idle'
  <1> USE DEF Idle, Handling, mgr, driver, web
  <1>1. CASE Restart
    BY <1>1 DEF Restart
  <1>2. CASE StaDisconnected
    <2>1. mpc' = "json" /\ ux' = bits /\ DisconnectCause(bits) = "user disconnect"
      BY <1>2 DEF StaDisconnected, RamAfter
    <2> QED
      BY <2>1 DEF DisconnectCause
  <1>3. CASE ~Restart /\ ~StaDisconnected
    <2>1. ram' = ram \/ \E ok \in BOOLEAN : ram' = (ram \/ ok)
      BY <1>3, Zenon DEF Manager, ScanDone, StartWifiScan, LoadAndRestoreSta, FetchResults,
         LoadAndRestoreStaRest, ManagerSend, ConnectSta, DisconnectSta, StaDisconnectedFailed,
         StaDisconnectedByUser, StaDisconnectedLost, StaGotIp, StartAp, StopAp, HttpClientInit,
         HttpdStopped, HttpdRequest, HttpdRequestDone, Others, EventHandler, EventSend,
         TimerRetry, TimerRetrySend, Httpd, GetApJsonSent, ScanAsync, ConnectAsync, Client,
         GetApJson, GetConnect, PostWifiSetup, AppSend, Driver, DriverJoined, DriverJoinFails,
         DriverLeaves, DriverLosesLink, Disconnected, DriverScanDone
    <2> QED
      BY <2>1
  <1> QED
    BY <1>1, <1>2, <1>3

\* After a request to disconnect has been honoured the device is linked again
\* only if a retry, or an order to connect, was to come already when the
\* configuration was cleared; for every queue length and retry maximum, as long
\* as no other task orders a connection of its own.
THEOREM ForgottenStaysOffline ==
  ASSUME "CONNECT_USER" \notin Orders
  PROVE  MCSpec => []ForgottenMeansOffline
  <1>1. MCInit => ForgottenInv
    <2> SUFFICES ASSUME NEW conf \in {"none", "good"}, InitWith(conf) PROVE Idle
      BY DEF MCInit, Init, ForgottenInv
    <2> QED
      BY DEF InitWith, Idle, Quiet, Handling, Waits, Posted, Joins
  <1>2. ASSUME TypeOK, ForgottenInv, [MCNext]_mcVars PROVE ForgottenInv'
    <2>0. TypeData
      BY <1>2 DEF TypeOK
    <2>1. CASE Asks /\ pending' = pending
      <3>1. Others /\ ram' = ram
        BY <2>1, Zenon DEF Asks, Others, Client, GetApJson, GetConnect, PostWifiSetup, AppSend
      <3> QED
        BY <1>2, <2>0, <2>1, <3>1, IdleOthers DEF ForgottenInv
    <2>2. CASE (Unasked \/ Driver) /\ RememberPending
      <3>1. Manager \/ Others
        BY <2>2, Zenon DEF Unasked, Others
      <3>2. CASE ram /\ ~ram'
        <4>1. pending' = JoinsToCome'
          BY <2>2, <3>2 DEF RememberPending
        <4>2. ~pending' => Quiet'
          BY <4>1 DEF Quiet, JoinsToCome, Coming, Joins, Waits, Posted
        <4> QED
          BY <2>0, <3>1, <3>2, <4>2, ClearedIdle DEF ForgottenInv
      <3>3. CASE ~(ram /\ ~ram')
        <4>1. pending' = (pending /\ ~ram')
          BY <2>2, <3>3 DEF RememberPending
        <4> QED
          BY <1>2, <2>0, <3>1, <3>3, <4>1, IdleManager, IdleOthers DEF ForgottenInv
      <3> QED
        BY <3>2, <3>3
    <2>3. CASE UNCHANGED mcVars
      <3>1. UNCHANGED <<queue, evq>> /\ UNCHANGED <<hand, link, timer, tick, mpc, msg, out, ux, ram, pending>>
        BY <2>3, Zenon DEF mcVars, vars, mgr, driver
      <3> QED
        BY <1>2, <3>1, QueueKept, EventsKept DEF ForgottenInv, Idle, Quiet, Handling
    <2> QED
      BY <1>2, <2>1, <2>2, <2>3, Zenon DEF MCNext
  <1>3. ForgottenInv => ForgottenMeansOffline
    BY DEF ForgottenInv, ForgottenMeansOffline, Idle, Quiet
  <1> QED
    BY <1>1, <1>2, <1>3, MCTypeCorrect, PTL DEF MCSpec

(***************************************************************************)
(* What the http client is told of the link.                               *)
(***************************************************************************)
\* Where a handler of the manager is that has more than one step.
HandlerAt ==
    /\ msg \in {"START_AP", "STOP_AP", "HTTP_CLIENT_INIT"} => mpc = "httpd_stop"
    /\ msg = "STA_DISCONNECTED" => mpc \in {"json", "send"}
    /\ mpc = "send" => (out = "HTTP_CLIENT_INIT" <=> msg = "STA_GOT_IP")
    /\ mpc = "send" /\ msg = "STA_DISCONNECTED" => out = "START_AP"
CallbackAt == cb \in {"none", "connect", "lost"} /\ (cb # "none" => mpc = "receive")

\* What comes after the order to tell the client of a link, when that waits: a loss,
\* an order to retry.
InitWaits == Waits("HTTP_CLIENT_INIT")
DropOnWay == \/ Posted("STA_DISCONNECTED") \/ hand = "STA_DISCONNECTED"
             \/ Past("STA_DISCONNECTED", "HTTP_CLIENT_INIT")
RetryOnWay == timer \/ tick \/ Past("CONNECT_AUTO", "HTTP_CLIENT_INIT")

\* The order is sent right after the address has come; a loss that is handled before it
\* has started the timer,
InitFresh == mpc = "send" /\ out = "HTTP_CLIENT_INIT" =>
                retries = 0 /\ "REQUEST_STA_CONNECT" \notin bits
RetryBehind == InitWaits /\ retries > 0 => RetryOnWay

\* and an attempt that a user has asked for meanwhile is decided after it.
UserAttempt == \/ "REQUEST_STA_CONNECT" \in bits
               \/ Handling("STA_DISCONNECTED") /\ "REQUEST_STA_CONNECT" \in ux
UserBehind == InitWaits /\ UserAttempt => link # "down" \/ DropOnWay

\* A client that takes, or will take, a link that is down for one that is up is going
\* to be told, or a retry is to come.
Told == \/ timer \/ tick \/ Waits("CONNECT_AUTO") \/ DropComes \/ StartComes
        \/ ~InitWaits /\ (cb = "lost" \/ (mpc = "httpd_stop" /\ msg = "START_AP"))
ToldInv == link = "down" /\ (wifi_ok \/ EndsPortal \/ cb = "connect") => Told

WrongInv == HandlerAt /\ CallbackAt /\ InitFresh /\ RetryBehind /\ UserBehind /\ ToldInv

\* The event that says that the link is up is the last of the events.
UpFollows ==
    link = "up" => /\ ~Connected => Posted("STA_GOT_IP")
                   /\ Followed("STA_DISCONNECTED", "STA_GOT_IP")
GotComes == Posted("STA_GOT_IP") \/ hand = "STA_GOT_IP" \/ Waits("STA_GOT_IP")

\* Once the manager has heard that the link is up, the order to tell the client comes
\* after every order to open the portal, or the client knows, or was told of a loss that
\* is none.
InitLast == Past("HTTP_CLIENT_INIT", "START_AP")
NoLoss == clearedBy \in {"START_WIFI_SCAN", "SCAN_DONE", "STOP_AP"}
Knows == /\ ~Waits("START_AP") /\ ~(mpc = "httpd_stop" /\ msg = "START_AP")
         /\ \/ mpc = "httpd_stop" /\ msg = "HTTP_CLIENT_INIT"
            \/ cb = "connect" \/ (wifi_ok /\ cb # "lost") \/ NoLoss
KnownInv ==
    link = "up" /\ ~fellBack /\ ~GotComes =>
        /\ ~(mpc = "send" /\ out = "START_AP") /\ ~Handling("STA_DISCONNECTED")
        /\ (mpc = "send" /\ out = "HTTP_CLIENT_INIT") \/ InitLast \/ Knows

\* The steps that are not the manager's, as WifiClient and as WifiManagerProofs group them.
LEMMA OthersSplit == Others <=> Around \/ ClientAsks \/ Restart
  BY Zenon DEF Others, Around, ClientAsks

\* What waits in the queue and is not taken, and what waits without a message behind it.
LEMMA PastWaits == \A k, e : Past(k, e) => Waits(k)
  BY DEF Past, Waits

LEMMA WaitsPast == \A k, e : Waits(k) /\ ~Waits(e) => Past(k, e)
  BY DEF Past, Waits

\* The other tasks and the driver hand on what is on its way, and send none of the
\* orders that the manager sends to itself.
LEMMA OutsideQueue ==
  ASSUME TypeData, Around \/ ClientAsks
  PROVE  /\ UNCHANGED mgr
         /\ \A k : Waits(k) => Waits(k)'
         /\ \A k : Waits(k)' => Waits(k) \/ k \notin {"HTTP_CLIENT_INIT", "START_AP"}
         /\ \A k, e : Past(k, e) /\ e \in {"HTTP_CLIENT_INIT", "START_AP"} => Past(k, e)'
  <1> DEFINE Own == {"HTTP_CLIENT_INIT", "START_AP"}
  <1> USE DEF driver, web
  <1>k. ASSUME queue' = queue
        PROVE  /\ \A k : Waits(k)' <=> Waits(k)
               /\ \A k, e : Past(k, e) => Past(k, e)'
    BY <1>k, QueueKept
  <1>s. ASSUME NEW m \in Messages \ Own, Send(m)
        PROVE  /\ \A k : Waits(k) => Waits(k)'
               /\ \A k : Waits(k)' => Waits(k) \/ k \notin Own
               /\ \A k, e : Past(k, e) /\ e \in Own => Past(k, e)'
    BY <1>s, QueueSend
  <1>1. CASE EventHandler \/ GetApJsonSent \/ TimerRetry \/ Client \/ Driver
    <2>1. queue' = queue /\ UNCHANGED mgr
      BY <1>1, Zenon DEF EventHandler, GetApJsonSent, TimerRetry, Client, GetApJson, GetConnect,
         PostWifiSetup, Driver, DriverJoined, DriverJoinFails, DriverLeaves, DriverLosesLink,
         Disconnected, DriverScanDone
    <2> QED
      BY <2>1, <1>k
  <1>2. CASE EventSend
    <2>1. Send(hand) /\ UNCHANGED mgr /\ hand # "NONE"
      BY <1>2, Zenon DEF EventSend
    <2> QED
      BY <2>1, <1>s, SentMessages
  <1>3. CASE TimerRetrySend \/ ScanAsync \/ ConnectAsync
    <2>1. /\ UNCHANGED mgr
          /\ \E m \in {"CONNECT_AUTO", "START_WIFI_SCAN", "LOAD_AND_RESTORE_STA"} : Send(m)
      BY <1>3 DEF TimerRetrySend, ScanAsync, ConnectAsync
    <2> QED
      BY <2>1, <1>s, SentMessages
  <1>4. CASE \E m \in Orders : AppSend(m)
    <2>1. UNCHANGED mgr /\ \E m \in Orders : Send(m)
      BY <1>4, Zenon DEF AppSend
    <2> QED
      BY <2>1, <1>s, SentMessages
  <1> QED
    BY <1>1, <1>2, <1>3, <1>4 DEF Around, ClientAsks, Httpd

\* What is on its way to the manager stays so while the others work.
LEMMA OutsideMoves ==
  ASSUME TypeData, Around \/ ClientAsks
  PROVE  /\ DropOnWay => DropOnWay'
         /\ RetryOnWay => RetryOnWay'
         /\ timer \/ tick => timer' \/ tick' \/ Waits("CONNECT_AUTO")'
         /\ \A e \in {"STA_GOT_IP", "STA_DISCONNECTED"} :
               Posted(e) \/ hand = e => Posted(e)' \/ hand' = e \/ Waits(e)'
         /\ link' = "down" /\ link # "down" => Posted("STA_DISCONNECTED")'
         /\ link' = "up" /\ link # "up" => Posted("STA_GOT_IP")'
         /\ "REQUEST_STA_CONNECT" \in bits' => "REQUEST_STA_CONNECT" \in bits
  <1> USE DEF driver, web, DropOnWay, RetryOnWay
  <1>q. /\ \A k : Waits(k) => Waits(k)'
        /\ \A k : Past(k, "HTTP_CLIENT_INIT") => Past(k, "HTTP_CLIENT_INIT")'
    BY OutsideQueue
  <1>1. CASE EventHandler
    <2> DEFINE e == Head(evq)
    <2>1. /\ evq # << >> /\ evq' = Tail(evq) /\ hand = "NONE" /\ bits' = BitsAfter(bits, e)
          /\ hand' = IF e \in EventMessages THEN e ELSE "NONE"
          /\ UNCHANGED <<timer, tick, link>>
      BY <1>1 DEF EventHandler
    <2> HIDE DEF e
    <2>2. \A k : Posted(k) => Posted(k)' \/ k = e
      BY <2>1, EventsTake DEF e
    <2>3. "REQUEST_STA_CONNECT" \in bits' => "REQUEST_STA_CONNECT" \in bits
      BY <2>1 DEF BitsAfter
    <2>4. \A k \in {"STA_GOT_IP", "STA_DISCONNECTED"} : k = e => hand' = k
      BY <2>1 DEF EventMessages
    <2>5. \A k \in {"STA_GOT_IP", "STA_DISCONNECTED"} : hand # k
      BY <2>1
    <2> QED
      BY <1>q, <2>1, <2>2, <2>3, <2>4, <2>5
  <1>2. CASE EventSend
    <2>1. /\ Send(hand) /\ hand \in Messages
          /\ UNCHANGED <<evq, timer, tick, link, bits>>
      BY <1>2, SentMessages DEF EventSend
    <2>2. ASSUME NEW k \in Messages, k = hand
          PROVE  Waits(k)' /\ Past(k, "HTTP_CLIENT_INIT")'
      BY <2>1, <2>2, QueueSend
    <2>3. \A k : Posted(k)' <=> Posted(k)
      BY <2>1, EventsKept
    <2> QED
      BY <1>q, <2>1, <2>2, <2>3
  <1>3. CASE TimerRetrySend
    <2>1. Send("CONNECT_AUTO") /\ "CONNECT_AUTO" \in Messages /\ UNCHANGED <<evq, hand, link, bits>>
      BY <1>3 DEF TimerRetrySend, Messages
    <2>2. Waits("CONNECT_AUTO")' /\ Past("CONNECT_AUTO", "HTTP_CLIENT_INIT")'
      BY <2>1, QueueSend
    <2>3. \A k : Posted(k)' <=> Posted(k)
      BY <2>1, EventsKept
    <2> QED
      BY <1>q, <2>1, <2>2, <2>3
  <1>4. CASE TimerRetry \/ Httpd \/ Client \/ \E m \in Orders : AppSend(m)
    <2>1. /\ UNCHANGED <<evq, hand, link>>
          /\ (timer' = timer /\ tick' = tick) \/ tick'
          /\ bits' = bits \/ bits' = bits \cup {"CONFIGURE_MODE"}
      BY <1>4, Zenon DEF TimerRetry, Httpd, GetApJsonSent, ScanAsync, ConnectAsync, Client,
         GetApJson, GetConnect, PostWifiSetup, AppSend
    <2>2. \A k : Posted(k)' <=> Posted(k)
      BY <2>1, EventsKept
    <2> QED
      BY <1>q, <2>1, <2>2
  <1>5. CASE Driver
    <2>1. /\ UNCHANGED <<timer, tick, hand, bits>>
          /\ \E e : /\ evq' = Append(evq, e)
                    /\ \/ link' = "down" /\ e = "STA_DISCONNECTED"
                       \/ link' = "up" /\ e = "STA_GOT_IP"
                       \/ link' = link
      BY <1>5, Zenon DEF Driver, DriverJoined, DriverJoinFails, DriverLeaves, DriverLosesLink,
         Disconnected, DriverScanDone, Post
    <2>2. PICK e : /\ evq' = Append(evq, e)
                   /\ \/ link' = "down" /\ e = "STA_DISCONNECTED"
                      \/ link' = "up" /\ e = "STA_GOT_IP"
                      \/ link' = link
      BY <2>1
    <2>3. \A k : Posted(k)' <=> Posted(k) \/ k = e
      BY <2>2, EventsPost
    <2> QED
      BY <1>q, <2>1, <2>2, <2>3
  <1> QED
    BY <1>1, <1>2, <1>3, <1>4, <1>5 DEF Around, ClientAsks

\* So does the manager, which takes messages from the queue and sends its own orders.
LEMMA ManagerMoves ==
  ASSUME TypeData, Manager
  PROVE  /\ UNCHANGED <<hand, tick>> /\ (timer => timer')
         /\ \A k : Posted(k) => Posted(k)'
         /\ \A f, g : Followed(f, g) /\ f \notin ApEvents => Followed(f, g)'
         /\ link' \in {"up", "down"} => link' = link
         /\ \/ queue' = queue
            \/ mpc = "receive" /\ \E m : Receive(m)
            \/ ManagerSend /\ Send(out) /\ out \in Messages
  <1> USE DEF mgr, driver, web
  <1>a. UNCHANGED <<hand, tick>> /\ (timer' = timer \/ StaDisconnectedLost)
    BY Zenon DEF Manager, ScanDone, StartWifiScan, LoadAndRestoreSta,
       LoadAndRestoreStaRest, ManagerSend, ConnectSta, DisconnectSta, StaDisconnected,
       StaDisconnectedFailed, StaDisconnectedByUser, StaDisconnectedLost,
       StaGotIp, StartAp, StopAp, HttpClientInit, HttpdStopped, HttpdRequest, HttpdRequestDone
  <1>b. StaDisconnectedLost /\ timer => timer'
    BY DEF StaDisconnectedLost, RetryTimerAfter
  <1>1. UNCHANGED <<hand, tick>> /\ (timer => timer')
    BY <1>a, <1>b
  <1>2. link' = link \/ link' = "joining" \/ link' = "leaving"
    BY Zenon DEF Manager, ScanDone, StartWifiScan, LoadAndRestoreSta,
       LoadAndRestoreStaRest, ManagerSend, ConnectSta, DisconnectSta, StaDisconnected,
       StaDisconnectedFailed, StaDisconnectedByUser, StaDisconnectedLost,
       StaGotIp, StartAp, StopAp, HttpClientInit, HttpdStopped, HttpdRequest, HttpdRequestDone
  <1>3. evq' = evq \/ \E e \in ApEvents : evq' = Append(evq, e)
    BY ManagerDriver DEF SetMode, ApEvents
  <1>4. /\ \A k : Posted(k) => Posted(k)'
        /\ \A f, g : Followed(f, g) /\ f \notin ApEvents => Followed(f, g)'
    BY <1>3, EventsKept, EventsPost
  <1>5. queue' = queue \/ (\E m : Receive(m)) \/ ManagerSend
    BY Zenon DEF Manager, ScanDone, StartWifiScan, LoadAndRestoreSta,
       LoadAndRestoreStaRest, ConnectSta, DisconnectSta, StaDisconnected,
       StaDisconnectedFailed, StaDisconnectedByUser, StaDisconnectedLost,
       StaGotIp, StartAp, StopAp, HttpClientInit, HttpdStopped, HttpdRequest, HttpdRequestDone
  <1>6. ManagerSend => Send(out) /\ out \in Messages
    BY DEF ManagerSend, TypeData, OwnOrders, Messages
  <1>7. (\E m : Receive(m)) => mpc = "receive"
    BY DEF Receive
  <1> QED
    BY <1>1, <1>2, <1>4, <1>5, <1>6, <1>7

\* A handler of more than one step is where HandlerAt says.
LEMMA ManagerHandlerAt ==
  ASSUME TypeData, HandlerAt, Manager
  PROVE  HandlerAt'
  <1> USE DEF HandlerAt, mgr, Receive
  <1>1. CASE ScanDone \/ StartWifiScan \/ DisconnectSta
             \/ \E r \in {"CONNECT_USER", "CONNECT_AUTO", "CONNECT_RESTORE"} : ConnectSta(r)
    <2>1. UNCHANGED <<mpc, msg, out>>
      BY <1>1, Zenon DEF ScanDone, StartWifiScan, DisconnectSta, ConnectSta
    <2> QED
      BY <2>1
  <1>2. CASE LoadAndRestoreSta
    BY <1>2 DEF LoadAndRestoreSta, AfterFetch
  <1>3. CASE ManagerSend
    BY <1>3 DEF ManagerSend
  <1>4. CASE LoadAndRestoreStaRest
    BY <1>4, Zenon DEF LoadAndRestoreStaRest
  <1>5. CASE StaDisconnected \/ HttpdRequest
    <2>1. mpc' = "json" /\ msg' \in {"STA_DISCONNECTED", "HTTPD_REQUEST"}
      BY <1>5 DEF StaDisconnected, HttpdRequest
    <2> QED
      BY <2>1
  <1>6. CASE StaDisconnectedFailed \/ HttpdStopped \/ HttpdRequestDone
    <2>1. mpc' = "receive" /\ msg' = "NONE"
      BY <1>6 DEF StaDisconnectedFailed, HttpdStopped, HttpdRequestDone, ToReceive
    <2> QED
      BY <2>1
  <1>7. CASE StaDisconnectedByUser \/ StaDisconnectedLost
    <2>1. \/ mpc' = "receive" /\ msg' = "NONE"
          \/ mpc' = "send" /\ msg' = "STA_DISCONNECTED" /\ out' = "START_AP"
      BY <1>7 DEF StaDisconnectedByUser, StaDisconnectedLost, ToReceive
    <2> QED
      BY <2>1
  <1>8. CASE StaGotIp
    BY <1>8, Zenon DEF StaGotIp
  <1>9. CASE StartAp \/ HttpClientInit
    <2>1. mpc' = "httpd_stop"  /\ msg' \in {"START_AP", "HTTP_CLIENT_INIT"}
      BY <1>9 DEF StartAp, HttpClientInit
    <2> QED
      BY <2>1
  <1>10. CASE StopAp
    <2>1. (mpc' = "httpd_stop" /\ msg' = "STOP_AP") \/ (mpc = "receive" /\ mpc' = mpc /\ msg' = msg)
      BY <1>10 DEF StopAp
    <2> QED
      BY <2>1
  <1> QED
    BY <1>1, <1>2, <1>3, <1>4, <1>5, <1>6, <1>7, <1>8, <1>9, <1>10 DEF Manager

\* Which handler ends in which callback.
LEMMA CallbackOf ==
  ASSUME TypeData, HandlerAt, ManagerThenCallback
  PROVE  /\ cb = "none" /\ wifi_ok' = wifi_ok /\ CallbackAt'
         /\ cb' = "connect" => HttpdStopped /\ msg = "HTTP_CLIENT_INIT"
         /\ HttpdStopped /\ msg = "HTTP_CLIENT_INIT" => cb' = "connect"
         /\ HttpdStopped /\ msg = "START_AP" => cb' = "lost"
         /\ Handling("STA_DISCONNECTED") /\ mpc' = "receive" => cb' = "lost"
         /\ cb' = "lost" => \/ Handled \in {"START_WIFI_SCAN", "SCAN_DONE", "STOP_AP"}
                            \/ Handling("STA_DISCONNECTED")
                            \/ mpc = "httpd_stop" /\ msg = "START_AP"
                            \/ mpc = "send" /\ out = "START_AP"
  <1> USE DEF ManagerThenCallback, Handling
  <1>1. cb' = IF mpc' = "receive" THEN CallbackAfter(Handled, mpc) ELSE "none"
    OBVIOUS
  <1>2. mpc # "receive" => Handled = msg
    BY DEF Handled
  <1>3. HttpdStopped => mpc = "httpd_stop" /\ mpc' = "receive"
    BY DEF HttpdStopped, ToReceive
  <1>4. CASE mpc = "receive" /\ mpc' = "receive"
    <2>1. ASSUME NEW m \in {"START_AP", "HTTP_CLIENT_INIT", "STA_DISCONNECTED"}, Handled = m
          PROVE  FALSE
      <3>1. Head(queue) = m
        BY <1>4, <2>1 DEF Handled
      <3>2. \/ ScanDone \/ StartWifiScan \/ DisconnectSta \/ StopAp
            \/ \E r \in {"CONNECT_USER", "CONNECT_AUTO", "CONNECT_RESTORE"} : ConnectSta(r)
        BY <1>4 DEF Manager, LoadAndRestoreSta, LoadAndRestoreStaRest, ManagerSend,
           StaDisconnected, StaDisconnectedFailed, StaDisconnectedByUser, StaDisconnectedLost,
           StaGotIp, StartAp, HttpClientInit, HttpdStopped, HttpdRequest, HttpdRequestDone
      <3>3. Head(queue) \in {"SCAN_DONE", "START_WIFI_SCAN", "DISCONNECT_STA", "STOP_AP",
                             "CONNECT_USER", "CONNECT_AUTO", "CONNECT_RESTORE"}
        BY <3>2 DEF ScanDone, StartWifiScan, DisconnectSta, StopAp, ConnectSta, Receive
      <3> QED
        BY <3>1, <3>3
    <2> QED
      BY <1>1, <1>3, <1>4, <2>1 DEF CallbackAfter, LostMessages, CallbackAt
  <1>5. CASE mpc # "receive" /\ mpc' = "receive"
    <2>1. msg = "HTTP_CLIENT_INIT" => HttpdStopped
      BY <1>5 DEF HandlerAt, Manager, ScanDone, StartWifiScan, DisconnectSta, StopAp, ConnectSta,
         LoadAndRestoreSta, LoadAndRestoreStaRest, ManagerSend, Receive,
         StaDisconnected, StaDisconnectedFailed, StaDisconnectedByUser, StaDisconnectedLost,
         StaGotIp, StartAp, HttpClientInit, HttpdRequest, HttpdRequestDone
    <2>2. msg = "STA_DISCONNECTED" => Handling("STA_DISCONNECTED") \/ mpc = "send"
      BY DEF HandlerAt
    <2> QED
      BY <1>1, <1>2, <1>3, <1>5, <2>1, <2>2 DEF CallbackAfter, LostMessages, CallbackAt, HandlerAt
  <1>6. CASE mpc' # "receive"
    BY <1>1, <1>3, <1>6 DEF CallbackAt
  <1> QED
    BY <1>4, <1>5, <1>6

\* What the manager does to the counter and to the bit of a user's attempt.
LEMMA ManagerCounts ==
  ASSUME TypeData, Manager
  PROVE  /\ retries' = retries \/ StaDisconnectedLost \/ StaGotIp
         /\ UserAttempt' => UserAttempt \/ ConnectSta("CONNECT_USER")
         /\ mpc' = "send" /\ out' = "HTTP_CLIENT_INIT" => StaGotIp
  <1> DEFINE Bit == "REQUEST_STA_CONNECT"
  <1> USE DEF mgr, driver, web
  <1>1. retries' = retries \/ StaDisconnectedLost \/ StaGotIp
    BY Zenon DEF Manager, ScanDone, StartWifiScan, LoadAndRestoreSta, ManagerSend,
       LoadAndRestoreStaRest, ConnectSta, DisconnectSta, StaDisconnected, StaDisconnectedFailed,
       StaDisconnectedByUser, StartAp, StopAp, HttpClientInit, HttpdStopped, HttpdRequest,
       HttpdRequestDone
  <1>2. mpc' = "send" /\ out' = "HTTP_CLIENT_INIT" => StaGotIp
    <2>1. LoadAndRestoreSta => out' # "HTTP_CLIENT_INIT"
      BY DEF LoadAndRestoreSta, AfterFetch
    <2>2. StaDisconnectedByUser => out' # "HTTP_CLIENT_INIT"
      BY DEF StaDisconnectedByUser
    <2>3. StaDisconnectedLost => out' = "START_AP" \/ mpc' = "receive"
      BY DEF StaDisconnectedLost, ToReceive
    <2> QED
      BY <2>1, <2>2, <2>3, ManagerRests
  <1>3. ASSUME ~ConnectSta("CONNECT_USER") PROVE Bit \in bits' => Bit \in bits
    <2>1. CASE \E r \in {"CONNECT_USER", "CONNECT_AUTO", "CONNECT_RESTORE"} : ConnectSta(r)
      <3>1. PICK r \in {"CONNECT_AUTO", "CONNECT_RESTORE"} : ConnectSta(r)
        BY <1>3, <2>1
      <3>2. bits' = bits \cup RequestBit(r)
        BY <3>1, Zenon DEF ConnectSta
      <3> QED
        BY <3>2 DEF RequestBit
    <2>2. CASE StaDisconnectedLost \/ StaDisconnected \/ StaGotIp
      <3>1. \E S : bits' = bits \ S
        BY <2>2, Zenon DEF StaDisconnectedLost, StaDisconnected, StaGotIp
      <3> QED
        BY <3>1
    <2>3. CASE StartWifiScan \/ DisconnectSta
      BY <2>3 DEF StartWifiScan, DisconnectSta
    <2>4. CASE Manager /\ ~StaDisconnectedLost /\ ~StaDisconnected /\ ~StaGotIp /\ ~StartWifiScan
               /\ ~DisconnectSta
               /\ ~\E r \in {"CONNECT_USER", "CONNECT_AUTO", "CONNECT_RESTORE"} : ConnectSta(r)
      <3>1. bits' = bits
        BY <2>4, Zenon DEF Manager, ScanDone, LoadAndRestoreSta, ManagerSend,
           LoadAndRestoreStaRest, StaDisconnectedFailed,
           StaDisconnectedByUser, StartAp, StopAp, HttpClientInit, HttpdStopped, HttpdRequest,
           HttpdRequestDone
      <3> QED
        BY <3>1
    <2> QED
      BY <2>1, <2>2, <2>3, <2>4
  <1>4. Handling("STA_DISCONNECTED")' => StaDisconnected
    BY ManagerRests DEF Handling, HttpdRequest
  <1>5. StaDisconnected => ux' = bits
    BY DEF StaDisconnected
  <1> QED
    BY <1>1, <1>2, <1>3, <1>4, <1>5 DEF UserAttempt

\* The order to tell the client is sent fresh,
LEMMA NextInitFresh ==
  ASSUME TypeData, InitFresh, Manager \/ Around \/ ClientAsks
  PROVE  InitFresh'
  <1>1. CASE Manager
    <2>1. StaGotIp => retries' = 0 /\ "REQUEST_STA_CONNECT" \notin bits'
      BY DEF StaGotIp, RetriesAfterGotIp
    <2> QED
      BY <1>1, <2>1, ManagerCounts DEF InitFresh
  <1>2. CASE Around \/ ClientAsks
    BY <1>2, OutsideQueue, OutsideMoves DEF InitFresh, mgr
  <1> QED
    BY <1>1, <1>2

\* Taking a message, the manager leaves what comes after the order.
LEMMA ManagerKeepsOnWay ==
  ASSUME TypeData, Manager, InitWaits', ~(mpc = "send" /\ out = "HTTP_CLIENT_INIT")
  PROVE  /\ InitWaits
         /\ DropOnWay => DropOnWay'
         /\ RetryOnWay => RetryOnWay'
  <1> USE ManagerMoves DEF InitWaits, DropOnWay, RetryOnWay
  <1>1. CASE queue' = queue
    BY <1>1, QueueKept
  <1>2. CASE \E m : Receive(m)
    BY <1>2, QueueReceive
  <1>3. CASE ManagerSend /\ Send(out) /\ out \in Messages
    <2>1. PICK m \in Messages : m = out /\ Send(m) /\ m # "HTTP_CLIENT_INIT"
      BY <1>3 DEF ManagerSend
    <2> QED
      BY <2>1, QueueSend
  <1> QED
    BY <1>1, <1>2, <1>3

\* a loss counted while it waits has its retry behind it,
LEMMA NextRetryBehind ==
  ASSUME TypeData, InitFresh, RetryBehind, Manager \/ Around \/ ClientAsks
  PROVE  RetryBehind'
  <1>0. retries \in 0..MaxRetry /\ MaxRetry \in Nat \ {0}
    BY Constants DEF ConstantsOK, TypeData
  <1>1. CASE Manager
    <2> SUFFICES ASSUME InitWaits', retries' > 0 PROVE RetryOnWay'
      BY DEF RetryBehind
    <2>1. CASE mpc = "send" /\ out = "HTTP_CLIENT_INIT"
      <3>1. retries' = 0 \/ StaDisconnectedLost
        BY <1>1, <2>1, ManagerCounts DEF InitFresh, StaGotIp, Receive
      <3> QED
        BY <2>1, <3>1 DEF StaDisconnectedLost
    <2>2. CASE ~(mpc = "send" /\ out = "HTTP_CLIENT_INIT")
      <3>1. InitWaits /\ (RetryOnWay => RetryOnWay')
        BY <1>1, <2>2, ManagerKeepsOnWay
      <3>2. CASE StaDisconnectedLost
        <4>1. CASE retries < MaxRetry
          BY <3>2, <4>1 DEF StaDisconnectedLost, RetryTimerAfter, BelowMaxRetry, RetryOnWay
        <4>2. CASE retries = MaxRetry
          BY <1>0, <3>1, <4>2 DEF RetryBehind
        <4> QED
          BY <1>0, <4>1, <4>2
      <3>3. ~StaGotIp
        BY DEF StaGotIp, RetriesAfterGotIp
      <3>4. CASE retries' = retries
        BY <3>1, <3>4 DEF RetryBehind
      <3> QED
        BY <1>1, <3>2, <3>3, <3>4, ManagerCounts
    <2> QED
      BY <2>1, <2>2
  <1>2. CASE Around \/ ClientAsks
    BY <1>2, OutsideQueue, OutsideMoves DEF RetryBehind, InitWaits, mgr
  <1> QED
    BY <1>1, <1>2

\* and so has the failure of an attempt of a user's.
LEMMA NextUserBehind ==
  ASSUME TypeData, DropFollows, InitFresh, UserBehind, Manager \/ Around \/ ClientAsks
  PROVE  UserBehind'
  <1> SUFFICES ASSUME InitWaits', UserAttempt', link' = "down" PROVE DropOnWay'
    BY DEF UserBehind
  <1>1. CASE Manager
    <2>0. link = "down"
      BY <1>1, ManagerMoves
    <2>1. CASE ConnectSta("CONNECT_USER")
      <3>1. Connected
        BY <2>0, <2>1 DEF ConnectSta, Connected
      <3> QED
        BY <1>1, <2>0, <3>1, ManagerMoves DEF DropFollows, DropOnWay
    <2>2. CASE ~ConnectSta("CONNECT_USER")
      <3>1. UserAttempt
        BY <1>1, <2>2, ManagerCounts
      <3>2. ~(mpc = "send" /\ out = "HTTP_CLIENT_INIT")
        BY <3>1 DEF InitFresh, UserAttempt, Handling
      <3> QED
        BY <1>1, <2>0, <3>1, <3>2, ManagerKeepsOnWay DEF UserBehind
    <2> QED
      BY <2>1, <2>2
  <1>2. CASE Around \/ ClientAsks
    BY <1>2, OutsideQueue, OutsideMoves DEF UserBehind, InitWaits, UserAttempt, Handling, DropOnWay, mgr
  <1> QED
    BY <1>1, <1>2

\* The newest message about the link that waits agrees with the bit.
LEMMA NewestAgrees ==
  ASSUME TypeData, LinkViewConsistent, hand \notin LinkMessages, NEW m \in LinkMessages, Waits(m)
  PROVE  IF Connected THEN Waits("STA_GOT_IP") ELSE Waits("STA_DISCONNECTED")
  <1> DEFINE L == {i \in 1..Len(queue) : queue[i] \in LinkMessages}
  <1>1. Len(queue) \in Nat /\ L \in SUBSET (1..Len(queue)) /\ L # {}
    BY DEF TypeData, Waits
  <1>2. PICK i \in L : \A j \in L : j <= i
    <2> HIDE DEF L
    <2> QED
      BY <1>1, GreatestElement
  <1>3. \A j \in (i + 1)..Len(queue) : queue[j] \notin LinkMessages
    <2> SUFFICES ASSUME NEW j \in (i + 1)..Len(queue), queue[j] \in LinkMessages PROVE FALSE
      OBVIOUS
    <2>1. j \in 1..Len(queue) /\ ~(j <= i)
      BY <1>1
    <2> QED
      BY <2>1, <1>2
  <1>4. Connected <=> queue[i] = "STA_GOT_IP"
    BY <1>2, <1>3 DEF LinkViewConsistent, LinkInQueue
  <1> QED
    BY <1>2, <1>4 DEF Waits, LinkMessages

\* An address that the manager hears of when the link is down is followed by the loss.
LEMMA AddressOfLostLink ==
  ASSUME TypeData, LinkViewConsistent, DropFollows, Receive("STA_GOT_IP"), link = "down"
  PROVE  DropWaits \/ Posted("STA_DISCONNECTED")
  <1>1. CASE Connected
    BY <1>1 DEF DropFollows
  <1>2. CASE ~Connected /\ hand \in LinkMessages
    BY <1>2 DEF LinkViewConsistent, LinkInHand, LinkMessages, DropWaits
  <1>3. CASE ~Connected /\ hand \notin LinkMessages
    <2>1. Waits("STA_GOT_IP")
      BY QueueReceive
    <2> QED
      BY <1>3, <2>1, NewestAgrees DEF LinkMessages, DropWaits
  <1> QED
    BY <1>1, <1>2, <1>3

\* Every handler but that of a new address only takes from what the client is to be told.
LEMMA ManagerEndsPortal ==
  ASSUME TypeData, HandlerAt, ManagerThenCallback, ~StaGotIp,
         wifi_ok' \/ EndsPortal' \/ cb' = "connect"
  PROVE  wifi_ok \/ EndsPortal
  <1>0. Manager
    BY DEF ManagerThenCallback
  <1>1. Waits("HTTP_CLIENT_INIT")' => EndsPortal
    <2>1. CASE queue' = queue
      BY <2>1, QueueKept DEF EndsPortal
    <2>2. CASE \E m : Receive(m)
      BY <2>2, QueueReceive DEF EndsPortal
    <2>3. CASE ManagerSend /\ Send(out) /\ out \in Messages
      <3>1. PICK m \in Messages : m = out /\ Send(m) /\ mpc = "send"
        BY <2>3 DEF ManagerSend
      <3> QED
        BY <3>1, QueueSend DEF EndsPortal
    <2> QED
      BY <1>0, <2>1, <2>2, <2>3, ManagerMoves
  <1>2. ~(mpc' = "send" /\ out' = "HTTP_CLIENT_INIT")
    BY <1>0, ManagerCounts
  <1>3. mpc' = "httpd_stop" /\ msg' = "HTTP_CLIENT_INIT" => Waits("HTTP_CLIENT_INIT")
    <2>1. HttpClientInit => Waits("HTTP_CLIENT_INIT")
      BY QueueReceive DEF HttpClientInit
    <2>2. mpc' = "httpd_stop" /\ msg' = "HTTP_CLIENT_INIT" => HttpClientInit
      BY <1>0 DEF HandlerAt, Manager, ScanDone, StartWifiScan, DisconnectSta, StopAp, ConnectSta,
         LoadAndRestoreSta, LoadAndRestoreStaRest, ManagerSend, Receive, ToReceive, HttpdStopped,
         StaDisconnected, StaDisconnectedFailed, StaDisconnectedByUser, StaDisconnectedLost,
         StaGotIp, StartAp, HttpdRequest, HttpdRequestDone, mgr
    <2> QED
      BY <2>1, <2>2
  <1>4. wifi_ok' = wifi_ok /\ (cb' = "connect" => mpc = "httpd_stop" /\ msg = "HTTP_CLIENT_INIT")
    BY CallbackOf DEF HttpdStopped
  <1> QED
    BY <1>1, <1>2, <1>3, <1>4 DEF EndsPortal

\* A loss that has been handled has the client told, or a retry is to come.
LEMMA LossIsTold ==
  ASSUME TypeData, HandlerAt, RetryBehind, UserBehind, ManagerThenCallback,
         link = "down", StaDisconnectedFailed \/ StaDisconnectedByUser \/ StaDisconnectedLost
  PROVE  Told'
  <1>0. retries \in 0..MaxRetry /\ MaxRetry \in Nat \ {0} /\ Manager /\ Handling("STA_DISCONNECTED")
    BY Constants DEF ConstantsOK, TypeData, ManagerThenCallback, Handling, StaDisconnectedFailed,
       StaDisconnectedByUser, StaDisconnectedLost
  <1>1. queue' = queue /\ (InitWaits' <=> InitWaits)
    BY QueueKept DEF InitWaits, StaDisconnectedFailed, StaDisconnectedByUser, StaDisconnectedLost
  <1>2. \A k : Waits(k)' <=> Waits(k)
    BY <1>1, QueueKept
  <1>3. mpc' = "receive" => cb' = "lost"
    BY <1>0, CallbackOf
  <1>4. CASE mpc' = "send" /\ out' = "START_AP"
    BY <1>4 DEF Told, StartComes
  <1>5. CASE mpc' = "receive" /\ ~InitWaits
    BY <1>1, <1>3, <1>5 DEF Told
  <1>6. CASE mpc' = "receive" /\ InitWaits
    <2>1. CASE StaDisconnectedFailed
      <3>1. UserAttempt
        BY <2>1, <1>0 DEF StaDisconnectedFailed, DisconnectCause, UserAttempt
      <3>2. DropOnWay
        BY <1>6, <3>1 DEF UserBehind
      <3> QED
        BY <1>0, <1>2, <3>2, ManagerMoves, PastWaits DEF DropOnWay, Told, DropComes, DropWaits
    <2>2. CASE StaDisconnectedLost
      <3>1. CASE retries < MaxRetry
        BY <2>2, <3>1 DEF StaDisconnectedLost, RetryTimerAfter, BelowMaxRetry, Told
      <3>2. CASE retries = MaxRetry
        <4>1. RetryOnWay
          BY <1>0, <1>6, <3>2 DEF RetryBehind
        <4> QED
          BY <1>0, <1>2, <4>1, ManagerMoves, PastWaits DEF RetryOnWay, Told
      <3> QED
        BY <1>0, <3>1, <3>2
    <2>3. ~StaDisconnectedByUser
      BY <1>6 DEF StaDisconnectedByUser
    <2> QED
      BY <2>1, <2>2, <2>3
  <1>7. \/ mpc' = "receive"
        \/ mpc' = "send" /\ out' = "START_AP"
    BY DEF StaDisconnectedFailed, StaDisconnectedByUser, StaDisconnectedLost, ToReceive
  <1> QED
    BY <1>4, <1>5, <1>6, <1>7

\* The manager leaves the client told, or about to be.
LEMMA ManagerTold ==
  ASSUME TypeData, LinkViewConsistent, DropFollows, WrongInv, ManagerThenCallback, link' = "down",
         wifi_ok' \/ EndsPortal' \/ cb' = "connect"
  PROVE  Told'
  <1>0. /\ Manager /\ link = "down" /\ HandlerAt /\ cb = "none"
        /\ UNCHANGED <<hand, tick>> /\ (timer => timer')
        /\ \A k : Posted(k) => Posted(k)'
    BY ManagerMoves, CallbackOf DEF ManagerThenCallback, WrongInv
  <1>1. CASE StaGotIp
    <2>1. DropWaits \/ Posted("STA_DISCONNECTED")
      BY <1>0, <1>1, AddressOfLostLink DEF StaGotIp
    <2>2. Waits("STA_DISCONNECTED") => Waits("STA_DISCONNECTED")'
      BY <1>1, QueueReceive DEF StaGotIp
    <2> QED
      BY <1>0, <2>1, <2>2 DEF Told, DropComes, DropWaits
  <1>2. CASE StaDisconnected
    <2>1. Handling("STA_DISCONNECTED")'
      BY <1>2 DEF StaDisconnected, Handling
    <2> QED
      BY <2>1 DEF Told, DropComes
  <1>3. CASE StaDisconnectedFailed \/ StaDisconnectedByUser \/ StaDisconnectedLost
    BY <1>0, <1>3, LossIsTold DEF WrongInv
  <1>4. CASE ~StaGotIp /\ ~StaDisconnected
             /\ ~(StaDisconnectedFailed \/ StaDisconnectedByUser \/ StaDisconnectedLost)
    <2>1. Told
      BY <1>0, <1>4, ManagerEndsPortal DEF WrongInv, ToldInv
    <2>2. CASE timer \/ tick
      BY <1>0, <2>2 DEF Told
    <2>3. CASE Waits("CONNECT_AUTO")
      <3>1. CASE Receive("CONNECT_AUTO")
        <4>1. Connected
          <5>1. ConnectSta("CONNECT_AUTO")
            BY <1>0, <3>1 DEF Manager, ScanDone, StartWifiScan, DisconnectSta, StopAp, ConnectSta,
               LoadAndRestoreSta, LoadAndRestoreStaRest, ManagerSend, Receive, HttpdStopped,
               StaDisconnected, StaDisconnectedFailed, StaDisconnectedByUser, StaDisconnectedLost,
               StaGotIp, StartAp, HttpClientInit, HttpdRequest, HttpdRequestDone
          <5> QED
            BY <1>0, <5>1 DEF ConnectSta, Connected
        <4> QED
          BY <1>0, <4>1 DEF DropFollows, Told, DropComes
      <3>2. CASE ~Receive("CONNECT_AUTO")
        <4>1. Waits("CONNECT_AUTO")'
          <5>1. CASE queue' = queue
            BY <2>3, <5>1, QueueKept
          <5>2. ASSUME NEW m, Receive(m) PROVE Waits("CONNECT_AUTO")'
            BY <2>3, <3>2, <5>2, QueueReceive
          <5>3. CASE Send(out) /\ out \in Messages
            BY <2>3, <5>3, QueueSend
          <5> QED
            BY <1>0, <5>1, <5>2, <5>3, ManagerMoves
        <4> QED
          BY <4>1 DEF Told
      <3> QED
        BY <3>1, <3>2
    <2>4. CASE DropComes
      <3>1. ~Handling("STA_DISCONNECTED")
        BY <1>0, <1>4 DEF Handling, Manager, ScanDone, StartWifiScan, DisconnectSta, StopAp, ConnectSta,
           LoadAndRestoreSta, LoadAndRestoreStaRest, ManagerSend, Receive, HttpdStopped,
           StartAp, HttpClientInit, HttpdRequest, HttpdRequestDone
      <3>2. ~Receive("STA_DISCONNECTED")
        BY <1>0, <1>4 DEF Manager, ScanDone, StartWifiScan, DisconnectSta, StopAp, ConnectSta,
           LoadAndRestoreSta, LoadAndRestoreStaRest, ManagerSend, Receive, HttpdStopped,
           StaGotIp, StartAp, HttpClientInit, HttpdRequest, HttpdRequestDone
      <3>3. Waits("STA_DISCONNECTED") => Waits("STA_DISCONNECTED")'
        <4>1. CASE queue' = queue
          BY <4>1, QueueKept
        <4>2. ASSUME NEW m, Receive(m), Waits("STA_DISCONNECTED") PROVE Waits("STA_DISCONNECTED")'
          BY <3>2, <4>2, QueueReceive
        <4>3. CASE Send(out) /\ out \in Messages
          BY <4>3, QueueSend
        <4> QED
          BY <1>0, <4>1, <4>2, <4>3, ManagerMoves
      <3> QED
        BY <1>0, <2>4, <3>1, <3>3 DEF DropComes, DropWaits, Told
    <2>5. CASE mpc = "send" /\ out = "START_AP"
      <3>1. ManagerSend
        BY <1>0, <2>5 DEF Manager, ScanDone, StartWifiScan, DisconnectSta, StopAp, ConnectSta,
           LoadAndRestoreSta, LoadAndRestoreStaRest, Receive, HttpdStopped,
           StaDisconnected, StaDisconnectedFailed, StaDisconnectedByUser, StaDisconnectedLost,
           StaGotIp, StartAp, HttpClientInit, HttpdRequest, HttpdRequestDone
      <3>2. Send("START_AP") /\ "START_AP" \in Messages /\ mpc' # "send"
        BY <2>5, <3>1 DEF ManagerSend, Messages
      <3> QED
        BY <3>2, QueueSend DEF Told, StartComes
    <2>6. CASE StartWaits /\ ~(mpc = "send" /\ out = "HTTP_CLIENT_INIT")
      <3>1. ~(mpc' = "send" /\ out' = "HTTP_CLIENT_INIT")
        BY <1>0, <1>4, ManagerCounts
      <3>2. CASE StartWaits'
        BY <3>1, <3>2 DEF Told, StartComes
      <3>3. CASE Receive("START_AP") /\ ~InitWaits'
        <4>1. StartAp
          BY <1>0, <3>3 DEF Manager, ScanDone, StartWifiScan, DisconnectSta, StopAp, ConnectSta,
             LoadAndRestoreSta, LoadAndRestoreStaRest, ManagerSend, Receive, HttpdStopped,
             StaDisconnected, StaDisconnectedFailed, StaDisconnectedByUser, StaDisconnectedLost,
             StaGotIp, HttpClientInit, HttpdRequest, HttpdRequestDone
        <4> QED
          BY <3>3, <4>1 DEF StartAp, Told
      <3>4. StartWaits' \/ (Receive("START_AP") /\ ~InitWaits')
        <4>1. CASE queue' = queue
          BY <2>6, <4>1, QueueKept
        <4>2. ASSUME NEW m, Receive(m) PROVE StartWaits' \/ (Receive("START_AP") /\ ~InitWaits')
          BY <2>6, <4>2, QueueReceive DEF InitWaits
        <4>3. CASE ManagerSend /\ Send(out) /\ out \in Messages
          <5>1. out # "HTTP_CLIENT_INIT"
            BY <2>6, <4>3 DEF ManagerSend
          <5> QED
            BY <2>6, <4>3, <5>1, QueueSend
        <4> QED
          BY <1>0, <4>1, <4>2, <4>3, ManagerMoves
      <3> QED
        BY <3>2, <3>3, <3>4
    <2>7. CASE ~InitWaits /\ mpc = "httpd_stop" /\ msg = "START_AP"
      <3>1. HttpdStopped
        BY <1>0, <2>7 DEF Manager, ScanDone, StartWifiScan, DisconnectSta, StopAp, ConnectSta,
           LoadAndRestoreSta, LoadAndRestoreStaRest, ManagerSend, Receive,
           StaDisconnected, StaDisconnectedFailed, StaDisconnectedByUser, StaDisconnectedLost,
           StaGotIp, StartAp, HttpClientInit, HttpdRequest, HttpdRequestDone
      <3>2. queue' = queue /\ cb' = "lost"
        BY <1>0, <2>7, <3>1, CallbackOf DEF HttpdStopped
      <3> QED
        BY <2>7, <3>2, QueueKept DEF InitWaits, Told
    <2> QED
      BY <1>0, <2>1, <2>2, <2>3, <2>4, <2>5, <2>6, <2>7 DEF Told, StartComes
  <1> QED
    BY <1>1, <1>2, <1>3, <1>4

\* The steps around the manager, and the callback, leave what the client is to be told.
LEMMA OutsideTold ==
  ASSUME TypeData, ToldInv, Around \/ ClientAsks, UNCHANGED clientVars
  PROVE  ToldInv'
  <1> SUFFICES ASSUME link' = "down", wifi_ok' \/ EndsPortal' \/ cb' = "connect" PROVE Told'
    BY DEF ToldInv
  <1>1. UNCHANGED <<mpc, msg, out>> /\ UNCHANGED <<wifi_ok, cb>>
    BY OutsideQueue DEF mgr, clientVars
  <1>2. CASE link # "down"
    <2>1. Posted("STA_DISCONNECTED")'
      BY <1>2, OutsideMoves
    <2> QED
      BY <2>1 DEF Told, DropComes
  <1>3. CASE link = "down"
    <2>1. wifi_ok \/ EndsPortal \/ cb = "connect"
      BY <1>1, OutsideQueue DEF EndsPortal
    <2>2. Told
      BY <1>3, <2>1 DEF ToldInv
    <2>3. CASE timer \/ tick
      BY <2>3, OutsideMoves DEF Told
    <2>4. CASE Waits("CONNECT_AUTO") \/ Waits("STA_DISCONNECTED")
      BY <2>4, OutsideQueue DEF Told, DropComes, DropWaits
    <2>5. CASE Posted("STA_DISCONNECTED") \/ hand = "STA_DISCONNECTED"
      BY <2>5, OutsideMoves DEF Told, DropComes, DropWaits
    <2>6. CASE Handling("STA_DISCONNECTED") \/ (mpc = "send" /\ out = "START_AP")
      BY <1>1, <2>6 DEF Told, DropComes, Handling, StartComes
    <2>7. CASE StartWaits /\ ~(mpc = "send" /\ out = "HTTP_CLIENT_INIT")
      <3>1. StartWaits'
        BY <2>7, OutsideQueue DEF StartWaits
      <3> QED
        BY <1>1, <2>7, <3>1 DEF Told, StartComes
    <2>8. CASE ~InitWaits /\ (cb = "lost" \/ (mpc = "httpd_stop" /\ msg = "START_AP"))
      <3>1. ~InitWaits'
        BY <2>8, OutsideQueue DEF InitWaits
      <3> QED
        BY <1>1, <2>8, <3>1 DEF Told
    <2> QED
      BY <2>2, <2>3, <2>4, <2>5, <2>6, <2>7, <2>8 DEF Told, DropComes, DropWaits, StartComes
  <1> QED
    BY <1>2, <1>3

\* Nothing but the callback and the bit of the client changes.
LEMMA ManagerKept ==
  ASSUME UNCHANGED vars
  PROVE  /\ UNCHANGED <<queue, mpc, msg, out, ux, retries, sta_ip, bits, timer, tick, hand, evq,
                        link>>
         /\ \A k : Waits(k)' <=> Waits(k)
         /\ \A k, e : Past(k, e)' <=> Past(k, e)
         /\ \A k : Posted(k)' <=> Posted(k)
         /\ \A f, g : Followed(f, g) => Followed(f, g)'
  <1>1. UNCHANGED <<queue, mpc, msg, out, ux, retries, sta_ip, bits, timer, tick, hand, evq, link>>
    BY Zenon DEF vars, mgr, driver
  <1> QED
    BY <1>1, QueueKept, EventsKept

\* So does the callback itself,
LEMMA KeptTold ==
  ASSUME CallbackAt, ToldInv, UNCHANGED vars, Callback \/ UNCHANGED clientVars
  PROVE  ToldInv'
  <1> SUFFICES ASSUME link' = "down", wifi_ok' \/ EndsPortal' \/ cb' = "connect" PROVE Told'
    BY DEF ToldInv
  <1>1. EndsPortal' <=> EndsPortal
    BY ManagerKept DEF EndsPortal
  <1>2. wifi_ok \/ EndsPortal \/ cb = "connect"
    <2>1. wifi_ok' \/ cb' = "connect" => wifi_ok \/ cb = "connect"
      BY Zenon DEF Callback, clientVars
    <2> QED
      BY <1>1, <2>1
  <1>3. Told
    BY <1>2, ManagerKept DEF ToldInv
  <1>4. CASE ~InitWaits /\ cb = "lost"
    <2>1. ~InitWaits' /\ mpc = "receive"
      BY <1>4, ManagerKept DEF InitWaits, CallbackAt
    <2>2. ~Callback
      <3>1. ~EndsPortal
        BY <1>4, <2>1 DEF EndsPortal, InitWaits
      <3> QED
        BY <1>1, <1>4, <3>1 DEF Callback
    <2> QED
      BY <1>4, <2>1, <2>2 DEF Told, clientVars
  <1>5. CASE ~(~InitWaits /\ cb = "lost")
    BY <1>3, <1>5, ManagerKept DEF Told, DropComes, DropWaits, Handling, StartComes, StartWaits, InitWaits
  <1> QED
    BY <1>4, <1>5

\* which changes nothing else,
LEMMA KeptWrong ==
  ASSUME WrongInv, UNCHANGED vars, Callback \/ UNCHANGED clientVars
  PROVE  WrongInv'
  <1>1. HandlerAt' /\ InitFresh' /\ RetryBehind' /\ UserBehind'
    BY ManagerKept DEF WrongInv, HandlerAt, InitFresh, RetryBehind, UserBehind, RetryOnWay,
       DropOnWay, UserAttempt, Handling, InitWaits
  <1>2. CallbackAt'
    BY ManagerKept DEF WrongInv, CallbackAt, Callback, clientVars
  <1> QED
    BY <1>1, <1>2, KeptTold DEF WrongInv

\* After a restart no order is there, and the client starts anew.
LEMMA RestartWrong ==
  ASSUME RestartBoth
  PROVE  WrongInv'
  <1>1. /\ queue' = <<"LOAD_AND_RESTORE_STA">> /\ mpc' = "receive" /\ msg' = "NONE"
        /\ retries' = 0 /\ bits' = {} /\ wifi_ok' = FALSE /\ cb' = "none"
    BY DEF RestartBoth, Restart
  <1>2. ~Waits("HTTP_CLIENT_INIT")'
    BY <1>1 DEF Waits
  <1> QED
    BY <1>1, <1>2 DEF WrongInv, HandlerAt, CallbackAt, InitFresh, RetryBehind, UserBehind, InitWaits,
       ToldInv, EndsPortal

\* and so it is at first,
LEMMA InitWrong == ClientInit => WrongInv /\ DropFollows
  <1> SUFFICES ASSUME NEW conf \in {"none", "good"}, InitWith(conf), wifi_ok = FALSE, cb = "none"
               PROVE  WrongInv /\ DropFollows
    BY DEF ClientInit, Init
  <1>1. ~Waits("HTTP_CLIENT_INIT") /\ \A e, f : Followed(e, f)
    BY DEF InitWith, Waits, Followed
  <1> QED
    BY <1>1 DEF InitWith, WrongInv, HandlerAt, CallbackAt, InitFresh, RetryBehind, UserBehind,
       InitWaits, ToldInv, EndsPortal, DropFollows, Connected

\* and after every step.
LEMMA NextWrong ==
  ASSUME TypeData, LinkViewConsistent, DropFollows, WrongInv, ClientNext
  PROVE  WrongInv' /\ DropFollows'
  <1>1. CASE ManagerThenCallback
    <2>1. Manager
      BY <1>1 DEF ManagerThenCallback
    <2>2. HandlerAt' /\ CallbackAt'
      BY <1>1, <2>1, ManagerHandlerAt, CallbackOf DEF WrongInv
    <2>3. InitFresh' /\ RetryBehind' /\ UserBehind' /\ DropFollows'
      BY <2>1, NextInitFresh, NextRetryBehind, NextUserBehind, NextDropFollows DEF WrongInv
    <2>4. ToldInv'
      BY <1>1, ManagerTold DEF ToldInv
    <2> QED
      BY <2>2, <2>3, <2>4 DEF WrongInv
  <1>2. CASE (Around \/ ClientAsks) /\ UNCHANGED clientVars
    <2>1. HandlerAt' /\ CallbackAt'
      BY <1>2, OutsideQueue DEF WrongInv, HandlerAt, CallbackAt, mgr, clientVars
    <2>2. InitFresh' /\ RetryBehind' /\ UserBehind' /\ DropFollows'
      BY <1>2, OthersSplit, NextInitFresh, NextRetryBehind, NextUserBehind, NextDropFollows DEF WrongInv
    <2> QED
      BY <1>2, <2>1, <2>2, OutsideTold DEF WrongInv
  <1>3. CASE Callback
    <2>1. UNCHANGED vars
      BY <1>3 DEF Callback
    <2>2. DropFollows'
      BY <2>1, ManagerKept DEF DropFollows, Connected
    <2> QED
      BY <1>3, <2>1, <2>2, KeptWrong
  <1>4. CASE RestartBoth
    <2>1. DropFollows'
      BY <1>4, OthersSplit, NextDropFollows DEF RestartBoth
    <2> QED
      BY <1>4, <2>1, RestartWrong
  <1> QED
    BY <1>1, <1>2, <1>3, <1>4 DEF ClientNext

\* The callbacks leave the manager alone.
LEMMA ClientStep == [ClientNext]_<<vars, clientVars>> => [Next]_vars
  <1>1. ClientNext => Next \/ UNCHANGED vars
    BY Zenon DEF ClientNext, ManagerThenCallback, Callback, RestartBoth, Around, ClientAsks, Next
  <1> QED
    BY <1>1, Zenon

LEMMA ClientWatched == ClientSpec => Spec
  <1>1. ClientInit => Init
    BY DEF ClientInit
  <1> QED
    BY <1>1, ClientStep, PTL DEF ClientSpec, Spec

\* The invariant holds.
LEMMA WrongHolds == ClientSpec => []WrongInv
  <1>1. TypeOK /\ LinkViewConsistent /\ (WrongInv /\ DropFollows)
           /\ [ClientNext]_<<vars, clientVars>> => (WrongInv /\ DropFollows)'
    <2> SUFFICES ASSUME TypeData, LinkViewConsistent, DropFollows, WrongInv,
                        [ClientNext]_<<vars, clientVars>>
                 PROVE  WrongInv' /\ DropFollows'
      BY DEF TypeOK
    <2>1. CASE ClientNext
      BY <2>1, NextWrong
    <2>2. CASE UNCHANGED <<vars, clientVars>>
      <3>1. UNCHANGED vars /\ UNCHANGED clientVars
        BY <2>2
      <3>2. DropFollows'
        BY <3>1, ManagerKept DEF DropFollows, Connected
      <3> QED
        BY <3>1, <3>2, KeptWrong
    <2> QED
      BY <2>1, <2>2
  <1> QED
    BY <1>1, InitWrong, ClientWatched, TypeCorrect, LinkViewCorrect, PTL DEF ClientSpec

\* A client that takes a link which is down for one that is up is put right: once all that
\* concerns the link has been handled a retry is on its way, whose outcome is told.  For
\* every queue length and retry maximum, whatever is requested and ordered.
THEOREM WrongOnlyForATime == ClientSpec => []WrongOnlyUntilRetry
  <1>1. ASSUME WrongInv, LinkAtRest, wifi_ok, link = "down" PROVE timer \/ tick
    <2>1. \A k : ~Waits(k) /\ ~Posted(k)
      BY <1>1 DEF LinkAtRest, Waits, Posted
    <2>2. ~StartWaits
      BY <1>1 DEF LinkAtRest, StartWaits, Past
    <2>3. Told
      BY <1>1 DEF WrongInv, ToldInv
    <2> QED
      BY <1>1, <2>1, <2>2, <2>3 DEF LinkAtRest, Told, DropComes, DropWaits, Handling, StartComes
  <1>2. WrongInv => WrongOnlyUntilRetry
    BY <1>1 DEF WrongOnlyUntilRetry
  <1> QED
    BY <1>2, WrongHolds, PTL

\* Every step keeps the event that says that the link is up behind those it undoes.
LEMMA NextUpFollows ==
  ASSUME TypeData, UpFollows, Manager \/ Others
  PROVE  UpFollows'
  <1> USE DEF UpFollows, driver, web
  <1>1. CASE Manager
    <2>1. Connected' <=> Connected
      BY <1>1, ManagerDriver
    <2> QED
      BY <1>1, <2>1, ManagerMoves DEF ApEvents
  <1>2. CASE EventHandler
    <2> DEFINE e == Head(evq)
    <2>1. evq # << >> /\ evq' = Tail(evq) /\ bits' = BitsAfter(bits, e) /\ link' = link
      BY <1>2 DEF EventHandler
    <2> HIDE DEF e
    <2>2. /\ \A k : Posted(k) => Posted(k)' \/ k = e
          /\ \A f, g : Followed(f, g) => Followed(f, g)'
          /\ \A f, g : Followed(f, g) /\ e = f => Posted(g)'
      BY <2>1, EventsTake DEF e
    <2>3. Connected \/ e = "STA_GOT_IP" => Connected' \/ e = "STA_DISCONNECTED"
      BY <2>1 DEF BitsAfter, Connected
    <2> QED
      BY <2>1, <2>2, <2>3
  <1>3. CASE DriverJoined
    <2>1. evq' = Append(evq, "STA_GOT_IP")
      BY <1>3 DEF DriverJoined, Post
    <2> QED
      BY <2>1, EventsPost
  <1>4. CASE Disconnected
    BY <1>4 DEF Disconnected
  <1>5. CASE DriverScanDone
    <2>1. evq' = Append(evq, "SCAN_DONE") /\ link' = link /\ bits' = bits
      BY <1>5 DEF DriverScanDone, Post
    <2> QED
      BY <2>1, EventsPost DEF Connected
  <1>6. CASE Restart
    BY <1>6 DEF Restart
  <1>7. CASE EventSend \/ TimerRetry \/ TimerRetrySend \/ Httpd \/ Client
             \/ \E m \in Orders : AppSend(m)
    <2>1. evq' = evq /\ link' = link
      BY <1>7, Zenon DEF EventSend, TimerRetry, TimerRetrySend, Httpd, GetApJsonSent, ScanAsync, ConnectAsync,
         Client, GetApJson, GetConnect, PostWifiSetup, AppSend
    <2>2. bits' = bits \/ bits' = bits \cup {"CONFIGURE_MODE"}
      BY <1>7, Zenon DEF EventSend, TimerRetry, TimerRetrySend, Httpd, GetApJsonSent, ScanAsync, ConnectAsync,
         Client, GetApJson, GetConnect, PostWifiSetup, AppSend
    <2> QED
      BY <2>1, <2>2, EventsKept DEF Connected
  <1> QED
    BY <1>1, <1>2, <1>3, <1>4, <1>5, <1>6, <1>7
       DEF Others, Driver, DriverJoinFails, DriverLeaves, DriverLosesLink

\* Once the manager has heard that the link is up no loss is on its way to it.
LEMMA UpMeans ==
  ASSUME TypeData, LinkViewConsistent, UpFollows, AddressMeansNoLosses, link = "up", ~GotComes
  PROVE  /\ ~Waits("STA_DISCONNECTED") /\ ~Handling("STA_DISCONNECTED")
  <1>1. Connected
    BY DEF UpFollows, GotComes
  <1>2. hand \notin LinkMessages
    BY <1>1 DEF LinkViewConsistent, LinkInHand, LinkMessages, GotComes
  <1>3. \A m \in LinkMessages : ~Waits(m)
    BY <1>1, <1>2, NewestAgrees DEF GotComes
  <1>4. sta_ip
    <2>1. \A i \in 1..Len(queue) : queue[i] \notin LinkMessages
      BY <1>3 DEF Waits
    <2> QED
      BY <1>1, <1>2, <2>1 DEF LinkViewConsistent, LinkSettled
  <1> QED
    BY <1>3, <1>4 DEF LinkMessages, AddressMeansNoLosses

\* What the manager does once it has heard that the link is up, with no load failing.
LEMMA ManagerOpensNoPortal ==
  ASSUME TypeData, HandlerAt, Manager, ~LoadFails, ~Waits("STA_DISCONNECTED"),
         ~Handling("STA_DISCONNECTED"), ~(mpc = "send" /\ out = "START_AP")
  PROVE  /\ ~(mpc = "send" /\ out = "START_AP")' /\ ~Handling("STA_DISCONNECTED")'
         /\ Waits("START_AP")' => Waits("START_AP")
         /\ (mpc = "httpd_stop" /\ msg = "START_AP")' => Waits("START_AP")
         /\ InitLast => InitLast' \/ (HttpClientInit /\ ~Waits("START_AP")')
  <1>1. ~StaDisconnected /\ ~StaDisconnectedByUser /\ ~StaDisconnectedLost
    BY QueueReceive DEF StaDisconnected, StaDisconnectedByUser, StaDisconnectedLost, Handling
  <1>2. ~(mpc = "send" /\ out = "START_AP")'
    BY <1>1, ManagerRests DEF LoadFails, LoadAndRestoreSta, StaGotIp, Receive
  <1>3. ~Handling("STA_DISCONNECTED")'
    BY <1>1, ManagerRests DEF Handling, HttpdRequest
  <1>4. (mpc = "httpd_stop" /\ msg = "START_AP")' => StartAp
    BY <1>1 DEF HandlerAt, Manager, ScanDone, StartWifiScan, DisconnectSta, StopAp, ConnectSta,
       LoadAndRestoreSta, LoadAndRestoreStaRest, ManagerSend, Receive, ToReceive, HttpdStopped,
       StaDisconnectedFailed, StaGotIp, HttpClientInit, HttpdRequest, HttpdRequestDone, mgr
  <1>5. StartAp => Waits("START_AP")
    BY QueueReceive DEF StartAp
  <1>6. Receive("HTTP_CLIENT_INIT") => HttpClientInit
    BY DEF Manager, ScanDone, StartWifiScan, DisconnectSta, StopAp, ConnectSta,
       LoadAndRestoreSta, LoadAndRestoreStaRest, ManagerSend, Receive, HttpdStopped,
       StaDisconnected, StaDisconnectedFailed, StaDisconnectedByUser, StaDisconnectedLost,
       StaGotIp, StartAp, HttpdRequest, HttpdRequestDone
  <1>7. /\ Waits("START_AP")' => Waits("START_AP")
        /\ InitLast => InitLast' \/ (Receive("HTTP_CLIENT_INIT") /\ ~Waits("START_AP")')
    <2>1. CASE queue' = queue
      BY <2>1, QueueKept DEF InitLast
    <2>2. ASSUME NEW m, Receive(m)
          PROVE  /\ Waits("START_AP")' => Waits("START_AP")
                 /\ InitLast => InitLast' \/ (Receive("HTTP_CLIENT_INIT") /\ ~Waits("START_AP")')
      BY <2>2, QueueReceive DEF InitLast
    <2>3. CASE ManagerSend /\ Send(out) /\ out \in Messages
      <3>1. PICK m \in Messages : m = out /\ Send(m) /\ m # "START_AP"
        BY <2>3 DEF ManagerSend
      <3> QED
        BY <3>1, QueueSend DEF InitLast
    <2> QED
      BY <2>1, <2>2, <2>3, ManagerMoves
  <1> QED
    BY <1>2, <1>3, <1>4, <1>5, <1>6, <1>7

\* What HC_WIFI_OK is cleared for is remembered.
ClearedFor == clearedBy' = IF cb' = "lost" /\ wifi_ok THEN Handled ELSE clearedBy

\* Told of a link that is up, the client is not told of a loss but by these orders.
LEMMA ManagerKnown ==
  ASSUME TypeData, LinkViewConsistent, UpFollows, AddressMeansNoLosses, HandlerAt, KnownInv,
         ManagerThenCallback, ClearedFor, RememberFallBack
  PROVE  KnownInv'
  <1> SUFFICES ASSUME link' = "up", ~fellBack', ~GotComes'
               PROVE  /\ ~(mpc = "send" /\ out = "START_AP")' /\ ~Handling("STA_DISCONNECTED")'
                      /\ (mpc = "send" /\ out = "HTTP_CLIENT_INIT")' \/ InitLast' \/ Knows'
    BY DEF KnownInv
  <1>0. /\ Manager /\ link = "up" /\ hand' = hand /\ cb = "none"
        /\ \A k : Posted(k) => Posted(k)'
    BY ManagerMoves, CallbackOf DEF ManagerThenCallback
  <1>1. ~fellBack /\ ~LoadFails
    BY Zenon DEF RememberFallBack
  <1>2. CASE StaGotIp
    BY <1>2 DEF StaGotIp, Handling
  <1>3. CASE ~StaGotIp
    <2>1. Waits("STA_GOT_IP") => Waits("STA_GOT_IP")'
      <3>1. ~Receive("STA_GOT_IP")
        BY <1>0, <1>3 DEF Manager, ScanDone, StartWifiScan, DisconnectSta, StopAp, ConnectSta,
           LoadAndRestoreSta, LoadAndRestoreStaRest, ManagerSend, Receive, HttpdStopped,
           StaDisconnected, StaDisconnectedFailed, StaDisconnectedByUser, StaDisconnectedLost,
           HttpClientInit, StartAp, HttpdRequest, HttpdRequestDone
      <3>2. CASE queue' = queue
        BY <3>2, QueueKept
      <3>3. ASSUME NEW m, Receive(m), Waits("STA_GOT_IP") PROVE Waits("STA_GOT_IP")'
        BY <3>1, <3>3, QueueReceive
      <3>4. CASE Send(out) /\ out \in Messages
        BY <3>4, QueueSend
      <3> QED
        BY <1>0, <3>2, <3>3, <3>4, ManagerMoves
    <2>2. ~GotComes
      BY <1>0, <2>1 DEF GotComes
    <2>3. /\ ~Waits("STA_DISCONNECTED") /\ ~Handling("STA_DISCONNECTED")
          /\ ~(mpc = "send" /\ out = "START_AP")
          /\ (mpc = "send" /\ out = "HTTP_CLIENT_INIT") \/ InitLast \/ Knows
      BY <1>0, <1>1, <2>2, UpMeans DEF KnownInv
    <2>4. /\ ~(mpc = "send" /\ out = "START_AP")' /\ ~Handling("STA_DISCONNECTED")'
          /\ Waits("START_AP")' => Waits("START_AP")
          /\ (mpc = "httpd_stop" /\ msg = "START_AP")' => Waits("START_AP")
          /\ InitLast => InitLast' \/ (HttpClientInit /\ ~Waits("START_AP")')
      BY <1>0, <1>1, <2>3, ManagerOpensNoPortal
    <2>5. CASE mpc = "send" /\ out = "HTTP_CLIENT_INIT"
      <3>1. ManagerSend
        BY <1>0, <2>5 DEF Manager, ScanDone, StartWifiScan, DisconnectSta, StopAp, ConnectSta,
           LoadAndRestoreSta, LoadAndRestoreStaRest, Receive, HttpdStopped, StaGotIp,
           StaDisconnected, StaDisconnectedFailed, StaDisconnectedByUser, StaDisconnectedLost,
           HttpClientInit, StartAp, HttpdRequest, HttpdRequestDone
      <3>2. Send("HTTP_CLIENT_INIT") /\ "HTTP_CLIENT_INIT" \in Messages
        BY <2>5, <3>1 DEF ManagerSend, Messages
      <3>3. InitLast'
        BY <3>2, QueueSend DEF InitLast
      <3> QED
        BY <2>4, <3>3
    <2>6. CASE InitLast
      <3>1. HttpClientInit /\ ~Waits("START_AP")' => Knows'
        BY DEF HttpClientInit, Knows
      <3> QED
        BY <2>4, <2>6, <3>1
    <2>7. CASE Knows
      <3>1. ~Waits("START_AP")' /\ ~(mpc = "httpd_stop" /\ msg = "START_AP")'
        BY <2>4, <2>7 DEF Knows
      <3>2. CASE mpc = "httpd_stop" /\ msg = "HTTP_CLIENT_INIT"
        <4>1. HttpdStopped
          BY <1>0, <3>2 DEF Manager, ScanDone, StartWifiScan, DisconnectSta, StopAp, ConnectSta,
             LoadAndRestoreSta, LoadAndRestoreStaRest, ManagerSend, Receive, StaGotIp,
             StaDisconnected, StaDisconnectedFailed, StaDisconnectedByUser, StaDisconnectedLost,
             HttpClientInit, StartAp, HttpdRequest, HttpdRequestDone
        <4>2. cb' = "connect"
          BY <3>2, <4>1, CallbackOf
        <4> QED
          BY <2>4, <3>1, <4>2 DEF Knows
      <3>3. CASE wifi_ok /\ cb' # "lost"
        <4>1. wifi_ok'
          BY <3>3, CallbackOf
        <4> QED
          BY <2>4, <3>1, <3>3, <4>1 DEF Knows
      <3>4. CASE wifi_ok /\ cb' = "lost"
        <4>1. clearedBy' = Handled
          BY <3>4, Zenon DEF ClearedFor
        <4>2. Handled \in {"START_WIFI_SCAN", "SCAN_DONE", "STOP_AP"}
          BY <2>3, <2>7, <3>4, CallbackOf DEF Knows
        <4>3. NoLoss'
          BY <4>1, <4>2 DEF NoLoss
        <4> QED
          BY <2>4, <3>1, <4>3 DEF Knows
      <3>5. CASE ~wifi_ok /\ NoLoss
        <4>1. clearedBy' = clearedBy
          BY <3>5, Zenon DEF ClearedFor
        <4>2. NoLoss'
          BY <3>5, <4>1 DEF NoLoss
        <4> QED
          BY <2>4, <3>1, <4>2 DEF Knows
      <3>6. \/ mpc = "httpd_stop" /\ msg = "HTTP_CLIENT_INIT"
            \/ wifi_ok \/ NoLoss
        BY <1>0, <2>7 DEF Knows
      <3> QED
        BY <3>2, <3>3, <3>4, <3>5, <3>6
    <2> QED
      BY <2>3, <2>5, <2>6, <2>7
  <1> QED
    BY <1>2, <1>3

\* The steps around the manager leave what the client knows,
LEMMA OutsideKnown ==
  ASSUME TypeData, KnownInv, Around \/ ClientAsks, UNCHANGED clientVars, clearedBy' = clearedBy,
         link' = "up" /\ link = "up" /\ ~fellBack' => ~fellBack
  PROVE  KnownInv'
  <1> SUFFICES ASSUME link' = "up", ~fellBack', ~GotComes'
               PROVE  /\ ~(mpc = "send" /\ out = "START_AP")' /\ ~Handling("STA_DISCONNECTED")'
                      /\ (mpc = "send" /\ out = "HTTP_CLIENT_INIT")' \/ InitLast' \/ Knows'
    BY DEF KnownInv
  <1>1. UNCHANGED <<mpc, msg, out>> /\ UNCHANGED <<wifi_ok, cb>>
    BY OutsideQueue DEF mgr, clientVars
  <1>2. link = "up" /\ ~fellBack
    BY OutsideMoves DEF GotComes
  <1>3. ~GotComes
    BY OutsideQueue, OutsideMoves DEF GotComes
  <1>4. /\ ~(mpc = "send" /\ out = "START_AP") /\ ~Handling("STA_DISCONNECTED")
        /\ (mpc = "send" /\ out = "HTTP_CLIENT_INIT") \/ InitLast \/ Knows
    BY <1>2, <1>3 DEF KnownInv
  <1>5. InitLast => InitLast'
    BY OutsideQueue DEF InitLast
  <1>6. Knows => Knows'
    BY <1>1, OutsideQueue DEF Knows, NoLoss
  <1> QED
    BY <1>1, <1>4, <1>5, <1>6 DEF Handling

\* the callback tells it,
LEMMA KeptKnown ==
  ASSUME CallbackAt, KnownInv, UNCHANGED vars, link = "up" /\ ~fellBack' => ~fellBack,
         \/ Callback /\ clearedBy' = IF cb = "connect" THEN "NONE" ELSE clearedBy
         \/ UNCHANGED clientVars /\ clearedBy' = clearedBy
  PROVE  KnownInv'
  <1> SUFFICES ASSUME link = "up", ~fellBack, ~GotComes
               PROVE  /\ ~(mpc = "send" /\ out = "START_AP")' /\ ~Handling("STA_DISCONNECTED")'
                      /\ (mpc = "send" /\ out = "HTTP_CLIENT_INIT")' \/ InitLast' \/ Knows'
    BY ManagerKept DEF KnownInv, GotComes
  <1>1. /\ ~(mpc = "send" /\ out = "START_AP") /\ ~Handling("STA_DISCONNECTED")
        /\ (mpc = "send" /\ out = "HTTP_CLIENT_INIT") \/ InitLast \/ Knows
    BY DEF KnownInv
  <1>2. InitLast' <=> InitLast
    BY ManagerKept DEF InitLast
  <1>3. ASSUME Knows PROVE Knows'
    <2>1. CASE UNCHANGED clientVars /\ clearedBy' = clearedBy
      BY <1>3, <2>1, ManagerKept DEF Knows, NoLoss, clientVars
    <2>2. CASE Callback /\ cb = "connect"
      <3>1. wifi_ok' /\ cb' = "none"
        BY <2>2, Zenon DEF Callback
      <3> QED
        BY <1>3, <3>1, ManagerKept DEF Knows
    <2>3. CASE Callback /\ cb = "lost" /\ clearedBy' = clearedBy
      BY <1>3, <2>3, ManagerKept DEF Knows, NoLoss
    <2>4. cb = "lost" \/ cb = "connect" \/ ~Callback
      BY DEF CallbackAt, Callback
    <2> QED
      BY <2>1, <2>2, <2>3, <2>4
  <1> QED
    BY <1>1, <1>2, <1>3, ManagerKept DEF Handling

KnownAll == UpFollows /\ AddressMeansNoLosses /\ KnownInv

\* and no step takes it back but those that LinkedIsKnown names.
LEMMA NextKnown ==
  ASSUME TypeData, LinkViewConsistent, HandlerAt, CallbackAt, KnownAll, BoundedNext
  PROVE  KnownAll'
  <1>1. UpFollows /\ AddressMeansNoLosses /\ KnownInv
    BY DEF KnownAll
  <1>2. ASSUME Manager \/ Around \/ ClientAsks \/ Restart PROVE UpFollows' /\ AddressMeansNoLosses'
    BY <1>1, <1>2, OthersSplit, NextUpFollows, NextAddress
  <1>3. CASE ManagerThenCallback /\ ClearedFor /\ RememberFallBack
    BY <1>1, <1>2, <1>3, ManagerKnown DEF KnownAll, ManagerThenCallback
  <1>4. CASE ClientAsks /\ UNCHANGED <<clientVars, clientHistory>>
    <2>1. clearedBy' = clearedBy /\ fellBack' = fellBack /\ UNCHANGED clientVars
      BY <1>4 DEF clientHistory
    <2> QED
      BY <1>1, <1>2, <1>4, <2>1, OutsideKnown DEF KnownAll
  <1>5. CASE Around /\ UNCHANGED <<clientVars, clearedBy>> /\ RememberFallBack
    <2>1. link' = "up" /\ ~fellBack' => ~fellBack
      BY <1>5, Zenon DEF RememberFallBack
    <2> QED
      BY <1>1, <1>2, <1>5, <2>1, OutsideKnown DEF KnownAll
  <1>6. CASE /\ Callback /\ RememberFallBack
             /\ clearedBy' = IF cb = "connect" THEN "NONE" ELSE clearedBy
    <2>1. UNCHANGED vars
      BY <1>6 DEF Callback
    <2>2. link = "up" /\ ~fellBack' => ~fellBack
      <3>1. link' = "up" /\ ~fellBack' => ~fellBack
        BY <1>6, Zenon DEF RememberFallBack
      <3> QED
        BY <2>1, <3>1, ManagerKept
    <2>3. UpFollows' /\ AddressMeansNoLosses'
      BY <1>1, <2>1, ManagerKept DEF UpFollows, AddressMeansNoLosses, Handling, Connected
    <2> QED
      BY <1>1, <1>6, <2>1, <2>2, <2>3, KeptKnown DEF KnownAll
  <1>7. CASE RestartBoth
    <2>1. Restart /\ link' = "down"
      BY <1>7 DEF RestartBoth, Restart
    <2> QED
      BY <1>2, <2>1 DEF KnownAll, KnownInv
  <1> QED
    BY <1>3, <1>4, <1>5, <1>6, <1>7, Zenon DEF BoundedNext, ClearedFor

\* The budget and the history variables only watch.
LEMMA BoundedWatched == BoundedSpec => ClientSpec
  <1>1. BoundedInit => ClientInit
    BY DEF BoundedInit
  <1>2. [BoundedNext]_boundedVars => [ClientNext]_<<vars, clientVars>>
    <2>1. BoundedNext => ClientNext
      BY Zenon DEF BoundedNext, ClientNext, clientHistory
    <2>2. UNCHANGED boundedVars => UNCHANGED <<vars, clientVars>>
      BY Zenon DEF boundedVars
    <2> QED
      BY <2>1, <2>2, Zenon
  <1> QED
    BY <1>1, <1>2, PTL DEF BoundedSpec, ClientSpec

\* Once every message about the link has been handled the client knows a link that is up,
\* unless it was told of a loss for a scan, a stopped access point or a failed load; for every
\* queue length and retry maximum, whatever is requested and ordered.
THEOREM LinkIsKnown == BoundedSpec => []LinkedIsKnown
  <1>1. BoundedInit => KnownAll
    <2> SUFFICES ASSUME NEW conf \in {"none", "good"}, InitWith(conf) PROVE KnownAll
      BY DEF BoundedInit, ClientInit, Init
    <2> QED
      BY DEF InitWith, KnownAll, UpFollows, AddressMeansNoLosses, KnownInv
  <1>2. TypeOK /\ LinkViewConsistent /\ WrongInv /\ KnownAll /\ [BoundedNext]_boundedVars => KnownAll'
    <2> SUFFICES ASSUME TypeData, LinkViewConsistent, HandlerAt, CallbackAt, KnownAll,
                        [BoundedNext]_boundedVars
                 PROVE  KnownAll'
      BY DEF TypeOK, WrongInv
    <2>1. CASE BoundedNext
      BY <2>1, NextKnown
    <2>2. CASE UNCHANGED boundedVars
      <3>1. UNCHANGED vars /\ UNCHANGED clientVars /\ clearedBy' = clearedBy /\ fellBack' = fellBack
        BY <2>2 DEF boundedVars, clientHistory
      <3>2. UpFollows' /\ AddressMeansNoLosses'
        BY <3>1, ManagerKept DEF KnownAll, UpFollows, AddressMeansNoLosses, Handling, Connected
      <3> QED
        BY <3>1, <3>2, KeptKnown DEF KnownAll
    <2> QED
      BY <2>1, <2>2
  <1>3. KnownAll => LinkedIsKnown
    <2> SUFFICES ASSUME KnownInv, LinkAtRest, link = "up", ~fellBack PROVE wifi_ok \/ NoLoss
      BY DEF KnownAll, LinkedIsKnown, NoLoss
    <2>1. ~GotComes
      BY DEF LinkAtRest, GotComes, Posted, Waits
    <2>2. ~InitLast
      BY DEF LinkAtRest, InitLast, Past
    <2> QED
      BY <2>1, <2>2 DEF KnownInv, LinkAtRest, Knows
  <1>4. BoundedSpec => []TypeOK /\ []LinkViewConsistent /\ []WrongInv
    BY BoundedWatched, ClientWatched, WrongHolds, TypeCorrect, LinkViewCorrect, PTL
  <1> QED
    BY <1>1, <1>2, <1>3, <1>4, PTL DEF BoundedSpec

(***************************************************************************)
(* How many attempts the portal opens after, with no client at work.       *)
(***************************************************************************)
\* What waits is in S; one m waits, with only what is in S before it, and in T behind it.
AllWait(S) == \A i \in 1..Len(queue) : queue[i] \in S
OneWaits(m, S, T) ==
    \E i \in 1..Len(queue) :
        /\ queue[i] = m
        /\ \A j \in 1..Len(queue) : (j < i => queue[j] \in S) /\ (j > i => queue[j] \in T)

ToClient == {"HTTP_CLIENT_INIT"}
ToTell == {"STA_GOT_IP", "HTTP_CLIENT_INIT"}

\* One thing at a time drives the device on, and is only ever in one place.  Elsewhere
\* the manager is in the handlers that tell of an address, no timer runs and no event
\* but that of an address is on its way.
Resting == mpc = "receive" \/ (mpc = "send" /\ out = "HTTP_CLIENT_INIT" /\ msg = "STA_GOT_IP")
           \/ (mpc = "httpd_stop" /\ msg = "HTTP_CLIENT_INIT")
NoTimer == ~timer /\ ~tick
NoEvents == evq = << >> /\ hand = "NONE"
OnlyAddress == /\ \A i \in 1..Len(evq) : evq[i] = "STA_GOT_IP"
               /\ hand \in {"NONE", "STA_GOT_IP"}

\* The first load, and the order it ends in,
Loading ==
    /\ link = "down" /\ ~Connected /\ NoTimer /\ NoEvents /\ retries = 0 /\ lost = 0
    /\ \/ mpc = "receive" /\ queue = <<"LOAD_AND_RESTORE_STA">>
       \/ mpc = "send" /\ msg = "LOAD_AND_RESTORE_STA" /\ out \in {"CONNECT_RESTORE", "START_AP"} /\ queue = << >>
       \/ mpc = "load" /\ queue \in {<<"CONNECT_RESTORE">>, <<"START_AP">>}
       \/ mpc = "receive" /\ queue \in {<<"CONNECT_RESTORE">>, <<"START_AP">>}

\* an attempt, or a link that is up, of whose address the manager hears,
Joining == /\ link = "joining" /\ ~Connected /\ NoTimer /\ NoEvents /\ Resting
           /\ AllWait(ToClient) /\ lost = retries
Up == /\ link = "up" /\ NoTimer /\ OnlyAddress /\ Resting /\ AllWait(ToTell)
      /\ lost = 0 /\ (GotComes \/ retries = 0)

\* (the loss is the last of these events)
LossIsLast(s) ==
    Len(s) # 0 /\ \A i \in 1..Len(s) : s[i] = IF i = Len(s) THEN "STA_DISCONNECTED" ELSE "STA_GOT_IP"

\* a loss, on its way to the manager behind what tells of the address,
Dropped ==
    /\ link = "down" /\ NoTimer
    /\ lost = IF GotComes THEN 1 ELSE retries + 1
    /\ \/ Resting /\ AllWait(ToTell) /\ hand \in {"NONE", "STA_GOT_IP"} /\ LossIsLast(evq)
       \/ Resting /\ AllWait(ToTell) /\ hand = "STA_DISCONNECTED" /\ evq = << >> /\ ~Connected
       \/ Resting /\ OneWaits("STA_DISCONNECTED", ToTell, ToClient) /\ NoEvents /\ ~Connected
       \/ /\ Handling("STA_DISCONNECTED") /\ AllWait(ToClient) /\ NoEvents /\ ~Connected
          /\ ux \cap {"REQUEST_STA_CONNECT", "REQUEST_DISCONNECT", "AP_STARTED"} = {}

\* a retry,
Retrying ==
    /\ link = "down" /\ ~Connected /\ NoEvents /\ Resting /\ lost = retries
    /\ \/ timer /\ ~tick /\ AllWait(ToClient)
       \/ ~timer /\ tick /\ AllWait(ToClient)
       \/ NoTimer /\ OneWaits("CONNECT_AUTO", ToClient, ToClient)

\* or the portal, which then stays.
Opening ==
    /\ link = "down" /\ NoTimer /\ NoEvents
    /\ \/ /\ mpc = "send" /\ msg = "STA_DISCONNECTED" /\ out = "START_AP" /\ AllWait(ToClient)
          /\ lost = MaxRetry + 1
       \/ Resting /\ OneWaits("START_AP", ToClient, ToClient)
Opened ==
    /\ apUp /\ link = "down" /\ NoTimer /\ hand = "NONE"
    /\ \A i \in 1..Len(evq) : evq[i] = "AP_START"
    /\ mpc = "receive" \/ (mpc = "httpd_stop" /\ msg \in {"START_AP", "HTTP_CLIENT_INIT"})
    /\ AllWait(ToClient)

NoRequests == /\ bits \cap {"REQUEST_STA_CONNECT", "REQUEST_DISCONNECT"} = {}
              /\ ~scanning /\ hpc = "idle"

Clean == NoRequests /\ ~apUp /\ "AP_STARTED" \notin bits
Going == Clean /\ (Loading \/ Joining \/ Up \/ Dropped \/ Retrying \/ Opening)

AttemptInv == Going \/ (NoRequests /\ Opened)

\* Nobody at work but the device itself.
Unattended == Requests = {} /\ Orders = {} /\ ~Restarts

\* What a send and a receive make of what waits.
LEMMA WaitSend ==
  ASSUME TypeData, NEW m \in Messages, Send(m)
  PROVE  /\ \A S : AllWait(S) /\ m \in S => AllWait(S)'
         /\ \A S, T : AllWait(S) => OneWaits(m, S, T)'
         /\ \A k, S, T : OneWaits(k, S, T) /\ m \in T => OneWaits(k, S, T)'
  <1>1. queue' = Append(queue, m) /\ queue \in Seq(Messages)
    BY DEF Send, SendTo, TypeData
  <1>2. /\ Len(queue') = Len(queue) + 1 /\ Len(queue) \in Nat
        /\ \A i \in 1..Len(queue) : queue'[i] = queue[i]
        /\ queue'[Len(queue) + 1] = m
    BY <1>1
  <1>3. \A i \in 1..Len(queue') : i \in 1..Len(queue) \/ i = Len(queue) + 1
    BY <1>2
  <1>4. /\ Len(queue) + 1 \in 1..Len(queue')
        /\ \A i \in 1..Len(queue) : i \in 1..Len(queue') /\ i < Len(queue) + 1 /\ ~(i > Len(queue) + 1)
        /\ ~(Len(queue) + 1 < Len(queue) + 1) /\ ~(Len(queue) + 1 > Len(queue) + 1)
    BY <1>2
  <1>5. ASSUME NEW S, AllWait(S), m \in S PROVE AllWait(S)'
    BY <1>2, <1>3, <1>5 DEF AllWait
  <1>6. ASSUME NEW S, NEW T, AllWait(S) PROVE OneWaits(m, S, T)'
    BY <1>2, <1>3, <1>4, <1>6 DEF AllWait, OneWaits
  <1>7. ASSUME NEW k, NEW S, NEW T, OneWaits(k, S, T), m \in T PROVE OneWaits(k, S, T)'
    <2>1. PICK i \in 1..Len(queue) :
             /\ queue[i] = k
             /\ \A j \in 1..Len(queue) : (j < i => queue[j] \in S) /\ (j > i => queue[j] \in T)
      BY <1>7 DEF OneWaits
    <2>2. i \in 1..Len(queue') /\ queue'[i] = k
      BY <1>2, <1>4, <2>1
    <2>3. \A j \in 1..Len(queue') : (j < i => queue'[j] \in S) /\ (j > i => queue'[j] \in T)
      <3> TAKE j \in 1..Len(queue')
      <3>1. CASE j \in 1..Len(queue)
        BY <1>2, <2>1, <3>1
      <3>2. CASE j = Len(queue) + 1
        <4>1. ~(j < i) /\ queue'[j] = m
          BY <1>2, <3>2
        <4> QED
          BY <1>7, <4>1
      <3> QED
        BY <1>3, <3>1, <3>2
    <2> QED
      BY <2>2, <2>3 DEF OneWaits
  <1> QED
    BY <1>5, <1>6, <1>7

LEMMA WaitReceive ==
  ASSUME TypeData, NEW m, Receive(m)
  PROVE  /\ \A S : AllWait(S) => m \in S /\ AllWait(S)'
         /\ \A k, S, T : OneWaits(k, S, T) =>
               (m = k /\ AllWait(T)') \/ (m \in S /\ OneWaits(k, S, T)')
  <1>1. queue # << >> /\ queue' = Tail(queue) /\ queue \in Seq(Messages) /\ m = Head(queue)
    BY DEF Receive, TypeData
  <1>2. /\ Len(queue') = Len(queue) - 1 /\ Len(queue) \in Nat \ {0} /\ queue[1] = m
        /\ \A i \in 1..Len(queue') : queue'[i] = queue[i + 1]
    BY <1>1
  <1>3. /\ 1 \in 1..Len(queue)
        /\ \A i \in 1..Len(queue') : i + 1 \in 1..Len(queue) /\ queue'[i] = queue[i + 1]
    BY <1>2
  <1>4. ASSUME NEW S, AllWait(S) PROVE m \in S /\ AllWait(S)'
    BY <1>2, <1>3, <1>4 DEF AllWait
  <1>5. ASSUME NEW k, NEW S, NEW T, OneWaits(k, S, T)
        PROVE  (m = k /\ AllWait(T)') \/ (m \in S /\ OneWaits(k, S, T)')
    <2>1. PICK i \in 1..Len(queue) :
             /\ queue[i] = k
             /\ \A j \in 1..Len(queue) : (j < i => queue[j] \in S) /\ (j > i => queue[j] \in T)
      BY <1>5 DEF OneWaits
    <2>2. CASE i = 1
      <3>1. \A j \in 1..Len(queue') : j + 1 > i
        BY <2>2
      <3>2. AllWait(T)'
        BY <1>3, <2>1, <3>1 DEF AllWait
      <3> QED
        BY <1>2, <2>1, <2>2, <3>2
    <2>3. CASE i # 1
      <3>1. i - 1 \in 1..Len(queue') /\ (i - 1) + 1 = i
        BY <1>2, <2>1, <2>3
      <3>2. queue'[i - 1] = k
        BY <1>3, <2>1, <3>1
      <3>3. ASSUME NEW j \in 1..Len(queue')
            PROVE  (j < i - 1 => queue'[j] \in S) /\ (j > i - 1 => queue'[j] \in T)
        <4>1. j + 1 \in 1..Len(queue) /\ queue'[j] = queue[j + 1]
          BY <1>3
        <4>2. (j < i - 1 => j + 1 < i) /\ (j > i - 1 => j + 1 > i)
          OBVIOUS
        <4> QED
          BY <2>1, <4>1, <4>2
      <3>4. 1 < i
        BY <2>3
      <3> QED
        BY <1>2, <1>3, <2>1, <3>1, <3>2, <3>3, <3>4 DEF OneWaits
    <2> QED
      BY <2>2, <2>3
  <1> QED
    BY <1>4, <1>5

\* A step that leaves the queue alone leaves what is said of it.
LEMMA WaitKept ==
  ASSUME queue' = queue
  PROVE  /\ \A S : AllWait(S) => AllWait(S)'
         /\ \A k, S, T : OneWaits(k, S, T) => OneWaits(k, S, T)'
  BY DEF AllWait, OneWaits

\* What is not in S does not wait where only S does.
LEMMA NoneWaits ==
  ASSUME NEW S, NEW m, m \notin S, AllWait(S)
  PROVE  ~Waits(m)
  BY DEF AllWait, Waits

\* Which handler runs.
LEMMA Handler ==
  ASSUME Manager
  PROVE  /\ mpc = "send" => ManagerSend
         /\ mpc = "load" => LoadAndRestoreStaRest
         /\ mpc = "httpd_stop" => HttpdStopped
         /\ Handling("STA_DISCONNECTED") =>
               StaDisconnectedFailed \/ StaDisconnectedByUser \/ StaDisconnectedLost
         /\ mpc = "receive" =>
               /\ Receive(Head(queue))
               /\ Head(queue) = "STA_GOT_IP" => StaGotIp
               /\ Head(queue) = "HTTP_CLIENT_INIT" => HttpClientInit
               /\ Head(queue) = "STA_DISCONNECTED" => StaDisconnected
               /\ Head(queue) = "START_AP" => StartAp
               /\ Head(queue) = "LOAD_AND_RESTORE_STA" => LoadAndRestoreSta
               /\ Head(queue) \in {"CONNECT_AUTO", "CONNECT_RESTORE"} => ConnectSta(Head(queue))
  BY DEF Handling, Manager, ScanDone, StartWifiScan, DisconnectSta, StopAp, ConnectSta,
     LoadAndRestoreSta, LoadAndRestoreStaRest, ManagerSend, Receive, HttpdStopped,
     StaDisconnected, StaDisconnectedFailed, StaDisconnectedByUser, StaDisconnectedLost,
     StaGotIp, StartAp, HttpClientInit, HttpdRequest, HttpdRequestDone

\* The handlers that tell of an address.
\* What those handlers do.
LEMMA CalmMoves ==
  ASSUME TypeData, Manager, Resting, mpc = "receive" => Head(queue) \in ToTell
  PROVE  /\ Resting' /\ UNCHANGED <<link, mode, evq, hand, timer, tick, scanning, hpc>>
         /\ bits' \subseteq bits /\ (Connected' <=> Connected)
         /\ \/ Receive("STA_GOT_IP") /\ retries' = 0
            \/ Receive("HTTP_CLIENT_INIT") /\ retries' = retries
            \/ Send("HTTP_CLIENT_INIT") /\ retries' = retries
            \/ queue' = queue /\ retries' = retries
  <1> USE DEF mgr, driver, web
  <1>1. CASE mpc = "receive" /\ Head(queue) = "STA_GOT_IP"
    <2>1. StaGotIp
      BY <1>1, Handler
    <2>2. bits' = bits \ {"REQUEST_STA_CONNECT", "REQUEST_RESTORE_STA"}
      BY <2>1 DEF StaGotIp
    <2>3. bits' \subseteq bits /\ (Connected' <=> Connected)
      BY <2>2 DEF Connected
    <2>4. /\ Receive("STA_GOT_IP") /\ retries' = 0
          /\ mpc' = "send" /\ out' = "HTTP_CLIENT_INIT" /\ msg' = "STA_GOT_IP"
          /\ UNCHANGED <<link, mode, evq, hand, timer, tick, scanning, hpc>>
      BY <2>1 DEF StaGotIp, RetriesAfterGotIp
    <2> QED
      BY <2>3, <2>4 DEF Resting
  <1>2. CASE mpc = "receive" /\ Head(queue) = "HTTP_CLIENT_INIT"
    <2>1. HttpClientInit
      BY <1>2, Handler
    <2>2. /\ Receive("HTTP_CLIENT_INIT") /\ retries' = retries /\ bits' = bits
          /\ mpc' = "httpd_stop" /\ msg' = "HTTP_CLIENT_INIT"
          /\ UNCHANGED <<link, mode, evq, hand, timer, tick, scanning, hpc>>
      BY <2>1 DEF HttpClientInit
    <2> QED
      BY <2>2 DEF Resting, Connected
  <1>3. CASE mpc = "send"
    <2>1. ManagerSend /\ out = "HTTP_CLIENT_INIT" /\ msg = "STA_GOT_IP"
      BY <1>3, Handler DEF Resting
    <2>2. /\ Send("HTTP_CLIENT_INIT") /\ retries' = retries /\ bits' = bits /\ mpc' = "receive"
          /\ UNCHANGED <<link, mode, evq, hand, timer, tick, scanning, hpc>>
      BY <2>1 DEF ManagerSend
    <2> QED
      BY <2>2 DEF Resting, Connected
  <1>4. CASE mpc = "httpd_stop"
    <2>1. HttpdStopped
      BY <1>4, Handler
    <2>2. /\ queue' = queue /\ retries' = retries /\ bits' = bits /\ mpc' = "receive"
          /\ UNCHANGED <<link, mode, evq, hand, timer, tick, scanning, hpc>>
      BY <2>1 DEF HttpdStopped, ToReceive
    <2> QED
      BY <2>2 DEF Resting, Connected
  <1> QED
    BY <1>1, <1>2, <1>3, <1>4 DEF Resting, ToTell

\* Each leaves what waits, but for the message it takes, and what the losses are.
LEMMA CalmWaits ==
  ASSUME TypeData, Manager, Resting, mpc = "receive" => Head(queue) \in ToTell
  PROVE  /\ AllWait(ToTell) => AllWait(ToTell)'
         /\ AllWait(ToClient) => AllWait(ToClient)' /\ retries' = retries
         /\ \A k, S : OneWaits(k, S, ToClient) => OneWaits(k, S, ToClient)' \/ Receive(k)
         /\ ~Receive("STA_GOT_IP") => (GotComes' <=> GotComes) /\ retries' = retries
         /\ CountLosses => lost' = lost
  <1>0. "HTTP_CLIENT_INIT" \in Messages /\ "HTTP_CLIENT_INIT" \in ToTell /\ "HTTP_CLIENT_INIT" \in ToClient
        /\ "STA_GOT_IP" \notin ToClient
    BY DEF Messages, ToTell, ToClient
  <1>1. /\ Resting' /\ UNCHANGED <<link, mode, evq, hand>>
        /\ \/ Receive("STA_GOT_IP") /\ retries' = 0
           \/ Receive("HTTP_CLIENT_INIT") /\ retries' = retries
           \/ Send("HTTP_CLIENT_INIT") /\ retries' = retries
           \/ queue' = queue /\ retries' = retries
    BY CalmMoves
  <1>2. CountLosses => lost' = lost
    BY <1>1 DEF CountLosses
  <1>3. \A k : Posted(k)' <=> Posted(k)
    BY <1>1, EventsKept
  <1>4. CASE Receive("STA_GOT_IP")
    <2>1. ~AllWait(ToClient)
      BY <1>0, <1>4, WaitReceive
    <2> QED
      BY <1>2, <1>4, <2>1, WaitReceive
  <1>5. CASE Receive("HTTP_CLIENT_INIT") /\ retries' = retries
    BY <1>1, <1>2, <1>3, <1>5, WaitReceive, QueueReceive DEF GotComes
  <1>6. CASE Send("HTTP_CLIENT_INIT") /\ retries' = retries
    BY <1>0, <1>1, <1>2, <1>3, <1>6, WaitSend, QueueSend DEF GotComes
  <1>7. CASE queue' = queue /\ retries' = retries
    BY <1>1, <1>2, <1>3, <1>7, WaitKept, QueueKept DEF GotComes
  <1> QED
    BY <1>1, <1>4, <1>5, <1>6, <1>7

\* With nobody else at work only these take steps.
Working == \/ Manager \/ EventHandler \/ EventSend \/ TimerRetry \/ TimerRetrySend
           \/ DriverJoined \/ (link \in {"joining", "up"} /\ Disconnected)

\* With nobody else at work only the device itself moves.
LEMMA Undisturbed ==
  ASSUME Unattended, NoRequests, link # "leaving", MCNext
  PROVE  CountLosses /\ Working
  <1>1. ~Client
    BY DEF Unattended, Client, GetApJson, GetConnect, PostWifiSetup, Reaches
  <1>2. ~Asks /\ ~Restart
    BY <1>1 DEF Unattended, Asks, Restart
  <1>3. ~Httpd
    BY DEF NoRequests, Httpd, GetApJsonSent, ScanAsync, ConnectAsync
  <1>4. Driver => DriverJoined \/ (link \in {"joining", "up"} /\ Disconnected)
    BY DEF NoRequests, Driver, DriverJoinFails, DriverLeaves, DriverLosesLink, DriverScanDone
  <1> QED
    BY <1>2, <1>3, <1>4, Zenon DEF MCNext, Unasked, Working

\* No request comes up by itself, and the portal is opened by START_AP only.
LEMMA CleanKept ==
  ASSUME Clean, mode' # "apsta", bits' \subseteq bits \cup {"WIFI_CONNECTED", "REQUEST_RESTORE_STA"},
         UNCHANGED <<scanning, hpc>>
  PROVE  Clean'
  BY DEF Clean, NoRequests, apUp

\* Losses are counted at a loss, or as the portal opens.
LEMMA LossKept ==
  ASSUME CountLosses, link' = link \/ link' = "joining", mode' = mode \/ mode' # "apsta"
  PROVE  lost' = lost
  BY DEF CountLosses

\* What is told to the http client is among what tells of an address.
LEMMA ClientTells == ToClient \subseteq ToTell /\ \A S, T : S \subseteq T /\ AllWait(S) => AllWait(T)
  BY DEF ToClient, ToTell, AllWait

\* The order to open the portal opens it.
LEMMA StartsPortal ==
  ASSUME NoRequests, ~apUp, link = "down", NoTimer, NoEvents, StartAp, AllWait(ToClient)'
  PROVE  AttemptInv'
  <1> USE DEF mgr, driver, web
  <1>1. /\ mode' = "apsta" /\ evq' = Append(<< >>, "AP_START")
        /\ mpc' = "httpd_stop" /\ msg' = "START_AP"
        /\ UNCHANGED <<link, timer, tick, hand, bits, scanning, hpc>>
    BY DEF StartAp, SetMode, NoEvents
  <1>2. \A i \in 1..Len(evq') : evq'[i] = "AP_START"
    BY <1>1
  <1>3. NoRequests'
    BY <1>1 DEF NoRequests
  <1> QED
    BY <1>1, <1>2, <1>3 DEF AttemptInv, Opened, apUp, NoTimer, NoEvents

\* The load ends in an attempt or in the order to open the portal.
LEMMA NextLoading ==
  ASSUME TypeData, Clean, Loading, Working, CountLosses
  PROVE  AttemptInv'
  <1> USE DEF mgr, driver, web
  <1>0. Manager
    BY DEF Loading, NoTimer, NoEvents, Working, EventHandler, EventSend, TimerRetry, TimerRetrySend,
       DriverJoined
  <1>1. link = "down" /\ ~Connected /\ NoTimer /\ NoEvents /\ retries = 0 /\ lost = 0
    BY DEF Loading
  <1>2. ASSUME Loading', Clean' PROVE AttemptInv'
    BY <1>2 DEF AttemptInv, Going
  <1>3. CASE mpc = "receive" /\ queue = <<"LOAD_AND_RESTORE_STA">>
    <2>1. LoadAndRestoreSta
      BY <1>0, <1>3, Handler
    <2>2. /\ queue' = << >> /\ mpc' = "send" /\ msg' = "LOAD_AND_RESTORE_STA"
          /\ out' \in {"CONNECT_RESTORE", "START_AP"}
          /\ UNCHANGED <<link, mode, evq, hand, timer, tick, scanning, hpc, bits, retries>>
      BY <1>3, <2>1 DEF LoadAndRestoreSta, AfterFetch, Receive
    <2>3. Loading'
      BY <1>1, <2>2, LossKept DEF Loading, NoTimer, NoEvents, Connected
    <2> QED
      BY <1>2, <2>2, <2>3, CleanKept DEF Clean, apUp
  <1>4. CASE /\ mpc = "send" /\ msg = "LOAD_AND_RESTORE_STA" /\ queue = << >>
             /\ out \in {"CONNECT_RESTORE", "START_AP"}
    <2>1. ManagerSend
      BY <1>0, <1>4, Handler
    <2>2. /\ queue' \in {<<"CONNECT_RESTORE">>, <<"START_AP">>} /\ mpc' = "load"
          /\ UNCHANGED <<link, mode, evq, hand, timer, tick, scanning, hpc, bits, retries>>
      BY <1>4, <2>1 DEF ManagerSend, Send, SendTo
    <2>3. Loading'
      BY <1>1, <2>2, LossKept DEF Loading, NoTimer, NoEvents, Connected
    <2> QED
      BY <1>2, <2>2, <2>3, CleanKept DEF Clean, apUp
  <1>5. CASE mpc = "load" /\ queue \in {<<"CONNECT_RESTORE">>, <<"START_AP">>}
    <2>1. LoadAndRestoreStaRest
      BY <1>0, <1>5, Handler
    <2>2. /\ queue' = queue /\ mpc' = "receive" /\ mode' = "sta" /\ evq' = evq
          /\ UNCHANGED <<link, hand, timer, tick, scanning, hpc, bits, retries>>
      BY <2>1 DEF LoadAndRestoreStaRest, SetMode, Clean
    <2>3. Loading'
      BY <1>1, <1>5, <2>2, LossKept DEF Loading, NoTimer, NoEvents, Connected
    <2> QED
      BY <1>2, <2>2, <2>3, CleanKept
  <1>6. CASE mpc = "receive" /\ queue = <<"CONNECT_RESTORE">>
    <2>1. ConnectSta("CONNECT_RESTORE")
      BY <1>0, <1>6, Handler
    <2>2. /\ queue' = << >> /\ mpc' = "receive" /\ link' = "joining"
          /\ bits' = bits \cup {"REQUEST_RESTORE_STA"}
          /\ UNCHANGED <<mode, evq, hand, timer, tick, scanning, hpc, retries>>
      BY <1>1, <1>6, <2>1 DEF ConnectSta, RequestBit, Connected, Receive
    <2>3. ~Connected'
      BY <1>1, <2>2 DEF Connected
    <2>4. lost' = lost
      BY <2>2, LossKept
    <2>5. Joining'
      BY <1>1, <2>2, <2>3, <2>4 DEF Joining, NoTimer, NoEvents, Resting, AllWait
    <2>6. Clean'
      BY <2>2, CleanKept DEF Clean, apUp
    <2> QED
      BY <2>5, <2>6 DEF AttemptInv, Going
  <1>7. CASE mpc = "receive" /\ queue = <<"START_AP">>
    <2>1. StartAp
      BY <1>0, <1>7, Handler
    <2>2. AllWait(ToClient)'
      BY <1>7, <2>1 DEF StartAp, Receive, AllWait
    <2> QED
      BY <1>1, <2>1, <2>2, StartsPortal DEF Clean
  <1> QED
    BY <1>3, <1>4, <1>5, <1>6, <1>7 DEF Loading

\* The steps of the manager that tell of an address leave every phase as it is.
LEMMA CalmPhase ==
  ASSUME TypeData, Clean, Manager, Resting, mpc = "receive" => Head(queue) \in ToTell, CountLosses
  PROVE  /\ Clean' /\ Resting' /\ lost' = lost
         /\ UNCHANGED <<link, mode, evq, hand, timer, tick>> /\ (Connected' <=> Connected)
  <1>1. /\ Resting' /\ UNCHANGED <<link, mode, evq, hand, timer, tick, scanning, hpc>>
        /\ bits' \subseteq bits /\ (Connected' <=> Connected)
    BY CalmMoves
  <1>2. Clean'
    BY <1>1, CleanKept DEF Clean, apUp
  <1> QED
    BY <1>1, <1>2, CalmWaits

\* An attempt gets an address or is lost.
LEMMA NextJoining ==
  ASSUME TypeData, Clean, Joining, Working, CountLosses
  PROVE  AttemptInv'
  <1> USE DEF mgr, driver, web
  <1>1. /\ link = "joining" /\ ~Connected /\ NoTimer /\ evq = << >> /\ hand = "NONE" /\ Resting
        /\ AllWait(ToClient) /\ lost = retries
    BY DEF Joining, NoEvents
  <1>2. ~Waits("STA_GOT_IP")
    BY <1>1, NoneWaits DEF ToClient
  <1>3. CASE Manager
    <2>1. mpc = "receive" => Head(queue) \in ToTell
      BY <1>1, <1>3, Handler, WaitReceive, ClientTells
    <2>2. AllWait(ToClient)' /\ retries' = retries
      BY <1>1, <1>3, <2>1, CalmWaits
    <2> QED
      BY <1>1, <1>3, <2>1, <2>2, CalmPhase DEF AttemptInv, Going, Joining, NoTimer, NoEvents
  <1>4. CASE DriverJoined
    <2>1. /\ evq' = Append(<< >>, "STA_GOT_IP") /\ link' = "up"
          /\ UNCHANGED <<queue, mpc, msg, out, retries, bits, timer, tick, hand, mode, scanning, hpc>>
      BY <1>1, <1>4 DEF DriverJoined, Post
    <2>2. /\ \A i \in 1..Len(evq') : evq'[i] = "STA_GOT_IP"
          /\ Posted("STA_GOT_IP")'
      BY <2>1 DEF Posted
    <2>3. lost' = 0
      BY <1>1, <2>1 DEF CountLosses
    <2>4. AllWait(ToTell)'
      BY <1>1, <2>1, WaitKept, ClientTells
    <2>5. Clean'
      BY <2>1, CleanKept DEF Clean, apUp
    <2>6. Up'
      BY <1>1, <2>1, <2>2, <2>3, <2>4 DEF Up, NoTimer, OnlyAddress, Resting, GotComes
    <2> QED
      BY <2>5, <2>6 DEF AttemptInv, Going
  <1>5. CASE Disconnected
    <2>1. /\ evq' = Append(<< >>, "STA_DISCONNECTED") /\ link' = "down"
          /\ UNCHANGED <<queue, mpc, msg, out, retries, bits, timer, tick, hand, mode, hpc>>
      BY <1>1, <1>5 DEF Disconnected, Post
    <2>2. /\ evq' # << >> /\ Len(evq') = 1 /\ evq'[1] = "STA_DISCONNECTED"
          /\ ~Posted("STA_GOT_IP")'
      BY <2>1 DEF Posted
    <2>3. lost' = retries' + 1
      <3>1. retries \in Nat /\ retries <= MaxRetry /\ MaxRetry \in Nat
        BY Constants DEF ConstantsOK, TypeData
      <3> QED
        BY <1>1, <2>1, <3>1 DEF CountLosses, LossCap
    <2>4. ~GotComes' /\ AllWait(ToTell)'
      BY <1>1, <1>2, <2>1, <2>2, WaitKept, QueueKept, ClientTells DEF GotComes
    <2>5. Clean'
      <3>1. ~scanning /\ ~scanning'
        BY <1>5 DEF Disconnected, Clean, NoRequests
      <3> QED
        BY <2>1, <3>1 DEF Clean, NoRequests, apUp
    <2>6. Dropped'
      <3>1. LossIsLast(evq)'
        BY <2>2 DEF LossIsLast
      <3>2. Resting' /\ NoTimer' /\ hand' = "NONE"
        BY <1>1, <2>1 DEF Resting, NoTimer
      <3> QED
        BY <2>1, <2>2, <2>3, <2>4, <3>1, <3>2 DEF Dropped
    <2> QED
      BY <2>5, <2>6 DEF AttemptInv, Going
  <1>6. ~EventHandler /\ ~EventSend /\ ~TimerRetry /\ ~TimerRetrySend
    BY <1>1 DEF EventHandler, EventSend, TimerRetry, TimerRetrySend, NoTimer
  <1> QED
    BY <1>3, <1>4, <1>5, <1>6 DEF Working

\* An event is handled, and its message sent, ahead of the events behind it.
LEMMA AddressEvent ==
  ASSUME TypeData, Clean, EventHandler, Head(evq) = "STA_GOT_IP", CountLosses
  PROVE  /\ hand' = "STA_GOT_IP" /\ evq' = Tail(evq) /\ GotComes /\ GotComes' /\ Clean'
         /\ lost' = lost
         /\ UNCHANGED <<queue, mpc, msg, out, retries, link, mode, timer, tick>>
  <1> USE DEF mgr, driver, web
  <1>1. /\ evq # << >> /\ evq' = Tail(evq) /\ hand' = "STA_GOT_IP"
        /\ bits' = bits \cup {"WIFI_CONNECTED"}
        /\ UNCHANGED <<queue, mpc, msg, out, retries, link, mode, timer, tick, scanning, hpc>>
    BY DEF EventHandler, BitsAfter, EventMessages
  <1>2. Posted("STA_GOT_IP")
    BY <1>1, FirstPosted
  <1>3. Clean'
    BY <1>1, CleanKept DEF Clean, apUp
  <1> QED
    BY <1>1, <1>2, <1>3, LossKept DEF GotComes

\* The event handler sends the message it has in hand.
LEMMA HandSends ==
  ASSUME TypeData, Clean, EventSend, CountLosses
  PROVE  /\ Send(hand) /\ hand \in Messages /\ hand' = "NONE" /\ Clean' /\ lost' = lost
         /\ GotComes' <=> GotComes
         /\ Connected' <=> Connected
         /\ UNCHANGED <<mpc, msg, out, retries, link, mode, evq, timer, tick>>
  <1> USE DEF mgr, driver, web
  <1>1. /\ Send(hand) /\ hand' = "NONE" /\ hand \in Messages /\ bits' = bits
        /\ UNCHANGED <<mpc, msg, out, retries, link, mode, evq, timer, tick, scanning, hpc>>
    BY SentMessages DEF EventSend
  <1>2. PICK m \in Messages : m = hand /\ Send(m)
    BY <1>1
  <1>3. \A k : Waits(k)' <=> Waits(k) \/ k = hand
    BY <1>2, QueueSend
  <1>4. \A k : Posted(k)' <=> Posted(k)
    BY <1>1, EventsKept
  <1>5. Clean'
    BY <1>1, CleanKept DEF Clean, apUp
  <1> QED
    BY <1>1, <1>3, <1>4, <1>5, LossKept DEF GotComes, Connected

\* A link that is up is told of, or lost.
LEMMA NextUp ==
  ASSUME TypeData, Clean, Up, Working, CountLosses
  PROVE  AttemptInv'
  <1> USE DEF mgr, driver, web
  <1>1. /\ link = "up" /\ NoTimer /\ (\A i \in 1..Len(evq) : evq[i] = "STA_GOT_IP")
        /\ hand \in {"NONE", "STA_GOT_IP"} /\ Resting /\ AllWait(ToTell)
        /\ lost = 0 /\ (GotComes \/ retries = 0)
    BY DEF Up, OnlyAddress
  <1>2. ASSUME Up', Clean' PROVE AttemptInv'
    BY <1>2 DEF AttemptInv, Going
  <1>3. CASE Manager
    <2>1. mpc = "receive" => Head(queue) \in ToTell
      BY <1>1, <1>3, Handler, WaitReceive
    <2>2. AllWait(ToTell)' /\ (GotComes' \/ retries' = 0)
      <3>1. Receive("STA_GOT_IP") => retries' = 0
        <4>1. Receive("STA_GOT_IP") => StaGotIp
          BY <1>3, Handler DEF Receive
        <4> QED
          BY <4>1 DEF StaGotIp, RetriesAfterGotIp
      <3> QED
        BY <1>1, <1>3, <2>1, <3>1, CalmWaits
    <2>3. Up'
      BY <1>1, <1>3, <2>1, <2>2, CalmPhase DEF Up, NoTimer, OnlyAddress
    <2> QED
      BY <1>2, <1>3, <1>1, <2>1, <2>3, CalmPhase
  <1>4. CASE EventHandler
    <2>0. evq # << >> /\ evq \in Seq(DriverEvents) /\ evq' = Tail(evq)
      BY <1>4 DEF EventHandler, TypeData
    <2>1. Head(evq) = "STA_GOT_IP"
      BY <1>1, <2>0
    <2>2. \A i \in 1..Len(evq') : evq'[i] = "STA_GOT_IP"
      BY <1>1, <2>0
    <2>3. AllWait(ToTell)'
      BY <1>1, <1>4, <2>1, AddressEvent, WaitKept
    <2>4. Up'
      BY <1>1, <1>4, <2>1, <2>2, <2>3, AddressEvent DEF Up, NoTimer, OnlyAddress, Resting
    <2> QED
      BY <1>2, <1>4, <2>1, <2>4, AddressEvent
  <1>5. CASE EventSend
    <2>1. hand = "STA_GOT_IP"
      BY <1>1, <1>5 DEF EventSend
    <2>2. "STA_GOT_IP" \in Messages /\ Send("STA_GOT_IP")
      BY <1>5, <2>1, HandSends
    <2>3. AllWait(ToTell)' /\ Waits("STA_GOT_IP")'
      BY <1>1, <2>2, WaitSend, QueueSend DEF ToTell
    <2>4. Up'
      BY <1>1, <1>5, <2>1, <2>3, HandSends DEF Up, NoTimer, OnlyAddress, Resting, GotComes
    <2> QED
      BY <1>2, <1>5, <2>4, HandSends
  <1>6. CASE Disconnected
    <2>1. /\ evq' = Append(evq, "STA_DISCONNECTED") /\ link' = "down" /\ evq \in Seq(DriverEvents)
          /\ UNCHANGED <<queue, mpc, msg, out, retries, bits, timer, tick, hand, mode, hpc>>
      BY <1>6 DEF Disconnected, Post, TypeData
    <2>2. LossIsLast(evq)'
      BY <1>1, <2>1 DEF LossIsLast
    <2>3. lost' = 1
      <3>1. MaxRetry \in Nat
        BY Constants DEF ConstantsOK
      <3> QED
        BY <1>1, <2>1, <3>1 DEF CountLosses, LossCap
    <2>4. GotComes' <=> GotComes
      BY <2>1, QueueKept, EventsPost DEF GotComes
    <2>5. lost' = IF GotComes' THEN 1 ELSE retries' + 1
      BY <1>1, <2>1, <2>3, <2>4
    <2>6. Clean'
      <3>1. ~scanning /\ ~scanning'
        BY <1>6 DEF Disconnected, Clean, NoRequests
      <3> QED
        BY <2>1, <3>1 DEF Clean, NoRequests, apUp
    <2>7. Resting' /\ NoTimer' /\ hand' \in {"NONE", "STA_GOT_IP"} /\ AllWait(ToTell)'
      BY <1>1, <2>1, WaitKept DEF Resting, NoTimer
    <2>8. Dropped'
      BY <2>1, <2>2, <2>5, <2>7 DEF Dropped
    <2> QED
      BY <2>6, <2>8 DEF AttemptInv, Going
  <1>7. ~TimerRetry /\ ~TimerRetrySend /\ ~DriverJoined
    BY <1>1 DEF TimerRetry, TimerRetrySend, DriverJoined, NoTimer
  <1> QED
    BY <1>3, <1>4, <1>5, <1>6, <1>7 DEF Working

\* A loss is counted once it is behind every address: by then the counter is the number of
\* the losses before it.
LEMMA NextHandling ==
  ASSUME TypeData, Clean, Working, CountLosses, link = "down", NoTimer,
         lost = IF GotComes THEN 1 ELSE retries + 1,
         Handling("STA_DISCONNECTED"), AllWait(ToClient), NoEvents, ~Connected,
         ux \cap {"REQUEST_STA_CONNECT", "REQUEST_DISCONNECT", "AP_STARTED"} = {}
  PROVE  AttemptInv'
  <1> USE DEF mgr, driver, web
  <1>0. retries \in 0..MaxRetry /\ MaxRetry \in Nat
    BY Constants DEF ConstantsOK, TypeData
  <1>1. ~GotComes
    <2>1. ~Posted("STA_GOT_IP")
      BY DEF NoEvents, Posted
    <2> QED
      BY <2>1, NoneWaits DEF GotComes, ToClient, NoEvents
  <1>2. Manager
    BY DEF NoTimer, NoEvents, Working, EventHandler, EventSend, TimerRetry, TimerRetrySend,
       DriverJoined
  <1>3. StaDisconnectedLost
    BY <1>2, Handler DEF DisconnectCause, StaDisconnectedFailed, StaDisconnectedByUser
  <1>4. CountsRetry(ux)
    BY DEF CountsRetry
  <1>5. UNCHANGED <<queue, link, tick, hand, evq, mode, scanning, hpc>> /\ lost' = lost
    BY <1>3, LossKept DEF StaDisconnectedLost
  <1>6. AllWait(ToClient)' /\ NoEvents'
    BY <1>5, WaitKept DEF NoEvents
  <1>7. bits' \subseteq bits /\ (Connected' <=> Connected)
    <2>1. \/ bits' = bits \ {"REQUEST_RESTORE_STA", "CONFIGURE_MODE"}
          \/ bits' = bits \ {"REQUEST_RESTORE_STA"}
      BY <1>3 DEF StaDisconnectedLost
    <2> QED
      BY <2>1 DEF Connected
  <1>8. Clean'
    BY <1>5, <1>7, CleanKept DEF Clean, apUp
  <1>9. CASE retries < MaxRetry
    <2>1. timer' = TRUE /\ tick' = tick /\ retries' = retries + 1 /\ mpc' = "receive"
      BY <1>3, <1>4, <1>9 DEF StaDisconnectedLost, BelowMaxRetry, RetryTimerAfter, ToReceive
    <2>2. Retrying'
      BY <1>1, <1>5, <1>6, <1>7, <2>1 DEF Retrying, NoTimer, Resting
    <2> QED
      BY <1>8, <2>2 DEF AttemptInv, Going
  <1>10. CASE retries = MaxRetry
    <2>0. ~BelowMaxRetry(retries)
      BY <1>0, <1>10 DEF BelowMaxRetry
    <2>1. ~timer' /\ mpc' = "send" /\ msg' = "STA_DISCONNECTED" /\ out' = "START_AP"
      BY <1>3, <1>4, <2>0, Zenon DEF StaDisconnectedLost, RetryTimerAfter, Handling, NoTimer
    <2>2. Opening'
      BY <1>1, <1>5, <1>6, <1>10, <2>1 DEF Opening, NoTimer
    <2> QED
      BY <1>8, <2>2 DEF AttemptInv, Going
  <1> QED
    BY <1>0, <1>9, <1>10

\* On its way to the manager, a loss stays behind what tells of the address.
LEMMA DroppedCalm ==
  ASSUME TypeData, Clean, CountLosses, Manager, Resting, mpc = "receive" => Head(queue) \in ToTell,
         lost = IF GotComes THEN 1 ELSE retries + 1
  PROVE  lost' = IF GotComes' THEN 1 ELSE retries' + 1
  <1>1. CASE Receive("STA_GOT_IP")
    <2>1. GotComes
      BY <1>1, QueueReceive DEF GotComes
    <2>2. retries' = 0
      <3>1. StaGotIp
        BY <1>1, Handler DEF Receive
      <3> QED
        BY <3>1 DEF StaGotIp, RetriesAfterGotIp
    <2>3. lost' = lost
      BY CalmWaits
    <2> QED
      BY <2>1, <2>2, <2>3
  <1>2. CASE ~Receive("STA_GOT_IP")
    BY <1>2, CalmWaits
  <1> QED
    BY <1>1, <1>2

\* What comes before the loss tells of the address, and is taken first.
LEMMA OneEvent ==
  ASSUME NEW s \in Seq(DriverEvents), LossIsLast(s), Len(s) = 1
  PROVE  Head(s) = "STA_DISCONNECTED" /\ s[1] = "STA_DISCONNECTED" /\ Tail(s) = << >>
  <1> DEFINE t == Tail(s)
  <1>1. s[1] = "STA_DISCONNECTED"
    BY DEF LossIsLast
  <1>2. t \in Seq(DriverEvents) /\ Len(t) = 0 /\ Head(s) = s[1]
    OBVIOUS
  <1> HIDE DEF t
  <1>3. t = << >>
    BY <1>2
  <1> QED
    BY <1>1, <1>2, <1>3 DEF t

LEMMA MoreEvents ==
  ASSUME NEW s \in Seq(DriverEvents), LossIsLast(s), Len(s) # 1
  PROVE  Head(s) = "STA_GOT_IP" /\ LossIsLast(Tail(s))
  <1> DEFINE t == Tail(s)
  <1>1. Len(s) \in Nat \ {0, 1}
    BY DEF LossIsLast
  <1>2. s # << >>
    BY <1>1
  <1>3. Len(t) = Len(s) - 1 /\ Head(s) = s[1] /\ \A i \in 1..Len(t) : t[i] = s[i + 1]
    BY <1>1, <1>2
  <1> HIDE DEF t
  <1>4. \A i \in 1..Len(t) : i + 1 \in 1..Len(s) /\ (i = Len(t) <=> i + 1 = Len(s))
    BY <1>1, <1>3
  <1>5. \A i \in 1..Len(t) : t[i] = IF i = Len(t) THEN "STA_DISCONNECTED" ELSE "STA_GOT_IP"
    BY <1>3, <1>4 DEF LossIsLast
  <1>6. Head(s) = "STA_GOT_IP"
    BY <1>1, <1>3 DEF LossIsLast
  <1>7. LossIsLast(t)
    BY <1>1, <1>3, <1>5 DEF LossIsLast
  <1> QED
    BY <1>6, <1>7 DEF t

\* A loss is on its way: posted,
LEMMA NextPosted ==
  ASSUME TypeData, Clean, Working, CountLosses, link = "down", NoTimer,
         lost = IF GotComes THEN 1 ELSE retries + 1,
         Resting, AllWait(ToTell), hand \in {"NONE", "STA_GOT_IP"}, LossIsLast(evq)
  PROVE  AttemptInv'
  <1> USE DEF mgr, driver, web
  <1>0. evq \in Seq(DriverEvents) /\ evq # << >>
    BY DEF TypeData, LossIsLast
  <1>1. ASSUME Clean', link' = "down", NoTimer', lost' = IF GotComes' THEN 1 ELSE retries' + 1,
               Resting', AllWait(ToTell)', hand' \in {"NONE", "STA_GOT_IP"}, LossIsLast(evq)'
        PROVE  AttemptInv'
    <2>1. Dropped'
      BY <1>1 DEF Dropped
    <2> QED
      BY <1>1, <2>1 DEF AttemptInv, Going
  <1>2. CASE Manager
    <2>1. mpc = "receive" => Head(queue) \in ToTell
      BY <1>2, Handler, WaitReceive
    <2>2. AllWait(ToTell)' /\ lost' = IF GotComes' THEN 1 ELSE retries' + 1
      BY <1>2, <2>1, CalmWaits, DroppedCalm
    <2>3. /\ Clean' /\ Resting' /\ UNCHANGED <<link, mode, evq, hand, timer, tick>>
      BY <1>2, <2>1, CalmPhase
    <2>4. LossIsLast(evq)'
      BY <2>3 DEF LossIsLast
    <2> QED
      BY <1>1, <2>2, <2>3, <2>4 DEF NoTimer
  <1>3. CASE EventHandler /\ Len(evq) = 1
    <2>1. Head(evq) = "STA_DISCONNECTED" /\ evq[1] = "STA_DISCONNECTED" /\ Tail(evq) = << >>
      BY <1>0, <1>3, OneEvent
    <2>2. /\ evq' = << >> /\ hand' = "STA_DISCONNECTED" /\ hand = "NONE"
          /\ bits' = bits \ {"WIFI_CONNECTED", "SCAN"}
          /\ UNCHANGED <<queue, mpc, msg, out, retries, link, mode, timer, tick, scanning, hpc>>
      BY <1>3, <2>1 DEF EventHandler, BitsAfter, EventMessages
    <2>3. GotComes' <=> GotComes
      <3>1. ~Posted("STA_GOT_IP") /\ ~Posted("STA_GOT_IP")'
        BY <1>3, <2>1, <2>2 DEF Posted
      <3> QED
        BY <2>2, <3>1, QueueKept DEF GotComes
    <2>4. Clean' /\ ~Connected' /\ lost' = lost
      BY <2>2, CleanKept, LossKept DEF Clean, apUp, Connected
    <2>5. AllWait(ToTell)' /\ Resting' /\ NoTimer'
      BY <2>2, WaitKept DEF Resting, NoTimer
    <2>6. Dropped'
      BY <2>2, <2>3, <2>4, <2>5 DEF Dropped
    <2> QED
      BY <2>4, <2>6 DEF AttemptInv, Going
  <1>4. CASE EventHandler /\ Len(evq) # 1
    <2>1. Head(evq) = "STA_GOT_IP" /\ LossIsLast(Tail(evq))
      BY <1>0, <1>4, MoreEvents
    <2>2. LossIsLast(evq)'
      <3>1. evq' = Tail(evq)
        BY <1>4 DEF EventHandler
      <3> QED
        BY <2>1, <3>1 DEF LossIsLast
    <2>3. AllWait(ToTell)'
      BY <1>4, <2>1, AddressEvent, WaitKept
    <2>4. Resting' /\ NoTimer'
      BY <1>4, <2>1, AddressEvent DEF Resting, NoTimer
    <2>5. lost' = IF GotComes' THEN 1 ELSE retries' + 1
      BY <1>4, <2>1, AddressEvent
    <2> QED
      BY <1>1, <1>4, <2>1, <2>2, <2>3, <2>4, <2>5, AddressEvent
  <1>5. CASE EventSend
    <2>1. hand = "STA_GOT_IP"
      BY <1>5 DEF EventSend
    <2>2. AllWait(ToTell)'
      BY <1>5, <2>1, HandSends, WaitSend DEF ToTell
    <2>3. lost' = IF GotComes' THEN 1 ELSE retries' + 1
      BY <1>5, HandSends
    <2> QED
      <3>1. /\ Clean' /\ Resting' /\ UNCHANGED <<link, evq, timer, tick>> /\ hand' = "NONE"
        BY <1>5, HandSends DEF Resting
      <3>2. LossIsLast(evq)'
        BY <3>1 DEF LossIsLast
      <3> QED
        BY <1>1, <2>2, <2>3, <3>1, <3>2 DEF NoTimer
  <1>6. ~TimerRetry /\ ~TimerRetrySend /\ ~DriverJoined
    BY DEF TimerRetry, TimerRetrySend, DriverJoined, NoTimer
  <1> QED
    BY <1>2, <1>3, <1>4, <1>5, <1>6 DEF Working

\* in the hand of the event handler,
LEMMA NextInHand ==
  ASSUME TypeData, Clean, Working, CountLosses, link = "down", NoTimer,
         lost = IF GotComes THEN 1 ELSE retries + 1,
         Resting, AllWait(ToTell), hand = "STA_DISCONNECTED", evq = << >>, ~Connected
  PROVE  AttemptInv'
  <1>1. CASE Manager
    <2>1. mpc = "receive" => Head(queue) \in ToTell
      BY <1>1, Handler, WaitReceive
    <2>2. AllWait(ToTell)' /\ lost' = IF GotComes' THEN 1 ELSE retries' + 1
      BY <1>1, <2>1, CalmWaits, DroppedCalm
    <2>3. /\ Clean' /\ Resting' /\ UNCHANGED <<link, mode, evq, hand, timer, tick>>
          /\ (Connected' <=> Connected)
      BY <1>1, <2>1, CalmPhase
    <2>4. Dropped'
      BY <2>2, <2>3 DEF Dropped, NoTimer
    <2> QED
      BY <2>3, <2>4 DEF AttemptInv, Going
  <1>2. CASE EventSend
    <2>1. PICK m \in Messages : m = "STA_DISCONNECTED" /\ Send(m)
      BY <1>2, HandSends
    <2>2. OneWaits("STA_DISCONNECTED", ToTell, ToClient)'
      BY <2>1, WaitSend
    <2>3. /\ Clean' /\ Resting' /\ UNCHANGED <<link, evq, timer, tick, retries>> /\ hand' = "NONE"
          /\ (Connected' <=> Connected) /\ lost' = lost /\ (GotComes' <=> GotComes)
      BY <1>2, HandSends DEF Resting
    <2>4. Dropped'
      BY <2>2, <2>3 DEF Dropped, NoTimer, NoEvents
    <2> QED
      BY <2>3, <2>4 DEF AttemptInv, Going
  <1>3. ~EventHandler /\ ~TimerRetry /\ ~TimerRetrySend /\ ~DriverJoined
    BY DEF EventHandler, TimerRetry, TimerRetrySend, DriverJoined, NoTimer
  <1> QED
    BY <1>1, <1>2, <1>3 DEF Working

\* and in the queue, until it is the first there.
LEMMA NextQueued ==
  ASSUME TypeData, Clean, Working, CountLosses, link = "down", NoTimer,
         lost = IF GotComes THEN 1 ELSE retries + 1,
         Resting, OneWaits("STA_DISCONNECTED", ToTell, ToClient), NoEvents, ~Connected
  PROVE  AttemptInv'
  <1> USE DEF mgr, driver, web
  <1>0. Manager
    BY DEF NoTimer, NoEvents, Working, EventHandler, EventSend, TimerRetry, TimerRetrySend,
       DriverJoined
  <1>1. CASE Receive("STA_DISCONNECTED")
    <2>1. StaDisconnected
      BY <1>0, <1>1, Handler DEF Receive
    <2>2. AllWait(ToClient)'
      <3>1. "STA_DISCONNECTED" \notin ToTell
        BY DEF ToTell
      <3> QED
        BY <1>1, <3>1, WaitReceive
    <2>3. /\ mpc' = "json" /\ msg' = "STA_DISCONNECTED" /\ ux' = bits
          /\ \E S : bits' = bits \ S
          /\ UNCHANGED <<retries, link, mode, evq, hand, timer, tick, scanning, hpc>>
      BY <2>1 DEF StaDisconnected
    <2>4. Clean' /\ lost' = lost /\ ~Connected'
      BY <2>3, CleanKept, LossKept DEF Clean, apUp, Connected
    <2>5. GotComes' <=> GotComes
      <3>1. Waits("STA_GOT_IP")' <=> Waits("STA_GOT_IP")
        BY <1>1, QueueReceive
      <3> QED
        BY <2>3, <3>1, EventsKept DEF GotComes
    <2>6. ux' \cap {"REQUEST_STA_CONNECT", "REQUEST_DISCONNECT", "AP_STARTED"} = {}
      BY <2>3 DEF Clean, NoRequests
    <2>7. Dropped'
      BY <2>2, <2>3, <2>4, <2>5, <2>6 DEF Dropped, Handling, NoTimer, NoEvents
    <2> QED
      BY <2>4, <2>7 DEF AttemptInv, Going
  <1>2. CASE ~Receive("STA_DISCONNECTED")
    <2>1. mpc = "receive" => Head(queue) \in ToTell
      BY <1>0, <1>2, Handler, WaitReceive
    <2>2. /\ OneWaits("STA_DISCONNECTED", ToTell, ToClient)'
          /\ lost' = IF GotComes' THEN 1 ELSE retries' + 1
      BY <1>0, <1>2, <2>1, CalmWaits, DroppedCalm
    <2>3. /\ Clean' /\ Resting' /\ UNCHANGED <<link, mode, evq, hand, timer, tick>>
          /\ (Connected' <=> Connected)
      BY <1>0, <2>1, CalmPhase
    <2>4. Dropped'
      BY <2>2, <2>3 DEF Dropped, NoTimer, NoEvents
    <2> QED
      BY <2>3, <2>4 DEF AttemptInv, Going
  <1> QED
    BY <1>1, <1>2

\* A loss becomes a retry, or the order to open the portal.
LEMMA NextDropped ==
  ASSUME TypeData, Clean, Dropped, Working, CountLosses
  PROVE  AttemptInv'
  BY NextPosted, NextInHand, NextQueued, NextHandling DEF Dropped

\* A retry runs through timer and queue into an attempt.
LEMMA NextRetrying ==
  ASSUME TypeData, Clean, Retrying, Working, CountLosses
  PROVE  AttemptInv'
  <1> USE DEF mgr, driver, web
  <1>1. link = "down" /\ ~Connected /\ NoEvents /\ Resting /\ lost = retries
    BY DEF Retrying
  <1>2. ~EventHandler /\ ~EventSend /\ ~DriverJoined
    BY <1>1 DEF NoEvents, EventHandler, EventSend, DriverJoined
  <1>3. CASE TimerRetry
    <2>1. /\ timer /\ ~tick /\ AllWait(ToClient)
      BY <1>3 DEF TimerRetry, Retrying, NoTimer
    <2>2. /\ ~timer' /\ tick'
          /\ UNCHANGED <<queue, mpc, msg, out, retries, link, mode, evq, hand, bits, scanning, hpc>>
      BY <1>3 DEF TimerRetry, TimerAfterTick
    <2>3. Clean' /\ ~Connected' /\ lost' = lost /\ AllWait(ToClient)'
      BY <1>1, <2>1, <2>2, CleanKept, LossKept, WaitKept DEF Clean, apUp, Connected
    <2>4. Retrying'
      BY <1>1, <2>2, <2>3 DEF Retrying, NoEvents, Resting
    <2> QED
      BY <2>3, <2>4 DEF AttemptInv, Going
  <1>4. CASE TimerRetrySend
    <2>1. ~timer /\ tick /\ AllWait(ToClient)
      BY <1>4 DEF TimerRetrySend, Retrying, NoTimer
    <2>2. /\ Send("CONNECT_AUTO") /\ "CONNECT_AUTO" \in Messages /\ ~tick' /\ timer' = timer
          /\ UNCHANGED <<mpc, msg, out, retries, link, mode, evq, hand, bits, scanning, hpc>>
      BY <1>4 DEF TimerRetrySend, Messages
    <2>3. Clean' /\ ~Connected' /\ lost' = lost
      BY <1>1, <2>2, CleanKept, LossKept DEF Clean, apUp, Connected
    <2>4. OneWaits("CONNECT_AUTO", ToClient, ToClient)'
      BY <2>1, <2>2, WaitSend
    <2>5. NoTimer'
      BY <2>1, <2>2 DEF NoTimer
    <2>6. Retrying'
      BY <1>1, <2>2, <2>3, <2>4, <2>5 DEF Retrying, NoEvents, Resting
    <2> QED
      BY <2>3, <2>6 DEF AttemptInv, Going
  <1>5. CASE Manager /\ Receive("CONNECT_AUTO")
    <2>1. ConnectSta("CONNECT_AUTO")
      BY <1>5, Handler DEF Receive
    <2>2. "CONNECT_AUTO" \notin ToClient
      BY DEF ToClient
    <2>3. NoTimer /\ AllWait(ToClient)'
      BY <1>5, <2>2, WaitReceive DEF Retrying
    <2>4. /\ link' = "joining" /\ bits' = bits /\ mpc' = "receive"
          /\ UNCHANGED <<retries, mode, evq, hand, timer, tick, scanning, hpc>>
      BY <1>1, <2>1 DEF ConnectSta, RequestBit, Connected, Receive
    <2>5. Clean' /\ ~Connected' /\ lost' = lost
      BY <1>1, <2>4, CleanKept, LossKept DEF Clean, apUp, Connected
    <2>6. Joining'
      BY <1>1, <2>3, <2>4, <2>5 DEF Joining, NoTimer, NoEvents, Resting
    <2> QED
      BY <2>5, <2>6 DEF AttemptInv, Going
  <1>6. CASE Manager /\ ~Receive("CONNECT_AUTO")
    <2>1. mpc = "receive" => Head(queue) \in ToTell
      BY <1>6, Handler, WaitReceive, ClientTells DEF Retrying
    <2>2. /\ Clean' /\ Resting' /\ lost' = lost
          /\ UNCHANGED <<link, mode, evq, hand, timer, tick>> /\ (Connected' <=> Connected)
      BY <1>1, <1>6, <2>1, CalmPhase
    <2>3. CASE AllWait(ToClient)
      <3>1. AllWait(ToClient)' /\ retries' = retries
        BY <1>1, <1>6, <2>1, <2>3, CalmWaits
      <3>2. (timer /\ ~tick) \/ (~timer /\ tick)
        <4>1. ~OneWaits("CONNECT_AUTO", ToClient, ToClient)
          BY <2>3 DEF AllWait, OneWaits, ToClient
        <4> QED
          BY <4>1 DEF Retrying
      <3>3. Retrying'
        BY <1>1, <2>2, <3>1, <3>2 DEF Retrying, NoEvents
      <3> QED
        BY <2>2, <3>3 DEF AttemptInv, Going
    <2>4. CASE NoTimer /\ OneWaits("CONNECT_AUTO", ToClient, ToClient)
      <3>1. OneWaits("CONNECT_AUTO", ToClient, ToClient)'
        BY <1>1, <1>6, <2>1, <2>4, CalmWaits
      <3>2. retries' = retries
        <4>1. ~Receive("STA_GOT_IP")
          <5>1. "STA_GOT_IP" # "CONNECT_AUTO" /\ "STA_GOT_IP" \notin ToClient
            BY DEF ToClient
          <5> QED
            BY <2>4, <5>1, WaitReceive
        <4> QED
          BY <1>1, <1>6, <2>1, <4>1, CalmWaits
      <3>3. Retrying'
        BY <1>1, <2>2, <2>4, <3>1, <3>2 DEF Retrying, NoEvents, NoTimer
      <3> QED
        BY <2>2, <3>3 DEF AttemptInv, Going
    <2> QED
      BY <2>3, <2>4 DEF Retrying
  <1> QED
    BY <1>1, <1>2, <1>3, <1>4, <1>5, <1>6 DEF Working

\* The order to open the portal is sent, received and carried out.
LEMMA NextOpening ==
  ASSUME TypeData, Clean, Opening, Working, CountLosses
  PROVE  AttemptInv'
  <1> USE DEF mgr, driver, web
  <1>0. link = "down" /\ NoTimer /\ NoEvents /\ NoRequests /\ ~apUp
    BY DEF Opening, Clean
  <1>1. Manager
    BY <1>0 DEF NoTimer, NoEvents, Working, EventHandler, EventSend, TimerRetry, TimerRetrySend,
       DriverJoined
  <1>2. CASE mpc = "send" /\ msg = "STA_DISCONNECTED" /\ out = "START_AP" /\ AllWait(ToClient)
    <2>1. ManagerSend
      BY <1>1, <1>2, Handler
    <2>2. /\ Send("START_AP") /\ "START_AP" \in Messages /\ mpc' = "receive"
          /\ UNCHANGED <<link, mode, evq, hand, timer, tick, bits, scanning, hpc>>
      BY <1>2, <2>1 DEF ManagerSend, Messages
    <2>3. OneWaits("START_AP", ToClient, ToClient)'
      BY <1>2, <2>2, WaitSend
    <2>4. Clean'
      BY <2>2, CleanKept DEF Clean, apUp
    <2>5. Opening'
      BY <1>0, <2>2, <2>3 DEF Opening, NoTimer, NoEvents, Resting
    <2> QED
      BY <2>4, <2>5 DEF AttemptInv, Going
  <1>3. CASE Resting /\ OneWaits("START_AP", ToClient, ToClient) /\ Receive("START_AP")
    <2>1. StartAp
      BY <1>1, <1>3, Handler DEF Receive
    <2>2. AllWait(ToClient)'
      <3>1. "START_AP" \notin ToClient
        BY DEF ToClient
      <3> QED
        BY <1>3, <3>1, WaitReceive
    <2> QED
      BY <1>0, <2>1, <2>2, StartsPortal
  <1>4. CASE Resting /\ OneWaits("START_AP", ToClient, ToClient) /\ ~Receive("START_AP")
    <2>1. mpc = "receive" => Head(queue) \in ToTell
      BY <1>1, <1>4, Handler, WaitReceive, ClientTells
    <2>2. OneWaits("START_AP", ToClient, ToClient)'
      BY <1>1, <1>4, <2>1, CalmWaits
    <2>3. Clean' /\ Resting' /\ UNCHANGED <<link, mode, evq, hand, timer, tick>>
      BY <1>1, <1>4, <2>1, CalmPhase
    <2>4. Opening'
      BY <1>0, <2>2, <2>3 DEF Opening, NoTimer, NoEvents
    <2> QED
      BY <2>3, <2>4 DEF AttemptInv, Going
  <1> QED
    BY <1>2, <1>3, <1>4 DEF Opening

\* The portal stays: nothing that waits would end it.
LEMMA NextOpened ==
  ASSUME TypeData, NoRequests, Opened, Working
  PROVE  AttemptInv'
  <1> USE DEF mgr, driver, web
  <1>1. /\ apUp /\ link = "down" /\ NoTimer /\ hand = "NONE"
        /\ \A i \in 1..Len(evq) : evq[i] = "AP_START"
        /\ AllWait(ToClient)
    BY DEF Opened
  <1>2. ASSUME NoRequests', Opened' PROVE AttemptInv'
    BY <1>2 DEF AttemptInv
  <1>3. CASE Manager /\ mpc = "receive"
    <2>1. HttpClientInit
      <3>1. Head(queue) = "HTTP_CLIENT_INIT"
        BY <1>1, <1>3, Handler, WaitReceive DEF ToClient
      <3> QED
        BY <1>3, <3>1, Handler
    <2>2. /\ Receive("HTTP_CLIENT_INIT") /\ mpc' = "httpd_stop" /\ msg' = "HTTP_CLIENT_INIT"
          /\ UNCHANGED <<link, mode, evq, hand, timer, tick, bits, scanning, hpc>>
      BY <2>1 DEF HttpClientInit
    <2>3. AllWait(ToClient)'
      BY <1>1, <2>2, WaitReceive
    <2> QED
      BY <1>1, <1>2, <2>2, <2>3 DEF Opened, NoRequests, NoTimer, apUp
  <1>4. CASE Manager /\ mpc # "receive"
    <2>1. HttpdStopped
      BY <1>4, Handler DEF Opened
    <2>2. /\ queue' = queue /\ mpc' = "receive"
          /\ UNCHANGED <<link, mode, evq, hand, timer, tick, bits, scanning, hpc>>
      BY <2>1 DEF HttpdStopped, ToReceive
    <2>3. AllWait(ToClient)'
      BY <1>1, <2>2, WaitKept
    <2> QED
      BY <1>1, <1>2, <2>2, <2>3 DEF Opened, NoRequests, NoTimer, apUp
  <1>5. CASE EventHandler
    <2>1. evq # << >> /\ evq \in Seq(DriverEvents) /\ evq' = Tail(evq)
      BY <1>5 DEF EventHandler, TypeData
    <2>2. Head(evq) = "AP_START" /\ \A i \in 1..Len(evq') : evq'[i] = "AP_START"
      BY <1>1, <2>1
    <2>3. /\ bits' = bits \cup {"AP_STARTED"} /\ hand' = "NONE"
          /\ UNCHANGED <<queue, mpc, msg, link, mode, timer, tick, scanning, hpc>>
      BY <1>5, <2>2 DEF EventHandler, BitsAfter, EventMessages
    <2>4. AllWait(ToClient)' /\ NoRequests'
      BY <1>1, <2>3, WaitKept DEF NoRequests
    <2> QED
      BY <1>1, <1>2, <2>2, <2>3, <2>4 DEF Opened, NoTimer, apUp
  <1>6. ~EventSend /\ ~TimerRetry /\ ~TimerRetrySend /\ ~DriverJoined
    BY <1>1 DEF EventSend, TimerRetry, TimerRetrySend, DriverJoined, NoTimer
  <1> QED
    BY <1>1, <1>3, <1>4, <1>5, <1>6 DEF Working

\* A step that changes nothing.
LEMMA AttemptKept ==
  ASSUME AttemptInv, UNCHANGED mcVars
  PROVE  AttemptInv'
  <1>1. /\ UNCHANGED vars /\ lost' = lost
        /\ UNCHANGED <<queue, mpc, msg, out, ux, retries, bits, timer, tick, hand, evq, mode, link,
                       scanning, hpc>>
    BY Zenon DEF mcVars, vars, mgr, driver, web
  <1> USE <1>1 DEF NoTimer, NoEvents, Resting, Connected, Handling, apUp
  <1>2. GotComes' <=> GotComes
    BY ManagerKept DEF GotComes
  <1>3. \A S : AllWait(S) => AllWait(S)'
    BY WaitKept
  <1>4. \A k, S, T : OneWaits(k, S, T) => OneWaits(k, S, T)'
    BY WaitKept
  <1>5. NoRequests' <=> NoRequests
    BY DEF NoRequests
  <1>6. (Loading => Loading') /\ (Joining => Joining') /\ (Retrying => Retrying') /\ (Opening => Opening')
    BY <1>3, <1>4 DEF Loading, Joining, Retrying, Opening
  <1>7. (Up => Up') /\ (Dropped => Dropped')
    BY <1>2, <1>3, <1>4 DEF Up, Dropped, OnlyAddress
  <1>8. Opened => Opened'
    BY <1>3 DEF Opened
  <1> QED
    BY <1>5, <1>6, <1>7, <1>8 DEF AttemptInv, Going, Clean

\* With nobody else at work the portal opens after MaxRetry + 1 losses of the link, or
\* failed attempts, in a row: never earlier, and never later; for every queue length,
\* every capacity of the event loop and every retry maximum.
THEOREM PortalAfterThatMany ==
  ASSUME Unattended
  PROVE  MCSpec => []PortalAfterAllRetries
  <1>1. MCInit => AttemptInv
    <2> SUFFICES ASSUME NEW conf \in {"none", "good"}, InitWith(conf), lost = 0 PROVE AttemptInv
      BY DEF MCInit, Init
    <2> QED
      BY DEF InitWith, AttemptInv, Going, Clean, NoRequests, Loading, NoTimer, NoEvents, Connected, apUp
  <1>2. TypeOK /\ AttemptInv /\ [MCNext]_mcVars => AttemptInv'
    <2> SUFFICES ASSUME TypeData, AttemptInv, [MCNext]_mcVars PROVE AttemptInv'
      BY DEF TypeOK
    <2>1. CASE MCNext
      <3>1. NoRequests /\ link # "leaving"
        BY DEF AttemptInv, Going, Clean, Loading, Joining, Up, Dropped, Retrying, Opening, Opened
      <3>2. CountLosses /\ Working
        BY <2>1, <3>1, Undisturbed
      <3>3. CASE Going
        BY <3>2, <3>3, NextLoading, NextJoining, NextUp, NextDropped, NextRetrying, NextOpening DEF Going
      <3>4. CASE Opened
        BY <3>1, <3>2, <3>4, NextOpened
      <3> QED
        BY <3>3, <3>4 DEF AttemptInv
    <2>2. CASE UNCHANGED mcVars
      BY <2>2, AttemptKept
    <2> QED
      BY <2>1, <2>2
  <1>3. AttemptInv => PortalAfterAllRetries
    <2> SUFFICES ASSUME AttemptInv, mpc = "send", msg = "STA_DISCONNECTED", out = "START_AP"
                 PROVE  lost = MaxRetry + 1
      BY DEF PortalAfterAllRetries
    <2> QED
      BY DEF AttemptInv, Going, Loading, Joining, Up, Dropped, Retrying, Opening, Opened, Resting, Handling
  <1> QED
    BY <1>1, <1>2, <1>3, MCTypeCorrect, PTL DEF MCSpec

=============================================================================
