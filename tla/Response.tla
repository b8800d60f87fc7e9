------------------------------ MODULE Response ------------------------------
(***************************************************************************)
(* What http_client_handler does with the body of a response               *)
(* (http_client.c:244-318), and the firmware upgrade that a response may   *)
(* order (ota.c).  There is one output_buffer, and two tasks in which the  *)
(* handler runs.  Their queues, the callbacks and the error count are in   *)
(* HttpClient; orders and requests come here at any time.                  *)
(*                                                                         *)
(* The library (external) delivers the body in parts, and ends with        *)
(* ON_FINISH, or with DISCONNECTED when the response breaks off.           *)
(***************************************************************************)
EXTENDS Integers, SequencesExt

CONSTANTS
    Bodies,     \* the responses: length, sent chunked, naming a firmware file
    MaxNamed    \* bound: how far those that name a file are counted; the
                \* first three differ, as FileAfter and Responds show

ASSUME BodiesAssumption ==
    Bodies \subseteq [len : Nat, chunked : BOOLEAN, names : BOOLEAN]
ASSUME MaxNamedAssumption == MaxNamed \in Nat /\ MaxNamed >= 3

Tasks == {"order", "send"}
Slots == {1, 2}     \* bound: upgrades that run at once
Null  == << >>

VARIABLES
    status,         \* HC_STATUS_OK
    client,         \* the handle: "null" or "live"
    user_data,      \* the handle was given a buffer that is not null
    opc, spc,       \* where the order task and the send task are
    pc,             \* where each of them is in the library and the handler
    body,           \* the response it receives
    got, missed,    \* how much of it came, and was dropped for want of memory
    told,           \* what cb_response_ptr was called with
    output_buffer,  \* null, or its size and the output_len bytes put in it
    file,           \* null, or whose name it is and whether that is freed
    named,          \* how many responses have named a file
    upgrades,       \* the upgrade tasks, and the response each is for
    damaged         \* the heap has been written or freed where it must not be

loopVars == <<client, user_data, opc, spc>>
receiptVars == <<body, got, missed>>
otaVars == <<file, named, upgrades>>
respVars == <<status, loopVars, pc, receiptVars, told, output_buffer, otaVars,
              damaged>>

RespInit ==
    /\ status = FALSE /\ client = "null" /\ user_data = FALSE
    /\ opc = "receive" /\ spc = "wait"
    /\ pc = [t \in Tasks |-> "off"] /\ body = [t \in Tasks |-> Null]
    /\ got = [t \in Tasks |-> 0] /\ missed = [t \in Tasks |-> 0]
    /\ told = [t \in Tasks |-> Null] /\ output_buffer = Null
    /\ file = Null /\ named = 0
    /\ upgrades = [u \in Slots |-> Null] /\ damaged = FALSE

Goes(t, where) == pc' = [pc EXCEPT ![t] = where]

----------------------------------------------------------------------------
(***************************************************************************)
(* esp_http_client_perform and the handler, in task t.                     *)
(***************************************************************************)
\* A request is made, the headers of its response have come.
Begins(t) == /\ client = "live" /\ pc[t] = "off"
             /\ \E b \in Bodies : body' = [body EXCEPT ![t] = b]
             /\ Goes(t, "body")
             /\ UNCHANGED <<status, loopVars, got, missed, told, output_buffer,
                            otaVars, damaged>>

\* MIN(data_len, buffer_len - output_len); below zero when more has been put in
\* the buffer than this response is long.
CopyLen(n, buffer_len, output_len) ==
    IF n < buffer_len - output_len THEN n ELSE buffer_len - output_len

Part(t, n) == [k \in 1..n |-> <<t, got[t] + k>>]

\* The buffer o with n more bytes for task t.
Filled(o, t, n) == [o EXCEPT !.text =
    @ \o Part(t, CopyLen(n, body[t].len, Len(o.text)))]

\* HTTP_EVENT_ON_DATA.  The buffer is allocated for the first part, or for the
\* first one that there is memory for; a chunked response is left aside.
OnData(t) ==
    /\ pc[t] = "body"
    /\ \E n \in 1..(body[t].len - got[t]) :
        /\ got' = [got EXCEPT ![t] = @ + n]
        /\ \/ /\ body[t].chunked
              /\ UNCHANGED <<output_buffer, missed, damaged>>
           \/ \* To where the buffer was once
              /\ ~body[t].chunked /\ user_data
              /\ damaged' = TRUE
              /\ UNCHANGED <<output_buffer, missed>>
           \/ \* No memory
              /\ ~body[t].chunked /\ ~user_data /\ output_buffer = Null
              /\ missed' = [missed EXCEPT ![t] = @ + n]
              /\ UNCHANGED <<output_buffer, damaged>>
           \/ /\ ~body[t].chunked /\ ~user_data
              /\ output_buffer' =
                    Filled(IF output_buffer # Null THEN output_buffer
                           ELSE [size |-> body[t].len, text |-> << >>], t, n)
              /\ damaged' = \/ damaged
                            \/ Len(output_buffer'.text) > output_buffer'.size
                            \/ /\ output_buffer # Null
                               /\ body[t].len < Len(output_buffer.text)
              /\ UNCHANGED missed
    /\ UNCHANGED <<status, loopVars, pc, body, told, otaVars>>

\* HTTP_EVENT_ON_FINISH, raised too when the body ends early.
OnFinish(t) ==
    /\ pc[t] = "body"
    /\ Goes(t, IF output_buffer = Null THEN "after" ELSE "finish")
    /\ UNCHANGED <<status, loopVars, receiptVars, told, output_buffer, otaVars,
                   damaged>>

\* What the text tells ota().  One that is not the response of t alone may be
\* read either way.
WholeText(t) == [k \in 1..body[t].len |-> <<t, k>>]
Readings(t) == IF output_buffer = Null THEN {FALSE}
               ELSE IF output_buffer.text = WholeText(t) THEN {body[t].names}
               ELSE BOOLEAN

\* Mutated form of FileAfter: the new name takes the place of the old one.
FileReplaced(f, n) == [of |-> n, live |-> TRUE]

\* Mutated form of FileAfter: the pointer that is freed is reset.
FileReset(f, n) == IF f = Null THEN [of |-> n, live |-> TRUE] ELSE Null

\* file is set when it is null; else what it points to is freed, and it stays.
FileAfter(f, n) == IF f = Null THEN [of |-> n, live |-> TRUE]
                   ELSE [f EXCEPT !.live = FALSE]

Counted(n) == IF n < MaxNamed THEN n + 1 ELSE n

Responds(t) ==
    /\ pc[t] = "finish"
    /\ \/ /\ FALSE \in Readings(t)
          /\ told' = [told EXCEPT ![t] =
                IF output_buffer = Null THEN @ ELSE output_buffer.text]
          /\ Goes(t, "free")
          /\ UNCHANGED <<file, named, damaged>>
       \/ /\ TRUE \in Readings(t)
          /\ named' = Counted(named) /\ file' = FileAfter(file, named')
          /\ damaged' = (damaged \/ (file # Null /\ ~file.live))
          /\ Goes(t, "clear")
          /\ UNCHANGED told
    /\ UNCHANGED <<status, loopVars, receiptVars, output_buffer, upgrades>>

\* Mutated form of StatusOrdered: the bit is not cleared for the upgrade.
StatusKept(s) == s

StatusOrdered(s) == FALSE

ClearsStatus(t) == /\ pc[t] = "clear"
                   /\ status' = StatusOrdered(status) /\ Goes(t, "start")
                   /\ UNCHANGED <<loopVars, receiptVars, told, output_buffer,
                                  otaVars, damaged>>

\* firmware_upgrade.  When there is no memory for the task no one is told.
StartsUpgrade(t) ==
    /\ pc[t] = "start"
    /\ \/ \E u \in Slots :
            /\ upgrades[u] = Null /\ \A v \in 1..(u - 1) : upgrades[v] # Null
            /\ upgrades' = [upgrades EXCEPT ![u] = [of |-> named, reads |-> FALSE]]
       \/ UNCHANGED upgrades
    /\ Goes(t, "free")
    /\ UNCHANGED <<status, loopVars, receiptVars, told, output_buffer, file,
                   named, damaged>>

\* HTTP_EVENT_DISCONNECTED: behind the response, in the middle of it, or when
\* the order task closes the connection.
OnDisconnected(t) ==
    /\ pc[t] \in {"body", "after", "closing"}
    /\ status' = FALSE /\ Goes(t, "drop")
    /\ UNCHANGED <<loopVars, receiptVars, told, output_buffer, otaVars, damaged>>

\* Mutated forms of Freed: the pointer is kept, after the response or after a
\* loss.
FreedKept(o, where) == IF where = "free" THEN o ELSE Null
LostKept(o, where) == IF where = "drop" THEN o ELSE Null

\* free, and output_buffer = NULL.
Freed(o, where) == Null

Frees(t) == /\ pc[t] \in {"free", "drop"}
            /\ output_buffer' = Freed(output_buffer, pc[t])
            /\ Goes(t, IF pc[t] = "free" THEN "after" ELSE "over")
            /\ UNCHANGED <<status, loopVars, receiptVars, told, otaVars, damaged>>

Handler(t) == \/ OnData(t) \/ OnFinish(t) \/ Responds(t) \/ ClearsStatus(t)
              \/ StartsUpgrade(t) \/ OnDisconnected(t) \/ Frees(t)

\* esp_http_client_perform returns.
Returns(t) == /\ pc[t] \in {"after", "over"}
              /\ Goes(t, "off")
              /\ body' = [body EXCEPT ![t] = Null]
              /\ got' = [got EXCEPT ![t] = 0] /\ missed' = [missed EXCEPT ![t] = 0]
              /\ told' = [told EXCEPT ![t] = Null]

----------------------------------------------------------------------------
(***************************************************************************)
(* The order task.  user_data is output_buffer at the time of the order.   *)
(***************************************************************************)
Connect == /\ opc = "receive" /\ ~status
           /\ client' = "live" /\ user_data' = (output_buffer # Null)
           /\ opc' = "connect"
           /\ UNCHANGED <<status, spc, pc, receiptVars, told, output_buffer,
                          otaVars, damaged>>

OrderPerforms == opc = "connect" /\ Begins("order")

\* A failed attempt is made again, a lost response may be a failed attempt.
Connected == /\ opc = "connect" /\ Returns("order")
             /\ \/ status' = TRUE /\ opc' = "receive"
                \/ pc["order"] = "over" /\ UNCHANGED <<status, opc>>
             /\ UNCHANGED <<client, user_data, spc, output_buffer, otaVars, damaged>>

Close == /\ opc = "receive" /\ status
         /\ opc' = "close" /\ Goes("order", "closing")
         /\ UNCHANGED <<status, client, user_data, spc, receiptVars, told,
                        output_buffer, otaVars, damaged>>

Closed == /\ opc = "close" /\ pc["order"] \in {"closing", "over"}
          /\ client' = "null" /\ opc' = "receive" /\ Goes("order", "off")
          /\ UNCHANGED <<status, user_data, spc, receiptVars, told, output_buffer,
                         otaVars, damaged>>

(***************************************************************************)
(* The send task waits for the bit, then for a request.                    *)
(***************************************************************************)
SendWaits == /\ spc = "wait" /\ status
             /\ spc' = "receive"
             /\ UNCHANGED <<status, client, user_data, opc, pc, receiptVars, told,
                            output_buffer, otaVars, damaged>>

SendReceives == /\ spc = "receive"
                /\ spc' = "perform"
                /\ UNCHANGED <<status, client, user_data, opc, pc, receiptVars,
                               told, output_buffer, otaVars, damaged>>

SendPerforms == spc = "perform" /\ Begins("send")

\* Only a request whose headers did not come is made again.
Sent == /\ spc = "perform" /\ Returns("send")
        /\ spc' = "wait"
        /\ UNCHANGED <<status, client, user_data, opc, output_buffer, otaVars,
                       damaged>>

(***************************************************************************)
(* The upgrade task reads the name; when it fails cb_ota_finish sets the   *)
(* bit again, when it succeeds the device restarts.                        *)
(***************************************************************************)
UpgradeReads(u) ==
    /\ upgrades[u] # Null /\ ~upgrades[u].reads
    /\ upgrades' = [upgrades EXCEPT ![u].reads = TRUE]
    /\ UNCHANGED <<status, loopVars, pc, receiptVars, told, output_buffer, file,
                   named, damaged>>

\* Mutated form of StatusAfter: the bit is set after a success.
StatusTurned(fail, s) == IF fail THEN s ELSE TRUE

StatusAfter(fail, s) == IF fail THEN TRUE ELSE s

UpgradeFails(u) ==
    /\ upgrades[u] # Null /\ upgrades[u].reads
    /\ status' = StatusAfter(TRUE, status) /\ upgrades' = [upgrades EXCEPT ![u] = Null]
    /\ UNCHANGED <<loopVars, pc, receiptVars, told, output_buffer, file, named,
                   damaged>>

\* A request over a null handle, and what damage of the heap leads to.
Restart ==
    /\ \/ \E u \in Slots : upgrades[u] # Null /\ upgrades[u].reads
       \/ spc = "perform" /\ client = "null" /\ pc["send"] = "off"
       \/ damaged
    /\ status' = FALSE /\ client' = "null" /\ user_data' = FALSE
    /\ opc' = "receive" /\ spc' = "wait"
    /\ pc' = [t \in Tasks |-> "off"] /\ body' = [t \in Tasks |-> Null]
    /\ got' = [t \in Tasks |-> 0] /\ missed' = [t \in Tasks |-> 0]
    /\ told' = [t \in Tasks |-> Null] /\ output_buffer' = Null
    /\ file' = Null /\ named' = 0
    /\ upgrades' = [u \in Slots |-> Null] /\ damaged' = FALSE

\* The send task has a higher priority than the two others, and in these places
\* it waits for nothing.
Preempts(where) == where \in {"start", "free", "drop"}

OrderTask == Handler("order") \/ Connect \/ OrderPerforms \/ Connected
               \/ Close \/ Closed
SendTask == Handler("send") \/ SendWaits \/ SendReceives \/ SendPerforms \/ Sent
UpgradeTask == \E u \in Slots : UpgradeReads(u) \/ UpgradeFails(u)

Step == \/ SendTask
        \/ ~Preempts(pc["send"]) /\ (OrderTask \/ UpgradeTask)

RespNext == Step \/ Restart

RespSpec == RespInit /\ [][RespNext]_respVars

----------------------------------------------------------------------------
\* Every variable stays in its range; from the first response that names a file
\* on there is one, so that no upgrade task aborts (ota.c:105).
RespTypeOK ==
    /\ {status, user_data, damaged} \subseteq BOOLEAN
    /\ client \in {"null", "live"}
    /\ opc \in {"receive", "connect", "close"}
    /\ spc \in {"wait", "receive", "perform"}
    /\ pc \in [Tasks -> {"off", "body", "finish", "clear", "start", "free",
                         "after", "closing", "drop", "over"}]
    /\ body \in [Tasks -> Bodies \cup {Null}]
    /\ \A t \in Tasks : /\ got[t] \in 0..(IF body[t] = Null THEN 0 ELSE body[t].len)
                        /\ missed[t] \in 0..got[t]
                        /\ told[t] \in Seq(Tasks \X Nat)
    /\ output_buffer # Null => /\ output_buffer.size \in Nat
                               /\ output_buffer.text \in Seq(Tasks \X Nat)
    /\ named \in 0..MaxNamed
    /\ IF named = 0 THEN file = Null
                    ELSE file # Null /\ file.of \in 1..named /\ file.live \in BOOLEAN
    /\ \A u \in Slots : upgrades[u] # Null =>
          upgrades[u].of \in 1..named /\ upgrades[u].reads \in BOOLEAN
=============================================================================
