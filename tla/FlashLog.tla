------------------------------ MODULE FlashLog ------------------------------
(***************************************************************************)
(* The flash log of flash.c and the tasks it ties together.  Any task may  *)
(* log: FLASH_LOGx sends the message to flash_log_queue and blocks while   *)
(* that queue is full.  The flash task appends messages to the file; when  *)
(* main_task asks for it (read_flash_log) it passes them, one by one, to   *)
(* http_client_send_message, which blocks while the send queue of the http *)
(* client is full.  The send task empties that queue, and logs when a      *)
(* request fails.                                                          *)
(*                                                                         *)
(* Of the http client only what the flash log sees is here: the bits, the  *)
(* length of the send queue, and the send task.  HttpClient has the rest.  *)
(*                                                                         *)
(* example_wifi_manager.c is the only caller of read_flash_log.  There     *)
(* main_task, the callbacks of the client and the body of                  *)
(* send_flash_logging_message are commented out; the model is of the       *)
(* application that they show (example_wifi_manager.c:73-91, 99-150).      *)
(***************************************************************************)
EXTENDS Naturals, Sequences

CONSTANTS
    FlashLen,   \* length of flash_log_queue (4)
    SendLen,    \* length of http_client_send_queue (4)
    MaxFile,    \* CONFIG_LOG_FILE_MAX_SIZE, in messages
    Writers,    \* the tasks that log, besides the send task
    UseNtp,     \* is ipv4_ntp set
    Asked       \* the orders of the application: READ (main_task), CLEAR

ASSUME FlashAssumption ==
    /\ {FlashLen, SendLen, MaxFile} \subseteq Nat \ {0}
    /\ Writers \subseteq {"manager", "ntp", "ota"}
    /\ Asked \subseteq {"READ", "CLEAR"}
    /\ UseNtp \in BOOLEAN

VARIABLES
    wifi,       \* HC_WIFI_OK
    status,     \* HC_STATUS_OK of http_client_events
    ready,      \* HC_STATUS_OK of flash_log_events
    connecting, \* does the order task have an order to connect
    fq,         \* flash_log_queue
    pc,         \* is a writer about to send its message
    asking,     \* the order the application is about to send
    fpc,        \* where the flash task is
    file,       \* messages in the log file
    pos,        \* how many of them have been read
    taken,      \* how many of those the send queue has accepted
    refused,    \* how many of them came while HC_WIFI_OK was off
    requests,   \* length of http_client_send_queue
    spc         \* where the send task is

clientBits == <<wifi, status, ready, connecting>>
senders    == <<pc, asking>>
counts     == <<file, pos, taken, refused>>
flash      == <<fpc, counts>>
fvars      == <<clientBits, fq, senders, flash, requests, spc>>

Init ==
    /\ wifi = FALSE /\ status = FALSE /\ ready = FALSE /\ connecting = FALSE
    /\ fq = << >> /\ pc = [w \in Writers |-> "idle"] /\ asking = "NONE"
    /\ fpc = "receive" /\ file = 0 /\ pos = 0 /\ taken = 0 /\ refused = 0
    /\ requests = 0 /\ spc = "wait"

Enqueue(o) == Len(fq) < FlashLen /\ fq' = Append(fq, o)

----------------------------------------------------------------------------
(***************************************************************************)
(* The client comes and goes.  The WiFi bit is switched by the manager     *)
(* task, which may be waiting in a log call of its own.                    *)
(***************************************************************************)
ManagerRuns == "manager" \in Writers => pc["manager"] = "idle"

\* cb_wifi_connect: the order is ignored by a client that is active.
WifiFound ==
    /\ ManagerRuns /\ ~wifi
    /\ wifi' = TRUE /\ connecting' = (connecting \/ ~status)
    /\ UNCHANGED <<status, ready, fq, senders, flash, requests, spc>>

\* cb_wifi_lost: the ready bit first, HC_WIFI_OK after it.
WifiLost ==
    /\ ManagerRuns
    /\ \/ ready /\ ready' = FALSE /\ UNCHANGED wifi
       \/ ~ready /\ wifi' = FALSE /\ UNCHANGED ready
    /\ UNCHANGED <<status, connecting, fq, senders, flash, requests, spc>>

\* HTTP_EVENT_DISCONNECTED in http_client_handler, and five seconds later.
Disconnected ==
    /\ status
    /\ status' = FALSE /\ ready' = FALSE
    /\ UNCHANGED <<wifi, connecting, fq, senders, flash, requests, spc>>

Reconnects ==
    /\ ~status /\ wifi /\ ~connecting
    /\ connecting' = TRUE
    /\ UNCHANGED <<wifi, status, ready, fq, senders, flash, requests, spc>>

\* The order task has connected.
Activates ==
    /\ ~status /\ connecting
    /\ status' = TRUE /\ ready' = TRUE /\ connecting' = FALSE
    /\ UNCHANGED <<wifi, fq, senders, flash, requests, spc>>

----------------------------------------------------------------------------
(***************************************************************************)
(* save_flash_log.  With a time server configured a message is dropped     *)
(* unless the client is active.                                            *)
(***************************************************************************)
Saves == UseNtp => ready

Log(w) ==
    /\ pc[w] = "idle" /\ Saves
    /\ pc' = [pc EXCEPT ![w] = "send"]
    /\ UNCHANGED <<clientBits, fq, asking, flash, requests, spc>>

LogSend(w) ==
    /\ pc[w] = "send" /\ Enqueue("SAVE")
    /\ pc' = [pc EXCEPT ![w] = "idle"]
    /\ UNCHANGED <<clientBits, asking, flash, requests, spc>>

\* main_task asks while the client is active, whoever clears at any time.
Ask ==
    /\ asking = "NONE"
    /\ asking' \in Asked
    /\ asking' = "READ" => ready
    /\ UNCHANGED <<clientBits, fq, pc, flash, requests, spc>>

AskSend ==
    /\ asking # "NONE" /\ Enqueue(asking)
    /\ asking' = "NONE"
    /\ UNCHANGED <<clientBits, pc, flash, requests, spc>>

----------------------------------------------------------------------------
(***************************************************************************)
(* flash_log_task.                                                         *)
(***************************************************************************)
\* Mutated form of Appended: the size of the file is not checked.
AppendedAlways(n) == n + 1

Appended(n) == IF n < MaxFile THEN n + 1 ELSE n

FlashSave ==
    /\ fpc = "receive" /\ fq # << >> /\ Head(fq) = "SAVE"
    /\ fq' = Tail(fq)
    /\ file' = Appended(file)
    /\ UNCHANGED <<clientBits, senders, fpc, pos, taken, refused, requests, spc>>

FlashClear ==
    /\ fpc = "receive" /\ fq # << >> /\ Head(fq) = "CLEAR"
    /\ fq' = Tail(fq)
    /\ file' = 0 /\ pos' = 0 /\ taken' = 0 /\ refused' = 0
    /\ UNCHANGED <<clientBits, senders, fpc, requests, spc>>

FlashRead ==
    /\ fpc = "receive" /\ fq # << >> /\ Head(fq) = "READ"
    /\ fq' = Tail(fq)
    /\ fpc' = "bits" /\ pos' = 0 /\ taken' = 0 /\ refused' = 0
    /\ UNCHANGED <<clientBits, senders, file, requests, spc>>

\* The bit is there: one more message is read, or the end of the file.
ReadOne ==
    /\ fpc = "bits" /\ ready
    /\ IF pos < file
       THEN pos' = pos + 1 /\ fpc' = "cb"
       ELSE pos' = pos /\ fpc' = "close"
    /\ UNCHANGED <<clientBits, fq, senders, file, taken, refused, requests, spc>>

\* Mutated form of AfterBreak: the file is truncated after a break as well.
TruncatesAlways == "close"

\* Mutated form of AfterBreak: the wait has no time limit.
WaitsOn == "bits"

AfterBreak == "receive"

\* 100 ms have passed without the bit.
ReadBreaks ==
    /\ fpc = "bits" /\ ~ready
    /\ fpc' = AfterBreak
    /\ UNCHANGED <<clientBits, fq, senders, counts, requests, spc>>

\* fopen with "wb".
Emptied(n) == 0

Truncate ==
    /\ fpc = "close"
    /\ file' = Emptied(file) /\ pos' = 0 /\ taken' = 0 /\ refused' = 0 /\ fpc' = "receive"
    /\ UNCHANGED <<clientBits, fq, senders, requests, spc>>

\* The callback, which the example has in a comment, calls
\* http_client_send_message: it looks at HC_WIFI_OK, then sends.
RecordChecked ==
    /\ fpc = "cb"
    /\ \/ wifi /\ fpc' = "send" /\ UNCHANGED refused
       \/ ~wifi /\ fpc' = "bits" /\ refused' = refused + 1
    /\ UNCHANGED <<clientBits, fq, senders, file, pos, taken, requests, spc>>

RecordSent ==
    /\ fpc = "send" /\ requests < SendLen
    /\ requests' = requests + 1 /\ taken' = taken + 1
    /\ fpc' = "bits"
    /\ UNCHANGED <<clientBits, fq, senders, file, pos, refused, spc>>

FlashTask == FlashSave \/ FlashClear \/ FlashRead \/ ReadOne \/ ReadBreaks \/ Truncate
             \/ RecordChecked \/ RecordSent

----------------------------------------------------------------------------
(***************************************************************************)
(* The send task of the http client.                                       *)
(***************************************************************************)
SendStarts ==
    /\ spc = "wait" /\ status
    /\ spc' = "receive"
    /\ UNCHANGED <<clientBits, fq, senders, flash, requests>>

SendReceives ==
    /\ spc = "receive" /\ requests > 0
    /\ requests' = requests - 1 /\ spc' = "perform"
    /\ UNCHANGED <<clientBits, fq, senders, flash>>

\* FLASH_LOGE after a request that failed.
SendPerforms ==
    /\ spc = "perform"
    /\ spc' \in {"wait"} \cup (IF Saves THEN {"log"} ELSE {})
    /\ UNCHANGED <<clientBits, fq, senders, flash, requests>>

SendLogs ==
    /\ spc = "log" /\ Enqueue("SAVE")
    /\ spc' = "wait"
    /\ UNCHANGED <<clientBits, senders, flash, requests>>

SendTask == SendStarts \/ SendReceives \/ SendPerforms \/ SendLogs

Next ==
    \/ WifiFound \/ WifiLost \/ Disconnected \/ Reconnects \/ Activates
    \/ \E w \in Writers : Log(w) \/ LogSend(w)
    \/ Ask \/ AskSend \/ FlashTask \/ SendTask

Spec == Init /\ [][Next]_fvars

\* The tasks run, the WiFi comes back and the client can connect again and
\* again.  A full queue serves its senders in turn, and xEventGroupSetBits wakes
\* the tasks that wait for the bit even if it is cleared at once: a task that is
\* let go on again and again goes on.
Fairness ==
    /\ WF_fvars(FlashTask) /\ SF_fvars(SendTask)
    /\ SF_fvars(AskSend) /\ \A w \in Writers : SF_fvars(LogSend(w))
    /\ SF_fvars(WifiFound \/ Reconnects) /\ SF_fvars(Activates)
FairSpec == Spec /\ Fairness

----------------------------------------------------------------------------
\* Types and ranges; the file never grows beyond its maximal size.
FlashTypeOK ==
    /\ {wifi, status, ready, connecting} \subseteq BOOLEAN
    /\ asking \in {"NONE", "READ", "CLEAR"}
    /\ fq \in Seq({"SAVE", "READ", "CLEAR"}) /\ Len(fq) <= FlashLen
    /\ pc \in [Writers -> {"idle", "send"}]
    /\ fpc \in {"receive", "bits", "cb", "send", "close"}
    /\ file \in 0..MaxFile /\ pos \in 0..file /\ taken + refused \in 0..pos
    /\ {taken, refused} \subseteq Nat
    /\ requests \in 0..SendLen /\ spc \in {"wait", "receive", "perform", "log"}

\* Unless it is told to clear the log, the flash task gives up the messages in
\* the file only after every one of them has been accepted by the send queue, or
\* refused because there was no WiFi when its turn came.
KeptUntilTaken ==
    [][file' < file => \/ taken + refused = file
                       \/ fpc = "receive" /\ Head(fq) = "CLEAR"]_fvars

\* The flash task waits for room in the send queue, the send task for room in
\* the flash queue.
WaitForEachOther ==
    /\ fpc = "send" /\ requests = SendLen
    /\ spc = "log" /\ Len(fq) = FlashLen

\* The flash task waits for the client, the client for the manager, and the
\* manager for room in the flash queue.
WaitForManager ==
    /\ fpc = "send" /\ requests = SendLen /\ ~status /\ ~connecting /\ ~wifi
    /\ Len(fq) = FlashLen /\ ~ManagerRuns

\* Whoever logs goes on after a while, the send task included with the "error
\* message" of Kconfig:178, unless the tasks wait for each other in one of the
\* two circles.
Circle == WaitForEachOther \/ WaitForManager
LoggersGoOn ==
    /\ \A w \in Writers : pc[w] = "send" ~> pc[w] = "idle" \/ Circle
    /\ spc = "log" ~> spc # "log" \/ Circle
=============================================================================
