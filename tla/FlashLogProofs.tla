--------------------------- MODULE FlashLogProofs ---------------------------
(***************************************************************************)
(* Theorems about FlashLog for all lengths of its queues and of its file,  *)
(* all sets of tasks that log and of orders, with and without a time       *)
(* server.                                                                 *)
(***************************************************************************)
EXTENDS FlashLog, TLAPS

Entries == {"SAVE", "READ", "CLEAR"}

\* FlashTypeOK without the Boolean variables.
Ranges ==
    /\ asking \in {"NONE", "READ", "CLEAR"}
    /\ fq \in Seq(Entries) /\ Len(fq) <= FlashLen
    /\ pc \in [Writers -> {"idle", "send"}]
    /\ fpc \in {"receive", "bits", "cb", "send", "close"}
    /\ file \in 0..MaxFile /\ pos \in 0..file /\ taken + refused \in 0..pos
    /\ {taken, refused} \subseteq Nat
    /\ requests \in 0..SendLen /\ spc \in {"wait", "receive", "perform", "log"}

\* What becomes of each message that read_flash_log reads: all but the one in
\* hand are accounted for, and the file is closed at its end.
ReadAccount ==
    /\ fpc \in {"cb", "send"} => taken + refused + 1 = pos
    /\ fpc \in {"bits", "close"} => taken + refused = pos
    /\ fpc = "close" => pos = file

FlashInv == Ranges /\ ReadAccount

Clients == WifiFound \/ WifiLost \/ Disconnected \/ Reconnects \/ Activates

LEMMA InitFlash == Init => FlashInv
  BY FlashAssumption DEF Init, FlashInv, Ranges, ReadAccount, Entries

\* The room that xQueueSend waits for.
LEMMA EnqueueInRange ==
  ASSUME Ranges, NEW o \in Entries, Enqueue(o)
  PROVE  fq' \in Seq(Entries) /\ Len(fq') <= FlashLen
  BY FlashAssumption DEF Ranges, Enqueue

LEMMA DequeueInRange ==
  ASSUME Ranges, fq # << >>, fq' = Tail(fq)
  PROVE  fq' \in Seq(Entries) /\ Len(fq') <= FlashLen
  BY FlashAssumption DEF Ranges

\* Each step keeps the ranges and the account of the read.
LEMMA NextFlash == FlashInv /\ [Next]_fvars => FlashInv'
  <1> SUFFICES ASSUME FlashInv, [Next]_fvars PROVE FlashInv'
    OBVIOUS
  <1> USE FlashAssumption DEF FlashInv, ReadAccount, clientBits, senders, counts, flash
  <1>1. CASE Clients
    BY <1>1 DEF Clients, WifiFound, WifiLost, Disconnected, Reconnects, Activates, Ranges
  <1>2. ASSUME NEW w \in Writers, Log(w) PROVE FlashInv'
    BY <1>2 DEF Log, Ranges
  <1>3. ASSUME NEW w \in Writers, LogSend(w) PROVE FlashInv'
    <2>1. fq' \in Seq(Entries) /\ Len(fq') <= FlashLen
      BY <1>3, EnqueueInRange DEF LogSend, Entries
    <2> QED
      BY <1>3, <2>1 DEF LogSend, Ranges
  <1>4. CASE Ask
    BY <1>4 DEF Ask, Ranges
  <1>5. CASE AskSend
    <2>1. fq' \in Seq(Entries) /\ Len(fq') <= FlashLen
      BY <1>5, EnqueueInRange DEF AskSend, Entries, Ranges
    <2> QED
      BY <1>5, <2>1 DEF AskSend, Ranges
  <1>6. CASE FlashSave \/ FlashClear \/ FlashRead
    <2>1. fq' \in Seq(Entries) /\ Len(fq') <= FlashLen
      BY <1>6, DequeueInRange DEF FlashSave, FlashClear, FlashRead
    <2>2. CASE FlashSave
      BY <2>1, <2>2 DEF FlashSave, Appended, Ranges
    <2>3. CASE FlashClear
      BY <2>1, <2>3 DEF FlashClear, Ranges
    <2>4. CASE FlashRead
      BY <2>1, <2>4 DEF FlashRead, Ranges
    <2> QED
      BY <1>6, <2>2, <2>3, <2>4
  <1>7. CASE ReadOne
    BY <1>7 DEF ReadOne, Ranges
  <1>8. CASE ReadBreaks
    BY <1>8 DEF ReadBreaks, AfterBreak, Ranges
  <1>9. CASE Truncate
    BY <1>9 DEF Truncate, Emptied, Ranges
  <1>10. CASE RecordChecked
    BY <1>10 DEF RecordChecked, Ranges
  <1>11. CASE RecordSent
    BY <1>11, SMTT(40) DEF RecordSent, Ranges
  <1>12. CASE SendStarts \/ SendReceives \/ SendPerforms
    BY <1>12, SMTT(40) DEF SendStarts, SendReceives, SendPerforms, Ranges
  <1>13. CASE SendLogs
    <2>1. fq' \in Seq(Entries) /\ Len(fq') <= FlashLen
      BY <1>13, EnqueueInRange DEF SendLogs, Entries
    <2> QED
      BY <1>13, <2>1 DEF SendLogs, Ranges
  <1>14. CASE UNCHANGED fvars
    BY <1>14 DEF fvars, Ranges
  <1> QED
    BY <1>1, <1>2, <1>3, <1>4, <1>5, <1>6, <1>7, <1>8, <1>9, <1>10, <1>11, <1>12,
       <1>13, <1>14 DEF Next, FlashTask, SendTask, Clients

\* The bits of the event groups stay bits.
Flags == {wifi, status, ready, connecting} \subseteq BOOLEAN

LEMMA NextFlags == Flags /\ [Next]_fvars => Flags'
  <1> SUFFICES ASSUME Flags, [Next]_fvars PROVE Flags'
    OBVIOUS
  <1> USE DEF Flags
  <1>1. CASE Clients
    BY <1>1, Zenon DEF Clients, WifiFound, WifiLost, Disconnected, Reconnects, Activates
  <1>2. CASE UNCHANGED clientBits
    BY <1>2, Zenon DEF clientBits
  <1>3. ASSUME NEW w \in Writers, Log(w) \/ LogSend(w) PROVE UNCHANGED clientBits
    BY <1>3, Zenon DEF Log, LogSend
  <1>4. Ask \/ AskSend => UNCHANGED clientBits
    BY Zenon DEF Ask, AskSend
  <1>5. FlashTask => UNCHANGED clientBits
    BY Zenon DEF FlashTask, FlashSave, FlashClear, FlashRead, ReadOne, ReadBreaks, Truncate,
                 RecordChecked, RecordSent
  <1>6. SendTask => UNCHANGED clientBits
    BY Zenon DEF SendTask, SendStarts, SendReceives, SendPerforms, SendLogs
  <1>7. UNCHANGED fvars => UNCHANGED clientBits
    BY Zenon DEF fvars
  <1> QED
    BY <1>1, <1>2, <1>3, <1>4, <1>5, <1>6, <1>7, Zenon DEF Next, Clients

LEMMA FlashInductive == Spec => [](FlashInv /\ Flags)
  <1>1. Init => FlashInv /\ Flags
    BY InitFlash, Zenon DEF Init, Flags
  <1>2. FlashInv /\ Flags /\ [Next]_fvars => FlashInv' /\ Flags'
    BY NextFlash, NextFlags, Zenon
  <1> QED
    BY <1>1, <1>2, PTL DEF Spec

\* The log file never holds more than its maximal size, and read_flash_log
\* passes on no more messages than it has read and reads none beyond the end of
\* the file, even while other tasks go on logging.
THEOREM FlashTypeCorrect == Spec => []FlashTypeOK
  <1>1. FlashInv /\ Flags => FlashTypeOK
    BY DEF FlashInv, Flags, Ranges, Entries, FlashTypeOK
  <1> QED
    BY <1>1, FlashInductive, PTL

\* flash_log_task truncates the file, unless it is told to, only after every
\* message in it has been accepted by the send queue or refused for want of WiFi.
THEOREM NothingLost == Spec => KeptUntilTaken
  <1> DEFINE Kept == file' < file => \/ taken + refused = file
                                     \/ fpc = "receive" /\ Head(fq) = "CLEAR"
  <1>1. FlashInv /\ [Next]_fvars => [Kept]_fvars
    <2> SUFFICES ASSUME FlashInv, Next, file' < file PROVE Kept
      OBVIOUS
    <2> USE FlashAssumption DEF FlashInv, Ranges, ReadAccount, clientBits, senders, counts, flash
    <2>1. CASE Truncate
      BY <2>1 DEF Truncate
    <2>2. CASE FlashClear
      BY <2>2 DEF FlashClear
    <2>3. CASE FlashSave
      BY <2>3 DEF FlashSave, Appended
    <2>4. CASE FlashTask /\ ~Truncate /\ ~FlashClear /\ ~FlashSave
      BY <2>4 DEF FlashTask, FlashRead, ReadOne, ReadBreaks, RecordChecked, RecordSent
    <2>5. CASE SendTask
      BY <2>5 DEF SendTask, SendStarts, SendReceives, SendPerforms, SendLogs
    <2>6. CASE Clients \/ Ask \/ AskSend
      BY <2>6 DEF Clients, WifiFound, WifiLost, Disconnected, Reconnects, Activates, Ask,
                  AskSend
    <2>7. ASSUME NEW w \in Writers, Log(w) \/ LogSend(w) PROVE FALSE
      BY <2>7 DEF Log, LogSend
    <2> QED
      BY <2>1, <2>2, <2>3, <2>4, <2>5, <2>6, <2>7 DEF Next, Clients
  <1> QED
    BY <1>1, FlashInductive, PTL DEF Spec, KeptUntilTaken

=============================================================================
