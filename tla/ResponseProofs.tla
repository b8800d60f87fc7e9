---------------------------- MODULE ResponseProofs ----------------------------
(***************************************************************************)
(* Theorems about Response for every set of responses, of any length.      *)
(***************************************************************************)
EXTENDS MCResponse, FiniteSetTheorems, SequenceTheorems, TLAPS

Places   == {"off", "body", "finish", "clear", "start", "free", "after", "closing", "drop",
             "over"}
Received == {"body", "finish", "clear", "start", "free", "after"}   \* of a response
Holding  == {"body", "finish", "clear", "start", "free", "drop"}    \* the buffer, perhaps
Texts    == Seq(Tasks \X Nat)
Buffers  == [size : Nat, text : Texts]
Orders   == [of : Nat, reads : BOOLEAN]

Types ==
    /\ {status, user_data, damaged} \subseteq BOOLEAN
    /\ client \in {"null", "live"}
    /\ opc \in {"receive", "connect", "close"} /\ spc \in {"wait", "receive", "perform"}
    /\ pc \in [Tasks -> Places]
    /\ body \in [Tasks -> Bodies \cup {Null}]
    /\ got \in [Tasks -> Nat] /\ missed \in [Tasks -> Nat] /\ told \in [Tasks -> Texts]
    /\ output_buffer \in Buffers \cup {Null}
    /\ named \in 0..MaxNamed /\ upgrades \in [Slots -> Orders \cup {Null}]

\* Which places of the handler a task can be in, and what it has received there.
PlaceInv ==
    /\ opc = "receive" => pc["order"] = "off"
    /\ opc = "connect" => pc["order"] # "closing"
    /\ opc = "close" => pc["order"] \in {"closing", "drop", "over"} /\ body["order"] = Null
    /\ spc # "perform" => pc["send"] = "off"
    /\ pc["send"] # "closing"

ReceiptInv == \A t \in Tasks :
    /\ pc[t] = "off" => body[t] = Null
    /\ pc[t] \in Received => body[t] # Null
    /\ body[t] = Null => got[t] = 0 /\ told[t] = Null
    /\ body[t] # Null => got[t] <= body[t].len
    /\ missed[t] <= got[t]
    /\ pc[t] \in {"off", "body", "finish", "clear", "start"} => told[t] = Null

\* There is one file at most, whose name the second response frees.
FileInv ==
    /\ file = IF named = 0 THEN Null ELSE [of |-> 1, live |-> named = 1]
    /\ \A t \in Tasks : pc[t] \in {"clear", "start"} => named > 0
    /\ \A u \in Slots : upgrades[u] # Null => upgrades[u].of \in 1..named

\* The bytes behind the m-th of the response to t, up to the g-th.
Bytes(t, m, g) == [k \in 1..(g - m) |-> <<t, m + k>>]

\* What task t has put in the buffer, when nobody else has.
Kept(t) == Bytes(t, missed[t], got[t])
Mine(t) == /\ body[t].chunked => missed[t] = 0 /\ output_buffer = Null
           /\ ~body[t].chunked =>
                 IF got[t] = missed[t] THEN output_buffer = Null
                 ELSE output_buffer = [size |-> body[t].len, text |-> Kept(t)]

\* What the application was told, when nothing was dropped.
ToldWell(t) ==
    missed[t] = 0 =>
        LET whole == got[t] = body[t].len /\ ~body[t].chunked
        IN  /\ pc[t] \in {"clear", "start"} /\ whole => body[t].names
            /\ pc[t] \in {"free", "after"} => /\ told[t] \in {Null, Kept(t)}
                                              /\ whole /\ ~body[t].names => told[t] = Kept(t)

Sound(t) == /\ pc[t] \in {"body", "finish", "clear", "start", "free"} => Mine(t)
            /\ pc[t] = "finish" => output_buffer # Null
            /\ ToldWell(t)

BufferInv ==
    /\ damaged => mixed \/ named >= 3
    /\ user_data => mixed
    /\ ~mixed => /\ opc = "receive" \/ pc["send"] = "off"
                 /\ output_buffer # Null => \E t \in Tasks : pc[t] \in Holding
                 /\ \A t \in Tasks : Sound(t)

\* The order task has been at work when the bit is set under an upgrade; before that
\* the send task is not served, and has no second upgrade to start.
Running1 == \E u \in Slots : upgrades[u] # Null
UpgradeInv ==
    /\ pc["send"] = "start" => ~status
    /\ Running1 /\ ~reopened =>
          /\ pc["order"] = "off" /\ ~status
          /\ spc = "wait" \/ pc["send"] \in {"free", "after", "drop", "over"}
          /\ \E u \in Slots : upgrades[u] = Null

RespInv == /\ Types /\ {mixed, reopened} \subseteq BOOLEAN
           /\ PlaceInv /\ ReceiptInv /\ FileInv /\ BufferInv /\ UpgradeInv
           /\ StatusComesBack
Given == /\ Bodies \subseteq [len : Nat, chunked : BOOLEAN, names : BOOLEAN]
         /\ MaxNamed \in Nat /\ MaxNamed >= 3

LEMMA GivenOK == Given
  BY BodiesAssumption, MaxNamedAssumption DEF Given

----------------------------------------------------------------------------
(***************************************************************************)
(* The steps of the handler, and the others.                               *)
(***************************************************************************)
\* Null is none of the things it stands for the lack of.
LEMMA NotNull ==
  ASSUME Given
  PROVE  /\ \A b \in Bodies : /\ b # Null /\ b.len \in Nat
                              /\ b.chunked \in BOOLEAN /\ b.names \in BOOLEAN
         /\ \A n \in Nat, x \in Texts : [size |-> n, text |-> x] # Null
         /\ \A o \in Buffers : o # Null
         /\ \A o \in Orders : o # Null
         /\ \A n, l : [of |-> n, live |-> l] # Null
  <1>1. \A b \in Bodies : b # Null
    BY DEF Given, Null
  <1>2. \A b \in Bodies : b.len \in Nat /\ b.chunked \in BOOLEAN /\ b.names \in BOOLEAN
    BY DEF Given
  <1>3. \A o \in Buffers : o # Null
    BY DEF Buffers, Null
  <1>4. \A o \in Orders : o # Null
    BY DEF Orders, Null
  <1>5. \A n, l : [of |-> n, live |-> l] # Null
    BY DEF Null
  <1>6. \A n \in Nat, x \in Texts : [size |-> n, text |-> x] # Null
    BY <1>3 DEF Buffers
  <1> QED
    BY <1>1, <1>2, <1>3, <1>4, <1>5, <1>6

LEMMA GoesTo ==
  ASSUME Types, NEW t \in Tasks, NEW w \in Places, Goes(t, w)
  PROVE  pc' \in [Tasks -> Places] /\ pc'[t] = w /\ \A s \in Tasks \ {t} : pc'[s] = pc[s]
  BY DEF Types, Goes

\* A step of the handler in task t, and where it takes the task.
Handles(t, from, to) == /\ pc[t] = from /\ pc'[t] = to
                        /\ \A s \in Tasks \ {t} : pc'[s] = pc[s]
                        /\ UNCHANGED <<loopVars, body>>

LEMMA HandlerMoves ==
  ASSUME Types, NEW t \in Tasks
  PROVE  /\ pc' \in [Tasks -> Places] \/ ~Handler(t)
         /\ OnData(t) => Handles(t, "body", "body")
         /\ OnFinish(t) => Handles(t, "body", IF output_buffer = Null THEN "after" ELSE "finish")
         /\ Responds(t) => Handles(t, "finish", "free") \/ Handles(t, "finish", "clear")
         /\ ClearsStatus(t) => Handles(t, "clear", "start")
         /\ StartsUpgrade(t) => Handles(t, "start", "free")
         /\ OnDisconnected(t) => \E w \in {"body", "after", "closing"} : Handles(t, w, "drop")
         /\ Frees(t) => Handles(t, "free", "after") \/ Handles(t, "drop", "over")
  <1> USE DEF Handles
  <1>1. OnData(t) => Handles(t, "body", "body") /\ pc' \in [Tasks -> Places]
    BY DEF OnData, Types
  <1>2. OnFinish(t) => /\ Handles(t, "body", IF output_buffer = Null THEN "after" ELSE "finish")
                       /\ pc' \in [Tasks -> Places]
    BY GoesTo DEF OnFinish, Places, receiptVars
  <1>3. Responds(t) => /\ Handles(t, "finish", "free") \/ Handles(t, "finish", "clear")
                       /\ pc' \in [Tasks -> Places]
    BY GoesTo DEF Responds, Places, receiptVars
  <1>4. ClearsStatus(t) => Handles(t, "clear", "start") /\ pc' \in [Tasks -> Places]
    BY GoesTo DEF ClearsStatus, Places, receiptVars
  <1>5. StartsUpgrade(t) => Handles(t, "start", "free") /\ pc' \in [Tasks -> Places]
    BY GoesTo DEF StartsUpgrade, Places, receiptVars
  <1>6. OnDisconnected(t) => /\ \E w \in {"body", "after", "closing"} : Handles(t, w, "drop")
                             /\ pc' \in [Tasks -> Places]
    BY GoesTo DEF OnDisconnected, Places, receiptVars
  <1>7. Frees(t) => /\ Handles(t, "free", "after") \/ Handles(t, "drop", "over")
                    /\ pc' \in [Tasks -> Places]
    BY GoesTo DEF Frees, Places, receiptVars
  <1> HIDE DEF Handles
  <1> QED
    BY <1>1, <1>2, <1>3, <1>4, <1>5, <1>6, <1>7 DEF Handler

\* The library takes a request, or returns.
LEMMA BeginsReturns ==
  ASSUME Types, NEW t \in Tasks
  PROVE  /\ Begins(t) => /\ pc[t] = "off" /\ pc'[t] = "body" /\ body'[t] \in Bodies
                         /\ \A s \in Tasks \ {t} : pc'[s] = pc[s] /\ body'[s] = body[s]
                         /\ pc' \in [Tasks -> Places] /\ body' \in [Tasks -> Bodies \cup {Null}]
         /\ Returns(t) => /\ pc[t] \in {"after", "over"} /\ pc'[t] = "off" /\ body'[t] = Null
                          /\ got'[t] = 0 /\ missed'[t] = 0 /\ told'[t] = Null
                          /\ \A s \in Tasks \ {t} : /\ pc'[s] = pc[s] /\ body'[s] = body[s]
                                                    /\ got'[s] = got[s] /\ told'[s] = told[s]
                                                    /\ missed'[s] = missed[s]
                          /\ pc' \in [Tasks -> Places] /\ body' \in [Tasks -> Bodies \cup {Null}]
                          /\ got' \in [Tasks -> Nat] /\ missed' \in [Tasks -> Nat]
                          /\ told' \in [Tasks -> Texts]
  <1>1. Null \in Texts
    BY EmptySeq DEF Null, Texts
  <1>2. Begins(t) => /\ pc[t] = "off" /\ pc'[t] = "body" /\ body'[t] \in Bodies
                     /\ \A s \in Tasks \ {t} : pc'[s] = pc[s] /\ body'[s] = body[s]
                     /\ pc' \in [Tasks -> Places] /\ body' \in [Tasks -> Bodies \cup {Null}]
    BY GoesTo DEF Begins, Places, Types
  <1>3. Returns(t) => /\ pc[t] \in {"after", "over"} /\ pc'[t] = "off"
                      /\ pc' \in [Tasks -> Places] /\ \A s \in Tasks \ {t} : pc'[s] = pc[s]
    BY GoesTo DEF Returns, Places
  <1> HIDE DEF Texts
  <1>4. Returns(t) => /\ body'[t] = Null
                      /\ got'[t] = 0 /\ missed'[t] = 0 /\ told'[t] = Null
                      /\ \A s \in Tasks \ {t} : /\ body'[s] = body[s]
                                                /\ got'[s] = got[s] /\ told'[s] = told[s]
                                                /\ missed'[s] = missed[s]
                      /\ body' \in [Tasks -> Bodies \cup {Null}]
                      /\ got' \in [Tasks -> Nat] /\ missed' \in [Tasks -> Nat]
                      /\ told' \in [Tasks -> Texts]
    BY <1>1 DEF Returns, Types
  <1> QED
    BY <1>2, <1>3, <1>4

LEMMA StepCases ==
  ASSUME Step
  PROVE  \/ \E t \in Tasks : Handler(t)
         \/ OrderPerforms \/ SendPerforms \/ Connected \/ Sent
         \/ Connect \/ Close \/ Closed \/ SendWaits \/ SendReceives
         \/ \E u \in Slots : UpgradeReads(u) \/ UpgradeFails(u)
  BY Zenon DEF Step, SendTask, OrderTask, UpgradeTask, Tasks
----------------------------------------------------------------------------
(***************************************************************************)
(* The types.                                                              *)
(***************************************************************************)
\* What is copied of a part is a text; of a negative length it is empty.
LEMMA PartText ==
  ASSUME NEW t \in Tasks, got \in [Tasks -> Nat], NEW n \in Int
  PROVE  Part(t, n) \in Texts /\ Len(Part(t, n)) = IF n > 0 THEN n ELSE 0
  <1>1. CASE n > 0
    <2>1. n \in Nat /\ Part(t, n) \in [1..n -> Tasks \X Nat]
      BY <1>1 DEF Part
    <2>2. Part(t, n) \in Texts
      BY <2>1, SeqDef DEF Texts
    <2>3. DOMAIN Part(t, n) = 1..n
      BY DEF Part
    <2> QED
      BY <1>1, <2>1, <2>2, <2>3, LenProperties DEF Texts
  <1>2. CASE ~(n > 0)
    <2>1. Part(t, n) = << >>
      BY <1>2 DEF Part
    <2> QED
      BY <1>2, <2>1, EmptySeq DEF Texts
  <1> QED
    BY <1>1, <1>2

LEMMA FilledBuffer ==
  ASSUME got \in [Tasks -> Nat], NEW t \in Tasks, NEW o \in Buffers, NEW n \in Int,
         body[t].len \in Nat
  PROVE  /\ Filled(o, t, n) \in Buffers /\ Filled(o, t, n).size = o.size
         /\ Filled(o, t, n).text = o.text \o Part(t, CopyLen(n, body[t].len, Len(o.text)))
         /\ CopyLen(n, body[t].len, Len(o.text)) \in Int
  <1> DEFINE c == CopyLen(n, body[t].len, Len(o.text))
             x == o.text \o Part(t, c)
  <1>1. o.text \in Texts /\ o.size \in Nat /\ o = [size |-> o.size, text |-> o.text]
    BY DEF Buffers
  <1>2. Len(o.text) \in Nat
    BY <1>1, LenProperties DEF Texts
  <1>3. c \in Int
    BY <1>2 DEF CopyLen
  <1>4. Part(t, c) \in Texts
    BY <1>3, PartText
  <1>5. x \in Texts
    BY <1>1, <1>4, ConcatProperties DEF Texts
  <1>6. Filled(o, t, n) = [o EXCEPT !.text = x]
    BY DEF Filled
  <1>7. Filled(o, t, n) = [size |-> o.size, text |-> x]
    BY <1>1, <1>6
  <1> HIDE DEF x, c
  <1>8. Filled(o, t, n) \in Buffers /\ Filled(o, t, n).size = o.size /\ Filled(o, t, n).text = x
    BY <1>1, <1>5, <1>7 DEF Buffers
  <1> QED
    BY <1>3, <1>8 DEF x, c

\* A part of a response comes, and is left aside, dropped or put in the buffer.
NewBuffer(t) == IF output_buffer # Null THEN output_buffer
                ELSE [size |-> body[t].len, text |-> << >>]

LEMMA OnDataCases ==
  ASSUME Given, Types, NEW t \in Tasks, OnData(t)
  PROVE  \E n \in 1..(body[t].len - got[t]) :
            /\ got' = [got EXCEPT ![t] = @ + n]
            /\ \/ body[t].chunked /\ UNCHANGED <<output_buffer, missed, damaged>>
               \/ ~body[t].chunked /\ user_data /\ damaged' = TRUE
                  /\ UNCHANGED <<output_buffer, missed>>
               \/ ~body[t].chunked /\ output_buffer = Null
                  /\ missed' = [missed EXCEPT ![t] = @ + n] /\ UNCHANGED <<output_buffer, damaged>>
               \/ /\ ~body[t].chunked /\ output_buffer' = Filled(NewBuffer(t), t, n)
                  /\ damaged' = (damaged \/ Len(output_buffer'.text) > output_buffer'.size
                                   \/ (output_buffer # Null /\ body[t].len < Len(output_buffer.text)))
                  /\ UNCHANGED missed
  BY Zenon DEF OnData, NewBuffer

LEMMA OnDataTypes ==
  ASSUME Given, Types, ReceiptInv, NEW t \in Tasks, OnData(t)
  PROVE  /\ body[t] \in Bodies /\ body[t].len \in Nat /\ NewBuffer(t) \in Buffers
         /\ got' \in [Tasks -> Nat] /\ missed' \in [Tasks -> Nat]
         /\ output_buffer' \in Buffers \cup {Null} /\ damaged' \in BOOLEAN
  <1>1. body[t] \in Bodies /\ body[t].len \in Nat
    BY NotNull DEF Types, OnData, ReceiptInv, Received
  <1>2. NewBuffer(t) \in Buffers
    <2>1. << >> \in Texts
      BY EmptySeq DEF Texts
    <2> QED
      BY <1>1, <2>1 DEF NewBuffer, Buffers, Types
  <1>3. PICK n \in 1..(body[t].len - got[t]) :
            /\ got' = [got EXCEPT ![t] = @ + n]
            /\ \/ UNCHANGED missed
               \/ missed' = [missed EXCEPT ![t] = @ + n]
            /\ \/ UNCHANGED output_buffer
               \/ output_buffer' = Filled(NewBuffer(t), t, n)
            /\ \/ UNCHANGED damaged
               \/ damaged' = TRUE
               \/ damaged' = (damaged \/ Len(output_buffer'.text) > output_buffer'.size
                                   \/ (output_buffer # Null /\ body[t].len < Len(output_buffer.text)))
    BY OnDataCases, Zenon
  <1>4. n \in Nat /\ n \in Int
    BY <1>3
  <1>5. got' \in [Tasks -> Nat] /\ missed' \in [Tasks -> Nat]
    <2>1. \A f \in [Tasks -> Nat] : [f EXCEPT ![t] = @ + n] \in [Tasks -> Nat]
      BY <1>4
    <2>2. got \in [Tasks -> Nat] /\ missed \in [Tasks -> Nat]
      BY DEF Types
    <2> QED
      BY <1>3, <2>1, <2>2
  <1>6. output_buffer' \in Buffers \cup {Null}
    <2>1. got \in [Tasks -> Nat] /\ output_buffer \in Buffers \cup {Null}
      BY DEF Types
    <2>2. Filled(NewBuffer(t), t, n) \in Buffers
      BY <1>1, <1>2, <1>4, <2>1, FilledBuffer
    <2> QED
      BY <1>3, <2>1, <2>2
  <1>7. damaged' \in BOOLEAN
    BY <1>3, Zenon DEF Types
  <1> QED
    BY <1>1, <1>2, <1>5, <1>6, <1>7

LEMMA HandlerTypes ==
  ASSUME Given, Types, ReceiptInv, NEW t \in Tasks, Handler(t)
  PROVE  Types'
  <1>1. pc' \in [Tasks -> Places]
    BY HandlerMoves
  <1>2. CASE OnData(t)
    <2>1. UNCHANGED <<status, loopVars, body, told, named, upgrades>>
      BY <1>2 DEF OnData, otaVars
    <2> QED
      BY <1>1, <1>2, <2>1, OnDataTypes DEF Types, loopVars
  <1>3. CASE OnFinish(t)
    BY <1>1, <1>3 DEF OnFinish, Types, loopVars, receiptVars, otaVars
  <1>4. CASE Responds(t)
    <2>1. told' \in [Tasks -> Texts]
      <3>1. output_buffer # Null => output_buffer.text \in Texts
        BY DEF Types, Buffers
      <3> HIDE DEF Texts
      <3>2. told' = told \/ told' = [told EXCEPT ![t] = IF output_buffer = Null THEN @ ELSE output_buffer.text]
        BY <1>4 DEF Responds
      <3> QED
        BY <3>1, <3>2 DEF Types
    <2>2. named' \in 0..MaxNamed /\ damaged' \in BOOLEAN
      <3>1. named' = named \/ named' = Counted(named)
        BY <1>4 DEF Responds
      <3>2. damaged' \in BOOLEAN
        BY <1>4, Zenon DEF Responds, Types
      <3> QED
        BY <3>1, <3>2 DEF Counted, Types, Given
    <2>3. UNCHANGED <<status, loopVars, receiptVars, output_buffer, upgrades>>
      BY <1>4 DEF Responds
    <2> QED
      BY <1>1, <2>1, <2>2, <2>3 DEF Types, loopVars, receiptVars
  <1>5. CASE ClearsStatus(t)
    BY <1>1, <1>5 DEF ClearsStatus, StatusOrdered, Types, loopVars, receiptVars, otaVars
  <1>6. CASE StartsUpgrade(t)
    <2>1. upgrades' \in [Slots -> Orders \cup {Null}]
      <3>1. [of |-> named, reads |-> FALSE] \in Orders
        BY DEF Orders, Types
      <3> QED
        BY <1>6, <3>1 DEF StartsUpgrade, Types
    <2> QED
      BY <1>1, <1>6, <2>1 DEF StartsUpgrade, Types, loopVars, receiptVars
  <1>7. CASE OnDisconnected(t)
    BY <1>1, <1>7 DEF OnDisconnected, Types, loopVars, receiptVars, otaVars
  <1>8. CASE Frees(t)
    BY <1>1, <1>8 DEF Frees, Freed, Types, loopVars, receiptVars, otaVars
  <1> QED
    BY <1>2, <1>3, <1>4, <1>5, <1>6, <1>7, <1>8 DEF Handler

LEMMA StepTypes == Given /\ Types /\ ReceiptInv /\ Step => Types'
  <1> SUFFICES ASSUME Given, Types, ReceiptInv, Step PROVE Types'
    OBVIOUS
  <1> USE DEF Types, loopVars, receiptVars, otaVars
  <1>0. "order" \in Tasks /\ "send" \in Tasks
    BY DEF Tasks
  <1>1. ASSUME NEW t \in Tasks, Handler(t) PROVE Types'
    BY <1>1, HandlerTypes
  <1>2. CASE OrderPerforms \/ SendPerforms
    <2>1. PICK t \in Tasks : Begins(t)
      BY <1>0, <1>2 DEF OrderPerforms, SendPerforms
    <2>2. /\ UNCHANGED <<status, loopVars, got, missed, told, output_buffer, otaVars, damaged>>
          /\ pc' \in [Tasks -> Places] /\ body' \in [Tasks -> Bodies \cup {Null}]
      BY <2>1, BeginsReturns DEF Begins
    <2> QED
      BY <2>2
  <1>3. CASE Connected
    <2>1. /\ pc' \in [Tasks -> Places] /\ body' \in [Tasks -> Bodies \cup {Null}]
          /\ got' \in [Tasks -> Nat] /\ missed' \in [Tasks -> Nat] /\ told' \in [Tasks -> Texts]
      BY <1>0, <1>3, BeginsReturns DEF Connected
    <2>2. /\ status' \in {TRUE, status} /\ opc' \in {"receive", opc}
          /\ UNCHANGED <<client, user_data, spc, output_buffer, otaVars, damaged>>
      BY <1>3 DEF Connected
    <2> QED
      BY <2>1, <2>2
  <1>4. CASE Sent
    <2>1. /\ pc' \in [Tasks -> Places] /\ body' \in [Tasks -> Bodies \cup {Null}]
          /\ got' \in [Tasks -> Nat] /\ missed' \in [Tasks -> Nat] /\ told' \in [Tasks -> Texts]
      BY <1>0, <1>4, BeginsReturns DEF Sent
    <2> QED
      BY <1>4, <2>1 DEF Sent
  <1>5. CASE Connect \/ SendWaits \/ SendReceives
    BY <1>5 DEF Connect, SendWaits, SendReceives
  <1>6. CASE Close \/ Closed
    <2>1. pc' \in [Tasks -> Places]
      BY <1>0, <1>6, GoesTo DEF Close, Closed, Places
    <2> QED
      BY <1>6, <2>1 DEF Close, Closed
  <1>7. ASSUME NEW u \in Slots, UpgradeReads(u) PROVE Types'
    <2>1. upgrades' \in [Slots -> Orders \cup {Null}]
      <3>1. [upgrades[u] EXCEPT !.reads = TRUE] \in Orders
        BY <1>7 DEF UpgradeReads, Orders
      <3> QED
        BY <1>7, <3>1 DEF UpgradeReads
    <2> QED
      BY <1>7, <2>1 DEF UpgradeReads
  <1>8. ASSUME NEW u \in Slots, UpgradeFails(u) PROVE Types'
    BY <1>8 DEF UpgradeFails, StatusAfter
  <1> QED
    BY <1>1, <1>2, <1>3, <1>4, <1>5, <1>6, <1>7, <1>8, StepCases

\* A restart leads back to the initial state.
LEMMA RestartInit == Restart /\ Forgets => MCInit'
  BY DEF Restart, Forgets, MCInit, RespInit

LEMMA InitTypes == Given /\ RespInit => Types
  <1> SUFFICES ASSUME Given, RespInit PROVE Types
    OBVIOUS
  <1>1. told \in [Tasks -> Texts]
    <2>1. Null \in Texts
      BY EmptySeq DEF Texts, Null
    <2> HIDE DEF Texts
    <2> QED
      BY <2>1 DEF RespInit
  <1>2. pc \in [Tasks -> Places]
    BY DEF RespInit, Places
  <1>3. body \in [Tasks -> Bodies \cup {Null}] /\ upgrades \in [Slots -> Orders \cup {Null}]
    BY DEF RespInit
  <1>4. got \in [Tasks -> Nat] /\ missed \in [Tasks -> Nat] /\ named \in 0..MaxNamed
    BY DEF RespInit, Given
  <1> QED
    BY <1>1, <1>2, <1>3, <1>4 DEF RespInit, Types
----------------------------------------------------------------------------
(***************************************************************************)
(* Where the tasks are, and what they receive.                             *)
(***************************************************************************)
LEMMA BothTasks == "order" \in Tasks /\ "send" \in Tasks /\ \A t \in Tasks : t \in {"order", "send"}
  BY DEF Tasks

LEMMA HandlerEdges ==
  ASSUME Types, NEW t \in Tasks, Handler(t)
  PROVE  /\ Handles(t, pc[t], pc'[t])
         /\ \/ pc[t] = "body" /\ pc'[t] \in {"body", "finish", "after", "drop"}
            \/ pc[t] = "finish" /\ pc'[t] \in {"free", "clear"}
            \/ pc[t] = "clear" /\ pc'[t] = "start"
            \/ pc[t] = "start" /\ pc'[t] = "free"
            \/ pc[t] = "free" /\ pc'[t] = "after"
            \/ pc[t] \in {"after", "closing"} /\ pc'[t] = "drop"
            \/ pc[t] = "drop" /\ pc'[t] = "over"
  BY HandlerMoves DEF Handler, Handles

LEMMA NextPlace == Types /\ ReceiptInv /\ PlaceInv /\ Step => PlaceInv'
  <1> SUFFICES ASSUME Types, ReceiptInv, PlaceInv, Step PROVE PlaceInv'
    OBVIOUS
  <1> USE BothTasks
  <1>1. ASSUME NEW t \in Tasks, Handler(t) PROVE PlaceInv'
    <2>1. t \in {"order", "send"}
      BY DEF Tasks
    <2>2. UNCHANGED <<opc, spc, body>>
      BY <1>1, HandlerEdges, Zenon DEF Handles, loopVars
    <2>3. pc'["order"] = pc["order"] \/ t = "order"
      BY <1>1, HandlerEdges DEF Handles
    <2>4. pc'["send"] = pc["send"] \/ t = "send"
      BY <1>1, HandlerEdges DEF Handles
    <2> QED
      BY <1>1, <2>1, <2>2, <2>3, <2>4, HandlerEdges DEF PlaceInv
  <1>2. CASE OrderPerforms
    <2>1. Begins("order") /\ UNCHANGED <<opc, spc>> /\ opc = "connect"
      BY <1>2 DEF OrderPerforms, Begins, loopVars
    <2> QED
      BY <2>1, BeginsReturns DEF PlaceInv
  <1>3. CASE SendPerforms
    <2>1. Begins("send") /\ UNCHANGED <<opc, spc>> /\ spc = "perform"
      BY <1>3 DEF SendPerforms, Begins, loopVars
    <2> QED
      BY <2>1, BeginsReturns DEF PlaceInv
  <1>4. CASE Connected
    <2>1. Returns("order") /\ opc' \in {"receive", "connect"} /\ UNCHANGED spc
      BY <1>4 DEF Connected
    <2> QED
      BY <2>1, BeginsReturns DEF PlaceInv
  <1>5. CASE Sent
    <2>1. Returns("send") /\ spc' = "wait" /\ UNCHANGED opc
      BY <1>5 DEF Sent
    <2> QED
      BY <2>1, BeginsReturns DEF PlaceInv
  <1>6. CASE Connect \/ SendWaits \/ SendReceives
    BY <1>6 DEF Connect, SendWaits, SendReceives, PlaceInv, receiptVars
  <1>7. CASE Close
    <2>1. /\ pc'["order"] = "closing" /\ pc'["send"] = pc["send"]
          /\ opc = "receive" /\ opc' = "close" /\ UNCHANGED <<spc, body>>
      BY <1>7, GoesTo DEF Close, Places, receiptVars
    <2>2. body["order"] = Null
      BY <2>1 DEF PlaceInv, ReceiptInv
    <2> QED
      BY <2>1, <2>2 DEF PlaceInv
  <1>8. CASE Closed
    <2>1. /\ pc'["order"] = "off" /\ pc'["send"] = pc["send"]
          /\ opc' = "receive" /\ UNCHANGED <<spc, body>>
      BY <1>8, GoesTo DEF Closed, Places, receiptVars
    <2> QED
      BY <2>1 DEF PlaceInv
  <1>9. ASSUME NEW u \in Slots, UpgradeReads(u) \/ UpgradeFails(u) PROVE PlaceInv'
    BY <1>9 DEF UpgradeReads, UpgradeFails, PlaceInv, loopVars, receiptVars
  <1> QED
    BY <1>1, <1>2, <1>3, <1>4, <1>5, <1>6, <1>7, <1>8, <1>9, StepCases

\* What the actions of task t leave of the receipts of the other.
LEMMA HandlerReceipt ==
  ASSUME Given, Types, ReceiptInv, NEW t \in Tasks, Handler(t)
  PROVE  ReceiptInv'
  <1>1. Handles(t, pc[t], pc'[t])
    BY HandlerEdges
  <1>2. body' = body /\ \A s \in Tasks \ {t} : pc'[s] = pc[s]
    BY <1>1 DEF Handles
  <1>3. CASE OnData(t)
    <2>1. /\ body[t] \in Bodies /\ body[t].len \in Nat /\ body[t] # Null
          /\ pc' = pc /\ told' = told
      BY <1>3, OnDataTypes, NotNull DEF OnData
    <2>2. PICK n \in 1..(body[t].len - got[t]) :
            /\ got' = [got EXCEPT ![t] = @ + n]
            /\ missed' = missed \/ missed' = [missed EXCEPT ![t] = @ + n]
      BY <1>3, OnDataCases, Zenon
    <2>3. n \in Nat /\ got[t] \in Nat /\ missed[t] \in Nat /\ got[t] + n <= body[t].len
      BY <2>1, <2>2 DEF Types
    <2>4. got'[t] = got[t] + n /\ missed'[t] \in {missed[t], missed[t] + n}
      BY <2>2 DEF Types
    <2>5. \A s \in Tasks \ {t} : got'[s] = got[s] /\ missed'[s] = missed[s]
      BY <2>2 DEF Types
    <2>6. got'[t] <= body[t].len /\ missed'[t] <= got'[t]
      BY <2>3, <2>4 DEF ReceiptInv
    <2> QED
      BY <1>2, <2>1, <2>5, <2>6 DEF ReceiptInv
  <1>4. CASE Responds(t)
    <2>1. /\ got' = got /\ missed' = missed /\ \A s \in Tasks \ {t} : told'[s] = told[s]
      BY <1>4 DEF Responds, receiptVars, Types
    <2>2. pc[t] = "finish" /\ body[t] # Null
      BY <1>4 DEF Responds, ReceiptInv, Received
    <2>3. pc'[t] = "free" \/ (pc'[t] = "clear" /\ told' = told)
      BY <1>4, GoesTo DEF Responds, Places
    <2> QED
      BY <1>2, <2>1, <2>2, <2>3 DEF ReceiptInv
  <1>5. CASE ~OnData(t) /\ ~Responds(t)
    <2>1. got' = got /\ missed' = missed /\ told' = told
      BY <1>5 DEF Handler, OnFinish, ClearsStatus, StartsUpgrade, OnDisconnected, Frees, receiptVars
    <2>2. \/ pc'[t] \in Received /\ pc[t] \in Received
          \/ pc'[t] \in {"drop", "over"}
      BY HandlerEdges DEF Received
    <2>3. pc'[t] \in {"finish", "clear", "start"} => pc[t] \in {"body", "finish", "clear"}
      BY <1>5, HandlerEdges
    <2>4. pc'[t] # "off" /\ pc'[t] # "body"
      BY <1>5, HandlerMoves DEF Handler, Handles
    <2>5. pc'[t] \in {"off", "body", "finish", "clear", "start"} => told[t] = Null
      BY <2>3, <2>4 DEF ReceiptInv
    <2>6. pc'[t] \in Received => body[t] # Null
      BY <2>2 DEF ReceiptInv, Received
    <2> QED
      BY <1>2, <2>1, <2>4, <2>5, <2>6 DEF ReceiptInv
  <1> QED
    BY <1>3, <1>4, <1>5

LEMMA NextReceipt == Given /\ Types /\ PlaceInv /\ ReceiptInv /\ Step => ReceiptInv'
  <1> SUFFICES ASSUME Given, Types, PlaceInv, ReceiptInv, Step PROVE ReceiptInv'
    OBVIOUS
  <1> USE BothTasks
  <1>1. ASSUME NEW t \in Tasks, Handler(t) PROVE ReceiptInv'
    BY <1>1, HandlerReceipt
  <1>2. ASSUME NEW t \in Tasks, Begins(t) PROVE ReceiptInv'
    <2>1. UNCHANGED <<got, missed, told>> /\ body'[t] # Null /\ body'[t].len \in Nat
      BY <1>2, BeginsReturns, NotNull DEF Begins
    <2>2. got[t] = 0 /\ missed[t] <= 0 /\ told[t] = Null
      BY <1>2 DEF Begins, ReceiptInv
    <2> QED
      BY <1>2, <2>1, <2>2, BeginsReturns DEF ReceiptInv, Received
  <1>3. ASSUME NEW t \in Tasks, Returns(t) PROVE ReceiptInv'
    BY <1>3, BeginsReturns DEF ReceiptInv, Received
  <1>4. CASE Connect \/ SendWaits \/ SendReceives \/ \E u \in Slots : UpgradeReads(u) \/ UpgradeFails(u)
    <2>1. UNCHANGED <<pc, body, got, missed, told>>
      BY <1>4, Zenon DEF Connect, SendWaits, SendReceives, UpgradeReads, UpgradeFails, receiptVars
    <2> QED
      BY <2>1 DEF ReceiptInv
  <1>5. CASE Close \/ Closed
    <2>1. /\ UNCHANGED <<body, got, missed, told>> /\ body["order"] = Null
          /\ pc'["order"] \in {"closing", "off"} /\ \A s \in Tasks \ {"order"} : pc'[s] = pc[s]
      BY <1>5, GoesTo DEF Close, Closed, receiptVars, PlaceInv, ReceiptInv, Places
    <2> QED
      BY <2>1 DEF ReceiptInv, Received
  <1> QED
    BY <1>1, <1>2, <1>3, <1>4, <1>5, StepCases DEF OrderPerforms, SendPerforms, Connected, Sent

----------------------------------------------------------------------------
(***************************************************************************)
(* The firmware file, and the bit.                                         *)
(***************************************************************************)
LEMMA NextFile == Given /\ Types /\ FileInv /\ Step => FileInv'
  <1> SUFFICES ASSUME Given, Types, FileInv, Step PROVE FileInv'
    OBVIOUS
  <1> USE BothTasks
  <1>0. named \in Nat
    BY DEF Types, Given
  <1>1. ASSUME NEW t \in Tasks, Responds(t) PROVE FileInv'
    <2>1. CASE pc'[t] = "free" /\ UNCHANGED <<file, named>>
      <3>1. UNCHANGED upgrades /\ \A s \in Tasks \ {t} : pc'[s] = pc[s]
        BY <1>1, HandlerMoves DEF Responds, Handles
      <3> QED
        BY <2>1, <3>1 DEF FileInv
    <2>2. CASE named' = Counted(named) /\ file' = FileAfter(file, named')
      <3>1. named' > 0 /\ named' >= named /\ (named' = 1 <=> named = 0) /\ named' \in Nat
        BY <1>0, <2>2 DEF Counted, Given
      <3>2. file' = [of |-> 1, live |-> named' = 1]
        <4>1. CASE named = 0
          <5>1. file = Null /\ named' = 1
            BY <3>1, <4>1 DEF FileInv
          <5> QED
            BY <2>2, <5>1 DEF FileAfter
        <4>2. CASE named # 0
          <5>1. file = [of |-> 1, live |-> named = 1] /\ ~(named' = 1)
            BY <3>1, <4>2 DEF FileInv
          <5>2. file # Null
            BY <5>1, NotNull
          <5>3. file' = [file EXCEPT !.live = FALSE]
            BY <2>2, <5>2 DEF FileAfter
          <5>4. file' = [of |-> 1, live |-> FALSE]
            BY <5>1, <5>3
          <5> QED
            BY <5>1, <5>4
        <4> QED
          BY <4>1, <4>2
      <3>3. \A u \in Slots : upgrades'[u] # Null => upgrades'[u].of \in 1..named'
        <4>1. upgrades' = upgrades
          BY <1>1 DEF Responds
        <4>2. 1..named \subseteq 1..named'
          BY <1>0, <3>1
        <4> QED
          BY <4>1, <4>2 DEF FileInv
      <3> QED
        BY <3>1, <3>2, <3>3 DEF FileInv
    <2>3. (pc'[t] = "free" /\ UNCHANGED <<file, named>>)
          \/ (named' = Counted(named) /\ file' = FileAfter(file, named'))
      BY <1>1, GoesTo DEF Responds, Places
    <2> QED
      BY <2>1, <2>2, <2>3
  <1>2. ASSUME NEW t \in Tasks, StartsUpgrade(t) PROVE FileInv'
    <2>1. /\ pc[t] = "start" /\ pc'[t] = "free" /\ \A s \in Tasks \ {t} : pc'[s] = pc[s]
          /\ UNCHANGED <<file, named>>
      BY <1>2, HandlerMoves DEF StartsUpgrade, Handles
    <2>2. named \in 1..named
      BY <1>0, <2>1 DEF FileInv
    <2>3. \A u \in Slots : upgrades'[u] = upgrades[u] \/ upgrades'[u] = [of |-> named, reads |-> FALSE]
      BY <1>2 DEF StartsUpgrade, Types
    <2> QED
      BY <2>1, <2>2, <2>3 DEF FileInv
  <1>3. ASSUME NEW u \in Slots, UpgradeReads(u) \/ UpgradeFails(u) PROVE FileInv'
    <2>1. UNCHANGED <<pc, file, named>>
      BY <1>3, Zenon DEF UpgradeReads, UpgradeFails
    <2>2. \A v \in Slots : \/ upgrades'[v] = upgrades[v] \/ upgrades'[v] = Null
                           \/ upgrades[v] # Null /\ upgrades'[v].of = upgrades[v].of
      <3>1. upgrades[u] # Null /\ \A v \in Slots \ {u} : upgrades'[v] = upgrades[v]
        BY <1>3 DEF UpgradeReads, UpgradeFails, Types
      <3>2. UpgradeFails(u) => upgrades'[u] = Null
        BY DEF UpgradeFails, Types
      <3>3. UpgradeReads(u) => upgrades'[u].of = upgrades[u].of
        <4>1. upgrades[u] \in Orders
          BY <3>1 DEF Types
        <4> QED
          BY <4>1 DEF UpgradeReads, Types, Orders
      <3> QED
        BY <1>3, <3>1, <3>2, <3>3
    <2> QED
      BY <2>1, <2>2 DEF FileInv
  <1>4. CASE /\ UNCHANGED <<file, named, upgrades>>
             /\ \A t \in Tasks : pc'[t] \in {"clear", "start"} => pc[t] \in {"clear", "start"}
    BY <1>4 DEF FileInv
  <1>5. ASSUME NEW t \in Tasks, Handler(t), ~Responds(t), ~StartsUpgrade(t)
        PROVE  /\ UNCHANGED <<file, named, upgrades>>
               /\ \A s \in Tasks : pc'[s] \in {"clear", "start"} => pc[s] \in {"clear", "start"}
    <2>1. UNCHANGED <<file, named, upgrades>>
      BY <1>5 DEF Handler, OnData, OnFinish, ClearsStatus, OnDisconnected, Frees, otaVars
    <2>2. pc'[t] \in {"clear", "start"} => pc[t] \in {"clear", "start"}
      BY <1>5, HandlerMoves DEF Handler, Handles
    <2> QED
      BY <1>5, <2>1, <2>2, HandlerEdges DEF Handles
  <1>6. ASSUME NEW t \in Tasks, Begins(t) \/ Returns(t)
        PROVE  \A s \in Tasks : pc'[s] \in {"clear", "start"} => pc[s] \in {"clear", "start"}
    BY <1>6, BeginsReturns
  <1>7. CASE OrderPerforms \/ SendPerforms \/ Connected \/ Sent
    <2>1. UNCHANGED <<file, named, upgrades>>
      BY <1>7, Zenon DEF OrderPerforms, SendPerforms, Connected, Sent, Begins, otaVars
    <2> QED
      BY <1>4, <1>6, <1>7, <2>1 DEF OrderPerforms, SendPerforms, Connected, Sent
  <1>8. CASE Connect \/ SendWaits \/ SendReceives \/ Close \/ Closed
    <2>1. UNCHANGED <<file, named, upgrades>>
      BY <1>8, Zenon DEF Connect, SendWaits, SendReceives, Close, Closed, otaVars
    <2>2. \A t \in Tasks : pc'[t] \in {"clear", "start"} => pc[t] \in {"clear", "start"}
      BY <1>8, GoesTo DEF Connect, SendWaits, SendReceives, Close, Closed, Places
    <2> QED
      BY <1>4, <2>1, <2>2
  <1> QED
    BY <1>1, <1>2, <1>3, <1>4, <1>5, <1>7, <1>8, StepCases
\* What a step does to the bit, the upgrades and the tasks that are about to start one.
LEMMA StatusSteps ==
  ASSUME Types, PlaceInv, Step
  PROVE  \/ \E t \in Tasks : ClearsStatus(t) \/ OnDisconnected(t)
         \/ \E t \in Tasks : StartsUpgrade(t)
         \/ \E u \in Slots : UpgradeFails(u)
         \/ /\ (status => status')
            /\ \A u \in Slots : upgrades'[u] = Null <=> upgrades[u] = Null
            /\ \A t \in Tasks : pc'[t] = "start" <=> pc[t] = "start"
  <1> USE BothTasks
  <1> DEFINE Rest == /\ (status => status')
                     /\ \A u \in Slots : upgrades'[u] = Null <=> upgrades[u] = Null
                     /\ \A t \in Tasks : pc'[t] = "start" <=> pc[t] = "start"
  <1>1. ASSUME NEW t \in Tasks, OnData(t) \/ OnFinish(t) \/ Responds(t) \/ Frees(t) PROVE Rest
    <2>1. status' = status /\ upgrades' = upgrades
      BY <1>1, Zenon DEF OnData, OnFinish, Responds, Frees, otaVars
    <2>2. /\ pc[t] # "start" /\ pc'[t] # "start" /\ \A s \in Tasks \ {t} : pc'[s] = pc[s]
      BY <1>1, HandlerMoves DEF Handles
    <2> QED
      BY <2>1, <2>2
  <1>2. ASSUME NEW t \in Tasks, Begins(t) \/ Returns(t)
        PROVE  \A s \in Tasks : pc'[s] = "start" <=> pc[s] = "start"
    BY <1>2, BeginsReturns
  <1>3. ASSUME OrderPerforms \/ SendPerforms \/ Connected \/ Sent PROVE Rest
    <2>1. (status' = status \/ status' = TRUE) /\ upgrades' = upgrades
      BY <1>3, Zenon DEF OrderPerforms, SendPerforms, Connected, Sent, Begins, otaVars
    <2> QED
      BY <1>2, <1>3, <2>1 DEF OrderPerforms, SendPerforms, Connected, Sent
  <1>4. ASSUME Connect \/ SendWaits \/ SendReceives PROVE Rest
    BY <1>4 DEF Connect, SendWaits, SendReceives, otaVars
  <1>5. ASSUME Close \/ Closed PROVE Rest
    <2>1. status' = status /\ upgrades' = upgrades
      BY <1>5, Zenon DEF Close, Closed, otaVars
    <2>2. /\ pc["order"] # "start"
          /\ pc'["order"] # "start" /\ \A s \in Tasks \ {"order"} : pc'[s] = pc[s]
      BY <1>5, GoesTo DEF Close, Closed, Places, PlaceInv
    <2> QED
      BY <2>1, <2>2
  <1>6. ASSUME NEW u \in Slots, UpgradeReads(u) PROVE Rest
    <2>1. UNCHANGED <<status, pc>> /\ upgrades[u] \in Orders
      BY <1>6 DEF UpgradeReads, Types
    <2>2. upgrades'[u] \in Orders /\ \A v \in Slots \ {u} : upgrades'[v] = upgrades[v]
      BY <1>6, <2>1 DEF UpgradeReads, Types, Orders
    <2>3. upgrades'[u] # Null /\ upgrades[u] # Null
      BY <1>6, <2>2 DEF UpgradeReads, Orders, Null
    <2> QED
      BY <2>1, <2>2, <2>3
  <1> HIDE DEF Rest
  <1>7. ASSUME NEW t \in Tasks, Handler(t)
        PROVE  ClearsStatus(t) \/ OnDisconnected(t) \/ StartsUpgrade(t) \/ Rest
    BY <1>1, <1>7 DEF Handler
  <1>8. \/ \E t \in Tasks : ClearsStatus(t) \/ OnDisconnected(t) \/ StartsUpgrade(t)
        \/ \E u \in Slots : UpgradeFails(u)
        \/ Rest
    BY <1>3, <1>4, <1>5, <1>6, <1>7, StepCases, Zenon
  <1> QED
    BY <1>8, Zenon DEF Rest

LEMMA NextStatus == Types /\ PlaceInv /\ StatusComesBack /\ Step /\ Remembers => StatusComesBack'
  <1> SUFFICES ASSUME Types, PlaceInv, StatusComesBack, Step, Remembers,
                      ~status', cleared' = "upgrade", \A t \in Tasks : pc'[t] # "start"
               PROVE  Running(upgrades') # {}
    BY DEF StatusComesBack
  <1>1. ~Moves("clear", "start")
    BY DEF Moves
  <1>2. /\ cleared = "upgrade"
        /\ ~(Moves("start", "free") /\ Running(upgrades') = {})
        /\ ~(\E t \in Tasks : pc[t] # "drop" /\ pc'[t] = "drop")
    BY <1>1 DEF Remembers
  <1>3. ASSUME NEW t \in Tasks PROVE ~ClearsStatus(t) /\ ~OnDisconnected(t)
    BY <1>1, <1>2, HandlerMoves DEF Handles
  <1>4. ASSUME NEW u \in Slots PROVE ~UpgradeFails(u)
    BY DEF UpgradeFails, StatusAfter
  <1>5. ASSUME NEW t \in Tasks, StartsUpgrade(t) PROVE Running(upgrades') # {}
    BY <1>2, <1>5, HandlerMoves DEF Handles, Moves
  <1>6. CASE /\ (status => status')
             /\ \A u \in Slots : upgrades'[u] = Null <=> upgrades[u] = Null
             /\ \A t \in Tasks : pc'[t] = "start" <=> pc[t] = "start"
    <2>0. ~status /\ \A t \in Tasks : pc[t] # "start"
      BY <1>6, Zenon
    <2>1. Running(upgrades) # {}
      BY <1>2, <2>0 DEF StatusComesBack
    <2> QED
      BY <1>6, <2>1 DEF Running
  <1> QED
    BY <1>3, <1>4, <1>5, <1>6, StatusSteps

LEMMA NextUpgrade == Types /\ PlaceInv /\ UpgradeInv /\ Step /\ Remembers => UpgradeInv'
  <1> SUFFICES ASSUME Types, PlaceInv, UpgradeInv, Step, Remembers PROVE UpgradeInv'
    OBVIOUS
  <1> USE BothTasks
  <1>1. ASSUME pc'["send"] = "start" PROVE ~status'
    <2>1. pc["send"] # "start"
      <3> SUFFICES ASSUME pc["send"] = "start" PROVE FALSE
        OBVIOUS
      <3>1. SendTask /\ spc = "perform"
        BY DEF Step, Preempts, PlaceInv
      <3>2. Handler("send")
        BY <3>1, BeginsReturns DEF SendTask, SendWaits, SendReceives, SendPerforms, Sent
      <3> QED
        BY <1>1, <3>2, HandlerEdges
    <2>2. \E t \in Tasks : ClearsStatus(t) \/ OnDisconnected(t) \/ StartsUpgrade(t)
      <3>1. ASSUME NEW u \in Slots, UpgradeFails(u) PROVE FALSE
        BY <1>1, <2>1, <3>1 DEF UpgradeFails
      <3> QED
        BY <1>1, <2>1, <3>1, StatusSteps
    <2> QED
      BY <1>1, <2>1, <2>2, HandlerMoves DEF Handles, ClearsStatus, StatusOrdered, OnDisconnected
  <1>2. ASSUME Running1', ~reopened'
        PROVE  /\ pc'["order"] = "off" /\ ~status'
               /\ spc' = "wait" \/ pc'["send"] \in {"free", "after", "drop", "over"}
               /\ \E u \in Slots : upgrades'[u] = Null
    <2>1. ~reopened /\ pc'["order"] = "off" /\ (status' => status)
      BY <1>2 DEF Remembers, Running1, Running
    <2>2. ASSUME NEW t \in Tasks, StartsUpgrade(t) PROVE t = "send" /\ pc["send"] = "start"
      BY <2>1, <2>2, HandlerMoves DEF Handles
    <2>3. CASE Running1
      <3>1. /\ ~status /\ pc["order"] = "off"
            /\ spc = "wait" \/ pc["send"] \in {"free", "after", "drop", "over"}
            /\ \E u \in Slots : upgrades[u] = Null
            /\ spc = "wait" => pc["send"] = "off"
        BY <2>1, <2>3 DEF UpgradeInv, PlaceInv
      <3>2. \E u \in Slots : upgrades'[u] = Null
        <4>1. ASSUME NEW u \in Slots, UpgradeFails(u) PROVE upgrades'[u] = Null
          BY <4>1 DEF UpgradeFails, Types
        <4>2. ASSUME NEW t \in Tasks, ClearsStatus(t) \/ OnDisconnected(t) PROVE upgrades' = upgrades
          BY <4>2 DEF ClearsStatus, OnDisconnected, otaVars
        <4> QED
          BY <2>2, <3>1, <4>1, <4>2, StatusSteps
      <3>3. spc' = "wait" \/ pc'["send"] \in {"free", "after", "drop", "over"}
        <4>1. ASSUME NEW t \in Tasks, Handler(t) PROVE pc["send"] \in {"free", "after", "drop", "over"}
                                               /\ pc'["send"] \in {"after", "drop", "over"}
          <5>1. t = "send" /\ Handles(t, pc[t], pc'[t])
            BY <3>1, <4>1, HandlerEdges DEF Tasks
          <5> QED
            BY <3>1, <4>1, <5>1, HandlerEdges
        <4>2. ~OrderPerforms /\ ~Connected
          BY <2>1, <3>1, BeginsReturns DEF OrderPerforms, Connected
        <4>3. ~SendPerforms /\ ~SendWaits /\ ~SendReceives
          BY <3>1, BeginsReturns DEF SendPerforms, SendWaits, SendReceives, PlaceInv
        <4>4. Sent => spc' = "wait"
          BY DEF Sent
        <4>5. Connect \/ Close \/ Closed => spc' = spc /\ pc'["send"] = pc["send"]
          BY GoesTo DEF Connect, Close, Closed, Places
        <4>6. ASSUME NEW u \in Slots PROVE UpgradeReads(u) \/ UpgradeFails(u) =>
                                           spc' = spc /\ pc'["send"] = pc["send"]
          BY DEF UpgradeReads, UpgradeFails, loopVars
        <4> QED
          BY <3>1, <4>1, <4>2, <4>3, <4>4, <4>5, <4>6, StepCases
      <3> QED
        BY <2>1, <3>1, <3>2, <3>3
    <2>4. CASE ~Running1
      <3>1. PICK u \in Slots : upgrades[u] = Null /\ upgrades'[u] # Null
        BY <1>2, <2>4 DEF Running1
      <3>2. StartsUpgrade("send") /\ pc["send"] = "start"
        <4>1. ASSUME NEW t \in Tasks, ClearsStatus(t) \/ OnDisconnected(t) PROVE FALSE
          BY <3>1, <4>1 DEF ClearsStatus, OnDisconnected, otaVars
        <4>2. ASSUME NEW v \in Slots, UpgradeFails(v) PROVE FALSE
          BY <2>4, <4>2 DEF UpgradeFails, Running1
        <4> QED
          BY <2>2, <3>1, <4>1, <4>2, StatusSteps
      <3>3. ~status' /\ pc'["send"] = "free"
        BY <3>2, HandlerMoves DEF UpgradeInv, StartsUpgrade, Handles
      <3>4. \E v \in Slots : upgrades'[v] = Null
        <4>1. \E v \in Slots : v # u
          BY DEF Slots
        <4>2. \E w \in Slots : \A v \in Slots \ {w} : upgrades'[v] = upgrades[v]
          BY <3>2 DEF StartsUpgrade, Types, Slots
        <4> QED
          BY <2>4, <3>1, <4>1, <4>2 DEF Running1
      <3> QED
        BY <2>1, <3>3, <3>4
    <2> QED
      BY <2>3, <2>4
  <1> QED
    BY <1>1, <1>2 DEF UpgradeInv
----------------------------------------------------------------------------
(***************************************************************************)
(* The buffer.                                                             *)
(***************************************************************************)
LEMMA BytesText ==
  ASSUME NEW t \in Tasks, NEW m \in Nat, NEW g \in Nat, m <= g
  PROVE  /\ Bytes(t, m, g) \in Texts /\ Len(Bytes(t, m, g)) = g - m
         /\ \A k \in 1..(g - m) : Bytes(t, m, g)[k] = <<t, m + k>>
  <1>1. g - m \in Nat
    OBVIOUS
  <1>2. Bytes(t, m, g) \in [1..(g - m) -> Tasks \X Nat]
    BY DEF Bytes
  <1>3. Bytes(t, m, g) \in Texts
    BY <1>1, <1>2, SeqDef DEF Texts
  <1>4. DOMAIN Bytes(t, m, g) = 1..(g - m)
    BY DEF Bytes
  <1>5. Len(Bytes(t, m, g)) = g - m
    BY <1>1, <1>3, <1>4, LenProperties DEF Texts
  <1> QED
    BY <1>3, <1>5 DEF Bytes

\* A part joins those that came before it.
LEMMA BytesJoin ==
  ASSUME NEW t \in Tasks, NEW m \in Nat, NEW g \in Nat, m <= g, NEW n \in Nat
  PROVE  Bytes(t, m, g) \o Bytes(t, g, g + n) = Bytes(t, m, g + n)
  <1> DEFINE x == Bytes(t, m, g)
             y == Bytes(t, g, g + n)
             z == Bytes(t, m, g + n)
             T == Tasks \X Nat
  <1>1. /\ x \in Seq(T) /\ Len(x) = g - m /\ \A k \in 1..(g - m) : x[k] = <<t, m + k>>
    BY BytesText DEF Texts
  <1>2. /\ y \in Seq(T) /\ Len(y) = n /\ \A k \in 1..n : y[k] = <<t, g + k>>
    <2>1. g + n \in Nat /\ g <= g + n /\ (g + n) - g = n
      OBVIOUS
    <2> QED
      BY <2>1, BytesText, ZenonT(40) DEF Texts
  <1>3. /\ z \in Seq(T) /\ Len(z) = (g + n) - m /\ \A k \in 1..((g + n) - m) : z[k] = <<t, m + k>>
    <2>1. g + n \in Nat /\ m <= g + n
      OBVIOUS
    <2> QED
      BY <2>1, BytesText DEF Texts
  <1> HIDE DEF x, y, z, T
  <1>4. /\ x \o y \in Seq(T) /\ Len(x \o y) = Len(x) + Len(y)
        /\ \A k \in 1..(Len(x) + Len(y)) : (x \o y)[k] = IF k <= Len(x) THEN x[k] ELSE y[k - Len(x)]
    BY <1>1, <1>2, ConcatProperties
  <1>5. Len(x \o y) = Len(z)
    BY <1>1, <1>2, <1>3, <1>4
  <1>6. ASSUME NEW k \in 1..Len(x \o y) PROVE (x \o y)[k] = z[k]
    <2>0. k \in 1..((g - m) + n) /\ k \in 1..((g + n) - m) /\ k \in Int
      BY <1>1, <1>2, <1>4
    <2>1. CASE k <= g - m
      <3>1. k \in 1..(g - m)
        BY <2>0, <2>1
      <3> QED
        BY <1>1, <1>2, <1>3, <1>4, <2>0, <2>1, <3>1
    <2>2. CASE ~(k <= g - m)
      <3>1. k - (g - m) \in 1..n /\ g + (k - (g - m)) = m + k
        BY <2>0, <2>2
      <3>2. (x \o y)[k] = y[k - (g - m)]
        BY <1>1, <1>2, <1>4, <2>0, <2>2
      <3> QED
        BY <1>2, <1>3, <2>0, <3>1, <3>2
    <2> QED
      BY <2>1, <2>2
  <1>7. x \o y = z
    BY <1>3, <1>4, <1>5, <1>6, SeqEqual
  <1> QED
    BY <1>7 DEF x, y, z

\* The same, for the part that OnData puts in the buffer.
LEMMA KeptGrows ==
  ASSUME NEW t \in Tasks, got[t] \in Nat, missed[t] \in Nat, missed[t] <= got[t], NEW n \in Nat
  PROVE  /\ Kept(t) \in Texts /\ Len(Kept(t)) = got[t] - missed[t]
         /\ Kept(t) \o Part(t, n) = Bytes(t, missed[t], got[t] + n)
         /\ got[t] = missed[t] => Part(t, n) = Bytes(t, missed[t], got[t] + n)
  <1>1. Part(t, n) = Bytes(t, got[t], got[t] + n)
    <2>1. (got[t] + n) - got[t] = n
      OBVIOUS
    <2> QED
      BY <2>1 DEF Part, Bytes
  <1>2. Kept(t) \in Texts /\ Len(Kept(t)) = got[t] - missed[t]
    BY BytesText DEF Kept
  <1>3. Kept(t) \o Part(t, n) = Bytes(t, missed[t], got[t] + n)
    <2>1. Bytes(t, missed[t], got[t]) \o Bytes(t, got[t], got[t] + n) = Bytes(t, missed[t], got[t] + n)
      BY BytesJoin
    <2> QED
      BY <1>1, <2>1 DEF Kept
  <1> QED
    BY <1>1, <1>2, <1>3

LEMMA CopiesAll ==
  ASSUME NEW n \in Int, NEW b \in Int, NEW l \in Int, n <= b - l
  PROVE  CopyLen(n, b, l) = n
  BY DEF CopyLen

\* A task that nobody disturbs puts its part behind those that are in the buffer.
LEMMA OnDataSound ==
  ASSUME Given, Types, ReceiptInv, NEW t \in Tasks, OnData(t), Sound(t), ~user_data
  PROVE  Sound(t)' /\ (damaged' = damaged) /\ pc' = pc
  <1>1. /\ body[t] \in Bodies /\ body[t].len \in Nat /\ body[t].chunked \in BOOLEAN
        /\ got[t] \in Nat /\ missed[t] \in Nat /\ missed[t] <= got[t]
        /\ UNCHANGED <<pc, body, told>> /\ pc[t] = "body" /\ got \in [Tasks -> Nat]
        /\ missed \in [Tasks -> Nat] /\ damaged \in BOOLEAN
    BY OnDataTypes, NotNull DEF OnData, ReceiptInv, Types
  <1>2. Mine(t)
    BY <1>1 DEF Sound
  <1>3. PICK n \in 1..(body[t].len - got[t]) :
            /\ got' = [got EXCEPT ![t] = @ + n]
            /\ \/ body[t].chunked /\ UNCHANGED <<output_buffer, missed, damaged>>
               \/ ~body[t].chunked /\ output_buffer = Null
                  /\ missed' = [missed EXCEPT ![t] = @ + n] /\ UNCHANGED <<output_buffer, damaged>>
               \/ /\ ~body[t].chunked /\ output_buffer' = Filled(NewBuffer(t), t, n)
                  /\ damaged' = (damaged \/ Len(output_buffer'.text) > output_buffer'.size
                                   \/ (output_buffer # Null /\ body[t].len < Len(output_buffer.text)))
                  /\ UNCHANGED missed
    BY OnDataCases, Zenon
  <1>4. n \in Nat /\ n > 0 /\ got[t] + n <= body[t].len /\ got'[t] = got[t] + n
    BY <1>1, <1>3
  <1>5. Mine(t)' /\ damaged' = damaged
    <2>1. CASE body[t].chunked
      BY <1>1, <1>2, <1>3, <2>1 DEF Mine
    <2>2. CASE /\ ~body[t].chunked /\ output_buffer = Null
               /\ missed' = [missed EXCEPT ![t] = @ + n] /\ UNCHANGED <<output_buffer, damaged>>
      <3>1. got[t] = missed[t]
        <4>1. ASSUME got[t] # missed[t] PROVE FALSE
          <5>1. output_buffer = [size |-> body[t].len, text |-> Kept(t)]
            BY <1>2, <2>2, <4>1 DEF Mine
          <5>2. Kept(t) \in Texts
            BY <1>1, <1>4, KeptGrows
          <5> QED
            BY <1>1, <2>2, <5>1, <5>2, NotNull
        <4> QED
          BY <4>1
      <3>2. missed'[t] = missed[t] + n
        BY <1>1, <2>2
      <3> QED
        BY <1>1, <1>4, <2>2, <3>1, <3>2 DEF Mine
    <2>3. CASE /\ ~body[t].chunked /\ output_buffer' = Filled(NewBuffer(t), t, n)
               /\ damaged' = (damaged \/ Len(output_buffer'.text) > output_buffer'.size
                                   \/ (output_buffer # Null /\ body[t].len < Len(output_buffer.text)))
               /\ UNCHANGED missed
      <3> DEFINE o == NewBuffer(t)
      <3>1. o \in Buffers
        BY OnDataTypes
      <3>2. o.size = body[t].len /\ Len(o.text) = got[t] - missed[t]
            /\ o.text \o Part(t, n) = Bytes(t, missed[t], got[t] + n)
            /\ (output_buffer # Null => output_buffer = o)
        <4>1. CASE got[t] = missed[t]
          <5>1. output_buffer = Null /\ o = [size |-> body[t].len, text |-> << >>]
            BY <1>2, <2>3, <4>1 DEF Mine, NewBuffer
          <5>2. << >> \o Part(t, n) = Part(t, n)
            BY <1>1, <1>4, PartText, ConcatEmptySeq DEF Texts
          <5>3. Len(<< >>) = 0
            BY EmptySeq
          <5> QED
            BY <1>1, <1>4, <4>1, <5>1, <5>2, <5>3, KeptGrows
        <4>2. CASE got[t] # missed[t]
          <5>1. output_buffer = [size |-> body[t].len, text |-> Kept(t)]
            BY <1>2, <2>3, <4>2 DEF Mine
          <5>2. output_buffer # Null
            BY <1>1, <1>4, <5>1, KeptGrows, NotNull
          <5>3. o = [size |-> body[t].len, text |-> Kept(t)]
            BY <5>1, <5>2 DEF NewBuffer
          <5>4. o.size = body[t].len /\ o.text = Kept(t) /\ output_buffer = o
            BY <5>1, <5>3
          <5>5. Len(Kept(t)) = got[t] - missed[t] /\ Kept(t) \o Part(t, n) = Bytes(t, missed[t], got[t] + n)
            BY <1>1, <1>4, KeptGrows
          <5> QED
            BY <5>4, <5>5
        <4> QED
          BY <4>1, <4>2
      <3> HIDE DEF o
      <3>3. CopyLen(n, body[t].len, Len(o.text)) = n
        <4>1. Len(o.text) \in Int /\ n <= body[t].len - Len(o.text)
          BY <1>1, <1>4, <3>2
        <4> QED
          BY <1>1, <1>4, <4>1, CopiesAll
      <3>4. /\ output_buffer' \in Buffers /\ output_buffer'.size = body[t].len
            /\ output_buffer'.text = Bytes(t, missed[t], got[t] + n)
        <4>1. n \in Int
          BY <1>4
        <4>2. /\ Filled(o, t, n) \in Buffers /\ Filled(o, t, n).size = o.size
              /\ Filled(o, t, n).text = o.text \o Part(t, CopyLen(n, body[t].len, Len(o.text)))
          BY <1>1, <3>1, <4>1, FilledBuffer
        <4>3. output_buffer' = Filled(o, t, n)
          BY <2>3 DEF o
        <4> QED
          BY <3>2, <3>3, <4>2, <4>3
      <3>5. output_buffer' = [size |-> body[t].len, text |-> Bytes(t, missed[t], got[t] + n)]
        BY <3>4 DEF Buffers
      <3>6. Len(Bytes(t, missed[t], got[t] + n)) = (got[t] + n) - missed[t]
        <4>1. got[t] + n \in Nat /\ missed[t] <= got[t] + n
          BY <1>1, <1>4
        <4> QED
          BY <1>1, <4>1, BytesText, ZenonT(40)
      <3>7. damaged' = damaged
        <4>1. /\ ~(Len(output_buffer'.text) > output_buffer'.size)
              /\ ~(output_buffer # Null /\ body[t].len < Len(output_buffer.text))
          BY <1>1, <1>4, <3>2, <3>4, <3>6
        <4> QED
          BY <1>1, <2>3, <4>1, Zenon
      <3>8. Mine(t)'
        <4>1. got'[t] # missed'[t] /\ Bytes(t, missed'[t], got'[t]) = Bytes(t, missed[t], got[t] + n)
          BY <1>1, <1>4, <2>3
        <4> QED
          BY <1>1, <2>3, <3>5, <4>1 DEF Mine, Kept
      <3> QED
        BY <3>7, <3>8
    <2> QED
      BY <1>3, <2>1, <2>2, <2>3
  <1>6. ToldWell(t)'
    BY <1>1 DEF ToldWell
  <1> QED
    BY <1>1, <1>5, <1>6 DEF Sound
\* A buffer that is there holds what came of the response.
LEMMA HasBuffer ==
  ASSUME Given, Types, ReceiptInv, NEW t \in Tasks, Mine(t), body[t] # Null
  PROVE  /\ body[t].len \in Nat /\ got[t] \in Nat /\ missed[t] \in Nat /\ missed[t] <= got[t]
         /\ output_buffer # Null => /\ ~body[t].chunked
                                    /\ output_buffer = [size |-> body[t].len, text |-> Kept(t)]
                                    /\ output_buffer.text = Kept(t)
         /\ output_buffer = Null /\ ~body[t].chunked => got[t] = missed[t]
  <1>1. /\ body[t].len \in Nat /\ got[t] \in Nat /\ missed[t] \in Nat /\ missed[t] <= got[t]
        /\ body[t].chunked \in BOOLEAN
    BY NotNull DEF Types, ReceiptInv
  <1>2. Kept(t) \in Texts
    <2>1. 0 \in Nat
      OBVIOUS
    <2> QED
      BY <1>1, <2>1, KeptGrows
  <1>3. [size |-> body[t].len, text |-> Kept(t)] # Null
    BY <1>1, <1>2, NotNull
  <1> QED
    BY <1>1, <1>3 DEF Mine

LEMMA HandlerSound ==
  ASSUME Given, Types, ReceiptInv, NEW t \in Tasks, Handler(t), Sound(t), ~user_data,
         output_buffer # Null => pc[t] \in Holding
  PROVE  Sound(t)' /\ (output_buffer' # Null => pc'[t] \in Holding)
  <1>1. CASE OnData(t)
    BY <1>1, OnDataSound DEF OnData, Holding
  <1>2. CASE OnFinish(t)
    <2>1. /\ UNCHANGED <<body, got, missed, told, output_buffer>> /\ pc[t] = "body"
          /\ pc'[t] = IF output_buffer = Null THEN "after" ELSE "finish"
      BY <1>2, HandlerMoves DEF OnFinish, Handles, receiptVars
    <2>2. Mine(t) /\ body[t] # Null /\ told[t] = Null
      BY <2>1 DEF Sound, ReceiptInv, Received
    <2>3. CASE output_buffer = Null
      <3>1. missed[t] = 0 /\ ~body[t].chunked => Kept(t) = Null
        <4>1. missed[t] = 0 /\ ~body[t].chunked => got[t] - missed[t] = 0
          BY <2>2, <2>3, HasBuffer
        <4> QED
          BY <4>1 DEF Kept, Bytes, Null
      <3> QED
        BY <2>1, <2>2, <2>3, <3>1 DEF Sound, ToldWell, Kept, Holding
    <2>4. CASE output_buffer # Null
      BY <2>1, <2>2, <2>4 DEF Sound, ToldWell, Mine, Kept, Holding
    <2> QED
      BY <2>3, <2>4
  <1>3. CASE Responds(t)
    <2>1. /\ UNCHANGED <<body, got, missed, output_buffer>> /\ pc[t] = "finish"
          /\ told \in [Tasks -> Texts]
      BY <1>3 DEF Responds, receiptVars, Types
    <2>2. Mine(t) /\ body[t] # Null /\ told[t] = Null /\ output_buffer # Null
      BY <2>1 DEF Sound, ReceiptInv, Received
    <2>3. ~body[t].chunked /\ output_buffer.text = Kept(t)
      BY <2>2, HasBuffer
    <2>4. Mine(t)'
      BY <2>1, <2>2 DEF Mine, Kept
    <2>5. CASE FALSE \in Readings(t) /\ Goes(t, "free")
                /\ told' = [told EXCEPT ![t] =
                                IF output_buffer = Null THEN @ ELSE output_buffer.text]
      <3>1. pc'[t] = "free" /\ told'[t] = Kept(t)
        BY <2>1, <2>2, <2>3, <2>5, GoesTo DEF Places
      <3> QED
        BY <2>1, <2>4, <3>1 DEF Sound, ToldWell, Kept, Holding
    <2>6. CASE TRUE \in Readings(t) /\ Goes(t, "clear")
      <3>1. pc'[t] = "clear"
        BY <2>6, GoesTo DEF Places
      <3>2. missed[t] = 0 /\ got[t] = body[t].len => body[t].names
        <4> SUFFICES ASSUME missed[t] = 0, got[t] = body[t].len PROVE body[t].names
          OBVIOUS
        <4>1. body[t].len \in Nat
          BY <2>2, HasBuffer
        <4>2. Kept(t) = WholeText(t)
          <5>1. got[t] - missed[t] = body[t].len /\ \A k \in 1..body[t].len : missed[t] + k = k
            BY <4>1
          <5> QED
            BY <5>1 DEF Kept, Bytes, WholeText
        <4>3. Readings(t) = {body[t].names}
          BY <2>2, <2>3, <4>2 DEF Readings
        <4> QED
          BY <2>6, <4>3
      <3> QED
        BY <2>1, <2>4, <3>1, <3>2 DEF Sound, ToldWell, Kept, Holding
    <2> QED
      BY <1>3, <2>5, <2>6 DEF Responds
  <1>4. CASE ClearsStatus(t) \/ StartsUpgrade(t)
    <2>1. /\ UNCHANGED <<body, got, missed, told, output_buffer>>
          /\ \/ pc[t] = "clear" /\ pc'[t] = "start"
             \/ pc[t] = "start" /\ pc'[t] = "free"
      BY <1>4, HandlerMoves DEF ClearsStatus, StartsUpgrade, Handles, receiptVars
    <2>2. Mine(t) /\ told[t] = Null
      BY <2>1 DEF Sound, ReceiptInv
    <2> QED
      BY <2>1, <2>2 DEF Sound, ToldWell, Mine, Kept, Holding
  <1>5. CASE OnDisconnected(t)
    <2>1. pc'[t] = "drop"
      BY <1>5, HandlerMoves DEF Handles
    <2> QED
      BY <2>1 DEF Sound, ToldWell, Holding
  <1>6. CASE Frees(t)
    <2>1. /\ UNCHANGED <<body, got, missed, told>> /\ output_buffer' = Null
          /\ \/ pc[t] = "free" /\ pc'[t] = "after"
             \/ pc'[t] = "over"
      BY <1>6, HandlerMoves DEF Frees, Freed, Handles, receiptVars
    <2> QED
      BY <2>1 DEF Sound, ToldWell, Kept
  <1> QED
    BY <1>1, <1>2, <1>3, <1>4, <1>5, <1>6 DEF Handler
\* The second response frees the name, the third frees it again.
LEMMA RespondsDamage ==
  ASSUME Given, Types, FileInv, ~damaged, NEW t \in Tasks, Responds(t), damaged'
  PROVE  named' >= 3
  <1>1. named' = Counted(named) /\ file # Null /\ ~file.live
    BY DEF Responds
  <1>2. named \in Nat /\ named <= MaxNamed
    BY DEF Types, Given
  <1>3. named # 0 /\ named # 1
    BY <1>1 DEF FileInv
  <1> QED
    BY <1>1, <1>2, <1>3 DEF Counted, Given

LEMMA NextBuffer ==
  /\ Given /\ Types /\ PlaceInv /\ ReceiptInv /\ FileInv /\ BufferInv /\ ~damaged
  /\ Step /\ Remembers /\ PlaceInv'
  => BufferInv'
  <1> SUFFICES ASSUME Given, Types, PlaceInv, ReceiptInv, FileInv, BufferInv, ~damaged,
                      Step, Remembers, PlaceInv'
               PROVE  BufferInv'
    OBVIOUS
  <1> USE BothTasks
  <1>1. /\ ~mixed' => opc' = "receive" \/ pc'["send"] = "off"
        /\ ~mixed' => ~mixed \/ ((\A t \in Tasks : pc'[t] = "off") /\ output_buffer' = Null
                                 /\ ~user_data' /\ ~damaged')
    BY Zenon DEF Remembers
  <1>2. /\ ~mixed => pc["order"] = "off" \/ pc["send"] = "off"
        /\ ~mixed' => pc'["order"] = "off" \/ pc'["send"] = "off"
    BY <1>1 DEF BufferInv, PlaceInv
  <1>3. /\ user_data => mixed
        /\ ~mixed => opc = "receive" \/ pc["send"] = "off"
        /\ ~mixed /\ output_buffer # Null => \E t \in Tasks : pc[t] \in Holding
        /\ \A t \in Tasks : ~mixed => Sound(t)
    BY DEF BufferInv
  <1>4. user_data' => mixed'
    <2> SUFFICES ASSUME user_data', ~mixed' PROVE FALSE
      OBVIOUS
    <2>1. ~mixed /\ ~user_data
      BY <1>1, <1>3
    <2>2. Connect
      <3>1. ASSUME NEW t \in Tasks, Handler(t) PROVE user_data' = user_data
        BY <3>1, HandlerEdges, Zenon DEF Handles, loopVars
      <3>2. OrderPerforms \/ SendPerforms \/ Connected \/ Sent \/ Close \/ Closed \/ SendWaits
              \/ SendReceives \/ (\E u \in Slots : UpgradeReads(u) \/ UpgradeFails(u))
              => user_data' = user_data
        BY Zenon DEF OrderPerforms, SendPerforms, Connected, Sent, Close, Closed, SendWaits,
           SendReceives, UpgradeReads, UpgradeFails, Begins, loopVars
      <3> QED
        BY <2>1, <3>1, <3>2, StepCases
    <2>3. output_buffer # Null /\ opc = "receive" /\ opc' = "connect" /\ pc' = pc
      BY <2>2 DEF Connect
    <2>4. PICK t \in Tasks : pc[t] \in Holding
      BY <1>3, <2>1, <2>3
    <2>5. pc["send"] # "off"
      BY <2>3, <2>4 DEF PlaceInv, Holding
    <2> QED
      BY <1>1, <2>3, <2>5
  <1>5. damaged' => mixed' \/ named' >= 3
    <2> SUFFICES ASSUME damaged', ~mixed' PROVE named' >= 3
      OBVIOUS
    <2>1. ~mixed /\ ~user_data
      BY <1>1, <1>3
    <2>2. \E t \in Tasks : OnData(t) \/ Responds(t)
      <3>1. ASSUME NEW t \in Tasks, Handler(t), ~OnData(t), ~Responds(t) PROVE damaged' = damaged
        BY <3>1, Zenon DEF Handler, OnFinish, ClearsStatus, StartsUpgrade, OnDisconnected, Frees
      <3>2. OrderPerforms \/ SendPerforms \/ Connected \/ Sent \/ Connect \/ Close \/ Closed
              \/ SendWaits \/ SendReceives \/ (\E u \in Slots : UpgradeReads(u) \/ UpgradeFails(u))
              => damaged' = damaged
        BY Zenon DEF OrderPerforms, SendPerforms, Connected, Sent, Connect, Close, Closed,
           SendWaits, SendReceives, UpgradeReads, UpgradeFails, Begins
      <3> QED
        BY <3>1, <3>2, StepCases
    <2>3. ASSUME NEW t \in Tasks, OnData(t) PROVE FALSE
      <3>1. damaged' = damaged
        BY <1>3, <2>1, <2>3, OnDataSound
      <3> QED
        BY <3>1
    <2> QED
      BY <2>2, <2>3, RespondsDamage
  <1>6. ASSUME mixed, ~mixed'
        PROVE  output_buffer' = Null /\ \A t \in Tasks : Sound(t)'
    BY <1>1, <1>6 DEF Sound, ToldWell
  <1>7. ASSUME ~mixed, ~mixed'
        PROVE  /\ output_buffer' # Null => \E t \in Tasks : pc'[t] \in Holding
               /\ \A t \in Tasks : Sound(t)'
    <2>1. /\ ~user_data /\ \A t \in Tasks : Sound(t)
          /\ \A t \in Tasks, s \in Tasks : t = s \/ pc[t] = "off" \/ pc[s] = "off"
          /\ \A t \in Tasks, s \in Tasks : t = s \/ pc'[t] = "off" \/ pc'[s] = "off"
      BY <1>2, <1>3, <1>7
    <2>2. \A t \in Tasks : pc'[t] = "off" => Sound(t)'
      BY DEF Sound, ToldWell
    <2>3. ASSUME NEW t \in Tasks, Handler(t)
          PROVE  (output_buffer' # Null => \E s \in Tasks : pc'[s] \in Holding)
                 /\ \A s \in Tasks : Sound(s)'
      <3>1. pc[t] # "off" /\ \A s \in Tasks \ {t} : pc'[s] = pc[s]
        BY <2>3, HandlerEdges DEF Handles
      <3>2. output_buffer # Null => pc[t] \in Holding
        BY <1>3, <1>7, <2>1, <3>1 DEF Holding
      <3>3. Sound(t)' /\ (output_buffer' # Null => pc'[t] \in Holding)
        BY <2>1, <2>3, <3>2, HandlerSound
      <3>4. \A s \in Tasks \ {t} : pc'[s] = "off"
        BY <2>1, <3>1
      <3> QED
        BY <2>2, <3>3, <3>4
    <2>4. ASSUME NEW t \in Tasks, Begins(t)
          PROVE  output_buffer' = Null /\ \A s \in Tasks : Sound(s)'
      <3>1. /\ pc[t] = "off" /\ pc'[t] = "body" /\ body[t] = Null /\ got[t] = 0
            /\ \A s \in Tasks \ {t} : pc'[s] = pc[s]
            /\ UNCHANGED <<got, missed, output_buffer>>
        BY <2>4, BeginsReturns DEF Begins, ReceiptInv
      <3>2. \A s \in Tasks \ {t} : pc'[s] = "off" /\ pc[s] = "off"
        BY <2>1, <3>1
      <3>3. output_buffer' = Null
        BY <1>3, <1>7, <3>1, <3>2 DEF Holding
      <3>4. missed'[t] = 0 /\ got'[t] = 0
        BY <3>1 DEF ReceiptInv, Types
      <3>5. Sound(t)'
        BY <3>1, <3>3, <3>4 DEF Sound, Mine, ToldWell
      <3> QED
        BY <2>2, <3>2, <3>3, <3>5
    <2>5. ASSUME NEW t \in Tasks, Returns(t), output_buffer' = output_buffer
          PROVE  output_buffer' = Null /\ \A s \in Tasks : Sound(s)'
      <3>1. /\ pc[t] \in {"after", "over"} /\ pc'[t] = "off"
            /\ \A s \in Tasks \ {t} : pc'[s] = pc[s]
        BY <2>5, BeginsReturns
      <3>2. \A s \in Tasks \ {t} : pc'[s] = "off" /\ pc[s] = "off"
        BY <2>1, <3>1
      <3>3. output_buffer' = Null
        BY <1>3, <1>7, <2>5, <3>1, <3>2 DEF Holding
      <3> QED
        BY <2>2, <3>1, <3>2, <3>3
    <2>6. CASE Connect \/ SendWaits \/ SendReceives
                 \/ (\E u \in Slots : UpgradeReads(u) \/ UpgradeFails(u))
      <3>1. UNCHANGED <<pc, body, got, missed, told, output_buffer>>
        BY <2>6, Zenon DEF Connect, SendWaits, SendReceives, UpgradeReads, UpgradeFails,
           receiptVars
      <3> QED
        BY <1>3, <1>7, <2>1, <3>1 DEF Sound, Mine, ToldWell, Kept
    <2>7. CASE Close \/ Closed
      <3>1. /\ UNCHANGED <<body, got, missed, told, output_buffer>>
            /\ pc["order"] \in {"off", "closing", "over"} /\ pc'["order"] \in {"closing", "off"}
            /\ pc'["send"] = pc["send"]
        BY <2>7, GoesTo DEF Close, Closed, Places, PlaceInv, receiptVars
      <3>2. output_buffer # Null => pc["send"] \in Holding
        BY <1>3, <1>7, <3>1 DEF Holding
      <3>3. Sound("order")'
        BY <3>1 DEF Sound, ToldWell
      <3>4. Sound("send")'
        BY <2>1, <3>1 DEF Sound, Mine, ToldWell, Kept
      <3> QED
        BY <3>1, <3>2, <3>3, <3>4
    <2>8. CASE OrderPerforms \/ SendPerforms \/ Connected \/ Sent
      BY <2>4, <2>5, <2>8 DEF OrderPerforms, SendPerforms, Connected, Sent
    <2> QED
      BY <2>3, <2>6, <2>7, <2>8, StepCases
  <1> QED
    BY <1>1, <1>4, <1>5, <1>6, <1>7 DEF BufferInv
----------------------------------------------------------------------------
LEMMA InitInv == Given /\ MCInit => RespInv
  <1> SUFFICES ASSUME Given, MCInit PROVE RespInv
    OBVIOUS
  <1>0. RespInit /\ mixed = FALSE /\ reopened = FALSE /\ cleared = "loss"
    BY DEF MCInit
  <1>1. Types
    BY <1>0, InitTypes
  <1>2. PlaceInv
    BY <1>0, BothTasks DEF RespInit, PlaceInv
  <1>3. ReceiptInv
    BY <1>0 DEF RespInit, ReceiptInv, Received
  <1>4. FileInv
    BY <1>0 DEF RespInit, FileInv
  <1>5. BufferInv
    BY <1>0 DEF RespInit, BufferInv, Sound, ToldWell
  <1>6. UpgradeInv
    BY <1>0, BothTasks DEF RespInit, UpgradeInv, Running1
  <1>7. StatusComesBack
    BY <1>0 DEF StatusComesBack
  <1> QED
    BY <1>0, <1>1, <1>2, <1>3, <1>4, <1>5, <1>6, <1>7 DEF RespInv

LEMMA NextInv == Given /\ RespInv /\ [MCNext]_mcVars => RespInv' \/ MCInit'
  <1> SUFFICES ASSUME Given, RespInv, [MCNext]_mcVars PROVE RespInv' \/ MCInit'
    OBVIOUS
  <1>0. /\ Types /\ PlaceInv /\ ReceiptInv /\ FileInv /\ BufferInv /\ UpgradeInv /\ StatusComesBack
        /\ {mixed, reopened} \subseteq BOOLEAN
    BY DEF RespInv
  <1>1. CASE ~damaged /\ Step /\ Remembers
    <2>1. Types' /\ PlaceInv' /\ ReceiptInv' /\ FileInv'
      BY <1>0, <1>1, StepTypes, NextPlace, NextReceipt, NextFile
    <2>2. BufferInv'
      BY <1>0, <1>1, <2>1, NextBuffer
    <2>3. UpgradeInv' /\ StatusComesBack'
      BY <1>0, <1>1, NextUpgrade, NextStatus
    <2>4. {mixed', reopened'} \subseteq BOOLEAN
      <3>1. mixed' \in BOOLEAN
        BY <1>0, <1>1, Zenon DEF Remembers
      <3>2. reopened' \in BOOLEAN
        BY <1>0, <1>1, Zenon DEF Remembers
      <3> QED
        BY <3>1, <3>2
    <2> QED
      BY <2>1, <2>2, <2>3, <2>4 DEF RespInv
  <1>2. CASE Restart /\ Forgets
    BY <1>2, RestartInit
  <1>3. CASE UNCHANGED mcVars
    <2>1. /\ UNCHANGED <<status, client, user_data, opc, spc, pc, body, got, missed, told>>
          /\ UNCHANGED <<output_buffer, file, named, upgrades, damaged, mixed, reopened, cleared>>
      BY <1>3, Zenon DEF mcVars, history, respVars, loopVars, receiptVars, otaVars
    <2>2. Types' /\ PlaceInv' /\ ReceiptInv' /\ FileInv'
      BY <1>0, <2>1 DEF Types, PlaceInv, ReceiptInv, FileInv
    <2>3. BufferInv'
      BY <1>0, <2>1 DEF BufferInv, Sound, Mine, ToldWell, Kept
    <2>4. UpgradeInv' /\ StatusComesBack' /\ {mixed', reopened'} \subseteq BOOLEAN
      BY <1>0, <2>1 DEF UpgradeInv, Running1, StatusComesBack, Running
    <2> QED
      BY <2>2, <2>3, <2>4 DEF RespInv
  <1> QED
    BY <1>1, <1>2, <1>3 DEF MCNext

LEMMA InvHolds == MCSpec => []RespInv
  <1>1. MCInit => RespInv
    BY GivenOK, InitInv
  <1>2. RespInv /\ [MCNext]_mcVars => RespInv' \/ MCInit'
    BY GivenOK, NextInv
  <1> QED
    BY <1>1, <1>2, PTL DEF MCSpec

\* Whatever the responses are, how long they are and in which parts they come: unless
\* both tasks performed at once or there was no memory for the first part, the
\* application is called with what came of the response, and with all of it if nothing
\* failed; with a chunked one never.
THEOREM ResponsesArriveWhole == MCSpec => []ResponseWhole
  <1>1. Given /\ RespInv => ResponseWhole
    <2> SUFFICES ASSUME Given, RespInv, NEW t \in Tasks, pc[t] = "after", ~mixed, missed[t] = 0
                 PROVE  LET received == [k \in 1..got[t] |-> <<t, k>>]
                            whole    == got[t] = body[t].len /\ ~body[t].chunked
                        IN  /\ told[t] \in {Null, received}
                            /\ whole /\ ~body[t].names => told[t] = received
      BY DEF ResponseWhole
    <2>1. got[t] \in Nat
      BY DEF RespInv, Types
    <2>2. Kept(t) = [k \in 1..got[t] |-> <<t, k>>]
      <3>1. got[t] - missed[t] = got[t] /\ \A k \in 1..got[t] : missed[t] + k = k
        BY <2>1
      <3> QED
        BY <3>1 DEF Kept, Bytes
    <2>3. ToldWell(t)
      BY DEF RespInv, BufferInv, Sound
    <2> QED
      BY <2>2, <2>3 DEF ToldWell
  <1> QED
    BY <1>1, GivenOK, InvHolds, PTL

\* The variables keep their types, and the heap is sound as long as the tasks have not
\* performed at once and no third response has named a firmware file.
THEOREM HeapStaysSound == MCSpec => []HeapSound
  <1>1. Given /\ RespInv => HeapSound
    <2> SUFFICES ASSUME Given, RespInv PROVE HeapSound
      OBVIOUS
    <2>1. Types /\ ReceiptInv /\ FileInv /\ BufferInv
      BY DEF RespInv
    <2>2. \A t \in Tasks : /\ got[t] \in 0..(IF body[t] = Null THEN 0 ELSE body[t].len)
                           /\ missed[t] \in 0..got[t]
                           /\ told[t] \in Seq(Tasks \X Nat)
      <3> SUFFICES ASSUME NEW t \in Tasks
                   PROVE  /\ got[t] \in 0..(IF body[t] = Null THEN 0 ELSE body[t].len)
                          /\ missed[t] \in 0..got[t]
                          /\ told[t] \in Seq(Tasks \X Nat)
        OBVIOUS
      <3>1. told[t] \in Texts
        BY <2>1 DEF Types
      <3>2. /\ got[t] \in Nat /\ missed[t] \in Nat /\ missed[t] <= got[t]
            /\ body[t] = Null => got[t] = 0
            /\ body[t] # Null => got[t] <= body[t].len /\ body[t].len \in Nat
        BY <2>1, NotNull DEF Types, ReceiptInv
      <3> QED
        BY <3>1, <3>2 DEF Texts
    <2>3. output_buffer # Null => /\ output_buffer.size \in Nat
                                  /\ output_buffer.text \in Seq(Tasks \X Nat)
      BY <2>1 DEF Types, Buffers, Texts
    <2>4. IF named = 0 THEN file = Null
                       ELSE file # Null /\ file.of \in 1..named /\ file.live \in BOOLEAN
      <3>1. named \in Nat
        BY <2>1 DEF Types, Given
      <3>2. CASE named # 0
        <4>1. file = [of |-> 1, live |-> named = 1] /\ 1 \in 1..named
          BY <2>1, <3>1, <3>2 DEF FileInv
        <4>2. file # Null /\ file.of = 1 /\ file.live = (named = 1)
          BY <4>1, NotNull
        <4>3. file.live \in BOOLEAN
          BY <4>2, Zenon
        <4> QED
          BY <3>2, <4>1, <4>2, <4>3
      <3>3. CASE named = 0
        BY <2>1, <3>3 DEF FileInv
      <3> QED
        BY <3>2, <3>3
    <2>5. \A u \in Slots : upgrades[u] # Null =>
             upgrades[u].of \in 1..named /\ upgrades[u].reads \in BOOLEAN
      BY <2>1 DEF Types, FileInv, Orders
    <2>6. RespTypeOK
      <3>1. /\ {status, user_data, damaged} \subseteq BOOLEAN
            /\ client \in {"null", "live"}
            /\ opc \in {"receive", "connect", "close"}
            /\ spc \in {"wait", "receive", "perform"}
            /\ pc \in [Tasks -> Places]
            /\ body \in [Tasks -> Bodies \cup {Null}] /\ named \in 0..MaxNamed
        BY <2>1 DEF Types
      <3> QED
        BY <2>2, <2>3, <2>4, <2>5, <3>1 DEF RespTypeOK, Places
    <2>7. DamageIsExplained
      BY <2>1 DEF BufferInv, DamageIsExplained
    <2> QED
      BY <2>6, <2>7 DEF HeapSound
  <1> QED
    BY <1>1, GivenOK, InvHolds, PTL

\* A second upgrade runs beside the first only when the order task has been at work
\* since the first began.
THEOREM SecondUpgradeIsReopened == MCSpec => []OneUpgradeAtATime
  <1>1. RespInv => OneUpgradeAtATime
    <2> SUFFICES ASSUME RespInv, Cardinality(Running(upgrades)) = 2, ~reopened PROVE FALSE
      BY DEF OneUpgradeAtATime
    <2>1. CASE Running1
      <3>1. PICK u \in Slots : upgrades[u] = Null
        BY <2>1 DEF RespInv, UpgradeInv
      <3>2. PICK v \in Slots : Slots = {u, v}
        BY DEF Slots
      <3>3. Running(upgrades) \subseteq {v}
        BY <3>1, <3>2 DEF Running
      <3>4. IsFiniteSet({v}) /\ Cardinality({v}) = 1
        BY FS_Singleton
      <3>5. Cardinality(Running(upgrades)) <= 1
        BY <3>3, <3>4, FS_Subset
      <3> QED
        BY <3>5
    <2>2. CASE ~Running1
      <3>1. Running(upgrades) = {}
        BY <2>2 DEF Running1, Running
      <3>2. Cardinality(Running(upgrades)) = 0
        BY <3>1, FS_EmptySet
      <3> QED
        BY <3>2
    <2> QED
      BY <2>1, <2>2
  <1> QED
    BY <1>1, InvHolds, PTL

\* The bit that was cleared for an upgrade is owed by one that runs or is about to be
\* started, unless the connection was lost or no task could be created for it.
THEOREM BitIsOwed == MCSpec => []StatusComesBack
  <1>1. RespInv => StatusComesBack
    BY DEF RespInv
  <1> QED
    BY <1>1, InvHolds, PTL

\* An upgrade that reads the name reads that of its own response as long as only one
\* has named a file, and a freed one ever after.
THEOREM FirstNameOnly == MCSpec => UpgradesNamed
  <1>1. Given /\ RespInv /\ [MCNext]_mcVars =>
           [\A u \in Slots : (upgrades[u] # Null /\ UpgradeReads(u)) =>
               ((file.live /\ file.of = upgrades[u].of) <=> named = 1)]_mcVars
    <2> SUFFICES ASSUME Given, RespInv, NEW u \in Slots, upgrades[u] # Null
                 PROVE  (file.live /\ file.of = upgrades[u].of) <=> named = 1
      OBVIOUS
    <2>1. named \in Nat /\ upgrades[u].of \in 1..named
      BY DEF RespInv, Types, FileInv, Given
    <2>2. file = [of |-> 1, live |-> named = 1]
      BY <2>1 DEF RespInv, FileInv
    <2>3. file.of = 1 /\ file.live = (named = 1)
      BY <2>2
    <2>4. named = 1 => upgrades[u].of = 1
      BY <2>1
    <2> QED
      BY <2>3, <2>4, Zenon
  <1> QED
    BY <1>1, GivenOK, InvHolds, PTL DEF UpgradesNamed, MCSpec
=============================================================================
