------------------------------ MODULE DnsReply ------------------------------
(***************************************************************************)
(* The answers of the DNS hijack, byte by byte: parse_dns_request with     *)
(* parse_dns_name (dns_server.c:57-153) and the sizes of dns_server_task,  *)
(* one turn of either loop a step.  Offsets count from 0 as in a packet,   *)
(* from an even address.  The chip is little-endian and a char has no sign *)
(* on it.                                                                  *)
(***************************************************************************)
EXTENDS Layout

CONSTANT Queries    \* what phones ask

DNS_MAX_LEN == 256
RxMax       == 127      \* sizeof(rx_buffer) - 1
NameMax     == 128      \* sizeof(name)
HeaderLen   == 12       \* sizeof(dns_header_t)
AnswerLen   == 16       \* sizeof(dns_answer_t)
TypeA       == 1
PortalIp    == <<10, 10, 0, 1>>     \* DEFAULT_AP_IP

\* Every part of a query fits the bits or the byte it has there.
Bytes == 0..255
ASSUME QueriesAssumption ==
    \A q \in Queries : /\ q.labels \in Seq(1..63) /\ q.type \in Bytes
                       /\ q.questions \in 1..255 /\ q.edns \in BOOLEAN
                       /\ q.opcode \in 0..15 /\ q.ad \in 0..1 /\ q.cd \in 0..1

----------------------------------------------------------------------------
\* The queries a phone sends.  A name is the lengths of its labels; each label has
\* its length before it.
LabelStarts(q) == Before([k \in 1..Len(q.labels) |-> q.labels[k] + 1])
NameLen(q)     == LabelStarts(q)[Len(q.labels) + 1] + 1
Letter         == 97
NameByte(q, n) ==
    IF n = NameLen(q) - 1 THEN 0
    ELSE IF \E k \in 1..Len(q.labels) : LabelStarts(q)[k] = n
    THEN q.labels[CHOOSE k \in 1..Len(q.labels) : LabelStarts(q)[k] = n]
    ELSE Letter

QuestionLen(q) == NameLen(q) + 4
QuestionByte(q, n) == IF n < NameLen(q) THEN NameByte(q, n)
                      ELSE <<0, q.type, 0, 1>>[n - NameLen(q) + 1]

Header(q) == <<7, 7, (8 * q.opcode) + 1, (16 * q.cd) + (32 * q.ad), 0, q.questions,
               0, 0, 0, 0, 0, IF q.edns THEN 1 ELSE 0>>

\* The additional record of EDNS.
Opt == <<0, 0, 41, 4, 208, 0, 0, 0, 0, 0, 0>>

\* Where the questions of a query end.
QuestionsEnd(q) == HeaderLen + (q.questions * QuestionLen(q))
QueryByte(q, n) ==
    IF n < HeaderLen THEN Header(q)[n + 1]
    ELSE IF n < QuestionsEnd(q) THEN QuestionByte(q, (n - HeaderLen) % QuestionLen(q))
    ELSE Opt[n - QuestionsEnd(q) + 1]
QueryLen(q) == QuestionsEnd(q) + IF q.edns THEN Len(Opt) ELSE 0

\* recvfrom cuts a longer datagram off.
ReceivedLen(q) == IF QueryLen(q) < RxMax THEN QueryLen(q) ELSE RxMax

----------------------------------------------------------------------------
VARIABLES
    query,      \* what was asked
    dns_reply,  \* the reply as it is being made
    turn,       \* i of the loop over the questions
    label,      \* of parse_dns_name: where the label is
    dstep,      \* "request", "question", "name", "type", then "done"
    sent        \* what is sent back, << >> for nothing

dnsVars == <<query, dns_reply, turn, label, dstep, sent>>

\* The byte at an offset, and the number there (ntohs).
At(p, n)   == p[n + 1]
Word(p, n) == (256 * At(p, n)) + At(p, n + 1)
Put(p, n, bytes) == [k \in 1..Len(p) |->
    IF k - n \in 1..Len(bytes) THEN bytes[k - n] ELSE p[k]]

\* The request, in a buffer that was cleared.
Copied(q) == [n \in 1..DNS_MAX_LEN |->
                 IF n <= ReceivedLen(q) THEN QueryByte(q, n - 1) ELSE 0]

DnsInit == /\ query \in Queries
           /\ dns_reply = Copied(query)
           /\ turn = 0 /\ label = 0 /\ dstep = "request" /\ sent = << >>

qd_count  == Word(dns_reply, 4)
reply_len == (qd_count * AnswerLen) + ReceivedLen(query)

\* OPCODE_MASK meets the flags as the chip reads them: it covers bits 3 to 6 of
\* the second byte of the flags.
NotStandard == (At(dns_reply, 3) \div 8) % 16 # 0

NoReply == /\ dstep' = "done"
           /\ UNCHANGED <<query, dns_reply, turn, label, sent>>

Refused == dstep = "request" /\ (NotStandard \/ reply_len > DNS_MAX_LEN) /\ NoReply

\* QR_FLAG, and an answer for each question.
Accepted ==
    /\ dstep = "request" /\ ~NotStandard /\ reply_len <= DNS_MAX_LEN
    /\ dns_reply' = Put(Put(dns_reply, 2, <<128 + (At(dns_reply, 2) % 128)>>),
                        6, <<qd_count \div 256, qd_count % 256>>)
    /\ dstep' = "question"
    /\ UNCHANGED <<query, turn, label, sent>>

\* Neither the question nor the answer pointer moves on: every turn of the loop
\* answers the first question, in the same place.
Question == /\ dstep = "question" /\ turn < qd_count
            /\ label' = HeaderLen /\ dstep' = "name"
            /\ UNCHANGED <<query, dns_reply, turn, sent>>

\* parse_dns_name.  The first label is taken without looking whether it is one.
AfterLabel == label + At(dns_reply, label) + 1
NextLabel == /\ dstep = "name" /\ AfterLabel - HeaderLen <= NameMax
             /\ label' = AfterLabel
             /\ dstep' = IF At(dns_reply, AfterLabel) = 0 THEN "type" ELSE "name"
             /\ UNCHANGED <<query, dns_reply, turn, sent>>
NameTooLong == dstep = "name" /\ AfterLabel - HeaderLen > NameMax /\ NoReply

\* Mutated form of BehindZero: the offset of the zero itself.
AtZero(n) == n

\* Behind the zero that ends a name.
BehindZero(n) == n + 1

Answer(type, class) ==
    <<192, HeaderLen, type \div 256, type % 256, class \div 256, class % 256,
      0, 0, 1, 44, 0, 4>> \o PortalIp

\* dns_question_t is not packed: where the name ends at an odd offset the chip
\* may raise an exception.
Misread == dstep = "type" /\ BehindZero(label) % 2 = 1 /\ NoReply

Answered ==
    LET type  == Word(dns_reply, BehindZero(label))
        class == Word(dns_reply, BehindZero(label) + 2)
    IN  /\ dstep = "type"
        /\ dns_reply' = IF type = TypeA
                        THEN Put(dns_reply, ReceivedLen(query), Answer(type, class))
                        ELSE dns_reply
        /\ turn' = turn + 1 /\ dstep' = "question"
        /\ UNCHANGED <<query, label, sent>>

Reply == /\ dstep = "question" /\ turn >= qd_count
         /\ sent' = SubSeq(dns_reply, 1, reply_len) /\ dstep' = "done"
         /\ UNCHANGED <<query, dns_reply, turn, label>>

DnsNext == \/ Refused \/ Accepted \/ Question \/ NextLabel \/ NameTooLong
           \/ Misread \/ Answered \/ Reply

DnsSpec == DnsInit /\ [][DnsNext]_dnsVars

----------------------------------------------------------------------------
\* How a resolver reads a reply: the first record behind the questions, if there
\* is one at all, has to be the address.
FindsPortal ==
    LET first == QuestionsEnd(query)
    IN  /\ Len(sent) >= first + AnswerLen
        /\ Word(sent, 6) > 0 /\ At(sent, 2) >= 128
        /\ SubSeq(sent, first + 1, first + AnswerLen) = Answer(query.type, 1)

\* "replies to all type A queries with the IP of the softAP" (dns_server.c:157).
\* A query is not answered so when its AD or CD bit is set, which OPCODE_MASK
\* takes for an opcode, when what is received of it does not end with its
\* questions, cut short or with an EDNS record that is then read in the place of
\* the answer, when it asks for the root, whose end is missed, and when the
\* reply has no room; the opcode makes no difference.  A name of
\* an odd length leads to an odd offset, so its query may not be answered either.
Meant == /\ query.type = TypeA
         /\ query.ad = 0 /\ query.cd = 0
         /\ ReceivedLen(query) = QuestionsEnd(query)
         /\ query.labels # << >>
         /\ QuestionsEnd(query) + (query.questions * AnswerLen) <= DNS_MAX_LEN

\* A phone that asks for a name finds the portal, but for the queries named
\* above (dns_server.c:157), and for those it never does.
PhoneFindsPortal ==
    dstep = "done" => /\ FindsPortal => Meant
                      /\ Meant /\ NameLen(query) % 2 = 0 => FindsPortal
=============================================================================
