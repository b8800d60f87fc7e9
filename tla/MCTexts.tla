------------------------------ MODULE MCTexts ------------------------------
(***************************************************************************)
(* The programs that make texts, each over all inputs within bounds: the   *)
(* list of access points, the JSON strings with the ip information, the    *)
(* replies of the DNS hijack.  A behaviour is of one of them.              *)
(***************************************************************************)
EXTENDS ApList, JsonText, DnsReply

CONSTANT MaxString  \* the longest string of all kinds of characters

Name(n, c) == [k \in 1..n |-> c]

\* All short names, and names of up to 32 characters with one kind of character to
\* escape.
MCNames ==
    UNION {[1..n -> Characters] : n \in 0..MaxString}
    \cup {s \in {Name(n, "plain") \o Name(e, c) : n \in 0..SsidSize,
                     e \in {0, 1, 11, 22, 23, 24, 27, 32}, c \in {"short", "control"}} :
             Len(s) <= SsidSize}
MCPasswords == {Name(8, "plain"), Name(20, "plain")}

\* Lengths with a lost connection, usual ones and the longest.
MCAddresses == {62, 76, 94}

\* The lengths are chosen at the sizes of the buffers: with one question of a
\* name of 111 bytes the query just fits.
MCQueries == [labels : {<< >>, <<1>>, <<2>>, <<2, 3>>, <<5, 63>>, <<62, 45>>,
                         <<63, 45>>, <<63, 46>>},
              type : {TypeA, 28}, questions : {1, 2, 9}, edns : BOOLEAN,
              opcode : {0, 2}, ad : {0, 1}, cd : {0, 1}]

NoList == /\ found = << >> /\ list = << >> /\ text = << >>
          /\ step = "done" /\ i = 1 /\ free = 0 /\ total = 0
NoString == /\ input = << >> /\ read = 0 /\ escapes = 0 /\ output = Nothing /\ put = 0
            /\ pass = "none" /\ info = NoInfo
NoQuery == /\ query = << >> /\ dns_reply = << >> /\ turn = 0 /\ label = 0
           /\ dstep = "none" /\ sent = << >>

MCInit == \/ ApInit /\ NoString /\ NoQuery
          \/ JsonInit /\ NoList /\ NoQuery
          \/ DnsInit /\ NoList /\ NoString

MCNext == \/ ApNext /\ UNCHANGED <<jsonVars, dnsVars>>
          \/ JsonNext /\ UNCHANGED <<apVars, dnsVars>>
          \/ DnsNext /\ UNCHANGED <<apVars, jsonVars>>

MCSpec == MCInit /\ [][MCNext]_<<apVars, jsonVars, dnsVars>>
=============================================================================
