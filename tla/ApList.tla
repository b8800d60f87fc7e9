------------------------------- MODULE ApList -------------------------------
(***************************************************************************)
(* The list of access points the setup page asks for: what WM_EVENT_       *)
(* SCAN_DONE makes of the records of the driver (manager.c:757-782).       *)
(* wifi_manager_filter_unique merges the records of one network in place,  *)
(* one turn of its outer loop a step, then closes the gaps; from what is   *)
(* left wifi_manager_generate_acess_points_json prints the list.  Indices  *)
(* count from 1, and 0 is the null pointer.                                *)
(***************************************************************************)
EXTENDS Integers, Sequences

CONSTANTS
    Ssids,      \* the names access points have
    Hidden,     \* the empty name, which no access point in Ssids has
    Quoted,     \* the names that hold a quote or a backslash
    Auths,      \* auth modes
    Rssis,      \* signal strengths
    MaxApNum    \* MAX_AP_NUM

ASSUME HiddenAssumption == Hidden \notin Ssids
ASSUME QuotedAssumption == Quoted \subseteq Ssids
ASSUME AuthsAssumption == 0 \in Auths
ASSUME RssisAssumption == 0 \in Rssis /\ Rssis \subseteq Int
ASSUME MaxApNumAssumption == MaxApNum \in Nat

Records == [ssid : Ssids \cup {Hidden}, rssi : Rssis, auth : Auths]

\* A record after memset.
Cleared == [ssid |-> Hidden, rssi |-> 0, auth |-> 0]

VARIABLES
    found,  \* the records as the driver returned them
    list,   \* accessp_records
    step,   \* the loop: "merge", "close", "print", then "done"
    i,      \* its index
    free,   \* first_free
    total,  \* total_unique
    text    \* accessp_json: the records, each with the character after it

apVars == <<found, list, step, i, free, total, text>>

\* esp_wifi_scan_get_ap_records fills at most MAX_AP_NUM records.
ApInit == /\ found \in UNION {[1..n -> Records] : n \in 0..MaxApNum}
          /\ list = found /\ total = Len(found)
          /\ step = "merge" /\ i = 1 /\ free = 0 /\ text = << >>

----------------------------------------------------------------------------
Same(a, b) == a.ssid = b.ssid /\ a.auth = b.auth

\* Mutated form of Repeats: a turn compares with the next record only.
RepeatsNext(l, k) == {j \in {k + 1} \cap DOMAIN l : Same(l[k], l[j])}

\* Mutated form of Repeats: the auth mode is not compared.
RepeatsByName(l, k) == {j \in (k + 1)..Len(l) : l[j].ssid = l[k].ssid}

\* The records behind record k that name the same network.
Repeats(l, k) == {j \in (k + 1)..Len(l) : Same(l[k], l[j])}

\* The first of the records of a network keeps the strongest signal, the
\* others are cleared.
Merged(l, k) ==
    LET strongest == CHOOSE m \in {k} \cup Repeats(l, k) :
                        \A j \in {k} \cup Repeats(l, k) : l[j].rssi <= l[m].rssi
    IN  [j \in 1..Len(l) |->
            CASE j = k             -> [l[k] EXCEPT !.rssi = l[strongest].rssi]
              [] j \in Repeats(l, k) -> Cleared
              [] OTHER             -> l[j]]

Merge == /\ step = "merge" /\ i < Len(list)
         /\ list' = IF list[i].ssid = Hidden THEN list ELSE Merged(list, i)
         /\ i' = i + 1
         /\ UNCHANGED <<found, step, free, total, text>>

MergeEnds == /\ step = "merge" /\ i >= Len(list)
             /\ step' = "close" /\ i' = 1
             /\ UNCHANGED <<found, list, free, total, text>>

\* Mutated form of NextFree: the slot just left, without a search.
SlotLeft(l, k) == k

\* The search for the next free slot begins at the front again.  There is one:
\* the record that was moved.
NextFree(l, k) == CHOOSE j \in 1..Len(l) :
    /\ l[j].ssid = Hidden
    /\ \A h \in 1..(j - 1) : l[h].ssid # Hidden

Moved(l, from, to) == [l EXCEPT ![to] = l[from], ![from] = Cleared]

CloseGap ==
    /\ step = "close" /\ i <= Len(list)
    /\ \/ /\ list[i].ssid = Hidden
          /\ free' = IF free = 0 THEN i ELSE free
          /\ total' = total - 1
          /\ list' = list
       \/ /\ list[i].ssid # Hidden /\ free = 0
          /\ UNCHANGED <<list, free, total>>
       \/ /\ list[i].ssid # Hidden /\ free # 0
          /\ list' = Moved(list, i, free)
          /\ free' = NextFree(list', i)
          /\ total' = total
    /\ i' = i + 1
    /\ UNCHANGED <<found, step, text>>

\* *aps = total_unique: ap_num is total from here on.
CloseEnds == /\ step = "close" /\ i > Len(list)
             /\ step' = "print" /\ i' = 1
             /\ UNCHANGED <<found, list, free, total, text>>

\* Mutated form of After: the bracket comes one record late.
AfterLate(k, n) == IF k = n + 1 THEN "]" ELSE ","

After(k, n) == IF k = n THEN "]" ELSE ","

\* The names are printed as they are, nothing is escaped.
PrintOne == /\ step = "print" /\ i <= total
            /\ text' = Append(text, [name |-> list[i].ssid,
                                     after |-> After(i, total)])
            /\ i' = i + 1
            /\ UNCHANGED <<found, list, step, free, total>>

PrintEnds == /\ step = "print" /\ i > total
             /\ step' = "done"
             /\ UNCHANGED <<found, list, i, free, total, text>>

ApNext == \/ Merge \/ MergeEnds \/ CloseGap \/ CloseEnds
          \/ PrintOne \/ PrintEnds

ApSpec == ApInit /\ [][ApNext]_apVars

----------------------------------------------------------------------------
\* Every variable stays in its range, the indices within the list.
ApTypeOK ==
    /\ found \in Seq(Records) /\ list \in Seq(Records)
    /\ Len(list) = Len(found)
    /\ step \in {"merge", "close", "print", "done"}
    /\ i \in 1..(Len(found) + 1)
    /\ free \in 0..Len(found) /\ total \in 0..Len(found)
    /\ text \in Seq([name : Ssids, after : {",", "]"}])

\* The strongest signal of the network of record k.
StrongestLike(k) ==
    CHOOSE s \in {found[j].rssi : j \in 1..Len(found)} :
        /\ \E j \in 1..Len(found) : Same(found[j], found[k]) /\ found[j].rssi = s
        /\ \A j \in 1..Len(found) : Same(found[j], found[k]) => found[j].rssi <= s

\* Of every network a record with its strongest signal is somewhere in the list.
NoNetworkLost ==
    \A k \in 1..Len(found) : found[k].ssid # Hidden =>
        \E j \in 1..Len(list) : Same(list[j], found[k]) /\ list[j].rssi = StrongestLike(k)

\* The slots counted as gaps are the ones between the records moved to the front
\* and the index, and first_free is the first of them.
GapsCounted ==
    LET gaps == Len(found) - total IN
    step = "close" =>
        /\ gaps < i
        /\ \A j \in 1..(i - 1) : list[j].ssid = Hidden <=> j >= i - gaps
        /\ free = IF gaps = 0 THEN 0 ELSE i - gaps

\* Whatever has been moved and cleared, after every turn of either loop each index
\* is one of the list, the gaps are those that were counted, and every network is
\* still in the list with its strongest signal (manager.c:617-656).
LoopsSound == ApTypeOK /\ NoNetworkLost /\ GapsCounted

\* What the list has to be, from the records alone: the networks in the order
\* in which they were found first, each with its strongest signal.
FirstOf(k) == /\ found[k].ssid # Hidden
              /\ \A j \in 1..(k - 1) : ~Same(found[j], found[k])
Firsts == {k \in 1..Len(found) : FirstOf(k)}
Network(k) == [found[k] EXCEPT !.rssi = StrongestLike(k)]

\* The first n records of the list are the networks first found at the places K,
\* in their order.
ListOf(n, K) ==
    \E first \in [1..n -> K] : /\ \A h, k \in 1..n : h < k => first[h] < first[k]
                               /\ \A k \in K : \E h \in 1..n : first[h] = k
                               /\ \A h \in 1..n : list[h] = Network(first[h])

\* "remove the duplicate SSIDs from the list and update ap_num" (manager.c:768):
\* the first ap_num records are the networks, and nothing named lies behind
\* them.
ListIsTheNetworks ==
    step \in {"print", "done"} =>
        /\ ListOf(total, Firsts)
        /\ \A k \in (total + 1)..Len(list) : list[k].ssid = Hidden

\* The text is a JSON array: closed once, at its end, every name readable.  So
\* it is unless no network was found (the array is not closed, manager.c:337)
\* or a name holds a character that had to be escaped (manager.c:333).
Readable == /\ text # << >>
            /\ \A k \in 1..Len(text) : /\ text[k].after = "]" <=> k = Len(text)
                                       /\ text[k].name \notin Quoted
ListIsReadable ==
    step = "done" =>
        (Readable <=> /\ \E k \in 1..Len(found) : found[k].ssid # Hidden
                      /\ \A k \in 1..Len(found) : found[k].ssid \notin Quoted)

\* The page gets a list of the networks that it can read, but for the two cases.
ListIsRight == ListIsTheNetworks /\ ListIsReadable
=============================================================================
