----------------------------- MODULE TextProofs -----------------------------
(***************************************************************************)
(* Theorems about the programs that make texts: ApList for lists of any    *)
(* length and all names, auth modes and signal strengths; JsonText for     *)
(* names of any length, however much of them has to be escaped; DnsReply   *)
(* for queries of any name, type, number of questions and flags.           *)
(***************************************************************************)
EXTENDS ApList, JsonText, DnsReply, WellFoundedInduction, FiniteSetTheorems,
        SequenceTheorems, TLAPS

(***************************************************************************)
(* What a recursive definition says: by induction on sets of numbers.      *)
(***************************************************************************)
\* A set of numbers that has 0, and of each number the next, has all of them.
LEMMA AllNumbers ==
  ASSUME NEW S, 0 \in S, \A n \in Nat : n \in S => n + 1 \in S
  PROVE  Nat \subseteq S
  <1> DEFINE T == Nat \ S
             R == OpToRel(<, Nat)
  <1>1. SUFFICES ASSUME T # {} PROVE FALSE
    OBVIOUS
  <1>2. \A x, y \in Nat : x < y => <<x, y>> \in R
    BY SMT DEF OpToRel
  <1>3. PICK x \in T : \A y \in T : ~(<<y, x>> \in R)
    <2>1. T \subseteq Nat
      OBVIOUS
    <2>2. IsWellFoundedOn(R, Nat)
      BY NatLessThanWellFounded
    <2> HIDE DEF T, R
    <2> QED
      BY <1>1, <2>1, <2>2, WFMin
  <1> HIDE DEF R
  <1>4. x \in Nat /\ x - 1 \in T /\ x - 1 \in Nat /\ x - 1 < x
    OBVIOUS
  <1> QED
    BY <1>2, <1>3, <1>4

\* Before is the sum of the sizes so far.
Sums(f, sizes, m) == /\ f \in [1..(m + 1) -> Nat] /\ f[1] = 0
                     /\ \A k \in 1..m : f[k + 1] = f[k] + sizes[k]

LEMMA BeforeAdds ==
  ASSUME NEW sizes \in Seq(Nat)
  PROVE  /\ Before(sizes) \in [1..(Len(sizes) + 1) -> Nat]
         /\ Before(sizes)[1] = 0
         /\ \A k \in 1..Len(sizes) : Before(sizes)[k + 1] = Before(sizes)[k] + sizes[k]
  <1> DEFINE n == Len(sizes)
             S == {m \in Nat : m <= n => \E f : Sums(f, sizes, m)}
             Equation(f) == f = [k \in 1..(n + 1) |-> IF k = 1 THEN 0 ELSE f[k - 1] + sizes[k - 1]]
  <1>0. n \in Nat /\ \A k \in 1..n : sizes[k] \in Nat
    OBVIOUS
  <1>1. 0 \in S
    <2>1. Sums([k \in 1..1 |-> 0], sizes, 0)
      BY DEF Sums
    <2> QED
      BY <2>1
  <1>2. ASSUME NEW m \in Nat, m \in S
        PROVE  m + 1 \in S
    <2> SUFFICES ASSUME m + 1 <= n PROVE \E f : Sums(f, sizes, m + 1)
      OBVIOUS
    <2>1. PICK f : Sums(f, sizes, m)
      BY <1>0, <1>2
    <2>2. m + 1 \in 1..n /\ sizes[m + 1] \in Nat /\ f[m + 1] \in Nat
      BY <1>0, <2>1 DEF Sums
    <2> DEFINE g == [k \in 1..(m + 2) |-> IF k = m + 2 THEN f[m + 1] + sizes[m + 1] ELSE f[k]]
    <2>3. g \in [1..((m + 1) + 1) -> Nat] /\ g[1] = 0
      BY <2>1, <2>2 DEF Sums
    <2>4. \A k \in 1..(m + 1) : g[k + 1] = g[k] + sizes[k]
      BY <2>1, <2>2 DEF Sums
    <2> HIDE DEF g
    <2>5. Sums(g, sizes, m + 1)
      BY <2>3, <2>4 DEF Sums
    <2> QED
      BY <2>5
  <1>3. PICK f : Sums(f, sizes, n)
    <2>1. Nat \subseteq S
      <3> HIDE DEF S
      <3> QED
        BY <1>1, <1>2, AllNumbers
    <2> QED
      BY <1>0, <2>1
  <1>4. Equation(f)
    <2>1. \A k \in 1..(n + 1) : f[k] = IF k = 1 THEN 0 ELSE f[k - 1] + sizes[k - 1]
      <3> SUFFICES ASSUME NEW k \in 1..(n + 1), k # 1
                   PROVE  f[k] = f[k - 1] + sizes[k - 1]
        BY <1>3 DEF Sums
      <3>1. k - 1 \in 1..n /\ (k - 1) + 1 = k
        BY <1>0
      <3> QED
        BY <1>3, <3>1 DEF Sums
    <2> QED
      BY <1>3, <2>1 DEF Sums
  <1>5. Before(sizes) = CHOOSE h : Equation(h)
    BY DEF Before
  <1>6. Equation(Before(sizes))
    <2> HIDE DEF Equation
    <2> QED
      BY <1>4, <1>5
  <1> DEFINE b == Before(sizes)
  <1>7. /\ DOMAIN b = 1..(n + 1) /\ b[1] = 0
        /\ \A k \in 1..n : b[k + 1] = b[k] + sizes[k]
    <2>1. b = [k \in 1..(n + 1) |-> IF k = 1 THEN 0 ELSE b[k - 1] + sizes[k - 1]]
      BY <1>6
    <2> HIDE DEF b
    <2> QED
      BY <1>0, <2>1
  <1> HIDE DEF b
  <1>8. ASSUME NEW k \in 1..(n + 1) PROVE b[k] \in Nat
    <2> DEFINE U == {m \in Nat : m <= n => b[m + 1] \in Nat}
    <2>1. 0 \in U
      BY <1>7
    <2>2. ASSUME NEW m \in Nat, m \in U
          PROVE  m + 1 \in U
      <3>1. CASE m + 1 <= n
        <4>1. m + 1 \in 1..n /\ b[m + 1] \in Nat /\ sizes[m + 1] \in Nat
          BY <1>0, <2>2, <3>1
        <4>2. b[(m + 1) + 1] \in Nat
          BY <1>7, <4>1
        <4> QED
          BY <4>2
      <3>2. CASE ~(m + 1 <= n)
        BY <3>2
      <3> QED
        BY <3>1, <3>2
    <2>3. Nat \subseteq U
      <3> HIDE DEF U
      <3> QED
        BY <2>1, <2>2, AllNumbers
    <2>4. k - 1 \in Nat /\ k - 1 <= n /\ (k - 1) + 1 = k
      BY <1>0
    <2>5. k - 1 \in U
      BY <2>3, <2>4
    <2> QED
      BY <2>4, <2>5
  <1>9. b \in [1..(n + 1) -> Nat]
    <2>1. b = [k \in 1..(n + 1) |-> b[k]]
      <3>1. b = [k \in DOMAIN b |-> b[k]]
        BY <1>6 DEF b
      <3> QED
        BY <1>7, <3>1
    <2> QED
      BY <1>8, <2>1
  <1> QED
    BY <1>7, <1>9 DEF b

(***************************************************************************)
(* The two loops of wifi_manager_filter_unique and the one that prints.    *)
(***************************************************************************)
N == Len(found)

\* The lists, as functions on their places.
Shapes ==
    /\ N \in Nat /\ found \in [1..N -> Records] /\ found \in Seq(Records)
    /\ list \in [1..N -> Records] /\ Len(list) = N

\* Turns 1 to n - 1 of the outer loop leave nothing of record j that an earlier one
\* names too, and give one that is the first of its network the strongest signal.
TakenBefore(j, n) == \E h \in 1..(n - 1) :
                        h < j /\ found[h].ssid # Hidden /\ Same(found[h], found[j])
Turned(j, n) == IF TakenBefore(j, n) THEN Cleared
                ELSE IF j < n /\ found[j].ssid # Hidden THEN Network(j) ELSE found[j]

MergeInv ==
    step = "merge" => /\ i \in 1..(N + 1) /\ (N = 0 \/ i <= N)
                      /\ free = 0 /\ total = N /\ text = << >>
                      /\ \A j \in 1..N : list[j] = Turned(j, i)

\* The second loop has dropped N - total hidden records so far.  The named ones before
\* i have been moved to the front, the gap between them and i is as wide as that.
FirstsBefore(n) == {k \in 1..(n - 1) : FirstOf(k)}
CloseInv ==
    step = "close" =>
        /\ i \in 1..(N + 1) /\ total \in 0..N /\ N - total < i /\ text = << >>
        /\ ListOf(i - 1 - (N - total), FirstsBefore(i))
        /\ \A j \in (i - (N - total))..(i - 1) : list[j].ssid = Hidden
        /\ free = IF total = N THEN 0 ELSE i - (N - total)
        /\ \A j \in i..N : IF FirstOf(j) THEN list[j] = Network(j)
                                         ELSE list[j].ssid = Hidden

PrintInv ==
    step \in {"print", "done"} =>
        /\ total \in 0..N /\ free \in 0..N /\ i \in 1..(total + 1)
        /\ step = "done" => i = total + 1
        /\ ListIsTheNetworks
        /\ Len(text) = i - 1
        /\ text \in Seq([name : Ssids, after : {",", "]"}])
        /\ \A k \in 1..(i - 1) : /\ text[k].name = list[k].ssid
                                 /\ text[k].after = "]" <=> k = total

ApInv == /\ step \in {"merge", "close", "print", "done"}
         /\ Shapes /\ MergeInv /\ CloseInv /\ PrintInv /\ NoNetworkLost

Given == /\ Hidden \notin Ssids /\ Quoted \subseteq Ssids /\ 0 \in Auths
         /\ 0 \in Rssis /\ Rssis \subseteq Int /\ MaxApNum \in Nat

LEMMA GivenOK == Given
  BY HiddenAssumption, QuotedAssumption, AuthsAssumption, RssisAssumption,
     MaxApNumAssumption DEF Given

----------------------------------------------------------------------------
(***************************************************************************)
(* The strongest signal.                                                   *)
(***************************************************************************)
\* Among finitely many records one has the strongest signal: of the sets of those
\* that are stronger than one of them, one contains no other.
LEMMA StrongestExists ==
  ASSUME NEW n \in Nat, NEW K \in SUBSET (1..n), K # {}, NEW l,
         \A j \in K : l[j].rssi \in Int
  PROVE  \E m \in K : \A j \in K : l[j].rssi <= l[m].rssi
  <1> DEFINE Stronger(m) == {j \in K : l[j].rssi > l[m].rssi}
             Sets == {Stronger(m) : m \in K}
             Order == StrictSubsetOrdering(1..n)
  <1>1. IsWellFoundedOn(Order, SUBSET (1..n))
    <2>1. 1 \in Int /\ n \in Int
      OBVIOUS
    <2>2. IsFiniteSet(1..n)
      BY <2>1, FS_Interval
    <2>3. FiniteSubsetsOf(1..n) = SUBSET (1..n)
      BY <2>2, FS_FiniteSubsetsOfFinite
    <2>4. IsWellFoundedOn(StrictSubsetOrdering(1..n), FiniteSubsetsOf(1..n))
      BY FS_StrictSubsetOrderingWellFounded
    <2> QED
      BY <2>3, <2>4
  <1>2. Sets \subseteq SUBSET (1..n) /\ Sets # {}
    OBVIOUS
  <1>3. PICK D \in Sets : \A E \in Sets : <<E, D>> \notin Order
    <2> HIDE DEF Order, Sets
    <2> QED
      BY <1>1, <1>2, WFMin
  <1>4. PICK m \in K : D = Stronger(m)
    OBVIOUS
  <1>5. ASSUME NEW j \in K, ~(l[j].rssi <= l[m].rssi) PROVE FALSE
    <2>1. l[j].rssi > l[m].rssi /\ l[j].rssi \in Int /\ l[m].rssi \in Int
      BY <1>5
    <2>2. Stronger(j) \subseteq D /\ j \in D /\ j \notin Stronger(j)
      <3>1. ASSUME NEW h \in K, l[h].rssi > l[j].rssi PROVE l[h].rssi > l[m].rssi
        <4>1. \A a, b, c \in Int : a > b /\ b > c => a > c
          OBVIOUS
        <4>2. l[h].rssi \in Int
          OBVIOUS
        <4> QED
          BY <2>1, <3>1, <4>1, <4>2
      <3>2. ~(l[j].rssi > l[j].rssi)
        BY <2>1
      <3> QED
        BY <1>4, <2>1, <3>1, <3>2, Zenon
    <2>3. Stronger(j) \in Sets /\ Stronger(j) # D
      BY <2>2
    <2> QED
      BY <1>2, <1>3, <2>2, <2>3 DEF StrictSubsetOrdering
  <1> QED
    BY <1>5

\* So StrongestLike is what it says, for a network that was found.
LEMMA StrongestIsFound ==
  ASSUME Given, Shapes, NEW k \in 1..N, NEW m \in 1..N, Same(found[m], found[k]),
         \A j \in 1..N : Same(found[j], found[k]) => found[j].rssi <= found[m].rssi
  PROVE  StrongestLike(k) = found[m].rssi
  <1> DEFINE Is(s) == /\ \E j \in 1..Len(found) : Same(found[j], found[k]) /\ found[j].rssi = s
                      /\ \A j \in 1..Len(found) : Same(found[j], found[k]) => found[j].rssi <= s
             All == {found[j].rssi : j \in 1..Len(found)}
  <1>1. found[m].rssi \in All /\ Is(found[m].rssi)
    BY DEF N
  <1>2. ASSUME NEW s \in All, Is(s) PROVE s = found[m].rssi
    <2>1. PICK j \in 1..N : Same(found[j], found[k]) /\ found[j].rssi = s
      BY <1>2 DEF N
    <2>2. s \in Int /\ found[m].rssi \in Int
      BY <2>1 DEF Shapes, Records, Given
    <2>3. found[m].rssi <= s
      BY <1>2 DEF N
    <2> QED
      BY <2>1, <2>2, <2>3
  <1>3. (CHOOSE s \in All : Is(s)) = found[m].rssi
    <2> HIDE DEF All, Is
    <2> QED
      BY <1>1, <1>2
  <1> QED
    BY <1>3 DEF StrongestLike

\* A network that is printed has the name and the auth mode of a record.
LEMMA NetworkIsRecord ==
  ASSUME Given, Shapes, NEW k \in 1..N
  PROVE  Network(k) \in Records /\ Network(k).ssid = found[k].ssid /\ Same(Network(k), found[k])
  <1> DEFINE K == {j \in 1..N : Same(found[j], found[k])}
  <1>1. K \in SUBSET (1..N) /\ k \in K /\ N \in Nat /\ \A j \in K : found[j].rssi \in Int
    BY DEF Shapes, Records, Given, Same
  <1>2. PICK m \in K : \A j \in K : found[j].rssi <= found[m].rssi
    <2> HIDE DEF K
    <2> QED
      BY <1>1, StrongestExists
  <1>3. StrongestLike(k) = found[m].rssi
    BY <1>2, StrongestIsFound
  <1>4. found[k] \in Records /\ found[m] \in Records
    BY DEF Shapes
  <1> QED
    BY <1>3, <1>4 DEF Network, Same, Records

\* The strongest signal belongs to the network, not to the record.
LEMMA StrongestOfNetwork ==
  ASSUME Given, Shapes, NEW k \in 1..N
  PROVE  /\ \E m \in 1..N : Same(found[m], found[k]) /\ found[m].rssi = StrongestLike(k)
         /\ \A h \in 1..N : Same(found[h], found[k]) => StrongestLike(h) = StrongestLike(k)
  <1> DEFINE K == {j \in 1..N : Same(found[j], found[k])}
  <1>1. K \in SUBSET (1..N) /\ k \in K /\ N \in Nat /\ \A j \in K : found[j].rssi \in Int
    BY DEF Shapes, Records, Given, Same
  <1>2. PICK m \in K : \A j \in K : found[j].rssi <= found[m].rssi
    <2> HIDE DEF K
    <2> QED
      BY <1>1, StrongestExists
  <1>3. StrongestLike(k) = found[m].rssi
    BY <1>2, StrongestIsFound
  <1>4. ASSUME NEW h \in 1..N, Same(found[h], found[k]) PROVE StrongestLike(h) = found[m].rssi
    <2>1. \A j : Same(j, found[h]) <=> Same(j, found[k])
      BY <1>4 DEF Same
    <2> QED
      BY <1>2, <2>1, StrongestIsFound
  <1> QED
    BY <1>2, <1>3, <1>4

\* What a step has to show of the signals that are in the list.
LEMMA NetworksStay ==
  ASSUME NoNetworkLost, found' = found, Len(list) = N, Len(list') = N,
         \A k, j \in 1..N : found[k].ssid # Hidden /\ Same(list[j], found[k])
                               /\ list[j].rssi = StrongestLike(k) =>
            \E h \in 1..N : Same(list'[h], found[k]) /\ list'[h].rssi = StrongestLike(k)
  PROVE  NoNetworkLost'
  <1>1. \A k : StrongestLike(k)' = StrongestLike(k)
    BY DEF StrongestLike, Same
  <1> QED
    BY <1>1 DEF NoNetworkLost, N, Same

LEMMA NetworksUnchanged ==
  ASSUME ApInv, UNCHANGED <<found, list>>
  PROVE  Shapes' /\ NoNetworkLost'
  <1>1. Shapes'
    BY DEF ApInv, Shapes, N
  <1> QED
    BY <1>1, NetworksStay DEF ApInv, Shapes

----------------------------------------------------------------------------
(***************************************************************************)
(* The first loop.                                                         *)
(***************************************************************************)
\* Turn i finds its record in the list exactly when it is the first of its network.
LEMMA RecordHere ==
  ASSUME Given, Shapes, NEW n \in 1..N, list[n] = Turned(n, n)
  PROVE  /\ FirstOf(n) <=> list[n].ssid # Hidden
         /\ FirstOf(n) => list[n] = found[n]
  <1>1. TakenBefore(n, n) <=> found[n].ssid # Hidden /\ ~FirstOf(n)
    BY DEF TakenBefore, FirstOf, Same, Shapes
  <1> QED
    BY <1>1 DEF Turned, Cleared, FirstOf, Shapes

\* A record that is not the first of its network takes nothing away.
LEMMA IdleTurn ==
  ASSUME Given, Shapes, NEW n \in 1..N, ~FirstOf(n), NEW j \in 1..N
  PROVE  Turned(j, n + 1) = Turned(j, n)
  <1>1. TakenBefore(j, n + 1) <=> TakenBefore(j, n)
    <2>1. TakenBefore(j, n) => TakenBefore(j, n + 1)
      BY DEF TakenBefore, Shapes
    <2>2. ASSUME NEW h \in 1..n, h < j, found[h].ssid # Hidden, Same(found[h], found[j])
          PROVE  TakenBefore(j, n)
      <3>1. CASE h < n
        BY <2>2, <3>1 DEF TakenBefore, Shapes
      <3>2. CASE h = n
        <4>1. PICK g \in 1..(n - 1) : Same(found[g], found[n])
          BY <2>2, <3>2 DEF FirstOf
        <4>2. g < j /\ found[g].ssid # Hidden /\ Same(found[g], found[j])
          BY <2>2, <3>2, <4>1 DEF Same, Shapes
        <4> QED
          BY <4>2 DEF TakenBefore
      <3> QED
        BY <3>1, <3>2 DEF Shapes
    <2> QED
      BY <2>1, <2>2 DEF TakenBefore, Shapes
  <1>2. j = n /\ found[j].ssid # Hidden => TakenBefore(j, n)
    BY DEF TakenBefore, FirstOf, Same, Shapes
  <1>3. j < n + 1 <=> j < n \/ j = n
    BY DEF Shapes
  <1> QED
    BY <1>1, <1>2, <1>3 DEF Turned

\* The first of its network gets the strongest signal and takes away the others.
LEMMA FirstTurn ==
  ASSUME Given, Shapes, NEW n \in 1..N, FirstOf(n),
         \A j \in 1..N : list[j] = Turned(j, n)
  PROVE  \A j \in 1..N : Merged(list, n)[j] = Turned(j, n + 1)
  <1> DEFINE K == {n} \cup Repeats(list, n)
             strongest == CHOOSE m \in K : \A j \in K : list[j].rssi <= list[m].rssi
  <1>1. list[n] = found[n] /\ found[n].ssid # Hidden /\ n \in Nat /\ n >= 1 /\ N \in Nat
    BY RecordHere DEF FirstOf, Shapes
  <1>2. ASSUME NEW j \in (n + 1)..N
        PROVE  /\ Same(list[n], list[j]) <=> Same(found[n], found[j])
               /\ Same(found[n], found[j]) => list[j] = found[j]
    <2>1. j \in 1..N /\ ~(j < n)
      BY <1>1
    <2>2. Same(found[n], found[j]) => ~TakenBefore(j, n)
      BY <1>1 DEF TakenBefore, FirstOf, Same
    <2>3. list[j] = IF TakenBefore(j, n) THEN Cleared ELSE found[j]
      BY <2>1 DEF Turned
    <2> QED
      BY <1>1, <2>2, <2>3 DEF Same, Cleared
  <1>3. K = {j \in 1..N : Same(found[j], found[n])} /\ \A j \in K : list[j] = found[j]
    <2>1. Repeats(list, n) = {j \in (n + 1)..N : Same(found[n], found[j])}
      BY <1>2 DEF Repeats, Shapes
    <2>2. \A j \in 1..N : Same(found[j], found[n]) <=> j = n \/ j \in Repeats(list, n)
      BY <1>1, <2>1 DEF FirstOf, Same
    <2> QED
      BY <1>1, <1>2, <2>1, <2>2
  <1>4. strongest \in K /\ \A j \in K : list[j].rssi <= list[strongest].rssi
    <2>1. K \in SUBSET (1..N) /\ K # {}
      BY <1>3
    <2>2. \A j \in K : list[j].rssi \in Int
      BY <1>3 DEF Shapes, Records, Given
    <2>3. \E m \in K : \A j \in K : list[j].rssi <= list[m].rssi
      <3> HIDE DEF K
      <3> QED
        BY <1>1, <2>1, <2>2, StrongestExists
    <2> HIDE DEF K
    <2> QED
      BY <2>3
  <1>5. StrongestLike(n) = list[strongest].rssi
    <2>1. strongest \in 1..N /\ Same(found[strongest], found[n])
          /\ list[strongest] = found[strongest]
      BY <1>3, <1>4
    <2>2. \A j \in 1..N : Same(found[j], found[n]) => found[j].rssi <= found[strongest].rssi
      BY <1>3, <1>4
    <2> HIDE DEF strongest
    <2> QED
      BY <2>1, <2>2, StrongestIsFound
  <1>6. Merged(list, n) = [j \in 1..N |->
            CASE j = n                   -> [list[n] EXCEPT !.rssi = list[strongest].rssi]
              [] j \in Repeats(list, n) -> Cleared
              [] OTHER                   -> list[j]]
    BY DEF Merged, Shapes
  <1> SUFFICES ASSUME NEW j \in 1..N PROVE Merged(list, n)[j] = Turned(j, n + 1)
    OBVIOUS
  <1> HIDE DEF strongest
  <1>7. CASE j = n
    <2>1. Merged(list, n)[j] = Network(n)
      BY <1>1, <1>5, <1>6, <1>7 DEF Network, Repeats
    <2>2. ~TakenBefore(n, n + 1)
      BY <1>1 DEF TakenBefore, FirstOf
    <2> QED
      BY <1>1, <1>7, <2>1, <2>2 DEF Turned
  <1>8. CASE j \in Repeats(list, n)
    <2>1. Merged(list, n)[j] = Cleared
      BY <1>1, <1>6, <1>8 DEF Repeats
    <2>2. TakenBefore(j, n + 1)
      BY <1>1, <1>2, <1>8 DEF TakenBefore, Repeats, Shapes
    <2> QED
      BY <2>1, <2>2 DEF Turned
  <1>9. CASE j # n /\ j \notin Repeats(list, n)
    <2>1. Merged(list, n)[j] = Turned(j, n)
      BY <1>6, <1>9
    <2>2. ~(n < j /\ Same(found[n], found[j]))
      BY <1>1, <1>3, <1>9 DEF Same
    <2>3. TakenBefore(j, n + 1) <=> TakenBefore(j, n)
      BY <1>1, <2>2 DEF TakenBefore
    <2>4. j < n + 1 <=> j < n
      BY <1>1, <1>9
    <2> QED
      BY <2>1, <2>3, <2>4 DEF Turned
  <1> QED
    BY <1>7, <1>8, <1>9

LEMMA ClearedIsRecord == Given => Cleared \in Records
  BY DEF Given, Cleared, Records

\* A turn keeps the strongest signal of every network, and leaves the list as it should be.
LEMMA MergeKeeps ==
  ASSUME Given, ApInv, Merge
  PROVE  Shapes' /\ MergeInv' /\ NoNetworkLost'
  <1> USE DEF ApInv
  <1>1. /\ step = "merge" /\ step' = "merge" /\ i \in 1..N /\ i < N /\ N \in Nat /\ i' = i + 1
        /\ N' = N /\ found' = found /\ free' = free /\ total' = total /\ text' = text
        /\ \A j \in 1..N : list[j] = Turned(j, i)
    BY DEF Merge, MergeInv, Shapes, N
  <1>2. list[i] = Turned(i, i)
    BY <1>1
  <1>3. \A j \in 1..N : Turned(j, i)' = Turned(j, i + 1)
    BY <1>1 DEF Turned, TakenBefore, Network, StrongestLike, Same
  <1>4. CASE list[i].ssid = Hidden
    <2>1. list' = list
      BY <1>4 DEF Merge
    <2>2. \A j \in 1..N : Turned(j, i + 1) = Turned(j, i)
      BY <1>1, <1>2, <1>4, RecordHere, IdleTurn
    <2>3. \A j \in 1..N : list'[j] = Turned(j, i)'
      BY <1>1, <1>3, <2>1, <2>2
    <2>4. Shapes'
      BY <1>1, <2>1 DEF Shapes, N
    <2>5. MergeInv'
      BY <1>1, <2>3 DEF MergeInv
    <2> QED
      BY <1>1, <2>1, <2>5, NetworksUnchanged
  <1>5. CASE list[i].ssid # Hidden
    <2>1. list' = Merged(list, i)
      BY <1>5 DEF Merge
    <2>2. \A j \in 1..N : list'[j] = Turned(j, i + 1)
      BY <1>1, <1>2, <1>5, <2>1, RecordHere, FirstTurn
    <2>3. \A j \in 1..N : list'[j] = Turned(j, i)'
      BY <1>1, <1>3, <2>2
    <2>4. DOMAIN list' = 1..N /\ list' = [j \in 1..N |-> list'[j]]
      BY <2>1 DEF Merged, Shapes
    <2>5. Shapes'
      <3>1. \A j \in 1..N : list'[j] \in Records
        BY <1>1, <2>2, NetworkIsRecord, ClearedIsRecord DEF Turned, Shapes
      <3>2. Len(list') = N
        BY <1>1, <2>4
      <3> QED
        BY <1>1, <2>4, <3>1, <3>2 DEF Shapes, N
    <2>6. MergeInv'
      BY <1>1, <2>3 DEF MergeInv
    <2>7. NoNetworkLost'
      <3>1. list'[i] = Network(i) /\ Same(Network(i), found[i]) /\ list[i] = found[i]
            /\ Network(i).rssi = StrongestLike(i)
        <4>1. FirstOf(i) /\ list[i] = found[i]
          BY <1>1, <1>2, <1>5, RecordHere
        <4>2. ~TakenBefore(i, i + 1)
          BY <1>1, <4>1 DEF TakenBefore, FirstOf
        <4>3. Network(i).rssi = StrongestLike(i)
          BY <1>1 DEF Network, Shapes, Records
        <4> QED
          BY <1>1, <2>2, <4>1, <4>2, <4>3, NetworkIsRecord DEF Turned, FirstOf
      <3>2. ASSUME NEW k \in 1..N, NEW j \in 1..N, Same(list[j], found[k]),
                   list[j].rssi = StrongestLike(k)
            PROVE  \E h \in 1..N : Same(list'[h], found[k]) /\ list'[h].rssi = StrongestLike(k)
        <4>1. CASE j \in {i} \cup Repeats(list, i)
          <5>1. Same(found[i], found[k])
            BY <3>1, <3>2, <4>1 DEF Repeats, Same
          <5>2. StrongestLike(i) = StrongestLike(k)
            BY <1>1, <5>1, StrongestOfNetwork
          <5> QED
            BY <1>1, <3>1, <5>1, <5>2 DEF Same
        <4>2. CASE j \notin {i} \cup Repeats(list, i)
          BY <2>1, <3>2, <4>2 DEF Merged, Shapes
        <4> QED
          BY <4>1, <4>2
      <3> QED
        BY <1>1, <2>5, <3>2, NetworksStay DEF Shapes
    <2> QED
      BY <2>5, <2>6, <2>7
  <1> QED
    BY <1>4, <1>5

----------------------------------------------------------------------------
(***************************************************************************)
(* The second loop.                                                        *)
(***************************************************************************)
\* The last record, when it is the first of its network, is the only one of it.
LEMMA LastRecord ==
  ASSUME Given, Shapes, N >= 1, FirstOf(N)
  PROVE  Network(N) = found[N]
  <1>1. N \in 1..N /\ found[N] \in Records
    BY DEF Shapes
  <1>2. \A j \in 1..N : Same(found[j], found[N]) => j = N
    BY DEF FirstOf, Shapes
  <1>3. StrongestLike(N) = found[N].rssi
    <2>1. found[N].rssi \in Int /\ Same(found[N], found[N])
      BY <1>1 DEF Records, Given, Same
    <2>2. \A j \in 1..N : Same(found[j], found[N]) => found[j].rssi <= found[N].rssi
      BY <1>2, <2>1
    <2> QED
      BY <1>1, <2>1, <2>2, StrongestIsFound
  <1> QED
    BY <1>1, <1>3 DEF Network, Records

\* ListOf with the list as a parameter.
ListIn(l, n, K) ==
    \E first \in [1..n -> K] : /\ \A h, k \in 1..n : h < k => first[h] < first[k]
                               /\ \A k \in K : \E h \in 1..n : first[h] = k
                               /\ \A h \in 1..n : l[h] = Network(first[h])

LEMMA ListGrows ==
  ASSUME Shapes, NEW l, NEW m, NEW n \in Nat, NEW p \in 1..N,
         ListIn(l, n, FirstsBefore(p)), FirstOf(p),
         \A h \in 1..n : m[h] = l[h], m[n + 1] = Network(p)
  PROVE  ListIn(m, n + 1, FirstsBefore(p + 1))
  <1>1. PICK first \in [1..n -> FirstsBefore(p)] :
               /\ \A h, k \in 1..n : h < k => first[h] < first[k]
               /\ \A k \in FirstsBefore(p) : \E h \in 1..n : first[h] = k
               /\ \A h \in 1..n : l[h] = Network(first[h])
    BY DEF ListIn
  <1> DEFINE more == [h \in 1..(n + 1) |-> IF h = n + 1 THEN p ELSE first[h]]
  <1>2. FirstsBefore(p + 1) = FirstsBefore(p) \cup {p} /\ p \in Nat
    BY DEF FirstsBefore, Shapes
  <1>3. \A h \in 1..n : first[h] \in FirstsBefore(p) /\ more[h] = first[h] /\ first[h] < p
    BY <1>1 DEF FirstsBefore, Shapes
  <1>4. more[n + 1] = p /\ \A h \in 1..(n + 1) : h \in 1..n \/ h = n + 1
    OBVIOUS
  <1>5. more \in [1..(n + 1) -> FirstsBefore(p + 1)]
    BY <1>2, <1>3, <1>4
  <1>6. \A h, k \in 1..(n + 1) : h < k => more[h] < more[k]
    BY <1>1, <1>3, <1>4
  <1>7. \A k \in FirstsBefore(p + 1) : \E h \in 1..(n + 1) : more[h] = k
    BY <1>1, <1>2, <1>3, <1>4
  <1>8. \A h \in 1..(n + 1) : m[h] = Network(more[h])
    BY <1>1, <1>3, <1>4
  <1> QED
    BY <1>5, <1>6, <1>7, <1>8 DEF ListIn

LEMMA ListIsNamed ==
  ASSUME Given, Shapes, NEW l, NEW n \in Nat, NEW p \in 1..(N + 1), ListIn(l, n, FirstsBefore(p))
  PROVE  \A h \in 1..n : l[h].ssid # Hidden
  BY NetworkIsRecord, SMTT(40) DEF ListIn, FirstsBefore, FirstOf, Shapes

\* What was found does not change, so the networks do not.
LEMMA SameFirsts ==
  ASSUME found' = found
  PROVE  /\ N' = N
         /\ \A k : (FirstOf(k)' <=> FirstOf(k)) /\ Network(k)' = Network(k)
  <1>1. \A k : FirstOf(k)' <=> FirstOf(k)
    BY DEF FirstOf, Same
  <1>2. \A k : StrongestLike(k)' = StrongestLike(k)
    BY DEF StrongestLike, Same
  <1>3. \A k : Network(k)' = Network(k)
    BY <1>2 DEF Network
  <1> QED
    BY <1>1, <1>3 DEF N

LEMMA CloseNext ==
  ASSUME found' = found, step' = "close", Shapes, text' = << >>,
         i' \in 1..(N + 1), total' \in 0..N, N - total' < i',
         ListIn(list', i' - 1 - (N - total'), FirstsBefore(i')),
         \A j \in (i' - (N - total'))..(i' - 1) : list'[j].ssid = Hidden,
         free' = (IF total' = N THEN 0 ELSE i' - (N - total')),
         \A j \in i'..N : IF FirstOf(j) THEN list'[j] = Network(j) ELSE list'[j].ssid = Hidden
  PROVE  CloseInv'
  <1> DEFINE n == i' - 1 - (N - total')
  <1>1. FirstsBefore(i)' = FirstsBefore(i')
    BY SameFirsts DEF FirstsBefore
  <1>2. ListOf(i - 1 - (N - total), FirstsBefore(i))'
    <2>1. (i - 1 - (N - total))' = n
      BY SameFirsts
    <2>2. PICK first \in [1..n -> FirstsBefore(i')] :
                 /\ \A h, k \in 1..n : h < k => first[h] < first[k]
                 /\ \A k \in FirstsBefore(i') : \E h \in 1..n : first[h] = k
                 /\ \A h \in 1..n : list'[h] = Network(first[h])
      BY DEF ListIn
    <2>3. \A h \in 1..n : list'[h] = Network(first[h])'
      BY <2>2, SameFirsts
    <2> HIDE DEF n
    <2> QED
      BY <1>1, <2>1, <2>2, <2>3 DEF ListOf
  <1>3. \A j \in i'..N : IF FirstOf(j)' THEN list'[j] = Network(j)' ELSE list'[j].ssid = Hidden
    BY SameFirsts
  <1> QED
    BY <1>2, <1>3, SameFirsts DEF CloseInv

\* Behind the first loop the list holds the networks, each where it was found first.
LEMMA MergeEndKeeps ==
  ASSUME Given, ApInv, MergeEnds
  PROVE  CloseInv'
  <1> USE DEF ApInv
  <1>1. /\ step = "merge" /\ i' = 1 /\ N \in Nat /\ i >= N /\ (N = 0 \/ i = N)
        /\ UNCHANGED <<found, list, free, total, text>> /\ N' = N
        /\ free = 0 /\ total = N /\ text = << >>
        /\ \A j \in 1..N : list[j] = Turned(j, i)
    BY DEF MergeEnds, MergeInv, Shapes, N
  <1>2. \A j \in 1..N : IF FirstOf(j) THEN list[j] = Network(j) ELSE list[j].ssid = Hidden
    <2> SUFFICES ASSUME NEW j \in 1..N
                 PROVE  IF FirstOf(j) THEN list[j] = Network(j) ELSE list[j].ssid = Hidden
      OBVIOUS
    <2>1. i = N /\ list[j] = Turned(j, N)
      BY <1>1
    <2>2. TakenBefore(j, N) <=> found[j].ssid # Hidden /\ ~FirstOf(j)
      BY <1>1 DEF TakenBefore, FirstOf, Same
    <2>3. CASE FirstOf(j) /\ j < N
      BY <2>1, <2>2, <2>3 DEF Turned, FirstOf
    <2>4. CASE FirstOf(j) /\ j = N
      BY <1>1, <2>1, <2>2, <2>4, LastRecord DEF Turned
    <2>5. CASE ~FirstOf(j)
      BY <2>1, <2>2, <2>5 DEF Turned, Cleared
    <2> QED
      BY <1>1, <2>3, <2>4, <2>5
  <1>3. ListIn(list, 0, FirstsBefore(1))
    <2>1. FirstsBefore(1) = {} /\ 1..0 = {}
      BY DEF FirstsBefore
    <2>2. [h \in 1..0 |-> h] \in [1..0 -> FirstsBefore(1)]
      BY <2>1
    <2> QED
      BY <2>1, <2>2 DEF ListIn
  <1> QED
    <2>1. ListIn(list', i' - 1 - (N - total'), FirstsBefore(i'))
      BY <1>1, <1>3
    <2>2. step' = "close"
      BY DEF MergeEnds
    <2> QED
      BY <1>1, <1>2, <2>1, <2>2, CloseNext

\* What a turn of the second loop starts from.
LEMMA GapHere ==
  ASSUME Given, ApInv, CloseGap
  PROVE  LET n == i - 1 - (N - total) IN
         /\ step = "close" /\ step' = "close" /\ i \in 1..N /\ i' = i + 1 /\ N \in Nat
         /\ UNCHANGED <<found, text>> /\ text = << >>
         /\ n \in Nat /\ total \in 1..N /\ N - total \in Nat
         /\ ListIn(list, n, FirstsBefore(i))
         /\ \A j \in 1..n : list[j].ssid # Hidden
         /\ \A j \in (n + 1)..(i - 1) : list[j].ssid = Hidden
         /\ free = IF total = N THEN 0 ELSE n + 1
         /\ IF FirstOf(i) THEN list[i] = Network(i) /\ list[i].ssid # Hidden
                          ELSE list[i].ssid = Hidden
         /\ \A j \in (i + 1)..N : IF FirstOf(j) THEN list[j] = Network(j)
                                                ELSE list[j].ssid = Hidden
  <1> DEFINE n == i - 1 - (N - total)
  <1>1. /\ step = "close" /\ step' = "close" /\ i \in 1..N /\ i' = i + 1 /\ N \in Nat
        /\ UNCHANGED <<found, text>>
    BY DEF ApInv, CloseInv, CloseGap, Shapes
  <1>2. /\ total \in 0..N /\ N - total < i /\ text = << >> /\ ListOf(n, FirstsBefore(i))
        /\ \A j \in (i - (N - total))..(i - 1) : list[j].ssid = Hidden
        /\ free = IF total = N THEN 0 ELSE i - (N - total)
        /\ \A j \in i..N : IF FirstOf(j) THEN list[j] = Network(j) ELSE list[j].ssid = Hidden
    BY <1>1 DEF ApInv, CloseInv
  <1>3. n \in Nat /\ total \in 1..N /\ N - total \in Nat /\ n + 1 = i - (N - total)
    BY <1>1, <1>2
  <1>4. ListIn(list, n, FirstsBefore(i))
    BY <1>2 DEF ListOf, ListIn
  <1>5. \A j \in 1..n : list[j].ssid # Hidden
    <2> HIDE DEF n
    <2> QED
      BY <1>1, <1>3, <1>4, ListIsNamed DEF ApInv
  <1>6. IF FirstOf(i) THEN list[i] = Network(i) /\ list[i].ssid # Hidden
                      ELSE list[i].ssid = Hidden
    BY <1>1, <1>2, NetworkIsRecord DEF FirstOf, ApInv
  <1> QED
    BY <1>1, <1>2, <1>3, <1>4, <1>5, <1>6

\* A record that is not the first of its network adds nothing to the list.
LEMMA FirstsSkip ==
  ASSUME Shapes, NEW p \in 1..N, ~FirstOf(p)
  PROVE  FirstsBefore(p + 1) = FirstsBefore(p)
  BY DEF FirstsBefore, Shapes

LEMMA GapCounted ==
  ASSUME Given, ApInv, CloseGap, list[i].ssid = Hidden
  PROVE  Shapes' /\ CloseInv' /\ NoNetworkLost'
  <1> DEFINE n == i - 1 - (N - total)
  <1>1. free' = (IF free = 0 THEN i ELSE free) /\ total' = total - 1 /\ list' = list
    BY DEF CloseGap
  <1>2. Shapes' /\ NoNetworkLost'
    BY <1>1, GapHere, NetworksUnchanged
  <1>3. ListIn(list', n, FirstsBefore(i')) /\ n = i' - 1 - (N - total')
    BY <1>1, GapHere, FirstsSkip DEF ApInv
  <1>4. /\ i \in 1..N /\ N \in Nat /\ n \in Nat /\ total \in 1..N /\ i' = i + 1
        /\ free = (IF total = N THEN 0 ELSE n + 1)
        /\ \A j \in (n + 1)..i : list'[j].ssid = Hidden
    <2>1. /\ i \in 1..N /\ N \in Nat /\ n \in Nat /\ total \in 1..N /\ i' = i + 1
          /\ free = (IF total = N THEN 0 ELSE n + 1)
          /\ \A j \in (n + 1)..(i - 1) : list[j].ssid = Hidden
      BY GapHere
    <2> HIDE DEF n
    <2> QED
      BY <1>1, <2>1
  <1>5. /\ i' \in 1..(N + 1) /\ total' \in 0..N /\ N - total' < i'
        /\ i' - (N - total') = n + 1 /\ i' - 1 = i
        /\ free' = (IF total' = N THEN 0 ELSE i' - (N - total'))
    BY <1>1, <1>4
  <1>6. \A j \in (i' - (N - total'))..(i' - 1) : list'[j].ssid = Hidden
    BY <1>4, <1>5
  <1> QED
    BY <1>1, <1>2, <1>3, <1>5, <1>6, GapHere, CloseNext, ZenonT(40) DEF ApInv

LEMMA GapAbsent ==
  ASSUME Given, ApInv, CloseGap, list[i].ssid # Hidden, free = 0
  PROVE  Shapes' /\ CloseInv' /\ NoNetworkLost'
  <1>1. UNCHANGED <<list, free, total>>
    BY DEF CloseGap
  <1>2. Shapes' /\ NoNetworkLost'
    BY <1>1, GapHere, NetworksUnchanged
  <1>3. total = N /\ i - 1 \in Nat
    BY GapHere
  <1>4. ListIn(list', i, FirstsBefore(i'))
    BY <1>1, <1>3, GapHere, ListGrows DEF ApInv
  <1>5. /\ i' \in 1..(N + 1) /\ total' \in 0..N /\ N - total' < i' /\ i = i' - 1 - (N - total')
        /\ \A j \in (i' - (N - total'))..(i' - 1) : list'[j].ssid = Hidden
        /\ free' = (IF total' = N THEN 0 ELSE i' - (N - total'))
    BY <1>1, <1>3, GapHere
  <1> QED
    BY <1>1, <1>2, <1>4, <1>5, GapHere, CloseNext, ZenonT(40) DEF ApInv

\* A record is moved to the first free slot, and the next one is behind that.
LEMMA GapFilled ==
  ASSUME Given, ApInv, CloseGap, list[i].ssid # Hidden, free # 0
  PROVE  Shapes' /\ CloseInv' /\ NoNetworkLost'
  <1> DEFINE n == i - 1 - (N - total)
  <1>1. list' = Moved(list, i, free) /\ free' = NextFree(list', i) /\ total' = total
    BY DEF CloseGap
  <1>2. total < N /\ free = n + 1 /\ n \in Nat /\ free < i /\ i \in 1..N /\ N \in Nat
    BY GapHere
  <1>3. /\ list'[free] = list[i] /\ list'[i] = Cleared
        /\ \A j \in 1..N : j # free /\ j # i => list'[j] = list[j]
    BY <1>1, <1>2 DEF Moved, ApInv, Shapes
  <1>4. Shapes'
    <2>1. list' \in [1..N -> Records]
      BY <1>1, <1>2, ClearedIsRecord DEF Moved, ApInv, Shapes
    <2>2. Len(list') = N
      BY <1>2, <2>1
    <2> QED
      BY <2>1, <2>2, GapHere DEF ApInv, Shapes, N
  <1>5. NoNetworkLost'
    <2>1. list[free].ssid = Hidden
      BY <1>2, GapHere
    <2>2. ASSUME NEW k \in 1..N, NEW j \in 1..N, found[k].ssid # Hidden, Same(list[j], found[k])
          PROVE  \E h \in 1..N : Same(list'[h], found[k]) /\ list'[h].rssi = list[j].rssi
      BY <1>2, <1>3, <2>1, <2>2 DEF Same
    <2>3. found' = found /\ Len(list) = N /\ Len(list') = N
      BY <1>4, GapHere DEF ApInv, Shapes, N
    <2> QED
      BY <2>2, <2>3, NetworksStay DEF ApInv
  <1>6. ListIn(list', n + 1, FirstsBefore(i'))
    <2>1. \A h \in 1..n : list'[h] = list[h]
      BY <1>2, <1>3
    <2>2. list'[n + 1] = Network(i) /\ FirstOf(i) /\ i' = i + 1 /\ ListIn(list, n, FirstsBefore(i))
      BY <1>2, <1>3, GapHere
    <2> HIDE DEF n
    <2> QED
      BY <1>2, <2>1, <2>2, ListGrows DEF ApInv
  <1>7. /\ \A j \in 1..(n + 1) : list'[j].ssid # Hidden
        /\ \A j \in (n + 2)..i : list'[j].ssid = Hidden
    <2>1. /\ \A j \in 1..n : list[j].ssid # Hidden
          /\ \A j \in (n + 1)..(i - 1) : list[j].ssid = Hidden
      BY GapHere
    <2>2. Cleared.ssid = Hidden
      BY DEF Cleared
    <2> HIDE DEF n
    <2> QED
      BY <1>2, <1>3, <2>1, <2>2
  <1>8. free' = n + 2
    <2> DEFINE IsFree(j) == /\ list'[j].ssid = Hidden
                            /\ \A h \in 1..(j - 1) : list'[h].ssid # Hidden
    <2>1. n + 2 \in 1..N /\ IsFree(n + 2) /\ Len(list') = N
      <3>1. Len(list') = N
        BY <1>4, GapHere DEF Shapes, N
      <3>2. (n + 2) - 1 = n + 1 /\ n + 2 \in 1..N /\ n + 2 \in (n + 2)..i
        BY <1>2
      <3> HIDE DEF n
      <3> QED
        BY <1>7, <3>1, <3>2
    <2>2. \A j \in 1..N : IsFree(j) => j = n + 2
      BY <1>2, <1>7, <2>1
    <2>3. NextFree(list', i) = CHOOSE j \in 1..N : IsFree(j)
      BY <2>1 DEF NextFree
    <2> HIDE DEF n, IsFree
    <2> QED
      BY <1>1, <2>1, <2>2, <2>3
  <1>9. /\ i' \in 1..(N + 1) /\ total' \in 0..N /\ N - total' < i' /\ n + 1 = i' - 1 - (N - total')
        /\ i' - (N - total') = n + 2 /\ i' - 1 = i
        /\ free' = (IF total' = N THEN 0 ELSE i' - (N - total'))
    <2>1. total \in 1..N /\ i' = i + 1
      BY GapHere
    <2> QED
      BY <1>1, <1>2, <1>8, <2>1
  <1>11. \A j \in (i' - (N - total'))..(i' - 1) : list'[j].ssid = Hidden
    BY <1>7, <1>9
  <1>10. \A j \in i'..N : IF FirstOf(j) THEN list'[j] = Network(j) ELSE list'[j].ssid = Hidden
    BY <1>2, <1>3, GapHere
  <1> QED
    BY <1>4, <1>5, <1>6, <1>9, <1>10, <1>11, GapHere, CloseNext, ZenonT(40) DEF ApInv

LEMMA GapKeeps ==
  ASSUME Given, ApInv, CloseGap
  PROVE  Shapes' /\ CloseInv' /\ NoNetworkLost'
  BY GapCounted, GapAbsent, GapFilled

----------------------------------------------------------------------------
(***************************************************************************)
(* The loop that prints.                                                   *)
(***************************************************************************)
LEMMA NetworksKept ==
  ASSUME UNCHANGED <<found, list, total>>, ListOf(total, Firsts)
  PROVE  ListOf(total, Firsts)'
  <1>1. PICK first \in [1..total -> Firsts] :
               /\ \A h, k \in 1..total : h < k => first[h] < first[k]
               /\ \A k \in Firsts : \E h \in 1..total : first[h] = k
               /\ \A h \in 1..total : list[h] = Network(first[h])
    BY DEF ListOf
  <1>2. Firsts' = Firsts
    BY SameFirsts DEF Firsts
  <1>3. \A h \in 1..total : list'[h] = Network(first[h])'
    BY <1>1, SameFirsts
  <1> QED
    BY <1>1, <1>2, <1>3 DEF ListOf

LEMMA CloseEndKeeps ==
  ASSUME Given, ApInv, CloseEnds
  PROVE  PrintInv'
  <1>1. /\ step = "close" /\ step' = "print" /\ i' = 1 /\ i = N + 1 /\ N \in Nat
        /\ UNCHANGED <<found, list, free, total, text>> /\ text = << >> /\ total \in 0..N
        /\ N' = N
    BY DEF CloseEnds, ApInv, CloseInv, Shapes, N
  <1>2. /\ ListOf(i - 1 - (N - total), FirstsBefore(i))
        /\ \A j \in (i - (N - total))..(i - 1) : list[j].ssid = Hidden
        /\ free = IF total = N THEN 0 ELSE i - (N - total)
    BY <1>1 DEF ApInv, CloseInv
  <1>3. i - 1 - (N - total) = total /\ i - (N - total) = total + 1 /\ i - 1 = N
    BY <1>1
  <1>4. FirstsBefore(i) = Firsts
    BY <1>3 DEF FirstsBefore, Firsts, N
  <1>5. ListOf(total, Firsts)
    BY <1>2, <1>3, <1>4
  <1>6. \A k \in (total + 1)..N : list[k].ssid = Hidden
    BY <1>2, <1>3
  <1>7. ListIsTheNetworks'
    <2>1. ListOf(total, Firsts)'
      BY <1>1, <1>5, NetworksKept
    <2>2. Len(list') = N
      BY <1>1 DEF ApInv, Shapes
    <2> QED
      BY <1>1, <1>6, <2>1, <2>2 DEF ListIsTheNetworks
  <1>8. free \in 0..N
    BY <1>1, <1>2, <1>3
  <1> QED
    BY <1>1, <1>7, <1>8 DEF PrintInv

LEMMA PrintKeeps ==
  ASSUME Given, ApInv, PrintOne
  PROVE  PrintInv'
  <1>1. /\ step = "print" /\ step' = "print" /\ i \in 1..total /\ i' = i + 1 /\ total \in 0..N
        /\ N \in Nat /\ UNCHANGED <<found, list, free, total>> /\ N' = N
        /\ text' = Append(text, [name |-> list[i].ssid, after |-> After(i, total)])
    <2>1. step = "print" /\ step' = step /\ i <= total /\ i' = i + 1
      BY DEF PrintOne
    <2>2. total \in 0..N /\ N \in Nat /\ i \in 1..(total + 1)
      BY <2>1 DEF ApInv, PrintInv, Shapes
    <2>3. UNCHANGED <<found, list, free, total>> /\ N' = N
      BY DEF PrintOne, N
    <2>4. text' = Append(text, [name |-> list[i].ssid, after |-> After(i, total)])
      BY DEF PrintOne
    <2> QED
      BY <2>1, <2>2, <2>3, <2>4
  <1>2. /\ Len(text) = i - 1 /\ text \in Seq([name : Ssids, after : {",", "]"}])
        /\ \A k \in 1..(i - 1) : /\ text[k].name = list[k].ssid
                                 /\ text[k].after = "]" <=> k = total
        /\ ListIsTheNetworks /\ free \in 0..N
    BY <1>1 DEF ApInv, PrintInv
  <1>3. ListIsTheNetworks'
    BY <1>1, <1>2, NetworksKept DEF ListIsTheNetworks
  <1>4. list[i].ssid \in Ssids
    <2>1. ListOf(total, Firsts)
      BY <1>1, <1>2 DEF ListIsTheNetworks
    <2>2. PICK k \in Firsts : list[i] = Network(k)
      BY <1>1, <2>1 DEF ListOf
    <2> QED
      BY <2>2, NetworkIsRecord DEF Firsts, FirstOf, ApInv, Shapes, Records, N
  <1> DEFINE record == [name |-> list[i].ssid, after |-> After(i, total)]
  <1>5. /\ record \in [name : Ssids, after : {",", "]"}] /\ record.name = list[i].ssid
        /\ record.after = "]" <=> i = total
    BY <1>4 DEF After
  <1>6. /\ text' \in Seq([name : Ssids, after : {",", "]"}]) /\ Len(text') = i
        /\ \A k \in 1..(i - 1) : text'[k] = text[k]
        /\ text'[i] = record
    <2> HIDE DEF record
    <2>1. text' = Append(text, record)
      BY <1>1, Zenon DEF record
    <2>2. Len(text) = i - 1 /\ Len(text) + 1 = i
      <3>1. i \in Int /\ \A n \in Int : (n - 1) + 1 = n
        BY <1>1
      <3>2. Len(text) = i - 1
        BY <1>2
      <3> QED
        BY <3>1, <3>2
    <2> DEFINE Printed == [name : Ssids, after : {",", "]"}]
    <2>3. text \in Seq(Printed) /\ record \in Printed
      BY <1>2, <1>5
    <2>4. /\ text' \in Seq(Printed) /\ Len(text') = Len(text) + 1
          /\ \A k \in 1..Len(text) : text'[k] = text[k]
          /\ text'[Len(text) + 1] = record
      <3> HIDE DEF Printed
      <3> QED
        BY <2>1, <2>3, AppendProperties, ZenonT(40)
    <2> QED
      BY <2>2, <2>4
  <1>7. \A k \in 1..i : /\ text'[k].name = list[k].ssid
                        /\ text'[k].after = "]" <=> k = total
    <2> HIDE DEF record
    <2>1. \A k \in 1..i : k \in 1..(i - 1) \/ k = i
      BY <1>1
    <2>2. \A k \in 1..(i - 1) : /\ text'[k].name = list[k].ssid
                                /\ text'[k].after = "]" <=> k = total
      BY <1>2, <1>6
    <2>3. text'[i].name = list[i].ssid /\ (text'[i].after = "]" <=> i = total)
      BY <1>5, <1>6
    <2> QED
      BY <2>1, <2>2, <2>3
  <1> QED
    <2>1. i' - 1 = i /\ i' \in 1..(total + 1)
      BY <1>1
    <2> QED
      BY <1>1, <1>2, <1>3, <1>6, <1>7, <2>1 DEF PrintInv

LEMMA PrintEndKeeps ==
  ASSUME Given, ApInv, PrintEnds
  PROVE  PrintInv'
  <1>1. /\ step = "print" /\ step' = "done" /\ total \in 0..N /\ N \in Nat /\ i \in 1..(total + 1)
        /\ i = total + 1 /\ UNCHANGED <<found, list, i, free, total, text>> /\ N' = N
    <2>1. step = "print" /\ step' = "done" /\ i > total
      BY DEF PrintEnds
    <2>2. total \in 0..N /\ N \in Nat /\ i \in 1..(total + 1)
      BY <2>1 DEF ApInv, PrintInv, Shapes
    <2>3. UNCHANGED <<found, list, i, free, total, text>> /\ N' = N
      BY DEF PrintEnds, N
    <2> QED
      BY <2>1, <2>2, <2>3
  <1>2. ListIsTheNetworks'
    BY <1>1, NetworksKept DEF ListIsTheNetworks, ApInv, PrintInv
  <1> QED
    BY <1>1, <1>2 DEF PrintInv, ApInv

----------------------------------------------------------------------------
(***************************************************************************)
(* Theorems.                                                               *)
(***************************************************************************)
LEMMA InitList == Given /\ ApInit => ApInv
  <1> SUFFICES ASSUME Given, ApInit PROVE ApInv
    OBVIOUS
  <1>1. PICK n \in Nat : found \in [1..n -> Records]
    BY DEF ApInit, Given
  <1>2. found \in Seq(Records) /\ N = n
    BY <1>1 DEF N
  <1>3. Shapes
    BY <1>1, <1>2 DEF Shapes, ApInit, N
  <1>4. MergeInv
    <2>1. \A j \in 1..N : Turned(j, 1) = found[j]
      BY <1>3 DEF Turned, TakenBefore, Shapes
    <2> QED
      BY <1>3, <2>1 DEF MergeInv, ApInit, Shapes, N
  <1>5. CloseInv /\ PrintInv
    BY DEF CloseInv, PrintInv, ApInit
  <1>6. NoNetworkLost
    BY <1>3, StrongestOfNetwork DEF NoNetworkLost, ApInit, N
  <1> QED
    BY <1>3, <1>4, <1>5, <1>6 DEF ApInv, ApInit

LEMMA NextList == Given /\ ApInv /\ [ApNext]_apVars => ApInv'
  <1> SUFFICES ASSUME Given, ApInv, [ApNext]_apVars PROVE ApInv'
    OBVIOUS
  <1>1. CASE Merge
    BY <1>1, MergeKeeps DEF ApInv, Merge, CloseInv, PrintInv
  <1>2. CASE MergeEnds
    <2>1. Shapes' /\ NoNetworkLost'
      BY <1>2, NetworksUnchanged DEF MergeEnds
    <2> QED
      BY <1>2, <2>1, MergeEndKeeps DEF ApInv, MergeEnds, MergeInv, PrintInv
  <1>3. CASE CloseGap
    BY <1>3, GapKeeps DEF ApInv, CloseGap, MergeInv, PrintInv
  <1>4. CASE CloseEnds
    <2>1. Shapes' /\ NoNetworkLost'
      BY <1>4, NetworksUnchanged DEF CloseEnds
    <2> QED
      BY <1>4, <2>1, CloseEndKeeps DEF ApInv, CloseEnds, MergeInv, CloseInv
  <1>5. CASE PrintOne
    <2>1. Shapes' /\ NoNetworkLost'
      BY <1>5, NetworksUnchanged DEF PrintOne
    <2> QED
      BY <1>5, <2>1, PrintKeeps DEF ApInv, PrintOne, MergeInv, CloseInv
  <1>6. CASE PrintEnds
    <2>1. Shapes' /\ NoNetworkLost'
      BY <1>6, NetworksUnchanged DEF PrintEnds
    <2> QED
      BY <1>6, <2>1, PrintEndKeeps DEF ApInv, PrintEnds, MergeInv, CloseInv
  <1>7. CASE UNCHANGED apVars
    <2>1. UNCHANGED <<found, list, step, i, free, total, text>>
      BY <1>7 DEF apVars
    <2>2. Shapes' /\ NoNetworkLost'
      BY <2>1, NetworksUnchanged
    <2>3. MergeInv'
      <3>1. \A j \in 1..N : Turned(j, i)' = Turned(j, i)
        BY <2>1 DEF Turned, TakenBefore, Network, StrongestLike, Same
      <3> QED
        BY <2>1, <3>1, SameFirsts DEF ApInv, MergeInv
    <2>4. CloseInv'
      <3>1. CASE step = "close"
        <4>1. ListIn(list, i - 1 - (N - total), FirstsBefore(i))
          BY <3>1 DEF ApInv, CloseInv, ListOf, ListIn
        <4> QED
          BY <2>1, <3>1, <4>1, CloseNext DEF ApInv, CloseInv
      <3> QED
        BY <2>1, <3>1 DEF CloseInv
    <2>5. PrintInv'
      <3>1. N' = N /\ (step \in {"print", "done"} => ListIsTheNetworks')
        BY <2>1, NetworksKept DEF ApInv, PrintInv, ListIsTheNetworks, N
      <3> QED
        BY <2>1, <3>1 DEF ApInv, PrintInv
    <2> QED
      BY <2>1, <2>2, <2>3, <2>4, <2>5 DEF ApInv
  <1> QED
    BY <1>1, <1>2, <1>3, <1>4, <1>5, <1>6, <1>7 DEF ApNext

LEMMA ListInductive == ApSpec => []ApInv
  <1>1. Given
    BY GivenOK
  <1> QED
    BY <1>1, InitList, NextList, PTL DEF ApSpec

\* Every index stays in the list, the gaps are those that were counted, and both
\* loops keep of every network that was found a record with its strongest signal,
\* however many there are and wherever they are.
THEOREM LoopsKeepNetworks == ApSpec => []LoopsSound
  <1>1. ApInv => ApTypeOK
    <2> SUFFICES ASSUME ApInv PROVE ApTypeOK
      OBVIOUS
    <2> USE DEF N
    <2>1. list \in Seq(Records)
      BY DEF ApInv, Shapes
    <2>2. /\ i \in 1..(N + 1) /\ free \in 0..N /\ total \in 0..N
          /\ text \in Seq([name : Ssids, after : {",", "]"}])
      <3>1. CASE step = "merge"
        BY <3>1, EmptySeq DEF ApInv, MergeInv, Shapes
      <3>2. CASE step = "close"
        <4>1. /\ i \in 1..(N + 1) /\ total \in 0..N /\ N \in Nat /\ N - total < i /\ text = << >>
              /\ free = IF total = N THEN 0 ELSE i - (N - total)
          BY <3>2 DEF ApInv, CloseInv, Shapes
        <4>2. free \in 0..N
          BY <4>1
        <4> QED
          BY <4>1, <4>2, EmptySeq
      <3>3. CASE step \in {"print", "done"}
        <4>1. total \in 0..N /\ free \in 0..N /\ i \in 1..(total + 1) /\ N \in Nat
          BY <3>3 DEF ApInv, PrintInv, Shapes
        <4>2. i \in 1..(N + 1)
          BY <4>1
        <4>3. text \in Seq([name : Ssids, after : {",", "]"}])
          BY <3>3 DEF ApInv, PrintInv
        <4> QED
          BY <4>1, <4>2, <4>3
      <3> QED
        BY <3>1, <3>2, <3>3 DEF ApInv
    <2> QED
      BY <2>1, <2>2 DEF ApInv, Shapes, ApTypeOK
  <1>2. Given /\ ApInv => GapsCounted
    <2> SUFFICES ASSUME Given, ApInv, step = "close" PROVE GapsCounted
      BY DEF GapsCounted
    <2> DEFINE gaps == N - total
    <2>1. /\ N \in Nat /\ i \in 1..(N + 1) /\ total \in 0..N /\ gaps < i
          /\ ListOf(i - 1 - gaps, FirstsBefore(i))
          /\ \A j \in (i - gaps)..(i - 1) : list[j].ssid = Hidden
          /\ free = IF total = N THEN 0 ELSE i - gaps
      BY DEF ApInv, CloseInv, Shapes
    <2>2. gaps \in Nat /\ i - 1 - gaps \in Nat /\ (gaps = 0 <=> total = N)
      BY <2>1
    <2>3. \A j \in 1..(i - 1 - gaps) : list[j].ssid # Hidden
      <3>1. ListIn(list, i - 1 - gaps, FirstsBefore(i))
        BY <2>1 DEF ListOf, ListIn
      <3> HIDE DEF gaps
      <3> QED
        BY <2>1, <2>2, <3>1, ListIsNamed DEF ApInv
    <2>4. \A j \in 1..(i - 1) : list[j].ssid = Hidden <=> j >= i - gaps
      <3> HIDE DEF gaps
      <3> QED
        BY <2>1, <2>2, <2>3
    <2> QED
      BY <2>1, <2>2, <2>4 DEF GapsCounted, N
  <1>3. Given /\ ApInv => LoopsSound
    BY <1>1, <1>2 DEF LoopsSound, ApInv
  <1> QED
    BY <1>3, GivenOK, ListInductive, PTL

\* The first ap_num records are the networks that were found, in the order in which
\* they were found first, each with its strongest signal, and nothing is behind
\* them; the text is a JSON array unless none was found or a name had to be escaped.
THEOREM ListIsOfNetworks == ApSpec => []ListIsRight
  <1>1. ApInv => ListIsTheNetworks
    BY DEF ApInv, PrintInv, ListIsTheNetworks
  <1>2. Given /\ ApInv => ListIsReadable
    <2> SUFFICES ASSUME Given, ApInv, step = "done"
                 PROVE  Readable <=> /\ \E k \in 1..N : found[k].ssid # Hidden
                                     /\ \A k \in 1..N : found[k].ssid \notin Quoted
      BY DEF ListIsReadable, N
    <2>1. /\ total \in 0..N /\ N \in Nat /\ Len(text) = total /\ ListOf(total, Firsts)
          /\ text \in Seq([name : Ssids, after : {",", "]"}])
          /\ \A k \in 1..total : /\ text[k].name = list[k].ssid
                                 /\ text[k].after = "]" <=> k = total
          /\ \A k \in (total + 1)..N : list[k].ssid = Hidden
      <3>1. i - 1 = total
        <4>1. i = total + 1 /\ total \in 0..N
          BY DEF ApInv, PrintInv
        <4> QED
          BY <4>1
      <3> QED
        BY <3>1 DEF ApInv, PrintInv, Shapes, ListIsTheNetworks
    <2>6. total \in Nat /\ (total > 0 <=> \E j \in 1..total : TRUE)
      <3>1. total \in 0..N /\ N \in Nat
        BY DEF ApInv, PrintInv, Shapes
      <3>2. total \in Nat
        BY <3>1
      <3> QED
        BY <3>2
    <2>2. Readable <=> total > 0 /\ \A k \in 1..total : list[k].ssid \notin Quoted
      <3>1. text # << >> <=> total > 0
        <4>1. text # << >> => Len(text) \in Nat \ {0}
          BY <2>1, EmptySeq
        <4>2. text = << >> => Len(text) = 0
          BY EmptySeq
        <4>3. Len(text) = total
          BY <2>1
        <4> QED
          BY <2>6, <4>1, <4>2, <4>3
      <3> QED
        BY <2>1, <3>1 DEF Readable
    <2>3. \A j \in 1..total : \E k \in 1..N : list[j].ssid = found[k].ssid /\ found[k].ssid # Hidden
      <3>1. PICK first \in [1..total -> Firsts] : \A j \in 1..total : list[j] = Network(first[j])
        BY <2>1 DEF ListOf
      <3>2. \A k \in Firsts : k \in 1..N /\ found[k].ssid # Hidden
        BY DEF Firsts, FirstOf, N
      <3> QED
        BY <3>1, <3>2, NetworkIsRecord DEF ApInv
    <2>4. \A k \in 1..N : found[k].ssid # Hidden =>
             \E j \in 1..total : list[j].ssid = found[k].ssid
      <3> SUFFICES ASSUME NEW k \in 1..N, found[k].ssid # Hidden
                   PROVE  \E j \in 1..total : list[j].ssid = found[k].ssid
        OBVIOUS
      <3>1. PICK j \in 1..N : list[j].ssid = found[k].ssid
        BY DEF ApInv, NoNetworkLost, Same, Shapes, N
      <3>2. j \in 1..total
        <4>1. j \notin (total + 1)..N
          BY <2>1, <3>1
        <4>2. total \in 0..N /\ N \in Nat
          BY <2>1
        <4> QED
          BY <4>1, <4>2
      <3> QED
        BY <3>1, <3>2
    <2>5. Hidden \notin Quoted
      BY DEF Given
    <2> QED
      BY <2>2, <2>3, <2>4, <2>5, <2>6, Zenon
  <1>3. Given /\ ApInv => ListIsRight
    BY <1>1, <1>2 DEF ListIsRight
  <1>4. Given
    BY GivenOK
  <1> QED
    BY <1>3, <1>4, ListInductive, PTL


(***************************************************************************)
(* json_print_string and the ip information.                               *)
(***************************************************************************)
\* What the first pass counts for a character is what the second pass moves on by.
LEMMA Sizes ==
  ASSUME NEW c \in Characters
  PROVE  /\ Len(Escaped(c)) \in Nat /\ Len(Escaped(c)) >= 1
         /\ ExtraFor(c) \in Nat /\ Len(Escaped(c)) = 1 + ExtraFor(c)
         /\ Len(Written(c)) \in {Len(Escaped(c)), Len(Escaped(c)) + 1}
         /\ \A j \in 1..Len(Escaped(c)) : Written(c)[j] = Escaped(c)[j]
         /\ Len(Escaped(c)) = 1 => Escaped(c) = <<c>>
  <1>1. CASE c = "plain"
    BY <1>1 DEF Escaped, Written, ExtraFor
  <1>2. CASE c = "short"
    BY <1>2 DEF Escaped, Written, ExtraFor
  <1>3. CASE c = "control"
    BY <1>3 DEF Escaped, Written, ExtraFor
  <1> QED
    BY <1>1, <1>2, <1>3 DEF Characters

\* Where the escapes begin.
LEMMA Places ==
  ASSUME input \in Seq(Characters)
  PROVE  /\ Place \in [1..(Len(input) + 1) -> Nat] /\ Place[1] = 0
         /\ \A k \in 1..Len(input) : Place[k + 1] = Place[k] + Len(Escaped(input[k]))
  <1> DEFINE sizes == [k \in 1..Len(input) |-> Len(Escaped(input[k]))]
  <1>1. \A k \in 1..Len(input) : Len(Escaped(input[k])) \in Nat
    BY Sizes
  <1>2. /\ sizes \in Seq(Nat) /\ Len(sizes) = Len(input)
        /\ \A k \in 1..Len(input) : sizes[k] = Len(Escaped(input[k]))
    BY <1>1
  <1>3. Place = Before(sizes)
    BY DEF Place
  <1> HIDE DEF sizes
  <1> QED
    BY <1>2, <1>3, BeforeAdds

\* The first pass has counted what the characters it has passed need.  Without escapes
\* each has its own place.
CountInv == /\ escapes = Place[read + 1] - read /\ output = Nothing
            /\ escapes = 0 => \A k \in 1..read : Len(Escaped(input[k])) = 1 /\ Place[k + 1] = k

\* The second pass has written the escapes of the characters it has passed, and a
\* terminator behind them at most.
CopyInv == /\ put = 1 + Place[read + 1]
           /\ DOMAIN output \in {0..(put - 1), 0..put} /\ output[0] = "quote"
           /\ \A k \in 1..read : /\ Place[k + 1] <= Place[read + 1]
                                 /\ \A j \in 1..Len(Escaped(input[k])) :
                                       output[Place[k] + j] = Escaped(input[k])[j]

JsonInv == /\ input \in Seq(Characters) /\ read \in 0..Len(input) /\ escapes \in Nat
           /\ pass \in {"count", "copy", "printed", "done"}
           /\ pass = "count" => CountInv
           /\ pass # "count" => escapes = Place[Len(input) + 1] - Len(input)
           /\ pass = "copy" => CopyInv
           /\ pass \in {"printed", "done"} => StringIsWhole
           /\ pass = "done" => \E behind \in Addresses : info = IpInfo(behind)

\* It holds of every name as it is read, and each step of the two passes keeps it.
LEMMA JsonStarts ==
  ASSUME JsonInit
  PROVE  JsonInv
  <1>1. input \in Seq(Characters)
    <2>1. PICK ssid \in Names, password \in Passwords : input = SsidAsRead(ssid, password)
      BY DEF JsonInit
    <2>2. ssid \in Seq(Characters) /\ password \in Seq(Characters)
      BY NamesAssumption, PasswordsAssumption
    <2> QED
      BY <2>1, <2>2 DEF SsidAsRead
  <1>2. CountInv
    BY <1>1, Places DEF JsonInit, CountInv
  <1> QED
    BY <1>1, <1>2 DEF JsonInit, JsonInv

LEMMA CountKept ==
  ASSUME JsonInv, Count
  PROVE  JsonInv'
  <1> DEFINE c == input[read + 1]
  <1>1. /\ pass = "count" /\ pass' = "count" /\ input' = input /\ output' = output
        /\ read \in Nat /\ read < Len(input) /\ read' = read + 1 /\ escapes' = escapes + ExtraFor(c)
        /\ input \in Seq(Characters) /\ CountInv /\ escapes \in Nat
    BY DEF Count, JsonInv
  <1>2. Place' = Place
    BY <1>1 DEF Place
  <1>3. c \in Characters /\ read + 1 \in 1..Len(input)
    BY <1>1
  <1>4. ExtraFor(c) \in Nat /\ Len(Escaped(c)) = 1 + ExtraFor(c)
    BY <1>3, Sizes
  <1>5. /\ Place[read + 1] \in Nat
        /\ Place[(read + 1) + 1] = Place[read + 1] + Len(Escaped(c))
    BY <1>1, <1>3, Places
  <1> HIDE DEF c
  <1>6. escapes' = Place'[read' + 1] - read' /\ escapes' \in Nat
    <2>1. /\ escapes = Place[read + 1] - read /\ escapes \in Nat /\ read \in Nat
          /\ escapes' = escapes + ExtraFor(c)
      BY <1>1 DEF CountInv
    <2>2. Place[(read + 1) + 1] = Place[read + 1] + 1 + ExtraFor(c)
      BY <1>4, <1>5
    <2>3. escapes' = Place[(read + 1) + 1] - (read + 1) /\ escapes' \in Nat
      BY <1>4, <1>5, <2>1, <2>2
    <2> QED
      BY <1>1, <1>2, <2>3
  <1>7. escapes' = 0 => \A k \in 1..read' : Len(Escaped(input'[k])) = 1 /\ Place'[k + 1] = k
    <2> SUFFICES ASSUME escapes' = 0, NEW k \in 1..(read + 1)
                 PROVE  Len(Escaped(input[k])) = 1 /\ Place[k + 1] = k
      BY <1>1, <1>2
    <2>1. escapes = 0 /\ ExtraFor(c) = 0 /\ read \in Nat
      BY <1>1, <1>4
    <2>2. CASE k = read + 1
      <3>1. escapes = Place[read + 1] - read
        BY <1>1 DEF CountInv
      <3>2. Len(Escaped(c)) = 1 /\ Place[read + 1] = read
        BY <1>4, <1>5, <2>1, <3>1
      <3>3. Place[(read + 1) + 1] = read + 1
        BY <1>5, <2>1, <3>2
      <3> QED
        BY <2>2, <3>2, <3>3 DEF c
    <2>3. CASE k # read + 1
      <3>1. k \in 1..read
        BY <2>1, <2>3
      <3> QED
        BY <1>1, <2>1, <3>1 DEF CountInv
    <2> QED
      BY <2>2, <2>3
  <1>8. CountInv'
    BY <1>1, <1>6, <1>7 DEF CountInv, Nothing
  <1> QED
    BY <1>1, <1>6, <1>8 DEF JsonInv

LEMMA PlainKept ==
  ASSUME JsonInv, PrintPlain
  PROVE  JsonInv'
  <1> DEFINE n == Len(input)
             cells == <<"quote">> \o input \o <<"quote", "end">>
  <1>1. /\ pass = "count" /\ pass' = "printed" /\ input' = input /\ escapes = 0 /\ read = n
        /\ output' = Store(output, 0, cells) /\ UNCHANGED <<read, escapes>>
        /\ input \in Seq(Characters) /\ CountInv /\ n \in Nat
    BY DEF PrintPlain, JsonInv
  <1>2. Place' = Place
    BY <1>1 DEF Place
  <1>3. /\ \A k \in 1..n : Len(Escaped(input[k])) = 1 /\ Place[k + 1] = k
        /\ Place[1] = 0 /\ escapes = Place[n + 1] - n /\ Place[n + 1] = n
    BY <1>1, Places DEF CountInv
  <1>4. /\ Len(cells) = n + 3 /\ cells[1] = "quote" /\ cells[n + 2] = "quote"
        /\ cells[n + 3] = "end" /\ \A k \in 1..n : cells[k + 1] = input[k]
    BY <1>1
  <1>5. /\ DOMAIN output' = 0..(n + 2)
        /\ \A k \in 0..(n + 2) : output'[k] = cells[k + 1]
    BY <1>1, <1>4 DEF Store, CountInv, Nothing
  <1> HIDE DEF cells
  <1>6. TextEnds' = n + 1
    BY <1>1, <1>2, <1>3 DEF TextEnds
  <1>7. output'[0] = "quote" /\ output'[n + 1] = "quote" /\ output'[n + 2] = "end"
    BY <1>1, <1>4, <1>5
  <1>8. \A k \in 1..n : \A j \in 1..Len(Escaped(input[k])) :
           output'[Place[k] + j] = Escaped(input[k])[j]
    <2> SUFFICES ASSUME NEW k \in 1..n PROVE output'[Place[k] + 1] = Escaped(input[k])[1]
      BY <1>3
    <2>1. Place[k] = k - 1
      <3>1. CASE k = 1
        BY <1>3, <3>1
      <3>2. CASE k # 1
        <4>1. k - 1 \in 1..n /\ (k - 1) + 1 = k
          BY <1>1, <3>2
        <4> QED
          BY <1>3, <4>1
      <3> QED
        BY <3>1, <3>2
    <2>2. input[k] \in Characters /\ Escaped(input[k]) = <<input[k]>>
      BY <1>1, <1>3, Sizes
    <2>3. output'[k] = input[k]
      BY <1>1, <1>4, <1>5
    <2> QED
      BY <2>1, <2>2, <2>3
  <1>9. StringIsWhole'
    BY <1>1, <1>2, <1>5, <1>6, <1>7, <1>8 DEF StringIsWhole
  <1> QED
    BY <1>1, <1>2, <1>3, <1>9 DEF JsonInv

LEMMA CopyStarts ==
  ASSUME JsonInv, CopyBegins
  PROVE  JsonInv'
  <1>1. /\ pass = "count" /\ pass' = "copy" /\ input' = input /\ read = Len(input)
        /\ output' = Store(output, 0, <<"quote">>) /\ escapes' = escapes /\ read' = 0 /\ put' = 1
        /\ input \in Seq(Characters) /\ CountInv /\ escapes \in Nat
    BY DEF CopyBegins, JsonInv
  <1>2. Place' = Place /\ Place[1] = 0
    BY <1>1, Places DEF Place
  <1>3. DOMAIN output' = 0..0 /\ output'[0] = "quote"
    BY <1>1 DEF Store, CountInv, Nothing
  <1>4. CopyInv'
    BY <1>1, <1>2, <1>3 DEF CopyInv
  <1> QED
    BY <1>1, <1>2, <1>4 DEF JsonInv, CountInv

LEMMA CopyKept ==
  ASSUME JsonInv, Copy
  PROVE  JsonInv'
  <1> DEFINE c == input[read + 1]
             s == Len(Escaped(c))
             cells == Written(c)
  <1>1. /\ pass = "copy" /\ pass' = "copy" /\ input' = input /\ escapes' = escapes
        /\ read \in Nat /\ read < Len(input) /\ read' = read + 1 /\ escapes \in Nat
        /\ output' = Store(output, put, cells) /\ put' = put + s
        /\ input \in Seq(Characters) /\ CopyInv /\ escapes = Place[Len(input) + 1] - Len(input)
    BY DEF Copy, JsonInv
  <1>2. Place' = Place
    BY <1>1 DEF Place
  <1>3. c \in Characters /\ read + 1 \in 1..Len(input)
    BY <1>1
  <1>4. /\ s \in Nat /\ s >= 1 /\ Len(cells) \in {s, s + 1}
        /\ \A j \in 1..s : cells[j] = Escaped(c)[j]
    BY <1>3, Sizes
  <1>5. /\ Place[read + 1] \in Nat /\ put = 1 + Place[read + 1] /\ put \in Nat
        /\ Place[(read + 1) + 1] = Place[read + 1] + s
    <2>1. /\ Place[read + 1] \in Nat
          /\ Place[(read + 1) + 1] = Place[read + 1] + s
      <3>1. input \in Seq(Characters) /\ read + 1 \in 1..(Len(input) + 1)
        BY <1>1
      <3> QED
        BY <1>3, <3>1, Places
    <2>2. put = 1 + Place[read + 1]
      BY <1>1 DEF CopyInv
    <2> QED
      BY <2>1, <2>2
  <1> HIDE DEF c, cells, s
  <1>6. put' = 1 + Place[read' + 1] /\ put' \in Nat
    <2>1. put' = 1 + Place[(read + 1) + 1] /\ put' \in Nat
      <3>1. put' = put + s
        BY <1>1
      <3> QED
        BY <1>4, <1>5, <3>1
    <2> QED
      BY <1>1, <2>1
  <1>7. DOMAIN output' \in {0..(put' - 1), 0..put'}
    <2>1. DOMAIN output' = (DOMAIN output) \cup put..(put + Len(cells) - 1)
      BY <1>1 DEF Store
    <2>2. DOMAIN output \in {0..(put - 1), 0..put}
      BY <1>1 DEF CopyInv
    <2>3. put' = put + s
      BY <1>1
    <2> DEFINE l == Len(cells)
    <2>4. l \in {s, s + 1} /\ s \in Nat /\ s >= 1 /\ put \in Nat
      BY <1>4, <1>5
    <2> HIDE DEF l
    <2>5. (DOMAIN output) \cup put..(put + l - 1) \in {0..(put + s - 1), 0..(put + s)}
      <3>1. CASE l = s
        BY <2>2, <2>4, <3>1
      <3>2. CASE l = s + 1
        BY <2>2, <2>4, <3>2
      <3> QED
        BY <2>4, <3>1, <3>2
    <2> QED
      <3>1. DOMAIN output' \in {0..(put + s - 1), 0..(put + s)}
        BY <2>1, <2>5 DEF l
      <3>2. put' - 1 = put + s - 1
        BY <2>3, <2>4
      <3> QED
        BY <2>3, <3>1, <3>2, Zenon
  <1>8. /\ \A p \in Nat : p < put /\ p \in DOMAIN output => output'[p] = output[p]
        /\ \A j \in 1..s : output'[Place[read + 1] + j] = Escaped(c)[j]
    <2>1. ASSUME NEW p \in Nat, p < put, p \in DOMAIN output PROVE output'[p] = output[p]
      BY <1>1, <1>4, <1>5, <2>1 DEF Store
    <2>2. ASSUME NEW j \in 1..s PROVE output'[Place[read + 1] + j] = Escaped(c)[j]
      <3>1. /\ put + j - 1 = Place[read + 1] + j /\ (put + j - 1) - put + 1 = j
            /\ put + j - 1 \in put..(put + Len(cells) - 1)
        <4>1. Len(cells) \in Nat /\ Len(cells) >= s /\ j \in Nat /\ j >= 1 /\ j <= s
          BY <1>4
        <4>2. put + j - 1 = Place[read + 1] + j
          BY <1>5, <4>1
        <4>3. (put + j - 1) - put + 1 = j
          BY <1>5, <4>1
        <4>4. put + j - 1 \in put..(put + Len(cells) - 1)
          BY <1>4, <1>5, <4>1
        <4> QED
          BY <4>2, <4>3, <4>4
      <3>2. output'[put + j - 1] = cells[j]
        BY <1>1, <3>1 DEF Store
      <3> QED
        BY <1>4, <3>1, <3>2
    <2> QED
      BY <2>1, <2>2
  <1>9. ASSUME NEW k \in 1..(read + 1)
        PROVE  /\ Place[k + 1] <= Place[(read + 1) + 1]
               /\ \A j \in 1..Len(Escaped(input[k])) :
                     output'[Place[k] + j] = Escaped(input[k])[j]
    <2>1. CASE k = read + 1
      <3>1. c = input[k] /\ s = Len(Escaped(c)) /\ Place[k] = Place[read + 1]
        BY <2>1 DEF c, s
      <3>2. Place[k + 1] = Place[(read + 1) + 1] /\ Place[(read + 1) + 1] \in Nat
        BY <1>4, <1>5, <2>1
      <3> QED
        BY <1>8, <3>1, <3>2
    <2>2. CASE k # read + 1
      <3>1. k \in 1..read /\ k \in 1..Len(input)
        BY <1>1, <2>2
      <3>2. /\ Place[k] \in Nat /\ Place[k + 1] = Place[k] + Len(Escaped(input[k]))
            /\ Place[k + 1] \in Nat /\ Len(Escaped(input[k])) \in Nat
        <4>1. input[k] \in Characters /\ k + 1 \in 1..(Len(input) + 1) /\ k \in 1..(Len(input) + 1)
          BY <1>1, <3>1
        <4> QED
          BY <1>1, <3>1, <4>1, Places, Sizes
      <3>3. /\ Place[k + 1] <= Place[read + 1]
            /\ \A j \in 1..Len(Escaped(input[k])) : output[Place[k] + j] = Escaped(input[k])[j]
        BY <1>1, <3>1 DEF CopyInv
      <3>4. \A j \in 1..Len(Escaped(input[k])) :
               Place[k] + j \in Nat /\ Place[k] + j < put /\ Place[k] + j \in DOMAIN output
        <4>1. DOMAIN output \in {0..(put - 1), 0..put}
          BY <1>1 DEF CopyInv
        <4>2. SUFFICES ASSUME NEW j \in 1..Len(Escaped(input[k]))
                       PROVE  Place[k] + j \in Nat /\ Place[k] + j <= Place[read + 1]
          BY <1>5, <4>1
        <4> QED
          BY <1>5, <3>2, <3>3
      <3> QED
        BY <1>4, <1>5, <1>8, <3>2, <3>3, <3>4
    <2> QED
      BY <2>1, <2>2
  <1>10. output'[0] = "quote"
    <2>1. output[0] = "quote" /\ DOMAIN output \in {0..(put - 1), 0..put}
      BY <1>1 DEF CopyInv
    <2> QED
      BY <1>5, <1>8, <2>1
  <1>11. CopyInv'
    BY <1>1, <1>2, <1>6, <1>7, <1>9, <1>10 DEF CopyInv
  <1> QED
    BY <1>1, <1>2, <1>11 DEF JsonInv

LEMMA CloseKept ==
  ASSUME JsonInv, Close
  PROVE  JsonInv'
  <1> DEFINE n == Len(input)
  <1>1. /\ pass = "copy" /\ pass' = "printed" /\ input' = input /\ escapes' = escapes /\ read' = read
        /\ read = n /\ n \in Nat /\ escapes \in Nat
        /\ output' = Store(output, OutputLength + 1, <<"quote", "end">>)
        /\ input \in Seq(Characters) /\ CopyInv /\ escapes = Place[n + 1] - n
    BY DEF Close, JsonInv
  <1>2. Place' = Place
    BY <1>1 DEF Place
  <1>3. Place[n + 1] \in Nat /\ OutputLength + 1 = put /\ TextEnds' = put /\ put \in Nat /\ put >= 1
    <2>1. Place[n + 1] \in Nat
      BY <1>1, Places
    <2>2. put = 1 + Place[n + 1] /\ TextEnds' = 1 + Place[n + 1]
      BY <1>1, <1>2 DEF TextEnds, CopyInv
    <2>3. OutputLength = n + escapes /\ escapes = Place[n + 1] - n /\ n \in Nat
      BY <1>1 DEF OutputLength
    <2> HIDE DEF n
    <2> QED
      BY <2>1, <2>2, <2>3
  <1>4. /\ DOMAIN output' = 0..(put + 1) /\ output'[put] = "quote" /\ output'[put + 1] = "end"
        /\ \A p \in 0..(put - 1) : output'[p] = output[p]
    <2>1. DOMAIN output \in {0..(put - 1), 0..put}
      BY <1>1 DEF CopyInv
    <2> QED
      BY <1>1, <1>3, <2>1 DEF Store
  <1>5. \A k \in 1..n : \A j \in 1..Len(Escaped(input[k])) :
           output'[Place[k] + j] = Escaped(input[k])[j]
    <2> SUFFICES ASSUME NEW k \in 1..n, NEW j \in 1..Len(Escaped(input[k]))
                 PROVE  output'[Place[k] + j] = Escaped(input[k])[j]
      OBVIOUS
    <2>1. /\ Place[k] \in Nat /\ Place[k + 1] = Place[k] + Len(Escaped(input[k]))
          /\ Len(Escaped(input[k])) \in Nat
      <3>1. input[k] \in Characters /\ k \in 1..(n + 1)
        BY <1>1
      <3> QED
        BY <1>1, <3>1, Places, Sizes
    <2>2. /\ Place[k + 1] <= Place[n + 1] /\ put = 1 + Place[n + 1]
          /\ output[Place[k] + j] = Escaped(input[k])[j]
      BY <1>1 DEF CopyInv
    <2>3. Place[k] + j \in 0..(put - 1)
      <3> DEFINE a == Place[k] + j  b == Place[k + 1]  z == Place[n + 1]
      <3>1. a \in Nat /\ a <= b /\ b \in Nat
        BY <2>1
      <3>2. b <= z /\ put = 1 + z /\ z \in Nat
        BY <1>3, <2>2
      <3> HIDE DEF a, b, z
      <3>3. a \in 0..(put - 1)
        BY <3>1, <3>2
      <3> QED
        BY <3>3 DEF a
    <2> QED
      BY <1>4, <2>2, <2>3
  <1>6. output'[0] = "quote"
    <2>1. output[0] = "quote"
      BY <1>1 DEF CopyInv
    <2> QED
      BY <1>3, <1>4, <2>1
  <1>7. StringIsWhole'
    BY <1>1, <1>2, <1>3, <1>4, <1>5, <1>6 DEF StringIsWhole
  <1> QED
    BY <1>1, <1>2, <1>7 DEF JsonInv

\* Each turn of the loops leaves the invariant, and it says that the string is whole.
LEMMA JsonInductive == JsonSpec => []JsonInv
  <1>1. JsonInv /\ [JsonNext]_jsonVars => JsonInv'
    <2> SUFFICES ASSUME JsonInv, [JsonNext]_jsonVars PROVE JsonInv'
      OBVIOUS
    <2>1. CASE AddIpInfo
      <3>1. /\ pass = "printed" /\ pass' = "done" /\ UNCHANGED <<input, read, escapes, output, put>>
            /\ \E behind \in Addresses : info' = IpInfo(behind)
        BY <2>1 DEF AddIpInfo
      <3>2. Place' = Place /\ (StringIsWhole' <=> StringIsWhole) /\ \A b : IpInfo(b)' = IpInfo(b)
        BY <3>1 DEF Place, StringIsWhole, TextEnds, IpInfo, OutputLength
      <3> QED
        BY <3>1, <3>2 DEF JsonInv
    <2>2. CASE UNCHANGED jsonVars
      <3>1. Place' = Place /\ (StringIsWhole' <=> StringIsWhole) /\ \A b : IpInfo(b)' = IpInfo(b)
        BY <2>2 DEF jsonVars, Place, StringIsWhole, TextEnds, IpInfo, OutputLength
      <3> QED
        BY <2>2, <3>1 DEF JsonInv, jsonVars, CountInv, CopyInv, Nothing
    <2> QED
      BY <2>1, <2>2, CountKept, PlainKept, CopyStarts, CopyKept, CloseKept DEF JsonNext
  <1> QED
    BY <1>1, JsonStarts, PTL DEF JsonSpec

\* Whatever is printed, of any length and however much of it has to be escaped, the two
\* passes of json_print_string agree, and nothing is written behind the string; the
\* ip information is whole and fits its buffer, but for the names that IpInfoFits says
\* (json.c:63-139, manager.c:267-313).
THEOREM EveryStringIsWhole == JsonSpec => []JsonIsWhole
  <1>1. JsonInv => JsonIsWhole
    <2> SUFFICES ASSUME JsonInv, pass = "done" PROVE IpInfoFits
      BY DEF JsonInv, JsonIsWhole
    <2>1. PICK behind \in Addresses : info = IpInfo(behind)
      BY DEF JsonInv
    <2>2. behind \in Nat /\ escapes \in Nat /\ Len(input) \in Nat
      BY AddressesAssumption DEF JsonInv
    <2>3. OutputLength \in Nat
      BY <2>2 DEF OutputLength
    <2> DEFINE used == KeyLen + OutputLength + 2
               room == Remaining(used)
               fit == IF room = 0 THEN 0 ELSE IF behind < room THEN behind ELSE room - 1
    <2>4. info.behind = behind /\ info.bytes = used + fit + 1 /\ (info.whole <=> fit = behind)
      BY <2>1 DEF IpInfo
    <2>5. used = OutputLength + 10 /\ (used <= 159 => room = 159 - used)
      BY <2>3 DEF KeyLen, Remaining, JSON_IP_INFO_SIZE
    <2> HIDE DEF used, room
    <2>6. behind <= 94 /\ OutputLength <= 54 => fit = behind
      BY <2>2, <2>3, <2>5
    <2>7. OutputLength <= 148 => used + fit + 1 \in 0..159
      <3> SUFFICES ASSUME OutputLength <= 148 PROVE used + fit + 1 \in 0..159
        OBVIOUS
      <3>1. used \in 0..158 /\ room = 159 - used /\ room # 0 /\ room \in 1..159
        BY <2>3, <2>5
      <3>2. fit \in Nat /\ fit <= room - 1
        BY <2>2, <3>1
      <3> HIDE DEF fit
      <3> QED
        BY <3>1, <3>2
    <2>8. JSON_IP_INFO_SIZE = 159
      BY DEF JSON_IP_INFO_SIZE
    <2> HIDE DEF fit
    <2>9. info.behind <= 94 /\ OutputLength <= 54 => info.whole
      BY <2>4, <2>6
    <2>10. info.bytes > 159 => OutputLength > 148
      BY <2>3, <2>4, <2>7
    <2> QED
      BY <2>8, <2>9, <2>10 DEF IpInfoFits
  <1> QED
    BY <1>1, JsonInductive, PTL

(***************************************************************************)
(* The DNS hijack: the bytes of a query, and where they are.               *)
(***************************************************************************)
\* The first question is not folded by the remainder that finds the later ones.
LEMMA SmallRemainder ==
  ASSUME NEW x \in Nat, NEW y \in Nat, x < y
  PROVE  x % y = x
  OBVIOUS

\* There is one question at least.
LEMMA TimesIsMore ==
  ASSUME NEW x \in Nat, NEW y \in Nat, y >= 1
  PROVE  y * x \in Nat /\ y * x >= x
  OBVIOUS

\* The root is the name without labels.
LEMMA EmptyHasNoLength ==
  ASSUME NEW S, NEW s \in Seq(S)
  PROVE  s = << >> <=> Len(s) = 0
  OBVIOUS

\* What is given by its places is a sequence of that length.
LEMMA LengthOf ==
  ASSUME NEW m \in Nat, NEW S, NEW p \in [1..m -> S]
  PROVE  Len(p) = m
  <1>1. p \in Seq(S)
    OBVIOUS
  <1> QED
    BY <1>1

\* A label takes its length and one byte more, and its length is not the end of a name.
LEMMA LabelSize ==
  ASSUME NEW x \in 1..63
  PROVE  x \in Nat /\ x # 0 /\ x + 1 \in Nat /\ \A y \in Nat : y + (x + 1) = y + x + 1
  OBVIOUS

\* Each label is behind the one before it, and the name ends behind the last.
LEMMA LabelsFollow ==
  ASSUME NEW q \in Queries
  PROVE  /\ Len(q.labels) \in Nat /\ \A k \in 1..Len(q.labels) : q.labels[k] \in 1..63
         /\ LabelStarts(q) \in [1..(Len(q.labels) + 1) -> Nat] /\ LabelStarts(q)[1] = 0
         /\ \A k \in 1..Len(q.labels) : LabelStarts(q)[k + 1] = LabelStarts(q)[k] + q.labels[k] + 1
         /\ \A j, k \in 1..(Len(q.labels) + 1) : j < k => LabelStarts(q)[j] < LabelStarts(q)[k]
  <1> DEFINE n == Len(q.labels)
             sizes == [k \in 1..n |-> q.labels[k] + 1]
             s == LabelStarts(q)
  <1>1. n \in Nat /\ \A k \in 1..n : q.labels[k] \in 1..63
    <2>1. q.labels \in Seq(1..63)
      BY QueriesAssumption
    <2> QED
      BY <2>1, ElementOfSeq, LenProperties
  <1>2. sizes \in Seq(Nat) /\ Len(sizes) = n /\ \A k \in 1..n : sizes[k] = q.labels[k] + 1
    <2>1. ASSUME NEW k \in 1..n PROVE q.labels[k] + 1 \in Nat
      <3>1. q.labels[k] \in 1..63
        BY <1>1
      <3> QED
        BY <3>1, LabelSize
    <2>2. sizes \in [1..n -> Nat]
      BY <2>1
    <2> QED
      BY <1>1, <2>2, LengthOf
  <1>3. s = Before(sizes)
    BY DEF LabelStarts
  <1> HIDE DEF sizes, s
  <1>4. /\ s \in [1..(n + 1) -> Nat] /\ s[1] = 0
        /\ \A k \in 1..n : s[k + 1] = s[k] + q.labels[k] + 1
    <2>1. /\ s \in [1..(n + 1) -> Nat] /\ s[1] = 0
          /\ \A k \in 1..n : s[k + 1] = s[k] + sizes[k]
      BY <1>2, <1>3, BeforeAdds
    <2>2. ASSUME NEW k \in 1..n PROVE s[k + 1] = s[k] + q.labels[k] + 1
      <3>1. q.labels[k] \in 1..63 /\ k \in 1..(n + 1)
        <4>1. q.labels[k] \in 1..63
          BY <1>1
        <4>2. n \in Nat
          BY <1>1
        <4> HIDE DEF n
        <4>3. k \in 1..(n + 1)
          BY <4>2
        <4> QED
          BY <4>1, <4>3
      <3>2. s[k] \in Nat /\ s[k + 1] = s[k] + (q.labels[k] + 1)
        BY <1>2, <2>1, <3>1
      <3> QED
        BY <3>1, <3>2, LabelSize
    <2> QED
      BY <2>1, <2>2
  <1> HIDE DEF n
  <1> DEFINE S == {m \in Nat : \A j \in 1..(n + 1) : j + m <= n + 1 => s[j] + m <= s[j + m]}
  <1>5. 0 \in S
    BY <1>1, <1>4
  <1>6. ASSUME NEW m \in Nat, m \in S
        PROVE  m + 1 \in S
    <2> SUFFICES ASSUME NEW j \in 1..(n + 1), j + (m + 1) <= n + 1
                 PROVE  s[j] + (m + 1) <= s[j + (m + 1)]
      OBVIOUS
    <2>1. j + m \in 1..n /\ j + (m + 1) = (j + m) + 1
      BY <1>1
    <2>2. s[j] \in Nat /\ s[j + m] \in Nat /\ q.labels[j + m] \in 1..63 /\ s[j] + m <= s[j + m]
      BY <1>1, <1>4, <1>6, <2>1
    <2>3. s[(j + m) + 1] = s[j + m] + q.labels[j + m] + 1
      BY <1>4, <2>1
    <2> QED
      BY <2>1, <2>2, <2>3
  <1>7. Nat \subseteq S
    <2> HIDE DEF S
    <2> QED
      BY <1>5, <1>6, AllNumbers
  <1>8. ASSUME NEW j \in 1..(n + 1), NEW k \in 1..(n + 1), j < k
        PROVE  s[j] < s[k]
    <2>1. k - j \in Nat /\ k - j >= 1 /\ j + (k - j) = k
      BY <1>1, <1>8
    <2>2. k - j \in S
      BY <1>7, <2>1
    <2>3. s[j] + (k - j) <= s[k] /\ s[j] \in Nat /\ s[k] \in Nat
      BY <1>1, <1>4, <2>1, <2>2
    <2> QED
      BY <2>1, <2>3
  <1> QED
    BY <1>1, <1>4, <1>8 DEF n, s

\* The sizes of a query and of what is received of it.
LEMMA QuerySizes ==
  ASSUME NEW q \in Queries
  PROVE  /\ NameLen(q) \in Nat /\ NameLen(q) >= 1 /\ QuestionLen(q) = NameLen(q) + 4
         /\ (Len(q.labels) = 0 => NameLen(q) = 1)
         /\ QuestionsEnd(q) \in Nat /\ QuestionsEnd(q) >= NameLen(q) + 16
         /\ ReceivedLen(q) \in Nat /\ ReceivedLen(q) >= 17 /\ ReceivedLen(q) <= 127
         /\ ReceivedLen(q) <= QueryLen(q) /\ QueryLen(q) \in Nat
         /\ ReceivedLen(q) = QueryLen(q) \/ ReceivedLen(q) = 127
         /\ QueryLen(q) = IF q.edns THEN QuestionsEnd(q) + 11 ELSE QuestionsEnd(q)
  <1>1. /\ Len(q.labels) \in Nat
        /\ LabelStarts(q) \in [1..(Len(q.labels) + 1) -> Nat] /\ LabelStarts(q)[1] = 0
    BY LabelsFollow
  <1>2. NameLen(q) \in Nat /\ NameLen(q) >= 1 /\ (Len(q.labels) = 0 => NameLen(q) = 1)
    <2>1. LabelStarts(q)[Len(q.labels) + 1] \in Nat
      BY <1>1
    <2>2. Len(q.labels) = 0 => LabelStarts(q)[Len(q.labels) + 1] = 0
      BY <1>1
    <2> QED
      BY <2>1, <2>2 DEF NameLen
  <1>3. QuestionLen(q) = NameLen(q) + 4 /\ QuestionLen(q) \in Nat
    BY <1>2 DEF QuestionLen
  <1>4. q.questions \in 1..255 /\ q.edns \in BOOLEAN
    BY QueriesAssumption
  <1>5. QuestionsEnd(q) \in Nat /\ QuestionsEnd(q) >= NameLen(q) + 16
    <2>1. q.questions * QuestionLen(q) \in Nat /\ q.questions * QuestionLen(q) >= QuestionLen(q)
      BY <1>3, <1>4, TimesIsMore
    <2> DEFINE p == q.questions * QuestionLen(q)
    <2>2. QuestionsEnd(q) = 12 + p
      BY DEF QuestionsEnd, HeaderLen
    <2> HIDE DEF p
    <2> QED
      BY <1>2, <1>3, <2>1, <2>2 DEF p
  <1>6. Len(Opt) = 11
    BY DEF Opt
  <1>7. QueryLen(q) = IF q.edns THEN QuestionsEnd(q) + 11 ELSE QuestionsEnd(q)
    BY <1>4, <1>5, <1>6 DEF QueryLen
  <1>8. /\ ReceivedLen(q) \in Nat /\ ReceivedLen(q) >= 17 /\ ReceivedLen(q) <= 127
        /\ ReceivedLen(q) <= QueryLen(q) /\ QueryLen(q) \in Nat
        /\ ReceivedLen(q) = QueryLen(q) \/ ReceivedLen(q) = 127
    <2>1. QueryLen(q) \in Nat /\ QueryLen(q) >= 17
      BY <1>2, <1>4, <1>5, <1>7
    <2>2. ReceivedLen(q) = IF QueryLen(q) < 127 THEN QueryLen(q) ELSE 127
      BY DEF ReceivedLen, RxMax
    <2> QED
      BY <2>1, <2>2
  <1> QED
    BY <1>2, <1>3, <1>5, <1>7, <1>8

\* A label has its length before it, the name has a zero behind it.
LEMMA NameBytes ==
  ASSUME NEW q \in Queries
  PROVE  /\ LabelStarts(q)[Len(q.labels) + 1] = NameLen(q) - 1
         /\ NameByte(q, NameLen(q) - 1) = 0
         /\ \A k \in 1..Len(q.labels) : /\ LabelStarts(q)[k] \in 0..(NameLen(q) - 2)
                                        /\ NameByte(q, LabelStarts(q)[k]) = q.labels[k]
  <1> DEFINE n == Len(q.labels)
             s == LabelStarts(q)
  <1>1. n \in Nat /\ n + 1 \in 1..(n + 1) /\ \A k \in 1..n : k \in 1..(n + 1) /\ k < n + 1
    BY LabelsFollow
  <1>2. s[n + 1] \in Nat /\ \A k \in 1..n : s[k] \in Nat /\ s[k] < s[n + 1]
    BY <1>1, LabelsFollow
  <1>3. NameLen(q) = s[n + 1] + 1
    BY DEF NameLen
  <1>4. s[n + 1] = NameLen(q) - 1
    BY <1>2, <1>3
  <1>5. ASSUME NEW k \in 1..n
        PROVE  s[k] \in 0..(NameLen(q) - 2) /\ NameByte(q, s[k]) = q.labels[k]
    <2>1. s[k] \in 0..(NameLen(q) - 2) /\ s[k] # NameLen(q) - 1
      <3>1. s[k] \in Nat /\ s[k] < s[n + 1]
        BY <1>2
      <3> HIDE DEF s, n
      <3> QED
        BY <1>2, <1>3, <3>1
    <2>2. \A j \in 1..n : s[j] = s[k] => j = k
      <3> SUFFICES ASSUME NEW j \in 1..n, s[j] = s[k], j # k PROVE FALSE
        OBVIOUS
      <3>1. s[j] < s[k] \/ s[k] < s[j]
        <4>1. j < k \/ k < j
          BY <1>1
        <4> QED
          BY <1>1, <4>1, LabelsFollow
      <3> QED
        BY <1>2, <3>1
    <2>3. (CHOOSE j \in 1..n : s[j] = s[k]) = k
      <3> HIDE DEF s, n
      <3> QED
        BY <2>2
    <2>4. NameByte(q, s[k]) = q.labels[CHOOSE j \in 1..n : s[j] = s[k]]
      BY <2>1 DEF NameByte
    <2> QED
      BY <2>1, <2>3, <2>4
  <1> QED
    BY <1>4, <1>5 DEF NameByte

\* Behind the name are the type and the class.
LEMMA QuestionBytes ==
  ASSUME NEW q \in Queries
  PROVE  /\ QuestionByte(q, NameLen(q) - 1) = 0
         /\ \A k \in 1..Len(q.labels) : QuestionByte(q, LabelStarts(q)[k]) = q.labels[k]
         /\ QuestionByte(q, NameLen(q)) = 0 /\ QuestionByte(q, NameLen(q) + 1) = q.type
         /\ QuestionByte(q, NameLen(q) + 2) = 0 /\ QuestionByte(q, NameLen(q) + 3) = 1
  <1> DEFINE m == NameLen(q)
  <1>1. m \in Nat /\ m >= 1
    BY QuerySizes
  <1>2. \A k : k < m => QuestionByte(q, k) = NameByte(q, k)
    BY DEF QuestionByte
  <1>3. \A k : ~(k < m) => QuestionByte(q, k) = <<0, q.type, 0, 1>>[k - m + 1]
    BY DEF QuestionByte
  <1>4. m - 1 < m /\ \A k \in 1..Len(q.labels) : LabelStarts(q)[k] < m
    <2>1. \A k \in 1..Len(q.labels) : LabelStarts(q)[k] \in 0..(m - 2)
      BY NameBytes
    <2> HIDE DEF m
    <2> QED
      BY <1>1, <2>1
  <1>5. /\ QuestionByte(q, m - 1) = 0
        /\ \A k \in 1..Len(q.labels) : QuestionByte(q, LabelStarts(q)[k]) = q.labels[k]
    BY <1>2, <1>4, NameBytes
  <1> DEFINE end == <<0, q.type, 0, 1>>
  <1>6. /\ QuestionByte(q, m) = end[1] /\ QuestionByte(q, m + 1) = end[2]
        /\ QuestionByte(q, m + 2) = end[3] /\ QuestionByte(q, m + 3) = end[4]
    <2>1. \A k \in Nat : ~(k < m) => QuestionByte(q, k) = end[k - m + 1]
      BY <1>3
    <2> HIDE DEF m, end
    <2>2. \A j \in 0..3 : QuestionByte(q, m + j) = end[j + 1]
      <3> SUFFICES ASSUME NEW j \in 0..3 PROVE QuestionByte(q, m + j) = end[j + 1]
        OBVIOUS
      <3>1. m + j \in Nat /\ ~(m + j < m) /\ (m + j) - m + 1 = j + 1
        BY <1>1
      <3> QED
        BY <2>1, <3>1
    <2> QED
      BY <1>1, <2>2
  <1> QED
    BY <1>5, <1>6

\* The first question follows the header, and the record of EDNS the last question.
LEMMA QueryBytes ==
  ASSUME NEW q \in Queries
  PROVE  /\ \A k \in 0..11 : QueryByte(q, k) = Header(q)[k + 1]
         /\ \A k \in 0..(NameLen(q) + 3) : QueryByte(q, 12 + k) = QuestionByte(q, k)
         /\ QueryByte(q, QuestionsEnd(q)) = 0
  <1> DEFINE e == QuestionsEnd(q)
             m == NameLen(q)
  <1>1. m \in Nat /\ e \in Nat /\ e >= m + 16 /\ QuestionLen(q) = m + 4
    BY QuerySizes
  <1>2. \A k \in 0..11 : QueryByte(q, k) = Header(q)[k + 1]
    BY DEF QueryByte, HeaderLen
  <1>3. ASSUME NEW k \in 0..(m + 3) PROVE QueryByte(q, 12 + k) = QuestionByte(q, k)
    <2>1. /\ ~(12 + k < 12) /\ 12 + k < e /\ (12 + k) - 12 = k /\ k % (m + 4) = k
      <3>1. k \in Nat /\ m + 4 \in Nat /\ k < m + 4
        BY <1>1
      <3>2. k % (m + 4) = k
        BY <3>1, SmallRemainder
      <3> HIDE DEF m, e
      <3> QED
        BY <1>1, <3>1, <3>2
    <2>2. QueryByte(q, 12 + k) = QuestionByte(q, ((12 + k) - 12) % QuestionLen(q))
      BY <2>1 DEF QueryByte, HeaderLen
    <2> QED
      BY <1>1, <2>1, <2>2
  <1>4. QueryByte(q, e) = 0
    <2>1. ~(e < 12) /\ ~(e < e) /\ e - e + 1 = 1
      <3> HIDE DEF e
      <3> QED
        BY <1>1
    <2>2. QueryByte(q, e) = Opt[e - e + 1]
      BY <2>1 DEF QueryByte, HeaderLen
    <2> QED
      BY <2>1, <2>2 DEF Opt
  <1> QED
    BY <1>2, <1>3, <1>4

\* The buffer has what was received, and zeros behind it.
LEMMA CopiedBytes ==
  ASSUME NEW q \in Queries
  PROVE  /\ Len(Copied(q)) = 256
         /\ \A k \in 0..255 : At(Copied(q), k) = IF k < ReceivedLen(q) THEN QueryByte(q, k) ELSE 0
  <1> DEFINE byte(k) == IF k <= ReceivedLen(q) THEN QueryByte(q, k - 1) ELSE 0
  <1>1. Copied(q) = [k \in 1..256 |-> byte(k)]
    BY DEF Copied, DNS_MAX_LEN
  <1>2. Len(Copied(q)) = 256
    <2> HIDE DEF byte
    <2>1. [k \in 1..256 |-> byte(k)] \in [1..256 -> {byte(k) : k \in 1..256}]
      OBVIOUS
    <2> QED
      BY <1>1, <2>1, LengthOf
  <1>3. ASSUME NEW k \in 0..255
        PROVE  At(Copied(q), k) = IF k < ReceivedLen(q) THEN QueryByte(q, k) ELSE 0
    <2>1. k + 1 \in 1..256 /\ (k + 1) - 1 = k /\ (k + 1 <= ReceivedLen(q) <=> k < ReceivedLen(q))
      <3>1. ReceivedLen(q) \in Nat
        BY QuerySizes
      <3> QED
        BY <3>1
    <2>2. Copied(q)[k + 1] = byte(k + 1)
      <3> HIDE DEF byte
      <3> QED
        BY <1>1, <2>1
    <2> QED
      BY <2>1, <2>2 DEF At
  <1> QED
    BY <1>2, <1>3

\* What Put changes and what it leaves.
Changed(p, r, n, bytes) ==
    /\ Len(r) = 256
    /\ \A k \in 0..255 : k < n \/ k >= n + Len(bytes) => At(r, k) = At(p, k)
    /\ \A k \in 0..(Len(bytes) - 1) : n + k <= 255 => At(r, n + k) = bytes[k + 1]

LEMMA PutBytes ==
  ASSUME NEW p, Len(p) = 256, NEW n \in Nat, NEW bytes, Len(bytes) \in Nat
  PROVE  Changed(p, Put(p, n, bytes), n, bytes)
  <1> DEFINE l == Len(bytes)
             byte(k) == IF k - n \in 1..l THEN bytes[k - n] ELSE p[k]
  <1>1. Put(p, n, bytes) = [k \in 1..256 |-> byte(k)]
    BY DEF Put
  <1>0. l \in Nat
    OBVIOUS
  <1> HIDE DEF l
  <1>2. Len(Put(p, n, bytes)) = 256
    <2> HIDE DEF byte
    <2>1. [k \in 1..256 |-> byte(k)] \in [1..256 -> {byte(k) : k \in 1..256}]
      OBVIOUS
    <2> QED
      BY <1>1, <2>1, LengthOf
  <1>3. ASSUME NEW k \in 0..255 PROVE At(Put(p, n, bytes), k) = byte(k + 1)
    <2> HIDE DEF byte
    <2> QED
      BY <1>1 DEF At
  <1>4. ASSUME NEW k \in 0..255, k < n \/ k >= n + l
        PROVE  At(Put(p, n, bytes), k) = At(p, k)
    <2>1. ~((k + 1) - n \in 1..l)
      BY <1>0, <1>4
    <2> QED
      BY <1>3, <2>1 DEF At
  <1>5. ASSUME NEW j \in 0..(l - 1), n + j <= 255
        PROVE  At(Put(p, n, bytes), n + j) = bytes[j + 1]
    <2>0. j \in Nat /\ j < l
      BY <1>0
    <2>1. n + j \in 0..255 /\ ((n + j) + 1) - n = j + 1 /\ j + 1 \in 1..l
      <3>1. n + j \in 0..255
        BY <1>5, <2>0
      <3>2. ((n + j) + 1) - n = j + 1
        BY <2>0
      <3>3. j + 1 \in 1..l
        BY <1>0, <2>0
      <3> QED
        BY <3>1, <3>2, <3>3
    <2>2. byte((n + j) + 1) = bytes[((n + j) + 1) - n]
      BY <2>1
    <2> HIDE DEF byte
    <2>3. At(Put(p, n, bytes), n + j) = byte((n + j) + 1)
      BY <1>3, <2>1, Zenon
    <2> QED
      BY <2>1, <2>2, <2>3, Zenon
  <1> QED
    BY <1>2, <1>4, <1>5 DEF l, Changed

\* A second answer takes the place of the first.
LEMMA PutOver ==
  ASSUME NEW p, Len(p) = 256, NEW n \in Nat, NEW old, Len(old) = 16, NEW new, Len(new) = 16
  PROVE  Put(Put(p, n, old), n, new) = Put(p, n, new)
  <1>1. Len(Put(p, n, old)) = 256
    BY PutBytes DEF Changed
  <1>2. \A k \in 1..256 : ~(k - n \in 1..16) => Put(p, n, old)[k] = p[k]
    BY DEF Put
  <1> QED
    BY <1>1, <1>2 DEF Put

\* The bytes of an answer that tell where it begins, and what it answers.
LEMMA AnswerBytes ==
  ASSUME NEW t, NEW c
  PROVE  /\ Len(Answer(t, c)) = 16
         /\ Answer(t, c)[1] = 192 /\ Answer(t, c)[2] = 12
         /\ Answer(t, c)[3] = t \div 256 /\ Answer(t, c)[4] = t % 256
         /\ Answer(t, c)[5] = c \div 256 /\ Answer(t, c)[6] = c % 256
         /\ Answer(t, c)[7] = 0 /\ Answer(t, c)[9] = 1
         /\ \A k \in 7..16 : Answer(t, c)[k] # 192
  <1> DEFINE a == t \div 256  b == t % 256  d == c \div 256  e == c % 256
             head == <<192, 12, a, b, d, e, 0, 0, 1, 44, 0, 4>>
             tail == <<10, 10, 0, 1>>
  <1>1. Answer(t, c) = head \o tail
    BY DEF Answer, PortalIp, HeaderLen
  <1> HIDE DEF a, b, d, e
  <1>2. /\ Len(head) = 12 /\ Len(tail) = 4
        /\ \A k \in 1..4 : tail[k] # 192
    OBVIOUS
  <1>3. /\ Len(head \o tail) = 16 /\ \A k \in 1..12 : (head \o tail)[k] = head[k]
        /\ \A k \in 13..16 : (head \o tail)[k] = tail[k - 12]
    OBVIOUS
  <1>4. /\ head[1] = 192 /\ head[2] = 12 /\ head[3] = a /\ head[4] = b /\ head[5] = d
        /\ head[6] = e /\ head[7] = 0 /\ head[9] = 1
        /\ \A k \in 7..12 : head[k] # 192
    OBVIOUS
  <1> DEFINE whole == head \o tail
  <1>5. \A k \in 7..16 : whole[k] # 192
    <2>0. /\ \A k \in 1..12 : whole[k] = head[k]
          /\ \A k \in 13..16 : whole[k] = tail[k - 12]
      BY <1>3
    <2> HIDE DEF whole, head, tail
    <2> SUFFICES ASSUME NEW k \in 7..16 PROVE whole[k] # 192
      OBVIOUS
    <2>1. CASE k \in 7..12
      BY <1>4, <2>0, <2>1
    <2>2. CASE k \in 13..16
      <3>1. k - 12 \in 1..4
        BY <2>2
      <3> QED
        BY <1>2, <2>0, <2>2, <3>1
    <2> QED
      BY <2>1, <2>2
  <1>6. /\ Len(Answer(t, c)) = 16
        /\ \A k \in 1..12 : Answer(t, c)[k] = head[k]
        /\ \A k \in 7..16 : Answer(t, c)[k] # 192
    BY <1>1, <1>3, <1>5
  <1> QED
    BY <1>4, <1>6 DEF a, b, d, e

LEMMA AnswerSize == \A t, c : Len(Answer(t, c)) = 16
  BY AnswerBytes

\* The reply with the marks of a reply, and with the answer in it.
Marked(q) == Put(Put(Copied(q), 2, <<128 + (At(Copied(q), 2) % 128)>>),
                 6, <<q.questions \div 256, q.questions % 256>>)
Answering(q, class) == Put(Marked(q), ReceivedLen(q), Answer(TypeA, class))
Made(q, p) == p = Marked(q) \/ \E class : p = Answering(q, class)

\* The header of the copied query: its flags and its number of questions.
LEMMA HeaderBytes ==
  ASSUME NEW q \in Queries
  PROVE  /\ At(Copied(q), 2) \in Nat /\ At(Copied(q), 3) = (16 * q.cd) + (32 * q.ad)
         /\ At(Copied(q), 4) = 0 /\ At(Copied(q), 5) = q.questions
  <1>1. /\ q.opcode \in 0..15 /\ q.questions \in 1..255 /\ q.ad \in 0..1 /\ q.cd \in 0..1
    BY QueriesAssumption
  <1>2. \A k \in 0..11 : At(Copied(q), k) = Header(q)[k + 1]
    <2> SUFFICES ASSUME NEW k \in 0..11 PROVE At(Copied(q), k) = Header(q)[k + 1]
      OBVIOUS
    <2>1. k < ReceivedLen(q) /\ k \in 0..255
      BY QuerySizes
    <2> QED
      BY <2>1, CopiedBytes, QueryBytes
  <1>3. /\ At(Copied(q), 2) = Header(q)[3] /\ At(Copied(q), 3) = Header(q)[4]
        /\ At(Copied(q), 4) = Header(q)[5] /\ At(Copied(q), 5) = Header(q)[6]
    BY <1>2
  <1>4. /\ Header(q)[3] = (8 * q.opcode) + 1 /\ Header(q)[4] = (16 * q.cd) + (32 * q.ad)
        /\ Header(q)[5] = 0 /\ Header(q)[6] = q.questions
    BY DEF Header
  <1> QED
    BY <1>1, <1>3, <1>4

\* Marking changes the flags and the number of answers only.
LEMMA MarkedBytes ==
  ASSUME NEW q \in Queries
  PROVE  /\ Len(Marked(q)) = 256
         /\ At(Marked(q), 2) \in Nat /\ At(Marked(q), 2) >= 128
         /\ Word(Marked(q), 4) = q.questions /\ Word(Marked(q), 6) = q.questions
         /\ \A k \in 8..255 : At(Marked(q), k) = At(Copied(q), k)
  <1> DEFINE one == <<128 + (At(Copied(q), 2) % 128)>>
             two == <<q.questions \div 256, q.questions % 256>>
             p == Put(Copied(q), 2, one)
  <1>1. q.questions \in 1..255
    BY QueriesAssumption
  <1>2. Len(one) = 1 /\ Len(two) = 2 /\ one[1] = 128 + (At(Copied(q), 2) % 128)
        /\ two[1] = 0 /\ two[2] = q.questions
    BY <1>1
  <1>3. one[1] \in Nat /\ one[1] >= 128
    BY <1>2, HeaderBytes
  <1>4. Marked(q) = Put(p, 6, two)
    BY DEF Marked
  <1> HIDE DEF one, two
  <1>5. /\ Len(p) = 256 /\ At(p, 2) = one[1]
        /\ \A k \in 3..255 : At(p, k) = At(Copied(q), k)
    <2>1. Len(Copied(q)) = 256
      BY CopiedBytes
    <2>2. Changed(Copied(q), p, 2, one)
      <3>1. Len(one) \in Nat /\ 2 \in Nat
        BY <1>2
      <3> QED
        BY <2>1, <3>1, PutBytes
    <2> HIDE DEF p
    <2> QED
      BY <1>2, <2>2 DEF Changed
  <1> HIDE DEF p
  <1>6. /\ Len(Marked(q)) = 256 /\ At(Marked(q), 2) = At(p, 2)
        /\ At(Marked(q), 4) = At(p, 4) /\ At(Marked(q), 5) = At(p, 5)
        /\ At(Marked(q), 6) = two[1] /\ At(Marked(q), 7) = two[2]
        /\ \A k \in 8..255 : At(Marked(q), k) = At(p, k)
    <2>1. Changed(p, Marked(q), 6, two)
      <3>1. Len(two) \in Nat /\ 6 \in Nat
        BY <1>2
      <3> QED
        <4>1. Len(p) = 256
          BY <1>5
        <4>2. Changed(p, Put(p, 6, two), 6, two)
          BY <3>1, <4>1, PutBytes
        <4> QED
          BY <1>4, <4>2
    <2> QED
      BY <1>2, <2>1 DEF Changed
  <1>7. Word(Marked(q), 4) = q.questions /\ Word(Marked(q), 6) = q.questions
    BY <1>1, <1>2, <1>5, <1>6, HeaderBytes DEF Word
  <1> QED
    BY <1>3, <1>5, <1>6, <1>7

\* Where the bytes of a reply come from.
LEMMA ReplyBytes ==
  ASSUME NEW q \in Queries, NEW p, Made(q, p)
  PROVE  /\ Len(p) = 256
         /\ \A k \in 0..(ReceivedLen(q) - 1) : At(p, k) = At(Marked(q), k)
         /\ Word(p, 4) = q.questions
         /\ \A k \in 0..(NameLen(q) + 3) :
               12 + k < ReceivedLen(q) => At(p, 12 + k) = QuestionByte(q, k)
  <1>1. ReceivedLen(q) \in Nat /\ ReceivedLen(q) >= 17 /\ ReceivedLen(q) <= 127
    BY QuerySizes
  <1>2. Len(p) = 256 /\ \A k \in 0..(ReceivedLen(q) - 1) : At(p, k) = At(Marked(q), k)
    <2>1. CASE p = Marked(q)
      BY <2>1, MarkedBytes
    <2>2. CASE \E c : p = Answering(q, c)
      <3>1. PICK c : p = Put(Marked(q), ReceivedLen(q), Answer(TypeA, c))
        BY <2>2 DEF Answering
      <3>2. Len(Answer(TypeA, c)) = 16
        BY AnswerBytes
      <3>3. Changed(Marked(q), p, ReceivedLen(q), Answer(TypeA, c))
        <4>1. Len(Answer(TypeA, c)) \in Nat /\ ReceivedLen(q) \in Nat /\ Len(Marked(q)) = 256
          BY <1>1, <3>2, MarkedBytes
        <4> QED
          BY <3>1, <4>1, PutBytes, Zenon
      <3>4. \A k \in 0..(ReceivedLen(q) - 1) : k \in 0..255 /\ k < ReceivedLen(q)
        BY <1>1
      <3> QED
        BY <3>2, <3>3, <3>4 DEF Changed
    <2> QED
      BY <2>1, <2>2 DEF Made
  <1>3. Word(p, 4) = q.questions
    BY <1>1, <1>2, MarkedBytes DEF Word
  <1>4. ASSUME NEW k \in 0..(NameLen(q) + 3), 12 + k < ReceivedLen(q)
        PROVE  At(p, 12 + k) = QuestionByte(q, k)
    <2>1. 12 + k \in 8..255 /\ 12 + k \in 0..255 /\ 12 + k \in 0..(ReceivedLen(q) - 1)
      <3>1. k \in Nat
        BY QuerySizes
      <3> QED
        BY <1>1, <1>4, <3>1
    <2>2. At(p, 12 + k) = At(Marked(q), 12 + k)
      BY <1>2, <2>1
    <2>3. At(Marked(q), 12 + k) = At(Copied(q), 12 + k)
      BY <2>1, MarkedBytes
    <2>4. At(Copied(q), 12 + k) = QueryByte(q, 12 + k)
      BY <1>4, <2>1, CopiedBytes
    <2> QED
      BY <2>2, <2>3, <2>4, QueryBytes
  <1> QED
    BY <1>2, <1>3, <1>4

(***************************************************************************)
(* The DNS hijack: the loops.                                              *)
(***************************************************************************)
\* What is meant to be answered, and where the chip does not object.
Sought == Meant /\ NameLen(query) % 2 = 0

ReplyLen == (query.questions * 16) + ReceivedLen(query)

\* A query that was accepted: what the reply is, and how much room it has.
Taken == /\ query.ad = 0 /\ query.cd = 0 /\ ReplyLen <= 256
         /\ Made(query, dns_reply)
         /\ Len(query.labels) = 0 => dns_reply = Marked(query)
         /\ Sought /\ turn > 0 => dns_reply = Answering(query, 1)

\* parse_dns_name is at a label, and behind the last; it misses the end of the root.
AtLabel == /\ Len(query.labels) = 0 => label = 12
           /\ Sought => \E k \in 1..Len(query.labels) : label = 12 + LabelStarts(query)[k]
AtEnd == /\ Len(query.labels) = 0 => label = 13
         /\ Sought => label = 11 + NameLen(query)

Ended == /\ sent = << >> \/ (Taken /\ sent = SubSeq(dns_reply, 1, ReplyLen))
         /\ Sought => sent = SubSeq(Answering(query, 1), 1, ReplyLen)

DnsInv == /\ query \in Queries /\ turn \in Nat
          /\ dstep \in {"request", "question", "name", "type", "done"}
          /\ dstep # "done" => sent = << >>
          /\ dstep = "request" => dns_reply = Copied(query) /\ turn = 0
          /\ dstep \in {"question", "name", "type"} => Taken
          /\ dstep = "name" => AtLabel
          /\ dstep = "type" => AtEnd
          /\ dstep = "done" => Ended

\* The answers for the questions come on top of the query.
LEMMA RoomNeeded ==
  ASSUME NEW a \in 1..255, NEW b \in Nat
  PROVE  (a * 16) + b \in Nat /\ (a * 16) + b = b + (a * 16) /\ (a * 16) + b >= b + 16
  OBVIOUS

\* A query that is sought is received whole, and there is room for its answers.
LEMMA SoughtFacts ==
  ASSUME query \in Queries, Sought
  PROVE  /\ query.ad = 0 /\ query.cd = 0 /\ query.type = 1 /\ query.questions \in 1..255
         /\ ReceivedLen(query) = QuestionsEnd(query) /\ ReceivedLen(query) >= NameLen(query) + 16
         /\ ReceivedLen(query) \in Nat /\ ReceivedLen(query) >= 17 /\ ReceivedLen(query) <= 127
         /\ NameLen(query) \in Nat /\ NameLen(query) >= 1
         /\ NameLen(query) % 2 = 0 /\ Len(query.labels) \in Nat /\ Len(query.labels) >= 1
         /\ ReplyLen <= 256
  <1>1. query.labels \in Seq(1..63) /\ query.questions \in 1..255
    BY QueriesAssumption
  <1>2. query.labels # << >>
    BY DEF Sought, Meant
  <1>3. Len(query.labels) \in Nat /\ Len(query.labels) # 0
    BY <1>1, <1>2, EmptyHasNoLength, LabelsFollow
  <1>4. /\ query.ad = 0 /\ query.cd = 0 /\ query.type = 1
        /\ ReceivedLen(query) = QuestionsEnd(query) /\ NameLen(query) % 2 = 0
        /\ QuestionsEnd(query) + (query.questions * 16) <= 256
    BY DEF Sought, Meant, TypeA, AnswerLen, DNS_MAX_LEN
  <1>5. ReplyLen <= 256
    <2>1. ReceivedLen(query) \in Nat
      BY QuerySizes
    <2> QED
      BY <1>1, <1>4, <2>1, RoomNeeded DEF ReplyLen
  <1>6. /\ NameLen(query) \in Nat /\ NameLen(query) >= 1
        /\ ReceivedLen(query) \in Nat /\ ReceivedLen(query) >= 17 /\ ReceivedLen(query) <= 127
        /\ QuestionsEnd(query) >= NameLen(query) + 16
    BY QuerySizes
  <1>7. Len(query.labels) >= 1
    BY <1>3
  <1> QED
    BY <1>1, <1>3, <1>4, <1>5, <1>6, <1>7

\* What Taken, AtLabel, AtEnd and Ended say depends on these alone.
LEMMA StaysSought ==
  ASSUME query' = query
  PROVE  (Sought' <=> Sought) /\ ReplyLen' = ReplyLen
  BY DEF Sought, Meant, ReplyLen

LEMMA StaysTaken ==
  ASSUME query' = query, dns_reply' = dns_reply, turn' = turn, Taken
  PROVE  Taken'
  BY StaysSought DEF Taken

\* The number of questions is read off the reply, and stays in it.
LEMMA Counted ==
  ASSUME query \in Queries, dns_reply = Copied(query) \/ Made(query, dns_reply)
  PROVE  qd_count = query.questions /\ reply_len = ReplyLen
  <1>1. query.questions \in 1..255
    BY QueriesAssumption
  <1>2. qd_count = query.questions
    <2>1. CASE dns_reply = Copied(query)
      BY <1>1, <2>1, HeaderBytes DEF qd_count, Word
    <2>2. CASE Made(query, dns_reply)
      BY <2>2, ReplyBytes DEF qd_count
    <2> QED
      BY <2>1, <2>2
  <1> QED
    BY <1>2 DEF reply_len, ReplyLen, AnswerLen

\* OPCODE_MASK finds the bits AD and CD.
LEMMA StandardMeans ==
  ASSUME query \in Queries, dns_reply = Copied(query)
  PROVE  NotStandard <=> ~(query.ad = 0 /\ query.cd = 0)
  <1>1. query.ad \in {0, 1} /\ query.cd \in {0, 1}
    BY QueriesAssumption
  <1>2. At(dns_reply, 3) = (16 * query.cd) + (32 * query.ad)
    BY HeaderBytes
  <1> QED
    BY <1>1, <1>2 DEF NotStandard

\* Nothing is sent for a query that is not sought.
LEMMA Dropped ==
  ASSUME DnsInv, dstep # "done", NoReply, ~Sought
  PROVE  DnsInv'
  <1>1. query' = query /\ turn' = turn /\ dstep' = "done" /\ sent' = << >>
    BY DEF DnsInv, NoReply
  <1>2. Ended'
    BY <1>1, StaysSought DEF Ended
  <1> QED
    BY <1>1, <1>2 DEF DnsInv

\* One lemma for each step of the loops.
LEMMA RefusedKept ==
  ASSUME DnsInv, Refused
  PROVE  DnsInv'
  <1>1. /\ dstep = "request" /\ NoReply /\ query \in Queries /\ dns_reply = Copied(query)
        /\ NotStandard \/ reply_len > 256
    BY DEF DnsInv, Refused, DNS_MAX_LEN
  <1>2. ~Sought
    <2> SUFFICES ASSUME Sought PROVE FALSE
      OBVIOUS
    <2>1. ~NotStandard /\ reply_len = ReplyLen /\ ReplyLen <= 256
      BY <1>1, Counted, StandardMeans, SoughtFacts
    <2>2. ReplyLen \in Nat
      <3>1. query.questions \in 1..255
        BY <1>1, QueriesAssumption
      <3>2. ReceivedLen(query) \in Nat
        BY <1>1, QuerySizes
      <3> QED
        BY <3>1, <3>2, RoomNeeded DEF ReplyLen
    <2> QED
      BY <1>1, <2>1, <2>2
  <1> QED
    BY <1>1, <1>2, Dropped

LEMMA AcceptedKept ==
  ASSUME DnsInv, Accepted
  PROVE  DnsInv'
  <1>1. /\ dstep = "request" /\ query \in Queries /\ dns_reply = Copied(query) /\ turn = 0
        /\ ~NotStandard /\ reply_len <= 256 /\ sent = << >>
        /\ query' = query /\ turn' = turn /\ sent' = sent /\ dstep' = "question"
        /\ dns_reply' = Put(Put(dns_reply, 2, <<128 + (At(dns_reply, 2) % 128)>>),
                            6, <<qd_count \div 256, qd_count % 256>>)
    BY DEF DnsInv, Accepted, DNS_MAX_LEN
  <1>2. qd_count = query.questions /\ reply_len = ReplyLen
    BY <1>1, Counted
  <1>3. dns_reply' = Marked(query)
    BY <1>1, <1>2 DEF Marked
  <1>4. query.ad = 0 /\ query.cd = 0
    BY <1>1, StandardMeans
  <1>5. Taken'
    BY <1>1, <1>2, <1>3, <1>4, StaysSought DEF Taken, Made
  <1> QED
    BY <1>1, <1>5 DEF DnsInv

LEMMA QuestionKept ==
  ASSUME DnsInv, Question
  PROVE  DnsInv'
  <1>1. /\ dstep = "question" /\ query \in Queries /\ Taken /\ sent = << >> /\ turn \in Nat
        /\ UNCHANGED <<query, dns_reply, turn, sent>> /\ dstep' = "name" /\ label' = 12
    BY DEF DnsInv, Question, HeaderLen
  <1>2. AtLabel'
    <2> SUFFICES ASSUME Sought PROVE \E k \in 1..Len(query.labels) : 12 = 12 + LabelStarts(query)[k]
      BY <1>1, StaysSought DEF AtLabel
    <2>1. 1 \in 1..Len(query.labels) /\ LabelStarts(query)[1] = 0
      BY <1>1, SoughtFacts, LabelsFollow
    <2> QED
      BY <2>1
  <1>3. Taken'
    BY <1>1, StaysTaken
  <1> QED
    BY <1>1, <1>2, <1>3 DEF DnsInv

\* Where the next label is, and what is there.
LEMMA NextByte ==
  ASSUME query \in Queries, Made(query, dns_reply), Sought,
         NEW k \in 1..Len(query.labels), label = 12 + LabelStarts(query)[k]
  PROVE  /\ AfterLabel = 12 + LabelStarts(query)[k + 1]
         /\ k = Len(query.labels) => /\ AfterLabel = 11 + NameLen(query)
                                     /\ At(dns_reply, AfterLabel) = 0
         /\ k # Len(query.labels) => /\ k + 1 \in 1..Len(query.labels)
                                     /\ At(dns_reply, AfterLabel) # 0
         /\ AfterLabel - HeaderLen <= NameMax
  <1> DEFINE n == Len(query.labels)
             m == NameLen(query)
             s == LabelStarts(query)
  <1>1. /\ m \in Nat /\ m >= 1 /\ n \in Nat /\ m + 16 <= ReceivedLen(query)
        /\ ReceivedLen(query) \in Nat /\ ReceivedLen(query) >= 17 /\ ReceivedLen(query) <= 127
    BY SoughtFacts
  <1>2. \A j \in 0..(m + 3) : At(dns_reply, 12 + j) = QuestionByte(query, j)
    <2>1. \A j \in 0..(m + 3) : 12 + j < ReceivedLen(query)
      <3> HIDE DEF m
      <3> QED
        BY <1>1
    <2> QED
      BY <2>1, ReplyBytes
  <1>3. /\ s[n + 1] = m - 1
        /\ \A j \in 1..n : /\ s[j] \in 0..(m - 2) /\ query.labels[j] \in 1..63
                           /\ QuestionByte(query, s[j]) = query.labels[j]
        /\ QuestionByte(query, m - 1) = 0
    BY NameBytes, QuestionBytes, LabelsFollow
  <1>4. /\ s[k] \in 0..(m - 2) /\ s[k] \in 0..(m + 3)
        /\ QuestionByte(query, s[k]) = query.labels[k] /\ query.labels[k] \in 1..63
    <2>1. s[k] \in 0..(m - 2)
      BY <1>3
    <2> HIDE DEF s, m
    <2>2. s[k] \in 0..(m + 3)
      BY <1>1, <2>1
    <2> QED
      BY <1>3, <2>1, <2>2 DEF s, m
  <1>5. At(dns_reply, label) = query.labels[k]
    BY <1>2, <1>4
  <1>6. AfterLabel = 12 + s[k + 1]
    <2>1. s[k + 1] = s[k] + query.labels[k] + 1
      BY LabelsFollow
    <2> DEFINE x == query.labels[k]  y == s[k]  z == s[k + 1]
    <2>2. x \in Nat /\ y \in Nat /\ z = y + x + 1
      <3>1. x \in 1..63 /\ y \in 0..(m - 2) /\ z = y + x + 1
        BY <1>4, <2>1, Zenon
      <3> HIDE DEF x, y, z, m
      <3> QED
        BY <3>1
    <2>4. AfterLabel = (12 + y) + x + 1
      BY <1>5, Zenon DEF AfterLabel
    <2> HIDE DEF x, y, z
    <2>3. AfterLabel = 12 + z
      BY <2>2, <2>4
    <2> QED
      BY <2>3 DEF z
  <1>7. CASE k = n
    <2>1. AfterLabel = 12 + (m - 1)
      BY <1>3, <1>6, <1>7
    <2> HIDE DEF m
    <2>2. /\ m - 1 \in 0..(m + 3) /\ 12 + (m - 1) = 11 + m /\ (12 + (m - 1)) - 12 <= 128
      BY <1>1
    <2>3. At(dns_reply, AfterLabel) = 0
      BY <1>2, <1>3, <2>1, <2>2
    <2> QED
      BY <1>6, <1>7, <2>1, <2>2, <2>3 DEF m, HeaderLen, NameMax
  <1>8. CASE k # n
    <2>1. k + 1 \in 1..n
      BY <1>1, <1>8
    <2> DEFINE z == s[k + 1]
    <2>2. /\ z \in 0..(m - 2) /\ QuestionByte(query, z) = query.labels[k + 1]
          /\ query.labels[k + 1] \in 1..63
      BY <1>3, <2>1
    <2>3. query.labels[k + 1] # 0
      BY <2>2, LabelSize
    <2> HIDE DEF m, z
    <2>4. z \in 0..(m + 3) /\ (12 + z) - 12 <= 128
      BY <1>1, <2>2
    <2>5. At(dns_reply, 12 + z) = QuestionByte(query, z)
      BY <1>2, <2>4
    <2> QED
      BY <1>6, <1>8, <2>1, <2>2, <2>3, <2>4, <2>5 DEF z, HeaderLen, NameMax
  <1> QED
    BY <1>7, <1>8

\* The root: the byte behind its zero is the first of the type.
LEMMA RootBytes ==
  ASSUME query \in Queries, Made(query, dns_reply), Len(query.labels) = 0
  PROVE  /\ At(dns_reply, 12) = 0 /\ At(dns_reply, 13) = 0
         /\ Word(dns_reply, 14) # TypeA
  <1>1. NameLen(query) = 1 /\ ReceivedLen(query) \in Nat /\ ReceivedLen(query) >= 17
    BY QuerySizes
  <1>2. \A k \in 0..4 : At(dns_reply, 12 + k) = QuestionByte(query, k)
    <2>1. \A k \in 0..4 : 12 + k < ReceivedLen(query) /\ k \in 0..(NameLen(query) + 3)
      BY <1>1
    <2> QED
      BY <2>1, ReplyBytes
  <1>3. /\ QuestionByte(query, 0) = 0 /\ QuestionByte(query, 1) = 0
        /\ QuestionByte(query, 2) = query.type /\ QuestionByte(query, 3) = 0
    <2>1. /\ QuestionByte(query, 1 - 1) = 0 /\ QuestionByte(query, 1) = 0
          /\ QuestionByte(query, 1 + 1) = query.type /\ QuestionByte(query, 1 + 2) = 0
      BY <1>1, QuestionBytes
    <2> QED
      BY <2>1
  <1>4. query.type \in 0..255
    BY QueriesAssumption DEF Bytes
  <1>5. /\ At(dns_reply, 12) = 0 /\ At(dns_reply, 13) = 0
        /\ At(dns_reply, 14) = query.type /\ At(dns_reply, 15) = 0
    <2>1. /\ At(dns_reply, 12 + 0) = 0 /\ At(dns_reply, 12 + 1) = 0
          /\ At(dns_reply, 12 + 2) = query.type /\ At(dns_reply, 12 + 3) = 0
      BY <1>2, <1>3
    <2> QED
      BY <2>1
  <1>6. Word(dns_reply, 14) = (256 * query.type) + 0
    <2>1. Word(dns_reply, 14) = (256 * At(dns_reply, 14)) + At(dns_reply, 15)
      BY DEF Word
    <2> QED
      BY <1>5, <2>1
  <1> DEFINE t == query.type
  <1>7. t \in 0..255 /\ Word(dns_reply, 14) = (256 * t) + 0
    BY <1>4, <1>6
  <1> HIDE DEF t
  <1>8. (256 * t) + 0 # 1
    BY <1>7
  <1> QED
    BY <1>5, <1>7, <1>8 DEF TypeA

LEMMA NextLabelKept ==
  ASSUME DnsInv, NextLabel
  PROVE  DnsInv'
  <1>1. /\ dstep = "name" /\ query \in Queries /\ Taken /\ AtLabel /\ sent = << >> /\ turn \in Nat
        /\ UNCHANGED <<query, dns_reply, turn, sent>> /\ label' = AfterLabel
        /\ dstep' = IF At(dns_reply, AfterLabel) = 0 THEN "type" ELSE "name"
        /\ Made(query, dns_reply)
    BY DEF DnsInv, NextLabel, Taken
  <1>2. Taken'
    BY <1>1, StaysTaken
  <1>3. Len(query.labels) = 0 => label' = 13 /\ dstep' = "type"
    <2> SUFFICES ASSUME Len(query.labels) = 0 PROVE label' = 13 /\ dstep' = "type"
      OBVIOUS
    <2>1. label = 12 /\ At(dns_reply, 12) = 0 /\ At(dns_reply, 13) = 0
      BY <1>1, RootBytes DEF AtLabel
    <2>2. AfterLabel = 13
      BY <2>1 DEF AfterLabel
    <2> QED
      BY <1>1, <2>1, <2>2
  <1>4. ASSUME Sought
        PROVE  \/ dstep' = "type" /\ label' = 11 + NameLen(query)
               \/ /\ dstep' = "name"
                  /\ \E k \in 1..Len(query.labels) : label' = 12 + LabelStarts(query)[k]
    <2>1. PICK k \in 1..Len(query.labels) : label = 12 + LabelStarts(query)[k]
      BY <1>1, <1>4 DEF AtLabel
    <2>2. CASE k = Len(query.labels)
      BY <1>1, <1>4, <2>1, <2>2, NextByte
    <2>3. CASE k # Len(query.labels)
      BY <1>1, <1>4, <2>1, <2>3, NextByte
    <2> QED
      BY <2>2, <2>3
  <1>5. dstep' = "name" => AtLabel'
    BY <1>1, <1>3, <1>4, StaysSought DEF AtLabel
  <1>6. dstep' = "type" => AtEnd'
    BY <1>1, <1>3, <1>4, StaysSought DEF AtEnd
  <1> QED
    BY <1>1, <1>2, <1>5, <1>6 DEF DnsInv

LEMMA NameTooLongKept ==
  ASSUME DnsInv, NameTooLong
  PROVE  DnsInv'
  <1>1. /\ dstep = "name" /\ query \in Queries /\ AtLabel /\ Made(query, dns_reply)
        /\ NoReply /\ AfterLabel - HeaderLen > NameMax
    BY DEF DnsInv, NameTooLong, Taken
  <1>2. ~Sought
    <2> SUFFICES ASSUME Sought PROVE FALSE
      OBVIOUS
    <2>1. PICK k \in 1..Len(query.labels) : label = 12 + LabelStarts(query)[k]
      BY <1>1 DEF AtLabel
    <2>2. AfterLabel - HeaderLen <= NameMax /\ AfterLabel = 12 + LabelStarts(query)[k + 1]
      BY <1>1, <2>1, NextByte
    <2>3. LabelStarts(query)[k + 1] \in Nat
      BY <1>1, LabelsFollow
    <2> QED
      BY <1>1, <2>2, <2>3 DEF HeaderLen, NameMax
  <1> QED
    BY <1>1, <1>2, Dropped

LEMMA MisreadKept ==
  ASSUME DnsInv, Misread
  PROVE  DnsInv'
  <1>1. /\ dstep = "type" /\ query \in Queries /\ AtEnd /\ NoReply /\ (label + 1) % 2 = 1
    BY DEF DnsInv, Misread, BehindZero
  <1>2. ~Sought
    <2> SUFFICES ASSUME Sought PROVE FALSE
      OBVIOUS
    <2>1. label = 11 + NameLen(query) /\ NameLen(query) \in Nat /\ NameLen(query) % 2 = 0
      BY <1>1, SoughtFacts DEF AtEnd
    <2> QED
      BY <1>1, <2>1
  <1> QED
    BY <1>1, <1>2, Dropped

\* The type and the class are read where they are, and the answer is put behind the
\* questions.
LEMMA AnsweredKept ==
  ASSUME DnsInv, Answered
  PROVE  DnsInv'
  <1> DEFINE type == Word(dns_reply, label + 1)
             class == Word(dns_reply, label + 1 + 2)
  <1>1. /\ dstep = "type" /\ query \in Queries /\ Taken /\ AtEnd /\ sent = << >> /\ turn \in Nat
        /\ query' = query /\ sent' = sent /\ label' = label /\ turn' = turn + 1
        /\ dstep' = "question" /\ Made(query, dns_reply)
        /\ dns_reply' = IF type = TypeA
                        THEN Put(dns_reply, ReceivedLen(query), Answer(TypeA, class))
                        ELSE dns_reply
    BY DEF DnsInv, Answered, Taken, BehindZero
  <1>2. type = TypeA => dns_reply' = Answering(query, class)
    <2> SUFFICES ASSUME type = TypeA
                 PROVE  Put(dns_reply, ReceivedLen(query), Answer(TypeA, class))
                          = Answering(query, class)
      BY <1>1
    <2>1. CASE dns_reply = Marked(query)
      BY <2>1 DEF Answering
    <2>2. CASE \E c : dns_reply = Answering(query, c)
      <3>1. PICK c : dns_reply = Put(Marked(query), ReceivedLen(query), Answer(TypeA, c))
        BY <2>2 DEF Answering
      <3> HIDE DEF class
      <3>2. /\ Len(Answer(TypeA, c)) = 16 /\ Len(Answer(TypeA, class)) = 16
            /\ Len(Marked(query)) = 256 /\ ReceivedLen(query) \in Nat
        <4>1. query \in Queries
          BY <1>1
        <4>2. Len(Answer(TypeA, c)) = 16 /\ Len(Answer(TypeA, class)) = 16
          BY AnswerSize
        <4> QED
          BY <4>1, <4>2, MarkedBytes, QuerySizes
      <3>3. Put(Put(Marked(query), ReceivedLen(query), Answer(TypeA, c)),
                ReceivedLen(query), Answer(TypeA, class))
              = Put(Marked(query), ReceivedLen(query), Answer(TypeA, class))
        BY <3>2, PutOver
      <3> QED
        BY <3>1, <3>3 DEF Answering
    <2> QED
      BY <1>1, <2>1, <2>2 DEF Made
  <1>3. Made(query, dns_reply')
    BY <1>1, <1>2 DEF Made
  <1>4. Len(query.labels) = 0 => dns_reply' = Marked(query)
    <2> SUFFICES ASSUME Len(query.labels) = 0 PROVE type # TypeA /\ dns_reply = Marked(query)
      BY <1>1
    <2>1. label + 1 = 14
      BY <1>1 DEF AtEnd
    <2> QED
      BY <1>1, <2>1, RootBytes DEF Taken
  <1>5. Sought => dns_reply' = Answering(query, 1)
    <2> SUFFICES ASSUME Sought PROVE type = TypeA /\ class = 1
      BY <1>1, <1>2
    <2> DEFINE m == NameLen(query)
    <2>1. /\ m \in Nat /\ m >= 1 /\ m + 16 <= ReceivedLen(query) /\ query.type = 1
          /\ ReceivedLen(query) \in Nat /\ ReceivedLen(query) >= 17
          /\ ReceivedLen(query) <= 127 /\ label = 11 + m
      BY <1>1, SoughtFacts DEF AtEnd
    <2>2. \A j \in 0..(m + 3) : At(dns_reply, 12 + j) = QuestionByte(query, j)
      <3>1. \A j \in 0..(m + 3) : 12 + j < ReceivedLen(query)
        <4> HIDE DEF m
        <4> QED
          BY <2>1
      <3> QED
        BY <1>1, <3>1, ReplyBytes
    <2>3. /\ QuestionByte(query, m) = 0 /\ QuestionByte(query, m + 1) = 1
          /\ QuestionByte(query, m + 2) = 0 /\ QuestionByte(query, m + 3) = 1
      BY <1>1, <2>1, QuestionBytes
    <2> HIDE DEF m
    <2>4. /\ At(dns_reply, 12 + m) = 0 /\ At(dns_reply, 12 + (m + 1)) = 1
          /\ At(dns_reply, 12 + (m + 2)) = 0 /\ At(dns_reply, 12 + (m + 3)) = 1
      <3>1. m \in 0..(m + 3) /\ m + 1 \in 0..(m + 3) /\ m + 2 \in 0..(m + 3) /\ m + 3 \in 0..(m + 3)
        BY <2>1
      <3> QED
        BY <2>2, <2>3, <3>1
    <2>5. /\ label + 1 = 12 + m /\ label + 1 + 1 = 12 + (m + 1)
          /\ label + 1 + 2 = 12 + (m + 2) /\ label + 1 + 2 + 1 = 12 + (m + 3)
      BY <2>1
    <2>6. /\ At(dns_reply, label + 1) = 0 /\ At(dns_reply, label + 1 + 1) = 1
          /\ At(dns_reply, label + 1 + 2) = 0 /\ At(dns_reply, label + 1 + 2 + 1) = 1
      BY <2>4, <2>5, Zenon
    <2> QED
      BY <2>6 DEF Word, TypeA
  <1>6. Taken'
    BY <1>1, <1>3, <1>4, <1>5, StaysSought DEF Taken
  <1> QED
    BY <1>1, <1>6 DEF DnsInv

LEMMA ReplyKept ==
  ASSUME DnsInv, Reply
  PROVE  DnsInv'
  <1>1. /\ dstep = "question" /\ query \in Queries /\ Taken /\ turn >= qd_count /\ turn \in Nat
        /\ UNCHANGED <<query, dns_reply, turn>> /\ dstep' = "done"
        /\ sent' = SubSeq(dns_reply, 1, reply_len) /\ Made(query, dns_reply)
    BY DEF DnsInv, Reply, Taken
  <1>2. qd_count = query.questions /\ sent' = SubSeq(dns_reply, 1, ReplyLen)
    BY <1>1, Counted
  <1>3. Sought => dns_reply = Answering(query, 1)
    <2>1. query.questions \in 1..255
      BY <1>1, QueriesAssumption
    <2>2. turn > 0
      <3>1. turn >= query.questions /\ turn \in Nat
        BY <1>1, <1>2
      <3> DEFINE count == query.questions
      <3>2. count \in 1..255 /\ turn >= count
        BY <2>1, <3>1
      <3> HIDE DEF count
      <3> QED
        BY <3>1, <3>2
    <2> QED
      BY <1>1, <2>2 DEF Taken
  <1>4. Taken' /\ ReplyLen' = ReplyLen /\ (Sought' <=> Sought)
    BY <1>1, StaysTaken, StaysSought
  <1>5. Answering(query, 1)' = Answering(query, 1)
    BY <1>1
  <1>6. Ended'
    BY <1>1, <1>2, <1>3, <1>4, <1>5 DEF Ended
  <1> QED
    BY <1>1, <1>6 DEF DnsInv

\* Together: the invariant holds of whatever is asked.
LEMMA DnsInductive == DnsSpec => []DnsInv
  <1>1. DnsInit => DnsInv
    BY DEF DnsInit, DnsInv
  <1>2. DnsInv /\ [DnsNext]_dnsVars => DnsInv'
    <2> SUFFICES ASSUME DnsInv, [DnsNext]_dnsVars PROVE DnsInv'
      OBVIOUS
    <2>1. CASE UNCHANGED dnsVars
      BY <2>1 DEF dnsVars, DnsInv, Taken, AtLabel, AtEnd, Ended, Sought, Meant, ReplyLen
    <2> QED
      BY <2>1, RefusedKept, AcceptedKept, QuestionKept, NextLabelKept, NameTooLongKept,
         MisreadKept, AnsweredKept, ReplyKept DEF DnsNext
  <1> QED
    BY <1>1, <1>2, PTL DEF DnsSpec

\* Where an answer is looked for, there is none of the query's own bytes.
LEMMA BehindQuestions ==
  ASSUME NEW q \in Queries, QuestionsEnd(q) <= 240
  PROVE  /\ At(Marked(q), QuestionsEnd(q)) = 0
         /\ \A k \in 17..255 : k >= ReceivedLen(q) => At(Marked(q), k) = 0
  <1> DEFINE e == QuestionsEnd(q)
  <1>1. e \in Nat /\ e >= 17 /\ ReceivedLen(q) \in Nat
    BY QuerySizes
  <1>2. \A k \in 17..255 : At(Marked(q), k) = At(Copied(q), k)
    BY MarkedBytes
  <1>3. \A k \in 17..255 : k >= ReceivedLen(q) => At(Copied(q), k) = 0
    <2> SUFFICES ASSUME NEW k \in 17..255, k >= ReceivedLen(q) PROVE At(Copied(q), k) = 0
      OBVIOUS
    <2>1. k \in 0..255 /\ ~(k < ReceivedLen(q))
      BY <1>1
    <2> QED
      BY <2>1, CopiedBytes
  <1>4. e \in 17..255 /\ e \in 0..255
    BY <1>1
  <1>5. At(Copied(q), e) = 0
    BY <1>4, CopiedBytes, QueryBytes
  <1> QED
    BY <1>2, <1>3, <1>4, <1>5

\* Only a query that is meant is answered so that the address is found.
LEMMA FoundIsMeant ==
  ASSUME DnsInv, dstep = "done", FindsPortal
  PROVE  Meant
  <1> DEFINE e == QuestionsEnd(query)
             l == ReceivedLen(query)
             wanted == Answer(query.type, 1)
  <1>1. query \in Queries /\ Len(sent) >= e + 16 /\ SubSeq(sent, e + 1, e + 16) = wanted /\ Ended
    BY DEF DnsInv, FindsPortal, AnswerLen
  <1>2. /\ e \in Nat /\ e >= 17 /\ l \in Nat /\ l >= 17 /\ l <= 127
    BY <1>1, QuerySizes
  <1>3. query.questions \in 1..255 /\ query.type \in 0..255 /\ query.labels \in Seq(1..63)
    BY <1>1, QueriesAssumption DEF Bytes
  <1>4. Taken /\ sent = SubSeq(dns_reply, 1, ReplyLen)
    <2> SUFFICES ASSUME sent = << >> PROVE FALSE
      BY <1>1 DEF Ended
    <2> HIDE DEF e
    <2> QED
      BY <1>1, <1>2
  <1>5. ReplyLen \in Nat /\ ReplyLen <= 256 /\ ReplyLen = l + (query.questions * 16)
    BY <1>2, <1>3, <1>4, RoomNeeded DEF Taken, ReplyLen
  <1>6. Len(sent) = ReplyLen /\ \A k \in 1..ReplyLen : sent[k] = dns_reply[k]
    BY <1>4, <1>5
  <1> HIDE DEF e, l, wanted
  <1>7. e <= 240 /\ e + 16 <= ReplyLen
    BY <1>1, <1>2, <1>5, <1>6
  <1>8. \A k \in 0..15 : At(dns_reply, e + k) = wanted[k + 1]
    <2> SUFFICES ASSUME NEW k \in 0..15 PROVE At(dns_reply, e + k) = wanted[k + 1]
      OBVIOUS
    <2>1. SubSeq(sent, e + 1, e + 16)[k + 1] = sent[e + (k + 1)]
      BY <1>2
    <2>2. e + (k + 1) = (e + k) + 1 /\ (e + k) + 1 \in 1..ReplyLen
      BY <1>2, <1>5, <1>7
    <2> QED
      BY <1>1, <1>6, <2>1, <2>2 DEF At
  <1>9. /\ At(dns_reply, e) = 192 /\ At(dns_reply, e + 1) = 12
        /\ At(dns_reply, e + 3) = query.type % 256 /\ At(dns_reply, e + 4) = 0
    <2>1. /\ At(dns_reply, e + 0) = wanted[0 + 1] /\ At(dns_reply, e + 1) = wanted[1 + 1]
          /\ At(dns_reply, e + 3) = wanted[3 + 1] /\ At(dns_reply, e + 4) = wanted[4 + 1]
      BY <1>8
    <2>2. /\ wanted[1] = 192 /\ wanted[2] = 12 /\ wanted[4] = query.type % 256
          /\ wanted[5] = 1 \div 256
      BY AnswerBytes DEF wanted
    <2>3. e + 0 = e /\ 1 \div 256 = 0
      BY <1>2
    <2> QED
      BY <2>1, <2>2, <2>3
  <1>10. /\ At(Marked(query), e) = 0
         /\ \A k \in 17..255 : k >= l => At(Marked(query), k) = 0
    BY <1>1, <1>7, BehindQuestions DEF e, l
  <1>11. PICK c : dns_reply = Put(Marked(query), l, Answer(TypeA, c))
    <2>1. dns_reply # Marked(query)
      BY <1>9, <1>10
    <2> QED
      BY <1>4, <2>1 DEF Taken, Made, Answering, l
  <1>12. Len(query.labels) # 0
    <2>1. dns_reply # Marked(query)
      BY <1>9, <1>10
    <2> QED
      BY <1>4, <2>1 DEF Taken
  <1> DEFINE given == Answer(TypeA, c)
  <1>13. /\ \A k \in 0..255 : k < l \/ k >= l + 16 => At(dns_reply, k) = At(Marked(query), k)
         /\ \A k \in 0..15 : At(dns_reply, l + k) = given[k + 1]
    <2>1. Len(given) = 16 /\ Len(Marked(query)) = 256
      BY <1>1, AnswerSize, MarkedBytes
    <2> HIDE DEF given
    <2>2. Len(given) \in Nat
      BY <2>1
    <2>3. Changed(Marked(query), Put(Marked(query), l, given), l, given)
      BY <1>2, <2>1, <2>2, PutBytes
    <2>4. Changed(Marked(query), dns_reply, l, given)
      BY <1>11, <2>3 DEF given
    <2>5. \A k \in 0..15 : k \in 0..(16 - 1) /\ l + k <= 255
      BY <1>2
    <2> QED
      BY <2>1, <2>4, <2>5 DEF Changed
  <1>14. /\ given[2] = 12 /\ given[3] = 0 /\ given[4] = 1 /\ given[7] = 0 /\ given[9] = 1
         /\ \A k \in 7..16 : given[k] # 192
    <2>1. given[3] = 1 \div 256 /\ given[4] = 1 % 256
      BY AnswerBytes DEF TypeA
    <2>2. 1 \div 256 = 0 /\ 1 % 256 = 1
      OBVIOUS
    <2> QED
      BY <2>1, <2>2, AnswerBytes
  <1> HIDE DEF given
  <1>15. ~(e < l) /\ ~(e >= l + 16)
    <2>1. e \in 0..255 /\ e \in 17..255
      BY <1>2, <1>7
    <2> QED
      BY <1>9, <1>10, <1>13, <2>1
  <1>16. e = l
    <2> DEFINE d == e - l
    <2>1. d \in 0..15 /\ e = l + d
      BY <1>2, <1>15
    <2> HIDE DEF d
    <2>2. given[d + 1] = 192
      BY <1>9, <1>13, <2>1
    <2>3. d # 1 /\ d # 2 /\ d # 3
      BY <1>14, <2>2
    <2>4. d \notin 6..15
      <3> SUFFICES ASSUME d \in 6..15 PROVE FALSE
        OBVIOUS
      <3>1. d + 1 \in 7..16
        OBVIOUS
      <3> QED
        BY <1>14, <2>2, <3>1
    <2>5. d # 4
      <3> SUFFICES ASSUME d = 4 PROVE FALSE
        OBVIOUS
      <3>1. e + 4 = l + 8 /\ 8 + 1 = 9
        BY <1>2, <2>1
      <3> QED
        BY <1>9, <1>13, <1>14, <3>1
    <2>6. d # 5
      <3> SUFFICES ASSUME d = 5 PROVE FALSE
        OBVIOUS
      <3>1. e + 1 = l + 6 /\ 6 + 1 = 7
        BY <1>2, <2>1
      <3> QED
        BY <1>9, <1>13, <1>14, <3>1
    <2> QED
      BY <1>2, <2>1, <2>3, <2>4, <2>5, <2>6
  <1>17. query.type = 1
    <2>1. At(dns_reply, l + 3) = 1
      BY <1>13, <1>14
    <2> DEFINE t == query.type
    <2>2. t \in 0..255 /\ t % 256 = 1
      BY <1>3, <1>9, <1>16, <2>1
    <2> HIDE DEF t
    <2>3. t = 1
      BY <2>2
    <2> QED
      BY <2>3 DEF t
  <1>18. query.labels # << >>
    BY <1>3, <1>12, EmptyHasNoLength
  <1> QED
    BY <1>4, <1>5, <1>16, <1>17, <1>18 DEF Taken, Meant, TypeA, AnswerLen, DNS_MAX_LEN, e, l

\* And what is sought is found.
LEMMA SoughtIsFound ==
  ASSUME DnsInv, dstep = "done", Sought
  PROVE  FindsPortal
  <1> DEFINE e == QuestionsEnd(query)
             p == Answering(query, 1)
             answer == Answer(1, 1)
             n == query.questions
  <1>1. query \in Queries /\ sent = SubSeq(p, 1, ReplyLen)
    BY DEF DnsInv, Ended
  <1>2. /\ ReceivedLen(query) = e /\ e \in Nat /\ e >= 17 /\ e <= 127 /\ query.type = 1
        /\ n \in 1..255 /\ ReplyLen <= 256
    BY <1>1, SoughtFacts, QuerySizes
  <1>3. ReplyLen \in Nat /\ ReplyLen >= e + 16
    BY <1>2, RoomNeeded DEF ReplyLen
  <1>4. Len(sent) = ReplyLen /\ \A k \in 1..ReplyLen : sent[k] = p[k]
    <2> HIDE DEF p
    <2> QED
      BY <1>1, <1>3
  <1> HIDE DEF e
  <1>5. Made(query, p)
    BY DEF Made
  <1>6. /\ At(p, 2) = At(Marked(query), 2) /\ At(p, 6) = At(Marked(query), 6)
        /\ At(p, 7) = At(Marked(query), 7)
    <2>1. \A k \in 0..(e - 1) : At(p, k) = At(Marked(query), k)
      BY <1>1, <1>2, <1>5, ReplyBytes
    <2> QED
      BY <1>2, <2>1
  <1>7. \A k \in 0..15 : At(p, e + k) = answer[k + 1]
    <2>1. Len(answer) = 16 /\ Len(Marked(query)) = 256
      BY <1>1, AnswerSize, MarkedBytes
    <2>2. p = Put(Marked(query), e, answer)
      BY <1>2 DEF Answering, TypeA
    <2> HIDE DEF answer, p
    <2>3. Len(answer) \in Nat
      BY <2>1
    <2>4. Changed(Marked(query), Put(Marked(query), e, answer), e, answer)
      BY <1>2, <2>1, <2>3, PutBytes
    <2>5. \A k \in 0..15 : k \in 0..(16 - 1) /\ e + k <= 255
      BY <1>2
    <2> QED
      BY <2>1, <2>2, <2>4, <2>5 DEF Changed
  <1> HIDE DEF p
  <1>8. Word(sent, 6) > 0 /\ At(sent, 2) >= 128
    <2>1. At(sent, 2) = At(p, 2) /\ At(sent, 6) = At(p, 6) /\ At(sent, 7) = At(p, 7)
      BY <1>2, <1>3, <1>4 DEF At
    <2>2. Word(sent, 6) = Word(Marked(query), 6)
      BY <1>6, <2>1 DEF Word
    <2>3. Word(sent, 6) = n
      BY <1>1, <2>2, MarkedBytes
    <2> HIDE DEF n
    <2>4. Word(sent, 6) > 0
      BY <1>2, <2>3
    <2> QED
      BY <1>1, <1>6, <2>1, <2>4, MarkedBytes
  <1>9. SubSeq(sent, e + 1, e + 16) = answer
    <2>1. \A k \in 1..16 : sent[e + k] = answer[k]
      <3> SUFFICES ASSUME NEW k \in 1..16 PROVE sent[e + k] = answer[k]
        OBVIOUS
      <3>1. /\ k - 1 \in 0..15 /\ (k - 1) + 1 = k /\ (e + (k - 1)) + 1 = e + k
            /\ e + k \in 1..ReplyLen
        BY <1>2, <1>3
      <3>2. At(p, e + (k - 1)) = answer[(k - 1) + 1]
        BY <1>7, <3>1
      <3> HIDE DEF answer
      <3> QED
        BY <1>4, <3>1, <3>2 DEF At
    <2>2. SubSeq(sent, e + 1, e + 16) = [k \in 1..16 |-> sent[e + k]]
      BY <1>2
    <2>3. answer = [k \in 1..16 |-> answer[k]]
      <3>1. Len(answer) = 16
        BY AnswerSize
      <3>2. answer \in Seq(Int)
        BY DEF Answer, PortalIp, HeaderLen
      <3> HIDE DEF answer
      <3> QED
        BY <3>1, <3>2
    <2> HIDE DEF answer
    <2>4. [k \in 1..16 |-> sent[e + k]] = [k \in 1..16 |-> answer[k]]
      BY <2>1
    <2> QED
      BY <2>2, <2>3, <2>4
  <1>10. Len(sent) >= e + 16
    BY <1>3, <1>4
  <1> QED
    BY <1>2, <1>8, <1>9, <1>10 DEF FindsPortal, AnswerLen, e

\* Whatever name, type, number of questions and flags a query has: if it is meant to be
\* answered, and its name ends at an even offset, the phone finds the portal; and it finds
\* the portal for no other query than those that are meant (dns_server.c:57-153).
THEOREM PhonesFindPortal == DnsSpec => []PhoneFindsPortal
  <1>1. DnsInv => PhoneFindsPortal
    BY FoundIsMeant, SoughtIsFound DEF PhoneFindsPortal, Sought
  <1> QED
    BY <1>1, DnsInductive, PTL
=============================================================================
