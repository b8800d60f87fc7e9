----------------------------- MODULE SetupProofs -----------------------------
(***************************************************************************)
(* Theorems about Setup for every number of files and of setups, whichever *)
(* files hold server_port and ipv4_method and however many keys they have, *)
(* with and without losses, power cuts and values that abort the load.     *)
(***************************************************************************)
EXTENDS MCSetup, FiniteSetTheorems, TLAPS

\* What is in flash, and where the two tasks of the device are; before the first load
\* has ended the server does not run, and only the order of the boot is there.
DeviceInv ==
    /\ files \in [Files -> Contents]
    /\ hpc \in {"idle", "open", "write"}
    /\ hpc # "idle" => job \in (1..Setups) \X Files
    /\ orders \in Nat /\ rd \in 0..(NFiles + 1) /\ wipe \in 0..NFiles
    /\ lacking \in 0..NKeys /\ (wipe > 0 => rd \in Files /\ lacking > 0)
    /\ conf \in [Files -> Confs]
    /\ result \in {"none", "ap", "sta"} /\ cuts \in 0..MaxCuts
    /\ result = "none" => hpc = "idle" /\ orders <= 1 /\ (rd > 0 => orders = 0)

\* A request on its way has a promise; /connect is asked for when no post of its setup
\* has one any more, and until then there may be a timer.  A setup whose certificates
\* are not read has no request.
PageInv ==
    /\ page \in {"ap_select", "loading", "setup-fail"}
    /\ setup \in 0..Setups /\ timers \subseteq 1..setup
    /\ reading \subseteq 1..setup /\ rejected \subseteq 1..setup /\ reading \cap rejected = {}
    /\ waiting \subseteq (1..setup) \X (0..NFiles) /\ sent \subseteq waiting
    /\ \A r \in waiting : r[1] \notin reading \cup rejected
    /\ \A s \in timers : \E f \in Files : <<s, f>> \in waiting
    /\ \A s \in 1..setup : <<s, Connect>> \in waiting =>
          \A f \in Files : <<s, f>> \notin waiting

\* The setups whose /connect may still reach the server.
Pending == {s \in 1..Setups : \/ s > setup \/ s \in reading \/ <<s, Connect>> \in sent
                              \/ \E f \in Files : <<s, f>> \in waiting}
OrderInv == orders \in Nat /\ orders + Cardinality(Pending) <= Setups + 1

\* A setup whose failure stands has no request, and will have none.
FinalInv == /\ final \subseteq 1..setup /\ final \cap reading = {}
            /\ \A r \in waiting : r[1] \notin final

\* A load of whose files none is written meanwhile has read all of those before rd, or
\* finds nothing but empty files from rd on.
ReadSoFar ==
    /\ rd > 0 => \/ \A f \in Files : f < rd => conf[f] # NoConf
                 \/ rd = NFiles + 1 /\ ~HasHole
                 \/ rd \in Files /\ wipe = 0 /\ \A f \in Files : files[f] = Empty
    /\ wipe > 0 => /\ \A f \in Files : f < rd => conf[f] # NoConf
                   /\ \A f \in Files : f < wipe => files[f] = Empty
    /\ result = "sta" /\ rd = 0 => ~HasHole
HoleInv == ~raced => ReadSoFar

\* When no setups overlap, the requests are those of the last one, and its posts are
\* settled when the load that it asks for is ordered.
OneSetup ==
    /\ reading \subseteq {setup} /\ \A r \in waiting : r[1] = setup
    /\ result # "none" /\ (orders > 0 \/ rd > 0) =>
          hpc = "idle" /\ reading = {} /\ \A r \in waiting : r[2] = Connect
RaceInv == ~overlapped => ~raced /\ OneSetup

\* And when nothing was lost either, every file is the last setup's, save those whose
\* request is on its way or handled; before that setup posts, and while the device
\* boots, all the files are of one setup.
Posted == setup > 0 /\ setup \notin reading \cup rejected
Uniform == \E c \in {Absent} \cup {Saved(s) : s \in 0..Setups} : \A f \in Files : files[f] = c
Flashed ==
    /\ result = "none" => Uniform
    /\ ~Posted => Uniform /\ hpc = "idle"
    /\ Posted => \A f \in Files : \/ <<setup, f>> \in sent
                                  \/ hpc # "idle" /\ job[2] = f
                                  \/ files[f] = Saved(setup)
Delivered ==
    /\ hpc # "idle" => job[1] = setup /\ waiting # {}
    /\ \A r \in waiting : r[2] = Connect => r \in sent
LoadOfOne ==
    /\ wipe = 0
    /\ rd > 0 => \A f \in Files : f < rd => conf[f] = files[f].by
    /\ result = "sta" /\ rd = 0 => \E s \in 0..Setups : \A f \in Files : conf[f] = s
WholeInv == ~overlapped /\ ~failed => Delivered /\ Flashed /\ LoadOfOne

SetupInv == /\ {overlapped, raced, failed} \subseteq BOOLEAN
            /\ DeviceInv /\ PageInv /\ OrderInv /\ FinalInv /\ HoleInv /\ RaceInv /\ WholeInv

Given == /\ NFiles \in Nat \ {0} /\ HttpFile \in 1..NFiles /\ Ipv4File \in 1..NFiles
         /\ Setups \in Nat /\ MaxCuts \in Nat
         /\ LongFiles \subseteq 1..NFiles /\ NKeys \in Nat \ {0}
         /\ Lossy \in BOOLEAN /\ Fatal \subseteq 0..Setups

LEMMA GivenOK == Given
  BY SetupAssumption DEF Given

----------------------------------------------------------------------------
(***************************************************************************)
(* The device.                                                             *)
(***************************************************************************)
LEMMA ContentKinds ==
  /\ Absent \in Contents /\ Empty \in Contents /\ Torn \in Contents
  /\ \A s \in 0..Setups : Saved(s) \in Contents
  /\ \A c \in Contents : c.st = "saved" => \E s \in 0..Setups : c = Saved(s) /\ c.by = s
  /\ \A c \in Contents : Unreadable(c) <=> c \in {Absent, Empty}
  /\ \A s : Saved(s).st = "saved" /\ Saved(s).by = s
  /\ Empty.st = "empty" /\ Torn.st = "torn" /\ Absent.st = "absent"
  <1>1. /\ Absent \in Contents /\ Empty \in Contents /\ Torn \in Contents
        /\ \A s \in 0..Setups : Saved(s) \in Contents
    BY DEF Contents
  <1>2. /\ \A s : Saved(s).st = "saved" /\ Saved(s).by = s
        /\ Empty.st = "empty" /\ Torn.st = "torn" /\ Absent.st = "absent"
    BY DEF Absent, Empty, Torn, Saved
  <1>3. \A c \in Contents : \/ c \in {Absent, Empty, Torn}
                            \/ \E s \in 0..Setups : c = Saved(s)
    BY DEF Contents
  <1>4. \A c \in Contents : c.st = "saved" => \E s \in 0..Setups : c = Saved(s) /\ c.by = s
    BY <1>2, <1>3
  <1>5. \A c \in Contents : Unreadable(c) <=> c \in {Absent, Empty}
    BY <1>2, <1>3 DEF Unreadable
  <1> QED
    BY <1>1, <1>2, <1>4, <1>5

\* A restart leaves the files as they are, or the one that is written torn.
LEMMA RestartDevice ==
  ASSUME Given, DeviceInv, NEW left \in [Files -> Contents], Restarts(left), cuts' \in 0..MaxCuts
  PROVE  DeviceInv'
  <1>1. files' \in [Files -> Contents]
    BY ContentKinds DEF DeviceInv, Restarts
  <1>2. [f \in Files |-> NoConf] \in [Files -> Confs]
    BY DEF Confs
  <1> QED
    BY <1>1, <1>2 DEF Given, DeviceInv, Restarts

\* What a request is.
LEMMA RequestParts ==
  ASSUME Given, NEW r \in Requests
  PROVE  r = <<r[1], r[2]>> /\ r[1] \in 1..Setups /\ r[2] \in 0..NFiles
         /\ (r[2] # Connect => r[2] \in Files)
  BY DEF Requests, Connect, Files, Given

LEMMA RequestsOut ==
  ASSUME Given, PageInv
  PROVE  waiting \subseteq Requests /\ sent \subseteq Requests
  <1>1. 1..setup \subseteq 1..Setups
    BY DEF PageInv, Given
  <1> QED
    BY <1>1 DEF PageInv, Requests

LEMMA HttpdDevice == Given /\ DeviceInv /\ PageInv /\ Httpd => DeviceInv'
  <1> SUFFICES ASSUME Given, DeviceInv, PageInv, Httpd PROVE DeviceInv'
    OBVIOUS
  <1> USE DEF loader, server
  <1>1. ASSUME NEW r \in sent, HandlePost(r) PROVE DeviceInv'
    <2>1. r \in (1..Setups) \X Files
      BY <1>1, RequestsOut DEF HandlePost, Requests, Files, Connect, Given
    <2> QED
      BY <1>1, <2>1 DEF HandlePost, Serves, DeviceInv
  <1>2. ASSUME NEW r \in sent, HandleConnect(r) PROVE DeviceInv'
    BY <1>2 DEF HandleConnect, Serves, DeviceInv
  <1>3. CASE OpenFile
    <2>1. job[2] \in Files
      BY <1>3 DEF OpenFile, DeviceInv
    <2> QED
      BY <1>3, <2>1, ContentKinds DEF OpenFile, DeviceInv
  <1>4. CASE WriteFile
    <2>1. job[2] \in Files /\ Saved(job[1]) \in Contents
      BY <1>4, ContentKinds DEF WriteFile, DeviceInv, Given
    <2> QED
      BY <1>4, <2>1 DEF WriteFile, DeviceInv
  <1> QED
    BY <1>1, <1>2, <1>3, <1>4 DEF Httpd

LEMMA LoaderDevice == Given /\ DeviceInv /\ Loader => DeviceInv'
  <1> SUFFICES ASSUME Given, DeviceInv, Loader PROVE DeviceInv'
    OBVIOUS
  <1> USE DEF server, Given
  <1>1. CASE LoadStarts
    <2>1. /\ orders' \in Nat /\ (result = "none" => orders' = 0) /\ rd' = 1 /\ 1 \in Files
          /\ [f \in Files |-> NoConf] \in [Files -> Confs]
      BY <1>1 DEF LoadStarts, DeviceInv, Files, Confs
    <2>2. UNCHANGED <<files, hpc, job, wipe, lacking, result, cuts>> /\ rd = 0
          /\ conf' = [f \in Files |-> NoConf]
      BY <1>1 DEF LoadStarts
    <2> QED
      BY <2>1, <2>2 DEF DeviceInv, Files
  <1>2. CASE LoadFails
    BY <1>2 DEF LoadFails, Reading, DeviceInv
  <1>3. CASE ReadFile
    <2>1. rd \in Files /\ rd > 0 /\ wipe = 0 /\ files[rd].by \in Confs /\ rd' \in 0..(NFiles + 1)
      BY <1>3, ContentKinds DEF ReadFile, Reading, DeviceInv, Confs, Files
    <2> QED
      BY <1>3, <2>1 DEF ReadFile, DeviceInv
  <1>4. CASE ReadTorn
    <2>1. wipe' \in 0..NFiles /\ lacking' \in 0..NKeys /\ lacking' > 0
      BY <1>4 DEF ReadTorn, Keys
    <2> QED
      BY <1>4, <2>1 DEF ReadTorn, Reading, DeviceInv
  <1>5. CASE WipeFile
    <2>1. wipe + 1 \in 1..NFiles /\ [files EXCEPT ![wipe] = Wiped(@)] \in [Files -> Contents]
      BY <1>5, ContentKinds DEF WipeFile, DeviceInv, Wiped, Files
    <2> QED
      BY <1>5, <2>1 DEF WipeFile, DeviceInv
  <1>6. CASE WipeLast
    <2> DEFINE left == [files EXCEPT ![wipe] = Wiped(@)]
    <2>1. left \in [Files -> Contents]
      BY <1>6, ContentKinds DEF DeviceInv, Wiped
    <2>2. CASE rd = HttpFile
      <3>1. Restarts(left) /\ cuts' \in 0..MaxCuts
        BY <1>6, <2>2 DEF WipeLast, DeviceInv
      <3> QED
        BY <2>1, <3>1, RestartDevice
    <2>3. CASE rd # HttpFile
      <3>1. rd \in Files /\ rd + 1 \in 0..(NFiles + 1) /\ 1 \in 0..NFiles /\ lacking \in 1..NKeys
        BY <1>6 DEF WipeLast, DeviceInv, Files
      <3>2. /\ files' = left /\ lacking' = lacking - 1
            /\ IF lacking > 1 THEN wipe' = 1 /\ rd' = rd ELSE wipe' = 0 /\ rd' = rd + 1
            /\ UNCHANGED <<orders, hpc, job, conf, result, cuts>>
        BY <1>6, <2>3 DEF WipeLast
      <3>3. lacking' \in 0..NKeys /\ (lacking > 1 => lacking' > 0)
        BY <3>1, <3>2
      <3>4. CASE lacking > 1
        BY <2>1, <3>1, <3>2, <3>3, <3>4 DEF DeviceInv
      <3>5. CASE ~(lacking > 1)
        <4>1. rd > 0
          BY <3>1 DEF Files
        <4> QED
          BY <2>1, <3>1, <3>2, <3>3, <3>5, <4>1 DEF DeviceInv
      <3> QED
        BY <3>4, <3>5
    <2> QED
      BY <2>2, <2>3
  <1>7. CASE LoadSucceeds
    BY <1>7 DEF LoadSucceeds, AllRead, DeviceInv, Files
  <1>8. CASE LoadAborts
    BY <1>8, RestartDevice DEF LoadAborts, DeviceInv
  <1> QED
    BY <1>1, <1>2, <1>3, <1>4, <1>5, <1>6, <1>7, <1>8 DEF Loader

LEMMA PageDevice == DeviceInv /\ Page => DeviceInv'
  <1>1. Page => UNCHANGED <<files, hpc, job, orders, rd, wipe, lacking, conf, result, cuts>>
    BY Zenon DEF Page, Finish, FilesRead, FileUnreadable, PostSettles, GivesUp, Lost, Timeout,
       server, loader
  <1> QED
    BY <1>1 DEF DeviceInv

LEMMA NextDevice == Given /\ DeviceInv /\ PageInv /\ [Next]_vars => DeviceInv'
  <1> SUFFICES ASSUME Given, DeviceInv, PageInv, [Next]_vars PROVE DeviceInv'
    OBVIOUS
  <1>1. CASE PowerCut
    BY <1>1, RestartDevice DEF PowerCut, DeviceInv, Given
  <1>2. CASE UNCHANGED vars
    BY <1>2 DEF vars, server, loader, DeviceInv
  <1> QED
    BY <1>1, <1>2, HttpdDevice, LoaderDevice, PageDevice DEF Next

----------------------------------------------------------------------------
(***************************************************************************)
(* The page and its requests.                                              *)
(***************************************************************************)
\* The steps of the device that no request takes part in.
Inner == OpenFile \/ WriteFile \/ Loader \/ PowerCut

LEMMA InnerSteps ==
  ASSUME Inner
  PROVE  /\ UNCHANGED browser
         /\ sent' = sent \/ (sent' = {} /\ orders' = 1 /\ rd' = 0 /\ wipe' = 0 /\ result' = "none"
                             /\ hpc' = "idle" /\ conf' = [f \in Files |-> NoConf])
  <1>1. UNCHANGED browser
    BY Zenon DEF Inner, OpenFile, WriteFile, Loader, PowerCut, LoadStarts, LoadFails, ReadFile,
       ReadTorn, WipeFile, WipeLast, LoadSucceeds, LoadAborts, Restarts
  <1>2. sent' = sent \/ \E left : Restarts(left)
    BY Zenon DEF Inner, OpenFile, WriteFile, Loader, PowerCut, LoadStarts, LoadFails, ReadFile,
       ReadTorn, WipeFile, WipeLast, LoadSucceeds, LoadAborts
  <1> QED
    BY <1>1, <1>2 DEF Restarts

\* A promise of a post is settled: either others of its setup are not, or /connect is
\* asked for.
LEMMA SettledCases ==
  ASSUME Given, PageInv, NEW r \in waiting, PostSettles(r)
  PROVE  /\ r = <<r[1], r[2]>> /\ r[2] \in Files /\ r[1] \in 1..setup /\ r \notin sent
         /\ r[1] \notin reading \cup rejected
         /\ UNCHANGED <<files, page, setup, reading, rejected, server, loader, cuts>>
         /\ \/ /\ \E f \in Files : <<r[1], f>> \in waiting \ {r}
               /\ waiting' = waiting \ {r} /\ sent' = sent /\ timers' = timers
            \/ /\ \A f \in Files : <<r[1], f>> \notin waiting \ {r}
               /\ waiting' = (waiting \ {r}) \cup {<<r[1], Connect>>}
               /\ sent' = sent \cup {<<r[1], Connect>>} /\ timers' = timers \ {r[1]}
  <1>1. r \in Requests /\ r[1] \in 1..setup /\ r[2] # Connect /\ r \notin sent
    BY RequestsOut DEF PageInv, PostSettles
  <1>2. r[2] \in Files /\ r = <<r[1], r[2]>>
    BY <1>1, RequestParts
  <1>3. r[1] \notin reading \cup rejected
    BY DEF PageInv
  <1>4. UNCHANGED <<files, page, setup, reading, rejected, server, loader, cuts>>
    BY DEF PostSettles
  <1>5. CASE CountsToZero(r)
    BY <1>1, <1>2, <1>3, <1>4, <1>5 DEF PostSettles, CountsToZero, TimersAfter
  <1>6. CASE ~CountsToZero(r)
    BY <1>1, <1>2, <1>3, <1>4, <1>6 DEF PostSettles, CountsToZero
  <1> QED
    BY <1>5, <1>6

LEMMA SettledPage ==
  ASSUME Given, PageInv, NEW r \in waiting, PostSettles(r)
  PROVE  PageInv'
  <1>1. /\ r = <<r[1], r[2]>> /\ r[2] \in Files /\ r[1] \in 1..setup /\ r \notin sent
        /\ r[1] \notin reading \cup rejected
        /\ UNCHANGED <<page, setup, reading, rejected>>
    BY SettledCases
  <1>2. CASE /\ \E f \in Files : <<r[1], f>> \in waiting \ {r}
             /\ waiting' = waiting \ {r} /\ sent' = sent /\ timers' = timers
    <2>1. waiting' \subseteq waiting /\ sent' \subseteq waiting'
      BY <1>1, <1>2 DEF PageInv
    <2>2. \A s \in timers : \E f \in Files : <<s, f>> \in waiting'
      <3> SUFFICES ASSUME NEW s \in timers PROVE \E f \in Files : <<s, f>> \in waiting'
        OBVIOUS
      <3>1. CASE s = r[1]
        BY <1>2, <3>1
      <3>2. CASE s # r[1]
        <4>1. PICK f \in Files : <<s, f>> \in waiting
          BY DEF PageInv
        <4>2. <<s, f>> # r
          BY <1>1, <3>2
        <4> QED
          BY <1>2, <4>1, <4>2
      <3> QED
        BY <3>1, <3>2
    <2> QED
      BY <1>1, <1>2, <2>1, <2>2 DEF PageInv
  <1>3. CASE /\ \A f \in Files : <<r[1], f>> \notin waiting \ {r}
             /\ waiting' = (waiting \ {r}) \cup {<<r[1], Connect>>}
             /\ sent' = sent \cup {<<r[1], Connect>>} /\ timers' = timers \ {r[1]}
    <2>1. waiting' \subseteq (1..setup) \X (0..NFiles) /\ sent' \subseteq waiting'
      BY <1>1, <1>3 DEF PageInv, Connect, Given
    <2>2. \A s \in timers' : \E f \in Files : <<s, f>> \in waiting'
      <3> SUFFICES ASSUME NEW s \in timers, s # r[1] PROVE \E f \in Files : <<s, f>> \in waiting'
        BY <1>3
      <3>1. PICK f \in Files : <<s, f>> \in waiting
        BY DEF PageInv
      <3>2. <<s, f>> # r
        BY <1>1
      <3> QED
        BY <1>3, <3>1, <3>2
    <2>3. \A s \in 1..setup : <<s, Connect>> \in waiting' => \A f \in Files : <<s, f>> \notin waiting'
      <3> SUFFICES ASSUME NEW s \in 1..setup, <<s, Connect>> \in waiting', NEW f \in Files,
                          <<s, f>> \in waiting'
                   PROVE  FALSE
        OBVIOUS
      <3>1. f # Connect
        BY DEF Files, Connect, Given
      <3>2. <<s, f>> \in waiting \ {r}
        BY <1>3, <3>1
      <3>3. CASE s = r[1]
        BY <1>3, <3>2, <3>3
      <3>4. CASE s # r[1]
        BY <1>1, <1>3, <3>2, <3>4 DEF PageInv
      <3> QED
        BY <3>3, <3>4
    <2>4. \A q \in waiting' : q[1] \notin reading \cup rejected
      BY <1>1, <1>3 DEF PageInv
    <2> QED
      BY <1>1, <1>3, <2>1, <2>2, <2>3, <2>4 DEF PageInv
  <1> QED
    BY <1>2, <1>3, SettledCases

\* The posts of a setup go out.
LEMMA FilesReadCases ==
  ASSUME Given, PageInv, NEW s \in 1..Setups, FilesRead(s)
  PROVE  /\ s \in reading /\ s \in 1..setup /\ s \notin rejected
         /\ reading' = reading \ {s} /\ timers' = timers \cup {s}
         /\ waiting' = waiting \cup ({s} \X Files) /\ sent' = sent \cup ({s} \X Files)
         /\ UNCHANGED <<files, page, setup, rejected, server, loader, cuts>>
         /\ 1 \in Files /\ Files \subseteq 0..NFiles /\ Connect \notin Files
         /\ \A r \in waiting : r[1] # s
  BY DEF FilesRead, PageInv, Files, Given, Connect

LEMMA NextPage == Given /\ PageInv /\ [Next]_vars => PageInv'
  <1> SUFFICES ASSUME Given, PageInv, [Next]_vars PROVE PageInv'
    OBVIOUS
  <1>1. CASE Inner
    <2>1. UNCHANGED <<page, setup, reading, rejected, waiting, timers>> /\ (sent' = sent \/ sent' = {})
      BY <1>1, InnerSteps DEF browser
    <2> QED
      BY <2>1 DEF PageInv
  <1>2. ASSUME NEW r \in sent, HandlePost(r) \/ Lost(r) PROVE PageInv'
    <2>1. sent' \subseteq sent /\ UNCHANGED browser
      BY <1>2 DEF HandlePost, Lost
    <2> QED
      BY <2>1 DEF browser, PageInv
  <1>3. ASSUME NEW r \in sent, HandleConnect(r) PROVE PageInv'
    <2>1. /\ waiting' \in {waiting, waiting \ {r}} /\ sent' = sent \ {r}
          /\ page' \in {page, "ap_select"} /\ UNCHANGED <<setup, reading, rejected, timers>>
          /\ \A s, f : f \in Files => <<s, f>> # r
      BY <1>3 DEF HandleConnect, Files, Connect, Given
    <2> QED
      BY <2>1 DEF PageInv
  <1>4. ASSUME NEW r \in waiting, PostSettles(r) PROVE PageInv'
    BY <1>4, SettledPage
  <1>5. ASSUME NEW r \in waiting, GivesUp(r) PROVE PageInv'
    <2>1. /\ waiting' = waiting \ {r} /\ page' = "setup-fail" /\ r \notin sent
          /\ UNCHANGED <<setup, reading, rejected, timers, sent>>
          /\ \A s, f : f \in Files => <<s, f>> # r
      BY <1>5 DEF GivesUp, ConnectFails, Files, Connect, Given
    <2> QED
      BY <2>1 DEF PageInv
  <1>6. ASSUME NEW s \in 1..Setups, Timeout(s) PROVE PageInv'
    BY <1>6 DEF Timeout, PageInv
  <1>7. CASE Finish
    <2>1. /\ setup + 1 \in 0..Setups /\ setup' = setup + 1 /\ page' = "loading"
          /\ reading' = reading \cup {setup + 1} /\ setup \in Nat
          /\ 1..setup \subseteq 1..(setup + 1) /\ setup + 1 \in 1..(setup + 1)
          /\ setup + 1 \notin 1..setup
          /\ UNCHANGED <<rejected, timers, waiting, sent>>
      BY <1>7 DEF Finish, PageInv, Given
    <2>2. \A s : <<s, Connect>> \in waiting => s \in 1..setup
      BY DEF PageInv
    <2>3. \A r \in waiting : r[1] \notin reading' \cup rejected'
      BY <2>1 DEF PageInv
    <2>4. reading' \subseteq 1..(setup + 1) /\ reading' \cap rejected' = {}
      BY <2>1 DEF PageInv
    <2> QED
      BY <2>1, <2>2, <2>3, <2>4 DEF PageInv
  <1>8. ASSUME NEW s \in 1..Setups, FilesRead(s) PROVE PageInv'
    <2>1. /\ s \in 1..setup /\ s \notin rejected /\ reading' = reading \ {s}
          /\ timers' = timers \cup {s}
          /\ waiting' = waiting \cup ({s} \X Files) /\ sent' = sent \cup ({s} \X Files)
          /\ UNCHANGED <<page, setup, rejected>>
          /\ 1 \in Files /\ Files \subseteq 0..NFiles /\ Connect \notin Files
          /\ \A r \in waiting : r[1] # s
      BY <1>8, FilesReadCases
    <2>2. waiting' \subseteq (1..setup) \X (0..NFiles) /\ sent' \subseteq waiting'
      BY <2>1 DEF PageInv
    <2>3. \A q \in timers' : \E f \in Files : <<q, f>> \in waiting'
      BY <2>1 DEF PageInv
    <2>4. \A r \in waiting' : r[1] \notin reading' \cup rejected'
      BY <2>1 DEF PageInv
    <2>5. \A q \in 1..setup : <<q, Connect>> \in waiting' =>
             \A f \in Files : <<q, f>> \notin waiting'
      <3> SUFFICES ASSUME NEW q \in 1..setup, <<q, Connect>> \in waiting', NEW f \in Files,
                          <<q, f>> \in waiting'
                   PROVE  FALSE
        OBVIOUS
      <3>1. <<q, Connect>> \in waiting
        BY <2>1
      <3>2. q # s
        BY <2>1, <3>1
      <3>3. <<q, f>> \in waiting
        BY <2>1, <3>2
      <3> QED
        BY <3>1, <3>3 DEF PageInv
    <2> QED
      BY <2>1, <2>2, <2>3, <2>4, <2>5 DEF PageInv
  <1>9. ASSUME NEW s \in 1..Setups, FileUnreadable(s) PROVE PageInv'
    <2>1. /\ s \in reading /\ reading' = reading \ {s} /\ rejected' = rejected \cup {s}
          /\ UNCHANGED <<page, setup, timers, waiting, sent>>
      BY <1>9 DEF FileUnreadable
    <2> QED
      BY <2>1 DEF PageInv
  <1>10. CASE UNCHANGED vars
    BY <1>10 DEF vars, browser, PageInv
  <1> QED
    BY <1>1, <1>2, <1>3, <1>4, <1>5, <1>6, <1>7, <1>8, <1>9, <1>10, Zenon
       DEF Next, Httpd, Page, Inner
----------------------------------------------------------------------------
(***************************************************************************)
(* The orders to load: every setup asks for one at most.                   *)
(***************************************************************************)
LEMMA SetupsFinite ==
  ASSUME Given, NEW S \in SUBSET (1..Setups)
  PROVE  IsFiniteSet(S) /\ Cardinality(S) \in Nat /\ Cardinality(S) <= Setups
  <1>1. IsFiniteSet(1..Setups) /\ Cardinality(1..Setups) = Setups
    BY FS_Interval DEF Given
  <1> QED
    BY <1>1, FS_Subset, FS_CardinalityType

LEMMA FewerPending ==
  ASSUME Given, OrderInv, Pending' \subseteq Pending, orders' \in Nat, orders' <= orders
  PROVE  OrderInv'
  <1>1. Pending \subseteq 1..Setups /\ Pending' \subseteq 1..Setups
    BY DEF Pending
  <1>2. /\ IsFiniteSet(Pending) /\ Cardinality(Pending) \in Nat /\ Cardinality(Pending') \in Nat
    BY <1>1, SetupsFinite
  <1>3. Cardinality(Pending') <= Cardinality(Pending)
    BY <1>2, FS_Subset
  <1>4. orders \in Nat /\ orders + Cardinality(Pending) <= Setups + 1 /\ Setups \in Nat
    BY DEF OrderInv, Given
  <1>5. orders' + Cardinality(Pending') <= Setups + 1
    BY <1>2, <1>3, <1>4
  <1> QED
    BY <1>5 DEF OrderInv

\* A promise that is settled leaves its setup what it was.
LEMMA SettledOrder ==
  ASSUME Given, PageInv, OrderInv, NEW r \in waiting, PostSettles(r)
  PROVE  OrderInv'
  <1>1. r = <<r[1], r[2]>> /\ r[2] \in Files /\ UNCHANGED <<setup, reading, orders>>
    BY SettledCases DEF loader
  <1>2. /\ waiting' \subseteq waiting \cup {<<r[1], Connect>>}
        /\ sent' \subseteq sent \cup {<<r[1], Connect>>}
    BY SettledCases
  <1>3. Connect \notin Files
    BY DEF Connect, Files
  <1>4. <<r[1], r[2]>> \in waiting
    BY <1>1
  <1>5. Pending' \subseteq Pending
    <2> SUFFICES ASSUME NEW s \in Pending', s \notin Pending PROVE FALSE
      OBVIOUS
    <2>1. s \in 1..Setups /\ ~(s > setup) /\ s \notin reading /\ <<s, Connect>> \notin sent
          /\ (\A f \in Files : <<s, f>> \notin waiting)
      BY DEF Pending
    <2>2. s # r[1]
      BY <1>1, <1>4, <2>1
    <2>3. CASE <<s, Connect>> \in sent'
      BY <1>2, <2>1, <2>2, <2>3
    <2>4. CASE \E f \in Files : <<s, f>> \in waiting'
      BY <1>2, <1>3, <2>1, <2>2, <2>4
    <2> QED
      BY <1>1, <2>1, <2>3, <2>4 DEF Pending
  <1> QED
    BY <1>1, <1>5, FewerPending DEF OrderInv

LEMMA InnerOrder ==
  ASSUME Given, OrderInv, Inner
  PROVE  OrderInv'
  <1>1. setup' = setup /\ reading' = reading /\ waiting' = waiting
        /\ (sent' = sent \/ (sent' = {} /\ orders' = 1))
    BY InnerSteps DEF browser
  <1>2. Pending' \subseteq Pending
    BY <1>1 DEF Pending
  <1>3. CASE LoadStarts
    BY <1>2, <1>3, FewerPending DEF LoadStarts, OrderInv
  <1>4. CASE orders' = orders
    BY <1>2, <1>4, FewerPending DEF OrderInv
  <1>5. CASE orders' = 1
    <2>1. Pending' \subseteq 1..Setups
      BY DEF Pending
    <2>2. Cardinality(Pending') \in Nat /\ Cardinality(Pending') <= Setups /\ Setups \in Nat
      BY <2>1, SetupsFinite DEF Given
    <2> QED
      BY <1>5, <2>2 DEF OrderInv
  <1>6. LoadStarts \/ orders' = orders \/ orders' = 1
    BY Zenon DEF Inner, OpenFile, WriteFile, Loader, PowerCut, LoadFails, ReadFile,
       ReadTorn, WipeFile, WipeLast, LoadSucceeds, LoadAborts, Restarts, loader
  <1> QED
    BY <1>3, <1>4, <1>5, <1>6

LEMMA NextOrder == Given /\ PageInv /\ OrderInv /\ [Next]_vars => OrderInv'
  <1> SUFFICES ASSUME Given, PageInv, OrderInv, [Next]_vars PROVE OrderInv'
    OBVIOUS
  <1>0. orders \in Nat
    BY DEF OrderInv
  <1>1. CASE Inner
    BY <1>1, InnerOrder
  <1>2. ASSUME NEW r \in sent, HandlePost(r) \/ Lost(r) PROVE OrderInv'
    <2>1. sent' \subseteq sent /\ UNCHANGED <<setup, reading, waiting, orders>>
      BY <1>2 DEF HandlePost, Lost, browser, loader
    <2>2. Pending' \subseteq Pending
      BY <2>1 DEF Pending
    <2> QED
      BY <1>0, <2>1, <2>2, FewerPending
  <1>3. ASSUME NEW r \in sent, HandleConnect(r) PROVE OrderInv'
    <2> DEFINE s == r[1]
    <2>1. /\ r = <<s, Connect>> /\ r \in sent /\ r \in waiting /\ s \in 1..Setups
          /\ setup' = setup /\ reading' = reading /\ s \notin reading
          /\ waiting' \subseteq waiting /\ sent' = sent \ {r} /\ orders' = orders + 1
      BY <1>3, RequestParts, RequestsOut DEF HandleConnect, PageInv
    <2> HIDE DEF s
    <2>2. s \in Pending
      BY <2>1 DEF Pending
    <2>3. s \in 1..setup /\ setup \in Nat /\ \A f \in Files : <<s, f>> \notin waiting
      BY <2>1 DEF PageInv, Given
    <2>4. Pending' \subseteq Pending \ {s}
      <3>1. Pending' \subseteq Pending
        BY <2>1 DEF Pending
      <3>2. s \notin Pending'
        <4>1. ~(s > setup') /\ <<s, Connect>> \notin sent' /\ s \notin reading'
          BY <2>1, <2>3
        <4>2. \A f \in Files : <<s, f>> \notin waiting'
          BY <2>1, <2>3
        <4> QED
          BY <4>1, <4>2 DEF Pending
      <3> QED
        BY <3>1, <3>2
    <2>5. Pending \subseteq 1..Setups /\ Pending \ {s} \subseteq 1..Setups /\ Pending' \subseteq 1..Setups
      BY DEF Pending
    <2>6. /\ IsFiniteSet(Pending) /\ IsFiniteSet(Pending \ {s})
          /\ Cardinality(Pending) \in Nat /\ Cardinality(Pending') \in Nat
          /\ Cardinality(Pending \ {s}) \in Nat
      BY <2>5, SetupsFinite
    <2>7. Cardinality(Pending \ {s}) = Cardinality(Pending) - 1
      BY <2>2, <2>6, FS_RemoveElement
    <2>8. Cardinality(Pending') <= Cardinality(Pending \ {s})
      BY <2>4, <2>6, FS_Subset
    <2>9. orders + Cardinality(Pending) <= Setups + 1 /\ Setups \in Nat
      BY DEF OrderInv, Given
    <2>10. orders' \in Nat /\ orders' + Cardinality(Pending') <= Setups + 1
      BY <1>0, <2>1, <2>6, <2>7, <2>8, <2>9
    <2> QED
      BY <2>10 DEF OrderInv
  <1>4. ASSUME NEW r \in waiting, PostSettles(r) PROVE OrderInv'
    BY <1>4, SettledOrder
  <1>5. ASSUME NEW r \in waiting, GivesUp(r) PROVE OrderInv'
    <2>1. waiting' \subseteq waiting /\ UNCHANGED <<setup, reading, sent, orders>>
      BY <1>5 DEF GivesUp, loader
    <2>2. Pending' \subseteq Pending
      BY <2>1 DEF Pending
    <2> QED
      BY <1>0, <2>1, <2>2, FewerPending
  <1>6. CASE (\E s \in 1..Setups : Timeout(s) \/ FileUnreadable(s)) \/ UNCHANGED vars
    <2>1. reading' \subseteq reading /\ UNCHANGED <<setup, waiting, sent, orders>>
      BY <1>6, Zenon DEF Timeout, FileUnreadable, vars, browser, loader
    <2>2. Pending' \subseteq Pending
      BY <2>1 DEF Pending
    <2> QED
      BY <1>0, <2>1, <2>2, FewerPending
  <1>7. CASE Finish
    <2>1. /\ setup \in Nat /\ setup' = setup + 1 /\ reading' = reading \cup {setup + 1}
          /\ UNCHANGED <<waiting, sent, orders>>
      BY <1>7 DEF Finish, PageInv, Given, loader
    <2>2. Pending' \subseteq Pending
      BY <2>1 DEF Pending
    <2> QED
      BY <1>0, <2>1, <2>2, FewerPending
  <1>8. ASSUME NEW s \in 1..Setups, FilesRead(s) PROVE OrderInv'
    <2>1. /\ s \in reading /\ reading' = reading \ {s} /\ Connect \notin Files
          /\ waiting' = waiting \cup ({s} \X Files) /\ sent' = sent \cup ({s} \X Files)
          /\ UNCHANGED <<setup, orders>>
      BY <1>8, FilesReadCases DEF loader
    <2>2. Pending' \subseteq Pending
      <3> SUFFICES ASSUME NEW q \in Pending', q \notin Pending PROVE FALSE
        OBVIOUS
      <3>1. q \in 1..Setups /\ ~(q > setup) /\ q \notin reading /\ <<q, Connect>> \notin sent
            /\ (\A f \in Files : <<q, f>> \notin waiting)
        BY DEF Pending
      <3>2. q # s
        BY <2>1, <3>1
      <3>3. q \notin reading' /\ <<q, Connect>> \notin sent' /\ \A f \in Files : <<q, f>> \notin waiting'
        BY <2>1, <3>1, <3>2
      <3> QED
        BY <2>1, <3>1, <3>3 DEF Pending
    <2> QED
      BY <1>0, <2>1, <2>2, FewerPending
  <1> QED
    BY <1>1, <1>2, <1>3, <1>4, <1>5, <1>6, <1>7, <1>8, Zenon DEF Next, Httpd, Page, Inner
----------------------------------------------------------------------------
(***************************************************************************)
(* A failure that the page has shown.                                      *)
(***************************************************************************)
LEMMA NextFinal == Given /\ PageInv /\ FinalInv /\ [MCNext]_mcVars => FinalInv'
  <1> SUFFICES ASSUME Given, PageInv, FinalInv, [MCNext]_mcVars PROVE FinalInv'
    OBVIOUS
  <1>1. CASE UNCHANGED mcVars
    <2>1. UNCHANGED vars /\ final' = final
      BY <1>1, Zenon DEF mcVars, history
    <2> QED
      BY <2>1 DEF vars, browser, FinalInv
  <1> SUFFICES ASSUME MCNext PROVE FinalInv'
    BY <1>1
  <1>2. Next /\ final' = final \cup {s \in 1..Setups : ShowsFailure(s)}
    BY Zenon DEF MCNext
  \* Who joins them has no request left.
  <1>3. ASSUME NEW s \in 1..Setups, ShowsFailure(s)
        PROVE  /\ s \in 1..setup /\ s \notin reading /\ setup' = setup /\ reading' = reading
               /\ waiting' \subseteq waiting /\ \A r \in waiting' : r[1] # s
    <2>1. GivesUp(<<s, Connect>>)
      BY <1>3 DEF ShowsFailure, Answered, Timeout, PageInv
    <2>2. /\ <<s, Connect>> \in waiting /\ waiting' = waiting \ {<<s, Connect>>}
          /\ setup' = setup /\ reading' = reading
      BY <2>1 DEF GivesUp
    <2>3. s \in 1..setup /\ s \notin reading /\ \A f \in Files : <<s, f>> \notin waiting
      BY <2>2 DEF PageInv
    <2>4. ASSUME NEW r \in waiting', r[1] = s PROVE FALSE
      <3>1. r \in waiting /\ r # <<s, Connect>> /\ r = <<s, r[2]>> /\ r[2] \in 0..NFiles
        BY <2>2, <2>4, RequestsOut, RequestParts
      <3>2. r[2] \in Files
        BY <3>1 DEF Connect, Files, Given
      <3> QED
        BY <2>3, <3>1, <3>2
    <2> QED
      BY <2>2, <2>3, <2>4
  \* And nobody who is among them gets a request.
  <1>4. final \subseteq 1..setup' /\ final \cap reading' = {} /\ \A r \in waiting' : r[1] \notin final
    <2>1. CASE UNCHANGED <<setup, reading>> /\ waiting' \subseteq waiting
      BY <2>1 DEF FinalInv
    <2>2. CASE Inner
      BY <2>1, <2>2, InnerSteps DEF browser
    <2>3. CASE \E r \in sent : HandlePost(r) \/ HandleConnect(r) \/ Lost(r)
      BY <2>1, <2>3 DEF HandlePost, HandleConnect, Lost, browser
    <2>4. ASSUME NEW r \in waiting, PostSettles(r)
          PROVE  final \subseteq 1..setup' /\ final \cap reading' = {}
                 /\ \A q \in waiting' : q[1] \notin final
      <3>1. waiting' \subseteq waiting \cup {<<r[1], Connect>>} /\ UNCHANGED <<setup, reading>>
        BY <2>4, SettledCases
      <3> QED
        BY <3>1 DEF FinalInv
    <2>5. CASE (\E r \in waiting : GivesUp(r)) \/ \E s \in 1..Setups : Timeout(s)
      BY <2>1, <2>5 DEF GivesUp, Timeout
    <2>6. CASE Finish
      <3>1. /\ setup \in Nat /\ setup' = setup + 1 /\ reading' = reading \cup {setup + 1}
            /\ waiting' = waiting /\ 1..setup \subseteq 1..(setup + 1) /\ setup + 1 \notin 1..setup
        BY <2>6 DEF Finish, PageInv, Given
      <3> QED
        BY <3>1 DEF FinalInv
    <2>7. ASSUME NEW s \in 1..Setups, FilesRead(s)
          PROVE  final \subseteq 1..setup' /\ final \cap reading' = {}
                 /\ \A q \in waiting' : q[1] \notin final
      <3>1. /\ s \in reading /\ reading' = reading \ {s} /\ setup' = setup
            /\ waiting' = waiting \cup ({s} \X Files)
        BY <2>7, FilesReadCases
      <3> QED
        BY <3>1 DEF FinalInv
    <2>8. CASE \E s \in 1..Setups : FileUnreadable(s)
      BY <2>8 DEF FileUnreadable, FinalInv
    <2> QED
      BY <1>2, <2>2, <2>3, <2>4, <2>5, <2>6, <2>7, <2>8, Zenon DEF Next, Httpd, Page, Inner
  <1> QED
    BY <1>2, <1>3, <1>4 DEF FinalInv
----------------------------------------------------------------------------
(***************************************************************************)
(* What a load has read.                                                   *)
(***************************************************************************)
\* The history variable, with what a load that nobody disturbs may assume.
LEMMA NotRaced ==
  ASSUME [MCNext]_mcVars, ~raced'
  PROVE  [Next]_vars /\ (LoadStarts \/ (~raced /\ ~(rd > 0 /\ Writes)) \/ (~raced /\ UNCHANGED vars))
  <1>1. CASE MCNext
    BY <1>1, Zenon DEF MCNext
  <1>2. CASE UNCHANGED mcVars
    <2>1. UNCHANGED vars /\ raced' = raced
      BY <1>2, Zenon DEF mcVars, history
    <2> QED
      BY <2>1, Zenon
  <1> QED
    BY <1>1, <1>2

LEMMA RestartReads ==
  ASSUME NEW left, Restarts(left)
  PROVE  ReadSoFar'
  BY DEF Restarts, ReadSoFar

LEMMA LoaderReads ==
  ASSUME Given, DeviceInv, ReadSoFar, Loader, ~LoadStarts
  PROVE  ReadSoFar'
  <1>0. NFiles \in Nat /\ rd \in Int /\ wipe \in Int
    BY DEF Given, DeviceInv
  <1>1. CASE LoadFails
    BY <1>1 DEF LoadFails, Reading, ReadSoFar
  <1>2. CASE ReadFile
    <2>1. rd \in Files /\ wipe = 0 /\ files[rd] # Empty /\ files[rd].by # NoConf
      BY <1>2, ContentKinds DEF ReadFile, Reading, DeviceInv, NoConf
    <2>2. \A f \in Files : f < rd => conf[f] # NoConf
      BY <1>0, <2>1 DEF ReadSoFar, Files
    <2>3. rd' = rd + 1 /\ wipe' = 0 /\ conf' = [conf EXCEPT ![rd] = files[rd].by]
      BY <1>2, <2>1 DEF ReadFile
    <2>4. \A f \in Files : f < rd' => conf'[f] # NoConf
      <3> SUFFICES ASSUME NEW f \in Files, f < rd' PROVE conf'[f] # NoConf
        OBVIOUS
      <3>1. f = rd \/ f < rd
        BY <1>0, <2>3 DEF Files
      <3> QED
        BY <2>1, <2>2, <2>3, <3>1 DEF DeviceInv
    <2>5. rd' # 0
      BY <1>0, <2>1, <2>3 DEF Files
    <2> QED
      BY <2>3, <2>4, <2>5 DEF ReadSoFar
  <1>3. CASE ReadTorn
    <2>1. /\ rd \in Files /\ files[rd] # Empty /\ wipe' = 1
          /\ UNCHANGED <<files, rd, conf, result>>
      BY <1>3, ContentKinds DEF ReadTorn, Reading, DeviceInv
    <2>2. \A f \in Files : f < rd => conf[f] # NoConf
      BY <1>0, <2>1 DEF ReadSoFar, Files
    <2>3. (\A f \in Files : ~(f < 1)) /\ rd # 0
      BY <2>1 DEF Files
    <2> QED
      BY <2>1, <2>2, <2>3 DEF ReadSoFar
  <1>4. CASE WipeFile
    <2>1. /\ wipe \in Files /\ wipe > 0 /\ wipe' = wipe + 1
          /\ files' = [files EXCEPT ![wipe] = Empty] /\ UNCHANGED <<rd, conf, result>>
      BY <1>0, <1>4 DEF WipeFile, Wiped, Files
    <2>2. /\ \A f \in Files : f < rd => conf[f] # NoConf
          /\ \A f \in Files : f < wipe => files[f] = Empty
      BY <2>1 DEF ReadSoFar
    <2>3. rd \in Files /\ rd # 0
      BY <2>1 DEF DeviceInv, Files
    <2>4. \A f \in Files : f < wipe' => files'[f] = Empty
      <3> SUFFICES ASSUME NEW f \in Files, f < wipe' PROVE files'[f] = Empty
        OBVIOUS
      <3>1. f = wipe \/ f < wipe
        BY <1>0, <2>1 DEF Files
      <3> QED
        BY <2>1, <2>2, <3>1 DEF DeviceInv
    <2> QED
      BY <2>1, <2>2, <2>3, <2>4 DEF ReadSoFar
  <1>5. CASE WipeLast
    <2> DEFINE left == [files EXCEPT ![wipe] = Wiped(@)]
    <2>1. wipe = NFiles /\ wipe > 0
      BY <1>5 DEF WipeLast, Given
    <2>2. CASE rd = HttpFile
      <3>1. Restarts(left)
        BY <1>5, <2>2 DEF WipeLast
      <3> QED
        BY <3>1, RestartReads
    <2>3. CASE rd # HttpFile
      <3>1. /\ files' = left /\ UNCHANGED <<conf, result>>
            /\ \/ wipe' = 1 /\ rd' = rd
               \/ wipe' = 0 /\ rd' = rd + 1
        BY <1>5, <2>3 DEF WipeLast
      <3>2. rd \in Files /\ rd # 0 /\ rd' # 0
        BY <1>0, <2>1, <3>1 DEF DeviceInv, Files
      <3>3. /\ \A f \in Files : f < rd => conf[f] # NoConf
            /\ \A f \in Files : f < NFiles => files[f] = Empty
        BY <2>1 DEF ReadSoFar
      <3>4. \A f \in Files : files'[f] = Empty
        <4> SUFFICES ASSUME NEW f \in Files PROVE files'[f] = Empty
          OBVIOUS
        <4>1. f = NFiles \/ f < NFiles
          BY DEF Files, Given
        <4> QED
          BY <2>1, <3>1, <3>3, <4>1 DEF Wiped, DeviceInv
      <3>5. CASE wipe' = 1 /\ rd' = rd
        <4>1. \A f \in Files : ~(f < 1)
          BY DEF Files
        <4> QED
          BY <3>1, <3>2, <3>3, <3>5, <4>1 DEF ReadSoFar
      <3>6. CASE wipe' = 0 /\ rd' = rd + 1 /\ rd' \in Files
        BY <3>1, <3>2, <3>4, <3>6 DEF ReadSoFar
      <3>7. CASE wipe' = 0 /\ rd' = rd + 1 /\ rd' \notin Files
        <4>1. rd = NFiles /\ rd' = NFiles + 1
          BY <1>0, <3>2, <3>7 DEF Files
        <4>2. \A f \in Files \ {NFiles} : f < rd
          BY <4>1 DEF Files, Given
        <4>3. ~HasHole'
          BY <3>1, <3>3, <4>2 DEF HasHole
        <4> QED
          BY <3>1, <3>2, <3>7, <4>1, <4>3 DEF ReadSoFar
      <3> QED
        BY <3>1, <3>5, <3>6, <3>7
    <2> QED
      BY <2>2, <2>3
  <1>6. CASE LoadSucceeds
    <2>1. rd = NFiles + 1 /\ rd' = 0 /\ UNCHANGED <<wipe, conf>>
      BY <1>6 DEF LoadSucceeds, AllRead
    <2>2. rd > 0 /\ rd \notin Files /\ (\A f \in Files \ {NFiles} : f < rd)
      BY <1>0, <2>1 DEF Files
    <2>3. ~HasHole
      BY <2>2 DEF ReadSoFar, HasHole
    <2>4. ~HasHole' /\ ~(wipe' > 0)
      BY <1>0, <2>1, <2>2, <2>3 DEF HasHole, DeviceInv
    <2> QED
      BY <2>1, <2>4 DEF ReadSoFar
  <1>7. CASE LoadAborts
    BY <1>7, RestartReads DEF LoadAborts
  <1> QED
    BY <1>1, <1>2, <1>3, <1>4, <1>5, <1>6, <1>7 DEF Loader

LEMMA NextHole == Given /\ DeviceInv /\ HoleInv /\ [MCNext]_mcVars => HoleInv'
  <1> SUFFICES ASSUME Given, DeviceInv, HoleInv, [MCNext]_mcVars, ~raced' PROVE ReadSoFar'
    BY DEF HoleInv
  <1>0. NFiles \in Nat /\ rd \in Nat /\ wipe \in Nat
    BY DEF Given, DeviceInv
  <1>1. CASE LoadStarts
    <2>1. rd = 0 /\ rd' = 1 /\ wipe' = wipe /\ wipe = 0
      BY <1>0, <1>1 DEF LoadStarts, DeviceInv, Files
    <2>2. \A f \in Files : ~(f < 1)
      BY DEF Files
    <2> QED
      BY <2>1, <2>2 DEF ReadSoFar
  <1>2. CASE ~raced /\ ~LoadStarts
    <2>1. ReadSoFar /\ [Next]_vars
      BY <1>2, NotRaced DEF HoleInv
    <2>2. CASE UNCHANGED <<files, rd, wipe, conf, result>>
      BY <2>1, <2>2 DEF ReadSoFar, HasHole
    <2>3. CASE Writes
      <3>1. rd = 0 \/ UNCHANGED vars
        BY <1>0, <1>2, <2>3, NotRaced
      <3>2. CASE UNCHANGED vars
        BY <2>2, <3>2 DEF vars, loader
      <3>3. CASE rd = 0
        <4>1. wipe = 0 /\ UNCHANGED <<rd, wipe, conf, result>>
          BY <1>0, <2>3, <3>3 DEF DeviceInv, Files, Writes, OpenFile, WriteFile, loader
        <4> QED
          BY <2>1, <3>3, <4>1 DEF ReadSoFar, HasHole
      <3> QED
        BY <3>1, <3>2, <3>3
    <2>4. CASE Loader
      BY <1>2, <2>1, <2>4, LoaderReads
    <2>5. CASE PowerCut
      BY <2>5, RestartReads DEF PowerCut
    <2>6. \/ Writes \/ Loader \/ PowerCut
          \/ UNCHANGED <<files, rd, wipe, conf, result>>
      <3>1. Page \/ UNCHANGED vars => UNCHANGED <<files, rd, wipe, conf, result>>
        BY Zenon DEF Page, Finish, FilesRead, FileUnreadable, PostSettles, GivesUp, Lost, Timeout,
           loader, vars
      <3>2. Httpd => Writes \/ UNCHANGED <<files, rd, wipe, conf, result>>
        BY Zenon DEF Httpd, Writes, HandlePost, HandleConnect, loader
      <3> QED
        BY <2>1, <3>1, <3>2 DEF Next
    <2> QED
      BY <2>2, <2>3, <2>4, <2>5, <2>6
  <1> QED
    BY <1>1, <1>2, NotRaced
----------------------------------------------------------------------------
(***************************************************************************)
(* Setups that do not overlap.                                             *)
(***************************************************************************)
LEMMA NotOverlapped ==
  ASSUME [MCNext]_mcVars, ~overlapped'
  PROVE  /\ ~overlapped /\ [Next]_vars
         /\ setup' = setup \/ ~UnderWay
         /\ raced' => raced \/ (rd > 0 /\ Writes)
         /\ ~failed' => ~failed /\ (~Fails \/ UNCHANGED vars)
  <1>1. CASE MCNext
    BY <1>1, Zenon DEF MCNext
  <1>2. CASE UNCHANGED mcVars
    <2>1. UNCHANGED vars /\ raced' = raced /\ overlapped' = overlapped /\ failed' = failed
      BY <1>2, Zenon DEF mcVars, history
    <2>2. setup' = setup
      BY <2>1, Zenon DEF vars, browser
    <2> QED
      BY <2>1, <2>2, Zenon
  <1> QED
    BY <1>1, <1>2

\* A setup that begins when no other is under way finds nothing on its way.
LEMMA Begins ==
  ASSUME Given, DeviceInv, PageInv, Finish, setup' = setup \/ ~UnderWay
  PROVE  /\ reading = {} /\ waiting = {} /\ sent = {} /\ setup' = setup + 1 /\ setup \in Nat
         /\ result = "none" \/ (orders = 0 /\ rd = 0)
         /\ reading' = {setup'}
         /\ UNCHANGED <<files, rejected, waiting, sent, hpc, job, orders, rd, wipe, conf, result>>
  <1>1. setup \in Nat /\ orders \in Nat /\ rd \in Nat
    BY DEF PageInv, DeviceInv, Given
  <1>2. setup' = setup + 1 /\ setup' # setup
    BY <1>1 DEF Finish
  <1>3. reading = {} /\ waiting = {} /\ (result = "none" \/ (orders = 0 /\ rd = 0))
    BY <1>1, <1>2 DEF UnderWay
  <1>4. sent = {}
    BY <1>3 DEF PageInv
  <1> QED
    BY <1>1, <1>2, <1>3, <1>4 DEF Finish, server, loader

\* While the posts are out, no load of their time goes on.
LEMMA PostsOut ==
  ASSUME OneSetup, NEW r \in waiting, r[2] # Connect
  PROVE  ~(result # "none" /\ (orders > 0 \/ rd > 0))
  BY DEF OneSetup

\* When /connect is handled, it was the only request.
LEMMA ConnectAlone ==
  ASSUME Given, PageInv, OneSetup, NEW r \in sent, HandleConnect(r)
  PROVE  waiting = {r} /\ r = <<setup, Connect>> /\ setup \in Nat \ {0} /\ reading = {}
         /\ setup \notin rejected
  <1>1. r \in waiting /\ r[2] = Connect /\ r[1] = setup /\ r = <<setup, Connect>> /\ setup \in 1..setup
        /\ setup \in Nat
    BY RequestParts, RequestsOut DEF HandleConnect, PageInv, OneSetup, Given
  <1>2. ASSUME NEW q \in waiting PROVE q = r
    <2>1. q = <<q[1], q[2]>> /\ q[1] = setup /\ q[2] \in 0..NFiles
      BY DEF PageInv, OneSetup
    <2>2. q[2] \notin Files
      BY <1>1, <2>1 DEF PageInv
    <2>3. q[2] = Connect
      BY <2>1, <2>2 DEF Files, Connect, Given
    <2> QED
      BY <1>1, <2>1, <2>3
  <1>3. setup \notin reading /\ setup \notin rejected
    BY <1>1 DEF PageInv
  <1> QED
    BY <1>1, <1>2, <1>3 DEF OneSetup

\* A step of a load, or of a file that is written, as far as it concerns the setup.
LEMMA InnerOne ==
  ASSUME Given, DeviceInv, PageInv, OneSetup, Inner
  PROVE  OneSetup'
  <1>1. UNCHANGED <<waiting, reading, setup>>
    BY InnerSteps DEF browser
  <1>2. orders \in Nat /\ rd \in Nat
    BY DEF DeviceInv, Given
  <1>3. CASE OpenFile \/ WriteFile
    <2>1. UNCHANGED <<orders, rd, result>> /\ hpc # "idle"
      BY <1>3 DEF OpenFile, WriteFile, loader
    <2> QED
      BY <1>1, <2>1 DEF OneSetup
  <1>4. CASE \E left : Restarts(left)
    <2>1. result' = "none"
      BY <1>4 DEF Restarts
    <2> QED
      BY <1>1, <2>1 DEF OneSetup
  <1>5. CASE LoadStarts \/ ReadFile \/ ReadTorn \/ WipeFile \/ (WipeLast /\ result' = result /\ hpc' = hpc)
    <2>1. orders > 0 \/ rd > 0
      BY <1>2, <1>5 DEF LoadStarts, ReadFile, ReadTorn, WipeFile, WipeLast, Reading, Files, Given,
         DeviceInv
    <2>2. UNCHANGED <<hpc, result>>
      BY <1>5 DEF LoadStarts, ReadFile, ReadTorn, WipeFile, server
    <2> QED
      BY <1>1, <2>1, <2>2 DEF OneSetup
  <1>6. CASE LoadFails \/ LoadSucceeds
    <2>1. rd > 0 /\ rd' = 0 /\ UNCHANGED <<orders, hpc>>
      BY <1>2, <1>6 DEF LoadFails, LoadSucceeds, Reading, AllRead, Files, Given, server
    <2>2. CASE result = "none"
      BY <1>1, <2>1, <2>2 DEF DeviceInv, OneSetup
    <2>3. CASE result # "none"
      BY <1>1, <2>1, <2>3 DEF OneSetup
    <2> QED
      BY <2>2, <2>3
  <1>7. WipeLast => (\E left : Restarts(left)) \/ (result' = result /\ hpc' = hpc)
    BY DEF WipeLast, server
  <1>8. LoadAborts \/ PowerCut => \E left : Restarts(left)
    BY DEF LoadAborts, PowerCut
  <1> QED
    BY <1>3, <1>4, <1>5, <1>6, <1>7, <1>8, Zenon DEF Inner, Loader

LEMMA NextRace ==
  Given /\ DeviceInv /\ PageInv /\ RaceInv /\ [MCNext]_mcVars => RaceInv'
  <1> SUFFICES ASSUME Given, DeviceInv, PageInv, RaceInv, [MCNext]_mcVars, ~overlapped'
               PROVE  ~raced' /\ OneSetup'
    BY DEF RaceInv
  <1>0. /\ ~raced /\ OneSetup /\ [Next]_vars
        /\ setup' = setup \/ ~UnderWay
        /\ raced' => raced \/ (rd > 0 /\ Writes)
    BY NotOverlapped DEF RaceInv
  <1>1. ~raced'
    <2>1. Writes => hpc # "idle"
      BY DEF Writes, OpenFile, WriteFile
    <2>2. rd > 0 => hpc = "idle"
      BY <1>0 DEF OneSetup, DeviceInv
    <2>3. ~(rd > 0 /\ Writes)
      BY <2>1, <2>2
    <2> QED
      BY <1>0, <2>3
  <1>2. CASE Inner
    BY <1>0, <1>1, <1>2, InnerOne
  <1>3. ASSUME NEW r \in sent, HandlePost(r) PROVE OneSetup'
    <2>1. r \in waiting /\ r[2] # Connect /\ UNCHANGED <<reading, setup, waiting, orders, rd, result>>
      BY <1>3 DEF HandlePost, PageInv, browser, loader
    <2>2. ~(result # "none" /\ (orders > 0 \/ rd > 0))
      BY <1>0, <2>1, PostsOut
    <2> QED
      BY <1>0, <2>1, <2>2 DEF OneSetup
  <1>4. ASSUME NEW r \in sent, HandleConnect(r) PROVE OneSetup'
    <2>1. waiting = {r} /\ r[2] = Connect /\ hpc = "idle" /\ reading = {}
      BY <1>0, <1>4, ConnectAlone DEF HandleConnect, Serves
    <2>2. hpc' = hpc /\ waiting' \subseteq waiting /\ setup' = setup /\ reading' = reading
      BY <1>4 DEF HandleConnect, server
    <2> QED
      BY <1>0, <2>1, <2>2 DEF OneSetup
  <1>5. ASSUME NEW r \in waiting, PostSettles(r) PROVE OneSetup'
    <2>1. /\ r[1] = setup /\ waiting' \subseteq waiting \cup {<<r[1], Connect>>}
          /\ UNCHANGED <<setup, reading, orders, rd, result>> /\ r[2] # Connect
      BY <1>0, <1>5, SettledCases DEF OneSetup, loader, PostSettles
    <2>2. ~(result # "none" /\ (orders > 0 \/ rd > 0))
      BY <1>0, <2>1, PostsOut
    <2>3. \A q \in waiting' : q[1] = setup
      BY <1>0, <2>1 DEF OneSetup
    <2> QED
      BY <1>0, <2>1, <2>2, <2>3 DEF OneSetup
  <1>6. CASE \/ \E r \in waiting : GivesUp(r)
             \/ \E r \in sent : Lost(r)
             \/ \E s \in 1..Setups : Timeout(s) \/ FileUnreadable(s)
             \/ UNCHANGED vars
    <2>1. /\ waiting' \subseteq waiting /\ reading' \subseteq reading
          /\ UNCHANGED <<setup, hpc, orders, rd, result>>
      <3>1. (\E r \in waiting : GivesUp(r)) => waiting' \subseteq waiting
            /\ UNCHANGED <<reading, setup, hpc, orders, rd, result>>
        BY DEF GivesUp, server, loader
      <3>2. (\E s \in 1..Setups : FileUnreadable(s)) => reading' \subseteq reading
            /\ UNCHANGED <<waiting, setup, hpc, orders, rd, result>>
        BY DEF FileUnreadable, server, loader
      <3>3. (\E r \in sent : Lost(r)) \/ (\E s \in 1..Setups : Timeout(s)) \/ UNCHANGED vars
            => UNCHANGED <<waiting, reading, setup, hpc, orders, rd, result>>
        BY Zenon DEF Lost, Timeout, vars, browser, server, loader
      <3> QED
        BY <1>6, <3>1, <3>2, <3>3
    <2> QED
      BY <1>0, <1>1, <2>1 DEF OneSetup
  <1>7. CASE Finish
    <2>1. /\ waiting' = {} /\ reading' = {setup'}
          /\ result' = "none" \/ (orders' = 0 /\ rd' = 0)
      BY <1>0, <1>7, Begins
    <2>2. ~(result' # "none" /\ (orders' > 0 \/ rd' > 0))
      BY <2>1
    <2> QED
      BY <1>1, <2>1, <2>2 DEF OneSetup
  <1>8. ASSUME NEW s \in 1..Setups, FilesRead(s) PROVE OneSetup'
    <2>1. /\ s \in reading /\ reading' = reading \ {s} /\ waiting' = waiting \cup ({s} \X Files)
          /\ UNCHANGED <<setup, orders, rd, result>>
      BY <1>8, FilesReadCases DEF loader
    <2>2. s = setup /\ ~(result # "none" /\ (orders > 0 \/ rd > 0))
      BY <1>0, <2>1 DEF OneSetup
    <2> QED
      BY <1>0, <2>1, <2>2 DEF OneSetup
  <1> QED
    BY <1>0, <1>1, <1>2, <1>3, <1>4, <1>5, <1>6, <1>7, <1>8, Zenon DEF Next, Httpd, Page, Inner
----------------------------------------------------------------------------
(***************************************************************************)
(* Setups that neither overlap nor lose anything.                          *)
(***************************************************************************)
LEMMA AnswerWhole ==
  ASSUME Given, PageInv, OneSetup, Delivered, Flashed, LoadOfOne, NEW r \in waiting, PostSettles(r)
  PROVE  Delivered' /\ Flashed' /\ LoadOfOne'
  <1>1. UNCHANGED <<files, setup, reading, rejected, hpc, job, orders, rd, wipe, conf, result>>
    BY SettledCases DEF server, loader
  <1>2. /\ sent \subseteq sent' /\ waiting' # {}
        /\ \A q \in waiting' : q \in waiting \/ q \in sent'
    <2>1. CASE /\ \E f \in Files : <<r[1], f>> \in waiting \ {r}
               /\ waiting' = waiting \ {r} /\ sent' = sent
      BY <2>1
    <2>2. CASE /\ waiting' = (waiting \ {r}) \cup {<<r[1], Connect>>}
               /\ sent' = sent \cup {<<r[1], Connect>>}
      BY <2>2
    <2> QED
      BY <2>1, <2>2, SettledCases
  <1>3. Delivered'
    BY <1>1, <1>2 DEF Delivered
  <1>4. Flashed'
    BY <1>1, <1>2 DEF Flashed, Posted, Uniform
  <1>5. LoadOfOne'
    BY <1>1 DEF LoadOfOne
  <1> QED
    BY <1>3, <1>4, <1>5

LEMMA PostWhole ==
  ASSUME Given, DeviceInv, PageInv, OneSetup, Delivered, Flashed, LoadOfOne,
         NEW r \in sent, HandlePost(r)
  PROVE  Delivered' /\ Flashed' /\ LoadOfOne'
  <1>1. /\ r \in waiting /\ r[2] # Connect /\ sent' = sent \ {r} /\ result # "none"
        /\ hpc = "idle" /\ hpc' = "open" /\ job' = r
        /\ UNCHANGED <<files, setup, reading, rejected, waiting, orders, rd, wipe, conf, result>>
    BY DEF HandlePost, Serves, PageInv, browser, loader
  <1>2. r = <<r[1], r[2]>> /\ r[1] = setup /\ r[2] \in Files
    BY <1>1, RequestParts, RequestsOut DEF OneSetup
  <1>3. Posted /\ Posted'
    BY <1>1, <1>2 DEF Posted, PageInv, Given
  <1>4. Delivered'
    BY <1>1, <1>2 DEF Delivered
  <1>5. ASSUME NEW f \in Files
        PROVE  <<setup, f>> \in sent' \/ job'[2] = f \/ files[f] = Saved(setup)
    <2>1. <<setup, f>> \in sent \/ files[f] = Saved(setup)
      BY <1>1, <1>3 DEF Flashed
    <2>2. CASE <<setup, f>> = r
      BY <1>1, <2>2
    <2> QED
      BY <1>1, <2>1, <2>2
  <1>6. Flashed'
    BY <1>1, <1>3, <1>5 DEF Flashed
  <1>7. LoadOfOne'
    BY <1>1 DEF LoadOfOne
  <1> QED
    BY <1>4, <1>6, <1>7

LEMMA ConnectWhole ==
  ASSUME Given, PageInv, OneSetup, Delivered, Flashed, LoadOfOne,
         NEW r \in sent, HandleConnect(r), waiting' # waiting
  PROVE  Delivered' /\ Flashed' /\ LoadOfOne'
  <1>1. /\ waiting = {r} /\ r = <<setup, Connect>> /\ hpc = "idle"
        /\ waiting' = waiting \ {r} /\ sent' = sent \ {r}
        /\ UNCHANGED <<setup, reading, rejected, files, hpc, job, rd, wipe, conf, result>>
    BY ConnectAlone DEF HandleConnect, Serves, server
  <1>2. Delivered'
    BY <1>1 DEF Delivered
  <1>3. \A f \in Files : <<setup, f>> # r
    BY <1>1 DEF Files, Connect
  <1>4. Flashed'
    BY <1>1, <1>3 DEF Flashed, Posted, Uniform
  <1>5. LoadOfOne'
    BY <1>1 DEF LoadOfOne
  <1> QED
    BY <1>2, <1>4, <1>5

\* The steps of a file that is written.
LEMMA WriteWhole ==
  ASSUME Given, DeviceInv, PageInv, OneSetup, Delivered, Flashed, LoadOfOne, Writes, files' # files
  PROVE  Delivered' /\ Flashed' /\ LoadOfOne'
  <1>1. /\ hpc # "idle" /\ (hpc' = "idle" \/ job' = job)
        /\ UNCHANGED <<setup, reading, rejected, waiting, sent, orders, rd, wipe, conf, result>>
    BY DEF Writes, OpenFile, WriteFile, browser, loader
  <1>2. job[2] \in Files /\ result # "none" /\ job[1] = setup /\ waiting # {} /\ Posted
    BY <1>1 DEF DeviceInv, Delivered, Flashed
  <1>3. Delivered'
    BY <1>1, <1>2 DEF Delivered
  <1>5. ~(rd > 0)
    BY <1>1, <1>2 DEF OneSetup
  <1>6. LoadOfOne'
    BY <1>1, <1>5 DEF LoadOfOne
  <1>7. ASSUME NEW f \in Files
        PROVE  <<setup, f>> \in sent \/ (hpc' # "idle" /\ job'[2] = f) \/ files'[f] = Saved(setup)
    <2>1. <<setup, f>> \in sent \/ job[2] = f \/ files[f] = Saved(setup)
      BY <1>2 DEF Flashed
    <2>2. CASE job[2] = f
      BY <1>1, <1>2, <2>2 DEF Writes, OpenFile, WriteFile, DeviceInv
    <2>3. CASE job[2] # f
      <3>1. files'[f] = files[f]
        BY <1>2, <2>3 DEF Writes, OpenFile, WriteFile, DeviceInv
      <3> QED
        BY <2>1, <2>3, <3>1
    <2> QED
      BY <2>2, <2>3
  <1>8. Flashed'
    BY <1>1, <1>2, <1>7 DEF Flashed, Posted
  <1> QED
    BY <1>3, <1>6, <1>8

\* A load meets files of one setup.
LEMMA LoadMeets ==
  ASSUME Given, DeviceInv, PageInv, OneSetup, Flashed, orders > 0 \/ rd > 0
  PROVE  Uniform /\ hpc = "idle"
  <1>1. CASE result = "none"
    BY <1>1 DEF Flashed, DeviceInv
  <1>2. CASE result # "none"
    <2>1. hpc = "idle" /\ \A r \in sent : r[2] = Connect
      BY <1>2 DEF OneSetup, PageInv
    <2>2. CASE ~Posted
      BY <2>2 DEF Flashed
    <2>3. CASE Posted
      <3>1. \A f \in Files : <<setup, f>> \notin sent
        BY <2>1 DEF Files, Connect
      <3>2. \A f \in Files : files[f] = Saved(setup)
        BY <2>1, <2>3, <3>1 DEF Flashed
      <3> QED
        BY <2>1, <3>2 DEF Uniform, PageInv
    <2> QED
      BY <2>2, <2>3
  <1> QED
    BY <1>1, <1>2

LEMMA LoadingWhole ==
  ASSUME Given, DeviceInv, PageInv, OneSetup, Delivered, Flashed, LoadOfOne, Loader, sent' = sent
  PROVE  Delivered' /\ Flashed' /\ LoadOfOne'
  <1>0. NFiles \in Nat \ {0} /\ rd \in Nat /\ orders \in Nat /\ wipe = 0
    BY DEF Given, DeviceInv, LoadOfOne
  <1>1. orders > 0 \/ rd > 0
    BY <1>0 DEF Loader, LoadStarts, LoadFails, ReadFile, ReadTorn, WipeFile, WipeLast,
       LoadSucceeds, LoadAborts, Reading, AllRead, Files
  <1>2. Uniform /\ hpc = "idle"
    BY <1>1, LoadMeets
  <1>3. PICK c \in {Absent} \cup {Saved(s) : s \in 0..Setups} : \A f \in Files : files[f] = c
    BY <1>2 DEF Uniform
  <1>4. /\ c.by \in 0..Setups /\ c.st \in {"absent", "saved"}
    <2>1. 0 \in 0..Setups
      BY DEF Given
    <2> QED
      BY <1>3, <2>1 DEF Absent, Saved
  <1>5. ~ReadTorn /\ ~WipeFile /\ ~WipeLast
    <2>1. ~ReadTorn
      BY <1>3, <1>4 DEF ReadTorn, Reading, Unreadable
    <2> QED
      BY <1>0, <2>1 DEF WipeFile, WipeLast
  <1>6. UNCHANGED <<files, setup, reading, rejected, waiting>> /\ hpc' = "idle"
    BY <1>2, <1>5 DEF Loader, LoadStarts, LoadFails, ReadFile, LoadSucceeds, LoadAborts,
       Restarts, server, browser
  <1>7. Delivered'
    BY <1>6 DEF Delivered
  <1>8. Flashed'
    BY <1>2, <1>6 DEF Flashed, Posted, Uniform
  <1>9. LoadOfOne'
    <2>1. CASE LoadStarts
      <3>1. rd' = 1 /\ wipe' = 0 /\ (\A f \in Files : ~(f < 1))
        BY <1>0, <2>1 DEF LoadStarts, Files
      <3> QED
        BY <3>1 DEF LoadOfOne
    <2>2. CASE LoadFails
      BY <1>0, <2>2 DEF LoadFails, LoadOfOne
    <2>3. CASE ReadFile
      <3>1. rd \in Files
        BY <2>3 DEF ReadFile, Reading
      <3>2. rd' = rd + 1 /\ wipe' = 0 /\ conf' = [conf EXCEPT ![rd] = files[rd].by] /\ rd' # 0
        BY <1>0, <2>3 DEF ReadFile
      <3>3. \A f \in Files : f < rd => conf[f] = files[f].by
        BY <1>0, <3>1 DEF LoadOfOne, Files
      <3>4. ASSUME NEW f \in Files, f < rd' PROVE conf'[f] = files'[f].by
        <4>1. f = rd \/ f < rd
          BY <1>0, <3>2, <3>4 DEF Files
        <4> QED
          BY <1>6, <3>1, <3>2, <3>3, <4>1 DEF DeviceInv
      <3> QED
        BY <3>2, <3>4 DEF LoadOfOne
    <2>4. CASE LoadSucceeds
      <3>1. rd = NFiles + 1 /\ rd' = 0 /\ wipe' = 0 /\ conf' = conf
        BY <1>0, <2>4 DEF LoadSucceeds, AllRead
      <3>2. rd > 0 /\ \A f \in Files : f < rd
        BY <1>0, <3>1 DEF Files
      <3>3. \A f \in Files : conf'[f] = c.by
        BY <1>3, <3>1, <3>2 DEF LoadOfOne
      <3> QED
        BY <1>4, <3>1, <3>3 DEF LoadOfOne
    <2>5. CASE LoadAborts
      BY <2>5 DEF LoadAborts, Restarts, LoadOfOne
    <2> QED
      BY <1>5, <2>1, <2>2, <2>3, <2>4, <2>5 DEF Loader
  <1> QED
    BY <1>7, <1>8, <1>9

\* A setup begins, and its posts go out.
LEMMA BeginsWhole ==
  ASSUME Given, DeviceInv, PageInv, Delivered, Flashed, LoadOfOne, Finish,
         setup' = setup \/ ~UnderWay
  PROVE  Delivered' /\ Flashed' /\ LoadOfOne'
  <1>1. /\ waiting = {} /\ sent = {} /\ reading' = {setup'} /\ hpc = "idle"
        /\ UNCHANGED <<files, waiting, sent, hpc, job, orders, rd, wipe, conf, result>>
    BY Begins DEF Delivered
  <1>2. Uniform
    <2>1. CASE Posted
      <3>1. \A f \in Files : files[f] = Saved(setup)
        BY <1>1, <2>1 DEF Flashed
      <3> QED
        BY <3>1 DEF Uniform, PageInv
    <2> QED
      BY <2>1 DEF Flashed
  <1>3. Delivered'
    BY <1>1 DEF Delivered
  <1>4. Flashed'
    BY <1>1, <1>2 DEF Flashed, Posted, Uniform
  <1>5. LoadOfOne'
    BY <1>1 DEF LoadOfOne
  <1> QED
    BY <1>3, <1>4, <1>5

LEMMA ReadWhole ==
  ASSUME Given, DeviceInv, PageInv, OneSetup, Delivered, Flashed, LoadOfOne,
         NEW s \in 1..Setups, FilesRead(s) \/ FileUnreadable(s)
  PROVE  Delivered' /\ Flashed' /\ LoadOfOne'
  <1>1. s \in reading /\ s = setup /\ UNCHANGED <<files, setup, hpc, job, orders, rd, wipe, conf, result>>
    BY DEF FilesRead, FileUnreadable, OneSetup, server, loader
  <1>2. Uniform /\ hpc = "idle"
    BY <1>1 DEF Flashed, Posted
  <1>3. LoadOfOne'
    BY <1>1 DEF LoadOfOne
  <1>4. CASE FilesRead(s)
    <2>1. /\ waiting' = waiting \cup ({s} \X Files) /\ sent' = sent \cup ({s} \X Files)
          /\ reading' = reading \ {s} /\ rejected' = rejected /\ Connect \notin Files
          /\ s \in 1..setup /\ s \notin rejected
      BY <1>4, FilesReadCases
    <2>2. Delivered'
      BY <1>1, <1>2, <2>1 DEF Delivered
    <2>3. Posted' /\ \A f \in Files : <<setup', f>> \in sent'
      BY <1>1, <2>1 DEF Posted, PageInv, Given
    <2>4. Flashed'
      BY <1>1, <1>2, <2>3 DEF Flashed, Uniform
    <2> QED
      BY <1>3, <2>2, <2>4
  <1>5. CASE FileUnreadable(s)
    <2>1. rejected' = rejected \cup {s} /\ UNCHANGED <<waiting, sent>>
      BY <1>5 DEF FileUnreadable
    <2>2. Delivered'
      BY <1>1, <1>2, <2>1 DEF Delivered
    <2>3. Flashed'
      BY <1>1, <1>2, <2>1 DEF Flashed, Posted, Uniform
    <2> QED
      BY <1>3, <2>2, <2>3
  <1> QED
    BY <1>4, <1>5

LEMMA NextWhole ==
  Given /\ DeviceInv /\ PageInv /\ RaceInv /\ WholeInv /\ [MCNext]_mcVars => WholeInv'
  <1> SUFFICES ASSUME Given, DeviceInv, PageInv, RaceInv, WholeInv, [MCNext]_mcVars,
                      ~overlapped', ~failed'
               PROVE  Delivered' /\ Flashed' /\ LoadOfOne'
    BY DEF WholeInv
  <1>0. /\ OneSetup /\ Delivered /\ Flashed /\ LoadOfOne /\ [Next]_vars
        /\ setup' = setup \/ ~UnderWay
        /\ ~Fails \/ UNCHANGED vars
    BY NotOverlapped DEF RaceInv, WholeInv
  <1>1. CASE UNCHANGED <<files, setup, reading, rejected, waiting, sent, hpc, job, orders, rd, wipe,
                         conf, result>>
    BY <1>0, <1>1 DEF Delivered, Flashed, Posted, Uniform, LoadOfOne
  <1>2. CASE UNCHANGED vars
    BY <1>1, <1>2, Zenon DEF vars, browser, server, loader
  <1>3. CASE ~Fails
    <2>1. ASSUME NEW r \in sent, HandlePost(r) PROVE Delivered' /\ Flashed' /\ LoadOfOne'
      BY <1>0, <2>1, PostWhole
    <2>2. ASSUME NEW r \in sent, HandleConnect(r) PROVE Delivered' /\ Flashed' /\ LoadOfOne'
      <3>1. waiting' # waiting
        BY <1>3, <2>2, RequestsOut DEF Fails, Loses
      <3> QED
        BY <1>0, <2>2, <3>1, ConnectWhole
    <2>3. CASE Writes
      <3>1. files' # files
        BY <1>3, <2>3 DEF Fails, Loses
      <3> QED
        BY <1>0, <2>3, <3>1, WriteWhole
    <2>4. CASE Loader
      <3>1. sent' = sent
        BY <1>3, <2>4 DEF Fails, Loses
      <3> QED
        BY <1>0, <2>4, <3>1, LoadingWhole
    <2>5. CASE Finish
      BY <1>0, <2>5, BeginsWhole
    <2>6. ASSUME NEW r \in waiting, PostSettles(r) PROVE Delivered' /\ Flashed' /\ LoadOfOne'
      BY <1>0, <2>6, AnswerWhole
    <2>7. ASSUME NEW r \in waiting, GivesUp(r) PROVE FALSE
      BY <1>0, <2>7 DEF Delivered, GivesUp
    <2>8. ASSUME NEW r \in sent, Lost(r) PROVE FALSE
      BY <1>3, <2>8, RequestsOut DEF Fails, Loses
    <2>9. ASSUME NEW s \in 1..Setups, Timeout(s) PROVE Delivered' /\ Flashed' /\ LoadOfOne'
      BY <1>1, <2>9, Zenon DEF Timeout, server, loader
    <2>10. ASSUME NEW s \in 1..Setups, FilesRead(s) \/ FileUnreadable(s)
           PROVE  Delivered' /\ Flashed' /\ LoadOfOne'
      BY <1>0, <2>10, ReadWhole
    <2>11. ~PowerCut
      BY <1>3 DEF Fails, Loses
    <2> QED
      BY <1>0, <1>2, <2>1, <2>2, <2>3, <2>4, <2>5, <2>6, <2>7, <2>8, <2>9, <2>10, <2>11, Zenon
         DEF Next, Httpd, Page, Writes
  <1> QED
    BY <1>0, <1>2, <1>3

----------------------------------------------------------------------------
LEMMA InitInv == Given /\ MCInit => SetupInv
  <1> SUFFICES ASSUME Given, MCInit PROVE SetupInv
    OBVIOUS
  <1> USE DEF MCInit, Init, Given
  <1>1. PICK c \in {Absent, Saved(0)} : files = [f \in Files |-> c]
    OBVIOUS
  <1>2. c \in Contents
    BY ContentKinds
  <1>3. DeviceInv
    BY <1>1, <1>2 DEF DeviceInv, Confs
  <1>4. PageInv
    BY DEF PageInv
  <1>5. OrderInv
    <2>1. Pending \subseteq 1..Setups
      BY DEF Pending
    <2>2. Cardinality(Pending) \in Nat /\ Cardinality(Pending) <= Setups
      BY <2>1, SetupsFinite
    <2> QED
      BY <2>2 DEF OrderInv
  <1>6. HoleInv /\ FinalInv
    BY DEF HoleInv, ReadSoFar, FinalInv
  <1>7. RaceInv
    BY DEF RaceInv, OneSetup
  <1>8. WholeInv
    <2>1. Uniform
      BY <1>1 DEF Uniform
    <2> QED
      BY <2>1 DEF WholeInv, Delivered, Flashed, Posted, LoadOfOne
  <1> QED
    BY <1>3, <1>4, <1>5, <1>6, <1>7, <1>8 DEF SetupInv

LEMMA NextInv == Given /\ SetupInv /\ [MCNext]_mcVars => SetupInv'
  <1> SUFFICES ASSUME Given, SetupInv, [MCNext]_mcVars PROVE SetupInv'
    OBVIOUS
  <1>1. [Next]_vars /\ {overlapped', raced', failed'} \subseteq BOOLEAN
    <2>1. CASE MCNext
      BY <2>1, Zenon DEF MCNext, SetupInv
    <2>2. CASE UNCHANGED mcVars
      <3>1. UNCHANGED vars /\ raced' = raced /\ overlapped' = overlapped /\ failed' = failed
        BY <2>2, Zenon DEF mcVars, history
      <3> QED
        BY <3>1, Zenon DEF SetupInv
    <2> QED
      BY <2>1, <2>2
  <1> QED
    BY <1>1, NextDevice, NextPage, NextOrder, NextFinal, NextHole, NextRace, NextWhole DEF SetupInv

LEMMA InvHolds == MCSpec => []SetupInv
  <1>1. SetupInv /\ [MCNext]_mcVars => SetupInv'
    BY GivenOK, NextInv
  <1> QED
    BY <1>1, GivenOK, InitInv, PTL DEF MCSpec

LEMMA InvTypes == Given /\ SetupInv => SetupTypeOK
  <1> SUFFICES ASSUME Given, SetupInv PROVE SetupTypeOK
    OBVIOUS
  <1>1. waiting \subseteq Requests /\ sent \subseteq Requests
    <2>1. 1..setup \subseteq 1..Setups
      BY DEF SetupInv, PageInv, Given
    <2> QED
      BY <2>1 DEF SetupInv, PageInv, Requests
  <1>2. orders \in 0..Setups + 1
    <2>1. Pending \subseteq 1..Setups
      BY DEF Pending
    <2>2. Cardinality(Pending) \in Nat /\ Setups \in Nat
      BY <2>1, SetupsFinite DEF Given
    <2> QED
      BY <2>2 DEF SetupInv, OrderInv
  <1> QED
    BY <1>1, <1>2 DEF SetupInv, DeviceInv, PageInv, SetupTypeOK

\* The page, its requests, the two tasks and the queue keep their types - with no
\* more than one order to load for each setup and one for the boot - and the manager
\* goes to station mode with a part from every file but the last, unless a file was
\* written during the load, which takes setups that overlap.
THEOREM NoHoleWithoutRace == MCSpec => []NoHole
  <1>1. Given /\ SetupInv => NoHole
    <2> SUFFICES ASSUME Given, SetupInv PROVE NoHole
      OBVIOUS
    <2>1. result = "sta" /\ rd = 0 /\ HasHole => raced
      BY DEF SetupInv, HoleInv, ReadSoFar
    <2>2. raced => overlapped
      BY DEF SetupInv, RaceInv
    <2> QED
      BY <2>1, <2>2, InvTypes DEF NoHole
  <1> QED
    BY <1>1, GivenOK, InvHolds, PTL

\* However many files and setups there are: what a load that succeeds has found was
\* saved by one and the same setup, unless setups overlapped or something was lost.
THEOREM LoadIsOfOneSetup == MCSpec => []LoadedAsSaved
  <1>1. SetupInv => LoadedAsSaved
    BY DEF SetupInv, WholeInv, LoadOfOne, LoadedAsSaved
  <1> QED
    BY <1>1, InvHolds, PTL

\* For any number of files and setups, with any losses: when /connect has failed, or the
\* timer has gone off with every answer in, the page is done with the setup whose failure
\* it shows.  Only a timer that goes off earlier leaves requests behind.
THEOREM ShownFailureStands == MCSpec => []FailureStands
  <1>1. Given /\ SetupInv => FailureStands
    <2> SUFFICES ASSUME Given, SetupInv, NEW s \in final, NEW f \in 0..NFiles,
                        <<s, f>> \in waiting \cup sent
                 PROVE  FALSE
      BY DEF FailureStands
    <2>1. <<s, f>> \in waiting
      BY DEF SetupInv, PageInv
    <2> QED
      BY <2>1 DEF SetupInv, FinalInv
  <1> QED
    BY <1>1, GivenOK, InvHolds, PTL
=============================================================================
