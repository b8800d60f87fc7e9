-------------------------------- MODULE Setup --------------------------------
(***************************************************************************)
(* A configuration on its way from the page to the device: createSetup of  *)
(* the embedded code.js posts one file per request, all at once, the http  *)
(* server of http_app.c saves them one after the other (storage.c,         *)
(* flashrw.c), and the manager task loads all of them when the page asks   *)
(* for /connect or when the device boots.  The three share the files       *)
(* without a lock.                                                         *)
(*                                                                         *)
(* Files are numbered in the order in which wifi_manager_fetch_config      *)
(* reads them; in the code there are 9, http_config is the 6th and         *)
(* ipv4_config the 5th.  What a file holds is the setup it came from.      *)
(***************************************************************************)
EXTENDS Integers, FiniteSets

CONSTANTS
    NFiles,     \* number of configuration files
    HttpFile,   \* the one with server_port
    Ipv4File,   \* the one with ipv4_method
    Setups,     \* bound on the setups finished in the page
    Lossy,      \* may a request, an answer or a write be lost
    MaxCuts,    \* bound on the power cuts
    LongFiles,  \* the files of more than one key
    NKeys,      \* how many keys a long file has
    Fatal       \* the setups whose values make the load abort the program

ASSUME SetupAssumption ==
    /\ NFiles \in Nat \ {0} /\ HttpFile \in 1..NFiles /\ Ipv4File \in 1..NFiles
    /\ Setups \in Nat /\ MaxCuts \in Nat
    /\ LongFiles \subseteq 1..NFiles /\ NKeys \in Nat \ {0}
    /\ Lossy \in BOOLEAN /\ Fatal \subseteq 0..Setups

VARIABLES
    files,      \* what is in flash
    page,       \* what the page shows
    setup,      \* the last setup finished in it, 0 before the first
    reading,    \* the setups whose createSetup awaits the certificate files
    rejected,   \* those whose createSetup ended when a file could not be read
    waiting,    \* the requests whose promise is not settled
    timers,     \* the setups whose 5 s timer runs
    sent,       \* the requests on their way to the server
    hpc,        \* where the httpd task is
    job,        \* the request it handles
    orders,     \* WM_ORDER_LOAD_AND_RESTORE_STA messages in the queue
    rd,         \* the file the manager task reads next, 0 when it is not loading
    wipe,       \* the file wifi_manager_remove_config truncates next, 0 if none
    lacking,    \* the keys that the file being parsed still lacks
    conf,       \* wifi_manager_config: the setup each part came from, or NoConf
    result,     \* what the last load led to: station mode or access point
    cuts        \* power cuts so far

browser == <<page, setup, reading, rejected, waiting, timers>>
server  == <<hpc, job>>
loader  == <<orders, rd, wipe, lacking, conf, result>>
vars    == <<files, browser, sent, server, loader, cuts>>

Files    == 1..NFiles
Connect  == 0                           \* stands for GET /connect
Requests == (1..Setups) \X (0..NFiles)
NoConf   == -1
NoJob    == <<0, 0>>

Saved(s) == [st |-> "saved", by |-> s]
Absent   == [st |-> "absent", by |-> 0]
Empty    == [st |-> "empty", by |-> 0]
Torn     == [st |-> "torn", by |-> 0]   \* the beginning of a json object

\* A new device, or one that was set up before.
Init ==
    /\ \E c \in {Absent, Saved(0)} : files = [f \in Files |-> c]
    /\ page = "ap_select" /\ setup = 0 /\ reading = {} /\ rejected = {}
    /\ waiting = {} /\ timers = {}
    /\ sent = {} /\ hpc = "idle" /\ job = NoJob
    /\ orders = 1 /\ rd = 0 /\ wipe = 0 /\ lacking = 0
    /\ conf = [f \in Files |-> NoConf] /\ result = "none" /\ cuts = 0

----------------------------------------------------------------------------
(***************************************************************************)
(* The page.  Every POST counts down when its promise is settled, however  *)
(* it is settled; the last one sends GET /connect.                         *)
(***************************************************************************)
\* The button Finish.  The page stays in the browser whatever the device does.
Finish ==
    /\ page # "loading" /\ setup < Setups
    /\ setup' = setup + 1
    /\ page' = "loading"
    /\ reading' = reading \cup {setup + 1}
    /\ UNCHANGED <<files, rejected, waiting, timers, sent, server, loader, cuts>>

\* GetSetup has read the chosen certificates: the timer is set, the posts go out.
FilesRead(s) ==
    /\ s \in reading
    /\ reading' = reading \ {s}
    /\ timers' = timers \cup {s}
    /\ waiting' = waiting \cup ({s} \X Files)
    /\ sent' = sent \cup ({s} \X Files)
    /\ UNCHANGED <<files, page, setup, rejected, server, loader, cuts>>

\* file.text() rejects, and createSetup ends with "loading" shown and no timer.
FileUnreadable(s) ==
    /\ s \in reading
    /\ reading' = reading \ {s}
    /\ rejected' = rejected \cup {s}
    /\ UNCHANGED <<files, page, setup, waiting, timers, sent, server, loader, cuts>>

\* Mutated form of CountsToZero: the page asks for the connection after the
\* first answer.
CountsOne(r) == TRUE

CountsToZero(r) == \A f \in Files : <<r[1], f>> \notin waiting \ {r}

\* Mutated form of TimersAfter: connect does not clear the timer.
TimersKept(s) == timers

TimersAfter(s) == timers \ {s}

\* The promise of a POST is settled: the answer has come, or fetch has given up a
\* request that the server does not hold any more.
PostSettles(r) ==
    /\ r \in waiting \ sent /\ r[2] # Connect
    /\ IF CountsToZero(r)
       THEN /\ waiting' = (waiting \ {r}) \cup {<<r[1], Connect>>}
            /\ sent' = sent \cup {<<r[1], Connect>>}
            /\ timers' = TimersAfter(r[1])
       ELSE waiting' = waiting \ {r} /\ UNCHANGED <<sent, timers>>
    /\ UNCHANGED <<files, page, setup, reading, rejected, server, loader, cuts>>

\* Mutated form of ConnectFails: the catch handler is missing.
FailsSilently == UNCHANGED page

ConnectFails == page' = "setup-fail"

\* /connect, or its answer, was lost.
GivesUp(r) ==
    /\ r \in waiting \ sent /\ r[2] = Connect
    /\ waiting' = waiting \ {r} /\ ConnectFails
    /\ UNCHANGED <<files, setup, reading, rejected, timers, sent, server, loader, cuts>>

\* The request does not reach the handler, or get_request_buffer refuses it.
Lost(r) ==
    /\ Lossy /\ r \in sent
    /\ sent' = sent \ {r}
    /\ UNCHANGED <<files, browser, server, loader, cuts>>

\* The callback of setTimeout; connect would have cleared it at count 0.
Timeout(s) ==
    /\ s \in timers
    /\ timers' = timers \ {s}
    /\ page' = "setup-fail"
    /\ UNCHANGED <<files, setup, reading, rejected, waiting, sent, server, loader, cuts>>

----------------------------------------------------------------------------
(***************************************************************************)
(* The httpd task, which runs once the first load has led to station mode  *)
(* or to the access point.  get_request_buffer echoes the body with        *)
(* httpd_resp_send_chunk, which starts a response with status 200: the page *)
(* may have its answer before the file is opened, or later, or never.      *)
(***************************************************************************)
Serves == result # "none" /\ hpc = "idle"

HandlePost(r) ==
    /\ Serves /\ r \in sent /\ r[2] # Connect
    /\ sent' = sent \ {r}
    /\ hpc' = "open" /\ job' = r
    /\ UNCHANGED <<files, browser, loader, cuts>>

HandleConnect(r) ==
    /\ Serves /\ r \in sent /\ r[2] = Connect
    /\ sent' = sent \ {r}
    /\ \/ waiting' = waiting \ {r} /\ page' = "ap_select"
       \/ Lossy /\ UNCHANGED <<waiting, page>>
    /\ orders' = orders + 1
    /\ UNCHANGED <<files, setup, reading, rejected, timers, server, rd, wipe, lacking, conf, result, cuts>>

\* save_flash_json_data: fopen with "wb" truncates, or fails.
OpenFile ==
    /\ hpc = "open"
    /\ \/ files' = [files EXCEPT ![job[2]] = Empty] /\ hpc' = "write" /\ job' = job
       \/ Lossy /\ hpc' = "idle" /\ job' = NoJob /\ files' = files
    /\ UNCHANGED <<browser, sent, loader, cuts>>

\* fwrite and fclose, or a write error that leaves the file empty.
WriteFile ==
    /\ hpc = "write" /\ hpc' = "idle" /\ job' = NoJob
    /\ \/ files' = [files EXCEPT ![job[2]] = Saved(job[1])]
       \/ Lossy /\ files' = files
    /\ UNCHANGED <<browser, sent, loader, cuts>>

----------------------------------------------------------------------------
(***************************************************************************)
(* The manager task: wifi_manager_fetch_wifi_sta_config in the handler of  *)
(* WM_ORDER_LOAD_AND_RESTORE_STA.                                          *)
(***************************************************************************)
LoadStarts ==
    /\ orders > 0 /\ rd = 0
    /\ orders' = orders - 1
    /\ rd' = 1
    /\ conf' = [f \in Files |-> NoConf]
    /\ UNCHANGED <<files, browser, sent, server, wipe, lacking, result, cuts>>

Reading == rd \in Files /\ wipe = 0

Unreadable(c) == c.st \in {"absent", "empty"}

\* read_flash_json_data returned NULL: the load fails, START_AP is ordered.
LoadFails ==
    /\ Reading /\ Unreadable(files[rd])
    /\ rd' = 0 /\ result' = "ap"
    /\ UNCHANGED <<files, browser, sent, server, orders, wipe, lacking, conf, cuts>>

ReadFile ==
    /\ Reading /\ files[rd].st = "saved"
    /\ conf' = [conf EXCEPT ![rd] = files[rd].by]
    /\ rd' = rd + 1
    /\ UNCHANGED <<files, browser, sent, server, orders, wipe, lacking, result, cuts>>

\* copy_json_item does not find its key: wifi_manager_remove_config, once for
\* each key of the file.  The second key of http_config is not looked for that way.
Keys(f) == IF f \in LongFiles /\ f # HttpFile THEN NKeys ELSE 1

ReadTorn ==
    /\ Reading /\ ~Unreadable(files[rd]) /\ files[rd].st # "saved"
    /\ wipe' = 1 /\ lacking' = Keys(rd)
    /\ UNCHANGED <<files, browser, sent, server, orders, rd, conf, result, cuts>>

\* Mutated form of Wiped: clear_flash_file does not truncate.
NotWiped(c) == c

\* clear_flash_file: fopen with "w".
Wiped(c) == Empty

\* The device starts again; a file that was being written may stay torn.
Restarts(left) ==
    /\ \/ files' = left
       \/ hpc = "write" /\ files' = [left EXCEPT ![job[2]] = Torn]
    /\ sent' = {} /\ hpc' = "idle" /\ job' = NoJob
    /\ orders' = 1 /\ rd' = 0 /\ wipe' = 0 /\ lacking' = 0
    /\ conf' = [f \in Files |-> NoConf] /\ result' = "none"
    /\ UNCHANGED browser

WipeFile ==
    /\ wipe \in 1..NFiles - 1
    /\ files' = [files EXCEPT ![wipe] = Wiped(@)]
    /\ wipe' = wipe + 1
    /\ UNCHANGED <<browser, sent, server, orders, rd, lacking, conf, result, cuts>>

\* The last file; then the next key is looked for, and after the last one the next
\* file is read.  In http_config server_port is read through a NULL pointer.
WipeLast ==
    /\ wipe = NFiles
    /\ LET left == [files EXCEPT ![wipe] = Wiped(@)] IN
       \/ rd = HttpFile /\ Restarts(left)
       \/ /\ rd # HttpFile
          /\ files' = left /\ lacking' = lacking - 1
          /\ IF lacking > 1 THEN wipe' = 1 /\ rd' = rd ELSE wipe' = 0 /\ rd' = rd + 1
          /\ UNCHANGED <<browser, sent, server, orders, conf, result>>
    /\ UNCHANGED cuts

AllRead == rd = NFiles + 1

\* strlen(wifi_ssid), strcmp(ipv4_method, ...), netif_str_to_ip4 of an address.
Aborts == conf[1] = NoConf \/ conf[Ipv4File] \in Fatal \cup {NoConf}

LoadSucceeds ==
    /\ AllRead /\ ~Aborts
    /\ rd' = 0 /\ result' = "sta"
    /\ UNCHANGED <<files, browser, sent, server, orders, wipe, lacking, conf, cuts>>

LoadAborts == AllRead /\ Aborts /\ Restarts(files) /\ UNCHANGED cuts

PowerCut == cuts < MaxCuts /\ cuts' = cuts + 1 /\ Restarts(files)

----------------------------------------------------------------------------
Httpd  == \/ \E r \in sent : HandlePost(r) \/ HandleConnect(r)
          \/ OpenFile \/ WriteFile
Loader == \/ LoadStarts \/ LoadFails \/ ReadFile \/ ReadTorn
          \/ WipeFile \/ WipeLast \/ LoadSucceeds \/ LoadAborts
Page   == \/ Finish
          \/ \E r \in waiting : PostSettles(r) \/ GivesUp(r)
          \/ \E r \in sent : Lost(r)
          \/ \E s \in 1..Setups : FilesRead(s) \/ FileUnreadable(s) \/ Timeout(s)

Next == Httpd \/ Loader \/ Page \/ PowerCut
Spec == Init /\ [][Next]_vars

\* Both tasks are scheduled, the browser reads the certificates or finds that it
\* cannot, the timer of the page goes off, and the browser does not wait forever
\* for a server that does not have its request.
Fairness ==
    /\ WF_vars(Httpd) /\ WF_vars(Loader)
    /\ \A r \in Requests : WF_vars(PostSettles(r) \/ GivesUp(r))
    /\ \A s \in 1..Setups : WF_vars(FilesRead(s) \/ FileUnreadable(s)) /\ WF_vars(Timeout(s))
FairSpec == Spec /\ Fairness

----------------------------------------------------------------------------
Contents == {Absent, Empty, Torn} \cup {Saved(s) : s \in 0..Setups}
Confs    == (0..Setups) \cup {NoConf}

\* Types, and what the program counters say about each other: the manager
\* erases the files only while it reads one of them, and a setup whose timer
\* runs still waits for one of its posts.
SetupTypeOK ==
    /\ files \in [Files -> Contents]
    /\ page \in {"ap_select", "loading", "setup-fail"}
    /\ setup \in 0..Setups /\ timers \subseteq 1..setup
    /\ reading \subseteq 1..setup /\ rejected \subseteq 1..setup
    /\ waiting \subseteq Requests /\ sent \subseteq Requests
    /\ hpc \in {"idle", "open", "write"}
    /\ hpc # "idle" => job \in (1..Setups) \X Files
    /\ orders \in 0..Setups + 1
    /\ rd \in 0..NFiles + 1 /\ wipe \in 0..NFiles
    /\ lacking \in 0..NKeys /\ (wipe > 0 => rd \in Files /\ lacking > 0)
    /\ conf \in [Files -> Confs]
    /\ result \in {"none", "ap", "sta"} /\ cuts \in 0..MaxCuts
    /\ \A s \in timers : \E f \in Files : <<s, f>> \in waiting

\* Whatever a power cut leaves in the files, the device ends a load: it goes to
\* station mode or opens its access point.  Only values that abort the program
\* themselves (a manual address that does not parse) make it restart for ever.
FatalSaved == files[Ipv4File] \in {Saved(s) : s \in Fatal}
Settles == result = "none" ~> (result # "none" \/ FatalSaved)

\* The user is not left with the waiting page, unless a certificate that was
\* chosen could not be read: nothing in code.js catches that (code.js:336), and the
\* page has to be loaded again.
LoadingEnds == page = "loading" ~> (page # "loading" \/ setup \in rejected)
=============================================================================
