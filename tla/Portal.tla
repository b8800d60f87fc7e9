------------------------------- MODULE Portal -------------------------------
(***************************************************************************)
(* The configuration portal: the http server and the DNS hijack, started   *)
(* and stopped by the manager task, over the sockets they share with the   *)
(* rest of the program.                                                    *)
(***************************************************************************)
EXTENDS HttpServer, DnsServer

portalVars == <<baseVars, httpVars, dnsVars>>

PortalInit == BaseInit /\ HttpInit /\ DnsInit

\* An exception restarts the device.
Restart == (ReadsNull \/ DeletesFreed) /\ BaseRestart /\ HttpRestart /\ DnsRestart

Manager == \/ HttpManager /\ UNCHANGED dnsVars
           \/ DnsManager /\ UNCHANGED httpVars

Around == Others \/ Fill

PortalNext == \/ Manager
              \/ Take /\ UNCHANGED <<httpVars, dnsVars>>
              \/ (Arrives \/ Handler) /\ UNCHANGED dnsVars
              \/ DnsTask /\ UNCHANGED httpVars
              \/ Around /\ UNCHANGED <<httpVars, dnsVars>>
              \/ Restart

PortalSpec == PortalInit /\ [][PortalNext]_portalVars

\* The scheduler lets the manager, the handler and the DNS task go on; the
\* queue has room again and again once the manager empties it; the httpd task
\* looks at its control socket before it looks for requests.  Nothing makes a
\* client send the rest of its body.
HttpFairness ==
    /\ WF_portalVars(Manager /\ at # "httpd_stop")
    /\ SF_portalVars(HttpdStop /\ UNCHANGED dnsVars)
    /\ WF_portalVars(Take /\ UNCHANGED <<httpVars, dnsVars>>)
    /\ WF_portalVars(Handler /\ hpc \notin {"recv", "send"} /\ UNCHANGED dnsVars)
    /\ WF_portalVars(PostTerminated /\ UNCHANGED dnsVars)
    /\ SF_portalVars(HandlerSends /\ UNCHANGED dnsVars)
    /\ WF_portalVars(Restart)
DnsGoesOn == DnsTask /\ dpc # "recv" /\ UNCHANGED httpVars

PortalFairSpec == PortalSpec /\ HttpFairness /\ WF_portalVars(DnsGoesOn)

----------------------------------------------------------------------------
PortalTypeOK ==
    /\ fds \in [Fds -> {"free", "dns", "httpd", "other"}]
    /\ todo \in UNION {[1..n -> {"http_app_stop", "http_app_start",
                        "start_dns_server", "stop_dns_server"}] : n \in 0..3}
    /\ at \in {"call", "urls", "httpd_stop", "register", "close"}
    /\ full \in BOOLEAN /\ handle \in BOOLEAN /\ urls \in BOOLEAN
    /\ server \in {"none", "bare", "up"} /\ context \in {"null", "live"}
    /\ buf \in [Cells -> {"nul", "new", "old", "foreign"}]
    /\ hpc \in {"idle", "route", "recv", "save", "others", "send", "done"}
    /\ job \in Requests \cup {NoJob}
    /\ mine \in {"none", "null", "live", "freed"}
    /\ got \in 0..MaxLen /\ last \in 0..Chunk
    /\ sent \in Seq({"200", "302", "404", "500", "503"}) /\ stored \in BOOLEAN
    /\ dns \in {"none", "task", "gone"}
    /\ dpc \in {"socket", "store", "bind", "recv", "shutdown"}
    /\ new \in 0..Sockets /\ socket_fd \in -1..Sockets /\ bound \in 0..Sockets

\* http_app_stop frees what the handler uses before it waits for the handler
\* (http_app.c:527, 599).  That is the only time when the handler works on a
\* freed buffer or compares with a null url.
Stopping == at \in {"urls", "httpd_stop"}
InUseIsLive ==
    ~Stopping => /\ hpc \in {"recv", "save"} => mine = "live"
                 /\ hpc \in {"route", "others"} => urls /\ context = "live"

\* Whenever no call is being made, the handle says whether there is a server,
\* with its handlers, its buffer and its urls (http_app.c:524, 627, 697).
AtRest == todo = << >>
ServerAgrees ==
    AtRest => /\ server = IF handle THEN "up" ELSE "none"
              /\ handle => context = "live" /\ urls
RestAgrees == PortalTypeOK /\ ServerAgrees

\* The text that is saved is the body that was posted.  The terminator lies
\* behind it by as much as its last part was long (http_app.c:132-135), so up to
\* there what an earlier, longer body left is taken for more of it.
TextEnd == CHOOSE c \in Cells : /\ buf[c] = "nul"
                                /\ \A d \in 0..(c - 1) : buf[d] # "nul"
SavedIsBody ==
    hpc = "save" /\ mine = "live" =>
        /\ TextEnd >= job.len
        /\ \A c \in 0..(TextEnd - 1) : c < job.len <=> buf[c] = "new"
        /\ TextEnd > job.len => TextEnd <= job.len + last

\* Not counting the echo of its body a request is answered once, and a post 200
\* exactly when its text was saved.  But a body that is too long is answered
\* twice, and the five posts with an if of their own get a 404 on top, which is
\* the last word on them (http_app.c:114, 163, 303).
AnswersOnce ==
    hpc = "done" =>
        LET long  == job.kind \in PostKinds /\ job.len >= Scratch
            extra == job.kind = "own if"
        IN  /\ Len(sent) = 1 + (IF long THEN 1 ELSE 0) + (IF extra THEN 1 ELSE 0)
            /\ job.kind \in PostKinds => (sent[1] = "200" <=> stored)
            /\ extra => sent[Len(sent)] = "404"

\* The manager gets out of httpd_stop, unless the handler waits for a body that
\* never comes, or for room in the queue that only the manager empties
\* (http_app.c:122, 401, 408, 599).
WaitsForBody == hpc = "recv" /\ got < job.len /\ at = "httpd_stop"
WaitsForQueue == hpc = "send" /\ full /\ at = "httpd_stop"
StopReturns ==
    at = "httpd_stop" ~> (at # "httpd_stop" \/ []WaitsForBody \/ []WaitsForQueue)

\* The DNS hijack closes no socket of another task.  It does so in two cases:
\* after a failed receive it closes its number twice, and someone may have got
\* that number in between; and when the task is deleted before it has stored its
\* number, socket_fd is still that of an earlier one (dns_server.c:198, 228,
\* 243).
DnsCloses == \/ at = "close" /\ todo' = Tail(todo)
             \/ /\ dns = "task" /\ dns' = "task"
                /\ dpc \in {"recv", "shutdown"} /\ dpc' # dpc
ClosesOwn ==
    [][DnsCloses =>
        \A f \in Fds : fds[f] \in {"httpd", "other"} /\ fds'[f] = "free" =>
            dpc \in {"shutdown", "socket", "store"}]_portalVars
=============================================================================
