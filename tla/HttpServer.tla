----------------------------- MODULE HttpServer -----------------------------
(***************************************************************************)
(* http_app.c: the configuration server.  The manager task starts and      *)
(* stops it; its handlers run in the httpd task, one request at a time,    *)
(* and use the body buffer and the urls that the manager task allocates    *)
(* and frees.  A request to a null pointer restarts the device.            *)
(***************************************************************************)
EXTENDS PortalBase

CONSTANTS
    Scratch,    \* SCRATCH_BUFSIZE
    Chunk,      \* sizeof(buf) in get_request_buffer
    MaxLen,     \* the longest body a client sends
    Posts,      \* the posts that clients make, with how they are told apart
    Gets        \* what clients get

ASSUME SizesAssumption == /\ Scratch \in Nat /\ Chunk \in Nat \ {0}
                          /\ Chunk < Scratch /\ MaxLen \in Nat

\* The first five urls have an if of their own, the other four are one chain
\* of else if, which ends in the answer 404.
PostKinds == {"own if", "chain"}
GetKinds == {"page", "ap.json", "connect", "other host"}
ASSUME PostsAssumption == Posts \subseteq PostKinds
ASSUME GetsAssumption == Gets \subseteq GetKinds

VARIABLES
    handle,     \* httpd_handle # NULL
    server,     \* the server: "none", "bare" without its handlers, "up"
    context,    \* the body buffer: "null" or "live"
    urls,       \* the url strings are there
    buf,        \* what the cells of the buffer hold, and Chunk cells behind it
    hpc,        \* where the httpd task is
    job,        \* the request it handles
    mine,       \* the buffer get_request_buffer was called with
    got, last,  \* how much of the body came, and with the last part
    sent,       \* the answers to the request, in order
    stored      \* the text of the request has been saved

serverVars == <<handle, server, context, urls>>
handlerVars == <<hpc, job, mine, got, last, sent, stored>>
httpVars == <<serverVars, buf, handlerVars>>

Cells == 0..(Scratch + Chunk - 1)
Fresh == [c \in Cells |-> IF c < Scratch THEN "nul" ELSE "foreign"]
NoJob == [kind |-> "none", len |-> 0]

HttpInit == /\ handle = FALSE /\ server = "none" /\ context = "null"
            /\ urls = FALSE /\ buf = Fresh
            /\ hpc = "idle" /\ job = NoJob /\ mine = "none"
            /\ got = 0 /\ last = 0 /\ sent = << >> /\ stored = FALSE

HttpRestart == /\ handle' = FALSE /\ server' = "none" /\ context' = "null"
               /\ urls' = FALSE /\ buf' = Fresh
               /\ hpc' = "idle" /\ job' = NoJob /\ mine' = "none"
               /\ got' = 0 /\ last' = 0 /\ sent' = << >> /\ stored' = FALSE

----------------------------------------------------------------------------
(***************************************************************************)
(* The manager task in http_app_stop and http_app_start.                   *)
(***************************************************************************)
StopNothing == /\ Calling("http_app_stop") /\ at = "call" /\ ~handle
               /\ Returns
               /\ UNCHANGED <<httpVars, fds, full>>

FreeContext == /\ Calling("http_app_stop") /\ at = "call" /\ handle
               /\ context' = "null" /\ buf' = Fresh
               /\ mine' = IF mine = "live" THEN "freed" ELSE mine
               /\ at' = "urls"
               /\ UNCHANGED <<handle, server, urls, hpc, job, got, last, sent,
                              stored, fds, todo, full>>

FreeUrls == /\ at = "urls"
            /\ urls' = FALSE /\ at' = "httpd_stop"
            /\ UNCHANGED <<handle, server, context, buf, handlerVars, fds,
                           todo, full>>

\* Mutated form of HandlerLeft: httpd_stop does not wait.
HandlerAnywhere(pc) == TRUE

HandlerLeft(pc) == pc = "idle"

\* Mutated form of HandleAfterStop: it is not reset.
HandleKept(h) == h

HandleAfterStop(h) == FALSE

\* httpd_stop returns when the httpd task has left its handler and ended; the
\* sockets of the server are closed.
HttpdStop == /\ at = "httpd_stop" /\ HandlerLeft(hpc)
             /\ handle' = HandleAfterStop(handle) /\ server' = "none"
             /\ fds' = [f \in Fds |-> IF fds[f] = "httpd" THEN "free" ELSE fds[f]]
             /\ Returns
             /\ UNCHANGED <<context, urls, buf, handlerVars, full>>

StartNothing == /\ Calling("http_app_start") /\ at = "call"
                /\ \/ handle /\ UNCHANGED context
                   \* No memory for context
                   \/ ~handle /\ context' = "null"
                /\ Returns
                /\ UNCHANGED <<handle, server, urls, buf, handlerVars, fds, full>>

\* A buffer that a failed start has left is not freed, the urls are used again.
\* httpd_start fails for want of a socket, or of memory.
HttpdStart ==
    /\ Calling("http_app_start") /\ at = "call" /\ ~handle
    /\ context' = "live" /\ buf' = Fresh /\ urls' = TRUE
    /\ \/ /\ FreeFds # {}
          /\ fds' = [fds EXCEPT ![NewFd] = "httpd"]
          /\ handle' = TRUE /\ server' = "bare"
          /\ at' = "register" /\ todo' = todo
       \/ /\ Returns
          /\ UNCHANGED <<handle, server, fds>>
    /\ UNCHANGED <<handlerVars, full>>

Register == /\ at = "register"
            /\ server' = "up"
            /\ Returns
            /\ UNCHANGED <<handle, context, urls, buf, handlerVars, fds, full>>

HttpManager == \/ StopNothing \/ FreeContext \/ FreeUrls \/ HttpdStop
               \/ StartNothing \/ HttpdStart \/ Register

----------------------------------------------------------------------------
(***************************************************************************)
(* The httpd task: a request arrives, the url is looked for, the body of a *)
(* post comes in parts of any length.                                      *)
(***************************************************************************)
Requests == [kind : Posts, len : 0..MaxLen] \cup [kind : Gets, len : {0}]

Arrives == /\ server = "up" /\ hpc = "idle"
           /\ \E f \in Fds : fds[f] = "httpd"
           /\ job' \in Requests
           /\ hpc' = "route"
           /\ UNCHANGED <<serverVars, buf, mine, got, last, sent, stored, baseVars>>

\* What was received before is now an earlier body.
Aged == [c \in Cells |-> IF buf[c] = "new" THEN "old" ELSE buf[c]]

\* The url of a post with an if of its own is compared with the others yet.
PostEnds == /\ hpc' = IF job.kind = "own if" THEN "others" ELSE "done"
            /\ mine' = "none" /\ got' = 0 /\ last' = 0

\* A body as long as the buffer is refused, by get_request_buffer and by the
\* handler once more.
PostTooLong == /\ hpc = "route" /\ urls /\ job.kind \in PostKinds
               /\ job.len >= Scratch
               /\ sent' = <<"500", "500">>
               /\ PostEnds
               /\ UNCHANGED <<serverVars, buf, job, stored, baseVars>>

PostBegins == /\ hpc = "route" /\ urls /\ job.kind \in PostKinds
              /\ job.len < Scratch
              /\ mine' = context /\ buf' = Aged
              /\ hpc' = "recv"
              /\ UNCHANGED <<serverVars, job, got, last, sent, stored, baseVars>>

\* Mutated form of PartFits: the size of buf is asked for, whatever remains.
PartFitsBuf(n, remaining) == n <= Chunk

\* No more is asked for than MIN(remaining, sizeof(buf)).
PartFits(n, remaining) == n <= remaining /\ n <= Chunk

\* Each part is echoed before it is copied.  After a timeout the handler asks
\* again, without limit.
PostPart == /\ hpc = "recv" /\ mine # "null"
            /\ \E n \in 1..Chunk :
                  /\ PartFits(n, job.len - got)
                  /\ buf' = IF mine # "live" THEN buf
                            ELSE [c \in Cells |-> IF c \in got..(got + n - 1)
                                                  THEN "new" ELSE buf[c]]
                  /\ got' = got + n /\ last' = n
            /\ UNCHANGED <<serverVars, hpc, job, mine, sent, stored, baseVars>>

PostBroken == /\ hpc = "recv" /\ got < job.len
              /\ sent' = <<"500">>
              /\ PostEnds
              /\ UNCHANGED <<serverVars, buf, job, stored, baseVars>>

\* Mutated form of EndMark: the terminator is written at the front.
EndMarkFront(n, part) == part

\* result[end] = '\0': result is behind the body, end is the length of the last
\* part.
EndMark(n, part) == n + part

\* Mutated form of BodyComplete: one byte more is awaited.
BodyAndMore(n, len) == n > len

BodyComplete(n, len) == n = len

PostTerminated ==
    /\ hpc = "recv" /\ BodyComplete(got, job.len) /\ mine # "null"
    /\ buf' = IF mine = "live" THEN [buf EXCEPT ![EndMark(got, last)] = "nul"]
                               ELSE buf
    /\ hpc' = "save"
    /\ UNCHANGED <<serverVars, job, mine, got, last, sent, stored, baseVars>>

\* Mutated form of AnswerSaved: a failed save is answered 200.
AnswerAlways(ok) == "200"

AnswerSaved(ok) == IF ok THEN "200" ELSE "500"

\* wifi_manager_save_*: the text up to the terminator is written to a file.
PostSaved == /\ hpc = "save"
             /\ \E ok \in BOOLEAN : /\ stored' = ok
                                    /\ sent' = <<AnswerSaved(ok)>>
             /\ PostEnds
             /\ UNCHANGED <<serverVars, buf, job, baseVars>>

PostNotFound == /\ hpc = "others" /\ urls
                /\ sent' = Append(sent, "404")
                /\ hpc' = "done"
                /\ UNCHANGED <<serverVars, buf, job, mine, got, last, stored,
                               baseVars>>

\* GET: the redirection of the captive portal, the pages, the list, connect.
\* The list is sent under the json mutex, for which it waits ten ticks.
GetAnswers(kind) == CASE kind = "other host" -> {"302"}
                      [] kind = "ap.json"    -> {"200", "503"}
                      [] OTHER               -> {"200"}

\* The host is looked at before any url.
Get == /\ hpc = "route" /\ job.kind \in GetKinds
       /\ urls \/ job.kind = "other host"
       /\ \E status \in GetAnswers(job.kind) : sent' = <<status>>
       /\ hpc' = IF job.kind \in {"ap.json", "connect"} THEN "send" ELSE "done"
       /\ UNCHANGED <<serverVars, buf, job, mine, got, last, stored, baseVars>>

\* wifi_manager_scan_async and wifi_manager_connect_async wait for room.
HandlerSends == /\ hpc = "send" /\ ~full
                /\ hpc' = "done"
                /\ full' \in BOOLEAN
                /\ UNCHANGED <<serverVars, buf, job, mine, got, last, sent, stored,
                               fds, todo, at>>

\* The httpd task is ready for the next request.
Leaves == /\ hpc = "done"
          /\ hpc' = "idle" /\ job' = NoJob /\ sent' = << >> /\ stored' = FALSE
          /\ UNCHANGED <<serverVars, buf, mine, got, last, baseVars>>

\* strcmp with a url that is null; a copy to a buffer that is null.
ReadsNull == \/ hpc = "route" /\ ~urls /\ job.kind # "other host"
             \/ hpc = "others" /\ ~urls
             \/ hpc = "recv" /\ mine = "null"

Handler == \/ PostTooLong \/ PostBegins \/ PostPart \/ PostBroken
           \/ PostTerminated \/ PostSaved \/ PostNotFound \/ Get \/ HandlerSends
           \/ Leaves
=============================================================================
