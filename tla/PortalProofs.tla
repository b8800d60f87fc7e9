---------------------------- MODULE PortalProofs ----------------------------
(***************************************************************************)
(* Theorems about Portal for every number of sockets, all sizes of the     *)
(* body buffer and of the parts a body comes in, all sets of requests.     *)
(***************************************************************************)
EXTENDS MCPortal, FiniteSetTheorems, SequenceTheorems, TLAPS

CallNames == {"http_app_stop", "http_app_start", "start_dns_server", "stop_dns_server"}
Codes == {"200", "302", "404", "500", "503"}

\* The calls that remain of a message.  The hijack is stopped first if at all, and
\* http_app_stop comes after it.
Remaining(calls) ==
    /\ calls \in Seq(CallNames) /\ Len(calls) <= 3
    /\ calls # << >> /\ calls[1] = "stop_dns_server" =>
          Len(calls) >= 2 /\ calls[2] = "http_app_stop"
    /\ \A i \in 2..Len(calls) : calls[i] # "stop_dns_server"

\* The sockets, and the call the manager is in.
BaseInv ==
    /\ fds \in [Fds -> {"free", "dns", "httpd", "other"}]
    /\ Remaining(todo)
    /\ at \in {"call", "urls", "httpd_stop", "register", "close"}
    /\ Stopping => Calling("http_app_stop")
    /\ at = "register" => Calling("http_app_start")
    /\ at = "close" => Calling("stop_dns_server")

Flags == {full, handle, urls, stored} \subseteq BOOLEAN

\* The handle stands for the server from the call that starts it to the end of the
\* call that stops it, and so long there is no handler without it.  What the
\* handler uses is there except while the server is being stopped.
ServerInv ==
    /\ server = IF ~handle THEN "none" ELSE IF at = "register" THEN "bare" ELSE "up"
    /\ Stopping \/ at = "register" \/ hpc # "idle" => handle
    /\ handle /\ ~Stopping => context = "live" /\ urls
    /\ hpc \in {"recv", "save"} /\ ~Stopping => mine = "live"
    /\ context \in {"null", "live"}

\* What a post with a body of n bytes has been answered, and whether it was saved.
PostAnswer(s, n) == IF n >= Scratch THEN s = <<"500", "500">> /\ ~stored
                    ELSE s = IF stored THEN <<"200">> ELSE <<"500">>

\* How far the handler is with its request.
RequestInv ==
    /\ hpc \in {"idle", "route", "recv", "save", "others", "send", "done"}
    /\ hpc = "idle" => job = NoJob
    /\ hpc # "idle" => job \in Requests
    /\ hpc \in {"recv", "save"} =>
          /\ mine \in {"null", "live", "freed"}
          /\ job.kind \in PostKinds /\ job.len < Scratch
          /\ got \in 0..job.len /\ last \in 0..Chunk
    /\ hpc \notin {"recv", "save"} => mine = "none" /\ got = 0 /\ last = 0
    /\ hpc = "save" => got = job.len

\* What it has answered so far.
AnswerInv ==
    /\ sent \in Seq(Codes)
    /\ hpc \in {"idle", "route", "recv", "save"} => sent = << >> /\ ~stored
    /\ hpc = "others" => job.kind = "own if" /\ PostAnswer(sent, job.len)
    /\ hpc = "send" => job.kind \in GetKinds /\ Len(sent) = 1
    /\ hpc = "done" /\ job.kind = "chain" => PostAnswer(sent, job.len)
    /\ hpc = "done" /\ job.kind = "own if" =>
          \E s \in Seq(Codes) : PostAnswer(s, job.len) /\ sent = Append(s, "404")
    /\ hpc = "done" /\ job.kind \in GetKinds => Len(sent) = 1

\* What is in the buffer while a body is copied to it.
BodyInv ==
    /\ buf \in [Cells -> {"nul", "new", "old", "foreign"}]
    /\ hpc \in {"recv", "save"} /\ mine = "live" =>
          \A c \in Cells : buf[c] = "new" <=> c < got
    /\ hpc = "save" /\ mine = "live" => buf[got + last] = "nul"

\* The sockets of the hijack.  Between the deletion of its task and the close()
\* after it the number in socket_fd is still that of the task.
DnsInv ==
    /\ dns \in {"none", "task", "gone"}
    /\ dpc \in {"socket", "store", "bind", "recv", "shutdown"}
    /\ new \in 0..Sockets /\ socket_fd \in -1..Sockets /\ bound \in 0..Sockets
    /\ dns = "gone" => dpc = "socket"
    /\ at = "close" => dns = "none"
    /\ dns = "task" /\ dpc = "store" => new \in Fds /\ fds[new] = "dns"
    /\ dpc \in {"bind", "recv"} /\ (dns = "task" \/ at = "close") =>
          socket_fd \in Fds /\ fds[socket_fd] = "dns"

PortalInv == BaseInv /\ Flags /\ ServerInv /\ RequestInv /\ AnswerInv /\ BodyInv /\ DnsInv

Sizes == /\ Sockets \in Nat \ {0}
         /\ Scratch \in Nat /\ Chunk \in Nat \ {0} /\ Chunk < Scratch /\ MaxLen \in Nat
         /\ Posts \subseteq PostKinds /\ Gets \subseteq GetKinds

LEMMA SizesOK == Sizes
  BY SocketsAssumption, SizesAssumption, PostsAssumption, GetsAssumption DEF Sizes

----------------------------------------------------------------------------
(***************************************************************************)
(* Lemmas about the operators of the modules.                              *)
(***************************************************************************)
\* Every nonempty set of natural numbers has a least element: of the intervals
\* from 0 to its elements one contains no other.
LEMMA LeastElement ==
  ASSUME NEW T \in SUBSET Nat, T # {}
  PROVE  \E x \in T : \A y \in T : x <= y
  <1>1. PICK top \in T : TRUE
    OBVIOUS
  <1> DEFINE Below == {0..x : x \in {y \in T : y <= top}}
             Order == StrictSubsetOrdering(0..top)
  <1>2. IsWellFoundedOn(Order, SUBSET (0..top))
    <2>1. top \in Int
      OBVIOUS
    <2>2. IsFiniteSet(0..top)
      BY <2>1, FS_Interval
    <2>3. FiniteSubsetsOf(0..top) = SUBSET (0..top)
      BY <2>2, FS_FiniteSubsetsOfFinite
    <2>4. IsWellFoundedOn(StrictSubsetOrdering(0..top), FiniteSubsetsOf(0..top))
      BY FS_StrictSubsetOrderingWellFounded
    <2> QED
      BY <2>3, <2>4
  <1>3. Below \subseteq SUBSET (0..top) /\ Below # {}
    OBVIOUS
  <1>4. PICK D \in Below : \A E \in Below : <<E, D>> \notin Order
    <2> HIDE DEF Order, Below
    <2> QED
      BY <1>2, <1>3, WFMin
  <1>5. PICK x \in {y \in T : y <= top} : D = 0..x
    OBVIOUS
  <1>6. ASSUME NEW y \in T, y < x PROVE FALSE
    <2>1. 0..y \in Below /\ 0..y # D /\ 0..y \subseteq D
      BY <1>5, <1>6
    <2> QED
      BY <1>3, <1>4, <2>1 DEF StrictSubsetOrdering
  <1>7. \A y \in T : x <= y
    BY <1>6
  <1> QED
    BY <1>7

\* socket() returns a socket of nobody when there is one.
LEMMA NewFdIsFree ==
  ASSUME FreeFds # {}
  PROVE  NewFd \in Fds /\ fds[NewFd] = "free"
  <1>1. FreeFds \in SUBSET Nat
    BY SizesOK DEF FreeFds, Fds, Sizes
  <1>2. \E f \in FreeFds : \A g \in FreeFds : f <= g
    BY <1>1, LeastElement
  <1>3. NewFd \in FreeFds
    BY <1>2 DEF NewFd
  <1> QED
    BY <1>3 DEF FreeFds

\* What is known of a request.
LEMMA RequestData ==
  ASSUME NEW r \in Requests
  PROVE  r.kind \in PostKinds \cup GetKinds /\ r.len \in 0..MaxLen
  BY SizesOK DEF Requests, Sizes

\* What the manager does with a message, and what is left after a call.
LEMMA CallsRemaining ==
  ASSUME NEW order
  PROVE  Remaining(Calls(order))
  <1>1. CASE order = "START_AP"
    BY <1>1 DEF Calls, Remaining, CallNames
  <1>2. CASE order = "STOP_AP"
    BY <1>2 DEF Calls, Remaining, CallNames
  <1>3. CASE order = "HTTP_CLIENT_INIT"
    BY <1>3 DEF Calls, Remaining, CallNames
  <1>4. CASE order \notin {"START_AP", "STOP_AP", "HTTP_CLIENT_INIT"}
    BY <1>4 DEF Calls, Remaining, CallNames
  <1> QED
    BY <1>1, <1>2, <1>3, <1>4

LEMMA StartRemaining == Remaining(<<"http_app_start">>)
  BY DEF Remaining, CallNames

LEMMA TailRemaining ==
  ASSUME NEW calls, Remaining(calls), calls # << >>
  PROVE  Remaining(Tail(calls))
  <1>1. calls \in Seq(CallNames) /\ Len(calls) \in 1..3
    <2>1. calls \in Seq(CallNames) /\ Len(calls) <= 3
      BY DEF Remaining
    <2>2. Len(calls) \in Nat \ {0}
      BY <2>1, EmptySeq
    <2>3. \A n \in Nat \ {0} : n <= 3 => n \in 1..3
      OBVIOUS
    <2> QED
      BY <2>1, <2>2, <2>3, Zenon
  <1>2. Tail(calls) \in Seq(CallNames) /\ Len(Tail(calls)) = Len(calls) - 1
    BY <1>1, HeadTailProperties
  <1>3. \A i \in 1..Len(Tail(calls)) : Tail(calls)[i] = calls[i + 1]
    BY <1>1, HeadTailProperties
  <1>4. \A i \in 1..Len(Tail(calls)) : Tail(calls)[i] # "stop_dns_server"
    BY <1>1, <1>2, <1>3 DEF Remaining
  <1> QED
    BY <1>1, <1>2, <1>4 DEF Remaining

\* The steps of the hijack and of the server change the sockets of no one else.
LEMMA SocketsInRange ==
  ASSUME fds \in [Fds -> {"free", "dns", "httpd", "other"}], NEW f
  PROVE  Closed(f) \in [Fds -> {"free", "dns", "httpd", "other"}]
  BY DEF Closed

----------------------------------------------------------------------------
(***************************************************************************)
(* The sockets and the calls of the manager.                               *)
(***************************************************************************)
LEMMA InitBase == PortalInit => BaseInv
  BY StartRemaining DEF PortalInit, BaseInit, BaseInv, Stopping

LEMMA RestartBase == BaseRestart => BaseInv'
  BY StartRemaining DEF BaseRestart, BaseInv, Stopping

\* A call returns to its message.
LEMMA ReturnsBase ==
  ASSUME BaseInv, todo # << >>, Returns, fds' \in [Fds -> {"free", "dns", "httpd", "other"}]
  PROVE  BaseInv'
  BY TailRemaining DEF BaseInv, Returns, Stopping

LEMMA HttpManagerBase == BaseInv /\ HttpManager => BaseInv'
  <1> SUFFICES ASSUME BaseInv, HttpManager PROVE BaseInv'
    OBVIOUS
  <1> USE DEF httpVars, serverVars, handlerVars
  <1>1. CASE StopNothing \/ StartNothing \/ HttpdStop \/ Register
    <2>1. todo # << >> /\ Returns
      BY <1>1 DEF StopNothing, StartNothing, HttpdStop, Register, BaseInv, Stopping, Calling
    <2>2. fds' \in [Fds -> {"free", "dns", "httpd", "other"}]
      BY <1>1 DEF StopNothing, StartNothing, HttpdStop, Register, BaseInv
    <2> QED
      BY <2>1, <2>2, ReturnsBase
  <1>2. CASE FreeContext
    BY <1>2 DEF FreeContext, BaseInv, Stopping, Calling
  <1>3. CASE FreeUrls
    BY <1>3 DEF FreeUrls, BaseInv, Stopping, Calling
  <1>4. CASE HttpdStart
    <2>1. fds' \in [Fds -> {"free", "dns", "httpd", "other"}]
      BY <1>4 DEF HttpdStart, BaseInv
    <2>2. CASE Returns
      BY <1>4, <2>1, <2>2, ReturnsBase DEF HttpdStart, Calling
    <2>3. CASE at' = "register" /\ todo' = todo
      BY <1>4, <2>1, <2>3 DEF HttpdStart, BaseInv, Stopping, Calling
    <2> QED
      BY <1>4, <2>2, <2>3 DEF HttpdStart
  <1> QED
    BY <1>1, <1>2, <1>3, <1>4 DEF HttpManager

LEMMA DnsBase == BaseInv /\ (DnsManager \/ DnsTask) => BaseInv'
  <1> SUFFICES ASSUME BaseInv, DnsManager \/ DnsTask PROVE BaseInv'
    OBVIOUS
  <1>1. CASE StartDns \/ CloseDns
    <2>1. todo # << >> /\ Returns
      BY <1>1 DEF StartDns, CloseDns, Calling
    <2>2. fds' \in [Fds -> {"free", "dns", "httpd", "other"}]
      BY <1>1, SocketsInRange DEF StartDns, CloseDns, BaseInv
    <2> QED
      BY <2>1, <2>2, ReturnsBase
  <1>2. CASE DeleteDns
    <2>1. CASE Returns
      BY <1>2, <2>1, ReturnsBase DEF DeleteDns, Calling, BaseInv
    <2>2. CASE at' = "close" /\ todo' = todo
      BY <1>2, <2>2 DEF DeleteDns, BaseInv, Calling, Stopping
    <2> QED
      BY <1>2, <2>1, <2>2 DEF DeleteDns
  <1>3. CASE DnsTask
    <2>1. UNCHANGED <<todo, at>>
      BY <1>3, Zenon DEF DnsTask, MakeSocket, NoSocket, Store, Bind, Answer, RecvError,
                         Shutdown, Task
    <2>2. fds' \in [Fds -> {"free", "dns", "httpd", "other"}]
      BY <1>3, SocketsInRange DEF DnsTask, MakeSocket, NoSocket, Store, Bind, Answer, RecvError,
                                  Shutdown, BaseInv
    <2> QED
      BY <2>1, <2>2 DEF BaseInv, Calling, Stopping
  <1> QED
    BY <1>1, <1>2, <1>3 DEF DnsManager

LEMMA OtherBase ==
  BaseInv /\ (Take \/ Arrives \/ Handler \/ Around \/ UNCHANGED portalVars) => BaseInv'
  <1> SUFFICES ASSUME BaseInv, Take \/ Arrives \/ Handler \/ Around \/ UNCHANGED portalVars
               PROVE  BaseInv'
    OBVIOUS
  <1>1. CASE Take
    <2>1. Remaining(todo')
      BY <1>1, CallsRemaining DEF Take
    <2> QED
      BY <1>1, <2>1 DEF Take, BaseInv, Calling, Stopping
  <1>2. CASE Arrives \/ Handler \/ UNCHANGED portalVars
    <2>1. UNCHANGED <<fds, todo, at>>
      BY <1>2, Zenon DEF Arrives, Handler, PostTooLong, PostBegins, PostPart, PostBroken,
         PostTerminated, PostSaved, PostNotFound, Get, HandlerSends, Leaves, portalVars, baseVars
    <2> QED
      BY <2>1 DEF BaseInv, Calling, Stopping
  <1>3. CASE Around
    <2>1. UNCHANGED <<todo, at>>
      BY <1>3 DEF Around, Others, Fill
    <2>2. fds' \in [Fds -> {"free", "dns", "httpd", "other"}]
      BY <1>3, SocketsInRange DEF Around, Others, Fill, BaseInv
    <2> QED
      BY <2>1, <2>2 DEF BaseInv, Calling, Stopping
  <1> QED
    BY <1>1, <1>2, <1>3

LEMMA NextBase == BaseInv /\ [PortalNext]_portalVars => BaseInv'
  BY HttpManagerBase, DnsBase, OtherBase, RestartBase DEF PortalNext, Manager, Restart

\* The flags stay Boolean.
LEMMA NextFlags == Flags /\ [PortalNext]_portalVars => Flags'
  <1> SUFFICES ASSUME Flags, [PortalNext]_portalVars PROVE Flags'
    OBVIOUS
  <1> USE DEF Flags, baseVars, httpVars, serverVars, handlerVars
  <1>1. CASE HttpManager
    BY <1>1, Zenon DEF HttpManager, StopNothing, FreeContext, FreeUrls, HttpdStop,
       HandleAfterStop, StartNothing, HttpdStart, Register
  <1>2. CASE (DnsManager \/ DnsTask) /\ UNCHANGED httpVars
    BY <1>2, Zenon DEF DnsManager, DnsTask, StartDns, DeleteDns, CloseDns, MakeSocket, NoSocket,
       Store, Bind, Answer, RecvError, Shutdown, Task
  <1>3. CASE (Take \/ Around) /\ UNCHANGED httpVars
    BY <1>3, Zenon DEF Take, Around, Others, Fill
  <1>4. CASE Arrives \/ Handler
    BY <1>4, Zenon DEF Arrives, Handler, PostTooLong, PostBegins, PostPart, PostBroken,
       PostTerminated, PostSaved, PostNotFound, Get, HandlerSends, Leaves
  <1>5. CASE Restart
    BY <1>5, Zenon DEF Restart, BaseRestart, HttpRestart
  <1>6. CASE UNCHANGED portalVars
    BY <1>6, Zenon DEF portalVars
  <1> QED
    BY <1>1, <1>2, <1>3, <1>4, <1>5, <1>6, Zenon DEF PortalNext, Manager

----------------------------------------------------------------------------
(***************************************************************************)
(* The server and its handler.                                             *)
(***************************************************************************)
LEMMA InitHttp == PortalInit => ServerInv /\ RequestInv /\ AnswerInv /\ BodyInv
  BY SizesOK DEF PortalInit, BaseInit, HttpInit, Stopping, ServerInv, RequestInv,
     AnswerInv, BodyInv, Codes, Fresh, Sizes

LEMMA RestartHttp == Restart => ServerInv' /\ RequestInv' /\ AnswerInv' /\ BodyInv'
  BY SizesOK DEF Restart, BaseRestart, HttpRestart, Stopping, ServerInv, RequestInv,
     AnswerInv, BodyInv, Codes, Fresh, Sizes

\* Between its calls the manager is not in http_app_stop or http_app_start.
LEMMA CallPlace ==
  ASSUME BaseInv
  PROVE  /\ Calling("start_dns_server") => at = "call"
         /\ Calling("stop_dns_server") => at \in {"call", "close"}
         /\ todo = << >> => at = "call"
  BY DEF BaseInv, Calling, Stopping

LEMMA ManagerServer == BaseInv /\ ServerInv /\ RequestInv /\ HttpManager => ServerInv'
  <1> SUFFICES ASSUME BaseInv, ServerInv, RequestInv, HttpManager PROVE ServerInv'
    OBVIOUS
  <1> USE DEF httpVars, serverVars, handlerVars, Stopping
  <1>1. CASE StopNothing
    BY <1>1 DEF StopNothing, ServerInv, Returns
  <1>2. CASE FreeContext
    BY <1>2 DEF FreeContext, ServerInv
  <1>3. CASE FreeUrls
    BY <1>3 DEF FreeUrls, ServerInv
  <1>4. CASE HttpdStop
    BY <1>4 DEF HttpdStop, HandlerLeft, HandleAfterStop, ServerInv, Returns
  <1>5. CASE StartNothing
    BY <1>5 DEF StartNothing, ServerInv, Returns
  <1>6. CASE HttpdStart
    BY <1>6 DEF HttpdStart, ServerInv, Returns
  <1>7. CASE Register
    BY <1>7 DEF Register, ServerInv, Returns
  <1> QED
    BY <1>1, <1>2, <1>3, <1>4, <1>5, <1>6, <1>7 DEF HttpManager

LEMMA HandlerServer == BaseInv /\ ServerInv /\ RequestInv /\ (Arrives \/ Handler) => ServerInv'
  <1> SUFFICES ASSUME BaseInv, ServerInv, RequestInv, Arrives \/ Handler PROVE ServerInv'
    OBVIOUS
  <1> USE DEF serverVars, baseVars
  <1>1. UNCHANGED <<handle, server, context, urls, at>>
    BY Zenon DEF Arrives, Handler, PostTooLong, PostBegins, PostPart, PostBroken, PostTerminated,
       PostSaved, PostNotFound, Get, HandlerSends, Leaves
  <1>2. handle
    BY DEF Arrives, Handler, PostTooLong, PostBegins, PostPart, PostBroken, PostTerminated,
       PostSaved, PostNotFound, Get, HandlerSends, Leaves, ServerInv
  <1>3. hpc' \in {"recv", "save"} =>
           (hpc \in {"recv", "save"} /\ mine' = mine) \/ mine' = context
    BY DEF Arrives, Handler, PostTooLong, PostBegins, PostPart, PostBroken, PostTerminated,
       PostSaved, PostNotFound, Get, HandlerSends, Leaves, PostEnds
  <1> QED
    BY <1>1, <1>2, <1>3 DEF ServerInv, Stopping

LEMMA NextServer ==
  BaseInv /\ ServerInv /\ RequestInv /\ [PortalNext]_portalVars => ServerInv'
  <1> SUFFICES ASSUME BaseInv, ServerInv, RequestInv, [PortalNext]_portalVars PROVE ServerInv'
    OBVIOUS
  <1>1. ASSUME UNCHANGED httpVars,
               at' = at \/ (~Stopping /\ at # "register" /\ at' \in {"call", "close"})
        PROVE  ServerInv'
    <2>1. UNCHANGED <<handle, server, context, urls, hpc, mine>>
      BY <1>1, Zenon DEF httpVars, serverVars, handlerVars
    <2> QED
      BY <1>1, <2>1 DEF ServerInv, Stopping
  <1>2. CASE (Take \/ Around \/ DnsTask) /\ UNCHANGED httpVars
    <2>1. UNCHANGED at
      BY <1>2, Zenon DEF Take, Around, Others, Fill, DnsTask, MakeSocket, NoSocket, Store, Bind,
         Answer, RecvError, Shutdown, Task
    <2> QED
      BY <1>1, <1>2, <2>1
  <1>3. CASE DnsManager /\ UNCHANGED httpVars
    <2>1. ~Stopping /\ at # "register" /\ at' \in {"call", "close"}
      BY <1>3, CallPlace DEF DnsManager, StartDns, DeleteDns, CloseDns, Returns, Stopping
    <2> QED
      BY <1>1, <1>3, <2>1
  <1>4. CASE UNCHANGED portalVars
    BY <1>1, <1>4 DEF portalVars, baseVars
  <1> QED
    BY <1>1, <1>2, <1>3, <1>4, ManagerServer, HandlerServer, RestartHttp
       DEF PortalNext, Manager

\* Each step of the httpd task goes on with its request.
LEMMA JobData ==
  ASSUME RequestInv, hpc # "idle"
  PROVE  /\ job \in Requests /\ job.kind \in PostKinds \cup GetKinds
         /\ job.len \in Nat /\ Scratch \in Nat /\ Chunk \in Nat
  <1>1. job \in Requests
    BY DEF RequestInv
  <1>2. job.kind \in PostKinds \cup GetKinds /\ job.len \in 0..MaxLen
    BY <1>1, RequestData
  <1> QED
    BY <1>1, <1>2, SizesOK DEF Sizes

LEMMA HandlerRequest == ServerInv /\ RequestInv /\ (Arrives \/ Handler) => RequestInv'
  <1> SUFFICES ASSUME ServerInv, RequestInv, Arrives \/ Handler PROVE RequestInv'
    OBVIOUS
  <1>1. CASE Arrives
    BY <1>1 DEF Arrives, RequestInv
  <1>2. CASE PostTooLong \/ PostBroken \/ PostSaved
    <2>1. UNCHANGED job /\ PostEnds /\ hpc # "idle"
      BY <1>2 DEF PostTooLong, PostBroken, PostSaved
    <2> QED
      BY <2>1, JobData DEF PostEnds, RequestInv
  <1>3. CASE PostBegins
    <2>1. hpc # "idle" /\ UNCHANGED <<job, got, last>> /\ mine' = context /\ hpc' = "recv"
          /\ job.kind \in PostKinds /\ job.len < Scratch /\ got = 0 /\ last = 0
      BY <1>3 DEF PostBegins, RequestInv
    <2> QED
      BY <2>1, JobData DEF RequestInv, ServerInv
  <1>4. CASE PostPart
    <2>1. /\ UNCHANGED <<job, mine, hpc>> /\ hpc = "recv"
          /\ \E n \in 1..Chunk : n <= job.len - got /\ got' = got + n /\ last' = n
      BY <1>4 DEF PostPart, PartFits
    <2> QED
      BY <2>1, JobData DEF RequestInv
  <1>5. CASE PostTerminated
    BY <1>5, JobData DEF PostTerminated, BodyComplete, RequestInv
  <1>6. CASE PostNotFound \/ Get \/ HandlerSends
    <2>1. /\ UNCHANGED <<job, mine, got, last>> /\ hpc # "idle" /\ hpc \notin {"recv", "save"}
          /\ hpc' \in {"send", "done"}
      BY <1>6 DEF PostNotFound, Get, HandlerSends
    <2> QED
      BY <2>1 DEF RequestInv
  <1>7. CASE Leaves
    BY <1>7 DEF Leaves, RequestInv
  <1> QED
    BY <1>1, <1>2, <1>3, <1>4, <1>5, <1>6, <1>7 DEF Handler

\* A post that has been answered is through, or compared with the other urls yet.
LEMMA PostAnswered ==
  ASSUME job.kind \in PostKinds, UNCHANGED job, PostEnds, sent' \in Seq(Codes),
         PostAnswer(sent, job.len)'
  PROVE  AnswerInv'
  <1>1. job.kind \in {"own if", "chain"} /\ job.kind \notin GetKinds
    BY DEF PostKinds, GetKinds
  <1>2. hpc' \in {"others", "done"} /\ (hpc' = "others" <=> job.kind = "own if")
    BY DEF PostEnds
  <1> QED
    BY <1>1, <1>2 DEF AnswerInv

LEMMA AppendedCode ==
  ASSUME NEW s \in Seq(Codes)
  PROVE  Append(s, "404") \in Seq(Codes)
  <1>1. "404" \in Codes
    BY DEF Codes
  <1> QED
    BY <1>1

LEMMA HandlerAnswer == RequestInv /\ AnswerInv /\ (Arrives \/ Handler) => AnswerInv'
  <1> SUFFICES ASSUME RequestInv, AnswerInv, Arrives \/ Handler PROVE AnswerInv'
    OBVIOUS
  <1>1. CASE Arrives
    BY <1>1 DEF Arrives, AnswerInv
  <1>2. CASE PostTooLong
    <2>1. sent' \in Seq(Codes) /\ PostAnswer(sent, job.len)'
      BY <1>2 DEF PostTooLong, PostAnswer, Codes, AnswerInv
    <2> QED
      BY <1>2, <2>1, PostAnswered DEF PostTooLong
  <1>3. CASE PostBroken
    <2>1. job.kind \in PostKinds /\ UNCHANGED job /\ ~(job.len >= Scratch)
      BY <1>3, JobData DEF PostBroken, RequestInv
    <2>2. sent' \in Seq(Codes) /\ PostAnswer(sent, job.len)'
      BY <1>3, <2>1 DEF PostBroken, PostAnswer, Codes, AnswerInv
    <2> QED
      BY <1>3, <2>1, <2>2, PostAnswered DEF PostBroken
  <1>4. CASE PostSaved
    <2>1. job.kind \in PostKinds /\ UNCHANGED job /\ ~(job.len >= Scratch)
      BY <1>4, JobData DEF PostSaved, RequestInv
    <2>2. PICK ok \in BOOLEAN : stored' = ok /\ sent' = <<AnswerSaved(ok)>>
      BY <1>4 DEF PostSaved
    <2>3. sent' \in Seq(Codes) /\ PostAnswer(sent, job.len)'
      <3>1. CASE ok = TRUE
        BY <2>1, <2>2, <3>1 DEF AnswerSaved, PostAnswer, Codes
      <3>2. CASE ok = FALSE
        BY <2>1, <2>2, <3>2 DEF AnswerSaved, PostAnswer, Codes
      <3> QED
        BY <3>1, <3>2
    <2> QED
      BY <1>4, <2>1, <2>3, PostAnswered DEF PostSaved
  <1>5. CASE PostBegins \/ PostPart \/ PostTerminated
    <2>1. UNCHANGED <<sent, stored>> /\ hpc \in {"route", "recv"} /\ hpc' \in {"recv", "save"}
      BY <1>5 DEF PostBegins, PostPart, PostTerminated
    <2> QED
      BY <2>1 DEF AnswerInv
  <1>6. CASE PostNotFound
    <2>1. sent' = Append(sent, "404") /\ UNCHANGED <<job, stored>> /\ hpc = "others"
          /\ hpc' = "done"
      BY <1>6 DEF PostNotFound
    <2>2. job.kind = "own if" /\ job.kind # "chain" /\ job.kind \notin GetKinds
          /\ sent \in Seq(Codes) /\ PostAnswer(sent, job.len)
      BY <2>1 DEF AnswerInv, GetKinds
    <2>3. \A s : PostAnswer(s, job.len) => PostAnswer(s, job.len)'
      BY <2>1 DEF PostAnswer
    <2>4. sent' \in Seq(Codes)
      BY <2>1, <2>2, AppendedCode
    <2> QED
      BY <2>1, <2>2, <2>3, <2>4 DEF AnswerInv
  <1>7. CASE Get
    <2>1. PICK status \in GetAnswers(job.kind) : sent' = <<status>>
      BY <1>7 DEF Get
    <2>2. status \in Codes
      BY <2>1 DEF GetAnswers, Codes
    <2>3. job.kind \in GetKinds /\ job.kind \notin {"own if", "chain"} /\ UNCHANGED job
          /\ hpc' \in {"send", "done"}
      BY <1>7 DEF Get, GetKinds
    <2>4. sent' \in Seq(Codes) /\ Len(sent') = 1
      BY <2>1, <2>2
    <2> QED
      BY <2>3, <2>4 DEF AnswerInv
  <1>8. CASE HandlerSends
    <2>1. UNCHANGED <<job, sent, stored>> /\ hpc = "send" /\ hpc' = "done"
      BY <1>8 DEF HandlerSends
    <2>2. job.kind \in GetKinds /\ job.kind \notin {"own if", "chain"}
      BY <2>1 DEF AnswerInv, GetKinds
    <2> QED
      BY <2>1, <2>2 DEF AnswerInv
  <1>9. CASE Leaves
    <2>1. sent' \in Seq(Codes) /\ sent' = << >> /\ ~stored' /\ hpc' = "idle"
      BY <1>9 DEF Leaves
    <2> QED
      BY <2>1 DEF AnswerInv
  <1> QED
    BY <1>1, <1>2, <1>3, <1>4, <1>5, <1>6, <1>7, <1>8, <1>9 DEF Handler

\* No one else touches the request, but a buffer that is freed is freed for it too.
LEMMA NextRequest ==
  ServerInv /\ RequestInv /\ AnswerInv /\ [PortalNext]_portalVars
     => RequestInv' /\ AnswerInv'
  <1> SUFFICES ASSUME ServerInv, RequestInv, AnswerInv, [PortalNext]_portalVars
               PROVE  RequestInv' /\ AnswerInv'
    OBVIOUS
  <1>1. ASSUME UNCHANGED <<hpc, job, got, last, sent, stored>>,
               mine' = mine \/ (mine = "live" /\ mine' = "freed")
        PROVE  RequestInv' /\ AnswerInv'
    BY <1>1 DEF RequestInv, AnswerInv, PostAnswer
  <1>2. CASE HttpManager
    BY <1>1, <1>2 DEF HttpManager, StopNothing, FreeContext, FreeUrls, HttpdStop, StartNothing,
                      HttpdStart, Register, httpVars, handlerVars
  <1>3. CASE UNCHANGED httpVars
    BY <1>1, <1>3 DEF httpVars, handlerVars
  <1>4. CASE Restart
    BY <1>4, RestartHttp
  <1> QED
    BY <1>2, <1>3, <1>4, HandlerRequest, HandlerAnswer DEF PortalNext, Manager, portalVars

----------------------------------------------------------------------------
(***************************************************************************)
(* The body in the buffer.                                                 *)
(***************************************************************************)
Contents == {"nul", "new", "old", "foreign"}

\* The handler stays inside the buffer and the Chunk cells behind it.
LEMMA BodyCells ==
  ASSUME RequestInv, hpc \in {"recv", "save"}
  PROVE  /\ got \in Nat /\ last \in Nat /\ got + last \in Cells /\ job.len \in Nat
         /\ got <= job.len /\ 0..job.len \subseteq Cells
  <1>1. job.len \in Nat /\ Scratch \in Nat /\ Chunk \in Nat \ {0}
    BY JobData, SizesOK DEF Sizes
  <1> QED
    BY <1>1 DEF RequestInv, Cells

LEMMA HandlerBody == RequestInv /\ BodyInv /\ (Arrives \/ Handler) => BodyInv'
  <1> SUFFICES ASSUME RequestInv, BodyInv, Arrives \/ Handler PROVE BodyInv'
    OBVIOUS
  <1>1. CASE Arrives \/ PostTooLong \/ PostBroken \/ PostSaved \/ PostNotFound \/ Get
             \/ HandlerSends \/ Leaves
    <2>1. UNCHANGED buf /\ hpc' \notin {"recv", "save"}
      BY <1>1 DEF Arrives, PostTooLong, PostBroken, PostSaved, PostEnds, PostNotFound, Get,
                  HandlerSends, Leaves
    <2> QED
      BY <2>1 DEF BodyInv
  <1>2. CASE PostBegins
    <2>1. buf' = Aged /\ got' = 0 /\ hpc' = "recv"
      BY <1>2 DEF PostBegins, RequestInv
    <2>2. /\ buf' \in [Cells -> Contents]
          /\ \A c \in Cells : buf'[c] # "new" /\ ~(c < 0)
      BY <2>1, SizesOK DEF Aged, BodyInv, Contents, Cells, Sizes
    <2> QED
      BY <2>1, <2>2 DEF BodyInv, Contents
  <1>3. CASE PostPart
    <2>1. PICK n \in 1..Chunk :
             /\ buf' = IF mine # "live" THEN buf
                       ELSE [c \in Cells |-> IF c \in got..(got + n - 1) THEN "new"
                                                                       ELSE buf[c]]
             /\ got' = got + n
      BY <1>3 DEF PostPart
    <2>2. UNCHANGED <<hpc, mine>> /\ hpc = "recv"
      BY <1>3 DEF PostPart
    <2>3. CASE mine = "live"
      <3>1. got \in Nat /\ \A c \in Cells : c \in Int /\ (buf[c] = "new" <=> c < got)
        BY <2>2, <2>3, BodyCells DEF BodyInv, Cells
      <3>2. /\ buf' \in [Cells -> Contents]
            /\ \A c \in Cells : buf'[c] = "new" <=> c < got + n
        BY <2>1, <2>3, <3>1 DEF BodyInv, Contents
      <3> QED
        BY <2>1, <2>2, <3>2 DEF BodyInv, Contents
    <2>4. CASE mine # "live"
      BY <2>1, <2>2, <2>4 DEF BodyInv
    <2> QED
      BY <2>3, <2>4
  <1>4. CASE PostTerminated
    <2>1. /\ UNCHANGED <<mine, got, last>> /\ hpc = "recv" /\ hpc' = "save"
          /\ buf' = IF mine = "live" THEN [buf EXCEPT ![got + last] = "nul"] ELSE buf
      BY <1>4 DEF PostTerminated, EndMark
    <2>2. CASE mine = "live"
      <3>1. /\ got \in Nat /\ last \in Nat /\ got + last \in Cells
            /\ \A c \in Cells : c \in Int /\ (buf[c] = "new" <=> c < got)
        BY <2>1, <2>2, BodyCells DEF BodyInv, Cells
      <3>2. /\ buf' \in [Cells -> Contents] /\ buf'[got + last] = "nul"
            /\ \A c \in Cells : buf'[c] = "new" <=> c < got
        BY <2>1, <2>2, <3>1 DEF BodyInv, Contents
      <3> QED
        BY <2>1, <3>2 DEF BodyInv, Contents
    <2>3. CASE mine # "live"
      BY <2>1, <2>3 DEF BodyInv
    <2> QED
      BY <2>2, <2>3
  <1> QED
    BY <1>1, <1>2, <1>3, <1>4 DEF Handler

LEMMA NextBody ==
  ServerInv /\ RequestInv /\ BodyInv /\ [PortalNext]_portalVars => BodyInv'
  <1> SUFFICES ASSUME ServerInv, RequestInv, BodyInv, [PortalNext]_portalVars PROVE BodyInv'
    OBVIOUS
  <1>1. Fresh \in [Cells -> Contents]
    BY DEF Fresh, Contents
  <1>2. ASSUME UNCHANGED <<buf, hpc, mine, got, last>> PROVE BodyInv'
    BY <1>2 DEF BodyInv
  <1>3. CASE FreeContext
    <2>1. buf' = Fresh /\ mine' # "live"
      BY <1>3 DEF FreeContext
    <2> QED
      BY <1>1, <2>1 DEF BodyInv, Contents
  <1>4. CASE HttpdStart
    <2>1. buf' = Fresh /\ UNCHANGED hpc /\ hpc = "idle"
      BY <1>4 DEF HttpdStart, handlerVars, ServerInv
    <2> QED
      BY <1>1, <2>1 DEF BodyInv, Contents
  <1>5. CASE StopNothing \/ FreeUrls \/ HttpdStop \/ StartNothing \/ Register
    BY <1>2, <1>5 DEF StopNothing, FreeUrls, HttpdStop, StartNothing, Register, httpVars,
                      handlerVars
  <1>6. CASE UNCHANGED httpVars
    BY <1>2, <1>6 DEF httpVars, handlerVars
  <1>7. CASE Restart
    BY <1>7, RestartHttp
  <1> QED
    BY <1>3, <1>4, <1>5, <1>6, <1>7, HandlerBody DEF PortalNext, Manager, HttpManager, portalVars

\* The end of the text that is saved: the first terminator in the buffer is not
\* before the end of the body, and not after the one that was written.
LEMMA TextEndFound ==
  ASSUME RequestInv, BodyInv, hpc = "save", mine = "live"
  PROVE  /\ TextEnd \in Cells /\ buf[TextEnd] = "nul"
         /\ \A d \in 0..(TextEnd - 1) : buf[d] # "nul"
         /\ TextEnd <= got + last
  <1> DEFINE Ends == {c \in Cells : buf[c] = "nul"}
  <1>1. got + last \in Ends /\ Ends \in SUBSET Nat
    BY BodyCells, SizesOK DEF BodyInv, Cells, Sizes
  <1>2. PICK e \in Ends : \A c \in Ends : e <= c
    BY <1>1, LeastElement
  <1>3. \A c \in Cells : \A d \in 0..(c - 1) : d \in Cells /\ d < c
    BY SizesOK DEF Cells, Sizes
  <1>4. /\ e \in Cells /\ buf[e] = "nul"
        /\ \A d \in 0..(e - 1) : buf[d] # "nul"
    BY <1>1, <1>2, <1>3
  <1>5. /\ TextEnd \in Cells /\ buf[TextEnd] = "nul"
        /\ \A d \in 0..(TextEnd - 1) : buf[d] # "nul"
    BY <1>4 DEF TextEnd
  <1>6. ASSUME got + last < TextEnd PROVE FALSE
    <2>1. got + last \in 0..(TextEnd - 1)
      BY <1>1, <1>5, <1>6, SizesOK DEF Cells, Sizes
    <2> QED
      BY <1>1, <1>5, <2>1
  <1>7. TextEnd \in Int /\ got + last \in Int
    BY <1>1, <1>5, SizesOK DEF Cells, Sizes
  <1> QED
    BY <1>5, <1>6, <1>7

LEMMA SavedFromInv == RequestInv /\ BodyInv => SavedIsBody
  <1> SUFFICES ASSUME RequestInv, BodyInv, hpc = "save", mine = "live"
               PROVE  /\ TextEnd >= job.len
                      /\ \A c \in 0..(TextEnd - 1) : c < job.len <=> buf[c] = "new"
                      /\ TextEnd > job.len => TextEnd <= job.len + last
    BY DEF SavedIsBody
  <1>1. got = job.len /\ job.len \in Nat /\ 0..job.len \subseteq Cells
    BY BodyCells DEF RequestInv
  <1>2. \A c \in Cells : buf[c] = "new" <=> c < job.len
    BY <1>1 DEF BodyInv
  <1>3. TextEnd \in Cells /\ buf[TextEnd] = "nul" /\ TextEnd <= job.len + last
    BY <1>1, TextEndFound
  <1>4. TextEnd >= job.len
    <2>1. ~(TextEnd < job.len)
      BY <1>2, <1>3
    <2> QED
      BY <1>1, <1>3, <2>1, SizesOK DEF Cells, Sizes
  <1>5. 0..(TextEnd - 1) \subseteq Cells
    BY <1>3, SizesOK DEF Cells, Sizes
  <1> QED
    BY <1>2, <1>3, <1>4, <1>5

----------------------------------------------------------------------------
(***************************************************************************)
(* The sockets of the hijack.                                              *)
(***************************************************************************)
LEMMA InitDns == PortalInit => DnsInv
  BY SizesOK DEF PortalInit, BaseInit, DnsInit, DnsInv, Sizes

LEMMA RestartDns == Restart => DnsInv'
  BY SizesOK DEF Restart, BaseRestart, DnsRestart, DnsInv, Sizes

\* No one but the hijack closes its sockets or takes them away.
LEMMA HijackKept ==
  ASSUME BaseInv, HttpManager \/ Take \/ Arrives \/ Handler \/ Around
  PROVE  /\ \A f \in Fds : fds'[f] = "dns" <=> fds[f] = "dns"
         /\ at' = "close" <=> at = "close"
  <1> USE DEF httpVars, serverVars, handlerVars, baseVars
  <1>1. CASE HttpManager
    <2>1. at # "close" /\ at' # "close"
      BY <1>1 DEF HttpManager, StopNothing, FreeContext, FreeUrls, HttpdStop, StartNothing,
                  HttpdStart, Register, Returns, BaseInv
    <2>2. CASE HttpdStart
      BY <2>1, <2>2, NewFdIsFree DEF HttpdStart, BaseInv
    <2>3. CASE HttpdStop
      BY <2>1, <2>3 DEF HttpdStop, BaseInv
    <2>4. CASE StopNothing \/ FreeContext \/ FreeUrls \/ StartNothing \/ Register
      BY <2>1, <2>4 DEF StopNothing, FreeContext, FreeUrls, StartNothing, Register
    <2> QED
      BY <1>1, <2>2, <2>3, <2>4 DEF HttpManager
  <1>2. CASE Take \/ Arrives \/ Handler \/ Fill
    <2>1. UNCHANGED <<fds, at>>
      BY <1>2, Zenon DEF Take, Arrives, Handler, PostTooLong, PostBegins, PostPart, PostBroken,
         PostTerminated, PostSaved, PostNotFound, Get, HandlerSends, Leaves, Fill
    <2> QED
      BY <2>1
  <1>3. CASE Others
    <2>1. CASE FreeFds # {} /\ fds' = [fds EXCEPT ![NewFd] = "other"]
      BY <1>3, <2>1, NewFdIsFree DEF Others, BaseInv
    <2>2. ASSUME NEW f \in Fds, fds[f] = "other", fds' = Closed(f)
          PROVE  \A g \in Fds : fds'[g] = "dns" <=> fds[g] = "dns"
      BY <2>2 DEF Closed
    <2> QED
      BY <1>3, <2>1, <2>2 DEF Others
  <1> QED
    BY <1>1, <1>2, <1>3 DEF Around

LEMMA HijackKeptInv ==
  ASSUME BaseInv, DnsInv, UNCHANGED dnsVars,
         HttpManager \/ Take \/ Arrives \/ Handler \/ Around
  PROVE  DnsInv'
  BY HijackKept DEF DnsInv, dnsVars

LEMMA ManagerDns == BaseInv /\ DnsInv /\ DnsManager => DnsInv'
  <1> SUFFICES ASSUME BaseInv, DnsInv, DnsManager PROVE DnsInv'
    OBVIOUS
  <1> USE SizesOK DEF Sizes, Returns
  <1>1. CASE StartDns
    BY <1>1, CallPlace DEF StartDns, MayStart, DnsInv
  <1>2. CASE DeleteDns
    BY <1>2 DEF DeleteDns, DnsInv
  <1>3. CASE CloseDns
    BY <1>3 DEF CloseDns, Unbound, DnsInv
  <1> QED
    BY <1>1, <1>2, <1>3 DEF DnsManager

LEMMA TaskDns == BaseInv /\ DnsInv /\ DnsTask => DnsInv'
  <1> SUFFICES ASSUME BaseInv, DnsInv, DnsTask PROVE DnsInv'
    OBVIOUS
  <1> USE SizesOK DEF Sizes, Task
  <1>1. CASE MakeSocket
    <2>1. NewFd \in Fds /\ fds' = [fds EXCEPT ![NewFd] = "dns"] /\ new' = NewFd
          /\ dpc' = "store" /\ UNCHANGED <<dns, socket_fd, bound, at>>
      BY <1>1, NewFdIsFree DEF MakeSocket
    <2>2. NewFd \in 0..Sockets /\ fds'[NewFd] = "dns"
      BY <2>1 DEF Fds, BaseInv
    <2>3. dns = "task" /\ at # "close"
      BY <1>1 DEF MakeSocket, DnsInv
    <2> QED
      BY <2>1, <2>2, <2>3 DEF DnsInv
  <1>2. CASE NoSocket
    BY <1>2 DEF NoSocket, DnsInv
  <1>3. CASE Store
    BY <1>3 DEF Store, DnsInv, Fds
  <1>4. CASE Bind
    BY <1>4 DEF Bind, DnsInv, Fds
  <1>5. CASE Answer
    BY <1>5 DEF Answer, DnsInv
  <1>6. CASE RecvError
    BY <1>6 DEF RecvError, Unbound, DnsInv
  <1>7. CASE Shutdown
    BY <1>7 DEF Shutdown, NextLoop, Unbound, DnsInv
  <1> QED
    BY <1>1, <1>2, <1>3, <1>4, <1>5, <1>6, <1>7 DEF DnsTask

LEMMA NextDns == BaseInv /\ DnsInv /\ [PortalNext]_portalVars => DnsInv'
  <1> SUFFICES ASSUME BaseInv, DnsInv, [PortalNext]_portalVars PROVE DnsInv'
    OBVIOUS
  <1>1. CASE UNCHANGED portalVars
    BY <1>1 DEF portalVars, baseVars, dnsVars, DnsInv
  <1> QED
    BY <1>1, HijackKeptInv, ManagerDns, TaskDns, RestartDns DEF PortalNext, Manager

----------------------------------------------------------------------------
(***************************************************************************)
(* Theorems.                                                               *)
(***************************************************************************)
LEMMA InitPortal == PortalInit => PortalInv
  <1>1. PortalInit => Flags
    BY Zenon DEF PortalInit, BaseInit, HttpInit, Flags
  <1> QED
    BY <1>1, InitBase, InitHttp, InitDns DEF PortalInv

LEMMA NextPortal == PortalInv /\ [PortalNext]_portalVars => PortalInv'
  BY NextBase, NextFlags, NextServer, NextRequest, NextBody, NextDns, Zenon DEF PortalInv

LEMMA PortalInductive == PortalSpec => []PortalInv
  BY InitPortal, NextPortal, PTL DEF PortalSpec

\* The types of the variables follow.
LEMMA TypesFromInv == PortalInv => PortalTypeOK
  <1> SUFFICES ASSUME PortalInv PROVE PortalTypeOK
    OBVIOUS
  <1>1. todo \in UNION {[1..n -> CallNames] : n \in 0..3}
    <2>1. todo \in Seq(CallNames) /\ Len(todo) <= 3
      BY DEF PortalInv, BaseInv, Remaining
    <2>2. todo \in [1..Len(todo) -> CallNames] /\ Len(todo) \in Nat
      BY <2>1, LenProperties
    <2> QED
      BY <2>1, <2>2
  <1>2. got \in 0..MaxLen /\ last \in 0..Chunk
    <2>1. CASE hpc \in {"recv", "save"}
      <3>1. job.len \in 0..MaxLen
        BY <2>1, JobData, RequestData DEF PortalInv
      <3> QED
        BY <2>1, <3>1, SizesOK DEF PortalInv, RequestInv, Sizes
    <2>2. CASE hpc \notin {"recv", "save"}
      BY <2>2, SizesOK DEF PortalInv, RequestInv, Sizes
    <2> QED
      BY <2>1, <2>2
  <1>3. full \in BOOLEAN /\ handle \in BOOLEAN /\ urls \in BOOLEAN /\ stored \in BOOLEAN
    BY Zenon DEF PortalInv, Flags
  <1>4. server \in {"none", "bare", "up"} /\ context \in {"null", "live"}
    BY DEF PortalInv, ServerInv
  <1>5. /\ hpc \in {"idle", "route", "recv", "save", "others", "send", "done"}
        /\ job \in Requests \cup {NoJob}
        /\ mine \in {"none", "null", "live", "freed"}
    BY DEF PortalInv, RequestInv
  <1> QED
    BY <1>1, <1>2, <1>3, <1>4, <1>5
       DEF PortalInv, BaseInv, AnswerInv, BodyInv, DnsInv, CallNames, Codes, PortalTypeOK

\* Whenever the manager is between two messages, httpd_handle says whether there is
\* a server, and a server is complete: handlers, body buffer and urls.
THEOREM HandleTellsServer == PortalSpec => []RestAgrees
  <1>1. PortalInv => ServerAgrees
    BY DEF PortalInv, BaseInv, ServerInv, ServerAgrees, AtRest, Stopping, Calling
  <1> QED
    BY <1>1, PortalInductive, TypesFromInv, PTL DEF RestAgrees

\* Except while httpd_stop waits for it, no handler works on a body buffer that has
\* been freed or compares with urls that have been.
THEOREM HandlersUseWhatIsThere == PortalSpec => []InUseIsLive
  <1>1. PortalInv => InUseIsLive
    BY DEF PortalInv, ServerInv, InUseIsLive
  <1> QED
    BY <1>1, PortalInductive, PTL

\* A saved text is the posted body, with at most as many characters of an earlier
\* one behind it as the last part of the body was long.
THEOREM SavedTextIsBody == PortalSpec => []SavedIsBody
  <1>1. PortalInv => SavedIsBody
    BY SavedFromInv DEF PortalInv
  <1> QED
    BY <1>1, PortalInductive, PTL

\* A post is answered once, or twice when its body is too long, and first with 200
\* exactly when its text was saved.
LEMMA PostAnswerShape ==
  ASSUME NEW s, NEW n \in Nat, Scratch \in Nat, stored \in BOOLEAN, PostAnswer(s, n)
  PROVE  /\ Len(s) = 1 + (IF n >= Scratch THEN 1 ELSE 0)
         /\ Len(s) \in 1..2
         /\ s[1] = "200" <=> stored
  <1>1. CASE n >= Scratch
    BY <1>1 DEF PostAnswer
  <1>2. CASE ~(n >= Scratch) /\ stored
    BY <1>2 DEF PostAnswer
  <1>3. CASE ~(n >= Scratch) /\ ~stored
    BY <1>3 DEF PostAnswer
  <1> QED
    BY <1>1, <1>2, <1>3

\* Every request gets one answer, 200 to a post exactly when its text was saved,
\* with the two exceptions of AnswersOnce.
THEOREM EachRequestAnswered == PortalSpec => []AnswersOnce
  <1>1. PortalInv => AnswersOnce
    <2> SUFFICES ASSUME PortalInv, hpc = "done" PROVE AnswersOnce
      BY DEF AnswersOnce
    <2>1. job.kind \in {"own if", "chain"} \cup GetKinds /\ job.len \in Nat /\ Scratch \in Nat
      BY JobData DEF PortalInv, PostKinds
    <2>2. stored \in BOOLEAN
      BY Zenon DEF PortalInv, Flags
    <2>3. CASE job.kind = "chain"
      <3>1. PostAnswer(sent, job.len)
        BY <2>3 DEF PortalInv, AnswerInv
      <3>2. /\ Len(sent) = 1 + (IF job.len >= Scratch THEN 1 ELSE 0)
            /\ sent[1] = "200" <=> stored
        BY <2>1, <2>2, <3>1, PostAnswerShape
      <3> QED
        BY <2>1, <2>3, <3>2 DEF AnswersOnce, PostKinds
    <2>5. CASE job.kind = "own if"
      <3>1. PICK t \in Seq(Codes) : PostAnswer(t, job.len) /\ sent = Append(t, "404")
        BY <2>5 DEF PortalInv, AnswerInv
      <3>2. /\ Len(t) = 1 + (IF job.len >= Scratch THEN 1 ELSE 0)
            /\ Len(t) \in 1..2
            /\ t[1] = "200" <=> stored
        BY <2>1, <2>2, <3>1, PostAnswerShape
      <3>3. Len(sent) = Len(t) + 1 /\ sent[1] = t[1] /\ sent[Len(sent)] = "404"
        <4>1. "404" \in Codes
          BY DEF Codes
        <4>2. \A n \in 1..2 : 1 \in 1..n /\ n + 1 \in Nat
          OBVIOUS
        <4> QED
          BY <3>1, <3>2, <4>1, <4>2, AppendProperties
      <3> QED
        BY <2>1, <2>5, <3>2, <3>3 DEF AnswersOnce, PostKinds
    <2>4. CASE job.kind \in GetKinds
      <3>1. Len(sent) = 1
        BY <2>4 DEF PortalInv, AnswerInv
      <3>2. job.kind \notin PostKinds /\ job.kind # "own if"
        BY <2>4 DEF PostKinds, GetKinds
      <3>3. Len(sent) = 1 + (IF job.kind \in PostKinds /\ job.len >= Scratch THEN 1 ELSE 0)
                          + (IF job.kind = "own if" THEN 1 ELSE 0)
        <4>1. 1 = 1 + 0 + 0
          OBVIOUS
        <4> QED
          BY <3>1, <3>2, <4>1, Zenon
      <3> QED
        BY <3>2, <3>3, Zenon DEF AnswersOnce
    <2> QED
      BY <2>1, <2>3, <2>4, <2>5
  <1> QED
    BY <1>1, PortalInductive, PTL

\* The hijack and the manager, when it stops it, close the socket of the hijack or
\* none, with the two exceptions of ClosesOwn.
THEOREM HijackClosesItsOwn == PortalSpec => ClosesOwn
  <1> DEFINE Own == DnsCloses =>
                      \A f \in Fds : fds[f] \in {"httpd", "other"} /\ fds'[f] = "free" =>
                          dpc \in {"shutdown", "socket", "store"}
  <1>1. PortalInv /\ [PortalNext]_portalVars => [Own]_portalVars
    <2> SUFFICES ASSUME PortalInv, PortalNext, DnsCloses, NEW f \in Fds,
                        fds[f] \in {"httpd", "other"}, fds'[f] = "free", dpc \in {"bind", "recv"}
                 PROVE  FALSE
      BY DEF PortalInv, DnsInv
    <2>1. fds[f] # "dns" /\ (f # socket_fd \/ (dns # "task" /\ at # "close"))
      BY DEF PortalInv, DnsInv
    <2>2. CASE at = "close" /\ todo' = Tail(todo)
      <3>1. todo \in Seq(CallNames) /\ Len(todo) >= 2 /\ todo[2] = "http_app_stop"
        BY <2>2 DEF PortalInv, BaseInv, Remaining, Calling
      <3>2. Len(todo') # Len(todo) /\ todo'[1] = "http_app_stop"
        BY <2>2, <3>1
      <3>3. todo' # todo /\ todo # << >> /\ Head(todo) = "stop_dns_server"
        BY <2>2, <3>1, <3>2 DEF PortalInv, BaseInv, Calling
      <3>4. ~Restart
        BY <3>2 DEF Restart, BaseRestart
      <3>5. ~Take
        BY <3>3 DEF Take
      <3>6. ~HttpManager
        BY <2>2, <3>3 DEF HttpManager, StopNothing, FreeContext, FreeUrls, HttpdStop,
                         StartNothing, HttpdStart, Register, Calling
      <3>7. ~StartDns /\ ~DeleteDns
        BY <2>2, <3>3 DEF StartDns, DeleteDns, Calling
      <3>8. ~Arrives /\ ~Handler
        BY <3>3, Zenon DEF Arrives, Handler, PostTooLong, PostBegins, PostPart, PostBroken,
                    PostTerminated, PostSaved, PostNotFound, Get, HandlerSends, Leaves, baseVars
      <3>9. ~DnsTask /\ ~Around
        BY <3>3, Zenon DEF DnsTask, MakeSocket, NoSocket, Store, Bind, Answer, RecvError,
                    Shutdown, Task, Around, Others, Fill
      <3>10. CloseDns
        BY <3>4, <3>5, <3>6, <3>7, <3>8, <3>9, Zenon DEF PortalNext, Manager, DnsManager
      <3> QED
        BY <2>1, <2>2, <3>10 DEF CloseDns, Closed, PortalInv, BaseInv
    <2>3. CASE dns = "task" /\ dns' = "task" /\ dpc' # dpc
      <3>1. DnsTask
        BY <2>3 DEF PortalNext, Manager, DnsManager, StartDns, MayStart, DeleteDns, CloseDns,
                    Restart, DnsRestart, dnsVars
      <3>2. Bind \/ Answer \/ RecvError
        BY <3>1 DEF DnsTask, MakeSocket, NoSocket, Store, Shutdown, Task
      <3> QED
        BY <2>1, <2>3, <3>2 DEF Bind, Answer, RecvError, Closed, PortalInv, BaseInv
    <2> QED
      BY <2>2, <2>3 DEF DnsCloses
  <1> QED
    BY <1>1, PortalInductive, PTL DEF PortalSpec, ClosesOwn

----------------------------------------------------------------------------
(***************************************************************************)
(* The sockets that deleted hijacks leave.                                 *)
(***************************************************************************)
\* Every socket of a hijack is that of its task, which has it in new or in socket_fd,
\* is about to be closed by the manager, or was left by a task deleted too early.
OrphanInv ==
    \A f \in Fds : fds[f] = "dns" =>
        \/ f \in orphans
        \/ dns = "task" /\ dpc = "store" /\ f = new
        \/ /\ f = socket_fd /\ dpc \in {"bind", "recv", "shutdown"}
           /\ dns = "task" \/ at = "close"

\* What is remembered of the step: the sockets left earlier, and that of a task
\* deleted in it.
Remembered ==
    \A f \in Fds : fds'[f] = "dns" =>
        /\ f \in orphans => f \in orphans'
        /\ dns = "task" /\ dns' = "none" /\ dpc = "store" /\ f = new => f \in orphans'

LEMMA StepRemembers == MCNext => Remembered
  <1> SUFFICES ASSUME MCNext PROVE Remembered
    OBVIOUS
  <1>1. orphans' = {f \in orphans \cup IF dns = "task" /\ dns' = "none" /\ dpc = "store"
                                       THEN {new} ELSE {} : fds'[f] = "dns"}
    BY DEF MCNext
  <1> QED
    BY <1>1 DEF Remembered

\* The model checker's step is a step of the portal.
LEMMA StepOfPortal == [MCNext]_mcVars => [PortalNext]_portalVars
  <1>1. MCNext => PortalNext
    BY Zenon DEF MCNext, PortalNext, Around
  <1> QED
    BY <1>1, Zenon DEF mcVars

LEMMA ManagerOrphans ==
  ASSUME BaseInv, DnsInv, OrphanInv, Remembered, DnsManager
  PROVE  OrphanInv'
  <1> USE DEF Returns
  <1>1. CASE StartDns
    BY <1>1, CallPlace DEF StartDns, MayStart, DnsInv, OrphanInv, Remembered
  <1>2. CASE DeleteDns
    BY <1>2 DEF DeleteDns, DnsInv, OrphanInv, Remembered
  <1>3. CASE CloseDns
    <2>1. dns = "none" /\ dns' = "none" /\ \A f \in Fds : fds'[f] = "dns" =>
                                            fds[f] = "dns" /\ f # socket_fd
      BY <1>3 DEF CloseDns, Closed, DnsInv
    <2> QED
      BY <2>1 DEF OrphanInv, Remembered
  <1> QED
    BY <1>1, <1>2, <1>3 DEF DnsManager

LEMMA TaskOrphans ==
  ASSUME BaseInv, DnsInv, OrphanInv, Remembered, DnsTask
  PROVE  OrphanInv'
  <1> USE DEF Task
  <1>1. CASE MakeSocket
    <2>1. /\ NewFd \in Fds /\ fds' = [fds EXCEPT ![NewFd] = "dns"] /\ new' = NewFd
          /\ dns = "task" /\ dns' = "task" /\ dpc = "socket" /\ dpc' = "store"
      BY <1>1, NewFdIsFree DEF MakeSocket
    <2>2. \A f \in Fds : fds'[f] = "dns" => f = NewFd \/ fds[f] = "dns"
      BY <2>1 DEF BaseInv
    <2> QED
      BY <2>1, <2>2 DEF OrphanInv, Remembered
  <1>2. CASE NoSocket
    BY <1>2 DEF NoSocket, OrphanInv, Remembered
  <1>3. CASE Store
    BY <1>3 DEF Store, OrphanInv, Remembered
  <1>4. CASE Bind
    BY <1>4 DEF Bind, OrphanInv, Remembered
  <1>5. CASE Answer
    BY <1>5 DEF Answer, OrphanInv, Remembered
  <1>6. CASE RecvError
    BY <1>6 DEF RecvError, Closed, OrphanInv, Remembered
  <1>7. CASE Shutdown
    BY <1>7 DEF Shutdown, Closed, OrphanInv, Remembered
  <1> QED
    BY <1>1, <1>2, <1>3, <1>4, <1>5, <1>6, <1>7 DEF DnsTask

\* The other steps change neither the hijack nor its sockets; a restart closes all.
LEMMA OtherOrphans ==
  ASSUME BaseInv, OrphanInv, Remembered, UNCHANGED dnsVars,
         HttpManager \/ Take \/ Arrives \/ Handler \/ Around
  PROVE  OrphanInv'
  BY HijackKept DEF dnsVars, OrphanInv, Remembered

LEMMA RestartOrphans == Restart => OrphanInv'
  BY DEF Restart, BaseRestart, OrphanInv

LEMMA NextOrphans == PortalInv /\ OrphanInv /\ [MCNext]_mcVars => OrphanInv'
  <1> SUFFICES ASSUME PortalInv, OrphanInv, [MCNext]_mcVars PROVE OrphanInv'
    OBVIOUS
  <1>1. CASE UNCHANGED mcVars
    BY <1>1 DEF mcVars, portalVars, baseVars, dnsVars, OrphanInv
  <1>2. CASE MCNext
    <2>1. BaseInv /\ DnsInv /\ Remembered
      BY <1>2, StepRemembers DEF PortalInv
    <2>2. \/ UNCHANGED dnsVars /\ (HttpManager \/ Take \/ Arrives \/ Handler \/ Around)
          \/ DnsManager \/ DnsTask \/ Restart
      BY <1>2, Zenon DEF MCNext, Manager, Around
    <2> QED
      BY <2>1, <2>2, ManagerOrphans, TaskOrphans, OtherOrphans, RestartOrphans
  <1> QED
    BY <1>1, <1>2

\* A stopped hijack has left no socket but those of tasks deleted between socket()
\* and the store to socket_fd.
THEOREM SocketsLeftAreKnown == MCSpec => []NoSocketLeft
  <1>1. MCInit => PortalInv /\ OrphanInv
    BY InitPortal DEF MCInit, PortalInit, BaseInit, OrphanInv
  <1>2. PortalInv /\ OrphanInv /\ [MCNext]_mcVars => (PortalInv /\ OrphanInv)'
    BY NextPortal, NextOrphans, StepOfPortal, Zenon
  <1>3. PortalInv /\ OrphanInv => NoSocketLeft
    BY DEF PortalInv, BaseInv, OrphanInv, NoSocketLeft, AtRest, Calling
  <1> QED
    BY <1>1, <1>2, <1>3, PTL DEF MCSpec
=============================================================================
