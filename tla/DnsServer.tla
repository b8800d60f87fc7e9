----------------------------- MODULE DnsServer -----------------------------
(***************************************************************************)
(* The task of the DNS hijack (dns_server.c:159-247): its socket, whose    *)
(* number is in the global socket_fd, and the manager task, which deletes  *)
(* it wherever it is and closes the socket by that number.  The replies    *)
(* are in DnsReply.                                                        *)
(***************************************************************************)
EXTENDS PortalBase

VARIABLES
    dns,        \* task_dns_server: "none", the "task", or "gone" when the
                \* task has deleted itself and the handle is kept
    dpc,        \* where the task is, or was when it was deleted
    new,        \* the socket it has made and not stored yet
    socket_fd,  \* 0 before the first socket, -1 when there was none
    bound       \* the socket that has the port, 0 if none

dnsVars == <<dns, dpc, new, socket_fd, bound>>

DnsInit == /\ dns = "none" /\ dpc = "socket" /\ new = 0
           /\ socket_fd = 0 /\ bound = 0

DnsRestart == /\ dns' = "none" /\ dpc' = "socket" /\ new' = 0
              /\ socket_fd' = 0 /\ bound' = 0

\* Mutated form of MayStart: the handle is not looked at.
MayStartAlways(handle) == TRUE

MayStart(handle) == handle = "none"

StartDns == /\ Calling("start_dns_server")
            /\ \/ /\ MayStart(dns)
                  /\ dns' = "task" /\ dpc' = "socket" /\ new' = 0
               \/ /\ ~MayStart(dns)
                  /\ UNCHANGED <<dns, dpc, new>>
            /\ Returns
            /\ UNCHANGED <<socket_fd, bound, fds, full>>

\* vTaskDelete, at whatever point the task is.
DeleteDns == /\ Calling("stop_dns_server") /\ at = "call"
             /\ \/ dns # "none" /\ dns' = "none" /\ at' = "close" /\ todo' = todo
                \/ dns = "none" /\ dns' = dns /\ Returns
             /\ UNCHANGED <<dpc, new, socket_fd, bound, fds, full>>

\* The handle is that of a task that has ended (dns_server.c:231): what vTaskDelete
\* does to its freed memory is undefined.  It may do nothing, as above, or raise an
\* exception.
DeletesFreed == Calling("stop_dns_server") /\ at = "call" /\ dns = "gone"

Unbound(f) == IF bound = f THEN 0 ELSE bound

CloseDns == /\ Calling("stop_dns_server") /\ at = "close"
            /\ fds' = Closed(socket_fd) /\ bound' = Unbound(socket_fd)
            /\ Returns
            /\ UNCHANGED <<dns, dpc, new, socket_fd, full>>

Task(pc) == /\ dns = "task" /\ dpc = pc
            /\ UNCHANGED <<todo, at, full>>

MakeSocket == /\ Task("socket") /\ FreeFds # {}
              /\ fds' = [fds EXCEPT ![NewFd] = "dns"] /\ new' = NewFd
              /\ dpc' = "store"
              /\ UNCHANGED <<dns, socket_fd, bound>>

\* The loop is left, the handle is not cleared.
NoSocket == /\ Task("socket") /\ FreeFds = {}
            /\ socket_fd' = -1 /\ dns' = "gone"
            /\ UNCHANGED <<dpc, new, fds, bound>>

Store == /\ Task("store")
         /\ socket_fd' = new /\ new' = 0
         /\ dpc' = "bind"
         /\ UNCHANGED <<dns, fds, bound>>

\* A socket without the port goes on to recvfrom all the same.
Bind == /\ Task("bind")
        /\ bound' = IF bound = 0 THEN socket_fd ELSE bound
        /\ dpc' = "recv"
        /\ UNCHANGED <<dns, new, socket_fd, fds>>

\* A query is answered and the task waits for the next; or the answer could not
\* be sent.
Answer == /\ Task("recv") /\ bound = socket_fd
          /\ dpc' \in {"recv", "shutdown"}
          /\ UNCHANGED <<dns, new, socket_fd, bound, fds>>

\* recvfrom failed: the socket is closed here, and once more behind the loop.
RecvError == /\ Task("recv")
             /\ fds' = Closed(socket_fd) /\ bound' = Unbound(socket_fd)
             /\ dpc' = "shutdown"
             /\ UNCHANGED <<dns, new, socket_fd>>

\* Mutated form of NextLoop: the closed socket is read again.
SameSocket == "recv"

NextLoop == "socket"

Shutdown == /\ Task("shutdown")
            /\ fds' = Closed(socket_fd) /\ bound' = Unbound(socket_fd)
            /\ dpc' = NextLoop
            /\ UNCHANGED <<dns, new, socket_fd>>

DnsManager == StartDns \/ DeleteDns \/ CloseDns

DnsTask == \/ MakeSocket \/ NoSocket \/ Store \/ Bind \/ Answer \/ RecvError
           \/ Shutdown
=============================================================================
