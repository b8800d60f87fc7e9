----------------------------- MODULE MCPortal -----------------------------
(***************************************************************************)
(* Portal for TLC.  A behaviour is busy with requests, while the sockets   *)
(* and the task of the hijack rest, or with sockets, while the only        *)
(* requests are for the list.  A history variable remembers the sockets of *)
(* tasks that were deleted between socket() and the store to socket_fd.    *)
(***************************************************************************)
EXTENDS Portal

VARIABLES busy, orphans

mcVars == <<portalVars, busy, orphans>>

MCInit == PortalInit /\ orphans = {} /\ busy \in {"requests", "sockets"}

MCNext == /\ \/ Manager
             \/ Take /\ UNCHANGED <<httpVars, dnsVars>>
             \/ Arrives /\ UNCHANGED dnsVars
                /\ (busy = "sockets" => job'.kind = "ap.json")
             \/ Handler /\ UNCHANGED dnsVars
             \/ busy = "sockets" /\ DnsTask /\ UNCHANGED httpVars
             \/ Fill /\ UNCHANGED <<httpVars, dnsVars>>
             \/ busy = "sockets" /\ Others /\ UNCHANGED <<httpVars, dnsVars>>
             \/ Restart
          /\ orphans' = {f \in orphans \cup
                            IF dns = "task" /\ dns' = "none" /\ dpc = "store"
                            THEN {new} ELSE {} : fds'[f] = "dns"}
          /\ UNCHANGED busy

MCSpec == MCInit /\ [][MCNext]_mcVars
MCFairSpec == MCSpec /\ HttpFairness /\ WF_portalVars(busy = "sockets" /\ DnsGoesOn)

\* A stopped hijack has left no socket behind but those of tasks deleted before
\* they could store their number: no one will ever close these
\* (dns_server.c:176, 242).
NoSocketLeft ==
    AtRest /\ dns # "task" => {f \in Fds : fds[f] = "dns"} \subseteq orphans

\* Once its task runs the hijack has the port and waits for queries, unless it
\* is stopped or there is no socket for it, after which its handle stays and no
\* call of start_dns_server brings it back (dns_server.c:177, 235).
HijackComesUp ==
    busy = "sockets" /\ dns = "task" ~>
        \/ dns # "task"
        \/ dpc = "recv" /\ bound = socket_fd /\ fds[socket_fd] = "dns"
=============================================================================
