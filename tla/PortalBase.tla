----------------------------- MODULE PortalBase -----------------------------
(***************************************************************************)
(* What the http server and the DNS hijack share: the sockets of lwip, and *)
(* the manager task, which starts and stops both with the calls it makes   *)
(* for WM_ORDER_START_AP, WM_ORDER_STOP_AP and WM_ORDER_HTTP_CLIENT_INIT.  *)
(* When these messages come is in WifiManager; here they come at any time. *)
(***************************************************************************)
EXTENDS Integers, SequencesExt

CONSTANT Sockets    \* how many sockets lwip has
ASSUME SocketsAssumption == Sockets \in Nat \ {0}

VARIABLES
    fds,    \* fds[f]: whose socket f is, "free" when it is nobody's
    todo,   \* the calls that the manager's handler has still to make
    at,     \* where the manager is inside the first of them
    full    \* wifi_manager_queue has no room

baseVars == <<fds, todo, at, full>>

Fds == 1..Sockets
FreeFds == {f \in Fds : fds[f] = "free"}

\* socket() takes the first that is free.
NewFd == CHOOSE f \in FreeFds : \A g \in FreeFds : f <= g

\* close() of a number that is no socket does nothing.
Closed(f) == [g \in Fds |-> IF g = f THEN "free" ELSE fds[g]]

Calls(order) ==
    CASE order = "START_AP" ->
            <<"http_app_stop", "http_app_start", "start_dns_server">>
      [] order = "STOP_AP" ->
            <<"stop_dns_server", "http_app_stop", "http_app_start">>
      [] order = "HTTP_CLIENT_INIT" -> <<"stop_dns_server", "http_app_stop">>
      [] OTHER -> << >>

BaseInit == /\ fds = [f \in Fds |-> "free"]
            /\ todo = <<"http_app_start">> /\ at = "call" /\ full = FALSE

BaseRestart == /\ fds' = [f \in Fds |-> "free"]
               /\ todo' = <<"http_app_start">> /\ at' = "call" /\ full' = FALSE

\* Calls(order) is what the manager does with the next message.
Take == /\ todo = << >>
        /\ \E order \in {"START_AP", "STOP_AP", "HTTP_CLIENT_INIT", "other"} :
              todo' = Calls(order)
        /\ full' = FALSE
        /\ UNCHANGED <<fds, at>>

\* Events, timers and orders of other tasks fill the queue.
Fill == ~full /\ full' = TRUE /\ UNCHANGED <<fds, todo, at>>

\* Another task, or the page, opens a socket or closes one of its own.
Others == /\ \/ FreeFds # {} /\ fds' = [fds EXCEPT ![NewFd] = "other"]
             \/ \E f \in Fds : fds[f] = "other" /\ fds' = Closed(f)
          /\ UNCHANGED <<todo, at, full>>

Calling(f) == todo # << >> /\ Head(todo) = f
Returns == todo' = Tail(todo) /\ at' = "call"
=============================================================================
