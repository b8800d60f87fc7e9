------------------------------ MODULE LinkFeed ------------------------------
(***************************************************************************)
(* What the manager promises about the station link: every change that is  *)
(* published in the event group reaches the address string, once, in the   *)
(* order in which the changes were published.                              *)
(***************************************************************************)
EXTENDS Sequences

VARIABLES
    published,  \* the last published state of the link
    feed,       \* the published states the address string does not show yet
    shown       \* what the address string shows

Init == published = FALSE /\ feed = << >> /\ shown = FALSE

Publish(up) == /\ published' = up
               /\ feed' = Append(feed, up)
               /\ UNCHANGED shown

Show == /\ feed # << >>
        /\ shown' = Head(feed)
        /\ feed' = Tail(feed)
        /\ UNCHANGED published

\* A restart of the device.
Reset == published' = FALSE /\ feed' = << >> /\ shown' = FALSE

Next == (\E up \in BOOLEAN : Publish(up)) \/ Show \/ Reset

Spec == Init /\ [][Next]_<<published, feed, shown>>
=============================================================================
