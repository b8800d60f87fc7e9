------------------------------- MODULE Budget -------------------------------
(***************************************************************************)
(* How often the clients of the portal and the other tasks act: the bound  *)
(* that the MC modules put on the requests and orders from outside.        *)
(***************************************************************************)
EXTENDS Naturals

CONSTANT MaxAsked   \* how many requests and orders the outside issues

VARIABLE asked      \* how many it has issued

Asked == asked < MaxAsked /\ asked' = asked + 1
=============================================================================
