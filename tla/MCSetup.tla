------------------------------- MODULE MCSetup -------------------------------
(***************************************************************************)
(* Setup with history variables for the exceptions that its properties     *)
(* name.                                                                   *)
(***************************************************************************)
EXTENDS Setup

CONSTANT MaxLosses  \* bound on the losses in a run

VARIABLES
    losses,         \* how many there have been
    overlapped,     \* a setup was finished while an earlier one was under way
    raced,          \* a file was written while the last load ran
    failed,         \* a request, an answer or a write was lost, or the power
    final           \* the setups whose failure the page has shown, other than by a
                    \* timer that went off before the last answer

history == <<overlapped, raced, failed, final>>
mcVars == <<vars, history>>

\* An earlier setup has files to read or a promise that is not settled, or the
\* load it asked for is ordered or running.
UnderWay == \/ reading # {} \/ waiting # {}
            \/ result # "none" /\ (orders > 0 \/ rd > 0)

Writes == OpenFile \/ WriteFile
Loses == \/ \E r \in sent : Lost(r) \/ (HandleConnect(r) /\ waiting' = waiting)
         \/ Writes /\ files' = files
Fails == Loses \/ (Loader /\ sent' # sent) \/ PowerCut

Answered(s) == \A f \in Files : <<s, f>> \notin waiting
ShowsFailure(s) == GivesUp(<<s, Connect>>) \/ (Timeout(s) /\ Answered(s))

MCInit == Init /\ overlapped = FALSE /\ raced = FALSE /\ failed = FALSE /\ final = {}
MCNext ==
    /\ Next
    /\ overlapped' = (overlapped \/ (setup' # setup /\ UnderWay))
    /\ raced' = (~LoadStarts /\ (raced \/ (rd > 0 /\ Writes)))
    /\ failed' = (failed \/ Fails)
    /\ final' = final \cup {s \in 1..Setups : ShowsFailure(s)}
MCSpec == MCInit /\ [][MCNext]_mcVars

\* The same with a bound on how many requests, answers of /connect and writes are lost,
\* besides those that go down with the device.
BoundedInit == MCInit /\ losses = 0
BoundedNext ==
    /\ MCNext
    /\ losses' = losses + (IF Loses THEN 1 ELSE 0)
    /\ losses' <= MaxLosses
BoundedSpec == BoundedInit /\ [][BoundedNext]_<<mcVars, losses>>

----------------------------------------------------------------------------
\* wifi_manager_remove_config on an incomplete file protects the next load: the
\* manager goes to station mode only with a part from every file but the last,
\* unless a file was written behind the one that it removed while the load went
\* on.  That takes setups that overlap: the page offers the button again as soon as
\* /connect is answered or its timer has gone off, and nothing makes the files of
\* one wait for the load of the other.
HasHole == \E f \in Files \ {NFiles} : conf[f] = NoConf
NoHole == /\ SetupTypeOK
          /\ result = "sta" /\ rd = 0 /\ HasHole => raced
          /\ raced => overlapped

\* A load that succeeds has found "a previously saved config" (storage.h:164):
\* every part of it comes from one and the same setup, as long as setups do not
\* overlap and nothing was lost.
LoadedAsSaved ==
    result = "sta" /\ rd = 0 /\ ~overlapped /\ ~failed =>
        \E s \in 0..Setups : \A f \in Files : conf[f] = s

\* A failure that the page has shown is the last word about its setup: the page has
\* no request of it out any more and sends none.  The exception is the timer of 5 s
\* (code.js:349): when it goes off before the last post is answered, the failure is
\* shown, the posts go on, and the last answer still makes the device connect.
FailureStands ==
    \A s \in final : \A f \in 0..NFiles : <<s, f>> \notin waiting \cup sent
=============================================================================
