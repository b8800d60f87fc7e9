----------------------------- MODULE MCResponse -----------------------------
(***************************************************************************)
(* Response for TLC, with history variables for the exceptions that its    *)
(* properties name.  What a device with a damaged heap does, short of      *)
(* restarting, is not followed.                                            *)
(***************************************************************************)
EXTENDS Response, FiniteSets

VARIABLES
    mixed,      \* both performed at once, and what that left is still there
    reopened,   \* since an upgrade began the order task was at work
    cleared     \* the bit, by a "loss", an "upgrade", or one that got "no task"

history == <<mixed, reopened, cleared>>
mcVars == <<respVars, history>>

\* Nothing, two bytes, a chunked byte, and a byte that names a firmware file.
MCBodies == {[len |-> 0, chunked |-> FALSE, names |-> FALSE],
             [len |-> 2, chunked |-> FALSE, names |-> FALSE],
             [len |-> 1, chunked |-> TRUE,  names |-> FALSE],
             [len |-> 1, chunked |-> FALSE, names |-> TRUE]}

MCInit == RespInit /\ mixed = FALSE /\ reopened = FALSE /\ cleared = "loss"
Forgets == mixed' = FALSE /\ reopened' = FALSE /\ cleared' = "loss"

Running(us) == {u \in Slots : us[u] # Null}
Moves(from, to) == \E t \in Tasks : pc[t] = from /\ pc'[t] = to

Remembers ==
    /\ mixed' = \/ opc' # "receive" /\ pc'["send"] # "off"
                \/ /\ mixed
                   /\ \/ \E t \in Tasks : pc'[t] # "off"
                      \/ output_buffer' # Null \/ user_data' \/ damaged'
    /\ reopened' = /\ Running(upgrades') # {}
                   /\ reopened \/ pc'["order"] # "off" \/ (status' /\ ~status)
    /\ cleared' = IF status' THEN "loss"
                  ELSE CASE Moves("clear", "start") -> "upgrade"
                         [] Moves("start", "free") /\ Running(upgrades') = {} ->
                                "no task"
                         [] \E t \in Tasks : pc[t] # "drop" /\ pc'[t] = "drop" ->
                                "loss"
                         [] OTHER -> cleared

MCNext == \/ ~damaged /\ Step /\ Remembers
          \/ Restart /\ Forgets

MCSpec == MCInit /\ [][MCNext]_mcVars

\* The application gets the response to its request, all that came of it and
\* nothing else (http_client.c:250-295), but never a chunked one.  It gets
\* something else when both tasks performed at once, which share the buffer and
\* its length, or when there was no memory for the first part, which is then
\* left out in front.
ResponseWhole ==
    \A t \in Tasks : pc[t] = "after" /\ ~mixed /\ missed[t] = 0 =>
        LET received == [k \in 1..got[t] |-> <<t, k>>]
            whole    == got[t] = body[t].len /\ ~body[t].chunked
        IN  /\ told[t] \in {Null, received}
            /\ whole /\ ~body[t].names => told[t] = received

\* Nothing is written beyond the buffer, to where a buffer was, or freed twice
\* (http_client.c:256, 270, ota.c:62).  It is when both tasks performed at once,
\* and by the third response that names a firmware file.  All else stays in range.
DamageIsExplained == damaged => mixed \/ named >= 3
HeapSound == RespTypeOK /\ DamageIsExplained

\* The file an upgrade asks for is the one its response named, for the first
\* upgrade since the restart and for no other: the second response frees the
\* name without a new one (ota.c:61-68), also under an upgrade that is just
\* about to read it.
UpgradesNamed ==
    [][\A u \in Slots : (upgrades[u] # Null /\ UpgradeReads(u)) =>
          ((file.live /\ file.of = upgrades[u].of) <=> named = 1)]_mcVars

\* There is one upgrade at a time, for which the bit is cleared before it starts
\* (http_client.c:289).  There may be two when the order task has connected
\* meanwhile: it sets the bit, even behind a connect response that has ordered
\* an upgrade itself (http_client.c:449-452).
OneUpgradeAtATime == Cardinality(Running(upgrades)) = 2 => reopened

\* The bit that was cleared for an upgrade comes back: until then an upgrade is
\* running, which sets it when it fails, or is about to be started
\* (http_client.c:113, 289).  But an upgrade whose task could not be created
\* leaves it cleared.
StatusComesBack ==
    ~status /\ cleared = "upgrade" =>
        Running(upgrades) # {} \/ \E t \in Tasks : pc[t] = "start"
=============================================================================
