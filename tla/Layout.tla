------------------------------- MODULE Layout -------------------------------
(***************************************************************************)
(* Where the parts of a text or a packet are, one laid behind the other.   *)
(***************************************************************************)
EXTENDS Integers, Sequences

\* How much lies before each part, given their sizes, and before what follows the
\* last.
Before(sizes) ==
    LET before[k \in 1..(Len(sizes) + 1)] ==
            IF k = 1 THEN 0 ELSE before[k - 1] + sizes[k - 1]
    IN  before
=============================================================================
