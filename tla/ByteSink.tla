------------------------------ MODULE ByteSink ------------------------------
(***************************************************************************)
(* What the two-buffer writers of backimage promise to the code that       *)
(* writes into them: bytes reach the other side in the order they were     *)
(* written, none twice and none left out, and the end of the stream is     *)
(* confirmed only when every accepted byte is there.  A byte is its        *)
(* position in the stream, so a byte at the wrong place is a wrong byte.   *)
(***************************************************************************)
EXTENDS Naturals, Sequences

VARIABLES accepted,   \* how many bytes the writer has taken
          delivered,  \* the bytes on the other side, in order of arrival
          phase       \* "open", "done" (end confirmed) or "failed"

sinkVars == <<accepted, delivered, phase>>

Init ==
    /\ accepted = 0
    /\ delivered = <<>>
    /\ phase = "open"

Accept ==
    /\ phase = "open"
    /\ accepted' \in Nat
    /\ accepted' > accepted
    /\ UNCHANGED <<delivered, phase>>

\* What was accepted before a failure may still arrive after it.
Deliver ==
    /\ phase # "done"
    /\ Len(delivered) < accepted
    /\ delivered' = Append(delivered, Len(delivered) + 1)
    /\ UNCHANGED <<accepted, phase>>

Finish ==
    /\ phase = "open"
    /\ Len(delivered) = accepted
    /\ phase' = "done"
    /\ UNCHANGED <<accepted, delivered>>

Fail ==
    /\ phase = "open"
    /\ phase' = "failed"
    /\ UNCHANGED <<accepted, delivered>>

Next == Accept \/ Deliver \/ Finish \/ Fail

Spec == Init /\ [][Next]_sinkVars
=============================================================================
