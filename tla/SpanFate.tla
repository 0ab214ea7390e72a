------------------------------ MODULE SpanFate ------------------------------
(***************************************************************************)
(* What the OpenTelemetry pipeline promises for the span of one call: it    *)
(* is recorded, then either buffered or given up, and what was buffered is *)
(* delivered or given up.  Nothing is delivered twice and nothing that was *)
(* delivered or given up comes back.                                       *)
(***************************************************************************)
CONSTANT Calls

VARIABLE fate

FateTypeOK == fate \in [Calls -> {"idle", "recording", "buffered", "delivered", "lost"}]

FateInit == fate = [c \in Calls |-> "idle"]

\* The spans of batch leave one stage for the next together.
Move(batch, from, to) ==
    /\ \A c \in batch : fate[c] = from
    /\ fate' = [c \in Calls |-> IF c \in batch THEN to ELSE fate[c]]

FateNext == \E batch \in SUBSET Calls :
    \/ Move(batch, "idle", "recording")
    \/ Move(batch, "recording", "buffered")
    \/ Move(batch, "recording", "lost")
    \/ Move(batch, "buffered", "delivered")
    \/ Move(batch, "buffered", "lost")

FateSpec == FateInit /\ [][FateNext]_fate
=============================================================================
