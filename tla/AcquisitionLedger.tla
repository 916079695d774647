-------------------------- MODULE AcquisitionLedger --------------------------
(***************************************************************************)
(* What a resumable acquisition promises, whatever the process behind it   *)
(* goes through: the durable samples are a prefix of the sample stream,    *)
(* the prefix only ever grows, one shard at a time, and a manifest is      *)
(* published only over the whole stream.                                   *)
(***************************************************************************)
EXTENDS Naturals

CONSTANTS
    Total,      \* number of samples the stream has
    MaxRows     \* the most samples one shard holds

VARIABLES
    kept,       \* the samples a reader of the run directory gets back
    published   \* TRUE when a readable manifest describes them

vars == <<kept, published>>

Prefix(n) == 0 .. (n - 1)

Init ==
    /\ kept = {}
    /\ published = FALSE

Extend ==
    /\ \E m \in 0..Total : \E n \in (m + 1)..Total :
        /\ n <= m + MaxRows
        /\ kept = Prefix(m)
        /\ kept' = Prefix(n)
    /\ UNCHANGED published

Publish ==
    /\ kept = Prefix(Total)
    /\ published' = TRUE
    /\ UNCHANGED kept

\* A later process that finds the run complete writes the manifest again and
\* may die while it does.
Retract ==
    /\ published
    /\ published' = FALSE
    /\ UNCHANGED kept

Next == Extend \/ Publish \/ Retract

Spec == Init /\ [][Next]_vars

=============================================================================
