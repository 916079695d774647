----------------------------- MODULE ShardFiles ------------------------------
(***************************************************************************)
(* The shards of a run directory as sensetrace.storage reads them.  A      *)
(* payload shard-<idx>.npz holds the samples first..last; epoch tells      *)
(* which process wrote it and ok whether its bytes are still the ones that *)
(* were written.  Its sidecar shard-<idx>.json repeats the range and       *)
(* carries the checksum, so it vouches for one payload only: the one with  *)
(* the same idx, range and epoch.                                          *)
(***************************************************************************)
EXTENDS Naturals, FiniteSets

Sidecars == [idx : Nat, first : Nat, last : Nat, epoch : Nat]

Payloads == [idx : Nat, first : Nat, last : Nat, epoch : Nat, ok : BOOLEAN]

SidecarOf(p) == [idx |-> p.idx, first |-> p.first, last |-> p.last, epoch |-> p.epoch]

Span(p) == p.first .. p.last

\* validate_shard: the sidecar exists, and its checksum and row count are
\* those of the payload.
ValidShard(p, sidecars) == p.ok /\ SidecarOf(p) \in sidecars

ValidShards(payloads, sidecars) == {p \in payloads : ValidShard(p, sidecars)}

\* Mutant: the missing sidecar goes unnoticed.
InvalidOnlyIfDamaged(payloads, sidecars) == {p \in payloads : ~p.ok}

InvalidShards(payloads, sidecars) == {p \in payloads : ~ValidShard(p, sidecars)}

SamplesIn(shards) == UNION {Span(p) : p \in shards}

\* The range check of validate_all_shards: in file order, every shard begins
\* after the one before it has ended.
InOrder(shards) == \A p, q \in shards : p.idx < q.idx => p.last < q.first

\* Mutant: as many samples as the shards hold.
ResumesAtCount(n, shards) == n = Cardinality(SamplesIn(shards))

\* _resume_index and _preview_resume_index: one more than the last sample of
\* the last shard in file order.
IsResumeIndex(n, shards) ==
    \/ shards = {} /\ n = 0
    \/ \E p \in shards : n = p.last + 1 /\ \A q \in shards : q.idx <= p.idx

\* Where TLC looks for the index.
ResumeIndices(shards) == {0} \cup UNION {0..(p.last + 1) : p \in shards}

\* ShardWriter._discover_next_shard: one more than the greatest index of a
\* payload, valid or not.
IsNextShard(n, payloads) ==
    \/ payloads = {} /\ n = 0
    \/ \E p \in payloads : n = p.idx + 1 /\ \A q \in payloads : q.idx <= p.idx

NextShards(payloads) == {0} \cup UNION {0..(p.idx + 1) : p \in payloads}

=============================================================================
