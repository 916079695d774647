-------------------------------- MODULE Splits --------------------------------
(***************************************************************************)
(* How rows become partitions: grouped_split, phase1a_split_hierarchy and  *)
(* its audit in splits.py, build_horizon_split of horizon.py, and the      *)
(* session splits of the latent-state and controlled-forecast analyses.    *)
(* A seed is the order its generator shuffles the groups into.             *)
(***************************************************************************)
EXTENDS Integers, SequencesExt

Parts == <<"train", "validation", "test">>

\* Metadata is a function from the fields a dataset has to their columns.
Rows(metadata) == DOMAIN metadata[CHOOSE field \in DOMAIN metadata : TRUE]
Key(metadata, keys, row) == [i \in DOMAIN keys |-> metadata[keys[i]][row]]
Groups(metadata, keys) == {Key(metadata, keys, row) : row \in Rows(metadata)}
Members(metadata, keys, group) == {row \in Rows(metadata) : Key(metadata, keys, row) = group}

Shuffles(set) == SetToSeqs(set)

NoPartition == [part \in Range(Parts) |-> {}]

\* Row targets in hundredths of a row, at least one row each.
Target(count, part) ==
    Max({100, count * [train |-> 70, validation |-> 15, test |-> 15][part]})

\* The partition furthest below its target; ties go to the earlier one.
Neediest(partition, count) ==
    LET Below(p, q) ==
            Cardinality(partition[p]) * Target(count, q) <=
            Cardinality(partition[q]) * Target(count, p)
        first == Min({i \in 1..3 : \A q \in Range(Parts) : Below(Parts[i], q)})
    IN  Parts[first]

AddGroup(metadata, keys, partition, group) ==
    [partition EXCEPT ![Neediest(partition, Cardinality(Rows(metadata)))] =
        @ \cup Members(metadata, keys, group)]

\* Whole groups are dealt out in the shuffled order.
GroupedSplit(metadata, keys, order) ==
    FoldLeft(LAMBDA partition, group : AddGroup(metadata, keys, partition, group),
             NoPartition, order)

Separable(metadata, keys) == Cardinality(Groups(metadata, keys)) >= 3
Populated(partition) == \A part \in Range(Parts) : partition[part] # {}

\* partition_indices: every row in exactly one partition.
CoversOnce(partition, rows) ==
    /\ UNION Range(partition) = rows
    /\ \A p, q \in Range(Parts) : p # q => partition[p] \cap partition[q] = {}

\* validate_phase1a_split_hierarchy and validate_horizon_alignment: no group crosses.
GroupsApart(metadata, keys, partition) ==
    \A p, q \in Range(Parts) : p # q =>
        {Key(metadata, keys, row) : row \in partition[p]} \cap
        {Key(metadata, keys, row) : row \in partition[q]} = {}

----------------------------------------------------------------------------

\* The hierarchy of Phase 1A, from the weakest claim to the strongest.
Hierarchy ==
    [A_repeated_trial_holdout |-> <<"virtual_location_id", "trial_pair_id">>,
     B_unseen_location |-> <<"virtual_location_id">>,
     C_unseen_acquisition_block |-> <<"acquisition_block">>,
     D_unseen_acquisition_session |-> <<"acquisition_session_id">>,
     E_unseen_boot |-> <<"boot_id">>]

Levels == DOMAIN Hierarchy

Alias(field) ==
    CASE field = "virtual_location_id" -> "location_id"
      [] field = "acquisition_session_id" -> "session_id"
      [] OTHER -> field

Resolved(metadata, keys) ==
    [i \in DOMAIN keys |-> IF keys[i] \in DOMAIN metadata THEN keys[i] ELSE Alias(keys[i])]

\* boot_provenance_audit: values that name no boot, such as "unknown".
NoBoot == "unknown"
InvalidBoots(metadata) == {row \in Rows(metadata) : metadata["boot_id"][row] = NoBoot}

BootsUsable(metadata) ==
    /\ "boot_id" \in DOMAIN metadata
    /\ InvalidBoots(metadata) = {}
    /\ Separable(metadata, <<"boot_id">>)

\* Whether a level can be materialised; the one of boots looks at provenance first.
Available(metadata, level) ==
    LET keys == Resolved(metadata, Hierarchy[level])
    IN  /\ level = "E_unseen_boot" => BootsUsable(metadata)
        /\ Range(keys) \subseteq DOMAIN metadata
        /\ Separable(metadata, keys)

----------------------------------------------------------------------------

\* The shuffled sessions cut at two places.
CutAt(order, train, validation) ==
    [train |-> Range(SubSeq(order, 1, train)),
     validation |-> Range(SubSeq(order, train + 1, train + validation)),
     test |-> Range(SubSeq(order, train + validation + 1, Len(order)))]

\* latent_system_state.py: 60 and 20 hundredths of the sessions, rounded down.
LatentSplit(order) ==
    LET n == Len(order)
        train == Max({1, (60 * n) \div 100})
        share == Max({1, (20 * n) \div 100})
    IN  CutAt(order, train, IF train + share >= n THEN Max({1, n - train - 1}) ELSE share)

\* controlled_forecast.py: 70 and 15 hundredths, rounded to the nearest.
ForecastSplit(order) ==
    LET n == Len(order)
        train == Max({1, (70 * n + 50) \div 100})
        share == Max({1, (15 * n + 50) \div 100})
    IN  IF train + share >= n THEN CutAt(order, n - 2, 1) ELSE CutAt(order, train, share)

=============================================================================
