------------------------------- MODULE MCStudies -------------------------------
EXTENDS Studies

CONSTANTS s1, s2, s3, s4, s5, t1, r1, r2, r3

MCSessionSets == {{s1, s2}, {s1, s2, s3}, {s1, s2, s3, s4}, {s1, s2, s3, s4, s5}}
MCConfirmSessions == {t1}

\* One column per field, one entry per row: two locations over three blocks,
\* three sessions and three boots, the last of them without provenance in one
\* dataset; and pairs of three trajectories.
Located(boots) ==
    [virtual_location_id |-> <<1, 1, 2, 2, 3, 3, 1, 2>>,
     trial_pair_id |-> <<1, 1, 1, 2, 2, 2, 3, 3>>,
     acquisition_block |-> <<1, 1, 1, 2, 2, 2, 3, 4>>,
     session_id |-> <<1, 1, 2, 2, 3, 3, 3, 3>>,
     boot_id |-> boots,
     trajectory_id |-> <<1, 1, 2, 2, 2, 3, 3, 4>>]

MCMetadatas ==
    {Located(<<"b1", "b1", "b2", "b2", "b3", "b3", "b3", "b3">>),
     Located(<<"b1", "b1", "b2", "b2", "b3", "b3", "b3", NoBoot>>),
     [location_id |-> <<1, 2, 3>>, session_id |-> <<1, 1, 1>>]}

\* Two reports on the same splits and one on others.
MCSplitsOf == (r1 :> 1) @@ (r2 :> 1) @@ (r3 :> 2)

=============================================================================
