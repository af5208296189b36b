-------------------------- MODULE MCProjectionStore --------------------------
(***************************************************************************)
(* One subject and two callers for ProjectionStore. Rows of different      *)
(* subjects share nothing.                                                 *)
(***************************************************************************)
EXTENDS ProjectionStore, TLC

MCInstants == {0, 10, 12}
MCMicros == [t \in MCInstants |-> (t \div 10) * 10]
MCEventKeys == 0 .. 3
MCCollation == [k \in MCEventKeys |-> k]
MCSubjects == {"s1"}
MCBodies == {"active", "terminated"}

Tuple(seq, mod, rev, key) ==
    [source_sequence |-> seq, modification_time |-> mod, revision_number |-> rev,
     physical_event_key |-> key]
Proj(body, f) == [subject_id |-> "s1", body |-> body, freshness |-> f]

T1 == Proj("active", Tuple(1, 10, 0, 1))
\* Later than T1 by less than a microsecond, and newer for its revision
T2 == Proj("terminated", Tuple(1, 12, 1, 2))
T3 == Proj("active", Tuple(2, 10, 0, 1))
\* Newer than T3 for its key alone
T4 == Proj("terminated", Tuple(2, 10, 0, 3))

\* Enough for two writers to hold the same positive version and both be newer
FourTuples == {T1, T2, T3, T4}

CallerSymmetry == Permutations(Callers)
=============================================================================
