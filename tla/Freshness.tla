------------------------------ MODULE Freshness ------------------------------
(***************************************************************************)
(* The freshness tuple that orders revisions of one logical fact, as Go    *)
(* compares it (pkg/reconcile/model.go) and as the two SQL statements of   *)
(* pkg/store/postgres/postgres.go compare it.                              *)
(*                                                                         *)
(* An instant is an integer number of nanoseconds, 0 being Go's zero time. *)
(* An event key is the rank of its bytes: Go orders keys by those bytes,   *)
(* so by <, and rank 0 is the empty string.                                *)
(*                                                                         *)
(* PostgreSQL sees a tuple through two conversions that are not in this    *)
(* repository: TIMESTAMPTZ has microsecond resolution (Micros), and TEXT   *)
(* is ordered by the collation of the database (Collation).                *)
(***************************************************************************)
EXTENDS Integers

CONSTANTS
    EventKeys,  \* the ranks of the event keys in use
    Instants,   \* the instants in use
    Micros,     \* the instant a TIMESTAMPTZ column holds for a Go time
    Collation   \* the position of an event key in the database's collation

\* A timestamp conversion never reorders two instants, and what a column holds
\* is not changed by storing it again.
ASSUME MicrosAssumption ==
    /\ Instants \subseteq Int
    /\ Micros \in [Instants -> Instants]
    /\ \A s, t \in Instants : s <= t => Micros[s] <= Micros[t]
    /\ \A t \in Instants : Micros[Micros[t]] = Micros[t]

\* PostgreSQL's deterministic collations are total orders: only keys with the
\* same bytes are equal.
ASSUME CollationAssumption ==
    /\ EventKeys \subseteq Nat
    /\ Collation \in [EventKeys -> Nat]
    /\ \A j, k \in EventKeys : Collation[j] = Collation[k] => j = k

\* FreshnessTuple
FreshnessTuple ==
    [source_sequence : Nat, modification_time : Instants,
     revision_number : Nat, physical_event_key : EventKeys]

\* strings.Compare and time.Time.Compare on ranks
Sign(l, r) == IF l < r THEN -1 ELSE IF l > r THEN 1 ELSE 0

\* FreshnessTuple.Compare: -1, 0 or 1
Compare(f, g) ==
    IF f.source_sequence # g.source_sequence
    THEN Sign(f.source_sequence, g.source_sequence)
    ELSE IF f.modification_time # g.modification_time
    THEN Sign(f.modification_time, g.modification_time)
    ELSE IF f.revision_number # g.revision_number
    THEN Sign(f.revision_number, g.revision_number)
    ELSE Sign(f.physical_event_key, g.physical_event_key)

-----------------------------------------------------------------------------
(* The same tuple in a row of canonical_facts or canonical_state.          *)

\* The columns a tuple is written to, or compared as a parameter of.
TupleColumns(f) == [f EXCEPT !.modification_time = Micros[@]]

\* event_key < event_key on TEXT columns
CollatesBefore(j, k) == Collation[j] < Collation[k]

\* Mutant of StoredOlder: the last column of the tuple is left out.
StoredOlderWithoutKey(stored, excluded) ==
    \/ stored.source_sequence < excluded.source_sequence
    \/ /\ stored.source_sequence = excluded.source_sequence
       /\ stored.modification_time < excluded.modification_time
    \/ /\ stored.source_sequence = excluded.source_sequence
       /\ stored.modification_time = excluded.modification_time
       /\ stored.revision_number < excluded.revision_number

\* The WHERE clause of upsertCanonicalFactSQL and compareAndSetProjectionSQL:
\* the stored tuple is older than the incoming (EXCLUDED) one.
StoredOlder(stored, excluded) ==
    \/ stored.source_sequence < excluded.source_sequence
    \/ /\ stored.source_sequence = excluded.source_sequence
       /\ stored.modification_time < excluded.modification_time
    \/ /\ stored.source_sequence = excluded.source_sequence
       /\ stored.modification_time = excluded.modification_time
       /\ stored.revision_number < excluded.revision_number
    \/ /\ stored.source_sequence = excluded.source_sequence
       /\ stored.modification_time = excluded.modification_time
       /\ stored.revision_number = excluded.revision_number
       /\ CollatesBefore(stored.physical_event_key, excluded.physical_event_key)

\* The row comparison (a, b, c, d) < ($9, $10, $11, $12) of updateProjectionSQL:
\* the first pair of unequal columns decides.
RowLess(row, params) ==
    IF row.source_sequence # params.source_sequence
    THEN row.source_sequence < params.source_sequence
    ELSE IF row.modification_time # params.modification_time
    THEN row.modification_time < params.modification_time
    ELSE IF row.revision_number # params.revision_number
    THEN row.revision_number < params.revision_number
    ELSE CollatesBefore(row.physical_event_key, params.physical_event_key)

-----------------------------------------------------------------------------
\* When the database orders what it stores as Go does: every instant in use has
\* microsecond resolution and the collation orders keys by their bytes ("C").
DatabaseOrdersAsGo ==
    /\ \A t \in Instants : Micros[t] = t
    /\ \A j, k \in EventKeys : j < k => Collation[j] < Collation[k]
=============================================================================
