--------------------------- MODULE ProjectionStore ---------------------------
(***************************************************************************)
(* The table canonical_state of schema/postgres.sql and the calls on it    *)
(* (pkg/store/postgres/postgres.go): LoadProjection,                       *)
(* CompareAndSetProjection and WithLockedProjection.                       *)
(*                                                                         *)
(* Writers load the row of a subject, compute a projection from what they  *)
(* know and try to compare-and-set it; other callers hold the row lock     *)
(* while a callback talks to a target. A statement is one atomic step that *)
(* waits for the row lock. Answers may be lost, the connection of a locked *)
(* transaction may break while its callback still runs, and an operator    *)
(* may remove a row, the case updateProjectionSQL is written for.          *)
(***************************************************************************)
EXTENDS Freshness, FiniteSets

CONSTANTS
    Callers,      \* concurrent callers of the store
    Subjects,     \* subject identifiers
    Bodies,       \* existence, lifecycle, attributes and provenance, together
    Projections,  \* the projections writers compute
    MaxRemovals   \* bound on how often an operator removes a row

ASSUME ProjectionStoreAssumption ==
    /\ Projections \subseteq
          [subject_id : Subjects, body : Bodies, freshness : FreshnessTuple]
    /\ MaxRemovals \in Nat

VARIABLES
    canonical_state,  \* rows, unique in subject_id
    holder,           \* the callers whose transaction holds a subject's row lock
    pc,               \* where each caller is
    want,             \* the projection a writer will set, as a set
    seen,             \* the row a caller read, as a set
    era,              \* history: how often the row of a subject was removed
    seenEra,          \* history: the era a caller's row was read in
    commits           \* history: the compare-and-sets that took effect

vars == <<canonical_state, holder, pc, want, seen, era, seenEra, commits>>

-----------------------------------------------------------------------------
(* The statements                                                          *)

RowsOf(s) == {row \in canonical_state : row.subject_id = s}

\* The row a projection becomes. Times are rounded on the way in.
Row(p, version) ==
    [subject_id |-> p.subject_id, row_version |-> version, body |-> p.body,
     freshness |-> TupleColumns(p.freshness)]

\* Mutants of UpsertMatches: the version, or the freshness, is not compared.
UpsertMatchesAnyVersion(p, expected) ==
    {row \in RowsOf(p.subject_id) : StoredOlder(row.freshness, TupleColumns(p.freshness))}
UpsertMatchesAnyFreshness(p, expected) ==
    {row \in RowsOf(p.subject_id) : row.row_version = expected}

\* The rows compareAndSetProjectionSQL updates: the version matches and the
\* stored tuple is older.
UpsertMatches(p, expected) ==
    {row \in RowsOf(p.subject_id) :
        /\ row.row_version = expected
        /\ StoredOlder(row.freshness, TupleColumns(p.freshness))}

\* Mutants of UpdateMatches: the version, or the freshness, is not compared, or
\* the version is compared with the one to write.
UpdateMatchesAnyVersion(p, expected) ==
    {row \in RowsOf(p.subject_id) : RowLess(row.freshness, TupleColumns(p.freshness))}
UpdateMatchesAnyFreshness(p, expected) ==
    {row \in RowsOf(p.subject_id) : row.row_version = expected}
UpdateMatchesNextVersion(p, expected) ==
    {row \in RowsOf(p.subject_id) :
        /\ row.row_version = expected + 1
        /\ RowLess(row.freshness, TupleColumns(p.freshness))}

\* The rows updateProjectionSQL updates
UpdateMatches(p, expected) ==
    {row \in RowsOf(p.subject_id) :
        /\ row.row_version = expected
        /\ RowLess(row.freshness, TupleColumns(p.freshness))}

\* The rows CompareAndSetProjection replaces
Replaced(p, expected) ==
    IF expected > 0 THEN UpdateMatches(p, expected) ELSE UpsertMatches(p, expected)

\* Mutant of Creates: the statement that inserts serves every expected version.
CreatesAtAnyVersion(p, expected) == RowsOf(p.subject_id) = {}

\* INSERT of a missing row, which only the statement for version zero does
Creates(p, expected) == expected = 0 /\ RowsOf(p.subject_id) = {}

\* Mutant of Written: a new row starts below version zero.
WrittenBelowZero(p, expected) ==
    IF Creates(p, expected) THEN {Row(p, expected - 1)}
    ELSE {Row(p, row.row_version + 1) : row \in Replaced(p, expected)}

\* The rows that CompareAndSetProjection writes, none or one
Written(p, expected) ==
    IF Creates(p, expected) THEN {Row(p, 0)}
    ELSE {Row(p, row.row_version + 1) : row \in Replaced(p, expected)}

-----------------------------------------------------------------------------
Init ==
    /\ canonical_state = {}
    /\ holder = [s \in Subjects |-> {}]
    /\ pc = [c \in Callers |-> "idle"]
    /\ want = [c \in Callers |-> {}]
    /\ seen = [c \in Callers |-> {}]
    /\ era = [s \in Subjects |-> 0]
    /\ seenEra = [c \in Callers |-> 0]
    /\ commits = {}

Finish(c) ==
    /\ pc' = [pc EXCEPT ![c] = "idle"]
    /\ want' = [want EXCEPT ![c] = {}]
    /\ seen' = [seen EXCEPT ![c] = {}]
    /\ seenEra' = [seenEra EXCEPT ![c] = 0]

\* LoadProjection, a plain read that no lock delays. A missing row
\* (sql.ErrNoRows) is the bootstrap case. The writer computes the projection p.
Load(c, p) ==
    /\ pc[c] = "idle"
    /\ pc' = [pc EXCEPT ![c] = "writing"]
    /\ want' = [want EXCEPT ![c] = {p}]
    /\ seen' = [seen EXCEPT ![c] = RowsOf(p.subject_id)]
    /\ seenEra' = [seenEra EXCEPT ![c] = era[p.subject_id]]
    /\ UNCHANGED <<canonical_state, holder, era, commits>>

\* The writer computes its projection later than it loaded the row, from what it
\* knows by then.
Recompute(c, p) ==
    /\ pc[c] = "writing"
    /\ \E q \in want[c] : q # p /\ q.subject_id = p.subject_id
    /\ want' = [want EXCEPT ![c] = {p}]
    /\ UNCHANGED <<canonical_state, holder, pc, seen, era, seenEra, commits>>

\* The row version a writer expects: the one it loaded, or zero for no row
Expected(c) == IF \E row \in seen[c] : row.row_version > 0
               THEN (CHOOSE row \in seen[c] : TRUE).row_version
               ELSE 0

\* CompareAndSetProjection. It returns whether a row was written; the answer may
\* be lost, and the caller starts over in either case.
CompareAndSet(c) ==
    /\ pc[c] = "writing"
    /\ \E p \in want[c] :
          /\ holder[p.subject_id] = {}
          /\ LET replaced == Replaced(p, Expected(c))
                 written == Written(p, Expected(c))
             IN  /\ canonical_state' = (canonical_state \ replaced) \cup written
                 /\ commits' = commits \cup
                       {[subject_id |-> p.subject_id, era |-> era[p.subject_id],
                         expected |-> Expected(c), loaded |-> seen[c],
                         loadedEra |-> seenEra[c], replaced |-> replaced,
                         row |-> row] : row \in written}
    /\ Finish(c)
    /\ UNCHANGED <<holder, era>>

\* A writer gives up before the statement takes effect.
Abandon(c) ==
    /\ pc[c] = "writing"
    /\ Finish(c)
    /\ UNCHANGED <<canonical_state, holder, era, commits>>

\* Mutant of Lock: the SELECT lacks FOR UPDATE.
LockWithoutForUpdate(c, s) ==
    /\ pc[c] = "idle"
    /\ RowsOf(s) # {}
    /\ pc' = [pc EXCEPT ![c] = "locked"]
    /\ seen' = [seen EXCEPT ![c] = RowsOf(s)]
    /\ UNCHANGED <<canonical_state, holder, want, era, seenEra, commits>>

\* WithLockedProjection: BEGIN and SELECT ... FOR UPDATE. Without a row it
\* returns sql.ErrNoRows and nothing changes.
Lock(c, s) ==
    /\ pc[c] = "idle"
    /\ RowsOf(s) # {} /\ holder[s] = {}
    /\ holder' = [holder EXCEPT ![s] = {c}]
    /\ pc' = [pc EXCEPT ![c] = "locked"]
    /\ seen' = [seen EXCEPT ![c] = RowsOf(s)]
    /\ UNCHANGED <<canonical_state, want, era, seenEra, commits>>

\* Mutant of Unlock: the transaction is left open when the callback is done.
UnlockLeaking(c) ==
    /\ pc[c] = "locked"
    /\ Finish(c)
    /\ UNCHANGED <<canonical_state, holder, era, commits>>

\* The callback returned: COMMIT, or the deferred Rollback after an error. The
\* transaction wrote nothing, so both only release the lock.
Unlock(c) ==
    /\ pc[c] = "locked"
    /\ holder' = [s \in Subjects |-> holder[s] \ {c}]
    /\ Finish(c)
    /\ UNCHANGED <<canonical_state, era, commits>>

\* The server ends the transaction while the callback is still running.
LoseConnection(c) ==
    /\ pc[c] = "locked"
    /\ holder' = [s \in Subjects |-> holder[s] \ {c}]
    /\ pc' = [pc EXCEPT ![c] = "orphaned"]
    /\ UNCHANGED <<canonical_state, want, seen, era, seenEra, commits>>

\* The callback returned after all; the commit reports the broken connection.
EndOrphan(c) ==
    /\ pc[c] = "orphaned"
    /\ Finish(c)
    /\ UNCHANGED <<canonical_state, holder, era, commits>>

\* An operator removes a row.
Remove(s) ==
    /\ RowsOf(s) # {} /\ holder[s] = {}
    /\ era[s] < MaxRemovals
    /\ canonical_state' = canonical_state \ RowsOf(s)
    /\ era' = [era EXCEPT ![s] = @ + 1]
    /\ UNCHANGED <<holder, pc, want, seen, seenEra, commits>>

CallerStep(c) ==
    \/ \E p \in Projections : Load(c, p) \/ Recompute(c, p)
    \/ CompareAndSet(c)
    \/ Abandon(c)
    \/ \E s \in Subjects : Lock(c, s)
    \/ Unlock(c) \/ LoseConnection(c) \/ EndOrphan(c)

Next ==
    \/ \E c \in Callers : CallerStep(c)
    \/ \E s \in Subjects : Remove(s)

\* A callback is bounded by its context, so it ends; PostgreSQL queues the
\* waiters of a row lock, so a statement that can get the lock again and again
\* is executed.
Fairness ==
    \A c \in Callers : /\ WF_vars(Unlock(c))
                       /\ WF_vars(EndOrphan(c))
                       /\ SF_vars(CompareAndSet(c))

Spec == Init /\ [][Next]_vars /\ Fairness

-----------------------------------------------------------------------------
(* Properties                                                              *)

RowType ==
    [subject_id : Subjects, row_version : Nat, body : Bodies,
     freshness : FreshnessTuple]

\* Rows satisfy the column types and checks of canonical_state, row_version >= 0
\* among them, in the table and in what callers loaded.
TypeOK ==
    /\ canonical_state \subseteq RowType
    /\ holder \in [Subjects -> SUBSET Callers]
    /\ pc \in [Callers -> {"idle", "writing", "locked", "orphaned"}]
    /\ want \in [Callers -> SUBSET Projections]
    /\ seen \in [Callers -> SUBSET RowType]
    /\ era \in [Subjects -> Nat]
    /\ seenEra \in [Callers -> Nat]

SameEra(j, k) == j.subject_id = k.subject_id /\ j.era = k.era

\* Of the writers that expect the same positive version, one succeeds. Of those
\* that expect version zero two can, and then one of them created the row.
OneWinnerPerVersion ==
    \A j, k \in commits :
        SameEra(j, k) /\ j.expected = k.expected /\ j # k =>
            /\ j.expected = 0
            /\ (j.replaced = {}) # (k.replaced = {})

\* A writer that had loaded a row replaced exactly that row, so its computation
\* missed no commit (unless the row was removed and built anew in between).
NoLostUpdate ==
    \A k \in commits :
        k.loaded # {} /\ k.loadedEra = k.era => k.replaced = k.loaded

\* The history of a row is a chain: versions and freshness tuples grow together,
\* so a replayed or a stale projection never becomes a version.
VersionsFollowFreshness ==
    \A j, k \in commits :
        SameEra(j, k) =>
            /\ j.row.row_version < k.row.row_version <=>
                  StoredOlder(j.row.freshness, k.row.freshness)
            /\ j.row.row_version = k.row.row_version => j = k

\* A removed row comes back only at version zero, from a writer that expected
\* version zero: a positive expected version never restarts the history.
HistoryStartsAtZero ==
    \A k \in commits :
        k.replaced = {} => k.expected = 0 /\ k.row.row_version = 0

\* While the callback of WithLockedProjection runs in its transaction, the row
\* it was given is the row in the table, and no other caller holds the lock.
LockedSnapshotIsCurrent ==
    \A c \in Callers :
        pc[c] = "locked" =>
            \E row \in seen[c] :
                /\ RowsOf(row.subject_id) = {row}
                /\ holder[row.subject_id] = {c}

\* A compare-and-set returns, however many callers lock the row.
WritersReturn == \A c \in Callers : pc[c] = "writing" ~> pc[c] = "idle"

-----------------------------------------------------------------------------
(* The inductive invariant of the proofs in ProjectionStoreProofs          *)

\* What the history records of a compare-and-set
CommitType ==
    [subject_id : Subjects, era : Nat, expected : Nat, loaded : SUBSET RowType,
     loadedEra : Nat, replaced : SUBSET RowType, row : RowType]

\* A commit created version zero or replaced the row of the expected version by
\* the next one.
CommitShape ==
    /\ commits \subseteq CommitType
    /\ \A k \in commits :
          /\ k.row.subject_id = k.subject_id
          /\ \/ k.replaced = {} /\ k.expected = 0 /\ k.row.row_version = 0
             \/ /\ k.replaced # {}
                /\ k.row.row_version = k.expected + 1

\* A row is the last commit of its subject's era; an era with a commit is over
\* or has a row.
RowIsLastCommit ==
    /\ \A r, q \in canonical_state : r.subject_id = q.subject_id => r = q
    /\ \A r \in canonical_state :
          \E k \in commits :
              /\ k.row = r /\ k.era = era[r.subject_id]
              /\ \A j \in commits :
                    SameEra(j, k) => j.row.row_version <= r.row_version
    /\ \A k \in commits :
          /\ k.era <= era[k.subject_id]
          /\ k.era = era[k.subject_id] => RowsOf(k.subject_id) # {}

\* What a writer loaded was committed in the era it was read in.
LoadedWasCommitted ==
    \A c \in Callers :
        /\ \A r, q \in seen[c] : r = q
        /\ pc[c] = "writing" =>
              \A r \in seen[c], p \in want[c] :
                  /\ r.subject_id = p.subject_id
                  /\ \E k \in commits : k.row = r /\ k.era = seenEra[c]

IndInv ==
    /\ TypeOK /\ CommitShape /\ RowIsLastCommit /\ LoadedWasCommitted
    /\ NoLostUpdate /\ VersionsFollowFreshness /\ LockedSnapshotIsCurrent

=============================================================================
