------------------------ MODULE ProjectionStoreProofs ------------------------
(***************************************************************************)
(* ProjectionStore: type correctness, no lost update, one winner per       *)
(* version, versions that follow freshness, and a current snapshot under   *)
(* the row lock, for any number of callers, subjects and projections.      *)
(***************************************************************************)
EXTENDS ProjectionStore, FreshnessProofs

\* The row of a projection has its subject, its columns and its type.
LEMMA RowFields ==
    ASSUME NEW p \in Projections, NEW v \in Nat
    PROVE  /\ Row(p, v) \in RowType
           /\ Row(p, v).subject_id = p.subject_id
           /\ Row(p, v).row_version = v
           /\ Row(p, v).freshness = TupleColumns(p.freshness)
           /\ p.subject_id \in Subjects
           /\ TupleColumns(p.freshness) \in FreshnessTuple
<1>1. /\ p.subject_id \in Subjects /\ p.body \in Bodies
      /\ p.freshness \in FreshnessTuple
  BY ProjectionStoreAssumption
<1>2. TupleColumns(p.freshness) \in FreshnessTuple
  BY <1>1, TupleColumnsType
<1> QED
  BY <1>1, <1>2 DEF Row, RowType

\* A writer expects the version of the row it loaded, or zero without one.
LEMMA ExpectedVersion ==
    ASSUME TypeOK, LoadedWasCommitted, NEW c \in Callers
    PROVE  /\ Expected(c) \in Nat
           /\ seen[c] = {} => Expected(c) = 0
           /\ \A r \in seen[c] : Expected(c) = r.row_version
<1>1. seen[c] \subseteq RowType
  BY DEF TypeOK
<1>2. \A r \in seen[c] : r.row_version \in Nat
  BY <1>1 DEF RowType
<1>3. \A r \in seen[c] : seen[c] = {r}
  BY DEF LoadedWasCommitted
<1>4. CASE seen[c] = {}
  BY <1>4 DEF Expected
<1>5. ASSUME NEW r \in seen[c] PROVE Expected(c) = r.row_version
  <2>1. (CHOOSE row \in seen[c] : TRUE) = r
    BY <1>3
  <2>2. CASE r.row_version > 0
    BY <2>1, <2>2 DEF Expected
  <2>3. CASE ~(r.row_version > 0)
    <3>1. r.row_version = 0
      BY <1>2, <2>3
    <3>2. ~\E row \in seen[c] : row.row_version > 0
      BY <1>3, <2>3
    <3> QED
      BY <3>1, <3>2 DEF Expected
  <2> QED
    BY <2>2, <2>3
<1> QED
  BY <1>2, <1>4, <1>5

\* What one statement can do: create version zero, replace the row of the
\* expected version by a newer one, or nothing.
LEMMA CasCases ==
    ASSUME TypeOK, RowIsLastCommit, NEW p \in Projections, NEW e \in Nat
    PROVE  \/ /\ e = 0 /\ RowsOf(p.subject_id) = {}
              /\ Replaced(p, e) = {} /\ Written(p, e) = {Row(p, 0)}
           \/ \E r \in canonical_state :
                 /\ r.subject_id = p.subject_id /\ r.row_version = e
                 /\ StoredOlder(r.freshness, TupleColumns(p.freshness))
                 /\ Replaced(p, e) = {r} /\ Written(p, e) = {Row(p, e + 1)}
           \/ Replaced(p, e) = {} /\ Written(p, e) = {}
<1>1. \A r \in canonical_state : r.freshness \in FreshnessTuple
  BY DEF TypeOK, RowType
<1>2. TupleColumns(p.freshness) \in FreshnessTuple
  BY RowFields
<1>3. Replaced(p, e) =
        {r \in RowsOf(p.subject_id) :
            r.row_version = e /\ StoredOlder(r.freshness, TupleColumns(p.freshness))}
  BY <1>1, <1>2, SqlFormsAgree DEF Replaced, UpdateMatches, UpsertMatches, RowsOf
<1>4. \A r, q \in Replaced(p, e) : r = q
  BY <1>3 DEF RowsOf, RowIsLastCommit
<1>5. CASE Creates(p, e)
  BY <1>3, <1>5 DEF Creates, Written
<1>6. CASE ~Creates(p, e) /\ Replaced(p, e) = {}
  BY <1>6 DEF Written
<1>7. CASE ~Creates(p, e) /\ Replaced(p, e) # {}
  <2>1. PICK r \in Replaced(p, e) : TRUE
    BY <1>7
  <2>2. Replaced(p, e) = {r}
    BY <1>4, <2>1
  <2>3. /\ r \in canonical_state /\ r.subject_id = p.subject_id
        /\ r.row_version = e /\ StoredOlder(r.freshness, TupleColumns(p.freshness))
    BY <1>3, <2>1 DEF RowsOf
  <2>4. Written(p, e) = {Row(p, e + 1)}
    BY <1>7, <2>2, <2>3 DEF Written
  <2> QED
    BY <2>2, <2>3, <2>4
<1> QED
  BY <1>5, <1>6, <1>7

-----------------------------------------------------------------------------
\* The invariant holds in the empty table.
LEMMA InitIndInv == Init => IndInv
BY DEF Init, IndInv, TypeOK, CommitShape, RowIsLastCommit, LoadedWasCommitted,
       NoLostUpdate, VersionsFollowFreshness, LockedSnapshotIsCurrent, RowsOf

\* A caller that returns, or only drops what it knew, disturbs nothing.
LEMMA FinishKeeps ==
    ASSUME IndInv, NEW c \in Callers, Finish(c),
           canonical_state' = canonical_state, era' = era, commits' = commits,
           \/ pc[c] # "locked" /\ holder' = holder
           \/ holder' = [s \in Subjects |-> holder[s] \ {c}]
    PROVE  IndInv'
<1>1. TypeOK'
  BY DEF IndInv, TypeOK, Finish
<1>2. CommitShape' /\ RowIsLastCommit' /\ NoLostUpdate' /\ VersionsFollowFreshness'
  BY DEF IndInv, CommitShape, RowIsLastCommit, NoLostUpdate, VersionsFollowFreshness,
         SameEra, RowsOf
<1>3. LoadedWasCommitted'
  BY DEF IndInv, TypeOK, LoadedWasCommitted, Finish
<1>4. LockedSnapshotIsCurrent'
  <2> SUFFICES ASSUME NEW d \in Callers, pc'[d] = "locked"
               PROVE  \E row \in seen'[d] : /\ RowsOf(row.subject_id)' = {row}
                                            /\ holder'[row.subject_id] = {d}
    BY DEF LockedSnapshotIsCurrent
  <2>1. d # c /\ pc[d] = "locked" /\ seen'[d] = seen[d]
    BY DEF Finish, IndInv, TypeOK
  <2>2. PICK row \in seen[d] : RowsOf(row.subject_id) = {row}
                               /\ holder[row.subject_id] = {d}
    BY <2>1 DEF IndInv, LockedSnapshotIsCurrent
  <2>3. row.subject_id \in Subjects
    BY <2>2 DEF IndInv, TypeOK, RowType
  <2>4. holder'[row.subject_id] = {d}
    BY <2>1, <2>2, <2>3
  <2>5. RowsOf(row.subject_id)' = {row}
    BY <2>2 DEF RowsOf
  <2> QED
    BY <2>1, <2>4, <2>5
<1> QED
  BY <1>1, <1>2, <1>3, <1>4 DEF IndInv

\* A statement that writes a row: the row takes the place of its subject's row,
\* is newer than every commit of the era, and replaced what the writer loaded.
LEMMA CommitKeeps ==
    ASSUME IndInv, NEW c \in Callers, Finish(c), holder' = holder, era' = era,
           pc[c] = "writing",
           NEW k \in CommitType,
           k.row.subject_id = k.subject_id, k.era = era[k.subject_id],
           holder[k.subject_id] = {},
           \/ k.replaced = {} /\ k.expected = 0 /\ k.row.row_version = 0
           \/ k.replaced # {} /\ k.row.row_version = k.expected + 1,
           k.loaded # {} /\ k.loadedEra = k.era => k.replaced = k.loaded,
           RowsOf(k.subject_id) \subseteq k.replaced,
           k.replaced \subseteq RowsOf(k.subject_id),
           \A j \in commits : SameEra(j, k) =>
               /\ j.row.row_version < k.row.row_version
               /\ StoredOlder(j.row.freshness, k.row.freshness),
           canonical_state' = (canonical_state \ k.replaced) \cup {k.row},
           commits' = commits \cup {k}
    PROVE  IndInv'
<1>1. /\ k.subject_id \in Subjects /\ k.row \in RowType /\ k.era \in Nat
      /\ k.row.row_version \in Nat /\ k.row.freshness \in FreshnessTuple
  BY DEF CommitType, RowType
<1>2. TypeOK'
  BY <1>1 DEF IndInv, TypeOK, Finish
<1>3. CommitShape'
  BY DEF IndInv, CommitShape
<1>4. NoLostUpdate'
  BY DEF IndInv, NoLostUpdate
<1>5. ~StoredOlder(k.row.freshness, k.row.freshness)
  BY <1>1, StoredOlderTotal
<1>6. \A j \in commits : SameEra(j, k) =>
         /\ j.row.row_version \in Nat /\ j.row.freshness \in FreshnessTuple
         /\ ~(k.row.row_version < j.row.row_version)
         /\ k.row.row_version # j.row.row_version
         /\ ~StoredOlder(k.row.freshness, j.row.freshness)
  <2> SUFFICES ASSUME NEW j \in commits, SameEra(j, k)
               PROVE  /\ j.row.row_version \in Nat /\ j.row.freshness \in FreshnessTuple
                      /\ ~(k.row.row_version < j.row.row_version)
                      /\ k.row.row_version # j.row.row_version
                      /\ ~StoredOlder(k.row.freshness, j.row.freshness)
    OBVIOUS
  <2>1. j.row.row_version \in Nat /\ j.row.freshness \in FreshnessTuple
    BY DEF IndInv, CommitShape, CommitType, RowType
  <2>2. /\ j.row.row_version < k.row.row_version
        /\ StoredOlder(j.row.freshness, k.row.freshness)
    OBVIOUS
  <2>3. ~StoredOlder(k.row.freshness, j.row.freshness)
    BY <1>1, <2>1, <2>2, StoredOlderTotal
  <2> QED
    BY <1>1, <2>1, <2>2, <2>3
<1>7. VersionsFollowFreshness'
  <2> SUFFICES ASSUME NEW i \in commits', NEW j \in commits', SameEra(i, j)
               PROVE  /\ i.row.row_version < j.row.row_version <=>
                            StoredOlder(i.row.freshness, j.row.freshness)
                      /\ i.row.row_version = j.row.row_version => i = j
    BY DEF VersionsFollowFreshness, SameEra
  <2>1. CASE i \in commits /\ j \in commits
    BY <2>1 DEF IndInv, VersionsFollowFreshness
  <2>2. CASE i = k /\ j = k
    BY <2>2, <1>1, <1>5
  <2>3. CASE i = k /\ j \in commits
    <3>1. SameEra(j, k)
      BY <2>3 DEF SameEra
    <3> QED
      BY <2>3, <3>1, <1>6
  <2>4. CASE i \in commits /\ j = k
    BY <2>4, <1>6
  <2> QED
    BY <2>1, <2>2, <2>3, <2>4
<1>8. RowIsLastCommit'
  <2>1. \A r, q \in canonical_state' : r.subject_id = q.subject_id => r = q
    BY DEF IndInv, RowIsLastCommit, RowsOf
  <2>2. ASSUME NEW r \in canonical_state'
        PROVE  \E i \in commits' :
                  /\ i.row = r /\ i.era = era[r.subject_id]
                  /\ \A j \in commits' :
                        SameEra(j, i) => j.row.row_version <= r.row_version
    <3>1. CASE r = k.row
      <4>1. \A j \in commits' : SameEra(j, k) => j.row.row_version <= r.row_version
        BY <3>1, <1>1, <1>6
      <4> QED
        BY <3>1, <4>1
    <3>2. CASE r # k.row
      <4>1. r \in canonical_state /\ r.subject_id # k.subject_id
        BY <3>2 DEF RowsOf
      <4>2. PICK i \in commits :
               /\ i.row = r /\ i.era = era[r.subject_id]
               /\ \A j \in commits :
                     SameEra(j, i) => j.row.row_version <= r.row_version
        BY <4>1 DEF IndInv, RowIsLastCommit
      <4>3. ~SameEra(k, i)
        BY <4>1, <4>2 DEF SameEra, IndInv, CommitShape
      <4> QED
        BY <4>2, <4>3
    <3> QED
      BY <3>1, <3>2
  <2>3. ASSUME NEW i \in commits'
        PROVE  /\ i.era <= era[i.subject_id]
               /\ i.era = era[i.subject_id] => RowsOf(i.subject_id)' # {}
    <3>1. CASE i = k
      BY <3>1, <1>1 DEF RowsOf
    <3>2. CASE i \in commits
      <4>1. /\ i.era <= era[i.subject_id]
            /\ i.era = era[i.subject_id] => RowsOf(i.subject_id) # {}
        BY <3>2 DEF IndInv, RowIsLastCommit
      <4>2. CASE i.subject_id = k.subject_id
        BY <4>1, <4>2 DEF RowsOf
      <4>3. CASE i.subject_id # k.subject_id
        <5>1. RowsOf(i.subject_id) \subseteq RowsOf(i.subject_id)'
          BY <4>3 DEF RowsOf
        <5> QED
          BY <4>1, <5>1
      <4> QED
        BY <4>2, <4>3
    <3> QED
      BY <3>1, <3>2
  <2> QED
    BY <2>1, <2>2, <2>3 DEF RowIsLastCommit
<1>9. LoadedWasCommitted'
  BY DEF IndInv, TypeOK, LoadedWasCommitted, Finish
<1>10. LockedSnapshotIsCurrent'
  <2> SUFFICES ASSUME NEW d \in Callers, pc'[d] = "locked"
               PROVE  \E row \in seen'[d] : /\ RowsOf(row.subject_id)' = {row}
                                            /\ holder'[row.subject_id] = {d}
    BY DEF LockedSnapshotIsCurrent
  <2>1. d # c /\ pc[d] = "locked" /\ seen'[d] = seen[d]
    BY DEF Finish, IndInv, TypeOK
  <2>2. PICK row \in seen[d] : RowsOf(row.subject_id) = {row}
                               /\ holder[row.subject_id] = {d}
    BY <2>1 DEF IndInv, LockedSnapshotIsCurrent
  <2>3. row.subject_id # k.subject_id
    BY <2>2
  <2>4. RowsOf(row.subject_id)' = RowsOf(row.subject_id)
    BY <2>3 DEF RowsOf
  <2> QED
    BY <2>1, <2>2, <2>4
<1> QED
  BY <1>2, <1>3, <1>4, <1>7, <1>8, <1>9, <1>10 DEF IndInv

\* CompareAndSet keeps the invariant: its three outcomes.
LEMMA CompareAndSetKeeps ==
    ASSUME IndInv, NEW c \in Callers, CompareAndSet(c)
    PROVE  IndInv'
<1> DEFINE e == Expected(c)
<1>1. PICK p \in want[c] :
         /\ holder[p.subject_id] = {}
         /\ canonical_state' = (canonical_state \ Replaced(p, e)) \cup Written(p, e)
         /\ commits' = commits \cup
               {[subject_id |-> p.subject_id, era |-> era[p.subject_id],
                 expected |-> e, loaded |-> seen[c], loadedEra |-> seenEra[c],
                 replaced |-> Replaced(p, e), row |-> row] : row \in Written(p, e)}
  BY DEF CompareAndSet
<1>2. /\ pc[c] = "writing" /\ Finish(c) /\ holder' = holder /\ era' = era
  BY DEF CompareAndSet
<1>3. /\ p \in Projections /\ p.subject_id \in Subjects
      /\ era[p.subject_id] \in Nat /\ seenEra[c] \in Nat
      /\ seen[c] \subseteq RowType /\ canonical_state \subseteq RowType
  BY ProjectionStoreAssumption DEF IndInv, TypeOK
<1>4. \A r \in seen[c] : e = r.row_version
  BY ExpectedVersion DEF IndInv
<1>5. e \in Nat
  BY ExpectedVersion DEF IndInv
<1>6. \A r \in seen[c] :
         /\ r.subject_id = p.subject_id /\ seen[c] = {r}
         /\ \E j \in commits : j.row = r /\ j.era = seenEra[c]
  BY <1>2 DEF IndInv, LoadedWasCommitted
<1>7. \A r \in RowsOf(p.subject_id) : RowsOf(p.subject_id) = {r}
  BY DEF IndInv, RowIsLastCommit, RowsOf
<1> HIDE DEF e
<1>8. CASE Replaced(p, e) = {} /\ Written(p, e) = {}
  <2>1. canonical_state' = canonical_state /\ commits' = commits
    BY <1>1, <1>8
  <2> QED
    BY <1>2, <2>1, FinishKeeps
<1>9. CASE /\ e = 0 /\ RowsOf(p.subject_id) = {}
           /\ Replaced(p, e) = {} /\ Written(p, e) = {Row(p, 0)}
  <2> DEFINE k == [subject_id |-> p.subject_id, era |-> era[p.subject_id],
                   expected |-> e, loaded |-> seen[c], loadedEra |-> seenEra[c],
                   replaced |-> Replaced(p, e), row |-> Row(p, 0)]
  <2>1. /\ canonical_state' = (canonical_state \ k.replaced) \cup {k.row}
        /\ commits' = commits \cup {k}
    BY <1>1, <1>9
  <2>2. /\ k.subject_id = p.subject_id /\ k.era = era[p.subject_id]
        /\ k.expected = 0 /\ k.loaded = seen[c] /\ k.loadedEra = seenEra[c]
        /\ k.replaced = {} /\ k.row = Row(p, 0) /\ k.row.row_version = 0
        /\ k.row.subject_id = p.subject_id
    BY <1>3, <1>9, RowFields
  <2>3. k \in CommitType
    BY <1>3, <1>5, <1>9, RowFields DEF CommitType
  <2> HIDE DEF k
  <2>4. \A j \in commits : ~SameEra(j, k)
    BY <1>9, <2>2 DEF IndInv, RowIsLastCommit, SameEra
  <2>5. ~(k.loaded # {} /\ k.loadedEra = k.era)
    <3> SUFFICES ASSUME k.loaded # {}, k.loadedEra = k.era PROVE FALSE
      OBVIOUS
    <3>1. PICK r \in seen[c] : TRUE
      BY <2>2
    <3>2. PICK j \in commits : j.row = r /\ j.era = seenEra[c]
      BY <1>6
    <3>3. SameEra(j, k)
      BY <1>6, <2>2, <3>2 DEF SameEra, IndInv, CommitShape
    <3> QED
      BY <2>4, <3>3
  <2> QED
    BY <1>1, <1>2, <1>9, <2>1, <2>2, <2>3, <2>4, <2>5, CommitKeeps
<1>10. ASSUME NEW r \in canonical_state,
              r.subject_id = p.subject_id, r.row_version = e,
              StoredOlder(r.freshness, TupleColumns(p.freshness)),
              Replaced(p, e) = {r}, Written(p, e) = {Row(p, e + 1)}
       PROVE  IndInv'
  <2> DEFINE k == [subject_id |-> p.subject_id, era |-> era[p.subject_id],
                   expected |-> e, loaded |-> seen[c], loadedEra |-> seenEra[c],
                   replaced |-> Replaced(p, e), row |-> Row(p, e + 1)]
  <2>1. /\ canonical_state' = (canonical_state \ k.replaced) \cup {k.row}
        /\ commits' = commits \cup {k}
    BY <1>1, <1>10
  <2>2. /\ k.subject_id = p.subject_id /\ k.era = era[p.subject_id]
        /\ k.expected = e /\ k.loaded = seen[c] /\ k.loadedEra = seenEra[c]
        /\ k.replaced = {r} /\ k.row = Row(p, e + 1) /\ k.row.row_version = e + 1
        /\ k.row.subject_id = p.subject_id
        /\ k.row.freshness = TupleColumns(p.freshness)
        /\ k.row.freshness \in FreshnessTuple
    BY <1>3, <1>5, <1>10, RowFields
  <2>3. k \in CommitType
    BY <1>3, <1>5, <1>10, RowFields DEF CommitType
  <2> HIDE DEF k
  <2>4. RowsOf(p.subject_id) = {r}
    BY <1>7, <1>10 DEF RowsOf
  <2>5. PICK i \in commits : /\ i.row = r /\ i.era = era[r.subject_id]
                             /\ \A j \in commits :
                                   SameEra(j, i) => j.row.row_version <= r.row_version
    BY <1>10 DEF IndInv, RowIsLastCommit
  <2>6. SameEra(i, k)
    BY <1>10, <2>2, <2>5 DEF SameEra, IndInv, CommitShape
  <2>7. ASSUME NEW j \in commits, SameEra(j, k)
        PROVE  /\ j.row.row_version < k.row.row_version
               /\ StoredOlder(j.row.freshness, k.row.freshness)
    <3>1. SameEra(j, i)
      BY <2>6, <2>7 DEF SameEra
    <3>2. j.row.row_version \in Nat /\ j.row.freshness \in FreshnessTuple
      BY DEF IndInv, CommitShape, CommitType, RowType
    <3>3. r.row_version \in Nat /\ r.freshness \in FreshnessTuple
      BY <1>3, <1>10 DEF RowType
    <3>4. j.row.row_version <= r.row_version
      BY <2>5, <3>1
    <3>5. CASE j.row.row_version = r.row_version
      <4>1. j = i
        BY <2>5, <3>1, <3>5 DEF IndInv, VersionsFollowFreshness
      <4> QED
        BY <4>1, <1>10, <2>2, <2>5, <3>3
    <3>6. CASE j.row.row_version < r.row_version
      <4>1. StoredOlder(j.row.freshness, r.freshness)
        BY <2>5, <3>1, <3>6 DEF IndInv, VersionsFollowFreshness
      <4>2. StoredOlder(j.row.freshness, k.row.freshness)
        BY <4>1, <1>10, <2>2, <3>2, <3>3, StoredOlderTransitive
      <4> QED
        BY <4>2, <1>10, <2>2, <3>2, <3>3, <3>6
    <3> QED
      BY <3>2, <3>3, <3>4, <3>5, <3>6
  <2>8. ASSUME k.loaded # {}, k.loadedEra = k.era
        PROVE  k.replaced = k.loaded
    <3>1. PICK q \in seen[c] : seen[c] = {q}
      BY <1>6, <2>2, <2>8
    <3>2. PICK j \in commits : j.row = q /\ j.era = seenEra[c]
      BY <1>6
    <3>3. SameEra(j, i)
      <4>1. \A m \in commits : m.row.subject_id = m.subject_id
        BY DEF IndInv, CommitShape
      <4>2. j.subject_id = p.subject_id
        BY <1>6, <3>1, <3>2, <4>1
      <4>3. i.subject_id = p.subject_id /\ i.era = era[p.subject_id]
        BY <1>10, <2>5, <4>1
      <4>4. j.era = era[p.subject_id]
        BY <2>2, <2>8, <3>2
      <4> QED
        BY <4>2, <4>3, <4>4 DEF SameEra
    <3>4. j.row.row_version = i.row.row_version
      BY <1>4, <1>10, <2>5, <3>1, <3>2
    <3>5. j = i
      BY <3>3, <3>4 DEF IndInv, VersionsFollowFreshness
    <3> QED
      BY <2>2, <2>5, <3>1, <3>2, <3>5
  <2> QED
    BY <1>1, <1>2, <2>1, <2>2, <2>3, <2>4, <2>7, <2>8, CommitKeeps
<1>11. \/ /\ e = 0 /\ RowsOf(p.subject_id) = {}
          /\ Replaced(p, e) = {} /\ Written(p, e) = {Row(p, 0)}
       \/ \E r \in canonical_state :
             /\ r.subject_id = p.subject_id /\ r.row_version = e
             /\ StoredOlder(r.freshness, TupleColumns(p.freshness))
             /\ Replaced(p, e) = {r} /\ Written(p, e) = {Row(p, e + 1)}
       \/ Replaced(p, e) = {} /\ Written(p, e) = {}
  BY <1>3, <1>5, CasCases DEF IndInv
<1> QED
  BY <1>8, <1>9, <1>10, <1>11

\* The other steps of a caller, and the removal of a row.
LEMMA NextIndInv == IndInv /\ [Next]_vars => IndInv'
<1> SUFFICES ASSUME IndInv, [Next]_vars PROVE IndInv'
  OBVIOUS
<1>1. ASSUME NEW c \in Callers, NEW p \in Projections, Load(c, p) PROVE IndInv'
  <2>1. /\ canonical_state' = canonical_state /\ holder' = holder
        /\ era' = era /\ commits' = commits
        /\ pc' = [pc EXCEPT ![c] = "writing"]
        /\ want' = [want EXCEPT ![c] = {p}]
        /\ seen' = [seen EXCEPT ![c] = RowsOf(p.subject_id)]
        /\ seenEra' = [seenEra EXCEPT ![c] = era[p.subject_id]]
    BY <1>1 DEF Load
  <2>2. p.subject_id \in Subjects
    BY RowFields
  <2>3. TypeOK'
    BY <2>1, <2>2 DEF IndInv, TypeOK, RowsOf
  <2>4. CommitShape' /\ RowIsLastCommit' /\ NoLostUpdate' /\ VersionsFollowFreshness'
    BY <2>1 DEF IndInv, CommitShape, RowIsLastCommit, NoLostUpdate,
                VersionsFollowFreshness, SameEra, RowsOf
  <2>5. LoadedWasCommitted'
    BY <2>1 DEF IndInv, TypeOK, LoadedWasCommitted, RowIsLastCommit, RowsOf
  <2>6. LockedSnapshotIsCurrent'
    BY <1>1, <2>1 DEF IndInv, TypeOK, LockedSnapshotIsCurrent, RowsOf, Load
  <2> QED
    BY <2>3, <2>4, <2>5, <2>6 DEF IndInv
<1>2. ASSUME NEW c \in Callers, CompareAndSet(c) PROVE IndInv'
  BY <1>2, CompareAndSetKeeps
<1>3. ASSUME NEW c \in Callers, Abandon(c) PROVE IndInv'
  BY <1>3, FinishKeeps DEF Abandon
<1>4. ASSUME NEW c \in Callers, NEW s \in Subjects, Lock(c, s) PROVE IndInv'
  <2>1. /\ canonical_state' = canonical_state /\ want' = want
        /\ era' = era /\ commits' = commits /\ seenEra' = seenEra
        /\ pc' = [pc EXCEPT ![c] = "locked"]
        /\ holder' = [holder EXCEPT ![s] = {c}]
        /\ seen' = [seen EXCEPT ![c] = RowsOf(s)]
        /\ holder[s] = {} /\ RowsOf(s) # {} /\ pc[c] = "idle"
    BY <1>4 DEF Lock
  <2>2. TypeOK'
    BY <2>1 DEF IndInv, TypeOK, RowsOf
  <2>3. CommitShape' /\ RowIsLastCommit' /\ NoLostUpdate' /\ VersionsFollowFreshness'
    BY <2>1 DEF IndInv, CommitShape, RowIsLastCommit, NoLostUpdate,
                VersionsFollowFreshness, SameEra, RowsOf
  <2>4. LoadedWasCommitted'
    BY <2>1 DEF IndInv, TypeOK, LoadedWasCommitted, RowIsLastCommit, RowsOf
  <2>5. LockedSnapshotIsCurrent'
    <3> SUFFICES ASSUME NEW d \in Callers, pc'[d] = "locked"
                 PROVE  \E row \in seen'[d] : /\ RowsOf(row.subject_id)' = {row}
                                              /\ holder'[row.subject_id] = {d}
      BY DEF LockedSnapshotIsCurrent
    <3>1. \A t : RowsOf(t)' = RowsOf(t)
      BY <2>1 DEF RowsOf
    <3>2. CASE d = c
      <4>1. PICK row \in RowsOf(s) : TRUE
        BY <2>1
      <4>2. row.subject_id = s /\ RowsOf(s) = {row}
        BY <4>1 DEF RowsOf, IndInv, RowIsLastCommit
      <4>3. seen'[d] = RowsOf(s) /\ holder'[s] = {d}
        BY <2>1, <3>2 DEF IndInv, TypeOK
      <4> QED
        BY <3>1, <4>2, <4>3
    <3>3. CASE d # c
      <4>1. pc[d] = "locked" /\ seen'[d] = seen[d]
        BY <2>1, <3>3 DEF IndInv, TypeOK
      <4>2. PICK row \in seen[d] : RowsOf(row.subject_id) = {row}
                                   /\ holder[row.subject_id] = {d}
        BY <4>1 DEF IndInv, LockedSnapshotIsCurrent
      <4>3. row.subject_id # s /\ row.subject_id \in Subjects
        BY <2>1, <4>2 DEF IndInv, TypeOK, RowType
      <4>4. holder'[row.subject_id] = {d}
        BY <2>1, <4>2, <4>3 DEF IndInv, TypeOK
      <4> QED
        BY <3>1, <4>1, <4>2, <4>4
    <3> QED
      BY <3>2, <3>3
  <2> QED
    BY <2>2, <2>3, <2>4, <2>5 DEF IndInv
<1>5. ASSUME NEW c \in Callers, Unlock(c) PROVE IndInv'
  BY <1>5, FinishKeeps DEF Unlock
<1>6. ASSUME NEW c \in Callers, LoseConnection(c) PROVE IndInv'
  <2>1. /\ canonical_state' = canonical_state /\ want' = want /\ seen' = seen
        /\ era' = era /\ commits' = commits /\ seenEra' = seenEra
        /\ pc' = [pc EXCEPT ![c] = "orphaned"]
        /\ holder' = [s \in Subjects |-> holder[s] \ {c}]
    BY <1>6 DEF LoseConnection
  <2>2. TypeOK'
    BY <2>1 DEF IndInv, TypeOK
  <2>3. CommitShape' /\ RowIsLastCommit' /\ NoLostUpdate' /\ VersionsFollowFreshness'
    BY <2>1 DEF IndInv, CommitShape, RowIsLastCommit, NoLostUpdate,
                VersionsFollowFreshness, SameEra, RowsOf
  <2>4. LoadedWasCommitted'
    BY <2>1 DEF IndInv, TypeOK, LoadedWasCommitted
  <2>5. LockedSnapshotIsCurrent'
    <3> SUFFICES ASSUME NEW d \in Callers, pc'[d] = "locked"
                 PROVE  \E row \in seen'[d] : /\ RowsOf(row.subject_id)' = {row}
                                              /\ holder'[row.subject_id] = {d}
      BY DEF LockedSnapshotIsCurrent
    <3>1. d # c /\ pc[d] = "locked"
      BY <2>1 DEF IndInv, TypeOK
    <3>2. PICK row \in seen[d] : RowsOf(row.subject_id) = {row}
                                 /\ holder[row.subject_id] = {d}
      BY <3>1 DEF IndInv, LockedSnapshotIsCurrent
    <3>3. row.subject_id \in Subjects
      BY <3>2 DEF IndInv, TypeOK, RowType
    <3>4. holder'[row.subject_id] = {d}
      BY <2>1, <3>1, <3>2, <3>3
    <3>5. RowsOf(row.subject_id)' = {row}
      BY <2>1, <3>2 DEF RowsOf
    <3> QED
      BY <2>1, <3>4, <3>5
  <2> QED
    BY <2>2, <2>3, <2>4, <2>5 DEF IndInv
<1>7. ASSUME NEW c \in Callers, EndOrphan(c) PROVE IndInv'
  BY <1>7, FinishKeeps DEF EndOrphan
<1>8. ASSUME NEW s \in Subjects, Remove(s) PROVE IndInv'
  <2>1. /\ canonical_state' = canonical_state \ RowsOf(s)
        /\ era' = [era EXCEPT ![s] = @ + 1]
        /\ holder' = holder /\ pc' = pc /\ want' = want /\ seen' = seen
        /\ seenEra' = seenEra /\ commits' = commits /\ holder[s] = {}
    BY <1>8 DEF Remove
  <2>2. era'[s] = era[s] + 1 /\ era[s] \in Nat
        /\ \A t \in Subjects : t # s => era'[t] = era[t]
    BY <2>1 DEF IndInv, TypeOK
  <2>3. \A t : t # s => RowsOf(t)' = RowsOf(t)
    BY <2>1 DEF RowsOf
  <2>4. TypeOK'
    BY <2>1 DEF IndInv, TypeOK
  <2>5. CommitShape' /\ NoLostUpdate' /\ VersionsFollowFreshness' /\ LoadedWasCommitted'
    BY <2>1 DEF IndInv, CommitShape, NoLostUpdate, VersionsFollowFreshness, SameEra,
                LoadedWasCommitted
  <2>6. RowIsLastCommit'
    <3>1. \A r \in canonical_state' : r \in canonical_state /\ r.subject_id # s
      BY <2>1 DEF RowsOf
    <3>2. \A r \in canonical_state' : era'[r.subject_id] = era[r.subject_id]
      BY <2>2, <3>1 DEF IndInv, TypeOK, RowType
    <3>3. ASSUME NEW k \in commits
          PROVE  /\ k.era <= era'[k.subject_id]
                 /\ k.era = era'[k.subject_id] => RowsOf(k.subject_id)' # {}
      <4>1. /\ k.era \in Nat /\ k.subject_id \in Subjects
        BY DEF IndInv, CommitShape, CommitType
      <4>2. /\ k.era <= era[k.subject_id]
            /\ k.era = era[k.subject_id] => RowsOf(k.subject_id) # {}
        BY DEF IndInv, RowIsLastCommit
      <4>3. CASE k.subject_id = s
        BY <2>2, <4>1, <4>2, <4>3
      <4>4. CASE k.subject_id # s
        BY <2>2, <2>3, <4>1, <4>2, <4>4
      <4> QED
        BY <4>3, <4>4
    <3>4. ASSUME NEW r \in canonical_state'
          PROVE  \E k \in commits' :
                    /\ k.row = r /\ k.era = era'[r.subject_id]
                    /\ \A j \in commits' :
                          SameEra(j, k) => j.row.row_version <= r.row_version
      BY <2>1, <3>1, <3>2 DEF IndInv, RowIsLastCommit
    <3>5. \A r, q \in canonical_state' : r.subject_id = q.subject_id => r = q
      BY <3>1 DEF IndInv, RowIsLastCommit
    <3> QED
      BY <2>1, <3>3, <3>4, <3>5 DEF RowIsLastCommit, SameEra
  <2>7. LockedSnapshotIsCurrent'
    BY <2>1, <2>3 DEF IndInv, LockedSnapshotIsCurrent
  <2> QED
    BY <2>4, <2>5, <2>6, <2>7 DEF IndInv
<1>9. CASE UNCHANGED vars
  <2>1. TypeOK' /\ CommitShape' /\ LoadedWasCommitted'
    BY <1>9 DEF vars, IndInv, TypeOK, CommitShape, LoadedWasCommitted
  <2>2. RowIsLastCommit' /\ LockedSnapshotIsCurrent'
    BY <1>9 DEF vars, IndInv, RowIsLastCommit, LockedSnapshotIsCurrent, SameEra, RowsOf
  <2>3. NoLostUpdate' /\ VersionsFollowFreshness'
    BY <1>9 DEF vars, IndInv, NoLostUpdate, VersionsFollowFreshness, SameEra
  <2> QED
    BY <2>1, <2>2, <2>3 DEF IndInv
<1>10. ASSUME NEW c \in Callers, NEW p \in Projections, Recompute(c, p) PROVE IndInv'
  <2>1. /\ canonical_state' = canonical_state /\ holder' = holder /\ pc' = pc
        /\ era' = era /\ commits' = commits /\ seen' = seen /\ seenEra' = seenEra
        /\ want' = [want EXCEPT ![c] = {p}]
        /\ \E q \in want[c] : q.subject_id = p.subject_id
    BY <1>10 DEF Recompute
  <2>2. TypeOK' /\ CommitShape'
    BY <2>1 DEF IndInv, TypeOK, CommitShape
  <2>3. RowIsLastCommit' /\ LockedSnapshotIsCurrent'
    BY <2>1 DEF IndInv, RowIsLastCommit, LockedSnapshotIsCurrent, SameEra, RowsOf
  <2>4. NoLostUpdate' /\ VersionsFollowFreshness'
    BY <2>1 DEF IndInv, NoLostUpdate, VersionsFollowFreshness, SameEra
  <2>5. LoadedWasCommitted'
    BY <2>1 DEF IndInv, TypeOK, LoadedWasCommitted
  <2> QED
    BY <2>2, <2>3, <2>4, <2>5 DEF IndInv
<1> QED
  BY <1>1, <1>2, <1>3, <1>4, <1>5, <1>6, <1>7, <1>8, <1>9, <1>10 DEF Next, CallerStep

-----------------------------------------------------------------------------
\* The inductive invariant, for any callers, subjects and projections.
THEOREM Invariance == Spec => []IndInv
BY InitIndInv, NextIndInv, PTL DEF Spec

\* Type correctness of ProjectionStore.
THEOREM TypeCorrect == Spec => []TypeOK
BY Invariance, PTL DEF IndInv

\* A writer that had loaded a row replaced that row and no other.
THEOREM LostUpdateFree == Spec => []NoLostUpdate
BY Invariance, PTL DEF IndInv

\* Versions and freshness tuples of a row grow together.
THEOREM VersionsAreFresh == Spec => []VersionsFollowFreshness
BY Invariance, PTL DEF IndInv

\* The snapshot of WithLockedProjection is the row while its lock is held.
THEOREM SnapshotCurrent == Spec => []LockedSnapshotIsCurrent
BY Invariance, PTL DEF IndInv

\* One writer succeeds for a positive version, and for version zero at most one
\* that creates the row and one that updates it.
THEOREM OneWinner == Spec => []OneWinnerPerVersion
<1>1. IndInv => OneWinnerPerVersion
  <2> SUFFICES ASSUME IndInv, NEW j \in commits, NEW k \in commits,
                      SameEra(j, k), j.expected = k.expected, j # k
               PROVE  /\ j.expected = 0
                      /\ (j.replaced = {}) # (k.replaced = {})
    BY DEF OneWinnerPerVersion
  <2>1. j.row.row_version # k.row.row_version
    BY DEF IndInv, VersionsFollowFreshness
  <2>2. /\ \/ j.replaced = {} /\ j.expected = 0 /\ j.row.row_version = 0
           \/ j.replaced # {} /\ j.row.row_version = j.expected + 1
        /\ \/ k.replaced = {} /\ k.expected = 0 /\ k.row.row_version = 0
           \/ k.replaced # {} /\ k.row.row_version = k.expected + 1
    BY DEF IndInv, CommitShape
  <2> QED
    BY <2>1, <2>2
<1> QED
  BY <1>1, Invariance, PTL

\* A row is created at version zero by a writer that expected version zero.
THEOREM StartsAtZero == Spec => []HistoryStartsAtZero
<1>1. IndInv => HistoryStartsAtZero
  BY DEF IndInv, CommitShape, HistoryStartsAtZero
<1> QED
  BY <1>1, Invariance, PTL

=============================================================================
