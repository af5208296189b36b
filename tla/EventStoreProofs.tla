--------------------------- MODULE EventStoreProofs ---------------------------
(***************************************************************************)
(* EventStore: type correctness, one event per key, the freshest revision, *)
(* its agreement with Go's order, and rows that only advance, for any      *)
(* number of workers and any deliveries.                                   *)
(***************************************************************************)
EXTENDS EventStore, FreshnessProofs

\* What Canonicalize gives every fact: a freshness tuple that carries the event
\* key, and a fact key made of the four logical fields.
LEMMA FactFields ==
    ASSUME NEW f \in Facts
    PROVE  /\ f.freshness \in FreshnessTuple
           /\ f.event_key \in EventKeys
           /\ f.freshness.physical_event_key = f.event_key
           /\ f.effective_time \in Instants
           /\ f.fact_key = <<f.subject_id, f.source_scope, f.event_type,
                             f.effective_time>>
<1>1. PICK d \in Deliveries : f = Canonicalize(d[1], d[2])
  BY DEF Facts
<1>2. d[1] \in PhysicalEvent /\ Canonical(d[1])
  BY <1>1, EventStoreAssumption
<1>3. /\ KeyRank[d[1].event_key] \in EventKeys
      /\ d[1].modification_time.instant \in Instants
      /\ d[1].effective_time.instant \in Instants
      /\ d[1].source_sequence \in Int /\ d[1].revision_number \in Int
  BY <1>2, SpellingAssumption DEF PhysicalEvent, ZonedTimes
<1>4. d[1].source_sequence \in Nat /\ d[1].revision_number \in Nat
  <2>1. d[1].source_sequence >= 0 /\ d[1].revision_number >= 0
    BY <1>2, Zenon DEF Canonical
  <2> QED
    BY <2>1, <1>3
<1>5. f.freshness = [source_sequence |-> d[1].source_sequence,
                     modification_time |-> d[1].modification_time.instant,
                     revision_number |-> d[1].revision_number,
                     physical_event_key |-> KeyRank[d[1].event_key]]
  BY <1>1 DEF Canonicalize, NormalizeTime
<1>6. f.freshness \in FreshnessTuple
  BY <1>3, <1>4, <1>5 DEF FreshnessTuple
<1>7. /\ f.event_key = KeyRank[d[1].event_key]
      /\ f.effective_time = d[1].effective_time.instant
      /\ f.fact_key = <<f.subject_id, f.source_scope, f.event_type,
                        f.effective_time>>
  BY <1>1 DEF Canonicalize, NormalizeTime, MakeFactKey
<1> QED
  BY <1>3, <1>5, <1>6, <1>7

\* The columns the proofs look at, of the rows written for a fact
LEMMA RowFields ==
    ASSUME NEW f \in Facts
    PROVE  /\ PhysicalRow(f).event_key = f.event_key
           /\ PhysicalRow(f).payload_hash = f.payload_hash
           /\ PhysicalRow(f).freshness = TupleColumns(f.freshness)
           /\ CanonicalRow(f).fact_key = f.fact_key
           /\ CanonicalRow(f).event_key = f.event_key
           /\ CanonicalRow(f).payload_hash = f.payload_hash
           /\ CanonicalRow(f).freshness = TupleColumns(f.freshness)
           /\ CanonicalRow(f).freshness \in FreshnessTuple
BY FactFields, TupleColumnsType DEF PhysicalRow, CanonicalRow

\* A stored event that matches a fact has its key, its hash and its freshness.
LEMMA MatchFields ==
    ASSUME NEW f \in Facts, NEW g \in Facts,
           PhysicalEventMatches(PhysicalRow(g), f)
    PROVE  /\ g.event_key = f.event_key
           /\ g.payload_hash = f.payload_hash
           /\ TupleColumns(g.freshness) = TupleColumns(f.freshness)
BY DEF PhysicalEventMatches, PhysicalRow

\* A fact matches the row written for it.
LEMMA MatchSelf ==
    ASSUME NEW f \in Facts
    PROVE  PhysicalEventMatches(PhysicalRow(f), f)
BY DEF PhysicalEventMatches, PhysicalRow

\* Updating the row of a fact key to a revision gives the whole row of that
\* revision: the columns the statement leaves alone are functions of the key.
LEMMA UpdatedRowIsNewRow ==
    ASSUME NEW f \in Facts, NEW g \in Facts, g.fact_key = f.fact_key
    PROVE  UpdatedRow(CanonicalRow(g), CanonicalRow(f)) = CanonicalRow(f)
<1>1. /\ g.subject_id = f.subject_id /\ g.source_scope = f.source_scope
      /\ g.event_type = f.event_type /\ g.effective_time = f.effective_time
  BY FactFields
<1> DEFINE old == CanonicalRow(g)
           new == CanonicalRow(f)
           logical == {"fact_key", "subject_id", "event_type", "source_scope",
                       "effective_time"}
           revised == {"event_key", "end_time", "freshness", "payload_hash",
                       "attributes", "received_at"}
<1>2. \A c \in logical : old[c] = new[c]
  BY <1>1 DEF CanonicalRow
<1>3. DOMAIN old = logical \cup revised /\ DOMAIN new = logical \cup revised
  BY DEF CanonicalRow
<1>4. old = [c \in DOMAIN old |-> old[c]] /\ new = [c \in DOMAIN new |-> new[c]]
  BY DEF CanonicalRow
<1> HIDE DEF old, new
<1>5. UpdatedRow(old, new) = new
  BY <1>2, <1>3, <1>4 DEF UpdatedRow
<1> QED
  BY <1>5 DEF old, new

-----------------------------------------------------------------------------
\* The upsert of an acknowledged fact: the table holds rows of known facts, one
\* per fact key, and the freshest revision of what was offered.
LEMMA UpsertKeepsFreshest ==
    ASSUME IndInv, NEW f \in acknowledged,
           canonical_facts' = Upserted(CanonicalRow(f)),
           offered' = offered \cup {f}
    PROVE  /\ canonical_facts' \subseteq {CanonicalRow(g) : g \in Facts}
           /\ \A r, q \in canonical_facts' : r.fact_key = q.fact_key => r = q
           /\ FreshestRevisionStored'
<1> DEFINE new == CanonicalRow(f)
           held == {row \in canonical_facts : row.fact_key = new.fact_key}
           older == {row \in held : StoredOlder(row.freshness, new.freshness)}
<1>1. f \in Facts /\ offered \subseteq Facts
  BY DEF IndInv, TypeOK
<1>2. \A row \in canonical_facts : \E g \in offered : row = CanonicalRow(g)
  BY DEF IndInv, FreshestRevisionStored
<1>3. \A row \in older : UpdatedRow(row, new) = new
  BY <1>1, <1>2, RowFields, UpdatedRowIsNewRow
<1>4. /\ new.fact_key = f.fact_key /\ new.freshness = TupleColumns(f.freshness)
      /\ new.freshness \in FreshnessTuple
  BY <1>1, RowFields
<1>5. \A row \in canonical_facts : row.freshness \in FreshnessTuple
  BY <1>1, <1>2, RowFields
<1>6. \A r, q \in canonical_facts : r.fact_key = q.fact_key => r = q
  BY DEF IndInv, KeysUnique
<1>7. \/ held = {} /\ canonical_facts' = canonical_facts \cup {new}
      \/ \E row \in held : /\ held = {row}
                           /\ StoredOlder(row.freshness, new.freshness)
                           /\ canonical_facts' = (canonical_facts \ {row}) \cup {new}
      \/ \E row \in held : /\ held = {row}
                           /\ ~StoredOlder(row.freshness, new.freshness)
                           /\ canonical_facts' = canonical_facts
  <2>1. CASE held = {}
    BY <2>1 DEF Upserted
  <2>2. CASE held # {}
    <3>1. PICK row \in held : held = {row}
      BY <2>2, <1>6
    <3>2. canonical_facts' = (canonical_facts \ older) \cup {UpdatedRow(q, new) : q \in older}
      BY <2>2 DEF Upserted
    <3>3. CASE StoredOlder(row.freshness, new.freshness)
      <4>1. older = {row}
        BY <3>1, <3>3
      <4>2. {UpdatedRow(q, new) : q \in older} = {new}
        BY <4>1, <1>3
      <4> QED
        BY <3>1, <3>2, <3>3, <4>1, <4>2
    <3>4. CASE ~StoredOlder(row.freshness, new.freshness)
      <4>1. older = {}
        BY <3>1, <3>4
      <4>2. canonical_facts' = canonical_facts
        BY <3>2, <4>1
      <4> QED
        BY <3>1, <3>4, <4>2
    <3> QED
      BY <3>3, <3>4
  <2> QED
    BY <2>1, <2>2
<1> HIDE DEF new, older
<1>8. \A r, q \in canonical_facts' : r.fact_key = q.fact_key => r = q
  BY <1>6, <1>7
<1>9. \A row \in canonical_facts' : \E g \in offered' : row = CanonicalRow(g)
  BY <1>2, <1>7 DEF new
<1>10. ASSUME NEW g \in offered'
       PROVE  \E row \in canonical_facts' :
                 /\ row.fact_key = g.fact_key
                 /\ ~StoredOlder(row.freshness, TupleColumns(g.freshness))
  <2>1. CASE g = f
    <3>1. ~StoredOlder(new.freshness, new.freshness)
      BY <1>4, StoredOlderTotal
    <3>2. CASE new \in canonical_facts'
      BY <2>1, <3>1, <3>2, <1>4
    <3>3. CASE new \notin canonical_facts'
      BY <2>1, <3>3, <1>4, <1>7
    <3> QED
      BY <3>2, <3>3
  <2>2. CASE g \in offered
    <3>1. PICK row \in canonical_facts :
             /\ row.fact_key = g.fact_key
             /\ ~StoredOlder(row.freshness, TupleColumns(g.freshness))
      BY <2>2 DEF IndInv, FreshestRevisionStored
    <3>2. CASE row \in canonical_facts'
      BY <3>1, <3>2
    <3>3. CASE row \notin canonical_facts'
      <4>1. /\ row.fact_key = new.fact_key /\ new \in canonical_facts'
            /\ StoredOlder(row.freshness, new.freshness)
        BY <3>3, <1>7
      <4>2. TupleColumns(g.freshness) \in FreshnessTuple
        BY <2>2, <1>1, FactFields, TupleColumnsType
      <4>3. ~StoredOlder(new.freshness, TupleColumns(g.freshness))
        BY <4>1, <4>2, <3>1, <1>4, <1>5, StoredOlderTransitive
      <4> QED
        BY <4>1, <4>3, <3>1
    <3> QED
      BY <3>2, <3>3
  <2> QED
    BY <2>1, <2>2
<1> QED
  BY <1>1, <1>8, <1>9, <1>10 DEF FreshestRevisionStored


-----------------------------------------------------------------------------
\* The invariant holds in the empty database.
LEMMA InitIndInv == Init => IndInv
BY DEF Init, IndInv, TypeOK, KeysUnique, AcknowledgedStored, CreatedOnce,
       FreshestRevisionStored

\* A new physical event, acknowledged or not, keeps the rows' keys unique and
\* every acknowledged fact stored.
LEMMA InsertKeepsPhysical ==
    ASSUME IndInv, NEW f \in Facts, Absent(f),
           physical_events' = physical_events \cup {PhysicalRow(f)},
           canonical_facts' = canonical_facts
    PROVE  /\ physical_events' \subseteq {PhysicalRow(g) : g \in Facts}
           /\ KeysUnique'
           /\ \A g \in acknowledged \cup {f} :
                 \E row \in physical_events' : PhysicalEventMatches(row, g)
<1>1. physical_events' \subseteq {PhysicalRow(g) : g \in Facts}
  BY DEF IndInv, TypeOK
<1>2. KeysUnique'
  BY RowFields DEF IndInv, KeysUnique, Absent
<1>3. PhysicalEventMatches(PhysicalRow(f), f)
  BY MatchSelf
<1>4. \A g \in acknowledged : \E row \in physical_events : PhysicalEventMatches(row, g)
  BY DEF IndInv, AcknowledgedStored
<1> QED
  BY <1>1, <1>2, <1>3, <1>4

\* Every step keeps the invariant.
LEMMA NextIndInv == IndInv /\ [Next]_vars => IndInv'
<1> SUFFICES ASSUME IndInv, [Next]_vars PROVE IndInv'
  OBVIOUS
<1> USE DEF tables
<1>1. ASSUME NEW w \in Workers, NEW f \in Facts, Receive(w, f) PROVE IndInv'
  BY <1>1 DEF IndInv, TypeOK, KeysUnique, AcknowledgedStored, CreatedOnce,
              FreshestRevisionStored, Receive
<1>2. ASSUME NEW w \in Workers, Insert(w) PROVE IndInv'
  <2>1. PICK f \in fact[w] :
           /\ Absent(f)
           /\ physical_events' = physical_events \cup {PhysicalRow(f)}
           /\ created' = [created EXCEPT ![f.event_key] = @ + 1]
           /\ acknowledged' = acknowledged \cup {f}
    BY <1>2 DEF Insert
  <2>2. f \in Facts /\ fact[w] \subseteq Facts
    BY DEF IndInv, TypeOK
  <2>3. /\ pc' = [pc EXCEPT ![w] = "upsert"] /\ fact' = fact
        /\ canonical_facts' = canonical_facts /\ offered' = offered
    BY <1>2 DEF Insert, Goto
  <2>4. /\ physical_events' \subseteq {PhysicalRow(g) : g \in Facts}
        /\ KeysUnique'
        /\ \A g \in acknowledged' :
              \E row \in physical_events' : PhysicalEventMatches(row, g)
    BY <2>1, <2>2, <2>3, InsertKeepsPhysical
  <2>5. f.event_key \in EventKeys /\ created[f.event_key] = 0
    BY <2>1, <2>2, FactFields DEF IndInv, CreatedOnce, Absent
  <2>6. CreatedOnce' /\ created' \in [EventKeys -> Nat]
    BY <2>1, <2>2, <2>5, RowFields DEF IndInv, TypeOK, CreatedOnce
  <2>7. fact[w] = {f}
    BY <2>1 DEF IndInv, AcknowledgedStored
  <2>8. TypeOK'
    BY <2>1, <2>2, <2>3, <2>4, <2>6 DEF IndInv, TypeOK
  <2>9. AcknowledgedStored'
    BY <2>1, <2>3, <2>4, <2>7 DEF IndInv, TypeOK, AcknowledgedStored
  <2>10. FreshestRevisionStored'
    BY <2>3 DEF IndInv, FreshestRevisionStored
  <2> QED
    BY <2>4, <2>6, <2>8, <2>9, <2>10 DEF IndInv
<1>3. ASSUME NEW w \in Workers, InsertUnanswered(w) PROVE IndInv'
  <2>1. PICK f \in fact[w] :
           Absent(f) /\ physical_events' = physical_events \cup {PhysicalRow(f)}
    BY <1>3 DEF InsertUnanswered
  <2>2. f \in Facts
    BY DEF IndInv, TypeOK
  <2>3. /\ pc' = [pc EXCEPT ![w] = "idle"] /\ fact' = [fact EXCEPT ![w] = {}]
        /\ canonical_facts' = canonical_facts /\ offered' = offered
        /\ created' = created /\ acknowledged' = acknowledged
    BY <1>3 DEF InsertUnanswered, Release
  <2>4. /\ physical_events' \subseteq {PhysicalRow(g) : g \in Facts}
        /\ KeysUnique'
        /\ \A g \in acknowledged' :
              \E row \in physical_events' : PhysicalEventMatches(row, g)
    BY <2>1, <2>2, <2>3, InsertKeepsPhysical
  <2>5. TypeOK'
    BY <2>3, <2>4 DEF IndInv, TypeOK
  <2>6. AcknowledgedStored'
    BY <2>3, <2>4 DEF IndInv, TypeOK, AcknowledgedStored
  <2>7. CreatedOnce'
    BY <2>1, <2>3 DEF IndInv, CreatedOnce
  <2>8. FreshestRevisionStored'
    BY <2>3 DEF IndInv, FreshestRevisionStored
  <2> QED
    BY <2>4, <2>5, <2>6, <2>7, <2>8 DEF IndInv
<1>4. ASSUME NEW w \in Workers, InsertConflict(w) PROVE IndInv'
  BY <1>4 DEF IndInv, TypeOK, KeysUnique, AcknowledgedStored, CreatedOnce,
              FreshestRevisionStored, InsertConflict, Goto
<1>5. ASSUME NEW w \in Workers, Verify(w) PROVE IndInv'
  <2>1. PICK f \in fact[w], row \in physical_events :
           /\ row.event_key = f.event_key
           /\ IF PhysicalEventMatches(row, f)
              THEN acknowledged' = acknowledged \cup {f} /\ Goto(w, "upsert")
              ELSE Release(w) /\ UNCHANGED acknowledged
    BY <1>5 DEF Verify
  <2>2. /\ physical_events' = physical_events /\ canonical_facts' = canonical_facts
        /\ created' = created /\ offered' = offered
    BY <1>5 DEF Verify
  <2>3. f \in Facts
    BY DEF IndInv, TypeOK
  <2>4. fact[w] = {f}
    BY <2>1 DEF IndInv, AcknowledgedStored
  <2>5. TypeOK'
    BY <2>1, <2>2, <2>3 DEF IndInv, TypeOK, Goto, Release
  <2>6. AcknowledgedStored'
    <3>1. CASE PhysicalEventMatches(row, f)
      <4>1. /\ acknowledged' = acknowledged \cup {f}
            /\ pc' = [pc EXCEPT ![w] = "upsert"] /\ fact' = fact
        BY <2>1, <3>1 DEF Goto
      <4> QED
        BY <4>1, <3>1, <2>2, <2>4 DEF IndInv, TypeOK, AcknowledgedStored
    <3>2. CASE ~PhysicalEventMatches(row, f)
      <4>1. /\ acknowledged' = acknowledged
            /\ pc' = [pc EXCEPT ![w] = "idle"] /\ fact' = [fact EXCEPT ![w] = {}]
        BY <2>1, <3>2 DEF Release
      <4> QED
        BY <4>1, <2>2 DEF IndInv, TypeOK, AcknowledgedStored
    <3> QED
      BY <3>1, <3>2
  <2>7. KeysUnique' /\ CreatedOnce' /\ FreshestRevisionStored'
    BY <2>2 DEF IndInv, KeysUnique, CreatedOnce, FreshestRevisionStored
  <2> QED
    BY <2>5, <2>6, <2>7 DEF IndInv
<1>6. ASSUME NEW w \in Workers, Upsert(w) PROVE IndInv'
  <2>1. /\ pc' = [pc EXCEPT ![w] = "idle"] /\ fact' = [fact EXCEPT ![w] = {}]
        /\ physical_events' = physical_events
        /\ created' = created /\ acknowledged' = acknowledged
    BY <1>6 DEF Upsert, Release
  <2>2. CASE canonical_facts' = canonical_facts /\ offered' = offered
    BY <2>1, <2>2 DEF IndInv, TypeOK, KeysUnique, AcknowledgedStored, CreatedOnce,
                      FreshestRevisionStored
  <2>3. ASSUME NEW f \in fact[w],
               canonical_facts' = Upserted(CanonicalRow(f)),
               offered' = offered \cup {f}
        PROVE  IndInv'
    <3>1. f \in acknowledged
      BY <1>6 DEF Upsert, IndInv, AcknowledgedStored
    <3>2. /\ canonical_facts' \subseteq {CanonicalRow(g) : g \in Facts}
          /\ \A r, q \in canonical_facts' : r.fact_key = q.fact_key => r = q
          /\ FreshestRevisionStored'
      BY <3>1, <2>3, UpsertKeepsFreshest
    <3>3. TypeOK'
      BY <3>1, <3>2, <2>1, <2>3 DEF IndInv, TypeOK
    <3>4. KeysUnique' /\ CreatedOnce'
      BY <3>2, <2>1 DEF IndInv, KeysUnique, CreatedOnce
    <3>5. AcknowledgedStored'
      BY <3>1, <2>1, <2>3 DEF IndInv, TypeOK, AcknowledgedStored
    <3> QED
      BY <3>2, <3>3, <3>4, <3>5 DEF IndInv
  <2> QED
    BY <1>6, <2>2, <2>3 DEF Upsert
<1>7. ASSUME NEW w \in Workers, Abandon(w) PROVE IndInv'
  BY <1>7 DEF IndInv, TypeOK, KeysUnique, AcknowledgedStored, CreatedOnce,
              FreshestRevisionStored, Abandon, Release
<1>8. CASE UNCHANGED vars
  BY <1>8 DEF IndInv, TypeOK, KeysUnique, AcknowledgedStored, CreatedOnce,
              FreshestRevisionStored, vars
<1> QED
  BY <1>1, <1>2, <1>3, <1>4, <1>5, <1>6, <1>7, <1>8 DEF Next

-----------------------------------------------------------------------------
\* The inductive invariant, for any number of workers and any deliveries.
THEOREM Invariance == Spec => []IndInv
BY InitIndInv, NextIndInv, PTL DEF Spec

\* Type correctness of EventStore.
THEOREM TypeCorrect == Spec => []TypeOK
BY Invariance, PTL DEF IndInv

\* The row of a fact key is one whole offered revision and none is newer by the
\* order of the columns, in whatever order and however often facts are upserted.
THEOREM FreshestStored == Spec => []FreshestRevisionStored
BY Invariance, PTL DEF IndInv

\* InsertPhysicalEvent creates a key once and accepts one event under it.
THEOREM OneEvent == Spec => []OneEventPerKey
<1>1. IndInv => OneEventPerKey
  <2> SUFFICES ASSUME IndInv PROVE OneEventPerKey
    OBVIOUS
  <2>1. \A k \in EventKeys : created[k] <= 1
    <3> SUFFICES ASSUME NEW k \in EventKeys PROVE created[k] <= 1
      OBVIOUS
    <3>1. created[k] = 0 \/ created[k] = 1
      BY DEF IndInv, CreatedOnce
    <3> QED
      BY <3>1
  <2>2. ASSUME NEW f \in acknowledged, NEW g \in acknowledged,
               f.event_key = g.event_key
        PROVE  f.payload_hash = g.payload_hash
    <3>1. f \in Facts /\ g \in Facts
      BY DEF IndInv, TypeOK
    <3>2. PICK d \in Facts : /\ PhysicalRow(d) \in physical_events
                             /\ PhysicalEventMatches(PhysicalRow(d), f)
      BY DEF IndInv, TypeOK, AcknowledgedStored
    <3>3. PICK e \in Facts : /\ PhysicalRow(e) \in physical_events
                             /\ PhysicalEventMatches(PhysicalRow(e), g)
      BY DEF IndInv, TypeOK, AcknowledgedStored
    <3>4. PhysicalRow(d).event_key = PhysicalRow(e).event_key
      BY <2>2, <3>1, <3>2, <3>3, MatchFields, RowFields
    <3>5. PhysicalRow(d) = PhysicalRow(e)
      BY <3>2, <3>3, <3>4 DEF IndInv, KeysUnique
    <3> QED
      BY <3>1, <3>2, <3>3, <3>5, MatchFields, RowFields
  <2> QED
    BY <2>1, <2>2 DEF OneEventPerKey
<1> QED
  BY <1>1, Invariance, PTL

\* Every canonical fact has the content of the stored physical event of its key.
THEOREM Backed == Spec => []BackedByPhysicalEvent
<1>1. IndInv => BackedByPhysicalEvent
  <2> SUFFICES ASSUME IndInv, NEW row \in canonical_facts
               PROVE  \E event \in physical_events :
                         /\ event.event_key = row.event_key
                         /\ event.payload_hash = row.payload_hash
                         /\ event.freshness = row.freshness
    BY DEF BackedByPhysicalEvent
  <2>1. PICK f \in offered : row = CanonicalRow(f)
    BY DEF IndInv, FreshestRevisionStored
  <2>2. f \in acknowledged /\ f \in Facts
    BY DEF IndInv, TypeOK
  <2>3. PICK d \in Facts : /\ PhysicalRow(d) \in physical_events
                           /\ PhysicalEventMatches(PhysicalRow(d), f)
    BY <2>2 DEF IndInv, TypeOK, AcknowledgedStored
  <2> QED
    BY <2>1, <2>2, <2>3, MatchFields, RowFields
<1> QED
  BY <1>1, Invariance, PTL

\* Canonicalize computes every field of a fact but the event key and the time of
\* the delivery from what it hashes.
LEMMA HashDeterminesFact ==
    ASSUME NEW f \in Facts, NEW g \in Facts,
           f.event_key = g.event_key, f.payload_hash = g.payload_hash
    PROVE  /\ f.subject_id = g.subject_id /\ f.event_type = g.event_type
           /\ f.source_scope = g.source_scope /\ f.effective_time = g.effective_time
           /\ f.end_time = g.end_time /\ f.attributes = g.attributes
           /\ f.fact_key = g.fact_key /\ f.freshness = g.freshness
<1>1. PICK d \in Deliveries : f = Canonicalize(d[1], d[2])
  BY DEF Facts
<1>2. PICK e \in Deliveries : g = Canonicalize(e[1], e[2])
  BY DEF Facts
<1>3. PayloadHash(d[1]) = PayloadHash(e[1])
  BY <1>1, <1>2 DEF Canonicalize
<1>4. /\ f.subject_id = g.subject_id /\ f.event_type = g.event_type
      /\ f.source_scope = g.source_scope /\ f.effective_time = g.effective_time
      /\ f.end_time = g.end_time /\ f.attributes = g.attributes
      /\ f.fact_key = g.fact_key
  BY <1>1, <1>2, <1>3 DEF Canonicalize, PayloadHash
<1>5. f.freshness = g.freshness
  <2>1. /\ d[1].source_sequence = e[1].source_sequence
        /\ NormalizeTime(d[1].modification_time) = NormalizeTime(e[1].modification_time)
        /\ d[1].revision_number = e[1].revision_number
    BY <1>3 DEF PayloadHash
  <2>2. KeyRank[d[1].event_key] = KeyRank[e[1].event_key]
    BY <1>1, <1>2 DEF Canonicalize
  <2> QED
    BY <1>1, <1>2, <2>1, <2>2 DEF Canonicalize
<1> QED
  BY <1>4, <1>5

\* So with key and hash equal the rows of the canonical facts are equal.
LEMMA HashDeterminesRow ==
    ASSUME NEW f \in Facts, NEW g \in Facts,
           f.event_key = g.event_key, f.payload_hash = g.payload_hash
    PROVE  Undated(CanonicalRow(f)) = Undated(CanonicalRow(g))
<1> DEFINE one == CanonicalRow(f)
           other == CanonicalRow(g)
           columns == {"fact_key", "event_key", "subject_id", "event_type",
                       "source_scope", "effective_time", "end_time", "freshness",
                       "payload_hash", "attributes"}
<1>1. \A c \in columns : one[c] = other[c]
  <2>1. one.end_time = {Micros[t] : t \in f.end_time}
    BY DEF CanonicalRow
  <2>2. other.end_time = {Micros[t] : t \in g.end_time}
    BY DEF CanonicalRow
  <2>3. one.end_time = other.end_time
    BY HashDeterminesFact, <2>1, <2>2, Zenon
  <2>4. one.freshness = other.freshness
    BY HashDeterminesFact, RowFields
  <2>5. /\ one.fact_key = other.fact_key /\ one.event_key = other.event_key
        /\ one.payload_hash = other.payload_hash
    BY HashDeterminesFact, RowFields
  <2>6. /\ one.subject_id = other.subject_id /\ one.event_type = other.event_type
        /\ one.source_scope = other.source_scope
        /\ one.effective_time = other.effective_time
        /\ one.attributes = other.attributes
    BY HashDeterminesFact DEF CanonicalRow
  <2> HIDE DEF one, other
  <2> QED
    BY <2>3, <2>4, <2>5, <2>6
<1>2. /\ DOMAIN one = columns \cup {"received_at"}
      /\ DOMAIN other = columns \cup {"received_at"}
  BY DEF CanonicalRow
<1> HIDE DEF one, other
<1>3. Undated(one) = Undated(other)
  BY <1>1, <1>2 DEF Undated
<1> QED
  BY <1>3 DEF one, other

\* And the stored event of the one is an exact replay of the other.
LEMMA HashDeterminesMatch ==
    ASSUME NEW f \in Facts, NEW g \in Facts,
           f.event_key = g.event_key, f.payload_hash = g.payload_hash
    PROVE  PhysicalEventMatches(PhysicalRow(g), f)
<1> DEFINE one == PhysicalRow(f)
           other == PhysicalRow(g)
           columns == {"event_key", "subject_id", "event_type", "source_scope",
                       "effective_time", "end_time", "freshness", "payload_hash"}
<1>1. \A c \in columns : one[c] = other[c]
  <2>1. one.end_time = {Micros[t] : t \in f.end_time}
    BY DEF PhysicalRow
  <2>2. other.end_time = {Micros[t] : t \in g.end_time}
    BY DEF PhysicalRow
  <2>3. f.end_time = g.end_time
    BY HashDeterminesFact
  <2>4. one.end_time = other.end_time
    BY <2>1, <2>2, <2>3, Zenon
  <2>5. one.freshness = other.freshness
    BY HashDeterminesFact DEF PhysicalRow
  <2>6. /\ one.event_key = other.event_key /\ one.subject_id = other.subject_id
        /\ one.event_type = other.event_type /\ one.source_scope = other.source_scope
        /\ one.effective_time = other.effective_time
        /\ one.payload_hash = other.payload_hash
    BY HashDeterminesFact DEF PhysicalRow
  <2> HIDE DEF one, other
  <2> QED
    BY <2>4, <2>5, <2>6
<1>2. /\ one = [c \in columns \cup {"received_at"} |-> one[c]]
      /\ other = [c \in columns \cup {"received_at"} |-> other[c]]
  BY DEF PhysicalRow
<1> HIDE DEF one, other
<1>3. [other EXCEPT !.received_at = one.received_at] = one
  BY <1>1, <1>2
<1> QED
  BY <1>3 DEF PhysicalEventMatches, one, other

\* For any workers, deliveries and database, InsertPhysicalEvent accepts an exact
\* replay at any time.
THEOREM ReplaysAreAccepted == Spec => ReplaysAccepted
<1> DEFINE Accepted ==
        \A w \in Workers : \A f \in fact[w] :
           /\ Verify(w)
           /\ \E row \in physical_events :
                 row.event_key = f.event_key /\ row.payload_hash = f.payload_hash
           => f \in acknowledged'
<1>1. ASSUME IndInv, NEW w \in Workers, NEW f \in fact[w], Verify(w),
             NEW row \in physical_events,
             row.event_key = f.event_key, row.payload_hash = f.payload_hash
      PROVE  f \in acknowledged'
  <2>1. f \in Facts
    BY <1>1 DEF IndInv, TypeOK
  <2>2. PICK g \in Facts : row = PhysicalRow(g)
    BY <1>1 DEF IndInv, TypeOK
  <2>3. row.event_key = g.event_key /\ row.payload_hash = g.payload_hash
    BY <2>2 DEF PhysicalRow
  <2>4. PhysicalEventMatches(row, f)
    BY <1>1, <2>1, <2>2, <2>3, HashDeterminesMatch
  <2>5. PICK h \in fact[w], q \in physical_events :
           /\ q.event_key = h.event_key
           /\ PhysicalEventMatches(q, h) => acknowledged' = acknowledged \cup {h}
    BY <1>1 DEF Verify
  <2>6. h = f
    BY <1>1 DEF IndInv, AcknowledgedStored
  <2>7. q = row
    BY <1>1, <2>5, <2>6 DEF IndInv, KeysUnique
  <2> QED
    BY <2>4, <2>5, <2>6, <2>7
<1>2. IndInv /\ [Next]_vars => [Accepted]_vars
  BY <1>1
<1> QED
  BY <1>2, Invariance, PTL DEF Spec, ReplaysAccepted

\* On every database the table is, apart from received_at, a function of the set of
\* facts that UpsertCanonicalFact was offered: neither the order of the upserts nor
\* replays, races between workers or failed calls can be seen in it.
THEOREM TableDetermined == Spec => []TableDependsOnSetOnly
<1>1. ASSUME IndInv, OneEventPerKey
      PROVE  TableDependsOnSetOnly
  <2>1. offered \subseteq Facts /\ offered \subseteq acknowledged
    BY <1>1 DEF IndInv, TypeOK
  <2>2. \A row \in canonical_facts : \E f \in offered : row = CanonicalRow(f)
    BY <1>1 DEF IndInv, FreshestRevisionStored
  <2>3. ASSUME NEW row \in canonical_facts
        PROVE  \E f \in Newest(offered) : row = CanonicalRow(f)
    <3>1. PICK f \in offered : row = CanonicalRow(f)
      BY <2>2
    <3>2. row.fact_key = f.fact_key /\ row.freshness = TupleColumns(f.freshness)
      BY <2>1, <3>1, RowFields
    <3>3. ASSUME NEW g \in offered, g.fact_key = f.fact_key
          PROVE  ~StoredOlder(TupleColumns(f.freshness), TupleColumns(g.freshness))
      <4>1. PICK q \in canonical_facts :
               /\ q.fact_key = g.fact_key
               /\ ~StoredOlder(q.freshness, TupleColumns(g.freshness))
        BY <1>1 DEF IndInv, FreshestRevisionStored
      <4>2. q = row
        BY <1>1, <3>2, <3>3, <4>1 DEF IndInv, KeysUnique
      <4> QED
        BY <3>2, <4>1, <4>2
    <3> QED
      BY <3>1, <3>3 DEF Newest
  <2>4. ASSUME NEW f \in Newest(offered)
        PROVE  \E row \in canonical_facts : Undated(row) = Undated(CanonicalRow(f))
    <3>1. f \in offered
      BY DEF Newest
    <3>2. PICK row \in canonical_facts :
             /\ row.fact_key = f.fact_key
             /\ ~StoredOlder(row.freshness, TupleColumns(f.freshness))
      BY <1>1, <3>1 DEF IndInv, FreshestRevisionStored
    <3>3. PICK g \in offered : row = CanonicalRow(g)
      BY <2>2
    <3>4. g.fact_key = f.fact_key /\ row.freshness = TupleColumns(g.freshness)
      BY <2>1, <3>2, <3>3, RowFields
    <3>5. ~StoredOlder(TupleColumns(f.freshness), TupleColumns(g.freshness))
      BY <3>4 DEF Newest
    <3>6. /\ TupleColumns(f.freshness) \in FreshnessTuple
          /\ TupleColumns(g.freshness) \in FreshnessTuple
          /\ TupleColumns(f.freshness).physical_event_key = f.event_key
          /\ TupleColumns(g.freshness).physical_event_key = g.event_key
      BY <2>1, <3>1, FactFields, TupleColumnsType
    <3>7. TupleColumns(f.freshness) = TupleColumns(g.freshness)
      BY <3>2, <3>4, <3>5, <3>6, StoredOlderTotal
    <3>8. f.event_key = g.event_key
      BY <3>6, <3>7
    <3>9. f.payload_hash = g.payload_hash
      BY <1>1, <2>1, <3>1, <3>8 DEF OneEventPerKey
    <3> QED
      BY <2>1, <3>1, <3>3, <3>8, <3>9, HashDeterminesRow
  <2> QED
    BY <2>3, <2>4 DEF TableDependsOnSetOnly
<1> QED
  BY <1>1, Invariance, OneEvent, PTL

\* The freshest revision of every logical fact, as ResolveBatch picks it
Winners(S) ==
    {f \in S : \A g \in S :
        g.fact_key = f.fact_key => Compare(g.freshness, f.freshness) <= 0}

\* When the database orders what it stores as Go does, the table is what
\* ResolveBatch keeps of the facts offered: the rows of the winners, no fact
\* missing and none besides. Reading the table back or resolving the events again
\* starts the projection loop from the same facts.
THEOREM TableHoldsWinners ==
    ASSUME DatabaseOrdersAsGo
    PROVE  Spec => []({Undated(row) : row \in canonical_facts}
                        = {Undated(CanonicalRow(f)) : f \in Winners(offered)})
<1>1. ASSUME TypeOK
      PROVE  Newest(offered) = Winners(offered)
  <2>1. offered \subseteq Facts
    BY <1>1 DEF TypeOK
  <2>2. ASSUME NEW f \in offered, NEW g \in offered
        PROVE  ~StoredOlder(TupleColumns(f.freshness), TupleColumns(g.freshness))
                 <=> Compare(g.freshness, f.freshness) <= 0
    <3>1. f.freshness \in FreshnessTuple /\ g.freshness \in FreshnessTuple
      BY <2>1, FactFields
    <3>2. StoredOlder(TupleColumns(f.freshness), TupleColumns(g.freshness))
             <=> Compare(f.freshness, g.freshness) < 0
      BY <3>1, DatabaseOrdersAsGo, SqlOrderIsGoOrder
    <3>3. /\ Compare(g.freshness, f.freshness) \in {-1, 0, 1}
          /\ Compare(f.freshness, g.freshness) < 0
                <=> Compare(g.freshness, f.freshness) > 0
      BY <3>1, CompareTotal
    <3> QED
      BY <3>2, <3>3
  <2> QED
    BY <2>2 DEF Newest, Winners
<1>2. TypeOK /\ TableDependsOnSetOnly =>
         {Undated(row) : row \in canonical_facts}
            = {Undated(CanonicalRow(f)) : f \in Winners(offered)}
  BY <1>1 DEF TableDependsOnSetOnly
<1> QED
  BY <1>2, TypeCorrect, TableDetermined, PTL

\* When the database orders what it stores as Go does, the stored revision of a
\* fact is the winner that FreshnessTuple.Compare picks.
THEOREM GoFreshestStored ==
    ASSUME DatabaseOrdersAsGo
    PROVE  Spec => []StoredRevisionIsGoFreshest
<1>1. IndInv => StoredRevisionIsGoFreshest
  <2> SUFFICES ASSUME IndInv, NEW row \in canonical_facts
               PROVE  \E f \in offered :
                         /\ row = CanonicalRow(f)
                         /\ \A g \in offered :
                               g.fact_key = f.fact_key =>
                                   Compare(g.freshness, f.freshness) <= 0
    BY DEF StoredRevisionIsGoFreshest
  <2>1. PICK f \in offered : row = CanonicalRow(f)
    BY DEF IndInv, FreshestRevisionStored
  <2>2. offered \subseteq Facts
    BY DEF IndInv, TypeOK
  <2>3. ASSUME NEW g \in offered, g.fact_key = f.fact_key
        PROVE  Compare(g.freshness, f.freshness) <= 0
    <3>1. PICK q \in canonical_facts :
             /\ q.fact_key = g.fact_key
             /\ ~StoredOlder(q.freshness, TupleColumns(g.freshness))
      BY DEF IndInv, FreshestRevisionStored
    <3>2. q = row
      BY <2>1, <2>2, <2>3, <3>1, RowFields DEF IndInv, KeysUnique
    <3>3. ~StoredOlder(TupleColumns(f.freshness), TupleColumns(g.freshness))
      BY <2>1, <2>2, <3>1, <3>2, RowFields
    <3>4. f.freshness \in FreshnessTuple /\ g.freshness \in FreshnessTuple
      BY <2>2, FactFields
    <3>5. ~(Compare(f.freshness, g.freshness) < 0)
      BY <3>3, <3>4, DatabaseOrdersAsGo, SqlOrderIsGoOrder
    <3> QED
      BY <3>4, <3>5, CompareTotal
  <2> QED
    BY <2>1, <2>3
<1> QED
  BY <1>1, Invariance, PTL

\* With whole microseconds no upsert of an accepted event meets a constraint.
THEOREM NeverRefused ==
    ASSUME DatabaseOrdersAsGo
    PROVE  Spec => []UpsertNeverRefused
<1>1. IndInv => UpsertNeverRefused
  <2> SUFFICES ASSUME IndInv, NEW w \in Workers, pc[w] = "upsert", NEW f \in fact[w]
               PROVE  /\ ReferencesPhysical(CanonicalRow(f))
                      /\ ~ViolatesUnique(CanonicalRow(f))
    BY DEF UpsertNeverRefused
  <2>1. f \in acknowledged /\ f \in Facts
    BY DEF IndInv, TypeOK, AcknowledgedStored
  <2>2. PICK d \in Facts : /\ PhysicalRow(d) \in physical_events
                           /\ PhysicalEventMatches(PhysicalRow(d), f)
    BY <2>1 DEF IndInv, TypeOK, AcknowledgedStored
  <2>3. ReferencesPhysical(CanonicalRow(f))
    BY <2>1, <2>2, MatchFields, RowFields DEF ReferencesPhysical
  <2>4. ASSUME NEW g \in Facts,
               CanonicalRow(g).subject_id = CanonicalRow(f).subject_id,
               CanonicalRow(g).source_scope = CanonicalRow(f).source_scope,
               CanonicalRow(g).event_type = CanonicalRow(f).event_type,
               CanonicalRow(g).effective_time = CanonicalRow(f).effective_time
        PROVE  CanonicalRow(g).fact_key = CanonicalRow(f).fact_key
    <3>1. /\ g.subject_id = f.subject_id /\ g.source_scope = f.source_scope
          /\ g.event_type = f.event_type
          /\ Micros[g.effective_time] = Micros[f.effective_time]
      BY <2>4 DEF CanonicalRow
    <3>2. g.effective_time = f.effective_time
      BY <2>1, <3>1, FactFields, DatabaseOrdersAsGo DEF DatabaseOrdersAsGo
    <3> QED
      BY <2>1, <3>1, <3>2, FactFields, RowFields
  <2>5. ~ViolatesUnique(CanonicalRow(f))
    BY <2>4 DEF ViolatesUnique, IndInv, TypeOK
  <2> QED
    BY <2>3, <2>5
<1> QED
  BY <1>1, Invariance, PTL

\* No step edits a physical event, and a canonical fact only gives way to a newer
\* revision of itself.
THEOREM RowsAdvance == Spec => RowsOnlyAdvance
<1> DEFINE Advance ==
        /\ physical_events \subseteq physical_events'
        /\ \A row \in canonical_facts :
              \E new \in canonical_facts' :
                  /\ new.fact_key = row.fact_key
                  /\ new = row \/ StoredOlder(row.freshness, new.freshness)
<1>1. ASSUME IndInv, Next PROVE Advance
  <2>1. physical_events \subseteq physical_events'
    BY <1>1 DEF Next, Receive, Insert, InsertUnanswered, InsertConflict, Verify,
                Upsert, Abandon, tables
  <2>2. CASE canonical_facts' = canonical_facts
    BY <2>1, <2>2
  <2>3. CASE canonical_facts' # canonical_facts
    <3>1. PICK w \in Workers : \E f \in fact[w] :
             canonical_facts' = Upserted(CanonicalRow(f))
      BY <1>1, <2>3 DEF Next, Receive, Insert, InsertUnanswered, InsertConflict,
                        Verify, Upsert, Abandon, tables
    <3>2. PICK f \in fact[w] : canonical_facts' = Upserted(CanonicalRow(f))
      BY <3>1
    <3> DEFINE new == CanonicalRow(f)
    <3>3. f \in Facts /\ offered \subseteq Facts
      BY <1>1 DEF IndInv, TypeOK
    <3>4. ASSUME NEW row \in canonical_facts, row \notin canonical_facts'
          PROVE  \E q \in canonical_facts' :
                    /\ q.fact_key = row.fact_key
                    /\ StoredOlder(row.freshness, q.freshness)
      <4>1. /\ row.fact_key = new.fact_key
            /\ StoredOlder(row.freshness, new.freshness)
            /\ UpdatedRow(row, new) \in canonical_facts'
        BY <3>2, <3>4 DEF Upserted
      <4>2. PICK g \in offered : row = CanonicalRow(g)
        BY <1>1 DEF IndInv, FreshestRevisionStored
      <4>3. UpdatedRow(row, new) = new
        BY <3>3, <4>1, <4>2, RowFields, UpdatedRowIsNewRow
      <4> QED
        BY <4>1, <4>3
    <3> QED
      BY <2>1, <3>4
  <2> QED
    BY <2>2, <2>3
<1>2. IndInv /\ [Next]_vars => [Advance]_vars
  BY <1>1
<1> QED
  BY <1>2, Invariance, PTL DEF Spec, RowsOnlyAdvance

=============================================================================
