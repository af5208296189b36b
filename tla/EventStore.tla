------------------------------ MODULE EventStore ------------------------------
(***************************************************************************)
(* The tables physical_events and canonical_facts of schema/postgres.sql   *)
(* and the two calls that write them: Store.InsertPhysicalEvent, two SQL   *)
(* statements, and Store.UpsertCanonicalFact, one                          *)
(* (pkg/store/postgres/postgres.go).                                       *)
(*                                                                         *)
(* The callers are ingestion workers outside the repository, which deliver *)
(* facts concurrently, in any order and any number of times. A worker      *)
(* upserts a fact after its physical event was accepted, as the foreign    *)
(* key wants it. Each statement is a transaction of its own, so it is one  *)
(* atomic step. A call may fail at any point: before a statement takes     *)
(* effect, or after it did and before the worker learns of it.             *)
(***************************************************************************)
EXTENDS Canonical

CONSTANTS
    Workers,    \* concurrent callers
    Events,     \* the physical events the sources deliver
    Deliveries  \* pairs of an event and the clock of a delivery

ASSUME EventStoreAssumption ==
    /\ Events \subseteq PhysicalEvent
    /\ \A e \in Events : Canonical(e)
    /\ Deliveries \subseteq Events \X Instants

\* The facts the workers hand in
Facts == {Canonicalize(d[1], d[2]) : d \in Deliveries}

VARIABLES
    physical_events,  \* rows, unique in event_key
    canonical_facts,  \* rows, unique in fact_key
    pc,               \* the statement each worker executes next
    fact,             \* the fact each worker carries, as a set
    created,          \* history: how often an insert of a key returned true
    acknowledged,     \* history: facts whose insert returned without an error
    offered           \* history: facts an upsert statement compared or stored

vars == <<physical_events, canonical_facts, pc, fact, created, acknowledged, offered>>
tables == <<physical_events, canonical_facts>>

-----------------------------------------------------------------------------
(* Rows and the statements                                                 *)

\* The parameters of insertPhysicalEventSQL. The columns modification_time,
\* source_sequence and revision_number are in freshness, payload in payload_hash.
PhysicalRow(f) ==
    [event_key |-> f.event_key,
     subject_id |-> f.subject_id,
     event_type |-> f.event_type,
     source_scope |-> f.source_scope,
     effective_time |-> Micros[f.effective_time],
     end_time |-> {Micros[t] : t \in f.end_time},
     freshness |-> TupleColumns(f.freshness),
     payload_hash |-> f.payload_hash,
     received_at |-> Micros[f.received_at]]

\* Mutant of PhysicalEventMatches: the payload hash is not compared.
PhysicalEventMatchesAnyPayload(row, f) ==
    [row EXCEPT !.received_at = PhysicalRow(f).received_at,
                !.payload_hash = PhysicalRow(f).payload_hash] = PhysicalRow(f)

\* Mutant of PhysicalEventMatches: the time of the delivery is compared too.
PhysicalEventMatchesWhole(row, f) == row = PhysicalRow(f)

\* physicalEventMatchesSQL on the row of the event key: every immutable column,
\* so all but received_at.
PhysicalEventMatches(row, f) ==
    [row EXCEPT !.received_at = PhysicalRow(f).received_at] = PhysicalRow(f)

\* The parameters of upsertCanonicalFactSQL
CanonicalRow(f) ==
    [fact_key |-> f.fact_key,
     event_key |-> f.event_key,
     subject_id |-> f.subject_id,
     event_type |-> f.event_type,
     source_scope |-> f.source_scope,
     effective_time |-> Micros[f.effective_time],
     end_time |-> {Micros[t] : t \in f.end_time},
     freshness |-> TupleColumns(f.freshness),
     payload_hash |-> f.payload_hash,
     attributes |-> f.attributes,
     received_at |-> Micros[f.received_at]]

\* Mutant of UpdatedRow: the attributes are not updated.
UpdatedRowOldAttributes(row, new) ==
    [row EXCEPT !.event_key = new.event_key,
                !.end_time = new.end_time,
                !.freshness = new.freshness,
                !.payload_hash = new.payload_hash,
                !.received_at = new.received_at]

\* ON CONFLICT (fact_key) DO UPDATE SET ...: the columns of the logical fact keep
\* their values, the others become those of the incoming revision.
UpdatedRow(row, new) ==
    [row EXCEPT !.event_key = new.event_key,
                !.end_time = new.end_time,
                !.freshness = new.freshness,
                !.payload_hash = new.payload_hash,
                !.attributes = new.attributes,
                !.received_at = new.received_at]

\* The foreign key of canonical_facts.event_key
ReferencesPhysical(new) == \E row \in physical_events : row.event_key = new.event_key

\* Mutant of ViolatesUnique: the constraint leaves out the effective time.
ViolatesUniqueAnyTime(new) ==
    \E row \in canonical_facts :
        /\ row.fact_key # new.fact_key
        /\ row.subject_id = new.subject_id
        /\ row.source_scope = new.source_scope
        /\ row.event_type = new.event_type

\* UNIQUE (subject_id, source_scope, event_type, effective_time): a row of
\* another fact key has the same columns.
ViolatesUnique(new) ==
    \E row \in canonical_facts :
        /\ row.fact_key # new.fact_key
        /\ row.subject_id = new.subject_id
        /\ row.source_scope = new.source_scope
        /\ row.event_type = new.event_type
        /\ row.effective_time = new.effective_time

\* Mutant of Upserted: DO UPDATE has no WHERE clause.
UpsertedAlways(new) ==
    LET held == {row \in canonical_facts : row.fact_key = new.fact_key}
    IN  IF held = {}
        THEN canonical_facts \cup {new}
        ELSE (canonical_facts \ held) \cup {UpdatedRow(row, new) : row \in held}

\* upsertCanonicalFactSQL, when no constraint fails: insert, update a row that
\* is older, or leave the table alone.
Upserted(new) ==
    LET held == {row \in canonical_facts : row.fact_key = new.fact_key}
        older == {row \in held : StoredOlder(row.freshness, new.freshness)}
    IN  IF held = {}
        THEN canonical_facts \cup {new}
        ELSE (canonical_facts \ older) \cup {UpdatedRow(row, new) : row \in older}

-----------------------------------------------------------------------------
Init ==
    /\ physical_events = {} /\ canonical_facts = {}
    /\ pc = [w \in Workers |-> "idle"]
    /\ fact = [w \in Workers |-> {}]
    /\ created = [k \in EventKeys |-> 0]
    /\ acknowledged = {} /\ offered = {}

\* The worker's call returns and it drops the fact.
Release(w) == pc' = [pc EXCEPT ![w] = "idle"] /\ fact' = [fact EXCEPT ![w] = {}]

\* The worker goes on with its fact.
Goto(w, statement) == pc' = [pc EXCEPT ![w] = statement] /\ UNCHANGED fact

\* A worker receives a delivery and calls InsertPhysicalEvent.
Receive(w, f) ==
    /\ pc[w] = "idle"
    /\ pc' = [pc EXCEPT ![w] = "insert"]
    /\ fact' = [fact EXCEPT ![w] = {f}]
    /\ UNCHANGED <<tables, created, acknowledged, offered>>

Absent(f) == \A row \in physical_events : row.event_key # f.event_key

\* insertPhysicalEventSQL writes a row; InsertPhysicalEvent returns true.
Insert(w) ==
    /\ pc[w] = "insert"
    /\ \E f \in fact[w] :
          /\ Absent(f)
          /\ physical_events' = physical_events \cup {PhysicalRow(f)}
          /\ created' = [created EXCEPT ![f.event_key] = @ + 1]
          /\ acknowledged' = acknowledged \cup {f}
    /\ Goto(w, "upsert")
    /\ UNCHANGED <<canonical_facts, offered>>

\* The row is written and the answer is lost: the caller sees an error.
InsertUnanswered(w) ==
    /\ pc[w] = "insert"
    /\ \E f \in fact[w] :
          /\ Absent(f)
          /\ physical_events' = physical_events \cup {PhysicalRow(f)}
    /\ Release(w)
    /\ UNCHANGED <<canonical_facts, created, acknowledged, offered>>

\* ON CONFLICT (event_key) DO NOTHING: no row is affected, the second statement
\* will read the one that is there.
InsertConflict(w) ==
    /\ pc[w] = "insert"
    /\ \E f \in fact[w] : ~Absent(f)
    /\ Goto(w, "verify")
    /\ UNCHANGED <<tables, created, acknowledged, offered>>

\* physicalEventMatchesSQL: an exact replay returns false and no error, anything
\* else returns an error and the worker drops the fact.
Verify(w) ==
    /\ pc[w] = "verify"
    /\ \E f \in fact[w] : \E row \in physical_events :
          /\ row.event_key = f.event_key
          /\ IF PhysicalEventMatches(row, f)
             THEN /\ acknowledged' = acknowledged \cup {f}
                  /\ Goto(w, "upsert")
             ELSE /\ Release(w)
                  /\ UNCHANGED acknowledged
    /\ UNCHANGED <<tables, created, offered>>

\* UpsertCanonicalFact, its answer received or lost. A constraint error leaves
\* the table as it was.
Upsert(w) ==
    /\ pc[w] = "upsert"
    /\ \E f \in fact[w] :
          LET new == CanonicalRow(f)
          IN  IF ReferencesPhysical(new) /\ ~ViolatesUnique(new)
              THEN /\ canonical_facts' = Upserted(new)
                   /\ offered' = offered \cup {f}
              ELSE UNCHANGED <<canonical_facts, offered>>
    /\ Release(w)
    /\ UNCHANGED <<physical_events, created, acknowledged>>

\* The connection fails before a statement, or the worker stops.
Abandon(w) ==
    /\ pc[w] # "idle"
    /\ Release(w)
    /\ UNCHANGED <<tables, created, acknowledged, offered>>

Next ==
    \E w \in Workers :
        \/ \E f \in Facts : Receive(w, f)
        \/ Insert(w) \/ InsertUnanswered(w) \/ InsertConflict(w)
        \/ Verify(w)
        \/ Upsert(w)
        \/ Abandon(w)

Spec == Init /\ [][Next]_vars

-----------------------------------------------------------------------------
(* Properties                                                              *)

\* The tables hold rows of delivered facts, whole rows, and only acknowledged
\* facts are offered to UpsertCanonicalFact.
TypeOK ==
    /\ physical_events \subseteq {PhysicalRow(f) : f \in Facts}
    /\ canonical_facts \subseteq {CanonicalRow(f) : f \in Facts}
    /\ pc \in [Workers -> {"idle", "insert", "verify", "upsert"}]
    /\ fact \in [Workers -> SUBSET Facts]
    /\ created \in [EventKeys -> Nat]
    /\ acknowledged \subseteq Facts /\ offered \subseteq acknowledged

\* InsertPhysicalEvent returns true at most once for an event key, and callers
\* that it answers without an error under one key, whether first or replay and
\* whatever they raced with, delivered the same immutable event.
OneEventPerKey ==
    /\ \A k \in EventKeys : created[k] <= 1
    /\ \A f, g \in acknowledged :
          f.event_key = g.event_key => f.payload_hash = g.payload_hash

\* An exact replay is accepted, whoever stored the event, whenever it is delivered
\* again and also when the answer to its insert was lost: the check refuses a fact
\* only if the event stored under its key has another payload.
ReplaysAccepted ==
    [][\A w \in Workers : \A f \in fact[w] :
          /\ Verify(w)
          /\ \E row \in physical_events :
                row.event_key = f.event_key /\ row.payload_hash = f.payload_hash
          => f \in acknowledged']_vars

\* UpsertCanonicalFact "stores only the freshest revision": whatever the order
\* and the repetition of the upserts, the row of a fact key is the whole row of
\* one offered revision, and no offered revision is newer by the columns' order.
FreshestRevisionStored ==
    /\ \A row \in canonical_facts :
          \E f \in offered : row = CanonicalRow(f)
    /\ \A f \in offered :
          \E row \in canonical_facts :
              /\ row.fact_key = f.fact_key
              /\ ~StoredOlder(row.freshness, TupleColumns(f.freshness))

\* The offered facts that no offered revision of the same fact is newer than, by
\* the columns' order
Newest(S) ==
    {f \in S : \A g \in S :
        g.fact_key = f.fact_key =>
            ~StoredOlder(TupleColumns(f.freshness), TupleColumns(g.freshness))}

\* A row without the time of its delivery
Undated(row) == [row EXCEPT !.received_at = ZeroTime]

\* Two databases that were offered the same facts hold the same canonical facts:
\* apart from received_at, where replays differ, canonical_facts is a function of
\* the set of facts offered, on every collation and whatever the order, the
\* repetition and the failures of the upserts.
TableDependsOnSetOnly ==
    {Undated(row) : row \in canonical_facts}
        = {Undated(CanonicalRow(f)) : f \in Newest(offered)}

\* The row of a fact key is the revision that FreshnessTuple.Compare, so
\* ResolveBatch over the same events, makes the winner.
StoredRevisionIsGoFreshest ==
    \A row \in canonical_facts :
        \E f \in offered :
            /\ row = CanonicalRow(f)
            /\ \A g \in offered :
                  g.fact_key = f.fact_key => Compare(g.freshness, f.freshness) <= 0

\* An upsert that follows an accepted insert meets no constraint error: its event
\* is stored, and no other fact key has the columns of its fact key.
UpsertNeverRefused ==
    \A w \in Workers : pc[w] = "upsert" =>
        \A f \in fact[w] : /\ ReferencesPhysical(CanonicalRow(f))
                           /\ ~ViolatesUnique(CanonicalRow(f))

\* Every canonical fact is backed by the stored physical event of its key with
\* the same content, so a worker whose event was refused left no trace in it.
BackedByPhysicalEvent ==
    \A row \in canonical_facts :
        \E event \in physical_events :
            /\ event.event_key = row.event_key
            /\ event.payload_hash = row.payload_hash
            /\ event.freshness = row.freshness

\* No step removes or edits a physical event, and a canonical fact is replaced
\* only by a newer revision of the same fact.
RowsOnlyAdvance ==
    [][/\ physical_events \subseteq physical_events'
       /\ \A row \in canonical_facts :
             \E new \in canonical_facts' :
                 /\ new.fact_key = row.fact_key
                 /\ new = row \/ StoredOlder(row.freshness, new.freshness)]_vars

-----------------------------------------------------------------------------
(* The inductive invariant of the proofs in EventStoreProofs               *)

\* The primary keys of both tables
KeysUnique ==
    /\ \A r, q \in physical_events : r.event_key = q.event_key => r = q
    /\ \A r, q \in canonical_facts : r.fact_key = q.fact_key => r = q

\* A worker carries one fact at most, and one that it may upsert is the stored
\* event of its key.
AcknowledgedStored ==
    /\ \A w \in Workers : \A f, g \in fact[w] : f = g
    /\ \A f \in acknowledged :
          \E row \in physical_events : PhysicalEventMatches(row, f)
    /\ \A w \in Workers : pc[w] = "upsert" => fact[w] \subseteq acknowledged
    /\ offered \subseteq acknowledged

\* An insert that returned true left the row of its key.
CreatedOnce ==
    \A k \in EventKeys :
        \/ created[k] = 0
        \/ created[k] = 1 /\ \E row \in physical_events : row.event_key = k

IndInv ==
    TypeOK /\ KeysUnique /\ AcknowledgedStored /\ CreatedOnce /\ FreshestRevisionStored

=============================================================================
