---------------------------- MODULE ResolverProofs ----------------------------
(***************************************************************************)
(* Resolver: type correctness, when a batch fails, the decision about each *)
(* delivery, and the projections as a function of the set of events, for   *)
(* any batch and any policy.                                               *)
(***************************************************************************)
EXTENDS Resolver, ProjectionProofs

\* The fact Canonicalize makes of an event it accepts is well formed, and keeps
\* the event's key and hash whatever the receive time.
LEMMA CanonicalFields ==
    ASSUME NEW e \in Events, Canonical(e), NEW t
    PROVE  /\ IsFact(Canonicalize(e, t))
           /\ Canonicalize(e, t).event_key = KeyRank[e.event_key]
           /\ Canonicalize(e, t).payload_hash = PayloadHash(e)
<1>1. e \in PhysicalEvent
  BY ResolverAssumption
<1>2. /\ KeyRank[e.event_key] \in EventKeys
      /\ e.modification_time.instant \in Instants
      /\ e.effective_time.instant \in Instants
      /\ e.source_sequence \in Int /\ e.revision_number \in Int
  BY <1>1, SpellingAssumption DEF PhysicalEvent, ZonedTimes
<1>3. e.source_sequence \in Nat /\ e.revision_number \in Nat
  <2>1. e.source_sequence >= 0 /\ e.revision_number >= 0
    BY Zenon DEF Canonical
  <2> QED
    BY <2>1, <1>2
<1>4. Canonicalize(e, t).freshness =
        [source_sequence |-> e.source_sequence,
         modification_time |-> e.modification_time.instant,
         revision_number |-> e.revision_number,
         physical_event_key |-> KeyRank[e.event_key]]
  BY DEF Canonicalize, NormalizeTime
<1>5. Canonicalize(e, t).freshness \in FreshnessTuple
  BY <1>2, <1>3, <1>4 DEF FreshnessTuple
<1>6. /\ Canonicalize(e, t).event_key = KeyRank[e.event_key]
      /\ Canonicalize(e, t).effective_time = e.effective_time.instant
      /\ Canonicalize(e, t).payload_hash = PayloadHash(e)
  BY DEF Canonicalize, NormalizeTime
<1>7. e.effective_time.instant \in Int
  BY <1>2, MicrosAssumption
<1> QED
  BY <1>4, <1>5, <1>6, <1>7 DEF IsFact

\* The hash covers everything of an event but its key: events with the same hash
\* have the same fact key, and with the same key too the same fact.
LEMMA SameHashSameFact ==
    ASSUME NEW e, NEW d, NEW t, PayloadHash(e) = PayloadHash(d)
    PROVE  /\ Canonicalize(e, t).fact_key = Canonicalize(d, t).fact_key
           /\ KeyRank[e.event_key] = KeyRank[d.event_key] =>
                 Canonicalize(e, t) = Canonicalize(d, t)
<1>1. /\ TrimSpace[e.subject_id] = TrimSpace[d.subject_id]
      /\ EventTypeOf(e) = EventTypeOf(d)
      /\ SourceScopeOf(e) = SourceScopeOf(d)
      /\ NormalizeTime(e.effective_time) = NormalizeTime(d.effective_time)
      /\ {NormalizeTime(i) : i \in e.end_time} = {NormalizeTime(i) : i \in d.end_time}
      /\ NormalizeTime(e.modification_time) = NormalizeTime(d.modification_time)
      /\ e.source_sequence = d.source_sequence
      /\ e.revision_number = d.revision_number
      /\ e.payload = d.payload
  BY DEF PayloadHash
<1>2. Canonicalize(e, t).fact_key = Canonicalize(d, t).fact_key
  BY <1>1 DEF Canonicalize, MakeFactKey
<1>3. ASSUME KeyRank[e.event_key] = KeyRank[d.event_key]
      PROVE  Canonicalize(e, t) = Canonicalize(d, t)
  BY <1>1, <1>3, Zenon DEF Canonicalize
<1> QED
  BY <1>2, <1>3

-----------------------------------------------------------------------------
(* applyFact against the meaning of a set of facts                         *)

\* One iteration of the projection loop: the projection of the subject of the
\* fact is replaced or created, those of the other subjects stay right.
LEMMA ProjectOne ==
    ASSUME NEW ps, NEW S, AreProjectionsOf(ps, S),
           NEW f, f \notin S, \A g \in S : AppliedBefore(g, f),
           NEW held, held = {p \in ps : p.subject_id = f.subject_id},
           NEW base,
           \/ held = {} /\ base = NewProjection
           \/ base \in held
    PROVE  AreProjectionsOf((ps \ held) \cup {ApplyFact(base, f)}, S \cup {f})
<1> DEFINE new == ApplyFact(base, f)
<1>0. /\ \A p \in ps : IsProjectionOf(p, S)
      /\ \A p, q \in ps : p.subject_id = q.subject_id => p = q
      /\ {p.subject_id : p \in ps} = {g.subject_id : g \in S}
  BY DEF AreProjectionsOf
<1>1. new.subject_id = f.subject_id
  BY DEF ApplyFact
<1>2. IsProjectionOf(new, S \cup {f})
  <2>1. CASE held = {} /\ base = NewProjection
    <3>1. ASSUME NEW g \in S, g.subject_id = f.subject_id
          PROVE  FALSE
      <4>1. PICK p \in ps : p.subject_id = g.subject_id
        BY <1>0
      <4> QED
        BY <4>1, <3>1, <2>1
    <3>2. {g \in S : g.subject_id = f.subject_id} = {}
      BY <3>1
    <3> QED
      BY <3>2, <2>1, ApplyLast
  <2>2. CASE base \in held
    <3>1. base.subject_id = f.subject_id /\ IsProjectionOf(base, S)
      BY <2>2, <1>0
    <3> QED
      BY <3>1, ApplyLast
  <2> QED
    BY <2>1, <2>2
<1>3. ASSUME NEW p \in ps \ held
      PROVE  IsProjectionOf(p, S \cup {f})
  <2>1. p.subject_id # f.subject_id
    OBVIOUS
  <2>2. {g \in S \cup {f} : g.subject_id = p.subject_id}
          = {g \in S : g.subject_id = p.subject_id}
    BY <2>1
  <2>3. IsProjectionOf(p, S)
    BY <1>0
  <2> QED
    BY <2>2, <2>3 DEF IsProjectionOf
<1> HIDE DEF new
<1>4. \A p, q \in (ps \ held) \cup {new} : p.subject_id = q.subject_id => p = q
  BY <1>0, <1>1
<1>5. {p.subject_id : p \in (ps \ held) \cup {new}} = {g.subject_id : g \in S \cup {f}}
  <2>1. ASSUME NEW p \in (ps \ held) \cup {new}
        PROVE  p.subject_id \in {g.subject_id : g \in S \cup {f}}
    BY <1>0, <1>1
  <2>2. ASSUME NEW g \in S \cup {f}
        PROVE  g.subject_id \in {p.subject_id : p \in (ps \ held) \cup {new}}
    <3>1. CASE g.subject_id = f.subject_id
      BY <3>1, <1>1
    <3>2. CASE g.subject_id # f.subject_id
      <4>1. PICK p \in ps : p.subject_id = g.subject_id
        BY <1>0, <3>2
      <4> QED
        BY <4>1, <3>2
    <3> QED
      BY <3>1, <3>2
  <2> QED
    BY <2>1, <2>2
<1> QED
  BY <1>2, <1>3, <1>4, <1>5 DEF AreProjectionsOf, new

-----------------------------------------------------------------------------
(* The winners                                                             *)

\* One candidate of a group: the winners of the candidates visited become the
\* winners of those and of the new one.
LEMMA ContendOne ==
    ASSUME NEW fs, \A g \in fs : IsFact(g),
           NEW left, NEW f \in fs, f \in left,
           NEW ws, WinnersOf(ws, fs \ left),
           NEW held, held = {w \in ws : w.fact_key = f.fact_key},
           NEW ws2,
           \/ /\ \A w \in held : Compare(f.freshness, w.freshness) > 0
              /\ ws2 = (ws \ held) \cup {f}
           \/ /\ ~ \A w \in held : Compare(f.freshness, w.freshness) > 0
              /\ ws2 = ws
    PROVE  WinnersOf(ws2, fs \ (left \ {f}))
<1>0. /\ ws \subseteq fs \ left
      /\ \A v, w \in ws : v.fact_key = w.fact_key => v = w
      /\ \A g \in fs \ left : \E w \in ws : /\ w.fact_key = g.fact_key
                                            /\ Compare(g.freshness, w.freshness) <= 0
  BY DEF WinnersOf
<1> USE <1>0
<1> SUFFICES /\ ws2 \subseteq fs \ (left \ {f})
             /\ \A v, w \in ws2 : v.fact_key = w.fact_key => v = w
             /\ \A g \in fs \ (left \ {f}) :
                   \E w \in ws2 : /\ w.fact_key = g.fact_key
                                  /\ Compare(g.freshness, w.freshness) <= 0
  BY DEF WinnersOf
<1>1. \A g \in fs : g.freshness \in FreshnessTuple
  BY Zenon DEF IsFact
<1>2. CASE /\ \A w \in held : Compare(f.freshness, w.freshness) > 0
           /\ ws2 = (ws \ held) \cup {f}
  <2>1. ws2 \subseteq fs \ (left \ {f})
    BY <1>2
  <2>2. \A v, w \in ws2 : v.fact_key = w.fact_key => v = w
    BY <1>2
  <2>3. ASSUME NEW g \in fs \ (left \ {f})
        PROVE  \E w \in ws2 : /\ w.fact_key = g.fact_key
                              /\ Compare(g.freshness, w.freshness) <= 0
    <3>1. CASE g = f
      <4>1. Compare(f.freshness, f.freshness) <= 0
        BY <1>1, CompareOrder
      <4> QED
        BY <3>1, <4>1, <1>2
    <3>2. CASE g # f
      <4>1. PICK w \in ws : /\ w.fact_key = g.fact_key
                            /\ Compare(g.freshness, w.freshness) <= 0
        BY <3>2
      <4>2. CASE w \notin held
        BY <4>1, <4>2, <1>2
      <4>3. CASE w \in held
        <5>1. Compare(f.freshness, w.freshness) > 0 /\ w.fact_key = f.fact_key
          BY <4>3, <1>2
        <5>2. Compare(g.freshness, f.freshness) <= 0
          <6>1. w \in fs
            OBVIOUS
          <6>2. Compare(w.freshness, f.freshness) <= 0
            BY <6>1, <5>1, <1>1, CompareOrder
          <6> QED
            BY <6>1, <6>2, <4>1, <1>1, CompareOrder
        <5> QED
          BY <5>1, <5>2, <4>1, <1>2
      <4> QED
        BY <4>2, <4>3
    <3> QED
      BY <3>1, <3>2
  <2> QED
    BY <2>1, <2>2, <2>3
<1>3. CASE /\ ~ \A w \in held : Compare(f.freshness, w.freshness) > 0
           /\ ws2 = ws
  <2>1. PICK w \in held : ~(Compare(f.freshness, w.freshness) > 0)
    BY <1>3
  <2>2. Compare(f.freshness, w.freshness) <= 0
    BY <2>1, <1>1, CompareOrder
  <2> QED
    BY <1>3, <2>1, <2>2
<1> QED
  BY <1>2, <1>3

\* Once every candidate has been visited, the winners are the facts that no
\* fact of the same fact key is fresher than.
LEMMA WinnersAreTheFreshest ==
    ASSUME NEW fs, \A g \in fs : IsFact(g),
           \A g, h \in fs : g.event_key = h.event_key => g = h,
           NEW ws, WinnersOf(ws, fs),
           NEW f \in fs
    PROVE  (\E w \in ws : w.fact_key = f.fact_key /\ w.event_key = f.event_key)
             <=> \A g \in fs : g.fact_key = f.fact_key =>
                                 Compare(g.freshness, f.freshness) <= 0
<1>0. /\ ws \subseteq fs
      /\ \A v, w \in ws : v.fact_key = w.fact_key => v = w
      /\ \A g \in fs : \E w \in ws : /\ w.fact_key = g.fact_key
                                     /\ Compare(g.freshness, w.freshness) <= 0
  BY DEF WinnersOf
<1> USE <1>0
<1>1. ASSUME NEW w \in ws, w.fact_key = f.fact_key, w.event_key = f.event_key
      PROVE  \A g \in fs : g.fact_key = f.fact_key =>
                              Compare(g.freshness, f.freshness) <= 0
  <2>1. w = f
    BY <1>1
  <2> QED
    BY <2>1, <1>1
<1>2. ASSUME \A g \in fs : g.fact_key = f.fact_key =>
                              Compare(g.freshness, f.freshness) <= 0
      PROVE  \E w \in ws : w.fact_key = f.fact_key /\ w.event_key = f.event_key
  <2>1. PICK w \in ws : /\ w.fact_key = f.fact_key
                        /\ Compare(f.freshness, w.freshness) <= 0
    OBVIOUS
  <2>2. Compare(w.freshness, f.freshness) <= 0
    BY <1>2, <2>1
  <2>3. /\ w.freshness \in FreshnessTuple /\ f.freshness \in FreshnessTuple
        /\ w.freshness.physical_event_key = w.event_key
        /\ f.freshness.physical_event_key = f.event_key
    BY <2>1, Zenon DEF IsFact
  <2>4. w.freshness = f.freshness
    BY <2>1, <2>2, <2>3, CompareOrder
  <2> QED
    BY <2>1, <2>3, <2>4
<1> QED
  BY <1>1, <1>2

\* Policy.Evaluate always returns an action and a reason.
LEMMA EvaluateType ==
    ASSUME NEW p, NEW f
    PROVE  Evaluate(p, f)[1] \in Actions /\ Evaluate(p, f)[2] \in Reasons
BY DEF Evaluate, Actions, Reasons

-----------------------------------------------------------------------------
(* The steps                                                               *)

\* Nothing the meaning of the batch depends on changes once it has been read.
LEMMA SameRead ==
    ASSUME UNCHANGED <<batch, policy, next>>
    PROVE  /\ Read' = Read /\ ReadFacts' = ReadFacts /\ Freshest' = Freshest
           /\ Accepted' = Accepted /\ BadBatch' = BadBatch
<1>1. Read' = Read
  BY DEF Read
<1>2. ReadFacts' = ReadFacts
  BY <1>1 DEF ReadFacts, Fact
<1>3. Freshest' = Freshest
  BY <1>2 DEF Freshest
<1>4. Accepted' = Accepted
  BY <1>3 DEF Accepted
<1>5. BadBatch' = BadBatch
  BY <1>1 DEF BadBatch
<1> QED
  BY <1>1, <1>2, <1>3, <1>4, <1>5

\* The events read are events, and their facts are well formed.
LEMMA ReadEvents ==
    ASSUME TypeOK
    PROVE  /\ batch \in Seq(Events) /\ Len(batch) \in Nat /\ next \in Nat \ {0}
           /\ Read \subseteq Events
           /\ next <= Len(batch) => batch[next] \in Events
<1>1. batch \in Seq(Events) /\ next \in 1 .. Len(batch) + 1
  BY ResolverAssumption DEF TypeOK
<1>2. /\ Len(batch) \in Nat
      /\ \A i \in 1 .. Len(batch) : batch[i] \in Events
  BY <1>1
<1> QED
  BY <1>1, <1>2 DEF Read

\* While no error has been returned, every fact kept is well formed.
LEMMA FactsAreFacts ==
    ASSUME TypeOK, FactsAreRead, Running
    PROVE  \A f \in facts : IsFact(f)
<1>1. \A e \in Read : Canonical(e) /\ e \in Events
  BY ReadEvents DEF FactsAreRead
<1>2. \A e \in Read : IsFact(Fact(e))
  BY <1>1, CanonicalFields DEF Fact
<1> QED
  BY <1>2 DEF FactsAreRead, ReadFacts

\* Reading one more event
LEMMA ReadOne ==
    ASSUME TypeOK, Ingesting, next' = next + 1, UNCHANGED <<batch, policy>>
    PROVE  /\ Read' = Read \cup {batch[next]}
           /\ ReadFacts' = ReadFacts \cup {Fact(batch[next])}
           /\ next' \in 1 .. Len(batch) + 1
<1>1. next \in Nat \ {0} /\ Len(batch) \in Nat /\ next <= Len(batch)
  BY ReadEvents DEF Ingesting
<1>2. 1 .. next' - 1 = (1 .. next - 1) \cup {next}
  BY <1>1
<1>3. Read' = Read \cup {batch[next]}
  BY <1>2 DEF Read
<1>4. ReadFacts' = ReadFacts \cup {Fact(batch[next])}
  BY <1>3 DEF ReadFacts, Fact
<1> QED
  BY <1>1, <1>3, <1>4

\* An error return keeps the invariant when the batch deserves it.
LEMMA FailStep ==
    ASSUME IndInv, Fail, next' \in 1 .. Len(batch) + 1,
           ~Validate(policy) \/ BadBatch'
    PROVE  IndInv'
<1> USE DEF Fail
<1>1. TypeOK'
  BY DEF IndInv, TypeOK, Phases, Fact
<1>2. NotYet'
  BY DEF NotYet
<1>3. FactsAreRead' /\ WinnersAreFreshest' /\ ProjectedSoFar'
  BY DEF FactsAreRead, Running, WinnersAreFreshest, ProjectedSoFar
<1>4. FailsExactlyOnBadBatch'
  BY DEF FailsExactlyOnBadBatch
<1> QED
  BY <1>1, <1>2, <1>3, <1>4 DEF IndInv

\* policy.Validate keeps the invariant: nothing has been read yet.
LEMMA StartStep ==
    ASSUME IndInv, Start
    PROVE  IndInv'
<1>1. CASE Validate(policy)
  <2> USE <1>1 DEF Start
  <2>1. Read = {} /\ facts = {} /\ next = 1
    BY DEF IndInv, NotYet, Read
  <2>2. Read' = {} /\ ReadFacts' = {} /\ facts' = {} /\ ~BadBatch'
    BY <2>1, SameRead DEF ReadFacts, BadBatch
  <2>3. TypeOK'
    BY DEF IndInv, TypeOK, Phases, Fact
  <2>4. NotYet'
    BY DEF IndInv, NotYet
  <2>5. FactsAreRead'
    BY <2>2 DEF FactsAreRead
  <2>6. WinnersAreFreshest' /\ ProjectedSoFar'
    BY DEF WinnersAreFreshest, ProjectedSoFar
  <2>7. FailsExactlyOnBadBatch'
    BY <2>2 DEF FailsExactlyOnBadBatch
  <2> QED
    BY <2>3, <2>4, <2>5, <2>6, <2>7 DEF IndInv
<1>2. CASE ~Validate(policy)
  <2>1. Fail /\ next' = next
    BY <1>2 DEF Start
  <2>2. next' \in 1 .. Len(batch) + 1
    BY <2>1 DEF IndInv, TypeOK
  <2> QED
    BY <2>1, <2>2, <1>2, FailStep
<1> QED
  BY <1>1, <1>2

\* An event that cannot be canonicalized fails a batch that is bad.
LEMMA IngestInvalidStep ==
    ASSUME IndInv, IngestInvalid
    PROVE  IndInv'
<1>1. TypeOK /\ Ingesting /\ Fail /\ next' = next + 1 /\ ~Canonical(batch[next])
  BY DEF IndInv, IngestInvalid
<1>2. batch[next] \in Read' /\ next' \in 1 .. Len(batch) + 1
  BY <1>1, ReadOne DEF Fail
<1>3. BadBatch'
  BY <1>1, <1>2 DEF BadBatch
<1> QED
  BY <1>1, <1>2, <1>3, FailStep

\* The first delivery of an event key adds a fact and clashes with no event read.
LEMMA IngestNewStep ==
    ASSUME IndInv, IngestNew
    PROVE  IndInv'
<1> DEFINE e == batch[next]
<1>1. /\ TypeOK /\ NotYet /\ FactsAreRead /\ FailsExactlyOnBadBatch
      /\ Ingesting /\ next' = next + 1 /\ Canonical(e)
      /\ UNCHANGED <<batch, policy, phase, duplicates, todo, winners, decisions,
                     projections>>
      /\ facts' = facts \cup {Fact(e)}
      /\ \A f \in facts : f.event_key # Fact(e).event_key
  BY DEF IndInv, IngestNew
<1>2. /\ Read' = Read \cup {e} /\ ReadFacts' = ReadFacts \cup {Fact(e)}
      /\ next' \in 1 .. Len(batch) + 1
  BY <1>1, ReadOne
<1>3. /\ phase = "ingest" /\ next <= Len(batch) /\ Validate(policy) /\ ~BadBatch
      /\ facts = ReadFacts /\ \A d \in Read : Canonical(d)
      /\ \A f, g \in facts : f.event_key = g.event_key => f = g
  BY <1>1 DEF Ingesting, FactsAreRead, Running, FailsExactlyOnBadBatch
<1>4. \A d \in Read \cup {e} : /\ d \in Events /\ Canonical(d)
                               /\ Fact(d).event_key = KeyRank[d.event_key]
  <2>1. \A d \in Read \cup {e} : d \in Events /\ Canonical(d)
    BY <1>1, <1>3, ReadEvents
  <2> QED
    BY <2>1, CanonicalFields DEF Fact
<1>5. TypeOK'
  <2>1. next \in 1 .. Len(batch)
    BY <1>1, <1>3, ReadEvents
  <2>2. facts' \subseteq {Fact(batch[i]) : i \in 1 .. Len(batch)}
    BY <1>1, <2>1 DEF TypeOK
  <2>3. facts' \subseteq {Fact(batch[i]) : i \in 1 .. Len(batch)}'
    BY <1>1, <2>2 DEF Fact
  <2>4. decisions' = {} /\ projections' = {}
    BY <1>1, <1>3 DEF NotYet
  <2> QED
    BY <1>1, <1>2, <2>3, <2>4 DEF TypeOK
<1>6. NotYet'
  BY <1>1, <1>3 DEF NotYet
<1>7. FactsAreRead'
  BY <1>1, <1>2, <1>3 DEF FactsAreRead
<1>8. ~BadBatch'
  <2>1. \A d \in Read : KeyRank[d.event_key] # KeyRank[e.event_key]
    BY <1>1, <1>3, <1>4 DEF ReadFacts
  <2> QED
    BY <1>1, <1>2, <1>3, <2>1 DEF BadBatch
<1>9. FailsExactlyOnBadBatch' /\ WinnersAreFreshest' /\ ProjectedSoFar'
  BY <1>1, <1>3, <1>8
     DEF FailsExactlyOnBadBatch, WinnersAreFreshest, ProjectedSoFar
<1> QED
  BY <1>5, <1>6, <1>7, <1>9 DEF IndInv

\* A replay adds nothing; another event under a known key makes the batch bad.
LEMMA IngestSeenStep ==
    ASSUME IndInv, IngestSeen
    PROVE  IndInv'
<1> DEFINE e == batch[next]
<1>1. PICK previous \in facts :
          /\ previous.event_key = Fact(e).event_key
          /\ IF SameEvent(previous, Fact(e))
             THEN /\ duplicates' = duplicates \cup {next}
                  /\ UNCHANGED <<batch, policy, phase, facts, todo, winners,
                                 decisions, projections>>
             ELSE Fail
  BY DEF IngestSeen
<1>2. /\ TypeOK /\ NotYet /\ FactsAreRead /\ FailsExactlyOnBadBatch
      /\ Ingesting /\ next' = next + 1 /\ Canonical(e)
  BY DEF IndInv, IngestSeen
<1>3. UNCHANGED <<batch, policy>>
  BY <1>1 DEF Fail
<1>4. /\ Read' = Read \cup {e} /\ ReadFacts' = ReadFacts \cup {Fact(e)}
      /\ next' \in 1 .. Len(batch) + 1
  BY <1>2, <1>3, ReadOne
<1>5. /\ phase = "ingest" /\ next <= Len(batch) /\ Validate(policy) /\ ~BadBatch
      /\ facts = ReadFacts /\ \A d \in Read : Canonical(d)
      /\ \A f, g \in facts : f.event_key = g.event_key => f = g
  BY <1>2 DEF Ingesting, FactsAreRead, Running, FailsExactlyOnBadBatch
<1>6. \A d \in Read \cup {e} : /\ Fact(d).event_key = KeyRank[d.event_key]
                               /\ Fact(d).payload_hash = PayloadHash(d)
  <2>1. \A d \in Read \cup {e} : d \in Events /\ Canonical(d)
    BY <1>2, <1>5, ReadEvents
  <2> QED
    BY <2>1, CanonicalFields DEF Fact
<1>7. PICK d \in Read : previous = Fact(d)
  BY <1>5 DEF ReadFacts
<1>8. KeyRank[d.event_key] = KeyRank[e.event_key]
  BY <1>1, <1>6, <1>7
<1>9. CASE SameEvent(previous, Fact(e))
  <2>1. PayloadHash(d) = PayloadHash(e)
    BY <1>6, <1>7, <1>9 DEF SameEvent
  <2>2. Fact(d) = Fact(e)
    BY <1>8, <2>1, SameHashSameFact DEF Fact
  <2>3. ReadFacts' = ReadFacts
    BY <1>4, <1>7, <2>2 DEF ReadFacts
  <2>4. /\ duplicates' = duplicates \cup {next}
        /\ UNCHANGED <<batch, policy, phase, facts, todo, winners, decisions,
                       projections>>
    BY <1>1, <1>9
  <2>5. ~BadBatch'
    <3>1. \A c \in Read : KeyRank[c.event_key] = KeyRank[e.event_key] =>
                              PayloadHash(c) = PayloadHash(e)
      <4>1. SUFFICES ASSUME NEW c \in Read, KeyRank[c.event_key] = KeyRank[e.event_key]
                     PROVE  PayloadHash(c) = PayloadHash(e)
        OBVIOUS
      <4>2. PayloadHash(c) = PayloadHash(d)
        BY <1>5, <1>8, <4>1 DEF BadBatch
      <4> QED
        BY <2>1, <4>2
    <3> QED
      BY <1>2, <1>4, <1>5, <3>1 DEF BadBatch
  <2>6. TypeOK'
    <3>1. next \in 1 .. Len(batch)
      BY <1>2, <1>5, ReadEvents
    <3> QED
      BY <1>2, <1>4, <2>4, <3>1 DEF TypeOK, Fact
  <2>7. NotYet' /\ FactsAreRead'
    BY <1>2, <1>4, <1>5, <2>3, <2>4 DEF NotYet, FactsAreRead
  <2>8. FailsExactlyOnBadBatch' /\ WinnersAreFreshest' /\ ProjectedSoFar'
    BY <1>5, <2>4, <2>5 DEF FailsExactlyOnBadBatch, WinnersAreFreshest, ProjectedSoFar
  <2> QED
    BY <2>6, <2>7, <2>8 DEF IndInv
<1>10. CASE ~SameEvent(previous, Fact(e))
  <2>1. PayloadHash(d) # PayloadHash(e)
    <3>1. PayloadHash(d) = PayloadHash(e) => Fact(d).fact_key = Fact(e).fact_key
      BY SameHashSameFact DEF Fact
    <3> QED
      BY <1>6, <1>7, <1>10, <3>1 DEF SameEvent
  <2>2. BadBatch'
    BY <1>4, <1>8, <2>1 DEF BadBatch
  <2> QED
    BY <1>1, <1>4, <1>10, <2>2, FailStep
<1> QED
  BY <1>9, <1>10

\* Grouping starts with every fact a candidate and no winner.
LEMMA GroupStep ==
    ASSUME IndInv, Group
    PROVE  IndInv'
<1>1. /\ TypeOK /\ NotYet /\ FactsAreRead /\ FailsExactlyOnBadBatch
      /\ phase = "ingest" /\ next > Len(batch) /\ phase' = "contend" /\ todo' = facts
      /\ UNCHANGED <<batch, policy, next, facts, duplicates, winners, decisions,
                     projections>>
  BY DEF IndInv, Group
<1>2. Read' = Read /\ ReadFacts' = ReadFacts /\ BadBatch' = BadBatch
  BY <1>1, SameRead
<1>3. TypeOK'
  BY <1>1 DEF TypeOK, Phases, Fact
<1>4. NotYet' /\ FactsAreRead'
  BY <1>1, <1>2 DEF NotYet, FactsAreRead, Running
<1>5. WinnersAreFreshest' /\ ProjectedSoFar' /\ FailsExactlyOnBadBatch'
  BY <1>1, <1>2 
     DEF NotYet, WinnersAreFreshest, WinnersOf, ProjectedSoFar, FailsExactlyOnBadBatch
<1> QED
  BY <1>3, <1>4, <1>5 DEF IndInv

\* Visiting a candidate keeps the winners the freshest of the visited.
LEMMA ContendStep ==
    ASSUME IndInv, NEW f \in todo, Contend(f)
    PROVE  IndInv'
<1> DEFINE held == {w \in winners : w.fact_key = f.fact_key}
<1>1. /\ TypeOK /\ NotYet /\ FactsAreRead /\ FailsExactlyOnBadBatch /\ WinnersAreFreshest
      /\ phase = "contend" /\ todo' = todo \ {f}
      /\ UNCHANGED <<batch, policy, phase, next, facts, duplicates, decisions,
                     projections>>
  BY DEF IndInv, Contend
<1>2. \/ /\ \A w \in held : Compare(f.freshness, w.freshness) > 0
         /\ winners' = (winners \ held) \cup {f}
      \/ /\ ~ \A w \in held : Compare(f.freshness, w.freshness) > 0
         /\ winners' = winners
  BY DEF Contend
<1>3. Read' = Read /\ ReadFacts' = ReadFacts /\ BadBatch' = BadBatch
  BY <1>1, SameRead
<1>4. f \in facts /\ todo \subseteq facts /\ \A g \in facts : IsFact(g)
  BY <1>1, FactsAreFacts DEF TypeOK, Running
<1>5. WinnersOf(winners', facts \ (todo \ {f}))
  <2>1. WinnersOf(winners, facts \ todo)
    BY <1>1 DEF WinnersAreFreshest
  <2>2. held = {w \in winners : w.fact_key = f.fact_key}
    OBVIOUS
  <2> HIDE DEF held
  <2> QED
    BY <1>2, <1>4, <2>1, <2>2, ContendOne
<1>6. WinnersAreFreshest'
  BY <1>1, <1>5 DEF WinnersAreFreshest
<1>7. TypeOK'
  <2>1. winners' \subseteq facts
    BY <1>5 DEF WinnersOf
  <2> QED
    BY <1>1, <2>1 DEF TypeOK, Fact
<1>8. NotYet' /\ FactsAreRead'
  BY <1>1, <1>3 DEF NotYet, FactsAreRead, Running
<1>9. ProjectedSoFar' /\ FailsExactlyOnBadBatch'
  BY <1>1, <1>3 DEF ProjectedSoFar, FailsExactlyOnBadBatch
<1> QED
  BY <1>6, <1>7, <1>8, <1>9 DEF IndInv

\* The decision that the set of events read calls for
Judgement(f) ==
    LET verdict == IF f \in Freshest THEN Evaluate(policy, f)
                   ELSE <<"skip", "duplicate_or_older">>
    IN  [fact |-> f, action |-> verdict[1], reason |-> verdict[2]]

\* A fact is judged by the policy when it is the freshest of its fact key.
LEMMA JudgedIsFreshest ==
    ASSUME IndInv, phase = "contend", todo = {}
    PROVE  /\ \A f \in facts : \/ /\ f \in Freshest
                                 /\ Decision(f).action = Evaluate(policy, f)[1]
                              \/ /\ f \notin Freshest
                                 /\ Decision(f).action = "skip"
           /\ \A f \in facts : Decision(f) = Judgement(f)
           /\ {f \in facts : Decision(f).action = "process_now"} = Accepted
<1>1. /\ TypeOK /\ FactsAreRead /\ WinnersAreFreshest /\ Running
      /\ facts = ReadFacts /\ \A f, g \in facts : f.event_key = g.event_key => f = g
  BY DEF IndInv, FactsAreRead, Running
<1>2. \A f \in facts : IsFact(f)
  BY <1>1, FactsAreFacts
<1>3. WinnersOf(winners, facts)
  <2>1. facts \ todo = facts
    OBVIOUS
  <2> QED
    BY <1>1, <2>1 DEF WinnersAreFreshest
<1>4. ASSUME NEW f \in facts
      PROVE  (\E w \in winners : w.fact_key = f.fact_key /\ w.event_key = f.event_key)
                <=> f \in Freshest
  <2>1. f \in Freshest <=> \A g \in facts : g.fact_key = f.fact_key =>
                                              Compare(g.freshness, f.freshness) <= 0
    BY <1>1, <1>4, Zenon DEF Freshest
  <2>2. (\E w \in winners : w.fact_key = f.fact_key /\ w.event_key = f.event_key)
           <=> \A g \in facts : g.fact_key = f.fact_key =>
                                    Compare(g.freshness, f.freshness) <= 0
    BY <1>1, <1>2, <1>3, WinnersAreTheFreshest
  <2> QED
    BY <2>1, <2>2
<1>5. ASSUME NEW f \in facts
      PROVE  \/ f \in Freshest /\ Decision(f).action = Evaluate(policy, f)[1]
             \/ f \notin Freshest /\ Decision(f).action = "skip"
  BY <1>4 DEF Decision
<1>6. ASSUME NEW f \in facts
      PROVE  Decision(f) = Judgement(f)
  BY <1>4 DEF Decision, Judgement
<1>7. Freshest \subseteq facts
  BY <1>1 DEF Freshest
<1>8. {f \in facts : Decision(f).action = "process_now"} = Accepted
  BY <1>5, <1>7 DEF Accepted
<1> QED
  BY <1>5, <1>8, <1>6

\* The facts decided process_now are the accepted ones, none of them applied.
LEMMA DecideStep ==
    ASSUME IndInv, Decide
    PROVE  IndInv'
<1>1. /\ TypeOK /\ NotYet /\ FactsAreRead /\ FailsExactlyOnBadBatch
      /\ phase = "contend" /\ todo = {} /\ phase' = "project"
      /\ decisions' = {Decision(f) : f \in facts}
      /\ UNCHANGED <<batch, policy, next, facts, duplicates, winners, projections>>
  BY DEF IndInv, Decide
<1>2. /\ Read' = Read /\ ReadFacts' = ReadFacts /\ BadBatch' = BadBatch
      /\ Accepted' = Accepted
  BY <1>1, SameRead
<1>3. todo' = Accepted
  BY <1>1, JudgedIsFreshest DEF Decide
<1>4. decisions' \subseteq [fact : facts, action : Actions, reason : Reasons]
  <2>1. ASSUME NEW f \in facts
        PROVE  Decision(f) \in [fact : facts, action : Actions, reason : Reasons]
    BY EvaluateType DEF Decision, Actions, Reasons
  <2> QED
    BY <1>1, <2>1
<1>5. Accepted \subseteq facts /\ projections = {}
  BY <1>1 DEF Accepted, Freshest, FactsAreRead, Running, NotYet
<1>6. TypeOK'
  BY <1>1, <1>3, <1>4, <1>5 DEF TypeOK, Phases, Fact
<1>7. NotYet' /\ FactsAreRead'
  BY <1>1, <1>2 DEF NotYet, FactsAreRead, Running
<1>8. WinnersAreFreshest' /\ FailsExactlyOnBadBatch'
  BY <1>1, <1>2 DEF WinnersAreFreshest, FailsExactlyOnBadBatch
<1>9. ProjectedSoFar'
  <2>1. AreProjectionsOf({}, {})
    BY DEF AreProjectionsOf
  <2>2. Accepted' \ todo' = {} /\ projections' = {}
    BY <1>1, <1>2, <1>3, <1>5
  <2> QED
    BY <1>1, <1>2, <1>3, <2>1, <2>2 DEF ProjectedSoFar
<1> QED
  BY <1>6, <1>7, <1>8, <1>9 DEF IndInv

\* Applying the first of the accepted facts that remain keeps the projections
\* those of the facts applied.
LEMMA ProjectStep ==
    ASSUME IndInv, NEW f \in todo, Project(f)
    PROVE  IndInv'
<1> DEFINE held == {p \in projections : p.subject_id = f.subject_id}
           base == IF held = {} THEN NewProjection ELSE CHOOSE p \in held : TRUE
<1>1. /\ TypeOK /\ NotYet /\ FactsAreRead /\ FailsExactlyOnBadBatch /\ ProjectedSoFar
      /\ phase = "project" /\ todo' = todo \ {f}
      /\ \A g \in todo \ {f} : ~AppliedBefore(g, f)
      /\ projections' = (projections \ held) \cup {ApplyFact(base, f)}
      /\ UNCHANGED <<batch, policy, phase, next, facts, duplicates, winners, decisions>>
  BY DEF IndInv, Project
<1>2. /\ Read' = Read /\ ReadFacts' = ReadFacts /\ BadBatch' = BadBatch
      /\ Accepted' = Accepted
  BY <1>1, SameRead
<1>3. /\ todo \subseteq Accepted /\ AreProjectionsOf(projections, Accepted \ todo)
      /\ \A g \in Accepted \ todo, h \in todo : AppliedBefore(g, h)
  BY <1>1 DEF ProjectedSoFar
<1>4. (held = {} /\ base = NewProjection) \/ base \in held
  OBVIOUS
<1>first. \A g \in todo \ {f} : AppliedBefore(f, g)
  <2>1. f \in facts /\ todo \subseteq facts /\ \A g \in facts : IsFact(g)
    BY <1>1, FactsAreFacts DEF TypeOK, Running
  <2>2. \A g \in facts : f.event_key = g.event_key => f = g
    BY <1>1, <2>1 DEF FactsAreRead, Running
  <2> QED
    BY <1>1, <2>1, <2>2, AppliedTotal
<1>5. Accepted \ (todo \ {f}) = (Accepted \ todo) \cup {f}
  BY <1>3
<1>6. AreProjectionsOf(projections', (Accepted \ todo) \cup {f})
  <2>1. f \notin Accepted \ todo /\ \A g \in Accepted \ todo : AppliedBefore(g, f)
    BY <1>3
  <2>2. held = {p \in projections : p.subject_id = f.subject_id}
    OBVIOUS
  <2> HIDE DEF held, base
  <2> QED
    BY <1>1, <1>3, <1>4, <2>1, <2>2, ProjectOne
<1>7. ProjectedSoFar'
  BY <1>first, <1>1, <1>2, <1>3, <1>5, <1>6 DEF ProjectedSoFar
<1>8. TypeOK'
  <2>1. f.freshness \in FreshnessTuple
    <3>1. f \in facts /\ IsFact(f)
      BY <1>1, FactsAreFacts DEF TypeOK, Running
    <3> QED
      BY <3>1, Zenon DEF IsFact
  <2>2. base.exists \in BOOLEAN /\ base.enabled \in BOOLEAN
    BY <1>1, <1>4 DEF TypeOK, NewProjection
  <2> HIDE DEF base
  <2>3. /\ ApplyFact(base, f).exists \in BOOLEAN /\ ApplyFact(base, f).enabled \in BOOLEAN
        /\ ApplyFact(base, f).freshness \in FreshnessTuple
    BY <2>1, <2>2 DEF ApplyFact, Lifecycle, LifecycleTypes
  <2>4. \A p \in projections' : /\ p.exists \in BOOLEAN /\ p.enabled \in BOOLEAN
                                /\ p.freshness \in FreshnessTuple
    BY <1>1, <2>3 DEF TypeOK
  <2> QED
    BY <1>1, <2>4 DEF TypeOK, Fact
<1>9. NotYet' /\ FactsAreRead'
  BY <1>1, <1>2 DEF NotYet, FactsAreRead, Running
<1>10. WinnersAreFreshest' /\ FailsExactlyOnBadBatch'
  BY <1>1, <1>2 DEF WinnersAreFreshest, FailsExactlyOnBadBatch
<1> QED
  BY <1>7, <1>8, <1>9, <1>10 DEF IndInv

\* Returning changes nothing the invariant is about.
LEMMA ReturnStep ==
    ASSUME IndInv, Return
    PROVE  IndInv'
<1>1. /\ TypeOK /\ NotYet /\ FactsAreRead /\ FailsExactlyOnBadBatch /\ ProjectedSoFar
      /\ phase = "project" /\ todo = {} /\ phase' = "done"
      /\ UNCHANGED <<batch, policy, next, facts, duplicates, todo, winners, decisions,
                     projections>>
  BY DEF IndInv, Return
<1>2. /\ Read' = Read /\ ReadFacts' = ReadFacts /\ BadBatch' = BadBatch
      /\ Accepted' = Accepted
  BY <1>1, SameRead
<1>3. TypeOK'
  BY <1>1 DEF TypeOK, Phases, Fact
<1>4. NotYet' /\ FactsAreRead'
  BY <1>1, <1>2 DEF NotYet, FactsAreRead, Running
<1>5. WinnersAreFreshest' /\ FailsExactlyOnBadBatch' /\ ProjectedSoFar'
  BY <1>1, <1>2 DEF WinnersAreFreshest, FailsExactlyOnBadBatch, ProjectedSoFar
<1> QED
  BY <1>3, <1>4, <1>5 DEF IndInv

\* A stuttering step keeps the invariant.
LEMMA StutterStep ==
    ASSUME IndInv, UNCHANGED vars
    PROVE  IndInv'
<1> USE DEF vars
<1>1. /\ Read' = Read /\ ReadFacts' = ReadFacts /\ BadBatch' = BadBatch
      /\ Accepted' = Accepted
  BY SameRead
<1>2. TypeOK'
  BY DEF IndInv, TypeOK, Fact
<1>3. NotYet' /\ FactsAreRead'
  BY <1>1 DEF IndInv, NotYet, FactsAreRead, Running
<1>4. WinnersAreFreshest' /\ FailsExactlyOnBadBatch' /\ ProjectedSoFar'
  BY <1>1 DEF IndInv, WinnersAreFreshest, FailsExactlyOnBadBatch, ProjectedSoFar
<1> QED
  BY <1>2, <1>3, <1>4 DEF IndInv

-----------------------------------------------------------------------------
(* The decisions                                                           *)

\* The event key of delivery i has been delivered before.
Repeated(i) ==
    \E j \in 1 .. i - 1 : KeyRank[batch[j].event_key] = KeyRank[batch[i].event_key]
Repeats(n) == {i \in 1 .. n : Repeated(i)}

\* What the loops have decided so far: the repeated deliveries among those read,
\* and, after the loop over the facts, one judgement of each.
DecidedSoFar ==
    /\ phase = "start" => duplicates = {}
    /\ Running => duplicates = Repeats(next - 1)
    /\ phase \in {"project", "done"} => decisions = {Judgement(f) : f \in facts}

\* A delivery is repeated exactly when the facts kept have its event key.
LEMMA RepeatedIsKnown ==
    ASSUME TypeOK, FactsAreRead, Running, Ingesting, Canonical(batch[next])
    PROVE  Repeated(next) <=> \E f \in facts : f.event_key = Fact(batch[next]).event_key
<1>1. /\ Read \subseteq Events /\ batch[next] \in Events
      /\ \A d \in Read : Canonical(d)
      /\ facts = ReadFacts
  BY ReadEvents DEF FactsAreRead, Ingesting
<1>2. \A d \in Read \cup {batch[next]} : Fact(d).event_key = KeyRank[d.event_key]
  BY <1>1, CanonicalFields DEF Fact
<1>3. Repeated(next) <=> \E d \in Read :
                            KeyRank[d.event_key] = KeyRank[batch[next].event_key]
  BY DEF Repeated, Read
<1> QED
  BY <1>1, <1>2, <1>3 DEF ReadFacts

\* Reading a delivery decides whether it is a duplicate.
LEMMA DecidedIngest ==
    ASSUME IndInv, DecidedSoFar, IngestNew \/ IngestSeen
    PROVE  DecidedSoFar'
<1>1. /\ TypeOK /\ FactsAreRead /\ Running /\ Ingesting /\ phase = "ingest"
      /\ Canonical(batch[next]) /\ next' = next + 1
      /\ duplicates = Repeats(next - 1)
  BY DEF IndInv, IngestNew, IngestSeen, Ingesting, Running, DecidedSoFar
<1>2. /\ 1 .. next = (1 .. next - 1) \cup {next} /\ next' - 1 = next
  BY <1>1, ReadEvents
<1>3. Repeated(next) <=> \E f \in facts : f.event_key = Fact(batch[next]).event_key
  BY <1>1, RepeatedIsKnown
<1>4. Repeats(next) = IF Repeated(next) THEN duplicates \cup {next} ELSE duplicates
  BY <1>1, <1>2 DEF Repeats
<1>5. batch' = batch => \A n : Repeats(n)' = Repeats(n)
  BY DEF Repeats, Repeated
<1>6. ASSUME batch' = batch, phase' = phase, duplicates' = Repeats(next)
      PROVE  DecidedSoFar'
  <2>1. Repeats(next - 1)' = Repeats(next)
    BY <1>2, <1>5, <1>6 DEF Repeats, Repeated
  <2> QED
    BY <1>1, <1>6, <2>1 DEF DecidedSoFar
<1>7. CASE IngestNew
  BY <1>3, <1>4, <1>6, <1>7 DEF IngestNew
<1>8. CASE IngestSeen
  <2>1. PICK previous \in facts :
          /\ previous.event_key = Fact(batch[next]).event_key
          /\ IF SameEvent(previous, Fact(batch[next]))
             THEN /\ duplicates' = duplicates \cup {next}
                  /\ UNCHANGED <<batch, policy, phase, facts, todo, winners,
                                 decisions, projections>>
             ELSE Fail
    BY <1>8 DEF IngestSeen
  <2>2. CASE SameEvent(previous, Fact(batch[next]))
    BY <1>3, <1>4, <1>6, <2>1, <2>2
  <2>3. CASE ~SameEvent(previous, Fact(batch[next]))
    BY <2>1, <2>3 DEF Fail, DecidedSoFar, Running
  <2> QED
    BY <2>2, <2>3
<1> QED
  BY <1>7, <1>8

\* What the decisions depend on does not change after the batch has been read.
LEMMA DecidedLater ==
    ASSUME DecidedSoFar, UNCHANGED <<batch, policy, next, facts, duplicates, decisions>>,
           \/ Running' => Running
           \/ phase = "start" /\ next = 1 /\ duplicates = {},
           phase' = "start" => phase = "start",
           phase' \in {"project", "done"} => phase \in {"project", "done"}
    PROVE  DecidedSoFar'
<1>1. Freshest' = Freshest
  BY SameRead
<1>2. \A f : Judgement(f)' = Judgement(f)
  BY <1>1 DEF Judgement
<1>3. {Judgement(f) : f \in facts}' = {Judgement(f) : f \in facts}
  BY <1>2
<1>4. Repeats(next - 1)' = Repeats(next - 1)
  BY DEF Repeats, Repeated
<1>5. next = 1 => Repeats(next - 1) = {}
  BY DEF Repeats
<1> QED
  BY <1>3, <1>4, <1>5 DEF DecidedSoFar

\* The loop over the facts judges each of them as the set of events calls for.
LEMMA DecidedDecide ==
    ASSUME IndInv, DecidedSoFar, Decide
    PROVE  DecidedSoFar'
<1>1. /\ phase = "contend" /\ phase' = "project" /\ todo = {}
      /\ decisions' = {Decision(f) : f \in facts}
      /\ UNCHANGED <<batch, policy, next, facts, duplicates>> /\ Running
  BY DEF Decide, Running
<1>2. \A f \in facts : Decision(f) = Judgement(f)
  BY <1>1, JudgedIsFreshest
<1>3. Freshest' = Freshest
  BY <1>1, SameRead
<1>4. \A f : Judgement(f)' = Judgement(f)
  BY <1>1, <1>3 DEF Judgement
<1>5. decisions' = {Judgement(f) : f \in facts}'
  BY <1>1, <1>2, <1>4
<1>6. Repeats(next - 1)' = Repeats(next - 1)
  BY <1>1 DEF Repeats, Repeated
<1> QED
  BY <1>1, <1>5, <1>6 DEF DecidedSoFar

-----------------------------------------------------------------------------
(* The theorems                                                            *)

\* IndInv holds in every state of every call, for any batches and policies.
THEOREM Invariance == Spec => []IndInv
<1>1. Init => IndInv
  <2> SUFFICES ASSUME Init PROVE IndInv
    OBVIOUS
  <2>1. batch \in Seq(Events)
    BY ResolverAssumption DEF Init
  <2>2. 1 \in 1 .. Len(batch) + 1
    BY <2>1
  <2>3. TypeOK
    BY <2>2 DEF Init, TypeOK, Phases
  <2> QED
    BY <2>3 DEF Init, IndInv, NotYet, FactsAreRead, Running, WinnersAreFreshest,
                ProjectedSoFar, FailsExactlyOnBadBatch
<1>2. IndInv /\ [Next]_vars => IndInv'
  BY StartStep, IngestInvalidStep, IngestNewStep, IngestSeenStep, GroupStep,
     ContendStep, DecideStep, ProjectStep, ReturnStep, StutterStep DEF Next
<1> QED
  BY <1>1, <1>2, PTL DEF Spec

\* Type correctness: whatever a call of ResolveBatch keeps comes from its batch.
THEOREM TypeCorrect == Spec => []TypeOK
<1>1. IndInv => TypeOK
  BY DEF IndInv
<1> QED
  BY <1>1, Invariance, PTL

\* ResolveBatch fails exactly on an invalid policy, an event that cannot be
\* canonicalized or one event key on two different events, wherever they are.
THEOREM FailsExactly == Spec => []FailsExactlyOnBadBatch
<1>1. IndInv => FailsExactlyOnBadBatch
  BY DEF IndInv
<1> QED
  BY <1>1, Invariance, PTL

\* The projections ResolveBatch returns are those its set of events determines,
\* whatever the order and the number of deliveries.
THEOREM DeliveryOrderIrrelevant == Spec => []ProjectionsDependOnSetOnly
<1>1. IndInv => ProjectionsDependOnSetOnly
  <2> SUFFICES ASSUME IndInv, phase = "done"
               PROVE  next > Len(batch) /\ AreProjectionsOf(projections, Accepted)
    BY DEF ProjectionsDependOnSetOnly
  <2>1. next > Len(batch) /\ todo = {} /\ AreProjectionsOf(projections, Accepted \ todo)
    BY DEF IndInv, NotYet, ProjectedSoFar
  <2>2. Accepted \ todo = Accepted
    BY <2>1
  <2> QED
    BY <2>1, <2>2
<1> QED
  BY <1>1, Invariance, PTL

\* ResolveBatch decides every delivery once: a repeated event key as a duplicate
\* delivery, the others by the policy if no revision is fresher.
THEOREM DeliveriesDecided == Spec => []EveryDeliveryDecided
<1>1. Init => DecidedSoFar
  BY DEF Init, DecidedSoFar, Running
<1>2. IndInv /\ DecidedSoFar /\ [Next]_vars => DecidedSoFar'
  <2> SUFFICES ASSUME IndInv, DecidedSoFar, [Next]_vars
               PROVE  DecidedSoFar'
    OBVIOUS
  <2>1. CASE Start
    <3>1. next = 1 /\ duplicates = {}
      BY <2>1 DEF IndInv, NotYet, Start, DecidedSoFar
    <3> QED
      BY <2>1, <3>1, DecidedLater DEF Start, Fail, DecidedSoFar, Running
  <2>2. CASE IngestInvalid
    BY <2>2 DEF IngestInvalid, Fail, DecidedSoFar, Running
  <2>3. CASE IngestNew \/ IngestSeen
    BY <2>3, DecidedIngest
  <2>4. CASE Group \/ Return \/ UNCHANGED vars
    BY <2>4, DecidedLater DEF Group, Return, vars, Running
  <2>5. CASE \E f \in todo : Contend(f) \/ Project(f)
    BY <2>5, DecidedLater DEF Contend, Project, Running
  <2>6. CASE Decide
    BY <2>6, DecidedDecide
  <2> QED
    BY <2>1, <2>2, <2>3, <2>4, <2>5, <2>6 DEF Next
<1>3. IndInv /\ DecidedSoFar => EveryDeliveryDecided
  <2> SUFFICES ASSUME IndInv, DecidedSoFar, phase = "done"
               PROVE  EveryDeliveryDecided
    BY DEF EveryDeliveryDecided
  <2>1. /\ TypeOK /\ FactsAreRead /\ Running /\ next = Len(batch) + 1
        /\ facts = ReadFacts /\ \A e \in Read : Canonical(e)
        /\ \A f, g \in facts : f.event_key = g.event_key => f = g
        /\ duplicates = Repeats(next - 1)
        /\ decisions = {Judgement(f) : f \in facts}
    BY ReadEvents DEF IndInv, NotYet, FactsAreRead, Running, DecidedSoFar, TypeOK
  <2>2. duplicates = Repeats(Len(batch))
    BY <2>1, ReadEvents
  <2>3. ASSUME NEW i \in 1 .. Len(batch)
        PROVE  Cardinality({d \in decisions :
                  d.fact.event_key = KeyRank[batch[i].event_key]}) = 1
    <3>1. batch[i] \in Read /\ batch[i] \in Events /\ Canonical(batch[i])
      BY <2>1, ReadEvents DEF Read
    <3>2. Fact(batch[i]) \in facts /\ Fact(batch[i]).event_key = KeyRank[batch[i].event_key]
      BY <2>1, <3>1, CanonicalFields DEF ReadFacts, Fact
    <3>3. \A f : Judgement(f).fact = f
      BY DEF Judgement
    <3>4. {d \in decisions : d.fact.event_key = KeyRank[batch[i].event_key]}
            = {Judgement(Fact(batch[i]))}
      BY <2>1, <3>2, <3>3
    <3> QED
      BY <3>4, FS_Singleton
  <2>4. ASSUME NEW d \in decisions
        PROVE  \/ d.fact \in Freshest /\ <<d.action, d.reason>> = Evaluate(policy, d.fact)
               \/ d.fact \notin Freshest
                  /\ <<d.action, d.reason>> = <<"skip", "duplicate_or_older">>
    <3>1. PICK f \in facts : d = Judgement(f)
      BY <2>1
    <3>2. Evaluate(policy, f) = <<Evaluate(policy, f)[1], Evaluate(policy, f)[2]>>
      BY DEF Evaluate
    <3> QED
      BY <3>1, <3>2 DEF Judgement
  <2> QED
    BY <2>2, <2>3, <2>4 DEF EveryDeliveryDecided, Repeats, Repeated
<1> QED
  BY <1>1, <1>2, <1>3, Invariance, PTL DEF Spec

\* The set of events leaves nothing open: whatever satisfies the description of
\* the result agrees in every field with what ResolveBatch returned, so two calls
\* with the same events and policy return the same projections.
THEOREM ResultDetermined ==
    Spec => [](phase = "done" =>
                  \A qs : AreProjectionsOf(qs, Accepted) =>
                     /\ \A p \in projections : \E q \in qs : SameProjection(p, q)
                     /\ \A q \in qs : \E p \in projections : SameProjection(p, q))
<1> DEFINE Determined ==
              phase = "done" =>
                 \A qs : AreProjectionsOf(qs, Accepted) =>
                    /\ \A p \in projections : \E q \in qs : SameProjection(p, q)
                    /\ \A q \in qs : \E p \in projections : SameProjection(p, q)
<1>1. IndInv /\ ProjectionsDependOnSetOnly => Determined
  <2> SUFFICES ASSUME IndInv, ProjectionsDependOnSetOnly, phase = "done",
                      NEW qs, AreProjectionsOf(qs, Accepted)
               PROVE  /\ \A p \in projections : \E q \in qs : SameProjection(p, q)
                      /\ \A q \in qs : \E p \in projections : SameProjection(p, q)
    OBVIOUS
  <2>1. AreProjectionsOf(projections, Accepted)
    BY DEF ProjectionsDependOnSetOnly
  <2>2. \A f \in Accepted : IsFact(f)
    <3>1. TypeOK /\ FactsAreRead /\ Running
      BY DEF IndInv, Running
    <3>2. Accepted \subseteq facts
      BY <3>1 DEF Accepted, Freshest, FactsAreRead
    <3> QED
      BY <3>1, <3>2, FactsAreFacts
  <2>3. ASSUME NEW p, NEW q, IsProjectionOf(p, Accepted), IsProjectionOf(q, Accepted),
               p.subject_id = q.subject_id
        PROVE  SameProjection(p, q)
    <3> DEFINE mine == {f \in Accepted : f.subject_id = p.subject_id}
    <3>1. Describes(p, mine) /\ Describes(q, mine)
      BY <2>3 DEF IsProjectionOf
    <3>2. \A f \in mine : IsFact(f)
      BY <2>2
    <3> HIDE DEF mine
    <3> QED
      BY <2>3, <3>1, <3>2, OneMeaning
  <2>4. /\ \A p \in projections : IsProjectionOf(p, Accepted)
        /\ \A q \in qs : IsProjectionOf(q, Accepted)
        /\ {p.subject_id : p \in projections} = {q.subject_id : q \in qs}
    BY <2>1 DEF AreProjectionsOf
  <2>5. \A p \in projections : \E q \in qs : p.subject_id = q.subject_id
    BY <2>4
  <2>6. \A q \in qs : \E p \in projections : p.subject_id = q.subject_id
    BY <2>4
  <2> QED
    BY <2>3, <2>4, <2>5, <2>6
<1> QED
  BY <1>1, Invariance, DeliveryOrderIrrelevant, PTL
=============================================================================
