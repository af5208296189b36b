--------------------------- MODULE ProjectionProofs ---------------------------
(***************************************************************************)
(* Projection: the facts of a batch are totally ordered, a set of facts    *)
(* has one meaning, and applyFact computes it one fact at a time.          *)
(***************************************************************************)
EXTENDS Projection, FreshnessProofs, FiniteSetTheorems

\* What the proofs use of a canonical fact
IsFact(f) ==
    /\ f.freshness \in FreshnessTuple
    /\ f.freshness.physical_event_key = f.event_key
    /\ f.effective_time \in Int

\* FreshnessTuple.Compare as the order "not fresher than"
LEMMA CompareOrder ==
    ASSUME NEW f \in FreshnessTuple, NEW g \in FreshnessTuple, NEW h \in FreshnessTuple
    PROVE  /\ Compare(f, f) <= 0
           /\ ~(Compare(f, g) > 0) => Compare(f, g) <= 0
           /\ Compare(f, g) > 0 => Compare(g, f) <= 0
           /\ Compare(f, g) <= 0 /\ Compare(g, f) <= 0 => f = g
           /\ Compare(f, g) <= 0 /\ Compare(g, h) <= 0 => Compare(f, h) <= 0
BY TupleFields, TupleEqual, CollationAssumption DEF Compare, Sign

\* The sort of the accepted facts leaves no two of them unordered.
LEMMA AppliedTotal ==
    ASSUME NEW f, NEW g, IsFact(f), IsFact(g), f.event_key # g.event_key
    PROVE  AppliedBefore(f, g) \/ AppliedBefore(g, f)
<1>1. /\ f.freshness \in FreshnessTuple /\ g.freshness \in FreshnessTuple
      /\ f.freshness # g.freshness
      /\ f.effective_time \in Int /\ g.effective_time \in Int
  BY Zenon DEF IsFact
<1>2. Compare(f.freshness, g.freshness) < 0 \/ Compare(g.freshness, f.freshness) < 0
  BY <1>1, CompareTotal
<1> QED
  BY <1>1, <1>2 DEF AppliedBefore

\* Nor does it order two facts both ways, so a set has one last fact.
LEMMA OneLast ==
    ASSUME NEW S, \A f \in S : IsFact(f),
           NEW f, NEW g, LastOf(f, S), LastOf(g, S)
    PROVE  f = g
<1> SUFFICES ASSUME f # g PROVE FALSE
  OBVIOUS
<1>1. f \in S /\ g \in S /\ AppliedBefore(f, g) /\ AppliedBefore(g, f)
  BY DEF LastOf
<1>2. /\ f.freshness \in FreshnessTuple /\ g.freshness \in FreshnessTuple
      /\ f.effective_time \in Int /\ g.effective_time \in Int
  BY <1>1, Zenon DEF IsFact
<1>3. ~(Compare(f.freshness, g.freshness) < 0 /\ Compare(g.freshness, f.freshness) < 0)
  BY <1>2, TupleFields, CollationAssumption DEF Compare, Sign
<1> QED
  BY <1>1, <1>2, <1>3 DEF AppliedBefore

\* Two projections agree in every field.
SameProjection(p, q) ==
    /\ p.subject_id = q.subject_id
    /\ p.exists = q.exists /\ p.enabled = q.enabled
    /\ p.lifecycle_state = q.lifecycle_state
    /\ DOMAIN p.attributes = DOMAIN q.attributes
    /\ \A name \in DOMAIN p.attributes : p.attributes[name] = q.attributes[name]
    /\ p.source_fact_key = q.source_fact_key
    /\ p.source_event_key = q.source_event_key
    /\ p.effective_time = q.effective_time
    /\ p.freshness = q.freshness

\* A set of facts has one meaning: it leaves no field of a projection open.
LEMMA OneMeaning ==
    ASSUME NEW S, \A f \in S : IsFact(f),
           NEW p, NEW q, Describes(p, S), Describes(q, S), p.subject_id = q.subject_id
    PROVE  SameProjection(p, q)
<1> DEFINE deciding == {f \in S : f.event_type \in LifecycleTypes}
           carrying(name) == {f \in S : name \in DOMAIN f.attributes}
<1>1. /\ p.source_fact_key = q.source_fact_key /\ p.source_event_key = q.source_event_key
      /\ p.effective_time = q.effective_time /\ p.freshness = q.freshness
  <2>1. PICK f \in S : /\ LastOf(f, S)
                       /\ p.source_fact_key = f.fact_key
                       /\ p.source_event_key = f.event_key
                       /\ p.effective_time = f.effective_time
                       /\ p.freshness = f.freshness
    BY DEF Describes
  <2>2. PICK g \in S : /\ LastOf(g, S)
                       /\ q.source_fact_key = g.fact_key
                       /\ q.source_event_key = g.event_key
                       /\ q.effective_time = g.effective_time
                       /\ q.freshness = g.freshness
    BY DEF Describes
  <2>3. f = g
    BY <2>1, <2>2, OneLast
  <2> QED
    BY <2>1, <2>2, <2>3
<1>2. /\ p.exists = q.exists /\ p.enabled = q.enabled
      /\ p.lifecycle_state = q.lifecycle_state
  <2>1. CASE deciding = {}
    BY <2>1 DEF Describes
  <2>2. CASE deciding # {}
    <3>1. PICK f \in deciding : /\ LastOf(f, deciding)
                                /\ p.exists = Lifecycle(f.event_type).exists
                                /\ p.enabled = Lifecycle(f.event_type).enabled
                                /\ p.lifecycle_state = Lifecycle(f.event_type).lifecycle_state
      BY <2>2 DEF Describes
    <3>2. PICK g \in deciding : /\ LastOf(g, deciding)
                                /\ q.exists = Lifecycle(g.event_type).exists
                                /\ q.enabled = Lifecycle(g.event_type).enabled
                                /\ q.lifecycle_state = Lifecycle(g.event_type).lifecycle_state
      BY <2>2 DEF Describes
    <3>3. \A h \in deciding : IsFact(h)
      OBVIOUS
    <3>4. f = g
      BY <3>1, <3>2, <3>3, OneLast
    <3> QED
      BY <3>1, <3>2, <3>4
  <2> QED
    BY <2>1, <2>2
<1>3. DOMAIN p.attributes = DOMAIN q.attributes
  BY DEF Describes
<1>4. ASSUME NEW name \in DOMAIN p.attributes
      PROVE  p.attributes[name] = q.attributes[name]
  <2>1. PICK f \in carrying(name) : /\ LastOf(f, carrying(name))
                                    /\ p.attributes[name] = f.attributes[name]
    BY DEF Describes
  <2>2. PICK g \in carrying(name) : /\ LastOf(g, carrying(name))
                                    /\ q.attributes[name] = g.attributes[name]
    BY <1>3 DEF Describes
  <2>3. \A h \in carrying(name) : IsFact(h)
    OBVIOUS
  <2>4. f = g
    BY <2>1, <2>2, <2>3, OneLast
  <2> QED
    BY <2>1, <2>2, <2>4
<1> QED
  BY <1>1, <1>2, <1>3, <1>4 DEF SameProjection

-----------------------------------------------------------------------------
(* applyFact against the meaning of a set of facts                         *)

\* Applying a fact that comes after all the others to the projection of the
\* others gives the projection of all.
LEMMA ApplyLast ==
    ASSUME NEW S, NEW f, f \notin S, \A g \in S : AppliedBefore(g, f),
           NEW base,
           \/ base = NewProjection /\ {g \in S : g.subject_id = f.subject_id} = {}
           \/ base.subject_id = f.subject_id /\ IsProjectionOf(base, S)
    PROVE  IsProjectionOf(ApplyFact(base, f), S \cup {f})
<1> DEFINE new == ApplyFact(base, f)
           T == S \cup {f}
           old == {g \in S : g.subject_id = f.subject_id}
           mine == {g \in T : g.subject_id = new.subject_id}
           deciding == {g \in mine : g.event_type \in LifecycleTypes}
           carrying(n) == {g \in mine : n \in DOMAIN g.attributes}
<1>1. /\ new.subject_id = f.subject_id /\ new.source_fact_key = f.fact_key
      /\ new.source_event_key = f.event_key /\ new.effective_time = f.effective_time
      /\ new.freshness = f.freshness
      /\ new.attributes = Overlay(base.attributes, f.attributes)
  BY DEF ApplyFact
<1>2. mine = old \cup {f}
  BY <1>1
<1>3. LastOf(f, mine)
  BY <1>2 DEF LastOf
<1>4. \/ /\ deciding = {}
         /\ new.exists = FALSE /\ new.enabled = FALSE /\ new.lifecycle_state = ""
      \/ \E g \in deciding :
            /\ LastOf(g, deciding)
            /\ new.exists = Lifecycle(g.event_type).exists
            /\ new.enabled = Lifecycle(g.event_type).enabled
            /\ new.lifecycle_state = Lifecycle(g.event_type).lifecycle_state
  <2>1. CASE f.event_type \in LifecycleTypes
    <3>1. f \in deciding /\ LastOf(f, deciding)
      BY <1>2, <2>1 DEF LastOf
    <3>2. /\ new.exists = Lifecycle(f.event_type).exists
          /\ new.enabled = Lifecycle(f.event_type).enabled
          /\ new.lifecycle_state = Lifecycle(f.event_type).lifecycle_state
      BY <2>1 DEF ApplyFact
    <3> QED
      BY <3>1, <3>2
  <2>2. CASE f.event_type \notin LifecycleTypes
    <3>1. deciding = {g \in old : g.event_type \in LifecycleTypes}
      BY <1>2, <2>2
    <3>2. /\ new.exists = base.exists /\ new.enabled = base.enabled
          /\ new.lifecycle_state = base.lifecycle_state
      BY <2>2 DEF ApplyFact
    <3>3. CASE base = NewProjection /\ old = {}
      BY <3>1, <3>2, <3>3 DEF NewProjection
    <3>4. CASE base.subject_id = f.subject_id /\ IsProjectionOf(base, S)
      <4> DEFINE had == {g \in old : g.event_type \in LifecycleTypes}
      <4>1. Describes(base, old)
        BY <3>4, Zenon DEF IsProjectionOf
      <4>2. \/ /\ had = {}
               /\ base.exists = FALSE /\ base.enabled = FALSE
               /\ base.lifecycle_state = ""
            \/ \E g \in had : /\ LastOf(g, had)
                              /\ base.exists = Lifecycle(g.event_type).exists
                              /\ base.enabled = Lifecycle(g.event_type).enabled
                              /\ base.lifecycle_state = Lifecycle(g.event_type).lifecycle_state
        <5> HIDE DEF old
        <5> QED
          BY <4>1, Zenon DEF Describes
      <4>3. deciding = had
        BY <3>1
      <4> HIDE DEF had, deciding, new
      <4> QED
        BY <3>2, <4>2, <4>3
    <3> QED
      BY <3>3, <3>4
  <2> QED
    BY <2>1, <2>2
<1>5. DOMAIN base.attributes = UNION {DOMAIN g.attributes : g \in old}
  <2>1. CASE base = NewProjection /\ old = {}
    BY <2>1 DEF NewProjection, EmptyMap
  <2>2. CASE base.subject_id = f.subject_id /\ IsProjectionOf(base, S)
    BY <2>2 DEF IsProjectionOf, Describes
  <2> QED
    BY <2>1, <2>2
<1>6. /\ DOMAIN new.attributes = DOMAIN base.attributes \cup DOMAIN f.attributes
      /\ \A n \in DOMAIN new.attributes :
            new.attributes[n] = IF n \in DOMAIN f.attributes THEN f.attributes[n]
                                ELSE base.attributes[n]
  BY <1>1 DEF Overlay
<1>7. DOMAIN new.attributes = UNION {DOMAIN g.attributes : g \in mine}
  BY <1>2, <1>5, <1>6
<1>8. ASSUME NEW n \in DOMAIN new.attributes
      PROVE  \E g \in carrying(n) : /\ LastOf(g, carrying(n))
                                    /\ new.attributes[n] = g.attributes[n]
  <2>1. CASE n \in DOMAIN f.attributes
    <3>1. f \in carrying(n) /\ LastOf(f, carrying(n))
      BY <1>2, <2>1 DEF LastOf
    <3> QED
      BY <1>6, <2>1, <3>1
  <2>2. CASE n \notin DOMAIN f.attributes
    <3>1. n \in DOMAIN base.attributes /\ new.attributes[n] = base.attributes[n]
      BY <1>6, <2>2
    <3>2. carrying(n) = {g \in old : n \in DOMAIN g.attributes}
      BY <1>2, <2>2
    <3>3. base.subject_id = f.subject_id /\ IsProjectionOf(base, S)
      <4>1. \E g \in old : n \in DOMAIN g.attributes
        BY <1>5, <3>1
      <4>2. old # {}
        BY <4>1
      <4> QED
        BY <4>2
    <3>4. old = {h \in S : h.subject_id = base.subject_id}
      BY <3>3
    <3> DEFINE had(s) == {h \in s : n \in DOMAIN h.attributes}
    <3>5. \E g \in had({h \in S : h.subject_id = base.subject_id}) :
             /\ LastOf(g, had({h \in S : h.subject_id = base.subject_id}))
             /\ base.attributes[n] = g.attributes[n]
      BY <3>1, <3>3 DEF IsProjectionOf, Describes
    <3>6. \E g \in had(old) : LastOf(g, had(old)) /\ base.attributes[n] = g.attributes[n]
      BY <3>4, <3>5
    <3> QED
      BY <3>1, <3>2, <3>6
  <2> QED
    BY <2>1, <2>2
<1>9. f \in mine
  BY <1>2
<1> HIDE DEF new, T
<1> QED
  BY <1>1, <1>3, <1>4, <1>7, <1>8, <1>9 DEF IsProjectionOf, Describes, T, new

-----------------------------------------------------------------------------
(* Finite sets of facts have a last fact                                   *)

\* Among subsets of a finite set, one has no other below it.
LEMMA SmallestSet ==
    ASSUME NEW S, IsFiniteSet(S), NEW F, F \subseteq SUBSET S, F # {}
    PROVE  \E T \in F : \A R \in F : R \subseteq T => R = T
<1>1. IsWellFoundedOn(StrictSubsetOrdering(S), SUBSET S)
  BY FS_StrictSubsetOrderingWellFounded, FS_FiniteSubsetsOfFinite
<1>2. PICK T \in F : \A R \in F : <<R, T>> \notin StrictSubsetOrdering(S)
  BY <1>1, WFMin
<1>3. ASSUME NEW R \in F, R \subseteq T PROVE R = T
  BY <1>2, <1>3 DEF StrictSubsetOrdering
<1> QED
  BY <1>3

\* A finite set has a member that nothing in it is above, in any strict order.
LEMMA TopOf ==
    ASSUME NEW S, IsFiniteSet(S), S # {}, NEW above,
           \A f \in S : <<f, f>> \notin above,
           \A f, g, h \in S :
              <<f, g>> \in above /\ <<g, h>> \in above => <<f, h>> \in above
    PROVE  \E f \in S : \A g \in S : <<g, f>> \notin above
<1> DEFINE Up(f) == {g \in S : <<g, f>> \in above}
           Ups == {Up(f) : f \in S}
<1>1. Ups \subseteq SUBSET S
  OBVIOUS
<1>2. \A f \in S : Up(f) \in Ups
  OBVIOUS
<1>3. Ups # {}
  <2> HIDE DEF Ups
  <2> QED
    BY <1>2
<1>4. \A T \in Ups : \E f \in S : T = Up(f)
  OBVIOUS
<1>5. PICK T \in Ups : \A R \in Ups : R \subseteq T => R = T
  <2> HIDE DEF Ups
  <2> QED
    BY <1>1, <1>3, SmallestSet
<1>6. PICK f \in S : T = Up(f)
  BY <1>4
<1>7. ASSUME NEW g \in S, <<g, f>> \in above PROVE FALSE
  <2>1. Up(g) \subseteq Up(f)
    BY <1>7
  <2>2. g \in Up(f) /\ g \notin Up(g)
    BY <1>7
  <2> HIDE DEF Up, Ups
  <2> QED
    BY <1>2, <1>5, <1>6, <2>1, <2>2
<1> QED
  BY <1>7

\* The sort order is irreflexive and transitive.
LEMMA AppliedOrder ==
    ASSUME NEW f, NEW g, NEW h, IsFact(f), IsFact(g), IsFact(h)
    PROVE  /\ ~AppliedBefore(f, f)
           /\ AppliedBefore(f, g) /\ AppliedBefore(g, h) => AppliedBefore(f, h)
<1>1. /\ f.freshness \in FreshnessTuple /\ f.effective_time \in Int
      /\ g.freshness \in FreshnessTuple /\ g.effective_time \in Int
      /\ h.freshness \in FreshnessTuple /\ h.effective_time \in Int
  BY Zenon DEF IsFact
<1>2. Compare(f.freshness, f.freshness) = 0
  BY <1>1, CompareTotal
<1>3. Compare(f.freshness, g.freshness) < 0 /\ Compare(g.freshness, h.freshness) < 0
        => Compare(f.freshness, h.freshness) < 0
  BY <1>1, CompareTransitive
<1> QED
  BY <1>1, <1>2, <1>3 DEF AppliedBefore

\* A finite batch of facts has a last one.
LEMMA LastExists ==
    ASSUME NEW S, IsFiniteSet(S), S # {}, \A f \in S : IsFact(f),
           \A f, g \in S : f.event_key = g.event_key => f = g
    PROVE  \E f \in S : LastOf(f, S)
<1> DEFINE above == {p \in S \X S : AppliedBefore(p[2], p[1])}
<1>1. PICK f \in S : \A g \in S : <<g, f>> \notin above
  <2>1. \A g \in S : <<g, g>> \notin above
    BY AppliedOrder
  <2>2. \A g, h, i \in S :
           <<g, h>> \in above /\ <<h, i>> \in above => <<g, i>> \in above
    BY AppliedOrder
  <2> HIDE DEF above
  <2> QED
    BY <2>1, <2>2, TopOf
<1>2. \A g \in S \ {f} : AppliedBefore(g, f)
  BY <1>1, AppliedTotal
<1> QED
  BY <1>2 DEF LastOf
=============================================================================
