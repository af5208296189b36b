---------------------------- MODULE PipelineProofs ----------------------------
(***************************************************************************)
(* Pipeline: the projection loop computes what a set of facts says, the    *)
(* row always says what some facts that had arrived say, when a write can  *)
(* forget a fact, and where the row ends, for any finite set of facts and  *)
(* any callers.                                                            *)
(***************************************************************************)
EXTENDS Pipeline, ProjectionStoreProofs, ProjectionProofs

-----------------------------------------------------------------------------
(* The projection loop                                                     *)

\* The fact that is applied last, and one unfolding of Projected
LastFact(S) == CHOOSE f \in S : LastOf(f, S)
Unfolded(g, S) ==
    IF S = {} THEN NewProjection ELSE ApplyFact(g[S \ {LastFact(S)}], LastFact(S))

\* What the assumption says of some of the facts.
LEMMA SomeFacts ==
    ASSUME NEW S \in SUBSET Facts
    PROVE  /\ IsFiniteSet(S)
           /\ \A f \in S : IsFact(f)
           /\ \A f, g \in S : f.event_key = g.event_key => f = g
           /\ \A f, g \in S : f.subject_id = g.subject_id
<1>1. IsFiniteSet(S)
  BY PipelineAssumption, FS_Subset
<1>2. \A f \in S : IsFact(f)
  BY PipelineAssumption, MicrosAssumption DEF IsFact
<1> QED
  BY <1>1, <1>2, PipelineAssumption

\* The loop applies a fact of the set after all the others of the set.
LEMMA LastFactIsLast ==
    ASSUME NEW S \in SUBSET Facts, S # {}
    PROVE  LastFact(S) \in S /\ LastOf(LastFact(S), S)
<1>1. \E f \in S : LastOf(f, S)
  BY SomeFacts, LastExists
<1> QED
  BY <1>1 DEF LastFact

\* The recursion ends, so some function satisfies the equation of Projected: a
\* function that satisfies it on as many sets as possible does so on all.
LEMMA ProjectedExists == \E g : g = [S \in SUBSET Facts |-> Unfolded(g, S)]
<1> DEFINE All == SUBSET Facts
           Closed(D) == \A X \in D : X # {} => X \ {LastFact(X)} \in D
           Solves(g, D) == /\ g = [X \in All |-> g[X]]
                           /\ \A X \in D : g[X] = Unfolded(g, X)
           Solved(D) == Closed(D) /\ \E g : Solves(g, D)
           Left == {C \in SUBSET All : Solved(All \ C)}
<1>1. IsFiniteSet(Facts) /\ IsFiniteSet(All)
  BY PipelineAssumption, FS_SUBSET
<1>2. Left \subseteq SUBSET All /\ All \in Left
  <2>1. Solves([X \in All |-> NewProjection], {})
    OBVIOUS
  <2>2. Closed({})
    OBVIOUS
  <2>3. All \ All = {}
    OBVIOUS
  <2> HIDE DEF Closed, Solves
  <2> QED
    BY <2>1, <2>2, <2>3
<1>3. PICK C \in Left : \A B \in Left : B \subseteq C => B = C
  <2> HIDE DEF Left, All
  <2> QED
    BY <1>1, <1>2, SmallestSet
<1>4. PICK g : Solves(g, All \ C)
  BY <1>3
<1>5. Closed(All \ C)
  BY <1>3
<1>6. C \subseteq All
  BY <1>3
<1>7. ASSUME C # {} PROVE FALSE
  <2>1. PICK T \in C : \A R \in C : R \subseteq T => R = T
    <3> HIDE DEF Left
    <3> QED
      BY <1>1, <1>6, <1>7, SmallestSet
  <2> DEFINE h == [X \in All |-> IF X = T THEN Unfolded(g, T) ELSE g[X]]
             D == All \ (C \ {T})
  <2>2. T \in All /\ D = (All \ C) \cup {T} /\ T \notin All \ C
    BY <1>6, <2>1
  <2>3. T # {} => /\ T \ {LastFact(T)} \in All \ C
                  /\ T \ {LastFact(T)} # T
    BY <2>1, <2>2, LastFactIsLast
  <2>4. Closed(D)
    BY <1>5, <2>2, <2>3
  <2>5. Unfolded(h, T) = Unfolded(g, T)
    <3>1. T # {} => h[T \ {LastFact(T)}] = g[T \ {LastFact(T)}]
      BY <2>3
    <3> QED
      BY <3>1 DEF Unfolded
  <2>6. ASSUME NEW X \in All \ C PROVE Unfolded(h, X) = Unfolded(g, X)
    <3>1. X # {} => X \ {LastFact(X)} \in All \ C
      BY <1>5
    <3>2. X # {} => h[X \ {LastFact(X)}] = g[X \ {LastFact(X)}]
      BY <2>2, <3>1
    <3> QED
      BY <3>2 DEF Unfolded
  <2>7. ASSUME NEW X \in D PROVE h[X] = Unfolded(h, X)
    BY <1>4, <2>2, <2>5, <2>6, <2>7
  <2>8. h = [X \in All |-> h[X]]
    OBVIOUS
  <2>9. Solves(h, D)
    BY <2>7, <2>8
  <2>10. C \ {T} \in Left
    <3> HIDE DEF h, Closed, Solves
    <3> QED
      BY <1>6, <2>4, <2>9
  <2> QED
    BY <1>3, <2>1, <2>10
<1>8. g = [X \in All |-> g[X]] /\ \A X \in All : g[X] = Unfolded(g, X)
  BY <1>4, <1>7
<1>9. g = [S \in SUBSET Facts |-> Unfolded(g, S)]
  BY <1>8
<1> QED
  BY <1>9

\* One step of the projection loop.
LEMMA ProjectedStep ==
    ASSUME NEW S \in SUBSET Facts
    PROVE  Projected[S] = Unfolded(Projected, S)
<1>1. Projected = CHOOSE g : g = [X \in SUBSET Facts |-> Unfolded(g, X)]
  BY DEF Projected, Unfolded, LastFact
<1>2. Projected = [X \in SUBSET Facts |-> Unfolded(Projected, X)]
  BY <1>1, ProjectedExists
<1> QED
  BY <1>2

\* The projection loop computes what the facts say, for any set of facts: applied
\* one by one, they leave the projection that Describes defines without an order.
THEOREM LoopComputesMeaning ==
    ASSUME NEW S \in SUBSET Facts, S # {}
    PROVE  /\ IsProjectionOf(Projected[S], S)
           /\ Projected[S].subject_id = LastFact(S).subject_id
           /\ Projected[S].freshness = LastFact(S).freshness
<1> DEFINE Wrong == {T \in SUBSET Facts : T # {} /\ ~IsProjectionOf(Projected[T], T)}
<1>1. ASSUME NEW T \in SUBSET Facts, T # {}
      PROVE  Projected[T] = ApplyFact(Projected[T \ {LastFact(T)}], LastFact(T))
  BY <1>1, ProjectedStep DEF Unfolded
<1>2. ASSUME NEW T \in SUBSET Facts, T # {}
      PROVE  /\ Projected[T].subject_id = LastFact(T).subject_id
             /\ Projected[T].freshness = LastFact(T).freshness
  <2>1. \A p, f : /\ ApplyFact(p, f).subject_id = f.subject_id
                  /\ ApplyFact(p, f).freshness = f.freshness
    BY DEF ApplyFact
  <2> QED
    BY <1>1, <1>2, <2>1
<1>3. ASSUME Wrong # {} PROVE FALSE
  <2>1. PICK T \in Wrong : \A R \in Wrong : R \subseteq T => R = T
    <3>1. Wrong \subseteq SUBSET Facts
      OBVIOUS
    <3> HIDE DEF Wrong
    <3> QED
      BY <1>3, <3>1, PipelineAssumption, SmallestSet
  <2> DEFINE f == LastFact(T)
             R == T \ {f}
  <2>2. T \in SUBSET Facts /\ T # {} /\ ~IsProjectionOf(Projected[T], T)
    BY <2>1
  <2>3. f \in T /\ LastOf(f, T)
    BY <2>2, LastFactIsLast
  <2>4. R \in SUBSET Facts /\ f \notin R /\ \A g \in R : AppliedBefore(g, f)
    BY <2>2, <2>3 DEF LastOf
  <2>5. T = R \cup {f} /\ R # T /\ R \subseteq T
    BY <2>3
  <2>6. Projected[T] = ApplyFact(Projected[R], f)
    BY <1>1, <2>2
  <2>7. \/ Projected[R] = NewProjection /\ {g \in R : g.subject_id = f.subject_id} = {}
        \/ Projected[R].subject_id = f.subject_id /\ IsProjectionOf(Projected[R], R)
    <3>1. CASE R = {}
      BY <2>4, <3>1, ProjectedStep DEF Unfolded
    <3>2. CASE R # {}
      <4>1. IsProjectionOf(Projected[R], R)
        BY <2>1, <2>4, <2>5, <3>2
      <4>2. Projected[R].subject_id = LastFact(R).subject_id /\ LastFact(R) \in R
        BY <1>2, <2>4, <3>2, LastFactIsLast
      <4>3. LastFact(R).subject_id = f.subject_id
        BY <2>2, <2>3, <2>5, <4>2, SomeFacts
      <4> QED
        BY <4>1, <4>2, <4>3
    <3> QED
      BY <3>1, <3>2
  <2> HIDE DEF R, f
  <2>8. IsProjectionOf(ApplyFact(Projected[R], f), R \cup {f})
    BY <2>4, <2>7, ApplyLast
  <2> QED
    BY <2>2, <2>5, <2>6, <2>8
<1> QED
  BY <1>2, <1>3

\* Every fact has a freshest revision.
LEMMA SomeWinner ==
    ASSUME NEW S \in SUBSET Facts, S # {}
    PROVE  /\ Winners(S) \in SUBSET Facts /\ Winners(S) # {}
           /\ \E f \in Winners(S) : \A g \in S : Compare(g.freshness, f.freshness) <= 0
<1> DEFINE fresher == {p \in S \X S : Compare(p[2].freshness, p[1].freshness) < 0}
<1>1. \A f \in S : f.freshness \in FreshnessTuple
  BY SomeFacts DEF IsFact
<1>2. PICK f \in S : \A g \in S : <<g, f>> \notin fresher
  <2>1. \A g \in S : <<g, g>> \notin fresher
    BY <1>1, CompareTotal
  <2>2. \A g, h, i \in S :
           <<g, h>> \in fresher /\ <<h, i>> \in fresher => <<g, i>> \in fresher
    BY <1>1, CompareTransitive
  <2> HIDE DEF fresher
  <2> QED
    BY <2>1, <2>2, SomeFacts, TopOf
<1>3. \A g \in S : Compare(g.freshness, f.freshness) <= 0
  <2> SUFFICES ASSUME NEW g \in S PROVE Compare(g.freshness, f.freshness) <= 0
    OBVIOUS
  <2>1. ~(Compare(f.freshness, g.freshness) < 0)
    BY <1>2
  <2> QED
    BY <1>1, <2>1, CompareTotal
<1> QED
  BY <1>3 DEF Winners

\* What ResolveBatch returns for a set of facts is what their freshest revisions
\* say.
THEOREM ResolvedMeansFacts ==
    ASSUME NEW S \in SUBSET Facts, S # {}
    PROVE  IsProjectionOf(Resolved(S), Winners(S))
BY SomeWinner, LoopComputesMeaning DEF Resolved

-----------------------------------------------------------------------------
(* The invariant                                                           *)

\* The projection a caller stores: its type, its subject and its freshness.
LEMMA StoredFields ==
    ASSUME NEW S \in SUBSET Facts, S # {}
    PROVE  /\ Stored(Resolved(S)) \in Projections
           /\ \A f \in Facts : Stored(Resolved(S)).subject_id = f.subject_id
           /\ LastFact(Winners(S)) \in Winners(S)
           /\ LastOf(LastFact(Winners(S)), Winners(S))
           /\ Stored(Resolved(S)).freshness = LastFact(Winners(S)).freshness
<1>1. /\ Resolved(S).subject_id = LastFact(Winners(S)).subject_id
      /\ Resolved(S).freshness = LastFact(Winners(S)).freshness
  BY SomeWinner, LoopComputesMeaning DEF Resolved
<1>2. LastFact(Winners(S)) \in Winners(S) /\ LastOf(LastFact(Winners(S)), Winners(S))
  BY SomeWinner, LastFactIsLast
<1>3. /\ Stored(Resolved(S)).subject_id = Resolved(S).subject_id
      /\ Stored(Resolved(S)).freshness = Resolved(S).freshness
  BY DEF Stored
<1>4. LastFact(Winners(S)) \in Facts
  BY <1>2, SomeWinner
<1> QED
  BY <1>1, <1>2, <1>3, <1>4, PipelineAssumption

\* The table has at most one row, the row of the facts' subject.
LEMMA OneRow ==
    ASSUME PipelineInv, NEW S \in SUBSET Facts, S # {}
    PROVE  /\ RowsOf(Stored(Resolved(S)).subject_id) = canonical_state
           /\ \A r \in canonical_state :
                 canonical_state = {r} /\ r.row_version \in Nat
<1>1. ASSUME NEW r \in canonical_state
      PROVE  r.subject_id = Stored(Resolved(S)).subject_id /\ r.row_version \in Nat
  <2>1. r.row_version \in Nat
    BY DEF PipelineInv, IndInv, TypeOK, RowType
  <2>2. /\ reflected \in SUBSET Facts /\ reflected # {}
        /\ r = Row(Stored(Resolved(reflected)), r.row_version)
    BY DEF PipelineInv, Snapshots, RowIsResolved
  <2>3. r.subject_id = Stored(Resolved(reflected)).subject_id
    BY <2>1, <2>2, StoredFields, RowFields
  <2> QED
    BY <2>1, <2>2, <2>3, StoredFields
<1> QED
  BY <1>1 DEF RowsOf, PipelineInv, IndInv, RowIsLastCommit

\* A compare-and-set writes nothing, or the row of what the caller resolved: a
\* first one, or the next version of the row, which is older.
LEMMA SetCases ==
    ASSUME PipelineInv, NEW c \in Callers, Set(c)
    PROVE  LET p == Stored(Resolved(resolving[c]))
           IN  /\ pc[c] = "writing" /\ resolving[c] \in SUBSET Facts /\ resolving[c] # {}
               /\ \/ canonical_state' = canonical_state /\ reflected' = reflected
                  \/ /\ reflected' = resolving[c]
                     /\ \/ canonical_state = {} /\ canonical_state' = {Row(p, 0)}
                        \/ \E r \in canonical_state :
                              /\ canonical_state' = {Row(p, r.row_version + 1)}
                              /\ r.row_version = Expected(c)
                              /\ StoredOlder(r.freshness, TupleColumns(p.freshness))
<1> DEFINE p == Stored(Resolved(resolving[c]))
           e == Expected(c)
<1>1. /\ pc[c] = "writing" /\ \E q \in want[c] :
            canonical_state' = (canonical_state \ Replaced(q, e)) \cup Written(q, e)
      /\ reflected' = IF canonical_state' = canonical_state THEN reflected
                      ELSE resolving[c]
  BY DEF Set, CompareAndSet
<1>2. /\ resolving[c] \in SUBSET Facts /\ resolving[c] # {} /\ want[c] = {p}
  BY <1>1 DEF PipelineInv, Snapshots, WritersResolved
<1>3. canonical_state' = (canonical_state \ Replaced(p, e)) \cup Written(p, e)
  BY <1>1, <1>2
<1>4. /\ RowsOf(p.subject_id) = canonical_state
      /\ \A r \in canonical_state : canonical_state = {r} /\ r.row_version \in Nat
  BY <1>2, OneRow
<1>5. p \in Projections /\ e \in Nat
  BY <1>2, StoredFields, ExpectedVersion DEF PipelineInv, IndInv
<1> HIDE DEF p, e
<1>6. \/ /\ e = 0 /\ RowsOf(p.subject_id) = {}
         /\ Replaced(p, e) = {} /\ Written(p, e) = {Row(p, 0)}
      \/ \E r \in canonical_state :
            /\ r.subject_id = p.subject_id /\ r.row_version = e
            /\ StoredOlder(r.freshness, TupleColumns(p.freshness))
            /\ Replaced(p, e) = {r} /\ Written(p, e) = {Row(p, e + 1)}
      \/ Replaced(p, e) = {} /\ Written(p, e) = {}
  BY <1>5, CasCases DEF PipelineInv, IndInv
<1>7. CASE Replaced(p, e) = {} /\ Written(p, e) = {}
  BY <1>1, <1>2, <1>3, <1>7 DEF p
<1>8. CASE RowsOf(p.subject_id) = {} /\ Replaced(p, e) = {} /\ Written(p, e) = {Row(p, 0)}
  <2>1. canonical_state = {} /\ canonical_state' = {Row(p, 0)}
    BY <1>3, <1>4, <1>8
  <2> QED
    BY <1>1, <1>2, <2>1 DEF p
<1>9. ASSUME NEW r \in canonical_state, r.row_version = e,
             StoredOlder(r.freshness, TupleColumns(p.freshness)),
             Replaced(p, e) = {r}, Written(p, e) = {Row(p, e + 1)}
      PROVE  /\ reflected' = resolving[c]
             /\ canonical_state' = {Row(p, r.row_version + 1)}
  <2>1. canonical_state = {r} /\ canonical_state' = {Row(p, r.row_version + 1)}
    BY <1>3, <1>4, <1>9
  <2>2. Row(p, r.row_version + 1).row_version = r.row_version + 1
    BY <1>4, <1>5, <1>9, RowFields
  <2>3. canonical_state' # canonical_state
    BY <1>4, <2>1, <2>2
  <2> QED
    BY <1>1, <2>1, <2>3
<1> QED
  BY <1>1, <1>2, <1>6, <1>7, <1>8, <1>9 DEF p, e

\* The invariant holds before the first fact arrives.
LEMMA InitPipelineInv == PipelineInit => PipelineInv
<1> SUFFICES ASSUME PipelineInit PROVE PipelineInv
  OBVIOUS
<1>1. IndInv
  BY InitIndInv DEF PipelineInit
<1>2. Snapshots
  BY DEF PipelineInit, Snapshots, Comparable
<1>3. RowIsResolved /\ WritersResolved /\ NeverRemoved
  BY DEF PipelineInit, Init, RowIsResolved, WritersResolved, NeverRemoved
<1> QED
  BY <1>1, <1>2, <1>3 DEF PipelineInv

\* A fact that arrives changes nothing that callers know.
LEMMA ArriveKeeps ==
    ASSUME PipelineInv, NEW f \in Facts, Arrive(f)
    PROVE  PipelineInv'
<1>1. /\ arrived' = arrived \cup {f} /\ resolving' = resolving
      /\ reflected' = reflected /\ UNCHANGED vars
  BY DEF Arrive
<1>2. IndInv'
  BY <1>1, NextIndInv DEF PipelineInv
<1>3. Snapshots'
  BY <1>1 DEF PipelineInv, Snapshots, Comparable
<1>4. RowIsResolved' /\ WritersResolved' /\ NeverRemoved'
  BY <1>1 DEF PipelineInv, RowIsResolved, WritersResolved, NeverRemoved, vars
<1> QED
  BY <1>2, <1>3, <1>4 DEF PipelineInv

\* A caller that loads the row resolves all that the row reflects.
LEMMA ResolveKeeps ==
    ASSUME PipelineInv, NEW c \in Callers, Resolve(c)
    PROVE  PipelineInv'
<1> DEFINE p == Stored(Resolved(arrived))
<1>1. /\ arrived # {} /\ arrived' = arrived /\ reflected' = reflected
      /\ resolving' = [resolving EXCEPT ![c] = arrived]
      /\ Load(c, p)
  BY DEF Resolve
<1>2. /\ pc' = [pc EXCEPT ![c] = "writing"] /\ want' = [want EXCEPT ![c] = {p}]
      /\ seen' = [seen EXCEPT ![c] = RowsOf(p.subject_id)]
      /\ seenEra' = [seenEra EXCEPT ![c] = era[p.subject_id]]
      /\ canonical_state' = canonical_state /\ era' = era
  BY <1>1 DEF Load
<1>3. arrived \in SUBSET Facts /\ reflected \subseteq arrived
  BY DEF PipelineInv, Snapshots
<1>4. p \in Projections /\ p.subject_id \in Subjects
  BY <1>1, <1>3, StoredFields, RowFields
<1>5. IndInv'
  BY <1>1, <1>4, NextIndInv DEF PipelineInv, Next, CallerStep
<1>6. TypeOK
  BY DEF PipelineInv, IndInv
<1> HIDE DEF p
<1>7. Snapshots'
  BY <1>1 DEF PipelineInv, Snapshots, Comparable
<1>8. RowIsResolved'
  BY <1>1, <1>2 DEF PipelineInv, RowIsResolved
<1>9. NeverRemoved'
  BY <1>2, <1>4, <1>6 DEF PipelineInv, NeverRemoved, TypeOK
<1>10. WritersResolved'
  <2> SUFFICES ASSUME NEW d \in Callers, pc'[d] = "writing"
               PROVE  /\ resolving'[d] # {}
                      /\ want'[d] = {Stored(Resolved(resolving'[d]))}
                      /\ seen'[d] # {} /\ seen'[d] = canonical_state'
                            => reflected' \subseteq resolving'[d]
    BY DEF WritersResolved
  <2>1. CASE d = c
    <3>1. resolving'[d] = arrived /\ want'[d] = {p}
      BY <1>1, <1>2, <1>6, <2>1 DEF PipelineInv, Snapshots, TypeOK
    <3> QED
      BY <1>1, <1>3, <3>1 DEF p
  <2>2. CASE d # c
    <3>1. /\ pc'[d] = pc[d] /\ want'[d] = want[d] /\ seen'[d] = seen[d]
          /\ resolving'[d] = resolving[d]
      BY <1>1, <1>2, <1>6, <2>2 DEF PipelineInv, Snapshots, TypeOK
    <3> QED
      BY <1>1, <1>2, <3>1 DEF PipelineInv, WritersResolved
  <2> QED
    BY <2>1, <2>2
<1> QED
  BY <1>5, <1>7, <1>8, <1>9, <1>10 DEF PipelineInv

\* A caller that resolves later than it loaded the row has all that the row
\* reflects by then.
LEMMA ResolveLaterKeeps ==
    ASSUME PipelineInv, NEW c \in Callers, ResolveLater(c)
    PROVE  PipelineInv'
<1> DEFINE p == Stored(Resolved(arrived))
<1>1. /\ arrived' = arrived /\ reflected' = reflected
      /\ resolving' = [resolving EXCEPT ![c] = arrived]
      /\ Recompute(c, p)
  BY DEF ResolveLater
<1>2. /\ pc' = pc /\ want' = [want EXCEPT ![c] = {p}] /\ pc[c] = "writing"
      /\ seen' = seen /\ seenEra' = seenEra
      /\ canonical_state' = canonical_state /\ era' = era
  BY <1>1 DEF Recompute
<1>3. arrived \in SUBSET Facts /\ reflected \subseteq arrived /\ arrived # {}
  BY <1>2 DEF PipelineInv, Snapshots, WritersResolved
<1>4. p \in Projections
  BY <1>3, StoredFields
<1>5. IndInv'
  BY <1>1, <1>4, NextIndInv DEF PipelineInv, Next, CallerStep
<1>6. TypeOK
  BY DEF PipelineInv, IndInv
<1> HIDE DEF p
<1>7. Snapshots'
  BY <1>1 DEF PipelineInv, Snapshots, Comparable
<1>8. RowIsResolved' /\ NeverRemoved'
  BY <1>1, <1>2 DEF PipelineInv, RowIsResolved, NeverRemoved
<1>9. resolving'[c] = arrived /\ want'[c] = {p}
  BY <1>1, <1>2, <1>6 DEF PipelineInv, Snapshots, TypeOK
<1>10. \A d \in Callers : d # c => resolving'[d] = resolving[d] /\ want'[d] = want[d]
  BY <1>1, <1>2, <1>6 DEF PipelineInv, Snapshots, TypeOK
<1>11. WritersResolved'
  BY <1>1, <1>2, <1>3, <1>9, <1>10 DEF PipelineInv, WritersResolved, p
<1> QED
  BY <1>5, <1>7, <1>8, <1>11 DEF PipelineInv

\* A caller that locks the row, or is done with it, is no writer and writes nothing.
LEMMA LockedKeeps ==
    ASSUME PipelineInv, NEW c \in Callers, Locked(c)
    PROVE  PipelineInv' /\ Next
<1>1. /\ arrived' = arrived /\ reflected' = reflected /\ resolving' = resolving
      /\ \/ \E s \in Subjects : Lock(c, s)
         \/ Unlock(c) \/ LoseConnection(c) \/ EndOrphan(c)
  BY DEF Locked
<1>2. Next
  BY <1>1 DEF Next, CallerStep
<1>3. IndInv'
  BY <1>2, NextIndInv DEF PipelineInv
<1>4. TypeOK
  BY DEF PipelineInv, IndInv
<1>5. canonical_state' = canonical_state /\ era' = era
  BY <1>1 DEF Lock, Unlock, LoseConnection, EndOrphan
<1>6. pc'[c] # "writing" /\ (seenEra'[c] = seenEra[c] \/ seenEra'[c] = 0)
  BY <1>1, <1>4 DEF Lock, Unlock, LoseConnection, EndOrphan, Finish, TypeOK
<1>7. \A d \in Callers : d # c =>
         /\ pc'[d] = pc[d] /\ want'[d] = want[d] /\ seen'[d] = seen[d]
         /\ seenEra'[d] = seenEra[d]
  BY <1>1, <1>4 DEF Lock, Unlock, LoseConnection, EndOrphan, Finish, TypeOK
<1>8. Snapshots' /\ RowIsResolved'
  BY <1>1, <1>5 DEF PipelineInv, Snapshots, RowIsResolved
<1>9. WritersResolved'
  BY <1>1, <1>5, <1>6, <1>7 DEF PipelineInv, WritersResolved
<1>10. NeverRemoved'
  BY <1>5, <1>6, <1>7 DEF PipelineInv, NeverRemoved
<1> QED
  BY <1>2, <1>3, <1>8, <1>9, <1>10 DEF PipelineInv

\* A row that is written is none that any caller has loaded: its version is new.
LEMMA WrittenIsNew ==
    ASSUME PipelineInv, NEW c \in Callers, pc[c] = "writing", seen[c] # {},
           NEW S \in SUBSET Facts, S # {}, NEW v \in Nat,
           \/ canonical_state = {}
           \/ \E r \in canonical_state : v = r.row_version + 1
    PROVE  seen[c] # {Row(Stored(Resolved(S)), v)}
<1> DEFINE p == Stored(Resolved(S))
<1> SUFFICES ASSUME seen[c] = {Row(p, v)} PROVE FALSE
  OBVIOUS
<1>1. /\ p \in Projections /\ p.subject_id \in Subjects
      /\ Row(p, v).subject_id = p.subject_id /\ Row(p, v).row_version = v
  BY StoredFields, RowFields
<1>2. want[c] # {}
  BY DEF PipelineInv, WritersResolved
<1>3. PICK j \in commits : j.row = Row(p, v) /\ j.era = seenEra[c]
  BY <1>2 DEF PipelineInv, IndInv, LoadedWasCommitted
<1>4. j.subject_id = p.subject_id /\ j.era = era[p.subject_id]
  BY <1>1, <1>3 DEF PipelineInv, IndInv, CommitShape, NeverRemoved
<1>5. RowsOf(p.subject_id) # {}
  BY <1>4 DEF PipelineInv, IndInv, RowIsLastCommit
<1>6. PICK r \in canonical_state : v = r.row_version + 1
  BY <1>5 DEF RowsOf
<1>7. r.subject_id = p.subject_id /\ r.row_version \in Nat
  BY <1>6, OneRow DEF RowsOf
<1>8. PICK k \in commits : /\ k.row = r /\ k.era = era[r.subject_id]
                           /\ \A i \in commits :
                                 SameEra(i, k) => i.row.row_version <= r.row_version
  BY <1>6 DEF PipelineInv, IndInv, RowIsLastCommit
<1>9. SameEra(j, k)
  BY <1>4, <1>7, <1>8 DEF SameEra, PipelineInv, IndInv, CommitShape
<1> QED
  BY <1>1, <1>3, <1>6, <1>7, <1>8, <1>9

\* A caller that is done, whether it wrote a row or not.
LEMMA DoneKeeps ==
    ASSUME PipelineInv, IndInv', NEW c \in Callers, Finish(c),
           arrived' = arrived, era' = era,
           resolving' = [resolving EXCEPT ![c] = {}],
           \/ canonical_state' = canonical_state /\ reflected' = reflected
           \/ /\ reflected' = resolving[c]
              /\ resolving[c] \in SUBSET Facts /\ resolving[c] # {}
              /\ \E v \in Nat :
                    /\ canonical_state' = {Row(Stored(Resolved(resolving[c])), v)}
                    /\ \/ canonical_state = {}
                       \/ \E r \in canonical_state : v = r.row_version + 1
    PROVE  PipelineInv'
<1>1. TypeOK /\ resolving \in [Callers -> SUBSET arrived]
  BY DEF PipelineInv, IndInv, Snapshots
<1>2. /\ resolving'[c] = {} /\ pc'[c] = "idle" /\ seenEra'[c] = 0
      /\ \A d \in Callers : d # c =>
            /\ pc'[d] = pc[d] /\ want'[d] = want[d] /\ seen'[d] = seen[d]
            /\ seenEra'[d] = seenEra[d] /\ resolving'[d] = resolving[d]
  BY <1>1 DEF Finish, TypeOK
<1>3. NeverRemoved'
  BY <1>2 DEF PipelineInv, NeverRemoved
<1>4. Snapshots'
  <2>1. reflected' = reflected \/ reflected' = resolving[c]
    OBVIOUS
  <2>2. arrived' \subseteq Facts /\ reflected' \subseteq arrived'
    BY <1>1, <2>1 DEF PipelineInv, Snapshots
  <2>3. resolving' \in [Callers -> SUBSET arrived']
    BY <1>1
  <2>4. \A d, i \in Callers : Comparable(resolving'[d], resolving'[i])
    BY <1>2 DEF PipelineInv, Snapshots, Comparable
  <2>5. \A d \in Callers : Comparable(resolving'[d], reflected')
    BY <1>2, <2>1 DEF PipelineInv, Snapshots, Comparable
  <2> QED
    BY <2>2, <2>3, <2>4, <2>5 DEF Snapshots, Comparable
<1>5. CASE canonical_state' = canonical_state /\ reflected' = reflected
  <2>1. RowIsResolved'
    BY <1>5 DEF PipelineInv, RowIsResolved
  <2>2. WritersResolved'
    BY <1>2, <1>5 DEF PipelineInv, WritersResolved
  <2> QED
    BY <1>3, <1>4, <2>1, <2>2 DEF PipelineInv
<1>6. ASSUME reflected' = resolving[c], resolving[c] \in SUBSET Facts, resolving[c] # {},
             NEW v \in Nat,
             canonical_state' = {Row(Stored(Resolved(resolving[c])), v)},
             \/ canonical_state = {}
             \/ \E r \in canonical_state : v = r.row_version + 1
      PROVE  PipelineInv'
  <2>1. Row(Stored(Resolved(resolving[c])), v).row_version = v
    BY <1>6, StoredFields, RowFields
  <2>2. RowIsResolved'
    BY <1>6, <2>1 DEF RowIsResolved
  <2>3. ASSUME NEW d \in Callers, pc'[d] = "writing"
        PROVE  /\ resolving'[d] # {}
               /\ want'[d] = {Stored(Resolved(resolving'[d]))}
               /\ seen'[d] # {} => seen'[d] # canonical_state'
    <3>1. d # c
      BY <1>2, <2>3
    <3>2. pc[d] = "writing" /\ seen'[d] = seen[d]
      BY <1>2, <2>3, <3>1
    <3>3. seen[d] # {} => seen[d] # canonical_state'
      BY <1>6, <3>2, WrittenIsNew
    <3> QED
      BY <1>2, <3>1, <3>2, <3>3 DEF PipelineInv, WritersResolved
  <2>4. WritersResolved'
    BY <2>3 DEF WritersResolved
  <2> QED
    BY <1>3, <1>4, <2>2, <2>4 DEF PipelineInv
<1> QED
  BY <1>5, <1>6

\* Every step of the pipeline keeps the invariant.
LEMMA NextPipelineInv == PipelineInv /\ [PipelineNext]_pipelineVars => PipelineInv'
<1> SUFFICES ASSUME PipelineInv, [PipelineNext]_pipelineVars PROVE PipelineInv'
  OBVIOUS
<1>1. ASSUME NEW c \in Callers, Set(c) PROVE PipelineInv'
  <2>1. /\ CompareAndSet(c) /\ arrived' = arrived
        /\ resolving' = [resolving EXCEPT ![c] = {}]
    BY <1>1 DEF Set
  <2>2. Finish(c) /\ era' = era
    BY <2>1 DEF CompareAndSet
  <2>3. IndInv'
    BY <2>1, CompareAndSetKeeps DEF PipelineInv
  <2>4. /\ resolving[c] \in SUBSET Facts /\ resolving[c] # {}
        /\ \/ canonical_state' = canonical_state /\ reflected' = reflected
           \/ /\ reflected' = resolving[c]
              /\ \/ /\ canonical_state = {}
                    /\ canonical_state' = {Row(Stored(Resolved(resolving[c])), 0)}
                 \/ \E r \in canonical_state :
                       canonical_state' =
                          {Row(Stored(Resolved(resolving[c])), r.row_version + 1)}
    BY <1>1, SetCases
  <2>5. \A r \in canonical_state : r.row_version + 1 \in Nat
    BY <2>4, OneRow
  <2>6. \/ canonical_state' = canonical_state /\ reflected' = reflected
        \/ /\ reflected' = resolving[c]
           /\ \E v \in Nat :
                 /\ canonical_state' = {Row(Stored(Resolved(resolving[c])), v)}
                 /\ \/ canonical_state = {}
                    \/ \E r \in canonical_state : v = r.row_version + 1
    BY <2>4, <2>5
  <2> QED
    BY <2>1, <2>2, <2>3, <2>4, <2>6, DoneKeeps
<1>2. ASSUME NEW c \in Callers, Stop(c) PROVE PipelineInv'
  <2>1. /\ Abandon(c) /\ arrived' = arrived /\ reflected' = reflected
        /\ resolving' = [resolving EXCEPT ![c] = {}]
    BY <1>2 DEF Stop
  <2>2. Finish(c) /\ era' = era /\ canonical_state' = canonical_state
    BY <2>1 DEF Abandon
  <2>3. IndInv'
    BY <2>1, NextIndInv DEF PipelineInv, Next, CallerStep
  <2> QED
    BY <2>1, <2>2, <2>3, DoneKeeps
<1>3. CASE UNCHANGED pipelineVars
  <2>1. IndInv'
    BY <1>3, NextIndInv DEF PipelineInv, pipelineVars
  <2>2. Snapshots' /\ RowIsResolved' /\ WritersResolved' /\ NeverRemoved'
    BY <1>3 DEF PipelineInv, pipelineVars, vars, Snapshots, RowIsResolved,
                WritersResolved, NeverRemoved
  <2> QED
    BY <2>1, <2>2 DEF PipelineInv
<1> QED
  BY <1>1, <1>2, <1>3, ArriveKeeps, ResolveKeeps, ResolveLaterKeeps, LockedKeeps
     DEF PipelineNext

-----------------------------------------------------------------------------
\* The inductive invariant of the pipeline.
THEOREM PipelineInvariance == PipelineSpec => []PipelineInv
BY InitPipelineInv, NextPipelineInv, PTL DEF PipelineSpec

\* The pipeline implements the store: callers that resolve what has arrived,
\* compare-and-set it and lock the row take steps of ProjectionStore and keep its
\* fairness, so all that holds there, WritersReturn too, holds here.
THEOREM PipelineUsesStore == PipelineSpec => Spec
<1>1. PipelineInit => Init
  BY DEF PipelineInit
<1>2. PipelineInv /\ [PipelineNext]_pipelineVars => [Next]_vars
  <2> SUFFICES ASSUME PipelineInv, [PipelineNext]_pipelineVars PROVE [Next]_vars
    OBVIOUS
  <2>1. ASSUME NEW c \in Callers, Resolve(c) PROVE Next
    <3>1. arrived \in SUBSET Facts /\ arrived # {} /\ Load(c, Stored(Resolved(arrived)))
      BY <2>1 DEF Resolve, PipelineInv, Snapshots
    <3>2. Stored(Resolved(arrived)) \in Projections
      BY <3>1, StoredFields
    <3> QED
      BY <3>1, <3>2 DEF Next, CallerStep
  <2>2. ASSUME NEW c \in Callers, Set(c) \/ Stop(c) PROVE Next
    BY <2>2 DEF Set, Stop, Next, CallerStep
  <2>3. ASSUME NEW f \in Facts, Arrive(f) PROVE UNCHANGED vars
    BY <2>3 DEF Arrive
  <2>4. ASSUME NEW c \in Callers, ResolveLater(c) PROVE Next
    <3>1. Recompute(c, Stored(Resolved(arrived)))
      BY <2>4 DEF ResolveLater
    <3>2. arrived \in SUBSET Facts /\ arrived # {}
      BY <3>1 DEF Recompute, PipelineInv, Snapshots, WritersResolved
    <3>3. Stored(Resolved(arrived)) \in Projections
      BY <3>2, StoredFields
    <3> QED
      BY <3>1, <3>3 DEF Next, CallerStep
  <2> QED
    BY <2>1, <2>2, <2>3, <2>4, LockedKeeps DEF PipelineNext, pipelineVars
<1> QED
  BY <1>1, <1>2, PipelineInvariance, PTL DEF PipelineSpec, Spec

\* The row in the table is what the freshest revisions of some facts that had
\* arrived together say, for any facts and any race of the callers.
THEOREM RowMeansFacts == PipelineSpec => []RowSaysWhatFactsSay
<1>1. PipelineInv => RowSaysWhatFactsSay
  <2> SUFFICES ASSUME PipelineInv, NEW row \in canonical_state
               PROVE  /\ reflected \subseteq arrived
                      /\ IsProjectionOf(Resolved(reflected), Winners(reflected))
                      /\ row = Row(Stored(Resolved(reflected)), row.row_version)
    BY DEF RowSaysWhatFactsSay
  <2>1. reflected \in SUBSET Facts /\ reflected \subseteq arrived
    BY DEF PipelineInv, Snapshots
  <2>2. reflected # {} /\ row = Row(Stored(Resolved(reflected)), row.row_version)
    BY DEF PipelineInv, RowIsResolved
  <2> QED
    BY <2>1, <2>2, ResolvedMeansFacts
<1> QED
  BY <1>1, PipelineInvariance, PTL

\* A caller that had loaded a row forgets nothing the row reflects, whatever the
\* freshness of the facts: the version it expects is the version it resolved on.
LEMMA LoadedKeepsFacts ==
    ASSUME PipelineInv, NEW c \in Callers, Set(c), seen[c] # {}
    PROVE  reflected \subseteq reflected'
<1>1. pc[c] = "writing" /\ resolving[c] \in SUBSET Facts /\ resolving[c] # {}
  BY SetCases
<1>2. CASE reflected' = reflected
  BY <1>2
<1>3. CASE canonical_state = {}
  BY <1>3 DEF PipelineInv, RowIsResolved
<1>4. ASSUME reflected' = resolving[c], NEW r \in canonical_state,
             r.row_version = Expected(c)
      PROVE  reflected \subseteq reflected'
  <2>1. PICK q \in seen[c] : seen[c] = {q}
    BY DEF PipelineInv, IndInv, LoadedWasCommitted
  <2>2. q.row_version = r.row_version
    BY <1>4, <2>1, ExpectedVersion DEF PipelineInv, IndInv
  <2>3. want[c] # {}
    BY <1>1 DEF PipelineInv, WritersResolved
  <2>4. PICK p \in want[c] : p = Stored(Resolved(resolving[c]))
    BY <1>1 DEF PipelineInv, WritersResolved
  <2>5. q.subject_id = p.subject_id
    BY <1>1, <2>1, <2>4 DEF PipelineInv, IndInv, LoadedWasCommitted
  <2>6. r.subject_id = p.subject_id /\ canonical_state = {r}
    BY <1>1, <1>4, <2>4, OneRow DEF RowsOf
  <2>7. PICK j \in commits : j.row = q /\ j.era = seenEra[c]
    BY <1>1, <2>1, <2>3 DEF PipelineInv, IndInv, LoadedWasCommitted
  <2>8. PICK k \in commits : k.row = r /\ k.era = era[r.subject_id]
    BY <1>4 DEF PipelineInv, IndInv, RowIsLastCommit
  <2>9. r.subject_id \in Subjects
    BY <1>4 DEF PipelineInv, IndInv, TypeOK, RowType
  <2>10. SameEra(j, k)
    BY <2>5, <2>6, <2>7, <2>8, <2>9
       DEF SameEra, PipelineInv, IndInv, CommitShape, NeverRemoved
  <2>11. j = k
    BY <2>2, <2>7, <2>8, <2>10 DEF PipelineInv, IndInv, VersionsFollowFreshness
  <2>12. seen[c] = canonical_state
    BY <2>1, <2>6, <2>7, <2>8, <2>11
  <2> QED
    BY <1>1, <1>4, <2>12 DEF PipelineInv, WritersResolved
<1> QED
  BY <1>2, <1>3, <1>4, SetCases

\* When the row of fewer facts is the newer one, the last of those facts is
\* fresher than a fact that is missing among them and takes effect later.
LEMMA RetroactiveFact ==
    ASSUME NEW R \in SUBSET Facts, NEW S \in SUBSET R, S # {},
           StoredOlder(TupleColumns(Stored(Resolved(R)).freshness),
                       TupleColumns(Stored(Resolved(S)).freshness))
    PROVE  \E f \in S, g \in R \ S :
              /\ AppliedBefore(f, g)
              /\ StoredOlder(TupleColumns(g.freshness), TupleColumns(f.freshness))
<1> DEFINE f == LastFact(Winners(S))
           g == LastFact(Winners(R))
           revisions == {h \in R : h.fact_key = f.fact_key}
<1>1. /\ f \in Winners(S) /\ LastOf(f, Winners(S))
      /\ g \in Winners(R) /\ LastOf(g, Winners(R))
      /\ StoredOlder(TupleColumns(g.freshness), TupleColumns(f.freshness))
  BY StoredFields
<1> HIDE DEF f, g
<1>2. f \in S /\ f \in R /\ g \in R
  BY <1>1 DEF Winners
<1>3. \A h \in R : /\ h \in Facts /\ h.freshness \in FreshnessTuple
                   /\ h.effective_time \in Int
                   /\ TupleColumns(h.freshness) \in FreshnessTuple
  BY PipelineAssumption, MicrosAssumption, TupleColumnsType
<1>4. f # g
  BY <1>1, <1>2, <1>3, StoredOlderTotal
<1>5. ASSUME NEW h \in R, NEW i \in R, Compare(h.freshness, i.freshness) <= 0
      PROVE  h = i \/ Compare(h.freshness, i.freshness) < 0
  <2>1. h.freshness = i.freshness => h = i
    BY <1>3, PipelineAssumption
  <2> QED
    BY <1>3, <1>5, <2>1, CompareTotal
<1>6. PICK w \in Winners(R) :
         w.fact_key = f.fact_key /\ Compare(f.freshness, w.freshness) <= 0
  <2>1. revisions \in SUBSET Facts /\ f \in revisions
    BY <1>2
  <2>2. PICK w \in Winners(revisions) :
           \A h \in revisions : Compare(h.freshness, w.freshness) <= 0
    BY <2>1, SomeWinner
  <2>3. w \in revisions
    BY <2>2 DEF Winners
  <2>4. w \in Winners(R)
    BY <2>2, <2>3 DEF Winners
  <2> QED
    BY <2>1, <2>2, <2>3, <2>4
<1>7. w \in R /\ w.effective_time = f.effective_time
  BY <1>2, <1>3, <1>6, PipelineAssumption DEF Winners
<1>8. f = w \/ Compare(f.freshness, w.freshness) < 0
  BY <1>2, <1>5, <1>6, <1>7
<1>9. AppliedBefore(f, g)
  <2>1. CASE w = g
    BY <1>4, <1>7, <1>8, <2>1 DEF AppliedBefore
  <2>2. CASE w # g
    <3>1. AppliedBefore(w, g)
      BY <1>1, <1>6, <2>2 DEF LastOf
    <3>2. Compare(w.freshness, g.freshness) < 0 => Compare(f.freshness, g.freshness) < 0
      BY <1>2, <1>3, <1>7, <1>8, CompareTransitive
    <3> QED
      BY <1>7, <3>1, <3>2 DEF AppliedBefore
  <2> QED
    BY <2>1, <2>2
<1>10. g \notin S
  <2> SUFFICES ASSUME g \in S PROVE FALSE
    OBVIOUS
  <2>1. g \in Winners(S)
    BY <1>1 DEF Winners
  <2>2. AppliedBefore(g, f)
    BY <1>1, <1>4, <2>1 DEF LastOf
  <2>3. ~(/\ Compare(f.freshness, g.freshness) < 0
          /\ Compare(g.freshness, f.freshness) < 0)
    BY <1>2, <1>3, CompareTotal
  <2>4. f.effective_time \in Int /\ g.effective_time \in Int
    BY <1>2, <1>3
  <2> QED
    BY <1>9, <2>2, <2>3, <2>4 DEF AppliedBefore
<1> QED
  BY <1>1, <1>2, <1>9, <1>10

\* Whatever the facts and the database's order, a write forgets a fact only if its
\* caller found no row and meets one of version zero, and resolved a fact that is
\* fresher than a forgotten one that takes effect later.
THEOREM ForgetsOnlyRetroactively == PipelineSpec => ForgetsOnlyAtBootstrap
<1> DEFINE Forgets(c) ==
              /\ Set(c) /\ seen[c] = {}
              /\ \A row \in canonical_state : row.row_version = 0
              /\ \E f \in reflected', g \in reflected \ reflected' :
                    /\ AppliedBefore(f, g)
                    /\ StoredOlder(TupleColumns(g.freshness), TupleColumns(f.freshness))
           Allowed == reflected \subseteq reflected' \/ \E c \in Callers : Forgets(c)
<1>1. ASSUME PipelineInv, NEW c \in Callers, Set(c), ~(reflected \subseteq reflected')
      PROVE  Forgets(c)
  <2> DEFINE p == Stored(Resolved(resolving[c]))
  <2>1. /\ resolving[c] \in SUBSET Facts /\ resolving[c] # {}
        /\ reflected' = resolving[c]
        /\ \E r \in canonical_state :
              /\ r.row_version = Expected(c)
              /\ StoredOlder(r.freshness, TupleColumns(p.freshness))
    <3>1. canonical_state # {}
      BY <1>1 DEF PipelineInv, RowIsResolved
    <3> QED
      BY <1>1, <3>1, SetCases
  <2>2. PICK r \in canonical_state :
           /\ r.row_version = Expected(c)
           /\ StoredOlder(r.freshness, TupleColumns(p.freshness))
    BY <2>1
  <2>3. seen[c] = {}
    BY <1>1, LoadedKeepsFacts
  <2>4. r.row_version = 0 /\ canonical_state = {r}
    BY <1>1, <2>1, <2>2, <2>3, OneRow, ExpectedVersion DEF PipelineInv, IndInv
  <2>5. resolving[c] \subseteq reflected
    BY <1>1, <2>1 DEF PipelineInv, Snapshots, Comparable
  <2>6. /\ r.row_version \in Nat /\ reflected \in SUBSET Facts /\ reflected # {}
        /\ r = Row(Stored(Resolved(reflected)), r.row_version)
    BY <1>1 DEF PipelineInv, IndInv, TypeOK, RowType, Snapshots, RowIsResolved
  <2>7. r.freshness = TupleColumns(Stored(Resolved(reflected)).freshness)
    BY <2>6, StoredFields, RowFields
  <2>8. \E f \in resolving[c], g \in reflected \ resolving[c] :
           /\ AppliedBefore(f, g)
           /\ StoredOlder(TupleColumns(g.freshness), TupleColumns(f.freshness))
    BY <2>1, <2>2, <2>5, <2>6, <2>7, RetroactiveFact
  <2> QED
    BY <1>1, <2>1, <2>3, <2>4, <2>8
<1>2. ASSUME PipelineInv, PipelineNext PROVE Allowed
  <2>1. CASE reflected' = reflected
    BY <2>1
  <2>2. CASE reflected' # reflected
    <3>1. PICK c \in Callers : Set(c)
      BY <1>2, <2>2 DEF PipelineNext, Arrive, Resolve, ResolveLater, Stop, Locked
    <3> HIDE DEF Forgets
    <3> QED
      BY <1>1, <1>2, <3>1
  <2> QED
    BY <2>1, <2>2
<1>3. PipelineInv /\ [PipelineNext]_pipelineVars => [Allowed]_pipelineVars
  BY <1>2
<1> QED
  BY <1>3, PipelineInvariance, PTL DEF PipelineSpec, ForgetsOnlyAtBootstrap

-----------------------------------------------------------------------------
(* The safety part of LastFactPersists                                     *)

\* The statement of a caller whose row is still the row writes what the caller
\* resolved, unless the row is at least as fresh.
LEMMA CurrentSetWrites ==
    ASSUME PipelineInv, NEW c \in Callers, Set(c), seen[c] = canonical_state
    PROVE  LET new == TupleColumns(Stored(Resolved(resolving[c])).freshness)
           IN  \/ \E row \in canonical_state' : row.freshness = new
               \/ /\ canonical_state' = canonical_state
                  /\ \E row \in canonical_state : ~StoredOlder(row.freshness, new)
<1> DEFINE p == Stored(Resolved(resolving[c]))
           e == Expected(c)
<1>1. pc[c] = "writing" /\ resolving[c] \in SUBSET Facts /\ resolving[c] # {}
  BY SetCases
<1>2. canonical_state' = (canonical_state \ Replaced(p, e)) \cup Written(p, e)
  <2>1. want[c] = {p}
    BY <1>1 DEF PipelineInv, WritersResolved
  <2> QED
    BY <2>1 DEF Set, CompareAndSet
<1>3. /\ RowsOf(p.subject_id) = canonical_state
      /\ \A r \in canonical_state : canonical_state = {r} /\ r.row_version \in Nat
  BY <1>1, OneRow
<1>4. p \in Projections /\ e \in Nat
  BY <1>1, StoredFields, ExpectedVersion DEF PipelineInv, IndInv
<1>5. canonical_state = {} => e = 0
  BY ExpectedVersion DEF PipelineInv, IndInv
<1>6. \A r \in canonical_state : r.row_version = e
  BY ExpectedVersion DEF PipelineInv, IndInv
<1>7. \A v \in Nat : Row(p, v).freshness = TupleColumns(p.freshness)
  BY <1>4, RowFields
<1> HIDE DEF p, e
<1>8. CASE canonical_state = {}
  <2>1. Written(p, e) = {Row(p, 0)}
    BY <1>3, <1>5, <1>8 DEF Written, Creates
  <2> QED
    BY <1>2, <1>7, <2>1 DEF p
<1>9. ASSUME NEW r \in canonical_state, StoredOlder(r.freshness, TupleColumns(p.freshness))
      PROVE  \E row \in canonical_state' : row.freshness = TupleColumns(p.freshness)
  <2>1. r.freshness \in FreshnessTuple /\ TupleColumns(p.freshness) \in FreshnessTuple
    BY <1>4, RowFields DEF PipelineInv, IndInv, TypeOK, RowType
  <2>2. r \in Replaced(p, e)
    BY <1>3, <1>6, <1>9, <2>1, SqlFormsAgree DEF Replaced, UpdateMatches, UpsertMatches
  <2>3. Row(p, r.row_version + 1) \in Written(p, e)
    BY <1>3, <2>2 DEF Written, Creates
  <2>4. r.row_version + 1 \in Nat
    BY <1>3
  <2> QED
    BY <1>2, <1>7, <2>3, <2>4
<1>10. ASSUME NEW r \in canonical_state, ~StoredOlder(r.freshness, TupleColumns(p.freshness))
       PROVE  canonical_state' = canonical_state
  <2>1. canonical_state = {r}
    BY <1>3
  <2>2. \/ Replaced(p, e) = {} /\ Written(p, e) = {}
        \/ \E q \in canonical_state : StoredOlder(q.freshness, TupleColumns(p.freshness))
        \/ canonical_state = {}
    BY <1>3, <1>4, CasCases DEF PipelineInv, IndInv
  <2> QED
    BY <1>2, <1>10, <2>1, <2>2
<1> QED
  BY <1>8, <1>9, <1>10 DEF p

\* Whatever the facts, a caller that resolved all that has arrived and whose row is
\* still the row leaves the row caught up, written or refused; and until another
\* fact arrives no caller takes it back.
THEOREM CatchesUpAndStays ==
    PipelineSpec =>
        [][/\ \A c \in Callers :
                 Set(c) /\ resolving[c] = arrived /\ seen[c] = canonical_state
                     => CaughtUp'
           /\ CaughtUp /\ arrived' = arrived => CaughtUp']_pipelineVars
<1> DEFINE Reached == \A c \in Callers :
                         Set(c) /\ resolving[c] = arrived /\ seen[c] = canonical_state
                             => CaughtUp'
           Kept == CaughtUp /\ arrived' = arrived => CaughtUp'
           new == TupleColumns(Resolved(arrived).freshness)
<1>1. ASSUME NEW S \in SUBSET Facts, S # {}
      PROVE  /\ Resolved(S).freshness = Stored(Resolved(S)).freshness
             /\ TupleColumns(Resolved(S).freshness) \in FreshnessTuple
             /\ \A v \in Nat : Row(Stored(Resolved(S)), v).freshness
                                  = TupleColumns(Resolved(S).freshness)
  <2>1. Resolved(S).freshness = Stored(Resolved(S)).freshness
    BY DEF Stored
  <2> QED
    BY <1>1, <2>1, StoredFields, RowFields
<1>2. ASSUME PipelineInv, NEW c \in Callers, Set(c), resolving[c] = arrived,
             seen[c] = canonical_state
      PROVE  CaughtUp'
  <2>1. arrived' = arrived /\ arrived \in SUBSET Facts /\ arrived # {}
    BY <1>2, SetCases DEF Set
  <2>2. ~StoredOlder(new, new) /\ new = TupleColumns(Stored(Resolved(arrived)).freshness)
    BY <1>1, <2>1, StoredOlderTotal
  <2>3. \E row \in canonical_state' : ~StoredOlder(row.freshness, new)
    BY <1>2, <2>2, CurrentSetWrites
  <2> QED
    BY <2>1, <2>3 DEF CaughtUp
<1>3. ASSUME PipelineInv, NEW c \in Callers, Set(c), CaughtUp,
             canonical_state' # canonical_state
      PROVE  CaughtUp'
  <2> DEFINE p == Stored(Resolved(resolving[c]))
  <2>1. PICK row \in canonical_state : ~StoredOlder(row.freshness, new)
    BY <1>3 DEF CaughtUp
  <2>2. /\ arrived' = arrived /\ arrived \in SUBSET Facts /\ arrived # {}
        /\ resolving[c] \in SUBSET Facts /\ resolving[c] # {}
    BY <1>3, SetCases DEF Set, PipelineInv, Snapshots
  <2>3. canonical_state = {row} /\ row.row_version \in Nat
    BY <1>3, <2>1, <2>2, OneRow
  <2>4. /\ canonical_state' = {Row(p, row.row_version + 1)}
        /\ StoredOlder(row.freshness, TupleColumns(p.freshness))
    BY <1>3, <2>3, SetCases
  <2>5. row.row_version + 1 \in Nat
    BY <2>3
  <2>6. /\ Row(p, row.row_version + 1).freshness = TupleColumns(p.freshness)
        /\ TupleColumns(p.freshness) \in FreshnessTuple /\ new \in FreshnessTuple
    BY <1>1, <2>2, <2>5
  <2>7. row.freshness \in FreshnessTuple
    BY <1>3, <2>1 DEF PipelineInv, IndInv, TypeOK, RowType
  <2>8. ~StoredOlder(TupleColumns(p.freshness), new)
    BY <2>1, <2>4, <2>6, <2>7, StoredOlderTransitive
  <2> QED
    BY <2>2, <2>4, <2>6, <2>8 DEF CaughtUp
<1>4. ASSUME PipelineInv, PipelineNext PROVE Reached /\ Kept
  <2>1. Reached
    BY <1>2, <1>4
  <2>2. Kept
    <3> SUFFICES ASSUME CaughtUp, arrived' = arrived PROVE CaughtUp'
      OBVIOUS
    <3>1. CASE canonical_state' = canonical_state
      BY <3>1 DEF CaughtUp
    <3>2. CASE canonical_state' # canonical_state
      <4>1. PICK c \in Callers : Set(c)
        BY <1>4, <3>2 DEF PipelineNext, Arrive, Resolve, ResolveLater, Recompute, Load,
                          Stop, Abandon, Locked, Lock, Unlock, LoseConnection,
                          EndOrphan, vars
      <4> QED
        BY <1>3, <1>4, <3>2, <4>1
    <3> QED
      BY <3>1, <3>2
  <2> QED
    BY <2>1, <2>2
<1>5. PipelineInv /\ [PipelineNext]_pipelineVars => [Reached /\ Kept]_pipelineVars
  BY <1>4
<1> QED
  BY <1>5, PipelineInvariance, PTL DEF PipelineSpec

\* Where the database orders tuples as Go does, a row that has caught up is as fresh
\* as what all facts that have arrived resolve to, whenever the last of them to take
\* effect is the freshest.
THEOREM FreshestSettles ==
    ASSUME DatabaseOrdersAsGo
    PROVE  PipelineSpec => [](CaughtUp /\ FreshestLast => Settled)
<1> DEFINE new == Resolved(arrived).freshness
<1>1. ASSUME PipelineInv, CaughtUp, FreshestLast PROVE Settled
  <2>1. PICK row \in canonical_state : ~StoredOlder(row.freshness, TupleColumns(new))
    BY <1>1 DEF CaughtUp
  <2>2. /\ row.row_version \in Nat /\ reflected # {} /\ reflected \in SUBSET Facts
        /\ row = Row(Stored(Resolved(reflected)), row.row_version)
        /\ reflected \subseteq arrived /\ arrived \in SUBSET Facts /\ arrived # {}
    BY <1>1, <2>1 DEF PipelineInv, IndInv, TypeOK, RowType, Snapshots, RowIsResolved
  <2> DEFINE f == LastFact(Winners(reflected))
  <2>3. f \in reflected /\ row.freshness = TupleColumns(f.freshness)
    <3>1. /\ Stored(Resolved(reflected)) \in Projections /\ f \in Winners(reflected)
          /\ Stored(Resolved(reflected)).freshness = f.freshness
      BY <2>2, StoredFields
    <3>2. row.freshness = TupleColumns(f.freshness)
      BY <2>2, <3>1, RowFields
    <3> QED
      BY <3>1, <3>2 DEF Winners
  <2>4. LastFact(Winners(arrived)) \in Facts /\ new = LastFact(Winners(arrived)).freshness
    BY <2>2, StoredFields DEF Winners, Stored
  <2> HIDE DEF f, new
  <2>5. f.freshness \in FreshnessTuple /\ new \in FreshnessTuple
    BY <2>2, <2>3, <2>4, PipelineAssumption
  <2>6. Compare(f.freshness, new) <= 0
    BY <1>1, <2>2, <2>3 DEF FreshestLast, new
  <2>7. ~(Compare(f.freshness, new) < 0)
    BY <2>1, <2>3, <2>5, DatabaseOrdersAsGo, SqlOrderIsGoOrder
  <2>8. f.freshness = new
    BY <2>5, <2>6, <2>7, CompareTotal
  <2> QED
    BY <2>3, <2>8 DEF Settled, new
<1>2. PipelineInv => (CaughtUp /\ FreshestLast => Settled)
  BY <1>1
<1> QED
  BY <1>2, PipelineInvariance, PTL
=============================================================================
