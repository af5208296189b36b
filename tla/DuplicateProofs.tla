--------------------------- MODULE DuplicateProofs ---------------------------
(***************************************************************************)
(* How many resources a subject can come to have on a provider that does   *)
(* not refuse a second one: each beyond the first has a fault or another   *)
(* client to its account. The proof counts the resources there are, the    *)
(* creates on their way and the runs that may still send one.              *)
(***************************************************************************)
EXTENDS ConvergenceProofs, FiniteSetTheorems

\* The creates on their way, by their tags, and those of them whose run does not
\* hold the lock, because it gave up or lost it
Creates == {q \in sent : q.kind = "create"}
Creating == {q.tag : q \in Creates}
Loose == {q.tag : q \in {o \in Creates : o.run \cap lock = {}}}

\* The runs that may send a create although they lost the lock
Wandering == {r \in Runs : pc[r] \in {"observe", "apply"} /\ r \notin lock}

\* Every loose create and every wandering run took a fault of its own; and there is
\* at most one resource, or create of the run with the lock, beyond what faults
\* and other clients account for.
Counted ==
    /\ IsFiniteSet(users) /\ IsFiniteSet(Creating) /\ IsFiniteSet(Wandering)
    /\ Cardinality(Loose) + Cardinality(Wandering) <= faults
    /\ Cardinality(users) + Cardinality(Creating) + Cardinality(Wandering)
         <= 1 + faults + others

-----------------------------------------------------------------------------
(* Counting                                                                *)

\* A part of a finite set
LEMMA Fewer ==
    ASSUME NEW S, IsFiniteSet(S), NEW P, P \subseteq S
    PROVE  /\ IsFiniteSet(P) /\ Cardinality(P) \in Nat /\ Cardinality(S) \in Nat
           /\ Cardinality(P) <= Cardinality(S)
<1>1. IsFiniteSet(P) /\ Cardinality(P) <= Cardinality(S)
  BY FS_Subset
<1> QED
  BY <1>1, FS_CardinalityType

\* A part of a finite set and one more element
LEMMA OneMore ==
    ASSUME NEW S, IsFiniteSet(S), NEW x, NEW P, P \subseteq S \cup {x}
    PROVE  /\ IsFiniteSet(P) /\ Cardinality(P) \in Nat /\ Cardinality(S) \in Nat
           /\ Cardinality(P) <= Cardinality(S) + 1
<1>1. /\ IsFiniteSet(S \cup {x})
      /\ Cardinality(S \cup {x}) = IF x \in S THEN Cardinality(S) ELSE Cardinality(S) + 1
  BY FS_AddElement
<1>2. IsFiniteSet(P) /\ Cardinality(P) \in Nat /\ Cardinality(P) <= Cardinality(S \cup {x})
  BY <1>1, Fewer
<1>3. Cardinality(S) \in Nat
  BY FS_CardinalityType
<1> QED
  BY <1>1, <1>2, <1>3

\* A part of a finite set without one of its elements
LEMMA OneFewer ==
    ASSUME NEW S, IsFiniteSet(S), NEW x \in S, NEW P, P \subseteq S \ {x}
    PROVE  /\ IsFiniteSet(P) /\ Cardinality(P) \in Nat /\ Cardinality(S) \in Nat
           /\ Cardinality(P) + 1 <= Cardinality(S)
<1>1. IsFiniteSet(S \ {x}) /\ Cardinality(S \ {x}) = Cardinality(S) - 1
  BY FS_RemoveElement
<1>2. IsFiniteSet(P) /\ Cardinality(P) \in Nat /\ Cardinality(P) <= Cardinality(S \ {x})
  BY <1>1, Fewer
<1>3. Cardinality(S) \in Nat
  BY FS_CardinalityType
<1> QED
  BY <1>1, <1>2, <1>3

\* The members of a finite set after each has been changed
LEMMA AsMany ==
    ASSUME NEW S, IsFiniteSet(S), NEW f, NEW P, P = {f[x] : x \in S}
    PROVE  /\ IsFiniteSet(P) /\ Cardinality(P) \in Nat /\ Cardinality(S) \in Nat
           /\ Cardinality(P) <= Cardinality(S)
<1> DEFINE g == [x \in S |-> f[x]]
<1>1. g \in Surjection(S, P)
  BY DEF Surjection
<1>2. IsFiniteSet(P) /\ Cardinality(P) <= Cardinality(S)
  BY <1>1, FS_Surjection
<1> QED
  BY <1>2, FS_CardinalityType

\* The numbers an invariant state has
LEMMA Numbers ==
    ASSUME TypeOK, Counted
    PROVE  /\ IsFiniteSet(Loose) /\ Cardinality(Loose) \in Nat
           /\ Cardinality(users) \in Nat /\ Cardinality(Creating) \in Nat
           /\ Cardinality(Wandering) \in Nat
           /\ faults \in Nat /\ others \in Nat
<1>1. Loose \subseteq Creating
  BY DEF Loose, Creating
<1> QED
  BY <1>1, Fewer DEF Counted, TypeOK

-----------------------------------------------------------------------------
(* Kinds of steps                                                          *)

\* A step that adds nothing
LEMMA NothingNew ==
    ASSUME TypeOK, TypeOK', Counted, users' = users,
           Creating' \subseteq Creating, Loose' \subseteq Loose,
           Wandering' \subseteq Wandering, faults' >= faults, others' = others
    PROVE  Counted'
<1>1. /\ IsFiniteSet(Creating') /\ Cardinality(Creating') \in Nat
      /\ Cardinality(Creating') <= Cardinality(Creating)
  BY Fewer DEF Counted
<1>2. /\ IsFiniteSet(Wandering') /\ Cardinality(Wandering') \in Nat
      /\ Cardinality(Wandering') <= Cardinality(Wandering)
  BY Fewer DEF Counted
<1>3. Cardinality(Loose') \in Nat /\ Cardinality(Loose') <= Cardinality(Loose)
  BY Fewer, Numbers
<1>4. faults' \in Nat
  BY DEF TypeOK
<1> QED
  BY <1>1, <1>2, <1>3, <1>4, Numbers DEF Counted

\* A fault that sets one create or one run loose
LEMMA OneLoose ==
    ASSUME TypeOK, Counted, users' = users, Creating' \subseteq Creating,
           NEW x,
           \/ Loose' \subseteq Loose \cup {x} /\ Wandering' \subseteq Wandering
           \/ Loose' \subseteq Loose /\ Wandering' \subseteq Wandering \cup {x},
           faults' = faults + 1, others' = others
    PROVE  Counted'
<1>1. /\ IsFiniteSet(Creating') /\ Cardinality(Creating') \in Nat
      /\ Cardinality(Creating') <= Cardinality(Creating)
  BY Fewer DEF Counted
<1>2. CASE Loose' \subseteq Loose \cup {x} /\ Wandering' \subseteq Wandering
  <2>1. Cardinality(Loose') \in Nat /\ Cardinality(Loose') <= Cardinality(Loose) + 1
    BY <1>2, OneMore, Numbers
  <2>2. /\ IsFiniteSet(Wandering') /\ Cardinality(Wandering') \in Nat
        /\ Cardinality(Wandering') <= Cardinality(Wandering)
    BY <1>2, Fewer DEF Counted
  <2> QED
    BY <1>1, <2>1, <2>2, Numbers DEF Counted
<1>3. CASE Loose' \subseteq Loose /\ Wandering' \subseteq Wandering \cup {x}
  <2>1. Cardinality(Loose') \in Nat /\ Cardinality(Loose') <= Cardinality(Loose)
    BY <1>3, Fewer, Numbers
  <2>2. /\ IsFiniteSet(Wandering') /\ Cardinality(Wandering') \in Nat
        /\ Cardinality(Wandering') <= Cardinality(Wandering) + 1
    BY <1>3, OneMore DEF Counted
  <2> QED
    BY <1>1, <2>1, <2>2, Numbers DEF Counted
<1> QED
  BY <1>2, <1>3

-----------------------------------------------------------------------------
(* The steps                                                               *)

\* A run only looks, starts or reports: no create appears and none is set loose.
LEMMA Looks ==
    ASSUME IndInv, IndInv', Counted, NEW r \in Runs,
           \/ Start(r) \/ StartPreview(r) \/ Refuse(r) \/ Preview(r) \/ Observe(r)
           \/ Finish(r) \/ LookupFails(r)
    PROVE  Counted'
<1>1. TypeOK /\ TypeOK' /\ Answers
  BY DEF IndInv
<1>2. users' = users /\ sent' = sent /\ others' = others /\ faults' >= faults
  BY <1>1 DEF Start, StartPreview, Refuse, Preview, Observe, Compared, Finish, LookupFails,
              Fault, TypeOK, vars
<1>3. Creates' = Creates /\ Creating' = Creating
  BY <1>2 DEF Creates, Creating
<1>4. lock \subseteq lock' \/ (lock' = lock \ {r} /\ pc[r] # "waiting")
  BY DEF Start, StartPreview, Refuse, Preview, Observe, Compared, Finish, LookupFails,
         End, vars
<1>5. Loose' \subseteq Loose
  <2>1. \A o \in Creates : o.run \cap lock' = {} => o.run \cap lock = {}
    BY <1>1, <1>4 DEF Answers, Creates
  <2> QED
    BY <1>3, <2>1 DEF Loose
<1>6. Wandering' \subseteq Wandering
  <2>1. pc \in [Runs -> {"idle", "preview", "observe", "apply", "waiting",
                         "unchanged", "updated", "would_update"}]
    BY <1>1 DEF TypeOK
  <2>2. CASE Start(r)
    BY <2>1, <2>2 DEF Start, Wandering
  <2>3. CASE StartPreview(r) \/ Refuse(r) \/ Preview(r)
    BY <2>1, <2>3 DEF StartPreview, Refuse, Preview, Compared, Wandering, vars
  <2>4. CASE Observe(r)
    BY <2>1, <2>4 DEF Observe, Compared, Wandering
  <2>5. CASE Finish(r) \/ LookupFails(r)
    BY <2>1, <2>5 DEF Finish, LookupFails, End, Wandering
  <2> QED
    BY <2>2, <2>3, <2>4, <2>5
<1> QED
  BY <1>1, <1>2, <1>3, <1>5, <1>6, NothingNew

\* A projection is persisted, or nothing happens.
LEMMA Elsewhere ==
    ASSUME Counted, UNCHANGED <<lock, pc, users, sent, faults, others>>
    PROVE  Counted'
<1>1. Creates' = Creates
  BY DEF Creates
<1>2. Creating' = Creating /\ Loose' = Loose /\ Wandering' = Wandering
  BY <1>1 DEF Creating, Loose, Wandering
<1> QED
  BY <1>2 DEF Counted

\* A run that gives up leaves at most its own create behind, at the cost of a fault.
LEMMA LeavesBehind ==
    ASSUME IndInv, IndInv', Counted, NEW r \in Runs, GiveUp(r)
    PROVE  Counted'
<1>1. /\ TypeOK /\ TypeOK' /\ Answers
      /\ sent' = {[q EXCEPT !.run = @ \ {r}] : q \in sent}
      /\ lock' = lock \ {r} /\ pc' = [pc EXCEPT ![r] = "idle"]
      /\ UNCHANGED <<users, others>>
  BY DEF IndInv, GiveUp, End, Disowned
<1>2. \A d \in sent' : \E q \in sent :
         d.kind = q.kind /\ d.tag = q.tag /\ d.run = q.run \ {r}
  <2>1. SUFFICES ASSUME NEW q \in sent
                 PROVE  LET d == [q EXCEPT !.run = @ \ {r}]
                        IN  d.kind = q.kind /\ d.tag = q.tag /\ d.run = q.run \ {r}
    BY <1>1
  <2> QED
    BY <1>1, DisownedFields DEF TypeOK
<1>3. Creating' \subseteq Creating
  <2>1. ASSUME NEW d \in sent', d.kind = "create" PROVE d.tag \in Creating
    BY <1>2, <2>1 DEF Creating, Creates
  <2> QED
    BY <2>1 DEF Creating, Creates
<1>4. Wandering' \subseteq Wandering
  BY <1>1 DEF Wandering, TypeOK
<1>5. ASSUME NEW t \in Loose', t \notin Loose
      PROVE  \E q \in sent : r \in q.run /\ t = q.tag
  <2>1. PICK d \in sent' : d.kind = "create" /\ d.run \cap lock' = {} /\ t = d.tag
    BY DEF Loose, Creates
  <2>2. PICK q \in sent : d.kind = q.kind /\ d.tag = q.tag /\ d.run = q.run \ {r}
    BY <1>2
  <2>3. q.run \cap lock # {}
    BY <1>5, <2>1, <2>2 DEF Loose, Creates
  <2> QED
    BY <1>1, <2>1, <2>2, <2>3
<1>6. CASE \E q \in sent : r \in q.run
  <2>1. PICK q \in sent : r \in q.run
    BY <1>6
  <2>2. Loose' \subseteq Loose \cup {q.tag}
    BY <1>1, <1>5, <2>1 DEF Answers
  <2>3. faults' = faults + 1
    BY <2>1 DEF GiveUp, Fault
  <2> QED
    BY <1>1, <1>3, <1>4, <2>2, <2>3, OneLoose
<1>7. CASE ~ \E q \in sent : r \in q.run
  <2>1. Loose' \subseteq Loose
    BY <1>5, <1>7
  <2>2. faults' >= faults
    BY <1>1 DEF GiveUp, Fault, TypeOK
  <2> QED
    BY <1>1, <1>3, <1>4, <2>1, <2>2, NothingNew
<1> QED
  BY <1>6, <1>7

\* A run that loses its lock is set loose, or its create is.
LEMMA SetsLoose ==
    ASSUME IndInv, Counted, NEW r \in Runs, LoseConnection(r)
    PROVE  Counted'
<1>1. /\ TypeOK /\ Answers /\ lock = {r} /\ lock' = {} /\ faults' = faults + 1
      /\ UNCHANGED <<pc, users, sent, others>>
  BY DEF IndInv, LoseConnection, Fault
<1>2. Creates' = Creates /\ Creating' = Creating
  BY <1>1 DEF Creates, Creating
<1>3. CASE pc[r] = "waiting"
  <2>1. Wandering' \subseteq Wandering
    BY <1>1, <1>3 DEF Wandering
  <2>2. \E x : Loose' \subseteq Loose \cup {x}
    <3>1. CASE \E q \in sent : r \in q.run
      <4>1. PICK q \in sent : r \in q.run
        BY <3>1
      <4>2. Loose' \subseteq Loose \cup {q.tag}
        BY <1>1, <1>2, <4>1 DEF Loose, Creates, Answers
      <4> QED
        BY <4>2
    <3>2. CASE ~ \E q \in sent : r \in q.run
      <4>1. Loose' \subseteq Loose \cup {r}
        BY <1>1, <1>2, <3>2 DEF Loose, Creates
      <4> QED
        BY <4>1
    <3> QED
      BY <3>1, <3>2
  <2> QED
    BY <1>1, <1>2, <2>1, <2>2, OneLoose
<1>4. CASE pc[r] # "waiting"
  <2>1. Wandering' \subseteq Wandering \cup {r}
    BY <1>1 DEF Wandering
  <2>2. Loose' \subseteq Loose
    BY <1>1, <1>2, <1>4 DEF Loose, Creates, Answers
  <2> QED
    BY <1>1, <1>2, <2>1, <2>2, OneLoose
<1> QED
  BY <1>3, <1>4

\* A create needs an empty directory. The run with the lock sends it when every
\* other create is loose, a wandering run stops wandering.
LEMMA SendsOne ==
    ASSUME IndInv, Counted, NEW r \in Runs, Apply(r)
    PROVE  Counted'
<1> DEFINE W == Write(r, Desired(r))
<1>1. /\ TypeOK /\ Answers /\ pc[r] = "apply" /\ ~Ambiguous /\ TokenLeft
      /\ sent' = sent \cup W
      /\ pc' = [pc EXCEPT ![r] = IF W = {} THEN "updated" ELSE "waiting"]
      /\ UNCHANGED <<lock, users, faults, others>>
  BY DEF IndInv, Apply
<1>2. Wandering' = Wandering \ {r} /\ (r \in Wandering \/ r \in lock)
  BY <1>1 DEF Wandering, TypeOK
<1>3. CASE W = {} \/ \E w \in W : w.kind # "create"
  <2>1. \A w \in W : w.kind # "create"
    BY <1>1, <1>3, WriteShape
  <2>2. Creates' = Creates
    BY <1>1, <2>1 DEF Creates
  <2>3. Creating' = Creating /\ Loose' = Loose
    BY <1>1, <2>2 DEF Creating, Loose
  <2>4. TypeOK'
    BY Applies DEF IndInv
  <2>5. faults' >= faults
    BY <1>1 DEF TypeOK
  <2> QED
    BY <1>1, <1>2, <2>3, <2>4, <2>5, NothingNew
<1>4. CASE \E w \in W : w.kind = "create"
  <2>1. PICK w \in W : w.kind = "create"
    BY <1>4
  <2>2. W = {w} /\ w.run = {r} /\ users = {}
    BY <1>1, <2>1, WriteShape DEF ReadOne
  <2> HIDE DEF W
  <2>3. Creates' = Creates \cup {w}
    BY <1>1, <2>1, <2>2 DEF Creates
  <2>4. Creating' = Creating \cup {w.tag}
    BY <2>3 DEF Creating
  <2>5. /\ IsFiniteSet(Creating') /\ Cardinality(Creating') \in Nat
        /\ Cardinality(Creating') <= Cardinality(Creating) + 1
    BY <2>4, OneMore DEF Counted
  <2>6. Cardinality(users) = 0
    BY <2>2, FS_EmptySet
  <2>7. CASE r \in lock
    <3>1. Creating = Loose
      <4>1. \A o \in Creates : o.run \cap lock = {}
        BY <1>1, <2>7 DEF IndInv, Locks, Answers, Creates
      <4> QED
        BY <4>1 DEF Creating, Loose
    <3>2. Loose' = Loose
      BY <1>1, <2>2, <2>3, <2>7 DEF Loose
    <3>3. Wandering' = Wandering
      BY <1>2, <2>7 DEF Wandering
    <3> QED
      BY <1>1, <2>5, <2>6, <3>1, <3>2, <3>3, Numbers DEF Counted
  <2>8. CASE r \in Wandering
    <3>1. Loose' \subseteq Loose \cup {w.tag}
      BY <1>1, <2>3 DEF Loose
    <3>2. Cardinality(Loose') \in Nat /\ Cardinality(Loose') <= Cardinality(Loose) + 1
      BY <1>1, <3>1, OneMore, Numbers
    <3>3. /\ IsFiniteSet(Wandering') /\ Cardinality(Wandering') \in Nat
          /\ Cardinality(Wandering') + 1 <= Cardinality(Wandering)
      BY <1>2, <2>8, OneFewer DEF Counted
    <3> QED
      BY <1>1, <2>5, <2>6, <3>2, <3>3, Numbers DEF Counted
  <2> QED
    BY <1>2, <2>7, <2>8
<1> QED
  BY <1>3, <1>4

\* A write that leaves the way takes its tag with it.
LEMMA Arrives ==
    ASSUME IndInv, NEW q \in sent, sent' = sent \ {q},
           lock' = lock \/ \E r \in q.run : lock' = lock \ {r}
    PROVE  /\ Creating' \subseteq Creating /\ Loose' \subseteq Loose
           /\ q.kind = "create" => q.tag \in Creating /\ Creating' \subseteq Creating \ {q.tag}
<1>1. /\ \A q1, q2 \in sent : q1.tag = q2.tag => q1 = q2
      /\ \A o \in sent : \A r \in q.run : r \in o.run => o = q
  BY Fields DEF IndInv, Versions, Answers
<1>2. Creates' \subseteq Creates
  BY DEF Creates
<1>3. Creating' \subseteq Creating
  BY <1>2 DEF Creating
<1>4. Loose' \subseteq Loose
  BY <1>1 DEF Loose, Creates
<1>5. q.kind = "create" => q.tag \in Creating /\ Creating' \subseteq Creating \ {q.tag}
  BY <1>1 DEF Creating, Creates
<1> QED
  BY <1>3, <1>4, <1>5

\* A run that waits for a write does not wander, and does not start to.
LEMMA StaysPut ==
    ASSUME TypeOK, NEW R \in SUBSET Runs, \A r \in R : pc[r] = "waiting",
           NEW v, v \notin {"observe", "apply"},
           \/ lock' = lock /\ pc' = [r \in Runs |-> IF r \in R THEN v ELSE pc[r]]
           \/ \E r \in R : lock' = lock \ {r} /\ pc' = [pc EXCEPT ![r] = v]
    PROVE  Wandering' \subseteq Wandering
BY DEF Wandering, TypeOK

\* A create the directory takes becomes a resource; other writes add none.
LEMMA Taken ==
    ASSUME IndInv, Counted, NEW q \in sent, Take(q)
    PROVE  Counted'
<1>1. /\ TypeOK /\ Answers /\ users' = Written(q) /\ sent' = sent \ {q}
      /\ UNCHANGED <<lock, others>>
      /\ faults' = faults \/ faults' = faults + 1
      /\ pc' = [r \in Runs |-> IF r \in q.run THEN "updated" ELSE pc[r]] \/ pc' = pc
  BY DEF IndInv, Take, Fault
<1>2. /\ Creating' \subseteq Creating /\ Loose' \subseteq Loose
      /\ q.kind = "create" => q.tag \in Creating /\ Creating' \subseteq Creating \ {q.tag}
  BY <1>1, Arrives
<1>3. Wandering' \subseteq Wandering
  <2>1. q.run \in SUBSET Runs /\ \A r \in q.run : pc[r] = "waiting"
    BY <1>1, Fields DEF Answers
  <2> QED
    BY <1>1, <2>1, StaysPut DEF Wandering
<1>4. Cardinality(Loose') \in Nat /\ Cardinality(Loose') <= Cardinality(Loose)
  BY <1>1, <1>2, Fewer, Numbers
<1>5. /\ IsFiniteSet(Wandering') /\ Cardinality(Wandering') \in Nat
      /\ Cardinality(Wandering') <= Cardinality(Wandering)
  BY <1>3, Fewer DEF Counted
<1>6. CASE q.kind = "create"
  <2>1. users' \subseteq users \cup {Resource(q.tag, q.tag, {q.active}, q.attributes)}
    BY <1>1, <1>6 DEF Written
  <2>2. /\ IsFiniteSet(users') /\ Cardinality(users') \in Nat
        /\ Cardinality(users') <= Cardinality(users) + 1
    BY <2>1, OneMore DEF Counted
  <2>3. /\ IsFiniteSet(Creating') /\ Cardinality(Creating') \in Nat
        /\ Cardinality(Creating') + 1 <= Cardinality(Creating)
    BY <1>2, <1>6, OneFewer DEF Counted
  <2> QED
    BY <1>1, <1>4, <1>5, <2>2, <2>3, Numbers DEF Counted
<1>7. CASE q.kind # "create"
  <2>1. /\ IsFiniteSet(users') /\ Cardinality(users') \in Nat
        /\ Cardinality(users') <= Cardinality(users)
    <3>1. CASE q.kind = "delete"
      <4>1. users' \subseteq users
        BY <1>1, <3>1 DEF Written
      <4> QED
        BY <4>1, Fewer DEF Counted
    <3>2. CASE q.kind = "patch"
      <4> DEFINE new(u) == Resource(u.id, q.tag, {q.active}, Overlay(u.attributes, q.attributes))
                 f == [u \in users |-> IF u \in Addressed(q) THEN new(u) ELSE u]
      <4>1. users' = (users \ Addressed(q)) \cup {new(u) : u \in Addressed(q)}
        BY <1>1, <3>2 DEF Written
      <4>2. Addressed(q) \subseteq users
        BY DEF Addressed
      <4> HIDE DEF new
      <4>3. users' = {f[u] : u \in users}
        BY <4>1, <4>2
      <4> HIDE DEF f
      <4> QED
        BY <4>3, AsMany DEF Counted
    <3> QED
      BY <1>1, <1>7, <3>1, <3>2, Fields
  <2>2. /\ IsFiniteSet(Creating') /\ Cardinality(Creating') \in Nat
        /\ Cardinality(Creating') <= Cardinality(Creating)
    BY <1>2, Fewer DEF Counted
  <2> QED
    BY <1>1, <1>4, <1>5, <2>1, <2>2, Numbers DEF Counted
<1> QED
  BY <1>6, <1>7

\* A write that is refused or lost
LEMMA Refused ==
    ASSUME IndInv, IndInv', Counted, NEW q \in sent, Reject(q)
    PROVE  Counted'
<1>1. /\ TypeOK /\ TypeOK' /\ Answers /\ sent' = sent \ {q} /\ UNCHANGED <<users, others>>
      /\ faults' >= faults
      /\ \/ UNCHANGED <<pc, lock>>
         \/ \E r \in q.run : pc' = [pc EXCEPT ![r] = "idle"] /\ lock' = lock \ {r}
  BY DEF IndInv, Reject, Fault, End, TypeOK
<1>2. Creating' \subseteq Creating /\ Loose' \subseteq Loose
  BY <1>1, Arrives
<1>3. Wandering' \subseteq Wandering
  <2>1. q.run \in SUBSET Runs /\ \A r \in q.run : pc[r] = "waiting"
    BY <1>1, Fields DEF Answers
  <2> QED
    BY <1>1, <2>1, StaysPut DEF Wandering
<1> QED
  BY <1>1, <1>2, <1>3, NothingNew

\* Another client adds at most one resource.
LEMMA OneOther ==
    ASSUME IndInv, Counted, OtherClient
    PROVE  Counted'
<1>1. /\ TypeOK /\ others' = others + 1 /\ UNCHANGED <<lock, pc, sent, faults>>
      /\ \E x : users' \subseteq users \cup {x}
  BY DEF IndInv, OtherClient
<1>2. /\ IsFiniteSet(users') /\ Cardinality(users') \in Nat
      /\ Cardinality(users') <= Cardinality(users) + 1
  BY <1>1, OneMore DEF Counted
<1>3. Creates' = Creates
  BY <1>1 DEF Creates
<1>4. Creating' = Creating /\ Loose' = Loose /\ Wandering' = Wandering
  BY <1>1, <1>3 DEF Creating, Loose, Wandering
<1> QED
  BY <1>1, <1>2, <1>4, Numbers DEF Counted

-----------------------------------------------------------------------------
(* The theorem                                                             *)

\* For any runs, faults and other clients, with or without versions and unique
\* bindings, a subject has at most one resource more than there were faults and
\* writes of other clients: the row lock alone keeps runs that wait for their
\* answers from creating an account twice.
THEOREM DuplicatesCaused == Spec => []DuplicatesHaveACause
<1>1. Init => Counted
  <2> SUFFICES ASSUME Init PROVE Counted
    OBVIOUS
  <2>1. /\ lock = {} /\ sent = {} /\ faults = 0 /\ others = 0
        /\ pc = [r \in Runs |-> "idle"]
    BY DEF Init
  <2>2. Creating = {} /\ Loose = {} /\ Wandering = {}
    BY <2>1 DEF Creating, Creates, Loose, Wandering
  <2>3. IsFiniteSet(users) /\ Cardinality(users) \in Nat /\ Cardinality(users) <= 1
    <3>1. CASE users = {}
      BY <3>1, FS_EmptySet
    <3>2. CASE users # {}
      <4> DEFINE first(t, w) == Resource(t, t, w.active, w.attributes)
      <4>1. users \in {{}} \cup {{first(t, w)} : t \in {CHOOSE t \in Tokens : TRUE},
                                               w \in OtherWrites}
        BY DEF Init
      <4> HIDE DEF first
      <4>2. PICK t, w : users = {first(t, w)}
        BY <3>2, <4>1
      <4>3. IsFiniteSet(users) /\ Cardinality(users) = 1
        BY <4>2, FS_Singleton, Zenon
      <4> QED
        BY <4>3
    <3> QED
      BY <3>1, <3>2
  <2> QED
    BY <2>1, <2>2, <2>3, FS_EmptySet DEF Counted
<1>2. IndInv /\ IndInv' /\ Counted /\ [Next]_vars => Counted'
  <2> SUFFICES ASSUME IndInv, IndInv', Counted, [Next]_vars PROVE Counted'
    OBVIOUS
  <2>1. CASE UNCHANGED vars \/ \E p \in Projections : Persist(p)
    BY <2>1, Elsewhere DEF vars, Persist
  <2>2. ASSUME NEW r \in Runs, RunStep(r) PROVE Counted'
    BY <2>2, Looks, LeavesBehind, SetsLoose, SendsOne DEF RunStep
  <2>3. ASSUME NEW q \in sent, Take(q) \/ Reject(q) PROVE Counted'
    BY <2>3, Taken, Refused
  <2>4. CASE OtherClient
    BY <2>4, OneOther
  <2> QED
    BY <2>1, <2>2, <2>3, <2>4 DEF Next
<1>3. IndInv /\ Counted => DuplicatesHaveACause
  <2> SUFFICES ASSUME IndInv, Counted, NEW S \in SUBSET users
               PROVE  Cardinality(S) <= 1 + faults + others
    BY DEF DuplicatesHaveACause
  <2>1. Cardinality(S) \in Nat /\ Cardinality(S) <= Cardinality(users)
    BY Fewer DEF Counted
  <2> QED
    BY <2>1, Numbers DEF Counted, IndInv
<1> QED
  BY <1>1, <1>2, <1>3, Invariance, PTL DEF Spec
=============================================================================
