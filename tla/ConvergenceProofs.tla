-------------------------- MODULE ConvergenceProofs --------------------------
(***************************************************************************)
(* Proofs about Convergence, for any runs, configurations, projections,    *)
(* other clients and bounds.                                               *)
(***************************************************************************)
EXTENDS Convergence, TLAPS

(* The inductive invariant                                                 *)

\* A run waits for one write, of the version it was given.
Answers ==
    /\ \A q \in sent : \A r \in q.run : pc[r] = "waiting" /\ want[r] = q.n
    /\ \A q1, q2 \in sent : \A r \in Runs : r \in q1.run /\ r \in q2.run => q1 = q2

\* Nothing starts with a configuration that New refuses, or with a projection
\* that mentions an attribute outside the list.
Checked ==
    /\ \A r \in Runs : pc[r] # "idle" => New(config) /\ Allowed(config, rows[want[r]])
    /\ \A q \in sent : New(config) /\ Allowed(config, rows[q.n])

\* A write says what its projection p says.
Says(c, p, q) ==
    /\ q.kind = "create" =>
          /\ p.exists /\ q.active = p.enabled
          /\ q.attributes = CreateAttributes(c, p.attributes)
    /\ q.kind = "patch" /\ p.exists =>
          q.active = p.enabled /\ q.attributes = ManagedDesiredValues(c, p.attributes)
    /\ q.kind = "patch" /\ ~p.exists =>
          /\ q.active = FALSE /\ q.attributes = NoAttributes
          /\ DeprovisionMode(c) = "disable"
    /\ q.kind = "delete" => ~p.exists /\ DeprovisionMode(c) = "delete"
Contents == \A q \in sent : Says(config, rows[q.n], q)

\* A change addresses the resource that was read; a create has read none.
ReadOne(q) ==
    /\ q.kind = "create" => q.read = {}
    /\ q.kind # "create" =>
          \E u \in q.read : /\ q.read = {u} /\ q.id = u.id /\ q.if_match = u.version
                            /\ Versioned => u.version # {}
Reads == \A q \in sent : ReadOne(q)

\* Tags are not used twice at one time, nor is the version of a resource, so a
\* version that is still there is the state that was read.
Versions ==
    /\ \A q1, q2 \in sent : q1.tag = q2.tag => q1 = q2
    /\ \A q \in sent, u \in users : q.tag \notin u.version
    /\ \A q1, q2 \in sent : q1.tag \notin q2.if_match
    /\ Versioned => \A u, v \in users : u.version = v.version => u = v
    /\ Versioned => \A u \in users : u.version # {}
    /\ Versioned => \A q \in sent, u \in users :
                        q.kind # "create" /\ q.if_match = u.version => q.read = {u}

\* The row a run works with is the last one as long as it holds the lock.
Locks ==
    /\ \A r, s \in lock : r = s
    /\ \A r \in lock : want[r] = Len(rows)
    /\ \A r \in Runs :
          pc[r] \in {"observe", "apply"} => r \in lock \/ want[r] \in astray

\* There is one account, and a write that can still take effect is no older.
OneAccount == Versioned /\ Unique /\ New(config) => \A u, v \in users : u = v
Forward ==
    Versioned => \A q \in sent, u \in users :
        (Unique /\ q.kind # "create" /\ q.if_match = u.version) =>
            q.n >= shown \/ q.n \in astray

\* The account p wants is there, or only has attributes too many.
Good(c, us, p) == AdapterEquivalent(c, Observed(c, {u \in us : Bound(c, u)}), p)
Surplus(c, us, p) ==
    p.exists /\ \E u \in {v \in us : Bound(c, v)} :
        ~(DOMAIN ManagedValues(c, u) \subseteq
             DOMAIN ManagedDesiredValues(c, p.attributes))

\* What a run that nobody has overtaken knows
Undisturbed ==
    /\ \A q \in sent : \A r \in q.run : r \in disturbed \/ users = q.read
    /\ \A r \in Runs \ disturbed :
          /\ pc[r] = "unchanged" => Good(config, users, rows[want[r]])
          /\ pc[r] = "updated" => \/ Good(config, users, rows[want[r]])
                                  \/ Surplus(config, users, rows[want[r]])

IndInv ==
    /\ TypeOK /\ Answers /\ Checked /\ Contents /\ Reads /\ Versions
    /\ StaysBound /\ Locks /\ OneAccount /\ Forward /\ Undisturbed

-----------------------------------------------------------------------------
(* The adapter's functions                                                 *)

\* Maps of attributes, as functions
LEMMA Maps ==
    /\ \A f : f \in FoldedMaps <=> \E D \in SUBSET Names : f \in [D -> Values]
    /\ \A f \in FoldedMaps : DOMAIN f \subseteq Names /\ f \in [DOMAIN f -> Values]
BY DEF FoldedMaps

\* The attributes of a projection
LEMMA ProjectionMaps ==
    ASSUME NEW p \in Projections
    PROVE  /\ DOMAIN p.attributes \subseteq Names
           /\ \A n \in DOMAIN p.attributes : p.attributes[n] \in Texts
           /\ p.exists \in BOOLEAN /\ p.enabled \in BOOLEAN
<1>1. p \in DesiredState
  BY ConvergenceAssumption
<1>2. p.attributes \in UNION {[D -> Texts] : D \in SUBSET Names}
  BY <1>1 DEF DesiredState
<1>3. PICK D \in SUBSET Names : p.attributes \in [D -> Texts]
  BY <1>2
<1>4. p.exists \in BOOLEAN /\ p.enabled \in BOOLEAN
  BY <1>1 DEF DesiredState
<1> QED
  BY <1>3, <1>4

\* The elements of a list of names
LEMMA Elements ==
    ASSUME NEW s \in Seq(Names)
    PROVE  \A i \in DOMAIN s : s[i] \in Names
OBVIOUS

\* Flags name attributes.
LEMMA ConfigNames ==
    ASSUME NEW c \in Configs
    PROVE  /\ SubjectAttribute(c) \in Names
           /\ Fold[SubjectAttribute(c)] \in Names
           /\ Managed(c) \subseteq Names
           /\ \A i \in DOMAIN c.managed_attributes : c.managed_attributes[i] \in Names
           /\ c.managed_attributes \in Seq(Names)
<1>1. c \in ConfigType
  BY ConvergenceAssumption
<1>2. c.managed_attributes \in Seq(Names) /\ c.subject_attribute \in Names \cup {""}
  BY <1>1 DEF ConfigType
<1>3. \A i \in DOMAIN c.managed_attributes : c.managed_attributes[i] \in Names
  BY <1>2, Elements
<1>4. SubjectAttribute(c) \in Names
  BY <1>2, ScimAssumption DEF SubjectAttribute, DefaultSubjectAttribute
<1>5. \A n \in Names : Fold[n] \in Names
  BY ScimAssumption
<1> QED
  BY <1>2, <1>3, <1>4, <1>5 DEF Managed

\* What is desired of the managed attributes
LEMMA DesiredValues ==
    ASSUME NEW c \in Configs, NEW p \in Projections
    PROVE  LET m == ManagedDesiredValues(c, p.attributes) IN
           /\ m \in FoldedMaps
           /\ DOMAIN m \subseteq Managed(c)
           /\ \A k \in DOMAIN m : m[k] \in Texts
<1> DEFINE m == ManagedDesiredValues(c, p.attributes)
<1>1. DOMAIN m \subseteq Managed(c)
  BY DEF ManagedDesiredValues
<1>2. ASSUME NEW k \in DOMAIN m PROVE m[k] \in Texts
  <2>1. \E n \in DOMAIN p.attributes : Fold[n] = k
    BY DEF ManagedDesiredValues
  <2>2. (CHOOSE n \in DOMAIN p.attributes : Fold[n] = k) \in DOMAIN p.attributes
    BY <2>1
  <2>3. m[k] = p.attributes[CHOOSE n \in DOMAIN p.attributes : Fold[n] = k]
    BY DEF ManagedDesiredValues
  <2> QED
    BY <2>2, <2>3, ProjectionMaps
<1>3. m \in [DOMAIN m -> Values]
  BY <1>2, ScimAssumption DEF ManagedDesiredValues
<1>4. m \in FoldedMaps
  BY <1>1, <1>3, ConfigNames, Maps
<1> QED
  BY <1>1, <1>2, <1>4

\* A map laid over another one
LEMMA OverlayMaps ==
    ASSUME NEW m \in FoldedMaps, NEW n \in FoldedMaps
    PROVE  /\ Overlay(m, n) \in FoldedMaps
           /\ DOMAIN Overlay(m, n) = DOMAIN m \cup DOMAIN n
           /\ \A k \in DOMAIN n : Overlay(m, n)[k] = n[k]
           /\ \A k \in DOMAIN m \ DOMAIN n : Overlay(m, n)[k] = m[k]
<1>1. Overlay(m, n) \in [DOMAIN m \cup DOMAIN n -> Values]
  BY Maps DEF Overlay
<1>2. DOMAIN m \cup DOMAIN n \in SUBSET Names
  BY Maps
<1> QED
  BY <1>1, <1>2, Maps DEF Overlay

\* A map without entries
LEMMA NoMap == NoAttributes \in FoldedMaps /\ DOMAIN NoAttributes = {}
<1>1. NoAttributes \in [{} -> Values]
  BY DEF NoAttributes
<1> QED
  BY <1>1, Maps DEF NoAttributes

\* The subject attribute is not managed.
LEMMA BindingUnmanaged ==
    ASSUME NEW c \in Configs, New(c)
    PROVE  Fold[SubjectAttribute(c)] \notin Managed(c)
BY DEF New, Managed

\* managedDesiredValues has no error to report where the command has checked the
\* projection against the list: names on the list differ in more than case.
LEMMA Unambiguous ==
    ASSUME NEW c \in Configs, NEW p \in Projections, New(c), Allowed(c, p)
    PROVE  ~DesiredAmbiguous(c, p.attributes)
<1> DEFINE s == c.managed_attributes
<1>1. SUFFICES ASSUME NEW m \in DOMAIN p.attributes, NEW n \in DOMAIN p.attributes,
                      m # n, Fold[m] = Fold[n]
               PROVE  FALSE
  BY DEF DesiredAmbiguous
<1>2. PICK i \in DOMAIN s : m = s[i]
  BY DEF Allowed
<1>3. PICK j \in DOMAIN s : n = s[j]
  BY DEF Allowed
<1>4. i \in Nat /\ j \in Nat /\ i >= 1 /\ j >= 1
  <2>1. s \in Seq(Names)
    BY ConfigNames
  <2> HIDE DEF s
  <2>2. DOMAIN s = 1 .. Len(s) /\ Len(s) \in Nat
    BY <2>1
  <2> QED
    BY <2>2
<1>5. \A a \in DOMAIN s : \A b \in 1 .. a - 1 : Fold[s[b]] # Fold[s[a]]
  BY Zenon DEF New
<1>6. CASE i < j
  <2>1. i \in 1 .. j - 1
    BY <1>4, <1>6
  <2> QED
    BY <1>1, <1>2, <1>3, <1>5, <2>1, Zenon
<1>7. CASE j < i
  <2>1. j \in 1 .. i - 1
    BY <1>4, <1>7
  <2> QED
    BY <1>1, <1>2, <1>3, <1>5, <2>1, Zenon
<1>8. CASE i = j
  BY <1>1, <1>2, <1>3, <1>8, Zenon
<1> QED
  BY <1>4, <1>6, <1>7, <1>8

\* u holds what p wants of the managed attributes.
Holds(c, u, p) ==
    LET m == ManagedDesiredValues(c, p.attributes) IN
    /\ u.attributes \in FoldedMaps
    /\ \A k \in DOMAIN m : k \in DOMAIN u.attributes /\ u.attributes[k] = m[k]

\* The body of a create binds the resource and holds what is desired.
LEMMA Created ==
    ASSUME NEW c \in Configs, NEW p \in Projections, New(c), NEW u,
           u.attributes = CreateAttributes(c, p.attributes)
    PROVE  Holds(c, u, p) /\ Bound(c, u)
<1> DEFINE m == ManagedDesiredValues(c, p.attributes)
           b == [k \in {"username", "externalid", Fold[SubjectAttribute(c)]} |-> Subject]
<1>1. {"username", "externalid", Fold[SubjectAttribute(c)]} \subseteq Names
  BY ScimAssumption, ConfigNames
<1>2. Subject \in Values
  BY ScimAssumption
<1>3. b \in [{"username", "externalid", Fold[SubjectAttribute(c)]} -> Values]
  BY <1>2
<1>4. b \in FoldedMaps
  BY <1>1, <1>3, Maps
<1>5. m \in FoldedMaps /\ DOMAIN m \subseteq Managed(c)
  BY DesiredValues
<1>6. u.attributes = Overlay(b, m)
  BY DEF CreateAttributes
<1>7. Fold[SubjectAttribute(c)] \in DOMAIN b \ DOMAIN m
  BY <1>5, BindingUnmanaged
<1>8. b[Fold[SubjectAttribute(c)]] = Subject
  OBVIOUS
<1> HIDE DEF b, m
<1>9. Overlay(b, m) \in FoldedMaps
  BY <1>4, <1>5, OverlayMaps
<1>10. \A k \in DOMAIN m : k \in DOMAIN Overlay(b, m) /\ Overlay(b, m)[k] = m[k]
  BY <1>4, <1>5, OverlayMaps
<1>11. /\ Fold[SubjectAttribute(c)] \in DOMAIN Overlay(b, m)
       /\ Overlay(b, m)[Fold[SubjectAttribute(c)]] = Subject
  BY <1>4, <1>5, <1>7, <1>8, OverlayMaps
<1>12. Holds(c, u, p)
  BY <1>6, <1>9, <1>10 DEF Holds, m
<1>13. Bound(c, u)
  BY <1>6, <1>11 DEF Bound, ResponseAttribute
<1> QED
  BY <1>12, <1>13

\* A patch leaves the binding alone; one of a projection sets what is desired.
LEMMA Patched ==
    ASSUME NEW c \in Configs, NEW p \in Projections, New(c), NEW u, NEW v,
           u.attributes \in FoldedMaps, Bound(c, u), NEW n,
           n = ManagedDesiredValues(c, p.attributes) \/ n = NoAttributes,
           v.attributes = Overlay(u.attributes, n)
    PROVE  /\ Bound(c, v) /\ v.attributes \in FoldedMaps
           /\ n = ManagedDesiredValues(c, p.attributes) => Holds(c, v, p)
<1>1. n \in FoldedMaps /\ DOMAIN n \subseteq Managed(c)
  BY DesiredValues, NoMap
<1>2. v.attributes \in FoldedMaps
  BY <1>1, OverlayMaps
<1>3. /\ \A k \in DOMAIN n : k \in DOMAIN v.attributes /\ v.attributes[k] = n[k]
      /\ \A k \in DOMAIN u.attributes \ DOMAIN n :
            k \in DOMAIN v.attributes /\ v.attributes[k] = u.attributes[k]
  <2> DEFINE o == Overlay(u.attributes, n)
  <2>1. /\ DOMAIN o = DOMAIN u.attributes \cup DOMAIN n
        /\ \A k \in DOMAIN n : o[k] = n[k]
        /\ \A k \in DOMAIN u.attributes \ DOMAIN n : o[k] = u.attributes[k]
    BY <1>1, OverlayMaps
  <2>2. v.attributes = o
    OBVIOUS
  <2> HIDE DEF o
  <2> QED
    BY <2>1, <2>2
<1>4. /\ Fold[SubjectAttribute(c)] \in DOMAIN u.attributes
      /\ u.attributes[Fold[SubjectAttribute(c)]] = Subject
  BY DEF Bound, ResponseAttribute
<1>5. Fold[SubjectAttribute(c)] \notin DOMAIN n
  BY <1>1, BindingUnmanaged
<1>6. /\ Fold[SubjectAttribute(c)] \in DOMAIN v.attributes
      /\ v.attributes[Fold[SubjectAttribute(c)]] = Subject
  BY <1>3, <1>4, <1>5, Zenon
<1>7. Bound(c, v)
  BY <1>6 DEF Bound, ResponseAttribute
<1>8. ASSUME n = ManagedDesiredValues(c, p.attributes) PROVE Holds(c, v, p)
  <2>1. \A k \in DOMAIN n : k \in DOMAIN v.attributes /\ v.attributes[k] = n[k]
    BY <1>3
  <2> QED
    BY <1>2, <1>8, <2>1, Zenon DEF Holds
<1> QED
  BY <1>2, <1>7, <1>8

\* managedValues reads back what was written.
LEMMA ReadBack ==
    ASSUME NEW c \in Configs, NEW p \in Projections, NEW u, Holds(c, u, p)
    PROVE  LET m == ManagedDesiredValues(c, p.attributes)
               a == ManagedValues(c, u)
           IN  \A k \in DOMAIN m : k \in DOMAIN a /\ a[k] = m[k]
<1> DEFINE m == ManagedDesiredValues(c, p.attributes)
           texts(k) == UNION {ScalarString[v] : v \in ResponseAttribute(u, k)}
<1> SUFFICES ASSUME NEW k \in DOMAIN m
             PROVE  k \in DOMAIN ManagedValues(c, u) /\ ManagedValues(c, u)[k] = m[k]
  OBVIOUS
<1>1. k \in Managed(c) /\ m[k] \in Texts
  BY DesiredValues
<1>2. k \in DOMAIN u.attributes /\ u.attributes[k] = m[k]
  BY DEF Holds
<1>3. ScalarString[m[k]] = {m[k]}
  BY <1>1, ScimAssumption
<1> HIDE DEF m
<1>4. ResponseAttribute(u, k) = {m[k]}
  BY <1>2 DEF ResponseAttribute
<1>5. texts(k) = {m[k]}
  BY <1>3, <1>4
<1>6. k \in {j \in Managed(c) : texts(j) # {}}
  BY <1>1, <1>5
<1>7. ManagedValues(c, u) = [j \in {i \in Managed(c) : texts(i) # {}} |->
                               CHOOSE t \in texts(j) : TRUE]
  BY DEF ManagedValues
<1>8. (CHOOSE t \in texts(k) : TRUE) = m[k]
  BY <1>5
<1> HIDE DEF texts
<1> QED
  BY <1>6, <1>7, <1>8

\* A resource that holds what p wants and is enabled as p is needs no write, but
\* for a managed attribute that p does not mention.
LEMMA Fulfilled ==
    ASSUME NEW c \in Configs, NEW p \in Projections, New(c), Allowed(c, p),
           p.exists, NEW u, Holds(c, u, p), u.active = {p.enabled}
    PROVE  \/ AdapterEquivalent(c, Observed(c, {u}), p)
           \/ ~(DOMAIN ManagedValues(c, u) \subseteq
                    DOMAIN ManagedDesiredValues(c, p.attributes))
<1> DEFINE m == ManagedDesiredValues(c, p.attributes)
           a == ManagedValues(c, u)
<1>1. SUFFICES ASSUME DOMAIN a \subseteq DOMAIN m
               PROVE  AdapterEquivalent(c, Observed(c, {u}), p)
  OBVIOUS
<1>2. \A k \in DOMAIN m : k \in DOMAIN a /\ a[k] = m[k]
  BY ReadBack
<1>3. a = m
  <2>1. a = [k \in DOMAIN a |-> a[k]]
    <3> DEFINE texts(k) == UNION {ScalarString[v] : v \in ResponseAttribute(u, k)}
    <3>1. a = [j \in {i \in Managed(c) : texts(i) # {}} |->
                  CHOOSE t \in texts(j) : TRUE]
      BY DEF ManagedValues
    <3> HIDE DEF texts, a
    <3> QED
      BY <3>1
  <2>2. m = [k \in DOMAIN m |-> m[k]]
    BY DEF ManagedDesiredValues
  <2> HIDE DEF a, m
  <2>3. DOMAIN a = DOMAIN m
    BY <1>1, <1>2
  <2>4. \A k \in DOMAIN m : a[k] = m[k]
    BY <1>2
  <2> QED
    BY <2>1, <2>2, <2>3, <2>4
<1>4. ScimActive(u) = p.enabled
  BY ProjectionMaps DEF ScimActive
<1>5. (CHOOSE v \in {u} : TRUE) = u
  OBVIOUS
<1>6. Observed(c, {u}) = [exists |-> TRUE, enabled |-> ScimActive(u), attributes |-> a]
  BY <1>5 DEF Observed
<1>7. StateEquivalent(Observed(c, {u}), p.exists, p.enabled, m)
  <2>1. /\ Observed(c, {u}).exists = TRUE
        /\ Observed(c, {u}).enabled = p.enabled
        /\ Observed(c, {u}).attributes = m
    <3> HIDE DEF a, m
    <3> QED
      BY <1>3, <1>4, <1>6
  <2>2. p.exists = TRUE
    BY ProjectionMaps
  <2> QED
    BY <2>1, <2>2, Zenon DEF StateEquivalent
<1>8. ~DesiredAmbiguous(c, p.attributes)
  BY Unambiguous
<1> QED
  BY <1>7, <1>8 DEF AdapterEquivalent

\* A disabled account is an absence where absence means disable, and no account
\* is one everywhere.
LEMMA Absent ==
    ASSUME NEW c \in Configs, NEW p \in Projections, New(c), Allowed(c, p), ~p.exists
    PROVE  /\ AdapterEquivalent(c, Observed(c, {}), p)
           /\ \A u : u.active = {FALSE} /\ DeprovisionMode(c) = "disable" =>
                       AdapterEquivalent(c, Observed(c, {u}), p)
<1>1. ~DesiredAmbiguous(c, p.attributes)
  BY Unambiguous
<1>2. p.exists = FALSE
  BY ProjectionMaps
<1>3. Observed(c, {}) = [exists |-> FALSE, enabled |-> FALSE, attributes |-> NoAttributes]
  BY DEF Observed
<1>4. AdapterEquivalent(c, Observed(c, {}), p)
  <2>1. Observed(c, {}).exists = FALSE
    BY <1>3
  <2>2. /\ Observed(c, {}).exists = p.exists
        /\ ~p.exists /\ ~Observed(c, {}).exists
    BY <1>2, <2>1
  <2>3. StateEquivalent(Observed(c, {}), p.exists, p.enabled,
                        ManagedDesiredValues(c, p.attributes))
    BY <2>2, Zenon DEF StateEquivalent
  <2> QED
    BY <1>1, <2>2, <2>3, Zenon DEF AdapterEquivalent
<1>5. ASSUME NEW u, u.active = {FALSE}, DeprovisionMode(c) = "disable"
      PROVE  AdapterEquivalent(c, Observed(c, {u}), p)
  <2>1. (CHOOSE v \in {u} : TRUE) = u
    OBVIOUS
  <2>2. Observed(c, {u}).enabled = ScimActive(u)
    BY <2>1 DEF Observed
  <2>3. ~ScimActive(u)
    BY <1>5 DEF ScimActive
  <2> QED
    BY <1>5, <2>2, <2>3 DEF AdapterEquivalent
<1> QED
  BY <1>4, <1>5

-----------------------------------------------------------------------------
(* Steps that leave the directory and the writes alone                     *)

\* The parts of the invariant that no run has a part in
Quiet == Contents /\ Reads /\ Versions /\ StaysBound /\ OneAccount

\* They only speak of these variables.
LEMMA QuietFrame ==
    ASSUME Quiet, config' = config, rows' = rows, users' = users, sent' = sent
    PROVE  Quiet'
BY DEF Quiet, Contents, Reads, Versions, StaysBound, OneAccount

\* The fields of writes and resources
LEMMA Fields ==
    ASSUME TypeOK
    PROVE  /\ \A q \in sent : /\ q.run \subseteq Runs /\ q.n \in 1 .. Len(rows)
                              /\ q.tag \in Tokens /\ q.id \in Tokens
                              /\ q.kind \in {"create", "patch", "delete"}
                              /\ q.active \in BOOLEAN
                              /\ q.attributes \in FoldedMaps
                              /\ rows[q.n] \in Projections
           /\ \A u \in users : /\ u.id \in Tokens /\ u.version \subseteq Tokens
                               /\ u.attributes \in FoldedMaps
           /\ Len(rows) \in Nat
           /\ \A r \in Runs : pc[r] # "idle" => /\ want[r] \in 1 .. Len(rows)
                                                /\ rows[want[r]] \in Projections
<1>1. rows \in Seq(Projections) /\ Len(rows) \in Nat
  BY DEF TypeOK
<1>2. \A n \in 1 .. Len(rows) : rows[n] \in Projections
  BY <1>1
<1>3. \A q \in sent : /\ q.run \subseteq Runs
                      /\ q.tag \in Tokens /\ q.id \in Tokens
                      /\ q.kind \in {"create", "patch", "delete"}
                      /\ q.active \in BOOLEAN /\ q.attributes \in FoldedMaps
  BY DEF TypeOK, RequestType
<1>4. \A q \in sent : q.n \in 1 .. Len(rows)
  BY DEF TypeOK
<1>5. \A u \in users : /\ u.id \in Tokens /\ u.version \subseteq Tokens
                       /\ u.attributes \in FoldedMaps
  BY DEF TypeOK, ResourceType
<1>6. \A r \in Runs : pc[r] # "idle" => want[r] \in 1 .. Len(rows)
  BY <1>1 DEF TypeOK
<1> QED
  BY <1>1, <1>2, <1>3, <1>4, <1>5, <1>6

\* A run that was not at work starts.
LEMMA Begins ==
    ASSUME IndInv, NEW r \in Runs, Start(r) \/ StartPreview(r)
    PROVE  IndInv'
<1>1. /\ pc[r] = "idle" /\ New(config) /\ rows # <<>>
      /\ Allowed(config, rows[Len(rows)])
      /\ want' = [want EXCEPT ![r] = Len(rows)]
      /\ UNCHANGED <<config, rows, users, sent, faults, others, shown, astray, disturbed>>
  BY DEF Start, StartPreview, Startable
<1>2. \/ /\ lock = {} /\ lock' = {r} /\ pc' = [pc EXCEPT ![r] = "observe"]
      \/ lock' = lock /\ pc' = [pc EXCEPT ![r] = "preview"]
  BY DEF Start, StartPreview
<1>3. TypeOK
  BY DEF IndInv
<1>4. Len(rows) \in Nat \ {0}
  BY <1>1, <1>3 DEF TypeOK
<1>5. TypeOK'
  <2>1. want' \in [Runs -> 0 .. Len(rows')]
    BY <1>1, <1>3, <1>4 DEF TypeOK
  <2>2. /\ lock' \subseteq Runs /\ \A s \in lock' : pc'[s] # "idle"
        /\ pc' \in [Runs -> {"idle", "preview", "observe", "apply", "waiting",
                             "unchanged", "updated", "would_update"}]
    BY <1>2, <1>3, Zenon DEF TypeOK
  <2>3. \A s \in Runs : pc'[s] = "idle" <=> want'[s] = 0
    BY <1>1, <1>2, <1>3, <1>4 DEF TypeOK
  <2> QED
    BY <1>1, <1>3, <2>1, <2>2, <2>3 DEF TypeOK
<1>6. Answers'
  BY <1>1, <1>2, <1>3, Fields DEF IndInv, Answers, TypeOK
<1>7. Checked'
  BY <1>1, <1>2, <1>3 DEF IndInv, Checked, TypeOK
<1>8. Locks'
  BY <1>1, <1>2, <1>3 DEF IndInv, Locks, TypeOK
<1>9. Forward'
  BY <1>1 DEF IndInv, Forward
<1>10. Undisturbed'
  BY <1>1, <1>2, <1>3 DEF IndInv, Undisturbed, TypeOK
<1>11. Quiet'
  BY <1>1, QuietFrame DEF IndInv, Quiet
<1> QED
  BY <1>5, <1>6, <1>7, <1>8, <1>9, <1>10, <1>11 DEF IndInv, Quiet

\* A run has looked at the directory and compares.
LEMMA Compares ==
    ASSUME IndInv, NEW r \in Runs, Preview(r) \/ Observe(r)
    PROVE  IndInv'
<1>1. PICK next \in {"unchanged", "would_update", "apply"} :
         /\ pc' = [pc EXCEPT ![r] = next]
         /\ next = "unchanged" => Equivalent(Desired(r))
         /\ next = "apply" => pc[r] = "observe"
  BY DEF Preview, Observe, Compared
<1>2. /\ pc[r] \in {"preview", "observe"} /\ disturbed' = disturbed \ {r}
      /\ UNCHANGED <<config, rows, lock, want, users, sent, faults, others, shown, astray>>
  BY DEF Preview, Observe, Compared
<1>3. next = "unchanged" => Good(config, users, rows[want[r]])
  BY <1>1 DEF Equivalent, Desired, Found, Good
<1>4. TypeOK
  BY DEF IndInv
<1>5. pc[r] # "idle" /\ pc[r] # "waiting" /\ next # "idle" /\ next # "updated"
  BY <1>2
<1>6. TypeOK'
  <2>1. /\ pc' \in [Runs -> {"idle", "preview", "observe", "apply", "waiting",
                             "unchanged", "updated", "would_update"}]
        /\ \A s \in Runs : pc'[s] = "idle" <=> pc[s] = "idle"
    BY <1>1, <1>2, <1>4, <1>5 DEF TypeOK
  <2> QED
    BY <1>2, <1>4, <2>1 DEF TypeOK
<1>7. Answers'
  BY <1>1, <1>2, <1>4, <1>5, Fields DEF IndInv, Answers, TypeOK
<1>8. Checked'
  BY <1>1, <1>2, <1>4, <1>5 DEF IndInv, Checked, TypeOK
<1>9. Locks'
  BY <1>1, <1>2, <1>4 DEF IndInv, Locks, TypeOK
<1>10. Forward'
  BY <1>2 DEF IndInv, Forward
<1>11. Undisturbed'
  <2>1. \A q \in sent : r \notin q.run
    BY <1>5 DEF IndInv, Answers
  <2> QED
    BY <1>1, <1>2, <1>3, <1>4, <1>5, <2>1, Fields DEF IndInv, Undisturbed, TypeOK
<1>12. Quiet'
  BY <1>2, QuietFrame DEF IndInv, Quiet
<1> QED
  BY <1>6, <1>7, <1>8, <1>9, <1>10, <1>11, <1>12 DEF IndInv, Quiet

\* A run loses its transaction and does not notice.
LEMMA Strays ==
    ASSUME IndInv, NEW r \in Runs, LoseConnection(r)
    PROVE  IndInv'
<1>1. /\ lock = {r} /\ lock' = {} /\ astray' = astray \cup {want[r]}
      /\ faults' = faults + 1
      /\ UNCHANGED <<config, rows, pc, want, users, sent, others, shown, disturbed>>
  BY DEF LoseConnection, Fault
<1>2. TypeOK
  BY DEF IndInv
<1>3. want[r] \in 1 .. Len(rows)
  BY <1>1, <1>2, Fields DEF TypeOK
<1>4. TypeOK'
  <2>1. astray' \subseteq 1 .. Len(rows')
    BY <1>1, <1>2, <1>3, Zenon DEF TypeOK
  <2>2. faults' \in Nat
    BY <1>1, <1>2 DEF TypeOK
  <2> QED
    BY <1>1, <1>2, <2>1, <2>2 DEF TypeOK
<1>5. Answers' /\ Checked' /\ Undisturbed'
  BY <1>1 DEF IndInv, Answers, Checked, Undisturbed
<1>6. Locks' /\ Forward'
  BY <1>1 DEF IndInv, Locks, Forward
<1>7. Quiet'
  BY <1>1, QuietFrame DEF IndInv, Quiet
<1> QED
  BY <1>4, <1>5, <1>6, <1>7 DEF IndInv, Quiet

\* A projection is persisted; the earlier ones are what they were.
LEMMA Persists ==
    ASSUME IndInv, NEW p \in Projections, Persist(p)
    PROVE  IndInv'
<1>1. /\ lock = {} /\ rows' = Append(rows, p)
      /\ UNCHANGED <<config, lock, pc, want, users, sent, faults, others, shown,
                     astray, disturbed>>
  BY DEF Persist
<1>2. TypeOK
  BY DEF IndInv
<1>3. /\ Len(rows) \in Nat /\ Len(rows') = Len(rows) + 1
      /\ rows' \in Seq(Projections)
      /\ \A n \in 1 .. Len(rows) : rows'[n] = rows[n]
  BY <1>1, <1>2 DEF TypeOK
<1>4. TypeOK'
  <2>1. /\ \A n \in 0 .. Len(rows) : n \in 0 .. Len(rows')
        /\ \A n \in 1 .. Len(rows) : n \in 1 .. Len(rows')
    BY <1>3
  <2>2. want' \in [Runs -> 0 .. Len(rows')] /\ shown' \in 0 .. Len(rows')
    BY <1>1, <1>2, <2>1 DEF TypeOK
  <2>3. /\ astray' \subseteq 1 .. Len(rows')
        /\ \A q \in sent' : q.n \in 1 .. Len(rows')
    BY <1>1, <1>2, <2>1 DEF TypeOK
  <2> QED
    BY <1>1, <1>2, <1>3, <2>2, <2>3 DEF TypeOK
<1>5. /\ \A q \in sent : rows'[q.n] = rows[q.n]
      /\ \A r \in Runs : pc[r] # "idle" => rows'[want[r]] = rows[want[r]]
  BY <1>2, <1>3, Fields
<1>6. Answers' /\ Locks' /\ Forward'
  BY <1>1 DEF IndInv, Answers, Locks, Forward
<1>7. Checked' /\ Contents'
  BY <1>1, <1>5 DEF IndInv, Checked, Contents
<1>8. Reads' /\ Versions' /\ StaysBound' /\ OneAccount'
  BY <1>1 DEF IndInv, Reads, Versions, StaysBound, OneAccount
<1>9. Undisturbed'
  BY <1>1, <1>5 DEF IndInv, Undisturbed
<1> QED
  BY <1>4, <1>6, <1>7, <1>8, <1>9 DEF IndInv

-----------------------------------------------------------------------------
(* Steps that end a run                                                    *)

\* A write whose run has gone is the same write otherwise.
LEMMA DisownedFields ==
    ASSUME NEW q \in RequestType, NEW r
    PROVE  LET d == [q EXCEPT !.run = @ \ {r}] IN
           /\ d \in RequestType
           /\ d.run = q.run \ {r} /\ d.kind = q.kind /\ d.n = q.n /\ d.tag = q.tag
           /\ d.id = q.id /\ d.if_match = q.if_match /\ d.active = q.active
           /\ d.attributes = q.attributes /\ d.read = q.read
           /\ \A c, p : Says(c, p, d) <=> Says(c, p, q)
           /\ ReadOne(d) <=> ReadOne(q)
           /\ r \notin q.run => d = q
<1> DEFINE d == [q EXCEPT !.run = @ \ {r}]
<1>1. d \in RequestType
  BY DEF RequestType
<1>2. /\ d.run = q.run \ {r} /\ d.kind = q.kind /\ d.n = q.n /\ d.tag = q.tag
      /\ d.id = q.id /\ d.if_match = q.if_match /\ d.active = q.active
      /\ d.attributes = q.attributes /\ d.read = q.read
  BY DEF RequestType
<1>3. r \notin q.run => d = q
  <2>1. r \notin q.run => q.run \ {r} = q.run
    OBVIOUS
  <2> QED
    BY <2>1 DEF RequestType
<1> HIDE DEF d
<1>4. \A c, p : Says(c, p, d) <=> Says(c, p, q)
  BY <1>2, Zenon DEF Says
<1>5. ReadOne(d) <=> ReadOne(q)
  BY <1>2, Zenon DEF ReadOne
<1> QED
  BY <1>1, <1>2, <1>3, <1>4, <1>5 DEF d

\* A run ends, and at most some writes of S are left, none of them waited for by it.
LEMMA Ends ==
    ASSUME IndInv, NEW r \in Runs, End(r), NEW S \in SUBSET sent,
           sent' = {[q EXCEPT !.run = @ \ {r}] : q \in S},
           UNCHANGED <<config, rows, users, others, shown, astray>>,
           faults' \in Nat
    PROVE  IndInv'
<1> DEFINE D(q) == [q EXCEPT !.run = @ \ {r}]
<1>1. /\ pc' = [pc EXCEPT ![r] = "idle"] /\ want' = [want EXCEPT ![r] = 0]
      /\ lock' = lock \ {r} /\ disturbed' = disturbed \ {r}
  BY DEF End
<1>2. TypeOK
  BY DEF IndInv
<1>3. \A q \in sent :
         /\ D(q) \in RequestType
         /\ D(q).run = q.run \ {r} /\ D(q).kind = q.kind /\ D(q).n = q.n
         /\ D(q).tag = q.tag /\ D(q).if_match = q.if_match /\ D(q).read = q.read
         /\ \A c, p : Says(c, p, D(q)) <=> Says(c, p, q)
         /\ ReadOne(D(q)) <=> ReadOne(q)
  <2> TAKE q \in sent
  <2>1. q \in RequestType
    BY <1>2 DEF TypeOK
  <2> QED
    BY <2>1, DisownedFields, Zenon
<1>4. \A d \in sent' : \E q \in sent : d = D(q)
  OBVIOUS
<1> HIDE DEF D
<1>5. TypeOK'
  <2>1. /\ pc' \in [Runs -> {"idle", "preview", "observe", "apply", "waiting",
                             "unchanged", "updated", "would_update"}]
        /\ \A s \in lock' : pc'[s] # "idle"
    BY <1>1, <1>2, Zenon DEF TypeOK
  <2>2. /\ want' \in [Runs -> 0 .. Len(rows')]
        /\ \A s \in Runs : pc'[s] = "idle" <=> want'[s] = 0
    <3>1. want \in [Runs -> 0 .. Len(rows)] /\ pc \in [Runs -> {"idle", "preview",
             "observe", "apply", "waiting", "unchanged", "updated", "would_update"}]
      BY <1>2 DEF TypeOK
    <3>2. rows' = rows /\ 0 \in 0 .. Len(rows)
      BY <1>2, Fields
    <3>3. want' \in [Runs -> 0 .. Len(rows')]
      BY <1>1, <3>1, <3>2
    <3>4. \A s \in Runs : pc[s] = "idle" <=> want[s] = 0
      BY <1>2 DEF TypeOK
    <3>5. \A s \in Runs : pc'[s] = "idle" <=> want'[s] = 0
      BY <1>1, <3>1, <3>4
    <3> QED
      BY <3>3, <3>5
  <2>3. ASSUME NEW d \in sent'
        PROVE  d \in RequestType /\ d.n \in 1 .. Len(rows')
    <3>1. PICK q \in sent : d = D(q)
      BY <1>4
    <3>2. d \in RequestType /\ d.n = q.n
      BY <1>3, <3>1, Zenon
    <3>3. q.n \in 1 .. Len(rows) /\ rows' = rows
      BY <1>2, Zenon DEF TypeOK
    <3> QED
      BY <3>2, <3>3, Zenon
  <2> QED
    BY <1>1, <1>2, <2>1, <2>2, <2>3 DEF TypeOK
<1>6. Answers'
  <2>1. \A q \in sent' : \A s \in q.run : pc'[s] = "waiting" /\ want'[s] = q.n
    BY <1>1, <1>2, <1>3, <1>4, Fields DEF IndInv, Answers, TypeOK
  <2>2. ASSUME NEW d1 \in sent', NEW d2 \in sent', NEW s \in Runs,
               s \in d1.run, s \in d2.run
        PROVE  d1 = d2
    <3>1. PICK q1 \in sent : d1 = D(q1)
      BY <1>4
    <3>2. PICK q2 \in sent : d2 = D(q2)
      BY <1>4
    <3>3. s \in q1.run /\ s \in q2.run
      BY <1>3, <2>2, <3>1, <3>2
    <3> QED
      BY <3>1, <3>2, <3>3 DEF IndInv, Answers
  <2> QED
    BY <2>1, <2>2 DEF Answers
<1>7. Checked'
  <2>1. Checked /\ config' = config /\ rows' = rows
    BY DEF IndInv
  <2>2. ASSUME NEW s \in Runs, pc'[s] # "idle"
        PROVE  pc[s] # "idle" /\ want'[s] = want[s]
    BY <1>1, <1>2, <2>2 DEF TypeOK
  <2>3. \A s \in Runs : pc'[s] # "idle" =>
           New(config') /\ Allowed(config', rows'[want'[s]])
    BY <2>1, <2>2, Zenon DEF Checked
  <2>4. ASSUME NEW d \in sent'
        PROVE  New(config') /\ Allowed(config', rows'[d.n])
    <3>1. PICK q \in sent : d = D(q)
      BY <1>4
    <3>2. d.n = q.n
      BY <1>3, <3>1
    <3> QED
      BY <2>1, <3>2, Zenon DEF Checked
  <2> QED
    BY <2>3, <2>4, Zenon DEF Checked
<1>8. Contents' /\ Reads' /\ StaysBound' /\ OneAccount'
  BY <1>3, <1>4 DEF IndInv, Contents, Reads, StaysBound, OneAccount
<1>9. Versions'
  <2>1. ASSUME NEW d1 \in sent', NEW d2 \in sent'
        PROVE  (d1.tag = d2.tag => d1 = d2) /\ d1.tag \notin d2.if_match
    <3>1. PICK q1 \in sent : d1 = D(q1)
      BY <1>4
    <3>2. PICK q2 \in sent : d2 = D(q2)
      BY <1>4
    <3> QED
      BY <1>3, <3>1, <3>2 DEF IndInv, Versions
  <2>2. ASSUME NEW d \in sent', NEW u \in users
        PROVE  /\ d.tag \notin u.version
               /\ Versioned /\ d.kind # "create" /\ d.if_match = u.version => d.read = {u}
    BY <1>3, <1>4 DEF IndInv, Versions
  <2> QED
    BY <2>1, <2>2 DEF IndInv, Versions
<1>10. Locks'
  BY <1>1, <1>2 DEF IndInv, Locks, TypeOK
<1>11. Forward'
  BY <1>3, <1>4 DEF IndInv, Forward
<1>12. Undisturbed'
  <2>1. \A q \in sent' : \A s \in q.run : s \in disturbed' \/ users' = q.read
    BY <1>1, <1>3, <1>4 DEF IndInv, Undisturbed
  <2>2. \A s \in Runs \ disturbed' : s = r \/ s \in Runs \ disturbed
    BY <1>1
  <2>3. \A s \in Runs \ {r} : pc'[s] = pc[s] /\ want'[s] = want[s]
    BY <1>1, <1>2 DEF TypeOK
  <2>4. pc'[r] = "idle"
    BY <1>1, <1>2 DEF TypeOK
  <2> QED
    BY <2>1, <2>2, <2>3, <2>4 DEF IndInv, Undisturbed
<1> QED
  BY <1>5, <1>6, <1>7, <1>8, <1>9, <1>10, <1>11, <1>12 DEF IndInv

\* A run is done, fails in a lookup or gives up.
LEMMA Stops ==
    ASSUME IndInv, NEW r \in Runs, Finish(r) \/ LookupFails(r) \/ GiveUp(r)
    PROVE  IndInv'
<1>1. /\ End(r) /\ UNCHANGED <<config, rows, users, others, shown, astray>>
      /\ faults' = faults \/ faults' = faults + 1
  BY DEF Finish, LookupFails, GiveUp, Fault
<1>2. faults' \in Nat
  BY <1>1 DEF IndInv, TypeOK
<1>3. sent' = {[q EXCEPT !.run = @ \ {r}] : q \in sent}
  <2>1. CASE GiveUp(r)
    BY <2>1 DEF GiveUp, Disowned
  <2>2. CASE Finish(r) \/ LookupFails(r)
    <3>1. sent' = sent /\ pc[r] # "waiting"
      BY <2>2 DEF Finish, LookupFails
    <3>2. ASSUME NEW q \in sent PROVE [q EXCEPT !.run = @ \ {r}] = q
      <4>1. q \in RequestType /\ r \notin q.run
        BY <3>1 DEF IndInv, TypeOK, Answers
      <4> QED
        BY <4>1, DisownedFields, Zenon
    <3> QED
      BY <3>1, <3>2
  <2> QED
    BY <2>1, <2>2
<1> QED
  BY <1>1, <1>2, <1>3, Ends

\* A write is refused or lost.
LEMMA Rejects ==
    ASSUME IndInv, NEW q \in sent, Reject(q)
    PROVE  IndInv'
<1>1. /\ sent' = sent \ {q} /\ UNCHANGED <<config, rows, users, others, shown, astray>>
      /\ faults' = faults \/ faults' = faults + 1
  BY DEF Reject, Fault
<1>2. faults' \in Nat
  BY <1>1 DEF IndInv, TypeOK
<1>3. ASSUME NEW r \in q.run, End(r) PROVE IndInv'
  <2>1. r \in Runs
    BY Fields DEF IndInv
  <2>2. ASSUME NEW o \in sent \ {q} PROVE [o EXCEPT !.run = @ \ {r}] = o
    <3>1. o \in RequestType /\ r \notin o.run
      BY <2>1 DEF IndInv, TypeOK, Answers
    <3> QED
      BY <3>1, DisownedFields, Zenon
  <2>3. sent' = {[o EXCEPT !.run = @ \ {r}] : o \in sent \ {q}}
    BY <1>1, <2>2
  <2>4. sent \ {q} \in SUBSET sent
    OBVIOUS
  <2> QED
    BY <1>1, <1>2, <1>3, <2>1, <2>3, <2>4, Ends
<1>4. ASSUME UNCHANGED <<pc, want, lock, disturbed>> PROVE IndInv'
  <2>1. TypeOK'
    BY <1>1, <1>2, <1>4 DEF IndInv, TypeOK
  <2>2. Answers' /\ Checked' /\ Contents' /\ Reads'
    BY <1>1, <1>4 DEF IndInv, Answers, Checked, Contents, Reads
  <2>3. Versions' /\ StaysBound' /\ OneAccount' /\ Locks'
    BY <1>1, <1>4 DEF IndInv, Versions, StaysBound, OneAccount, Locks
  <2>4. Forward' /\ Undisturbed'
    BY <1>1, <1>4 DEF IndInv, Forward, Undisturbed
  <2> QED
    BY <2>1, <2>2, <2>3, <2>4 DEF IndInv
<1> QED
  BY <1>3, <1>4 DEF Reject

-----------------------------------------------------------------------------
(* Apply                                                                   *)

\* A new token is new.
LEMMA FreshToken ==
    ASSUME TokenLeft
    PROVE  /\ NewToken \in Tokens
           /\ \A u \in users : NewToken # u.id /\ NewToken \notin u.version
           /\ \A q \in sent : NewToken # q.tag /\ NewToken \notin q.if_match
<1>1. NewToken \in Tokens /\ NewToken \notin InUse
  BY DEF TokenLeft, NewToken
<1> HIDE DEF NewToken
<1>2. ASSUME NEW u \in users PROVE {u.id} \cup u.version \subseteq InUse
  <2>1. {u.id} \cup u.version \in {{v.id} \cup v.version : v \in users}
    OBVIOUS
  <2> QED
    BY <2>1, Zenon DEF InUse
<1>3. ASSUME NEW q \in sent PROVE {q.tag, q.id} \cup q.if_match \subseteq InUse
  <2>1. {q.tag, q.id} \cup q.if_match \in {{o.tag, o.id} \cup o.if_match : o \in sent}
    OBVIOUS
  <2> QED
    BY <2>1, Zenon DEF InUse
<1> QED
  BY <1>1, <1>2, <1>3

\* All resources are found, where New accepts the configuration.
LEMMA AllFound ==
    ASSUME StaysBound, New(config)
    PROVE  Found = users /\ {u \in users : Bound(config, u)} = users
BY DEF StaysBound, Found

\* The write of Apply says what the row says and has read all there is.
LEMMA WriteShape ==
    ASSUME IndInv, NEW r \in Runs, pc[r] = "apply", ~Ambiguous, TokenLeft,
           NEW w \in Write(r, Desired(r))
    PROVE  /\ w \in RequestType /\ w.run = {r} /\ w.n = want[r] /\ w.tag = NewToken
           /\ Says(config, rows[want[r]], w) /\ ReadOne(w) /\ w.read = users
           /\ w.kind # "create" => \E u \in users : w.read = {u} /\ w.if_match = u.version
           /\ w.kind = "create" => w.if_match = {}
           /\ Write(r, Desired(r)) = {w}
<1> DEFINE p == rows[want[r]]
<1>1. /\ config \in Configs /\ p \in Projections /\ New(config)
      /\ want[r] \in Nat /\ users \subseteq ResourceType
  BY Fields DEF IndInv, TypeOK, Checked
<1>2. Found = users /\ (\A u, v \in users : u = v)
  BY <1>1, AllFound DEF IndInv, Ambiguous
<1>3. NewToken \in Tokens
  BY FreshToken
<1>4. p.enabled \in BOOLEAN /\ p.exists \in BOOLEAN
  BY <1>1, ProjectionMaps
<1>5. ManagedDesiredValues(config, p.attributes) \in FoldedMaps
  BY <1>1, DesiredValues
<1>6. Desired(r) = p
  BY DEF Desired
<1> HIDE DEF p
<1>7. CASE p.exists /\ users = {}
  <2>1. Write(r, p) = {Create(r, p)} /\ w = Create(r, p)
    BY <1>2, <1>6, <1>7 DEF Write
  <2>2. CreateAttributes(config, p.attributes) \in FoldedMaps
    <3> DEFINE u == [attributes |-> CreateAttributes(config, p.attributes)]
    <3>1. u.attributes = CreateAttributes(config, p.attributes)
      OBVIOUS
    <3> HIDE DEF u
    <3>2. Holds(config, u, p)
      BY <1>1, <3>1, Created
    <3> QED
      BY <3>1, <3>2 DEF Holds
  <2>3. /\ w.kind = "create" /\ w.run = {r} /\ w.n = want[r] /\ w.tag = NewToken
        /\ w.if_match = {} /\ w.active = p.enabled /\ w.read = {}
        /\ w.attributes = CreateAttributes(config, p.attributes)
    BY <2>1 DEF Create
  <2>4. w \in RequestType
    BY <1>1, <1>3, <1>4, <2>1, <2>2 DEF Create, RequestType
  <2>5. Says(config, p, w)
    BY <1>7, <2>3 DEF Says
  <2>6. ReadOne(w)
    BY <2>3 DEF ReadOne
  <2> QED
    BY <1>6, <1>7, <2>1, <2>3, <2>4, <2>5, <2>6 DEF p
<1>8. ASSUME NEW u \in users, users = {u},
             NEW kind \in {"patch", "delete"}, NEW active \in BOOLEAN,
             NEW attributes \in FoldedMaps,
             Write(r, p) = {Request(r, kind, u, active, attributes)},
             kind = "patch" /\ p.exists =>
                 active = p.enabled /\ attributes = ManagedDesiredValues(config, p.attributes),
             kind = "patch" /\ ~p.exists =>
                 /\ active = FALSE /\ attributes = NoAttributes
                 /\ DeprovisionMode(config) = "disable",
             kind = "delete" => ~p.exists /\ DeprovisionMode(config) = "delete"
      PROVE  /\ w \in RequestType /\ w.run = {r} /\ w.n = want[r] /\ w.tag = NewToken
             /\ Says(config, p, w) /\ ReadOne(w) /\ w.read = users
             /\ w.kind # "create" => \E v \in users : w.read = {v} /\ w.if_match = v.version
             /\ w.kind = "create" => w.if_match = {}
             /\ Write(r, p) = {w}
  <2>1. w = Request(r, kind, u, active, attributes)
    BY <1>6, <1>8
  <2>2. /\ u \in ResourceType /\ u.id \in Tokens /\ u.version \in SUBSET Tokens
        /\ (Versioned => u.version # {})
    BY <1>1 DEF IndInv, Versions, ResourceType
  <2>3. /\ w.kind = kind /\ w.run = {r} /\ w.n = want[r] /\ w.tag = NewToken
        /\ w.id = u.id /\ w.if_match = u.version /\ w.active = active
        /\ w.attributes = attributes /\ w.read = {u}
    BY <2>1 DEF Request
  <2>4. w \in RequestType
    BY <1>1, <1>3, <2>1, <2>2 DEF Request, RequestType
  <2>5. Says(config, p, w)
    BY <1>8, <2>3 DEF Says
  <2>6. ReadOne(w)
    BY <2>2, <2>3 DEF ReadOne
  <2> QED
    BY <1>8, <2>1, <2>3, <2>4, <2>5, <2>6
<1>9. CASE p.exists /\ users # {}
  <2>1. PICK u \in users : users = {u}
    BY <1>2, <1>9
  <2>2. Write(r, p) = {Request(r, "patch", u, p.enabled,
                               ManagedDesiredValues(config, p.attributes))}
    BY <1>2, <1>9, <2>1 DEF Write
  <2> QED
    BY <1>4, <1>5, <1>6, <1>8, <1>9, <2>1, <2>2 DEF p
<1>10. CASE ~p.exists
  <2>1. PICK u \in users : users = {u} /\ Write(r, p) = {Deprovision(r, u)}
    BY <1>2, <1>6, <1>10 DEF Write
  <2>2. DeprovisionMode(config) \in {"disable", "delete"}
    BY <1>1 DEF New
  <2>3. CASE DeprovisionMode(config) = "delete"
    <3>1. Write(r, p) = {Request(r, "delete", u, FALSE, NoAttributes)}
      BY <2>1, <2>3 DEF Deprovision
    <3> QED
      BY <1>6, <1>8, <1>10, <2>1, <2>3, <3>1, NoMap DEF p
  <2>4. CASE DeprovisionMode(config) = "disable"
    <3>1. Write(r, p) = {Request(r, "patch", u, FALSE, NoAttributes)}
      BY <2>1, <2>4 DEF Deprovision
    <3> QED
      BY <1>6, <1>8, <1>10, <2>1, <2>4, <3>1, NoMap DEF p
  <2> QED
    BY <2>2, <2>3, <2>4
<1> QED
  BY <1>7, <1>9, <1>10

\* Apply without a write has found nothing to deprovision.
LEMMA NothingToWrite ==
    ASSUME IndInv, NEW r \in Runs, pc[r] = "apply", Write(r, Desired(r)) = {}
    PROVE  Good(config, users, rows[want[r]])
<1> DEFINE p == rows[want[r]]
<1>1. /\ config \in Configs /\ p \in Projections /\ New(config) /\ Allowed(config, p)
  BY Fields DEF IndInv, TypeOK, Checked
<1>2. Found = users /\ {u \in users : Bound(config, u)} = users
  BY <1>1, AllFound DEF IndInv
<1>3. Desired(r) = p
  BY DEF Desired
<1> HIDE DEF p
<1>4. ~p.exists /\ users = {}
  <2>1. CASE p.exists
    BY <1>2, <1>3, <2>1, Zenon DEF Write
  <2>2. CASE ~p.exists /\ users # {}
    <3>1. PICK u : u \in users
      BY <2>2
    <3>2. Deprovision(r, u) \in Write(r, p)
      BY <1>2, <2>2, <3>1 DEF Write
    <3> QED
      BY <1>3, <3>2
  <2> QED
    BY <2>1, <2>2
<1>5. AdapterEquivalent(config, Observed(config, {}), p)
  BY <1>1, <1>4, Absent
<1> QED
  BY <1>2, <1>4, <1>5 DEF Good, p

\* A run looks again and sends its write.
LEMMA Applies ==
    ASSUME IndInv, NEW r \in Runs, Apply(r)
    PROVE  IndInv'
<1> DEFINE W == Write(r, Desired(r))
<1>1. /\ pc[r] = "apply" /\ ~Ambiguous /\ TokenLeft
      /\ sent' = sent \cup W
      /\ pc' = [pc EXCEPT ![r] = IF W = {} THEN "updated" ELSE "waiting"]
      /\ disturbed' = disturbed \ {r}
      /\ UNCHANGED <<config, rows, lock, want, users, faults, others, shown, astray>>
  BY DEF Apply
<1>2. \A w \in W :
         /\ w \in RequestType /\ w.run = {r} /\ w.n = want[r] /\ w.tag = NewToken
         /\ Says(config, rows[want[r]], w) /\ ReadOne(w) /\ w.read = users
         /\ w.kind # "create" => \E u \in users : w.read = {u} /\ w.if_match = u.version
         /\ w.kind = "create" => w.if_match = {}
         /\ W = {w}
  BY <1>1, WriteShape, Zenon
<1>3. W = {} => Good(config, users, rows[want[r]])
  BY <1>1, NothingToWrite
<1>4. TypeOK /\ want[r] \in 1 .. Len(rows) /\ Len(rows) \in Nat
  BY <1>1, Fields DEF IndInv
<1>5. /\ \A u \in users : NewToken \notin u.version
      /\ \A q \in sent : NewToken # q.tag /\ NewToken \notin q.if_match
  BY <1>1, FreshToken
<1>6. \A q \in sent : r \notin q.run
  BY <1>1 DEF IndInv, Answers
<1>7. /\ New(config) /\ Allowed(config, rows[want[r]])
      /\ want[r] = Len(rows) \/ want[r] \in astray
  BY <1>1 DEF IndInv, Checked, Locks
<1> HIDE DEF W
<1>8. PICK next \in {"updated", "waiting"} :
         /\ pc' = [pc EXCEPT ![r] = next]
         /\ next = "waiting" <=> W # {}
  BY <1>1
<1>9. TypeOK'
  <2>1. /\ pc' \in [Runs -> {"idle", "preview", "observe", "apply", "waiting",
                             "unchanged", "updated", "would_update"}]
        /\ \A s \in Runs : pc'[s] = "idle" <=> pc[s] = "idle"
    BY <1>1, <1>4, <1>8 DEF TypeOK
  <2>2. sent' \subseteq RequestType /\ \A q \in sent' : q.n \in 1 .. Len(rows)
    BY <1>1, <1>2, <1>4 DEF TypeOK
  <2> QED
    BY <1>1, <1>4, <2>1, <2>2 DEF TypeOK
<1>10. Answers'
  <2>1. /\ \A q \in sent : \A s \in q.run : s \in Runs \ {r}
        /\ \A s \in Runs \ {r} : pc'[s] = pc[s]
        /\ W # {} => pc'[r] = "waiting"
    BY <1>4, <1>6, <1>8, Fields DEF TypeOK
  <2>2. \A q \in sent' : \A s \in q.run : pc'[s] = "waiting" /\ want'[s] = q.n
    BY <1>1, <1>2, <2>1 DEF IndInv, Answers
  <2>3. \A q1, q2 \in sent' : \A s \in Runs : s \in q1.run /\ s \in q2.run => q1 = q2
    BY <1>1, <1>2, <1>6 DEF IndInv, Answers
  <2> QED
    BY <2>2, <2>3 DEF Answers
<1>11. Checked'
  BY <1>1, <1>2, <1>4, <1>7, <1>8 DEF IndInv, Checked, TypeOK
<1>12. Contents' /\ Reads' /\ StaysBound' /\ OneAccount'
  BY <1>1, <1>2 DEF IndInv, Contents, Reads, StaysBound, OneAccount
<1>13. Versions'
  <2>1. \A q1, q2 \in sent' : q1.tag = q2.tag => q1 = q2
    BY <1>1, <1>2, <1>5 DEF IndInv, Versions
  <2>2. \A q \in sent', u \in users : q.tag \notin u.version
    BY <1>1, <1>2, <1>5 DEF IndInv, Versions
  <2>3. \A q1, q2 \in sent' : q1.tag \notin q2.if_match
    <3>1. \A w \in W : \A t : t \in w.if_match => \E u \in users : t \in u.version
      BY <1>2
    <3> QED
      BY <1>1, <1>2, <1>5, <2>2, <3>1 DEF IndInv, Versions
  <2>4. Versioned => \A q \in sent', u \in users :
                        q.kind # "create" /\ q.if_match = u.version => q.read = {u}
    BY <1>1, <1>2 DEF IndInv, Versions
  <2> QED
    BY <1>1, <2>1, <2>2, <2>3, <2>4 DEF IndInv, Versions
<1>14. Locks'
  BY <1>1, <1>4, <1>8 DEF IndInv, Locks, TypeOK
<1>15. Forward'
  <2>1. shown \in 0 .. Len(rows)
    BY <1>4 DEF TypeOK
  <2>2. want[r] >= shown \/ want[r] \in astray
    BY <1>4, <1>7, <2>1
  <2> QED
    BY <1>1, <1>2, <2>2 DEF IndInv, Forward
<1>16. Undisturbed'
  <2>1. \A q \in sent' : \A s \in q.run : s \in disturbed' \/ users' = q.read
    BY <1>1, <1>2, <1>6 DEF IndInv, Undisturbed
  <2>2. \A s \in Runs \ {r} : pc'[s] = pc[s]
    BY <1>4, <1>8 DEF TypeOK
  <2>3. pc'[r] = next
    BY <1>4, <1>8 DEF TypeOK
  <2> QED
    BY <1>1, <1>3, <1>8, <2>1, <2>2, <2>3 DEF IndInv, Undisturbed
<1> QED
  BY <1>9, <1>10, <1>11, <1>12, <1>13, <1>14, <1>15, <1>16 DEF IndInv

-----------------------------------------------------------------------------
(* The directory changes                                                   *)

\* The filter only looks at the attributes.
LEMMA SameBinding ==
    ASSUME NEW c, NEW u, NEW v, u.attributes = v.attributes
    PROVE  Bound(c, u) <=> Bound(c, v)
BY DEF Bound, ResponseAttribute

\* At most one resource is new, its version is t, and one account stays one.
Changes(t, N) ==
    /\ \A x, y \in N : x = y
    /\ \A x \in N : /\ x \in ResourceType /\ Bound(config, x)
                    /\ Versioned => x.version = {t}
                    /\ \A s : s \in x.version => s = t
    /\ users' \subseteq users \cup N
    /\ (Unique /\ Found = users /\ \A u, v \in users : u = v) =>
          \A u, v \in users' : u = v

\* Another client changes the directory.
LEMMA Interferes ==
    ASSUME IndInv, OtherClient
    PROVE  IndInv'
<1>1. /\ TokenLeft /\ others' = others + 1 /\ shown' = 0 /\ disturbed' = Looked
      /\ UNCHANGED <<config, rows, lock, pc, want, sent, faults, astray>>
  BY DEF OtherClient
<1>2. TypeOK /\ config \in Configs
  BY DEF IndInv, TypeOK
<1>3. /\ NewToken \in Tokens
      /\ \A u \in users : NewToken \notin u.version
      /\ \A q \in sent : NewToken # q.tag /\ NewToken \notin q.if_match
  BY <1>1, FreshToken
<1>4. \E N : Changes(NewToken, N)
  <2>1. ASSUME NEW w \in OtherWrites, NEW id \in Tokens
        PROVE  LET x == Resource(id, NewToken, w.active, w.attributes) IN
               /\ x \in ResourceType /\ Bound(config, x)
               /\ Versioned => x.version = {NewToken}
               /\ \A t : t \in x.version => t = NewToken
    <3>1. w.active \in SUBSET BOOLEAN /\ w.attributes \in FoldedMaps
      BY ConvergenceAssumption
    <3>2. Bound(config, w)
      BY <1>2, ConvergenceAssumption
    <3> DEFINE x == Resource(id, NewToken, w.active, w.attributes)
    <3>3. /\ x \in ResourceType /\ x.attributes = w.attributes
          /\ Versioned => x.version = {NewToken}
          /\ \A t : t \in x.version => t = NewToken
      BY <1>3, <3>1 DEF Resource, ResourceType
    <3> HIDE DEF x
    <3>4. Bound(config, x)
      BY <3>2, <3>3, SameBinding
    <3> QED
      BY <3>3, <3>4 DEF x
  <2>2. ASSUME NEW w \in OtherWrites, ~Unique \/ Found = {},
               users' = users \cup {Resource(NewToken, NewToken, w.active, w.attributes)}
        PROVE  Changes(NewToken, {Resource(NewToken, NewToken, w.active, w.attributes)})
    <3> DEFINE x == Resource(NewToken, NewToken, w.active, w.attributes)
    <3>1. /\ x \in ResourceType /\ Bound(config, x)
          /\ Versioned => x.version = {NewToken}
          /\ \A t : t \in x.version => t = NewToken
      BY <1>3, <2>1
    <3>2. users' = users \cup {x}
      BY <2>2
    <3> HIDE DEF x
    <3>3. Changes(NewToken, {x})
      BY <2>2, <3>1, <3>2 DEF Changes
    <3> QED
      BY <3>3 DEF x
  <2>3. ASSUME NEW u \in users, NEW w \in OtherWrites,
               users' = (users \ {u}) \cup {Resource(u.id, NewToken, w.active, w.attributes)}
        PROVE  Changes(NewToken, {Resource(u.id, NewToken, w.active, w.attributes)})
    <3> DEFINE x == Resource(u.id, NewToken, w.active, w.attributes)
    <3>1. u.id \in Tokens
      BY <1>2, Fields
    <3>2. /\ x \in ResourceType /\ Bound(config, x)
          /\ Versioned => x.version = {NewToken}
          /\ \A t : t \in x.version => t = NewToken
      BY <2>1, <3>1
    <3>3. users' = (users \ {u}) \cup {x}
      BY <2>3
    <3> HIDE DEF x
    <3>4. Changes(NewToken, {x})
      BY <3>2, <3>3 DEF Changes
    <3> QED
      BY <3>4 DEF x
  <2>4. ASSUME NEW u \in users, users' = users \ {u}
        PROVE  Changes(NewToken, {})
    BY <2>4 DEF Changes
  <2> QED
    BY <2>2, <2>3, <2>4, Zenon DEF OtherClient
<1>5. PICK N : Changes(NewToken, N)
  BY <1>4
<1>6. TypeOK'
  <2>1. users' \subseteq ResourceType /\ others' \in Nat /\ disturbed' \subseteq Runs
    BY <1>1, <1>2, <1>5 DEF TypeOK, Changes, Looked
  <2>2. shown' \in 0 .. Len(rows')
    BY <1>1, <1>2, Fields
  <2> QED
    BY <1>1, <1>2, <2>1, <2>2 DEF TypeOK
<1>7. Answers' /\ Checked' /\ Contents' /\ Reads' /\ Locks'
  BY <1>1 DEF IndInv, Answers, Checked, Contents, Reads, Locks
<1>8. Versions'
  BY <1>1, <1>3, <1>5 DEF IndInv, Versions, Changes
<1>9. StaysBound'
  BY <1>1, <1>5 DEF IndInv, StaysBound, Changes
<1>10. OneAccount'
  <2>1. New(config) => Found = users
    BY AllFound DEF IndInv
  <2> QED
    BY <1>1, <1>5, <2>1 DEF IndInv, OneAccount, Changes
<1>11. Forward'
  <2>1. \A q \in sent : q.n >= 0
    BY <1>2, Fields
  <2> QED
    BY <1>1, <2>1 DEF Forward
<1>12. Undisturbed'
  <2>1. \A q \in sent : \A r \in q.run : r \in Looked
    BY <1>2, Fields DEF IndInv, Answers, Looked
  <2>2. \A r \in Runs \ Looked : pc[r] # "unchanged" /\ pc[r] # "updated"
    BY DEF Looked
  <2> QED
    BY <1>1, <2>1, <2>2 DEF Undisturbed
<1> QED
  BY <1>6, <1>7, <1>8, <1>9, <1>10, <1>11, <1>12 DEF IndInv

\* The resources a write puts in the place of those it addresses
Replacement(q) ==
    CASE q.kind = "create" -> {Resource(q.tag, q.tag, {q.active}, q.attributes)}
      [] q.kind = "patch" ->
            {Resource(u.id, q.tag, {q.active}, Overlay(u.attributes, q.attributes)) :
                u \in Addressed(q)}
      [] q.kind = "delete" -> {}

\* A resource that a write leaves shows what its projection p says.
Shown(q, p, x) ==
    /\ x \in ResourceType /\ Bound(config, x)
    /\ Versioned => x.version = {q.tag}
    /\ \A t : t \in x.version => t = q.tag
    /\ p.exists => Holds(config, x, p) /\ x.active = {p.enabled}
    /\ ~p.exists => x.active = {FALSE} /\ DeprovisionMode(config) = "disable"

\* An addressed resource of a provider with versions is the one that was read.
LEMMA AddressedIsRead ==
    ASSUME IndInv, NEW q \in sent, q.kind # "create", Versioned,
           NEW u \in Addressed(q)
    PROVE  u \in users /\ q.if_match = u.version /\ q.read = {u}
BY DEF IndInv, Reads, ReadOne, Versions, Addressed

\* Every resource that a write puts down shows its projection.
LEMMA Replaces ==
    ASSUME IndInv, NEW q \in sent, NEW x \in Replacement(q)
    PROVE  /\ Shown(q, rows[q.n], x)
           /\ q.kind \in {"create", "patch"}
           /\ Versioned => \A y \in Replacement(q) : y = x
<1> DEFINE p == rows[q.n]
<1>1. /\ config \in Configs /\ p \in Projections /\ New(config)
      /\ q.tag \in Tokens /\ q.active \in BOOLEAN /\ q.attributes \in FoldedMaps
      /\ q.kind \in {"create", "patch", "delete"}
      /\ Says(config, p, q)
  BY Fields DEF IndInv, TypeOK, Checked, Contents
<1> HIDE DEF p
<1>2. CASE q.kind = "create"
  <2>1. /\ x = Resource(q.tag, q.tag, {q.active}, q.attributes)
        /\ Replacement(q) = {x}
    BY <1>2 DEF Replacement
  <2>2. /\ x \in ResourceType /\ x.active = {q.active} /\ x.attributes = q.attributes
        /\ Versioned => x.version = {q.tag}
        /\ \A t : t \in x.version => t = q.tag
    BY <1>1, <2>1 DEF Resource, ResourceType
  <2>3. /\ p.exists /\ q.active = p.enabled
        /\ q.attributes = CreateAttributes(config, p.attributes)
    BY <1>1, <1>2 DEF Says
  <2>4. Holds(config, x, p) /\ Bound(config, x)
    BY <1>1, <2>2, <2>3, Created
  <2> QED
    BY <1>2, <2>1, <2>2, <2>3, <2>4 DEF Shown, p
<1>3. CASE q.kind = "patch"
  <2>1. PICK u \in Addressed(q) :
           x = Resource(u.id, q.tag, {q.active}, Overlay(u.attributes, q.attributes))
    BY <1>3 DEF Replacement
  <2>2. u \in users /\ u.id \in Tokens /\ u.attributes \in FoldedMaps
    BY Fields DEF IndInv, Addressed
  <2>3. Bound(config, u)
    BY <1>1, <2>2 DEF IndInv, StaysBound
  <2>4. Overlay(u.attributes, q.attributes) \in FoldedMaps
    BY <1>1, <2>2, OverlayMaps
  <2>5. /\ x \in ResourceType /\ x.active = {q.active}
        /\ x.attributes = Overlay(u.attributes, q.attributes)
        /\ Versioned => x.version = {q.tag}
        /\ \A t : t \in x.version => t = q.tag
    BY <1>1, <2>1, <2>2, <2>4 DEF Resource, ResourceType
  <2>6. /\ p.exists => /\ q.active = p.enabled
                       /\ q.attributes = ManagedDesiredValues(config, p.attributes)
        /\ ~p.exists => /\ q.active = FALSE /\ q.attributes = NoAttributes
                        /\ DeprovisionMode(config) = "disable"
    BY <1>1, <1>3 DEF Says
  <2>7. /\ Bound(config, x)
        /\ q.attributes = ManagedDesiredValues(config, p.attributes) => Holds(config, x, p)
    BY <1>1, <2>2, <2>3, <2>5, <2>6, Patched
  <2>8. Shown(q, p, x)
    BY <2>5, <2>6, <2>7 DEF Shown
  <2>9. ASSUME Versioned, NEW y \in Replacement(q) PROVE y = x
    <3>1. PICK v \in Addressed(q) :
             y = Resource(v.id, q.tag, {q.active}, Overlay(v.attributes, q.attributes))
      BY <1>3 DEF Replacement
    <3>2. q.read = {u} /\ q.read = {v}
      BY <1>3, <2>9, AddressedIsRead
    <3>3. u = v
      BY <3>2
    <3> QED
      BY <2>1, <3>1, <3>3
  <2> QED
    BY <1>3, <2>8, <2>9 DEF p
<1>4. CASE q.kind = "delete"
  BY <1>4 DEF Replacement
<1> QED
  BY <1>1, <1>2, <1>3, <1>4

\* What a write leaves where there is no other resource
LEMMA Leaves ==
    ASSUME IndInv, NEW q \in sent, Acceptable(q), users' = Written(q),
           \A u, v \in users : u = v,
           q.kind = "create" => users = {}
    PROVE  /\ users' = Replacement(q)
           /\ \A u, v \in users' : u = v
           /\ q.kind # "delete" => \E x \in Replacement(q) : users' = {x}
           /\ q.kind = "delete" => users' = {}
<1>1. q.kind \in {"create", "patch", "delete"}
  BY Fields DEF IndInv
<1>2. users' = (users \ Addressed(q)) \cup Replacement(q) /\ Addressed(q) \subseteq users
  BY DEF Written, Replacement, Addressed
<1>3. CASE q.kind = "create"
  BY <1>2, <1>3 DEF Replacement
<1>4. CASE q.kind # "create"
  <2>1. PICK u : u \in Addressed(q)
    BY <1>4 DEF Acceptable
  <2>2. users = {u} /\ Addressed(q) = {u}
    BY <1>2, <2>1
  <2>3. users' = Replacement(q)
    BY <1>2, <2>2
  <2>4. CASE q.kind = "patch"
    <3>1. Replacement(q) =
            {Resource(u.id, q.tag, {q.active}, Overlay(u.attributes, q.attributes))}
      BY <2>2, <2>4 DEF Replacement
    <3> QED
      BY <2>3, <2>4, <3>1
  <2>5. CASE q.kind = "delete"
    BY <2>3, <2>5 DEF Replacement
  <2> QED
    BY <1>1, <1>4, <2>4, <2>5, <2>3
<1> QED
  BY <1>3, <1>4

\* The directory takes a write.
LEMMA Takes ==
    ASSUME IndInv, NEW q \in sent, Take(q)
    PROVE  IndInv'
<1>1. /\ Acceptable(q) /\ users' = Written(q) /\ sent' = sent \ {q} /\ shown' = q.n
      /\ disturbed' = disturbed \cup (Looked \ q.run)
      /\ UNCHANGED <<config, rows, lock, want, others, astray>>
      /\ faults' = faults \/ faults' = faults + 1
  BY DEF Take, Fault
<1>2. TypeOK
  BY DEF IndInv
<1>3. /\ q.run \subseteq Runs /\ \A r \in q.run : pc[r] = "waiting" /\ want[r] = q.n
      /\ \A o \in sent \ {q} : \A r \in o.run : r \notin q.run
      /\ New(config) /\ Allowed(config, rows[q.n]) /\ config \in Configs
      /\ rows[q.n] \in Projections /\ q.n \in 1 .. Len(rows)
  BY <1>2, Fields DEF IndInv, Answers, Checked, TypeOK
<1>4. PICK A \in {q.run, {}} : pc' = [r \in Runs |-> IF r \in A THEN "updated" ELSE pc[r]]
  <2>1. CASE pc' = [r \in Runs |-> IF r \in q.run THEN "updated" ELSE pc[r]]
    BY <2>1
  <2>2. CASE pc' = pc
    <3>1. pc = [r \in Runs |-> IF r \in {} THEN "updated" ELSE pc[r]]
      BY <1>2 DEF TypeOK
    <3> QED
      BY <2>2, <3>1
  <2> QED
    BY <2>1, <2>2 DEF Take
<1>5. /\ \A r \in A : r \in q.run
      /\ \A r \in Runs : pc'[r] = "idle" <=> pc[r] = "idle"
      /\ \A r \in Runs \ A : pc'[r] = pc[r]
      /\ \A r \in A : pc'[r] = "updated"
  BY <1>3, <1>4
<1>6. /\ users' \subseteq (users \cup Replacement(q))
      /\ \A x \in Replacement(q) : Shown(q, rows[q.n], x)
      /\ Versioned => \A x, y \in Replacement(q) : x = y
  <2>1. users' = (users \ Addressed(q)) \cup Replacement(q)
    BY <1>1 DEF Written, Replacement
  <2> QED
    BY <2>1, Replaces
<1>7. Found = users
  BY <1>3, AllFound DEF IndInv
<1>8. TypeOK'
  <2>1. pc' \in [Runs -> {"idle", "preview", "observe", "apply", "waiting",
                          "unchanged", "updated", "would_update"}]
    BY <1>2, <1>4 DEF TypeOK
  <2>2. users' \subseteq ResourceType
    BY <1>2, <1>6 DEF TypeOK, Shown
  <2>3. disturbed' \subseteq Runs
    BY <1>1, <1>2 DEF TypeOK, Looked
  <2>4. faults' \in Nat
    BY <1>1, <1>2 DEF TypeOK
  <2>5. shown' \in 0 .. Len(rows')
    BY <1>1, <1>2, <1>3, Fields
  <2>6. \A r \in Runs : pc'[r] = "idle" <=> want'[r] = 0
    BY <1>1, <1>2, <1>5, Zenon DEF TypeOK
  <2>7. \A r \in lock' : pc'[r] # "idle"
    BY <1>1, <1>2, <1>5 DEF TypeOK
  <2> QED
    BY <1>1, <1>2, <2>1, <2>2, <2>3, <2>4, <2>5, <2>6, <2>7 DEF TypeOK
<1>9. Answers'
  <2>1. \A o \in sent' : \A r \in o.run : pc'[r] = pc[r]
    BY <1>1, <1>2, <1>3, <1>5, Fields
  <2> QED
    BY <1>1, <2>1 DEF IndInv, Answers
<1>10. Checked' /\ Contents' /\ Reads'
  BY <1>1, <1>5 DEF IndInv, Checked, Contents, Reads
<1>11. Versions'
  <2>1. \A o \in sent' : o.tag # q.tag /\ q.tag \notin o.if_match
    BY <1>1 DEF IndInv, Versions
  <2>2. \A u \in users : q.tag \notin u.version
    BY DEF IndInv, Versions
  <2>3. \A x \in Replacement(q) : /\ Versioned => x.version = {q.tag}
                                  /\ \A t : t \in x.version => t = q.tag
    BY <1>6 DEF Shown
  <2>4. /\ \A o1, o2 \in sent' : o1.tag = o2.tag => o1 = o2
        /\ \A o1, o2 \in sent' : o1.tag \notin o2.if_match
    BY <1>1 DEF IndInv, Versions
  <2>5. \A o \in sent', u \in users' : o.tag \notin u.version
    BY <1>1, <1>6, <2>1, <2>3 DEF IndInv, Versions
  <2>6. Versioned => \A u, v \in users' : u.version = v.version => u = v
    BY <1>6, <2>2, <2>3 DEF IndInv, Versions
  <2>7. Versioned => \A u \in users' : u.version # {}
    BY <1>6, <2>3 DEF IndInv, Versions
  <2>8. Versioned => \A o \in sent', u \in users' :
                        o.kind # "create" /\ o.if_match = u.version => o.read = {u}
    BY <1>1, <1>6, <2>1, <2>3 DEF IndInv, Versions
  <2> QED
    BY <2>4, <2>5, <2>6, <2>7, <2>8 DEF Versions
<1>12. StaysBound'
  BY <1>1, <1>6 DEF IndInv, StaysBound, Shown
<1>13. Locks'
  <2>1. \A r \in Runs : pc'[r] \in {"observe", "apply"} => pc[r] = pc'[r]
    BY <1>5
  <2> QED
    BY <1>1, <2>1 DEF IndInv, Locks
<1>14. Versioned /\ Unique => /\ users' = Replacement(q)
                             /\ \A u, v \in users' : u = v
  <2>1. Versioned /\ Unique => \A u, v \in users : u = v
    BY <1>3 DEF IndInv, OneAccount
  <2>2. Unique /\ q.kind = "create" => users = {}
    BY <1>1, <1>7 DEF Acceptable
  <2> QED
    BY <1>1, <2>1, <2>2, Leaves
<1>15. OneAccount'
  BY <1>14 DEF OneAccount
<1>16. Forward'
  <2>1. ASSUME Versioned, Unique, NEW o \in sent', NEW u \in users'
        PROVE  o.if_match # u.version
    <3>1. u.version = {q.tag}
      BY <1>6, <1>14, <2>1 DEF Shown
    <3>2. q.tag \notin o.if_match
      BY <1>1 DEF IndInv, Versions
    <3> QED
      BY <3>1, <3>2
  <2> QED
    BY <2>1 DEF Forward
<1>17. Undisturbed'
  <2>1. ASSUME NEW o \in sent', NEW r \in o.run PROVE r \in disturbed'
    <3>1. r \in Runs /\ pc[r] = "waiting" /\ r \notin q.run
      BY <1>1, <1>2, <1>3, Fields DEF IndInv, Answers
    <3> QED
      BY <1>1, <3>1 DEF Looked
  <2>2. ASSUME NEW r \in Runs \ disturbed', pc'[r] = "unchanged" \/ pc'[r] = "updated"
        PROVE  r \in q.run /\ r \notin disturbed /\ pc'[r] = "updated"
    <3>1. r \notin Looked \/ r \in q.run
      BY <1>1
    <3>2. r \notin A => r \in Looked /\ r \notin q.run
      BY <1>3, <1>5, <2>2 DEF Looked
    <3> QED
      BY <1>1, <1>5, <3>1, <3>2
  <2>3. ASSUME NEW r \in Runs \ disturbed', r \in q.run, r \notin disturbed
        PROVE  Good(config, users', rows[q.n]) \/ Surplus(config, users', rows[q.n])
    <3> DEFINE p == rows[q.n]
    <3>1. users = q.read
      BY <2>3 DEF IndInv, Undisturbed
    <3>2. /\ \A u, v \in users : u = v
          /\ q.kind = "create" => users = {}
      BY <3>1 DEF IndInv, Reads, ReadOne
    <3>3. /\ q.kind # "delete" => \E x \in Replacement(q) : users' = {x}
          /\ q.kind = "delete" => users' = {}
      BY <1>1, <3>2, Leaves
    <3>4. {u \in users' : Bound(config, u)} = users'
      BY <1>1, <1>3, <1>12 DEF StaysBound
    <3>5. config \in Configs /\ p \in Projections /\ New(config) /\ Allowed(config, p)
      BY <1>3
    <3> HIDE DEF p
    <3>6. CASE q.kind = "delete"
      <4>1. ~p.exists
        BY <3>6 DEF IndInv, Contents, Says, p
      <4>2. AdapterEquivalent(config, Observed(config, {}), p)
        BY <3>5, <4>1, Absent
      <4> QED
        BY <3>3, <3>4, <3>6, <4>2 DEF Good, p
    <3>7. CASE q.kind # "delete"
      <4>1. PICK x \in Replacement(q) : users' = {x}
        BY <3>3, <3>7
      <4>2. Shown(q, p, x)
        BY <1>6 DEF p
      <4>3. CASE p.exists
        <5>1. Holds(config, x, p) /\ x.active = {p.enabled}
          BY <4>2, <4>3 DEF Shown
        <5>2. \/ AdapterEquivalent(config, Observed(config, {x}), p)
              \/ ~(DOMAIN ManagedValues(config, x) \subseteq
                       DOMAIN ManagedDesiredValues(config, p.attributes))
          BY <3>5, <4>3, <5>1, Fulfilled
        <5>3. Good(config, users', p) \/ Surplus(config, users', p)
          BY <3>4, <4>1, <4>3, <5>2 DEF Good, Surplus
        <5> QED
          BY <5>3 DEF p
      <4>4. CASE ~p.exists
        <5>1. x.active = {FALSE} /\ DeprovisionMode(config) = "disable"
          BY <4>2, <4>4 DEF Shown
        <5>2. AdapterEquivalent(config, Observed(config, {x}), p)
          BY <3>5, <4>4, <5>1, Absent
        <5> QED
          BY <3>4, <4>1, <5>2 DEF Good, p
      <4> QED
        BY <4>3, <4>4
    <3> QED
      BY <3>6, <3>7
  <2>4. \A r \in q.run : rows'[want'[r]] = rows[q.n] /\ config' = config
    BY <1>1, <1>3
  <2> QED
    BY <2>1, <2>2, <2>3, <2>4 DEF Undisturbed
<1> QED
  BY <1>8, <1>9, <1>10, <1>11, <1>12, <1>13, <1>15, <1>16, <1>17 DEF IndInv

-----------------------------------------------------------------------------
(* The theorems                                                            *)

\* The invariant holds when nothing has been written.
LEMMA Starts == Init => IndInv
<1> SUFFICES ASSUME Init PROVE IndInv
  OBVIOUS
<1>1. /\ config \in Configs /\ rows = <<>> /\ lock = {} /\ sent = {}
      /\ pc = [r \in Runs |-> "idle"] /\ want = [r \in Runs |-> 0]
      /\ faults = 0 /\ others = 0 /\ shown = 0 /\ astray = {} /\ disturbed = {}
  BY DEF Init
<1>2. /\ users \subseteq ResourceType /\ \A u, v \in users : u = v
      /\ \A u \in users : Bound(config, u) /\ (Versioned => u.version # {})
  <2>1. ASSUME NEW t \in {CHOOSE t \in Tokens : TRUE}, NEW w \in OtherWrites,
               users = {Resource(t, t, w.active, w.attributes)}
        PROVE  /\ users \subseteq ResourceType /\ \A u, v \in users : u = v
               /\ \A u \in users : Bound(config, u) /\ (Versioned => u.version # {})
    <3> DEFINE x == Resource(t, t, w.active, w.attributes)
    <3>1. t \in Tokens
      BY ConvergenceAssumption
    <3>2. /\ w.active \in SUBSET BOOLEAN /\ w.attributes \in FoldedMaps
          /\ Bound(config, w)
      BY <1>1, ConvergenceAssumption
    <3>3. /\ x \in ResourceType /\ x.attributes = w.attributes
          /\ Versioned => x.version = {t}
      BY <3>1, <3>2 DEF Resource, ResourceType
    <3>4. users = {x}
      BY <2>1
    <3> HIDE DEF x
    <3>5. Bound(config, x)
      BY <3>2, <3>3, SameBinding
    <3> QED
      BY <3>3, <3>4, <3>5
  <2>2. CASE users = {}
    BY <2>2
  <2> QED
    BY <2>1, <2>2 DEF Init
<1>3. TypeOK
  <2>1. rows \in Seq(Projections) /\ Len(rows) = 0
    BY <1>1
  <2>2. users \subseteq ResourceType
    BY <1>2, Zenon
  <2>3. want \in [Runs -> 0 .. Len(rows)] /\ shown \in 0 .. Len(rows)
    BY <1>1, <2>1
  <2> QED
    BY <1>1, <2>1, <2>2, <2>3 DEF TypeOK
<1>4. Answers /\ Checked /\ Contents /\ Reads /\ Locks /\ Forward /\ Undisturbed
  BY <1>1 DEF Answers, Checked, Contents, Reads, Locks, Forward, Undisturbed
<1>5. Versions /\ StaysBound /\ OneAccount
  BY <1>1, <1>2, Zenon DEF Versions, StaysBound, OneAccount
<1> QED
  BY <1>3, <1>4, <1>5 DEF IndInv

\* Every step keeps the invariant.
LEMMA Keeps == IndInv /\ [Next]_vars => IndInv'
<1> SUFFICES ASSUME IndInv, [Next]_vars PROVE IndInv'
  OBVIOUS
<1>1. ASSUME NEW r \in Runs, RunStep(r) PROVE IndInv'
  <2>1. CASE Start(r) \/ StartPreview(r)
    BY <2>1, Begins
  <2>2. CASE Preview(r) \/ Observe(r)
    BY <2>2, Compares
  <2>3. CASE Apply(r)
    BY <2>3, Applies
  <2>4. CASE Finish(r) \/ LookupFails(r) \/ GiveUp(r)
    BY <2>4, Stops
  <2>5. CASE LoseConnection(r)
    BY <2>5, Strays
  <2>6. CASE Refuse(r)
    <3>1. UNCHANGED vars
      BY <2>6 DEF Refuse
    <3> QED
      BY <3>1 DEF vars, IndInv, TypeOK, Answers, Checked, Contents, Reads, Versions,
                  StaysBound, Locks, OneAccount, Forward, Undisturbed
  <2> QED
    BY <1>1, <2>1, <2>2, <2>3, <2>4, <2>5, <2>6 DEF RunStep
<1>2. CASE UNCHANGED vars
  BY <1>2 DEF vars, IndInv, TypeOK, Answers, Checked, Contents, Reads, Versions,
              StaysBound, Locks, OneAccount, Forward, Undisturbed
<1> QED
  BY <1>1, <1>2, Persists, Takes, Rejects, Interferes DEF Next

\* The invariant of all behaviours
LEMMA Invariance == Spec => []IndInv
BY Starts, Keeps, PTL DEF Spec

\* Runs and writes carry versions of the row, and the lock is held by a run that
\* works, for any number of runs, rows and faults.
THEOREM TypeCorrect == Spec => []TypeOK
<1>1. IndInv => TypeOK
  BY DEF IndInv
<1> QED
  BY <1>1, Invariance, PTL

\* No create, patch or other client makes a resource unreachable by its binding,
\* for every configuration New accepts.
THEOREM SubjectStaysBound == Spec => []StaysBound
<1>1. IndInv => StaysBound
  BY DEF IndInv
<1> QED
  BY <1>1, Invariance, PTL

\* A success that nobody has overtaken leaves what the next run finds equivalent,
\* or an account with surplus managed attributes.
THEOREM SuccessConverges == Spec => []SuccessIsConverged
<1>1. IndInv => SuccessIsConverged
  BY DEF IndInv, Undisturbed, SuccessIsConverged, Good, Surplus, Equivalent, Leftover,
         Found, Desired
<1> QED
  BY <1>1, Invariance, PTL

\* With versions that the provider enforces, a write takes effect only on the
\* resource its run has read, however late it arrives.
THEOREM NeverOverwritesUnread ==
    ASSUME Versioned
    PROVE  Spec => OverwritesOnlyWhatItRead
<1> DEFINE A == \A q \in sent \ sent' : users' # users => q.read \subseteq users
<1>1. ASSUME IndInv, [Next]_vars PROVE [A]_vars
  <2> SUFFICES ASSUME Next, NEW q \in sent, q \notin sent', users' # users
               PROVE  q.read \subseteq users
    BY <1>1
  <2>1. \/ \E o \in sent : Take(o)
        \/ OtherClient
    BY DEF Next, RunStep, Persist, Start, StartPreview, Refuse, Preview, Observe, Compared,
           Apply, Finish, LookupFails, GiveUp, LoseConnection, Reject, vars
  <2>2. Take(q)
    BY <2>1 DEF Take, OtherClient
  <2>3. CASE q.kind = "create"
    BY <1>1, <2>3 DEF IndInv, Reads, ReadOne
  <2>4. CASE q.kind # "create"
    <3>1. PICK u : u \in Addressed(q)
      BY <2>2, <2>4 DEF Take, Acceptable
    <3>2. u \in users /\ q.read = {u}
      BY <1>1, <2>4, <3>1, AddressedIsRead
    <3> QED
      BY <3>2
  <2> QED
    BY <2>3, <2>4
<1>2. IndInv /\ [Next]_vars => [A]_vars
  BY <1>1
<1> HIDE DEF A
<1>3. Spec => [][A]_vars
  BY <1>2, Invariance, PTL DEF Spec
<1> QED
  BY <1>3 DEF OverwritesOnlyWhatItRead, A

-----------------------------------------------------------------------------
(* The refinement                                                          *)

\* A resource that a write puts down shows, as the adapter sees it, its projection.
LEMMA ShowsProjection ==
    ASSUME IndInv, NEW q \in sent, NEW x \in Replacement(q)
    PROVE  T!Shows(Wanted(config, rows[q.n]), {Account(config, x)})
<1> DEFINE p == rows[q.n]
           d == Wanted(config, p)
           a == Account(config, x)
<1>1. config \in Configs /\ p \in Projections
  BY Fields DEF IndInv, TypeOK
<1>2. Shown(q, p, x)
  BY Replaces DEF p
<1>3. /\ d.exists = p.exists /\ d.enabled = p.enabled
      /\ d.attributes = ManagedDesiredValues(config, p.attributes)
  BY DEF Wanted
<1>4. a.enabled = ScimActive(x) /\ a.attributes = ManagedValues(config, x)
  BY DEF Account
<1> HIDE DEF p, d, a
<1>5. CASE p.exists
  <2>1. Holds(config, x, p) /\ x.active = {p.enabled}
    BY <1>2, <1>5 DEF Shown
  <2>2. a.enabled = p.enabled
    BY <1>1, <1>4, <2>1, ProjectionMaps DEF ScimActive
  <2>3. \A k \in DOMAIN d.attributes :
           k \in DOMAIN a.attributes /\ a.attributes[k] = d.attributes[k]
    <3> DEFINE m == ManagedDesiredValues(config, p.attributes)
               v == ManagedValues(config, x)
    <3>1. \A k \in DOMAIN m : k \in DOMAIN v /\ v[k] = m[k]
      BY <1>1, <2>1, ReadBack
    <3>2. d.attributes = m /\ a.attributes = v
      BY <1>3, <1>4
    <3> HIDE DEF m, v
    <3> QED
      BY <3>1, <3>2
  <2>4. T!Shows(d, {a})
    BY <1>3, <1>5, <2>2, <2>3, Zenon DEF T!Shows
  <2> QED
    BY <2>4 DEF a, d, p
<1>6. CASE ~p.exists
  <2>1. ~a.enabled
    BY <1>2, <1>4, <1>6 DEF Shown, ScimActive
  <2>2. T!Shows(d, {a})
    BY <1>3, <1>6, <2>1, Zenon DEF T!Shows
  <2> QED
    BY <2>2 DEF a, d, p
<1> QED
  BY <1>5, <1>6

\* A write the directory takes is one step of the account, to its projection.
LEMMA TakeIsWrite ==
    ASSUME Versioned, Unique, IndInv, NEW q \in sent, Take(q)
    PROVE  q.n \in DOMAIN rows /\ T!Write(q.n)
<1> DEFINE p == rows[q.n]
           d == Wanted(config, p)
           accs == {Account(config, u) : u \in users'}
<1>1. /\ Acceptable(q) /\ users' = Written(q) /\ shown' = q.n
      /\ config' = config /\ rows' = rows /\ astray' = astray
  BY DEF Take
<1>2. /\ config \in Configs /\ p \in Projections /\ New(config)
      /\ q.n \in 1 .. Len(rows) /\ Says(config, p, q)
      /\ q.kind \in {"create", "patch", "delete"}
  BY Fields DEF IndInv, TypeOK, Checked, Contents
<1>3. q.n \in DOMAIN rows
  BY <1>2 DEF IndInv, TypeOK
<1>4. /\ \A u, v \in users : u = v
      /\ q.kind = "create" => users = {}
  <2>1. Found = users
    BY <1>2, AllFound DEF IndInv
  <2> QED
    BY <1>1, <1>2, <2>1 DEF IndInv, OneAccount, Acceptable
<1>5. q.n >= shown \/ {Account(config, u) : u \in users} = {} \/ q.n \in astray
  <2>1. CASE q.kind = "create"
    BY <1>4, <2>1
  <2>2. CASE q.kind # "create"
    <3>1. PICK u : u \in Addressed(q)
      BY <1>1, <2>2 DEF Acceptable
    <3>2. u \in users /\ q.if_match = u.version
      BY <2>2, <3>1, AddressedIsRead
    <3> QED
      BY <2>2, <3>2 DEF IndInv, Forward
  <2> QED
    BY <2>1, <2>2
<1>6. /\ q.kind # "delete" => \E x \in Replacement(q) : users' = {x}
      /\ q.kind = "delete" => users' = {}
  BY <1>1, <1>4, Leaves
<1>7. T!Shows(d, accs)
  <2>1. CASE q.kind = "delete"
    <3>1. ~p.exists
      BY <1>2, <2>1 DEF Says
    <3>2. d.exists = p.exists
      BY DEF Wanted
    <3> QED
      BY <1>6, <2>1, <3>1, <3>2 DEF T!Shows
  <2>2. CASE q.kind # "delete"
    <3>1. PICK x \in Replacement(q) : users' = {x}
      BY <1>6, <2>2
    <3>2. accs = {Account(config, x)}
      BY <3>1
    <3>3. T!Shows(d, {Account(config, x)})
      BY ShowsProjection
    <3> HIDE DEF accs, d
    <3> QED
      BY <3>2, <3>3
  <2> QED
    BY <2>1, <2>2
<1>8. [n \in DOMAIN rows |-> Wanted(config, rows[n])][q.n] = d
  BY <1>3 DEF d, p
<1> QED
  BY <1>1, <1>3, <1>5, <1>7, <1>8 DEF T!Write

\* A persisted projection leaves the earlier ones alone.
LEMMA PersistIsPersist ==
    ASSUME IndInv, NEW p \in Projections, Persist(p)
    PROVE  T!Persist
<1>1. /\ rows' = Append(rows, p)
      /\ UNCHANGED <<config, users, shown, astray>>
  BY DEF Persist
<1>2. rows \in Seq(Projections)
  BY DEF IndInv, TypeOK
<1>3. /\ DOMAIN rows \subseteq DOMAIN rows'
      /\ \A n \in DOMAIN rows : rows'[n] = rows[n]
  BY <1>1, <1>2
<1> QED
  BY <1>1, <1>3 DEF T!Persist

\* A run that loses its lock leaves its version astray.
LEMMA StrayIsStray ==
    ASSUME IndInv, NEW r \in Runs, LoseConnection(r)
    PROVE  want[r] \in DOMAIN rows /\ T!LoseLock(want[r])
<1>1. /\ lock = {r} /\ astray' = astray \cup {want[r]}
      /\ UNCHANGED <<config, rows, users, shown>>
  BY DEF LoseConnection
<1>2. want[r] \in 1 .. Len(rows) /\ rows \in Seq(Projections)
  BY <1>1, Fields DEF IndInv, TypeOK
<1>3. want[r] \in DOMAIN rows
  BY <1>2
<1> QED
  BY <1>1, <1>3 DEF T!LoseLock

\* With a provider that enforces versions and unique bindings, what the command,
\* the adapter and the directory do amounts to the steps of Target: the account
\* never goes back to an older projection, but for the two exceptions named there.
THEOREM RefinesTarget ==
    ASSUME Versioned, Unique
    PROVE  Spec => ImplementsTarget
<1>1. Init => T!Init
  BY DEF Init, T!Init
<1>2. IndInv /\ [Next]_vars => [T!Next]_(T!vars)
  <2> SUFFICES ASSUME IndInv, [Next]_vars PROVE [T!Next]_(T!vars)
    OBVIOUS
  <2>1. ASSUME UNCHANGED <<config, rows, users, shown, astray>> PROVE UNCHANGED T!vars
    BY <2>1 DEF T!vars
  <2>2. ASSUME NEW p \in Projections, Persist(p) PROVE T!Next
    BY <2>2, PersistIsPersist DEF T!Next
  <2>3. ASSUME NEW r \in Runs, RunStep(r) PROVE [T!Next]_(T!vars)
    <3>1. CASE LoseConnection(r)
      <4>1. want[r] \in DOMAIN [n \in DOMAIN rows |-> Wanted(config, rows[n])]
        BY <3>1, StrayIsStray
      <4> QED
        BY <3>1, <4>1, StrayIsStray DEF T!Next
    <3>2. CASE ~LoseConnection(r)
      <4>1. UNCHANGED <<config, rows, users, shown, astray>>
        BY <2>3, <3>2 DEF RunStep, Start, StartPreview, Refuse, Preview, Observe, Compared,
                          Apply, Finish, LookupFails, GiveUp, vars
      <4> QED
        BY <2>1, <4>1
    <3> QED
      BY <3>1, <3>2
  <2>4. ASSUME NEW q \in sent, Take(q) PROVE T!Next
    <3>1. q.n \in DOMAIN [n \in DOMAIN rows |-> Wanted(config, rows[n])]
      BY <2>4, TakeIsWrite
    <3> QED
      BY <2>4, <3>1, TakeIsWrite DEF T!Next
  <2>5. ASSUME NEW q \in sent, Reject(q) PROVE UNCHANGED T!vars
    BY <2>1, <2>5 DEF Reject
  <2>6. CASE OtherClient
    <3>1. shown' = 0 /\ UNCHANGED <<config, rows, astray>>
      BY <2>6 DEF OtherClient
    <3> QED
      BY <3>1 DEF T!Next, T!OtherClient
  <2>7. CASE UNCHANGED vars
    BY <2>1, <2>7 DEF vars
  <2> QED
    BY <2>2, <2>3, <2>4, <2>5, <2>6, <2>7 DEF Next
<1> QED
  BY <1>1, <1>2, Invariance, PTL DEF Spec, ImplementsTarget, T!Spec

-----------------------------------------------------------------------------
(* Every provider                                                          *)

\* An identifier names one resource, and a create is going to bring a new one.
OwnIds ==
    /\ \A u, v \in users : u.id = v.id => u = v
    /\ \A q \in sent : q.kind = "create" => q.id = q.tag
    /\ \A q \in sent, u \in users : q.kind = "create" => u.id # q.id

\* Writes that go away, or whose runs do, name what they named.
LEMMA FewerWrites ==
    ASSUME OwnIds, users' = users,
           \A d \in sent' : \E q \in sent : d.kind = q.kind /\ d.id = q.id /\ d.tag = q.tag
    PROVE  OwnIds'
<1>1. \A u, v \in users' : u.id = v.id => u = v
  BY DEF OwnIds
<1>2. ASSUME NEW d \in sent', d.kind = "create"
      PROVE  d.id = d.tag /\ \A u \in users' : u.id # d.id
  <2>1. PICK q \in sent : d.kind = q.kind /\ d.id = q.id /\ d.tag = q.tag
    OBVIOUS
  <2> QED
    BY <1>2, <2>1 DEF OwnIds
<1> QED
  BY <1>1, <1>2 DEF OwnIds

\* What a write leaves, resource by resource: a create adds one, and a patch puts
\* the resource it addresses back under its identifier.
LEMMA TakesOne ==
    ASSUME IndInv, OwnIds, NEW q \in sent, Take(q)
    PROVE  /\ users' = (users \ Addressed(q)) \cup Replacement(q)
           /\ \A u, v \in Addressed(q) : u = v
           /\ q.kind = "create" => Addressed(q) = {}
           /\ q.kind = "create" => \A x \in Replacement(q) : x.id = q.id
           /\ q.kind = "patch" => \A u \in Addressed(q) : \E x \in Replacement(q) :
                 /\ Replacement(q) = {x} /\ x.id = u.id
                 /\ x.attributes = Overlay(u.attributes, q.attributes)
           /\ q.kind = "delete" => Replacement(q) = {}
<1>1. users' = (users \ Addressed(q)) \cup Replacement(q)
  BY DEF Take, Written, Replacement
<1>2. \A u, v \in Addressed(q) : u = v
  BY DEF OwnIds, Addressed
<1>3. ASSUME q.kind = "create"
      PROVE  Addressed(q) = {} /\ \A x \in Replacement(q) : x.id = q.id
  <2>1. Addressed(q) = {}
    BY <1>3 DEF OwnIds, Addressed
  <2>2. Replacement(q) = {Resource(q.tag, q.tag, {q.active}, q.attributes)}
    BY <1>3 DEF Replacement
  <2>3. q.id = q.tag
    BY <1>3 DEF OwnIds
  <2> QED
    BY <2>1, <2>2, <2>3 DEF Resource
<1>4. ASSUME q.kind = "patch", NEW u \in Addressed(q)
      PROVE  \E x \in Replacement(q) :
                /\ Replacement(q) = {x} /\ x.id = u.id
                /\ x.attributes = Overlay(u.attributes, q.attributes)
  <2> DEFINE x == Resource(u.id, q.tag, {q.active}, Overlay(u.attributes, q.attributes))
  <2>1. Addressed(q) = {u}
    BY <1>2, <1>4
  <2>2. Replacement(q) =
           {Resource(v.id, q.tag, {q.active}, Overlay(v.attributes, q.attributes)) :
               v \in Addressed(q)}
    BY <1>4 DEF Replacement
  <2>3. Replacement(q) = {x}
    BY <2>1, <2>2
  <2>4. x.id = u.id /\ x.attributes = Overlay(u.attributes, q.attributes)
    BY DEF Resource
  <2> HIDE DEF x
  <2> QED
    BY <2>3, <2>4
<1>5. q.kind = "delete" => Replacement(q) = {}
  BY DEF Replacement
<1> QED
  BY <1>1, <1>2, <1>3, <1>4, <1>5

\* Identifiers stay own through a write that is taken.
LEMMA TakeKeepsIds ==
    ASSUME IndInv, OwnIds, NEW q \in sent, Take(q)
    PROVE  OwnIds'
<1>1. sent' = sent \ {q} /\ q.kind \in {"create", "patch", "delete"}
  BY Fields DEF Take, IndInv
<1>2. \A o \in sent' : o \in sent /\ (o.kind = "create" => o.id = o.tag)
  BY <1>1 DEF OwnIds
<1>3. users' = (users \ Addressed(q)) \cup Replacement(q) /\ Addressed(q) \subseteq users
  BY TakesOne DEF Addressed
<1>4. CASE q.kind = "create"
  <2>1. /\ Addressed(q) = {} /\ \A x, y \in Replacement(q) : x = y
        /\ \A x \in Replacement(q) : x.id = q.id
    BY <1>4, TakesOne DEF Replacement
  <2>2. \A u \in users : u.id # q.id
    BY <1>4 DEF OwnIds
  <2>3. \A u, v \in users' : u.id = v.id => u = v
    BY <1>3, <2>1, <2>2 DEF OwnIds
  <2>4. \A o \in sent' : o.kind = "create" => o.id # q.id
    BY <1>1, <1>2, <1>4 DEF IndInv, Versions, OwnIds
  <2>5. \A o \in sent', u \in users' : o.kind = "create" => u.id # o.id
    BY <1>2, <1>3, <2>1, <2>4 DEF OwnIds
  <2> QED
    BY <1>2, <2>3, <2>5 DEF OwnIds
<1>5. CASE q.kind = "patch"
  <2>1. PICK u : u \in Addressed(q)
    BY <1>5 DEF Take, Acceptable
  <2>2. PICK x \in Replacement(q) : Replacement(q) = {x} /\ x.id = u.id
    BY <1>5, <2>1, TakesOne
  <2>3. users' = (users \ {u}) \cup {x} /\ u \in users
    BY <1>3, <2>1, <2>2, TakesOne
  <2>4. \A v, w \in users' : v.id = w.id => v = w
    BY <2>2, <2>3 DEF OwnIds
  <2>5. \A o \in sent', v \in users' : o.kind = "create" => v.id # o.id
    BY <1>2, <2>2, <2>3 DEF OwnIds
  <2> QED
    BY <1>2, <2>4, <2>5 DEF OwnIds
<1>6. CASE q.kind = "delete"
  <2>1. users' \subseteq users
    BY <1>3, <1>6, TakesOne
  <2> QED
    BY <1>2, <2>1 DEF OwnIds
<1> QED
  BY <1>1, <1>4, <1>5, <1>6

\* Every step keeps identifiers own.
LEMMA KeepsIds == IndInv /\ OwnIds /\ [Next]_vars => OwnIds'
<1> SUFFICES ASSUME IndInv, OwnIds, [Next]_vars PROVE OwnIds'
  OBVIOUS
<1>1. ASSUME users' = users, sent' \subseteq sent PROVE OwnIds'
  BY <1>1, FewerWrites
<1>2. ASSUME NEW r \in Runs, RunStep(r) PROVE OwnIds'
  <2>1. CASE Apply(r)
    <3>1. /\ pc[r] = "apply" /\ ~Ambiguous /\ TokenLeft /\ users' = users
          /\ sent' = sent \cup Write(r, Desired(r))
      BY <2>1 DEF Apply
    <3>2. \A u \in users : NewToken # u.id
      BY <3>1, FreshToken
    <3>3. ASSUME NEW w \in Write(r, Desired(r)), w.kind = "create"
          PROVE  w.id = NewToken /\ w.tag = NewToken
      <4>1. w = Create(r, Desired(r))
        BY <3>3 DEF Write, Request, Deprovision
      <4> QED
        BY <4>1 DEF Create
    <3> HIDE DEF NewToken
    <3> QED
      BY <3>1, <3>2, <3>3 DEF OwnIds
  <2>2. CASE GiveUp(r)
    <3>1. users' = users /\ sent' = Disowned(r)
      BY <2>2 DEF GiveUp
    <3>2. ASSUME NEW d \in sent'
          PROVE  \E q \in sent : d.kind = q.kind /\ d.id = q.id /\ d.tag = q.tag
      <4>1. PICK q \in sent : d = [q EXCEPT !.run = @ \ {r}]
        BY <3>1 DEF Disowned
      <4>2. q \in RequestType
        BY DEF IndInv, TypeOK
      <4> QED
        BY <4>1, <4>2, DisownedFields
    <3> QED
      BY <3>1, <3>2, FewerWrites
  <2>3. CASE ~Apply(r) /\ ~GiveUp(r)
    <3>1. users' = users /\ sent' = sent
      BY <1>2, <2>3 DEF RunStep, Start, StartPreview, Refuse, Preview, Observe, Compared,
                        Finish, LookupFails, LoseConnection, vars
    <3> QED
      BY <1>1, <3>1
  <2> QED
    BY <2>1, <2>2, <2>3
<1>3. ASSUME NEW q \in sent, Reject(q) PROVE OwnIds'
  BY <1>1, <1>3 DEF Reject
<1>4. CASE OtherClient
  <2>1. sent' = sent /\ TokenLeft
    BY <1>4 DEF OtherClient
  <2>2. /\ \A u \in users : NewToken # u.id
        /\ \A q \in sent : q.kind = "create" => NewToken # q.id
    BY <2>1, FreshToken DEF OwnIds
  <2>3. \A t, v, a, m : Resource(t, v, a, m).id = t
    BY DEF Resource
  <2> HIDE DEF NewToken
  <2>4. ASSUME NEW w \in OtherWrites,
               users' = users \cup {Resource(NewToken, NewToken, w.active, w.attributes)}
        PROVE  OwnIds'
    <3> DEFINE x == Resource(NewToken, NewToken, w.active, w.attributes)
    <3>1. users' = users \cup {x} /\ x.id = NewToken
      BY <2>3, <2>4
    <3> HIDE DEF x
    <3> QED
      BY <2>1, <2>2, <3>1 DEF OwnIds
  <2>5. ASSUME NEW u \in users, NEW w \in OtherWrites,
               users' = (users \ {u}) \cup {Resource(u.id, NewToken, w.active, w.attributes)}
        PROVE  OwnIds'
    <3> DEFINE x == Resource(u.id, NewToken, w.active, w.attributes)
    <3>1. users' = (users \ {u}) \cup {x} /\ x.id = u.id
      BY <2>3, <2>5
    <3> HIDE DEF x
    <3> QED
      BY <2>1, <3>1 DEF OwnIds
  <2>6. ASSUME NEW u \in users, users' = users \ {u} PROVE OwnIds'
    BY <2>1, <2>6 DEF OwnIds
  <2> QED
    BY <1>4, <2>4, <2>5, <2>6, Zenon DEF OtherClient
<1>5. CASE \E p \in Projections : Persist(p)
  BY <1>1, <1>5 DEF Persist
<1>6. CASE UNCHANGED vars
  BY <1>1, <1>6 DEF vars
<1> QED
  BY <1>2, <1>3, <1>4, <1>5, <1>6, TakeKeepsIds DEF Next

\* On every provider a write of the command changes one resource, in one step, to
\* all that one persisted projection says, leaves unmanaged attributes alone, and
\* removes a resource only for an absence in delete mode.
THEOREM OneProjectionAtATime == Spec => WritesOneProjection
<1> DEFINE p == Wanted(config, rows[shown'])
           old == users \ users'
           new == users' \ users
           A == users' # users /\ shown' # 0 =>
                  /\ \A u, v \in old : u = v
                  /\ \A x \in new : T!Shows(p, {Account(config, x)})
                  /\ p.exists \/ DeprovisionMode(config) = "disable" =>
                        \A u \in old : \E x \in new : x.id = u.id /\ KeepsUnmanaged(u, x)
<1>1. ASSUME IndInv, OwnIds, Next, users' # users, shown' # 0
      PROVE  A
  <2>1. PICK q \in sent : Take(q)
    BY <1>1 DEF Next, RunStep, Persist, Start, StartPreview, Refuse, Preview, Observe,
                Compared, Apply, Finish, LookupFails, GiveUp, LoseConnection, Reject,
                OtherClient, vars
  <2>2. /\ shown' = q.n /\ q.kind \in {"create", "patch", "delete"}
        /\ config \in Configs /\ rows[q.n] \in Projections /\ New(config)
        /\ Says(config, rows[q.n], q) /\ q.attributes \in FoldedMaps
    BY <1>1, <2>1, Fields DEF Take, IndInv, TypeOK, Checked, Contents
  <2>3. /\ users' = (users \ Addressed(q)) \cup Replacement(q)
        /\ \A u, v \in Addressed(q) : u = v
    BY <1>1, <2>1, TakesOne
  <2>4. old \subseteq Addressed(q) /\ new \subseteq Replacement(q)
    BY <2>3
  <2>5. \A u, v \in old : u = v
    BY <2>3, <2>4
  <2>6. \A x \in new : T!Shows(p, {Account(config, x)})
    BY <1>1, <2>2, <2>4, ShowsProjection
  <2>7. ASSUME p.exists \/ DeprovisionMode(config) = "disable", NEW u \in old
        PROVE  \E x \in new : x.id = u.id /\ KeepsUnmanaged(u, x)
    <3>1. p.exists = rows[q.n].exists
      BY <2>2 DEF Wanted
    <3>2. q.kind = "patch"
      BY <1>1, <2>1, <2>2, <2>4, <2>7, <3>1, TakesOne DEF Says
    <3>3. PICK x \in Replacement(q) :
             /\ Replacement(q) = {x} /\ x.id = u.id
             /\ x.attributes = Overlay(u.attributes, q.attributes)
      BY <1>1, <2>1, <2>4, <3>2, TakesOne
    <3>4. u \in users /\ u.attributes \in FoldedMaps /\ u \notin users'
      BY <1>1, Fields DEF IndInv
    <3>5. Addressed(q) = {u}
      BY <2>3, <2>4
    <3>6. x # u /\ x \in users'
      BY <2>3, <3>3, <3>4
    <3>7. x \in new
      BY <1>1, <3>3, <3>4, <3>6 DEF OwnIds
    <3>8. DOMAIN q.attributes \subseteq Managed(config)
      BY <2>2, <3>2, DesiredValues, NoMap DEF Says
    <3>9. KeepsUnmanaged(u, x)
      <4> DEFINE m == Overlay(u.attributes, q.attributes)
      <4>1. /\ DOMAIN m = DOMAIN u.attributes \cup DOMAIN q.attributes
            /\ \A k \in DOMAIN u.attributes \ DOMAIN q.attributes :
                  m[k] = u.attributes[k]
        BY <2>2, <3>4, OverlayMaps
      <4>2. x.attributes = m
        BY <3>3
      <4> HIDE DEF m
      <4>3. ASSUME NEW k \in DOMAIN u.attributes, k \notin Managed(config)
            PROVE  k \in DOMAIN x.attributes /\ x.attributes[k] = u.attributes[k]
        BY <3>8, <4>1, <4>2, <4>3
      <4> QED
        BY <4>3 DEF KeepsUnmanaged
    <3> QED
      BY <3>3, <3>7, <3>9
  <2> QED
    BY <2>5, <2>6, <2>7
<1>2. IndInv /\ OwnIds /\ [Next]_vars => [A]_vars
  BY <1>1
<1> HIDE DEF A
<1>3. Init => OwnIds
  <2> SUFFICES ASSUME Init PROVE OwnIds
    OBVIOUS
  <2>1. sent = {} /\ \A u, v \in users : u = v
    BY DEF Init
  <2> QED
    BY <2>1 DEF OwnIds
<1>4. Spec => [][A]_vars
  BY <1>2, <1>3, KeepsIds, Invariance, PTL DEF Spec
<1> QED
  BY <1>4 DEF WritesOneProjection, A
=============================================================================
