----------------------------- MODULE Convergence -----------------------------
(***************************************************************************)
(* cmd/converge for one subject: the persisted projection under its row    *)
(* lock (WithLockedProjection), Converge (pkg/reconcile/resolve.go) and    *)
(* the SCIM adapter's Observe and Apply, against a directory that other    *)
(* clients use too.                                                        *)
(*                                                                         *)
(* A lookup is one step. A write is two: it is sent, and the directory     *)
(* takes or rejects it later, perhaps after its sender has given up. What  *)
(* can go wrong, MaxFaults times: a lookup or a write fails, an answer is  *)
(* lost, a deadline expires or a process dies, and the database ends the   *)
(* transaction while the callback runs.                                    *)
(*                                                                         *)
(* The directory is external. A resource version is a token that no other  *)
(* state of a resource has; tokens that nothing refers to are used again.  *)
(***************************************************************************)
EXTENDS ScimAdapter, FiniteSets

CONSTANTS
    Runs,         \* concurrent invocations of the command, run again and again
    Configs,      \* the flags of the commands
    Projections,  \* the projections that are persisted
    OtherWrites,  \* [active, attributes] that other clients write
    Tokens,       \* resource identifiers, versions and request tags
    Versioned,    \* the provider reports resource versions and enforces If-Match
    Unique,       \* the provider refuses a second resource with a binding
    MaxRows,      \* bound on the versions of the row
    MaxFaults,    \* bound on the faults
    MaxOthers     \* bound on the writes of other clients

DesiredState ==
    [exists : BOOLEAN, enabled : BOOLEAN,
     attributes : UNION {[D -> Texts] : D \in SUBSET Names}]

FoldedMaps == UNION {[D -> Values] : D \in SUBSET Names}

ASSUME ConvergenceAssumption ==
    /\ Configs \subseteq ConfigType
    /\ Projections \subseteq DesiredState
    /\ OtherWrites \subseteq [active : SUBSET BOOLEAN, attributes : FoldedMaps]
    /\ \A c \in Configs, w \in OtherWrites : Bound(c, w)
    /\ Tokens # {}
    /\ Versioned \in BOOLEAN /\ Unique \in BOOLEAN
    /\ MaxRows \in Nat /\ MaxFaults \in Nat /\ MaxOthers \in Nat

VARIABLES
    config,     \* the flags, the same for all runs
    rows,       \* the versions of the row; the last one is in canonical_state
    lock,       \* the run whose transaction holds the row lock, as a set
    pc,         \* where each run is
    want,       \* the version of the row a run was given, 0 for none
    users,      \* the directory's resources
    sent,       \* writes on their way to the directory
    faults,     \* how many faults there were
    others,     \* how many writes of other clients there were
    shown,      \* history: the version written last, 0 after another client
    astray,     \* history: the versions whose run lost its lock
    disturbed   \* history: the runs that did not see the last write

vars == <<config, rows, lock, pc, want, users, sent, faults, others,
          shown, astray, disturbed>>

-----------------------------------------------------------------------------
ResourceType ==
    [id : Tokens, version : SUBSET Tokens, active : SUBSET BOOLEAN,
     attributes : FoldedMaps]

Resource(id, version, active, attributes) ==
    [id |-> id, version |-> IF Versioned THEN {version} ELSE {},
     active |-> active, attributes |-> attributes]

InUse ==
    (UNION {{u.id} \cup u.version : u \in users})
    \cup (UNION {{q.tag, q.id} \cup q.if_match : q \in sent})

TokenLeft == \E t \in Tokens : t \notin InUse
NewToken == CHOOSE t \in Tokens : t \notin InUse

\* The resources the filter of find matches; totalResults above one is an error.
Found == {u \in users : Bound(config, u)}
Ambiguous == \E u, v \in Found : u # v

Desired(r) == rows[want[r]]

\* The check of the command against -managed-attributes, exact in case
Allowed(c, p) ==
    DOMAIN p.attributes \subseteq
        {c.managed_attributes[i] : i \in DOMAIN c.managed_attributes}

\* The command gets past its checks.
Startable == New(config) /\ rows # <<>> /\ Allowed(config, rows[Len(rows)])

Equivalent(p) == AdapterEquivalent(config, Observed(config, Found), p)

Init ==
    /\ config \in Configs
    /\ rows = <<>> /\ lock = {}
    /\ pc = [r \in Runs |-> "idle"]
    /\ want = [r \in Runs |-> 0]
    /\ users \in {{}} \cup
          {{Resource(t, t, w.active, w.attributes)} :
              t \in {CHOOSE t \in Tokens : TRUE}, w \in OtherWrites}
    /\ sent = {}
    /\ faults = 0 /\ others = 0
    /\ shown = 0 /\ astray = {} /\ disturbed = {}

\* CompareAndSetProjection by another process, which waits for the row lock
Persist(p) ==
    /\ lock = {} /\ Len(rows) < MaxRows
    /\ rows' = Append(rows, p)
    /\ UNCHANGED <<config, lock, pc, want, users, sent, faults, others,
                   shown, astray, disturbed>>

-----------------------------------------------------------------------------
(* The command                                                             *)

\* Mutant of Start: the row is read without FOR UPDATE.
StartUnlocked(r) ==
    /\ pc[r] = "idle"
    /\ Startable
    /\ want' = [want EXCEPT ![r] = Len(rows)]
    /\ pc' = [pc EXCEPT ![r] = "observe"]
    /\ UNCHANGED <<config, rows, lock, users, sent, faults, others, shown,
                   astray, disturbed>>

\* run with -apply up to Converge: the row is locked and read.
Start(r) ==
    /\ pc[r] = "idle"
    /\ Startable
    /\ lock = {}
    /\ lock' = {r}
    /\ want' = [want EXCEPT ![r] = Len(rows)]
    /\ pc' = [pc EXCEPT ![r] = "observe"]
    /\ UNCHANGED <<config, rows, users, sent, faults, others, shown, astray,
                   disturbed>>

\* run without -apply reads the row and takes no lock.
StartPreview(r) ==
    /\ pc[r] = "idle"
    /\ Startable
    /\ want' = [want EXCEPT ![r] = Len(rows)]
    /\ pc' = [pc EXCEPT ![r] = "preview"]
    /\ UNCHANGED <<config, rows, lock, users, sent, faults, others, shown,
                   astray, disturbed>>

\* run returns an error before it talks to the target: a bad configuration, no
\* row, or an attribute that is not on the list.
Refuse(r) ==
    /\ pc[r] = "idle" /\ ~Startable
    /\ UNCHANGED vars

\* Mutant of End: the transaction is left open.
EndLeaking(r) ==
    /\ pc' = [pc EXCEPT ![r] = "idle"]
    /\ want' = [want EXCEPT ![r] = 0]
    /\ lock' = lock
    /\ disturbed' = disturbed \ {r}

\* The callback returned, or its process is gone: the transaction ends.
End(r) ==
    /\ pc' = [pc EXCEPT ![r] = "idle"]
    /\ want' = [want EXCEPT ![r] = 0]
    /\ lock' = lock \ {r}
    /\ disturbed' = disturbed \ {r}

\* The writes of r have nobody who waits for them any more.
Disowned(r) == {[q EXCEPT !.run = @ \ {r}] : q \in sent}

\* Converge or a preview: Observe and the comparison
Compared(r, otherwise) ==
    /\ ~Ambiguous
    /\ pc' = [pc EXCEPT ![r] = IF Equivalent(Desired(r)) THEN "unchanged" ELSE otherwise]
    /\ disturbed' = disturbed \ {r}
    /\ UNCHANGED <<config, rows, lock, want, users, sent, faults, others, shown, astray>>

Preview(r) == pc[r] = "preview" /\ Compared(r, "would_update")

Observe(r) == pc[r] = "observe" /\ Compared(r, "apply")

\* What a write carries; read is history, the resource the lookup returned.
Request(r, kind, u, active, attributes) ==
    [kind |-> kind, run |-> {r}, n |-> want[r], tag |-> NewToken, id |-> u.id,
     if_match |-> u.version, active |-> active, attributes |-> attributes,
     read |-> {u}]

\* create. The provider will name the resource after the tag.
Create(r, p) ==
    [kind |-> "create", run |-> {r}, n |-> want[r], tag |-> NewToken,
     id |-> NewToken, if_match |-> {}, active |-> p.enabled,
     attributes |-> CreateAttributes(config, p.attributes), read |-> {}]

\* Mutant of Deprovision: the mode is not looked at.
DeprovisionDeleting(r, u) == Request(r, "delete", u, FALSE, NoAttributes)

\* Apply of a desired absence
Deprovision(r, u) ==
    IF DeprovisionMode(config) = "delete"
    THEN Request(r, "delete", u, FALSE, NoAttributes)
    ELSE Request(r, "patch", u, FALSE, NoAttributes)

\* Mutant of Write: the version is not sent.
WriteUnconditional(r, p) ==
    IF p.exists
    THEN IF Found = {} THEN {Create(r, p)}
         ELSE {[Request(r, "patch", u, p.enabled,
                        ManagedDesiredValues(config, p.attributes))
                EXCEPT !.if_match = {}] : u \in Found}
    ELSE {[Deprovision(r, u) EXCEPT !.if_match = {}] : u \in Found}

\* The write Apply sends after its lookup, none or one
Write(r, p) ==
    IF p.exists
    THEN IF Found = {} THEN {Create(r, p)}
         ELSE {Request(r, "patch", u, p.enabled,
                       ManagedDesiredValues(config, p.attributes)) : u \in Found}
    ELSE {Deprovision(r, u) : u \in Found}

\* Apply: a second lookup, and the write it leads to. Nothing to deprovision is
\* a success without a write.
Apply(r) ==
    /\ pc[r] = "apply" /\ ~Ambiguous
    /\ TokenLeft
    /\ sent' = sent \cup Write(r, Desired(r))
    /\ pc' = [pc EXCEPT ![r] = IF Write(r, Desired(r)) = {} THEN "updated" ELSE "waiting"]
    /\ disturbed' = disturbed \ {r}
    /\ UNCHANGED <<config, rows, lock, want, users, faults, others, shown,
                   astray>>

\* WithLockedProjection commits, and run reports; without its transaction the
\* commit fails and run reports that.
Finish(r) ==
    /\ pc[r] \in {"unchanged", "updated", "would_update"}
    /\ End(r)
    /\ UNCHANGED <<config, rows, users, sent, faults, others, shown, astray>>

-----------------------------------------------------------------------------
(* Faults                                                                  *)

Fault == faults < MaxFaults /\ faults' = faults + 1

\* find returns an error: two resources match, or the request or its answer is
\* bad.
LookupFails(r) ==
    /\ pc[r] \in {"preview", "observe", "apply"}
    /\ (Ambiguous /\ UNCHANGED faults) \/ Fault
    /\ End(r)
    /\ UNCHANGED <<config, rows, users, sent, others, shown, astray>>

\* The deadline of the command or of the HTTP client expires, or the process
\* dies. A run whose answer was lost has no other way on.
GiveUp(r) ==
    /\ pc[r] # "idle"
    /\ \/ pc[r] = "waiting" /\ (\A q \in sent : r \notin q.run) /\ UNCHANGED faults
       \/ Fault
    /\ End(r)
    /\ sent' = Disowned(r)
    /\ UNCHANGED <<config, rows, users, others, shown, astray>>

\* The database ends the transaction and its lock; the callback does not notice.
LoseConnection(r) ==
    /\ lock = {r}
    /\ lock' = {}
    /\ astray' = astray \cup {want[r]}
    /\ Fault
    /\ UNCHANGED <<config, rows, pc, want, users, sent, others, shown,
                   disturbed>>

-----------------------------------------------------------------------------
(* The directory                                                           *)

\* The runs that have looked at the directory
Looked == {r \in Runs : pc[r] \notin {"idle", "preview", "observe"}}

Addressed(q) ==
    {u \in users : u.id = q.id /\ (q.if_match = {} \/ q.if_match = u.version)}

\* 409 for a create, 404 and 412 for the others
Acceptable(q) ==
    IF q.kind = "create" THEN ~Unique \/ Found = {} ELSE Addressed(q) # {}

\* What the resources become. A replace operation sets one attribute.
Written(q) ==
    (users \ Addressed(q)) \cup
    CASE q.kind = "create" -> {Resource(q.tag, q.tag, {q.active}, q.attributes)}
      [] q.kind = "patch" ->
            {Resource(u.id, q.tag, {q.active}, Overlay(u.attributes, q.attributes)) :
                u \in Addressed(q)}
      [] q.kind = "delete" -> {}

\* The directory takes a write. Its sender, if one waits, hears of it, or not.
Take(q) ==
    /\ Acceptable(q)
    /\ users' = Written(q)
    /\ sent' = sent \ {q}
    /\ shown' = q.n
    /\ disturbed' = disturbed \cup (Looked \ q.run)
    /\ \/ /\ pc' = [r \in Runs |-> IF r \in q.run THEN "updated" ELSE pc[r]]
          /\ UNCHANGED faults
       \/ q.run # {} /\ Fault /\ UNCHANGED pc
    /\ UNCHANGED <<config, rows, lock, want, others, astray>>

\* The directory refuses a write, or the write gets lost; its sender fails.
Reject(q) ==
    /\ (~Acceptable(q) /\ UNCHANGED faults) \/ Fault
    /\ sent' = sent \ {q}
    /\ \/ q.run = {} /\ UNCHANGED <<pc, want, lock, disturbed>>
       \/ \E r \in q.run : End(r)
    /\ UNCHANGED <<config, rows, users, others, shown, astray>>

\* Another client creates, changes or deletes a resource of the subject.
OtherClient ==
    /\ others < MaxOthers /\ others' = others + 1
    /\ TokenLeft
    /\ \/ \E w \in OtherWrites :
             /\ ~Unique \/ Found = {}
             /\ users' = users \cup {Resource(NewToken, NewToken, w.active, w.attributes)}
       \/ \E u \in users, w \in OtherWrites :
             users' = (users \ {u}) \cup {Resource(u.id, NewToken, w.active, w.attributes)}
       \/ \E u \in users : users' = users \ {u}
    /\ shown' = 0
    /\ disturbed' = Looked
    /\ UNCHANGED <<config, rows, lock, pc, want, sent, faults, astray>>

RunStep(r) ==
    \/ Start(r) \/ StartPreview(r) \/ Refuse(r)
    \/ Preview(r) \/ Observe(r) \/ Apply(r) \/ Finish(r)
    \/ LookupFails(r) \/ GiveUp(r) \/ LoseConnection(r)

Next ==
    \/ \E p \in Projections : Persist(p)
    \/ \E r \in Runs : RunStep(r)
    \/ \E q \in sent : Take(q) \/ Reject(q)
    \/ OtherClient

\* A started run goes on to its end, since everything it waits for has a deadline;
\* a write that was sent is taken or refused at some time; and somebody keeps
\* running the command, which is how the documentation says to recover. No fault
\* has to happen.
Fairness ==
    /\ \A r \in Runs : /\ WF_vars(Preview(r)) /\ WF_vars(Observe(r))
                       /\ WF_vars(Apply(r)) /\ WF_vars(Finish(r))
                       /\ WF_vars((LookupFails(r) \/ GiveUp(r)) /\ faults' = faults)
    /\ \A t \in Tokens :
          WF_vars(\E q \in sent : /\ q.tag = t
                                  /\ Take(q) \/ Reject(q)
                                  /\ faults' = faults)
    /\ SF_vars(\E r \in Runs : Start(r))

Spec == Init /\ [][Next]_vars /\ Fairness

-----------------------------------------------------------------------------
(* Properties                                                              *)

RequestType ==
    [kind : {"create", "patch", "delete"}, run : SUBSET Runs, n : Nat, tag : Tokens,
     id : Tokens, if_match : SUBSET Tokens, active : BOOLEAN,
     attributes : FoldedMaps, read : SUBSET ResourceType]

\* A run that works has a version of the row, and a write that is on its way
\* carries one; the lock is held by a run that works.
TypeOK ==
    /\ config \in Configs
    /\ rows \in Seq(Projections)
    /\ lock \subseteq Runs
    /\ pc \in [Runs -> {"idle", "preview", "observe", "apply", "waiting",
                        "unchanged", "updated", "would_update"}]
    /\ want \in [Runs -> 0 .. Len(rows)]
    /\ \A r \in Runs : pc[r] = "idle" <=> want[r] = 0
    /\ \A r \in lock : pc[r] # "idle"
    /\ users \subseteq ResourceType
    /\ sent \subseteq RequestType
    /\ \A q \in sent : q.n \in 1 .. Len(rows)
    /\ faults \in Nat /\ others \in Nat
    /\ shown \in 0 .. Len(rows)
    /\ astray \subseteq 1 .. Len(rows)
    /\ disturbed \subseteq Runs

\* New keeps the subject attribute out of the managed ones, "or a create or patch
\* can make the resource unreachable by SubjectID": every resource of the subject
\* is found by the next lookup.
StaysBound == New(config) => \A u \in users : Bound(config, u)

\* Managed attributes of the account that p does not mention
Leftover(p) ==
    p.exists /\ \E u \in Found : ~(DOMAIN ManagedValues(config, u) \subseteq
                                      DOMAIN ManagedDesiredValues(config, p.attributes))

\* A run that is about to report success, and whose last lookup nobody has
\* overtaken, leaves an account that the next run will find equivalent. Only a
\* managed attribute the projection no longer mentions is in the way: patch never
\* removes one, and every later run writes again.
SuccessIsConverged ==
    \A r \in Runs \ disturbed :
        /\ pc[r] = "unchanged" => Equivalent(Desired(r))
        /\ pc[r] = "updated" => Equivalent(Desired(r)) \/ Leftover(Desired(r))

\* docs/adoption.md: "A provider that enforces resource versions rejects a concurrent
\* change with HTTP 412; the adapter returns the error without an unconditional
\* retry." So a write takes effect on the very resource that Apply's lookup returned,
\* however late it arrives.
OverwritesOnlyWhatItRead ==
    [][\A q \in sent \ sent' :
          users' # users => q.read \subseteq users]_vars

\* Without a unique binding there is at most one resource more for every fault and
\* every write of another client, those that create nothing included. It is a bound,
\* exact where neither has happened: the row lock then keeps the runs, which wait for
\* their answers, from creating an account twice.
DuplicatesHaveACause ==
    \A S \in SUBSET users : Cardinality(S) <= 1 + faults + others

\* Once projections and other clients are quiet, the account agrees with the row
\* for good, whatever was lost before; except that the command refuses to choose
\* between two resources.
Converges ==
    <>[](Ambiguous \/ (Startable => Equivalent(rows[Len(rows)])))

-----------------------------------------------------------------------------
(* The abstract specification                                              *)

\* A projection and an account as far as the adapter manages them
Wanted(c, p) ==
    [exists |-> p.exists, enabled |-> p.enabled,
     attributes |-> ManagedDesiredValues(c, p.attributes)]
Account(c, u) ==
    [enabled |-> ScimActive(u), attributes |-> ManagedValues(c, u)]

T == INSTANCE Target WITH
        rows <- [n \in DOMAIN rows |-> Wanted(config, rows[n])],
        accounts <- {Account(config, u) : u \in users},
        shown <- shown,
        astray <- astray

\* Attributes outside -managed-attributes are the same in both resources.
KeepsUnmanaged(u, x) ==
    \A k \in DOMAIN u.attributes \ Managed(config) :
        k \in DOMAIN x.attributes /\ x.attributes[k] = u.attributes[k]

\* What is left of Target on every provider, also one with several resources of the
\* subject and without versions. A write of the command, however late and whatever
\* it overtakes, changes one resource, and in one step to all that one persisted
\* projection says. It leaves unmanaged attributes alone, and only an absence in
\* delete mode removes a resource.
WritesOneProjection ==
    [][users' # users /\ shown' # 0 =>
          LET p == Wanted(config, rows[shown'])
              old == users \ users'
              new == users' \ users
          IN  /\ \A u, v \in old : u = v
              /\ \A x \in new : T!Shows(p, {Account(config, x)})
              /\ p.exists \/ DeprovisionMode(config) = "disable" =>
                    \A u \in old : \E x \in new : x.id = u.id /\ KeepsUnmanaged(u, x)]_vars

\* With a provider that enforces versions and unique bindings, lookups, writes on
\* their way, retries and crashes amount to atomic steps of the account that never
\* go back to an older projection, but for the two exceptions Target names.
ImplementsTarget == T!Spec

=============================================================================
