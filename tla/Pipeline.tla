------------------------------- MODULE Pipeline -------------------------------
(***************************************************************************)
(* Resolution and the projection table together. Events of one subject     *)
(* arrive one by one, in any order; a caller loads the row, resolves all   *)
(* the events that have arrived and compares-and-sets the projection, and  *)
(* reloads and re-evaluates as docs/specification.md asks of callers; or   *)
(* it locks the row while it converges a target. The caller is not in this *)
(* repository: it is the composition of its calls, which are the actions   *)
(* of ProjectionStore and the resolution of Projection.                    *)
(*                                                                         *)
(* An event is its canonical fact, already judged by the policy.           *)
(***************************************************************************)
EXTENDS ProjectionStore, Projection

CONSTANT Facts  \* the canonical facts that arrive, of one subject

VARIABLES
    arrived,    \* the facts that have arrived
    resolving,  \* the facts a caller has resolved
    reflected   \* history: the facts the row was resolved from

pipelineVars == <<arrived, resolving, reflected, vars>>

-----------------------------------------------------------------------------
\* The freshest revision of every logical fact (the groups of ResolveBatch)
Winners(S) ==
    {f \in S : \A g \in S :
        g.fact_key = f.fact_key => Compare(g.freshness, f.freshness) <= 0}

\* The projection loop: the fact that sorts last is applied last.
Projected[S \in SUBSET Facts] ==
    IF S = {} THEN NewProjection
    ELSE LET f == CHOOSE f \in S : LastOf(f, S)
         IN  ApplyFact(Projected[S \ {f}], f)

\* The projection ResolveBatch returns for the subject of a set of facts
Resolved(S) == Projected[Winners(S)]

\* The columns of canonical_state a projection is written to. The tuple's time is
\* rounded by Row.
Stored(p) ==
    [subject_id |-> p.subject_id,
     body |-> [exists_flag |-> p.exists, enabled |-> p.enabled,
               lifecycle_state |-> p.lifecycle_state, attributes |-> p.attributes,
               source_fact_key |-> p.source_fact_key,
               source_event_key |-> p.source_event_key,
               effective_time |-> Micros[p.effective_time]],
     freshness |-> p.freshness]

\* Canonicalize gives a fact its tuple, whose last field is the event key, and a
\* fact key that tells its effective time; ResolveBatch keeps one event of every
\* key.
ASSUME PipelineAssumption ==
    /\ IsFiniteSet(Facts)
    /\ \A f \in Facts : /\ f.freshness \in FreshnessTuple
                        /\ f.freshness.physical_event_key = f.event_key
                        /\ f.effective_time \in Instants
    /\ \A f, g \in Facts : /\ f.subject_id = g.subject_id
                           /\ f.event_key = g.event_key => f = g
                           /\ f.fact_key = g.fact_key =>
                                 f.effective_time = g.effective_time
    /\ \A S \in SUBSET Facts : S # {} => Stored(Resolved(S)) \in Projections

PipelineInit ==
    /\ Init
    /\ arrived = {} /\ reflected = {}
    /\ resolving = [c \in Callers |-> {}]

Arrive(f) ==
    /\ f \notin arrived
    /\ arrived' = arrived \cup {f}
    /\ UNCHANGED <<resolving, reflected, vars>>

\* LoadProjection and then ResolveBatch over everything that has arrived
Resolve(c) ==
    /\ arrived # {}
    /\ Load(c, Stored(Resolved(arrived)))
    /\ resolving' = [resolving EXCEPT ![c] = arrived]
    /\ UNCHANGED <<arrived, reflected>>

\* Facts may arrive between the two: ResolveBatch runs on what is there by then.
ResolveLater(c) ==
    /\ Recompute(c, Stored(Resolved(arrived)))
    /\ resolving' = [resolving EXCEPT ![c] = arrived]
    /\ UNCHANGED <<arrived, reflected>>

Set(c) ==
    /\ CompareAndSet(c)
    /\ reflected' = IF canonical_state' = canonical_state THEN reflected
                    ELSE resolving[c]
    /\ resolving' = [resolving EXCEPT ![c] = {}]
    /\ UNCHANGED arrived

Stop(c) ==
    /\ Abandon(c)
    /\ resolving' = [resolving EXCEPT ![c] = {}]
    /\ UNCHANGED <<arrived, reflected>>

\* WithLockedProjection
Locked(c) ==
    /\ \/ \E s \in Subjects : Lock(c, s)
       \/ Unlock(c) \/ LoseConnection(c) \/ EndOrphan(c)
    /\ UNCHANGED <<arrived, resolving, reflected>>

PipelineNext ==
    \/ \E f \in Facts : Arrive(f)
    \/ \E c \in Callers : \/ Resolve(c) \/ ResolveLater(c) \/ Set(c) \/ Stop(c)
                         \/ Locked(c)

\* What Resolve(c), and no other step, does to pc
Reloads(c) ==
    /\ arrived # {} /\ pc[c] = "idle"
    /\ pc' = [pc EXCEPT ![c] = "writing"]

\* Callers reload and re-evaluate, whatever else they do; callbacks end and
\* statements are executed, as in ProjectionStore.
PipelineSpec ==
    /\ PipelineInit /\ [][PipelineNext]_pipelineVars
    /\ Fairness /\ \A c \in Callers : SF_pc(Reloads(c))

-----------------------------------------------------------------------------
(* Properties                                                              *)

\* The row is never a mixture: it is what one set of facts that had arrived
\* together says, the freshest revisions applied as Describes has it, in
\* whatever order the facts arrived and the callers raced.
RowSaysWhatFactsSay ==
    \A row \in canonical_state :
        LET p == Resolved(reflected)
        IN  /\ reflected \subseteq arrived
            /\ IsProjectionOf(p, Winners(reflected))
            /\ row = Row(Stored(p), row.row_version)

\* A write forgets a fact that the row was resolved from only in one case: the
\* caller found no row and meets one of version zero, which CompareAndSetProjection
\* cannot tell apart, and a fact it did resolve is fresher than a forgotten one
\* although it takes effect earlier. Without such a retroactive fact, and to a
\* caller that had loaded a row, nothing is lost.
ForgetsOnlyAtBootstrap ==
    [][\/ reflected \subseteq reflected'
       \/ \E c \in Callers :
             /\ Set(c) /\ seen[c] = {}
             /\ \A row \in canonical_state : row.row_version = 0
             /\ \E f \in reflected', g \in reflected \ reflected' :
                   /\ AppliedBefore(f, g)
                   /\ StoredOlder(TupleColumns(g.freshness), TupleColumns(f.freshness))
      ]_pipelineVars

\* README.md: "The required result is an inactive account. The late profile update
\* must not undo the termination." Once the row reflects a termination that takes
\* effect after everything else that has arrived, it stays inactive.
TerminationStands ==
    [][\A t \in reflected :
          /\ t.event_type = "termination"
          /\ \A f \in arrived \ {t} : f.effective_time < t.effective_time
          => \A row \in canonical_state' : ~row.body.enabled]_pipelineVars

\* The row is not older than what all facts that have arrived resolve to.
CaughtUp ==
    \E row \in canonical_state :
        ~StoredOlder(row.freshness, TupleColumns(Resolved(arrived).freshness))

\* The row is as fresh as what all facts that have arrived resolve to.
Settled ==
    \E row \in canonical_state : row.freshness = TupleColumns(Resolved(arrived).freshness)

\* Of the facts that have arrived, the last to take effect is also the freshest.
FreshestLast ==
    \A f \in arrived : Compare(f.freshness, Resolved(arrived).freshness) <= 0

\* The statement of a caller does not wait for a row lock.
MayWrite(c) ==
    pc[c] = "writing" /\ \A p \in want[c] : holder[p.subject_id] = {}

\* In whatever order facts arrived and callers raced, the row ends no older than
\* what all of them resolve to; and it ends as the last fact has it, if that fact
\* is the freshest. (If not, the compare-and-set may refuse it for good.) It takes
\* one caller that does not always give up just when the row is locked.
LastFactPersists ==
    (\E c \in Callers : []<>MayWrite(c)) =>
        <>[](arrived # {} => CaughtUp /\ (FreshestLast => Settled))

\* docs/specification.md: "A zero-row result means that another writer advanced
\* the row or the incoming fact is stale." A caller that was refused, although the
\* row is the one it loaded, had resolved nothing the row does not reflect.
ZeroRowsMeansStale ==
    [][\A c \in Callers :
          (Set(c) /\ canonical_state' = canonical_state /\ seen[c] = canonical_state)
              => resolving[c] \subseteq reflected]_pipelineVars

-----------------------------------------------------------------------------
(* The inductive invariant of the proofs in PipelineProofs                 *)

Comparable(S, T) == S \subseteq T \/ T \subseteq S

\* Callers resolve what had arrived at some time, so of two sets that were
\* resolved, or that the row was resolved from, one contains the other.
Snapshots ==
    /\ arrived \subseteq Facts /\ reflected \subseteq arrived
    /\ resolving \in [Callers -> SUBSET arrived]
    /\ \A c, d \in Callers : Comparable(resolving[c], resolving[d])
    /\ \A c \in Callers : Comparable(resolving[c], reflected)

\* The row is the one a caller computed from the facts it reflects.
RowIsResolved ==
    /\ canonical_state = {} <=> reflected = {}
    /\ \A row \in canonical_state :
          row = Row(Stored(Resolved(reflected)), row.row_version)

\* A caller sets what it resolved, which includes what the row it loaded
\* reflects if that is still the row.
WritersResolved ==
    \A c \in Callers :
        pc[c] = "writing" =>
            /\ resolving[c] # {} /\ want[c] = {Stored(Resolved(resolving[c]))}
            /\ seen[c] # {} /\ seen[c] = canonical_state => reflected \subseteq resolving[c]

\* No caller of the pipeline removes a row.
NeverRemoved ==
    /\ \A s \in Subjects : era[s] = 0
    /\ \A c \in Callers : seenEra[c] = 0

PipelineInv == IndInv /\ Snapshots /\ RowIsResolved /\ WritersResolved /\ NeverRemoved
=============================================================================
