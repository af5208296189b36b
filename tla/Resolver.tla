------------------------------- MODULE Resolver -------------------------------
(***************************************************************************)
(* One call of ResolveBatch (pkg/reconcile/resolve.go): a batch of         *)
(* physical events, delivered in any order and possibly more than once, is *)
(* canonicalized, deduplicated, reduced to the freshest revision of every  *)
(* logical fact, judged by the policy and folded into one projection per   *)
(* subject. Each loop of the function is a phase; the loops whose result   *)
(* could depend on the order of the iteration take one element per step.   *)
(*                                                                         *)
(* The slices and maps of the function are sets here: the decision list is *)
(* sorted before it is returned, and the map of groups is ranged over in   *)
(* an order Go leaves open.                                                *)
(***************************************************************************)
EXTENDS Policy, Projection, Sequences, FiniteSets

CONSTANTS
    Events,    \* the physical events that occur
    Batches,   \* the batches callers pass
    Policies   \* the policies callers pass

ASSUME ResolverAssumption ==
    /\ Events \subseteq PhysicalEvent
    /\ Batches \subseteq Seq(Events)
    /\ Policies \subseteq PolicyType

VARIABLES
    batch,       \* the argument events
    policy,      \* the argument policy
    phase,       \* the loop the call is in, or how it returned
    next,        \* the index of the next event of the batch
    facts,       \* seenEventKeys and facts: the first delivery of each event key
    duplicates,  \* the indexes decided skip/duplicate_delivery
    todo,        \* the facts the current loop has still to visit
    winners,     \* the freshest revision seen so far of each fact key
    decisions,   \* the decisions about the members of facts
    projections  \* at most one projection per subject

vars == <<batch, policy, phase, next, facts, duplicates, todo, winners,
          decisions, projections>>

-----------------------------------------------------------------------------
Init ==
    /\ batch \in Batches
    /\ policy \in Policies
    /\ phase = "start"
    /\ next = 1
    /\ facts = {} /\ duplicates = {} /\ todo = {} /\ winners = {}
    /\ decisions = {} /\ projections = {}

\* An error return: BatchResult{} carries no decision and no projection.
Fail ==
    /\ phase' = "failed"
    /\ duplicates' = {} /\ decisions' = {} /\ projections' = {}
    /\ UNCHANGED <<batch, policy, facts, todo, winners>>

\* policy.Validate
Start ==
    /\ phase = "start"
    /\ IF Validate(policy)
       THEN /\ phase' = "ingest"
            /\ UNCHANGED <<batch, policy, facts, duplicates, todo, winners,
                           decisions, projections>>
       ELSE Fail
    /\ UNCHANGED next

Ingesting == phase = "ingest" /\ next <= Len(batch)

Fact(event) == Canonicalize(event, policy.now)

\* Canonicalize returns an error: the whole batch fails.
IngestInvalid ==
    /\ Ingesting
    /\ ~Canonical(batch[next])
    /\ Fail
    /\ next' = next + 1

\* The first delivery of an event key
IngestNew ==
    /\ Ingesting
    /\ Canonical(batch[next])
    /\ \A f \in facts : f.event_key # Fact(batch[next]).event_key
    /\ facts' = facts \cup {Fact(batch[next])}
    /\ next' = next + 1
    /\ UNCHANGED <<batch, policy, phase, duplicates, todo, winners, decisions,
                   projections>>

\* Mutant of SameEvent: the hashes are not compared.
SameFactKey(previous, fact) == previous.fact_key = fact.fact_key

\* Another delivery of an event key: a replay is recorded, a different event
\* under the same key fails the batch.
SameEvent(previous, fact) ==
    /\ previous.payload_hash = fact.payload_hash
    /\ previous.fact_key = fact.fact_key

IngestSeen ==
    /\ Ingesting
    /\ Canonical(batch[next])
    /\ \E previous \in facts :
          /\ previous.event_key = Fact(batch[next]).event_key
          /\ IF SameEvent(previous, Fact(batch[next]))
             THEN /\ duplicates' = duplicates \cup {next}
                  /\ UNCHANGED <<batch, policy, phase, facts, todo, winners,
                                 decisions, projections>>
             ELSE Fail
    /\ next' = next + 1

\* The loop over the events is over; the facts are grouped by fact key.
Group ==
    /\ phase = "ingest" /\ next > Len(batch)
    /\ phase' = "contend"
    /\ todo' = facts
    /\ UNCHANGED <<batch, policy, next, facts, duplicates, winners, decisions,
                   projections>>

\* Mutant of Contend: the last candidate wins, whatever its freshness.
ContendLast(f) ==
    /\ phase = "contend" /\ f \in todo
    /\ todo' = todo \ {f}
    /\ winners' = {w \in winners : w.fact_key # f.fact_key} \cup {f}
    /\ UNCHANGED <<batch, policy, phase, next, facts, duplicates, decisions,
                   projections>>

\* One candidate of its group. The code visits a group in delivery order; as
\* every order of a batch is a batch, any order is visited here.
Contend(f) ==
    /\ phase = "contend" /\ f \in todo
    /\ todo' = todo \ {f}
    /\ LET held == {w \in winners : w.fact_key = f.fact_key}
       IN  IF \A w \in held : Compare(f.freshness, w.freshness) > 0
           THEN winners' = (winners \ held) \cup {f}
           ELSE UNCHANGED winners
    /\ UNCHANGED <<batch, policy, phase, next, facts, duplicates, decisions,
                   projections>>

\* Mutant of Decision: the policy judges stale revisions too.
DecisionOfAny(f) ==
    [fact |-> f, action |-> Evaluate(policy, f)[1], reason |-> Evaluate(policy, f)[2]]

\* The decision about one fact: only the winner of its fact key reaches the
\* policy.
Decision(f) ==
    LET judged == IF \E w \in winners : w.fact_key = f.fact_key
                                        /\ w.event_key = f.event_key
                  THEN Evaluate(policy, f)
                  ELSE <<"skip", "duplicate_or_older">>
    IN  [fact |-> f, action |-> judged[1], reason |-> judged[2]]

\* The loop over the facts; the decisions to process now are collected. The
\* decisions are a set: the sort that follows leaves those of a fact and of its
\* repeated deliveries unordered, and sort.Slice is unstable, so their places in the
\* list are not fixed. What the list contains is modelled, that order is not.
Decide ==
    /\ phase = "contend" /\ todo = {}
    /\ phase' = "project"
    /\ decisions' = {Decision(f) : f \in facts}
    /\ todo' = {f \in facts : Decision(f).action = "process_now"}
    /\ UNCHANGED <<batch, policy, next, facts, duplicates, winners, projections>>

\* One iteration of the projection loop, over the sorted accepted facts.
\* sort.Slice is not stable: of facts it leaves unordered, any could be next.
Project(f) ==
    /\ phase = "project" /\ f \in todo
    /\ \A g \in todo \ {f} : ~AppliedBefore(g, f)
    /\ todo' = todo \ {f}
    /\ LET held == {p \in projections : p.subject_id = f.subject_id}
           base == IF held = {} THEN NewProjection ELSE CHOOSE p \in held : TRUE
       IN  projections' = (projections \ held) \cup {ApplyFact(base, f)}
    /\ UNCHANGED <<batch, policy, phase, next, facts, duplicates, winners,
                   decisions>>

Return ==
    /\ phase = "project" /\ todo = {}
    /\ phase' = "done"
    /\ UNCHANGED <<batch, policy, next, facts, duplicates, todo, winners,
                   decisions, projections>>

Next ==
    \/ Start
    \/ IngestInvalid \/ IngestNew \/ IngestSeen
    \/ Group
    \/ \E f \in todo : Contend(f)
    \/ Decide
    \/ \E f \in todo : Project(f)
    \/ Return

Spec == Init /\ [][Next]_vars

-----------------------------------------------------------------------------
(* What a batch means, whatever the order of its events                    *)

\* The events read so far
Read == {batch[i] : i \in 1 .. next - 1}

\* The first two errors a batch can have
BadBatch ==
    \/ \E e \in Read : ~Canonical(e)
    \/ \E e, d \in Read : /\ KeyRank[e.event_key] = KeyRank[d.event_key]
                          /\ PayloadHash(e) # PayloadHash(d)

ReadFacts == {Fact(e) : e \in Read}

\* The freshest revisions of the events read
Freshest ==
    {f \in ReadFacts : \A g \in ReadFacts :
        g.fact_key = f.fact_key => Compare(g.freshness, f.freshness) <= 0}

Accepted == {f \in Freshest : Evaluate(policy, f)[1] = "process_now"}

-----------------------------------------------------------------------------
(* Properties                                                              *)

Phases == {"start", "ingest", "contend", "project", "done", "failed"}

\* Every fact, winner and decision of the call comes from an event of its batch.
TypeOK ==
    /\ batch \in Batches /\ policy \in Policies /\ phase \in Phases
    /\ next \in 1 .. Len(batch) + 1
    /\ facts \subseteq {Fact(batch[i]) : i \in 1 .. Len(batch)}
    /\ duplicates \subseteq 1 .. Len(batch)
    /\ todo \subseteq facts /\ winners \subseteq facts
    /\ decisions \subseteq [fact : facts, action : Actions, reason : Reasons]
    /\ \A p \in projections : /\ p.exists \in BOOLEAN /\ p.enabled \in BOOLEAN
                              /\ p.freshness \in FreshnessTuple

\* ResolveBatch fails exactly when the policy is invalid, some event cannot be
\* canonicalized, or two events share an event key and differ in what is hashed,
\* wherever in the batch they are; a replay, however it is spelled, never fails.
FailsExactlyOnBadBatch ==
    /\ phase = "failed" => ~Validate(policy) \/ BadBatch
    /\ phase \in {"ingest", "contend", "project", "done"} =>
          Validate(policy) /\ ~BadBatch

\* "The output does not depend on input delivery order": the projections that
\* ResolveBatch returns are the ones the set of events determines, with stale
\* revisions, replays and facts the policy does not accept leaving no trace.
ProjectionsDependOnSetOnly ==
    phase = "done" => next > Len(batch) /\ AreProjectionsOf(projections, Accepted)

\* Every delivery gets one decision: a repeated event key is a duplicate
\* delivery, and of the revisions of a fact the freshest alone is judged by the
\* policy, even when the policy then rejects it.
EveryDeliveryDecided ==
    phase = "done" =>
        /\ \A i \in 1 .. Len(batch) :
              /\ i \in duplicates <=>
                    \E j \in 1 .. i - 1 :
                        KeyRank[batch[j].event_key] = KeyRank[batch[i].event_key]
              /\ Cardinality({d \in decisions :
                    d.fact.event_key = KeyRank[batch[i].event_key]}) = 1
        /\ \A d \in decisions :
              \/ d.fact \in Freshest /\ <<d.action, d.reason>> = Evaluate(policy, d.fact)
              \/ d.fact \notin Freshest
                 /\ <<d.action, d.reason>> = <<"skip", "duplicate_or_older">>

\* identity-projection.schema.json: lifecycle_state is one of four words.
LifecycleStateInSchema ==
    phase = "done" =>
        \A p \in projections :
            p.lifecycle_state \in {"unknown", "active", "on_leave", "terminated"}

-----------------------------------------------------------------------------
(* The inductive invariant of the proofs in ResolverProofs                 *)

Running == phase \in {"ingest", "contend", "project", "done"}

\* A loop has not started to fill what a later loop uses.
NotYet ==
    /\ phase \in {"start", "ingest"} => todo = {} /\ winners = {}
    /\ phase = "start" => facts = {} /\ next = 1
    /\ phase \in {"start", "ingest", "contend", "failed"} =>
          decisions = {} /\ projections = {}
    /\ phase \in {"contend", "project", "done"} => next > Len(batch)

\* The facts are those of the events read, one per event key.
FactsAreRead ==
    Running => /\ Validate(policy)
               /\ \A e \in Read : Canonical(e)
               /\ facts = ReadFacts
               /\ \A f, g \in facts : f.event_key = g.event_key => f = g

\* ws holds one fact of each fact key of S, and none of S is fresher.
WinnersOf(ws, S) ==
    /\ ws \subseteq S
    /\ \A v, w \in ws : v.fact_key = w.fact_key => v = w
    /\ \A f \in S : \E w \in ws : /\ w.fact_key = f.fact_key
                                 /\ Compare(f.freshness, w.freshness) <= 0

\* The winners are the freshest of the candidates visited.
WinnersAreFreshest == phase = "contend" => WinnersOf(winners, facts \ todo)

\* The projections are those of the accepted facts applied so far, all of which
\* come before the ones that remain.
ProjectedSoFar ==
    phase \in {"project", "done"} =>
        /\ todo \subseteq Accepted
        /\ phase = "done" => todo = {}
        /\ \A f \in Accepted \ todo, g \in todo : AppliedBefore(f, g)
        /\ AreProjectionsOf(projections, Accepted \ todo)

IndInv ==
    /\ TypeOK /\ NotYet /\ FactsAreRead /\ WinnersAreFreshest /\ ProjectedSoFar
    /\ FailsExactlyOnBadBatch

=============================================================================
