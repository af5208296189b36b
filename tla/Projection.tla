------------------------------ MODULE Projection ------------------------------
(***************************************************************************)
(* How canonical facts become the projection of a subject (the last loop   *)
(* of ResolveBatch and applyFact, pkg/reconcile/resolve.go), and what a    *)
(* set of facts says of a subject, whatever the order it is applied in.    *)
(***************************************************************************)
EXTENDS Freshness

(* The order of the projection loop and applyFact                          *)

\* The comparison acceptedFacts is sorted with. Its last two keys, event type
\* and event key, are never reached: equal tuples have equal event keys, and
\* the facts of a batch have distinct ones.
AppliedBefore(f, g) ==
    \/ f.effective_time < g.effective_time
    \/ f.effective_time = g.effective_time /\ Compare(f.freshness, g.freshness) < 0

EmptyMap == [name \in {} |-> ""]

\* The entries of the second map replace and extend those of the first.
Overlay(m, n) ==
    [name \in DOMAIN m \cup DOMAIN n |->
        IF name \in DOMAIN n THEN n[name] ELSE m[name]]

\* The zero value of IdentityProjection, without the provenance, which the
\* first fact sets.
NewProjection ==
    [exists |-> FALSE, enabled |-> FALSE, lifecycle_state |-> "",
     attributes |-> EmptyMap]

\* The events that decide existence and lifecycle; data updates, conversions
\* and transfers only change attributes.
LifecycleTypes == {"hire", "rehire", "leave", "return_from_leave", "termination"}

\* The switch of applyFact
Lifecycle(type) ==
    CASE type \in {"hire", "rehire", "return_from_leave"} ->
            [exists |-> TRUE, enabled |-> TRUE, lifecycle_state |-> "active"]
      [] type = "leave" ->
            [exists |-> TRUE, enabled |-> FALSE, lifecycle_state |-> "on_leave"]
      [] type = "termination" ->
            [exists |-> TRUE, enabled |-> FALSE, lifecycle_state |-> "terminated"]

\* Mutant of ApplyFact: the attributes of the fact replace all those before.
ApplyFactReplacing(p, f) ==
    LET life == IF f.event_type \in LifecycleTypes THEN Lifecycle(f.event_type) ELSE p
    IN  [subject_id |-> f.subject_id,
         exists |-> life.exists,
         enabled |-> life.enabled,
         lifecycle_state |-> life.lifecycle_state,
         attributes |-> f.attributes,
         source_fact_key |-> f.fact_key,
         source_event_key |-> f.event_key,
         effective_time |-> f.effective_time,
         freshness |-> f.freshness]

\* applyFact
ApplyFact(p, f) ==
    LET life == IF f.event_type \in LifecycleTypes THEN Lifecycle(f.event_type) ELSE p
    IN  [subject_id |-> f.subject_id,
         exists |-> life.exists,
         enabled |-> life.enabled,
         lifecycle_state |-> life.lifecycle_state,
         attributes |-> Overlay(p.attributes, f.attributes),
         source_fact_key |-> f.fact_key,
         source_event_key |-> f.event_key,
         effective_time |-> f.effective_time,
         freshness |-> f.freshness]

-----------------------------------------------------------------------------
(* What a set of facts says                                                *)

\* f is the member of S applied last.
LastOf(f, S) == f \in S /\ \A g \in S \ {f} : AppliedBefore(g, f)

\* p is what the facts of its subject say: each attribute has the value the last
\* fact that carries it gives it, existence and lifecycle are those of the last
\* fact that decides them, the provenance is that of the last.
Describes(p, mine) ==
    LET deciding == {f \in mine : f.event_type \in LifecycleTypes}
        carrying(name) == {f \in mine : name \in DOMAIN f.attributes}
    IN  /\ \E f \in mine : /\ LastOf(f, mine)
                           /\ p.source_fact_key = f.fact_key
                           /\ p.source_event_key = f.event_key
                           /\ p.effective_time = f.effective_time
                           /\ p.freshness = f.freshness
        /\ \/ /\ deciding = {}
              /\ p.exists = FALSE /\ p.enabled = FALSE /\ p.lifecycle_state = ""
           \/ \E f \in deciding :
                 /\ LastOf(f, deciding)
                 /\ p.exists = Lifecycle(f.event_type).exists
                 /\ p.enabled = Lifecycle(f.event_type).enabled
                 /\ p.lifecycle_state = Lifecycle(f.event_type).lifecycle_state
        /\ DOMAIN p.attributes = UNION {DOMAIN f.attributes : f \in mine}
        /\ \A name \in DOMAIN p.attributes :
              \E f \in carrying(name) : /\ LastOf(f, carrying(name))
                                        /\ p.attributes[name] = f.attributes[name]

IsProjectionOf(p, S) == Describes(p, {f \in S : f.subject_id = p.subject_id})

\* ps holds one projection of every subject of S, and nothing else.
AreProjectionsOf(ps, S) ==
    /\ \A p \in ps : IsProjectionOf(p, S)
    /\ \A p, q \in ps : p.subject_id = q.subject_id => p = q
    /\ {p.subject_id : p \in ps} = {f.subject_id : f \in S}
=============================================================================
