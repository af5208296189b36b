----------------------------- MODULE MCEventStore -----------------------------
(***************************************************************************)
(* Two workers and a handful of deliveries for EventStore: three revisions *)
(* of one hire, a replay with a later delivery clock, and an event that    *)
(* reuses a key. Ten units of an instant are a microsecond.                *)
(***************************************************************************)
EXTENDS EventStore, TLC

\* Whole microseconds only, or times between them too
Aligned == {0, 10, 20, 30, 40}
Nanos == {0, 10, 12, 20, 21, 30, 40}
\* The cfg gives Instants one of the two. Rounding to the nearest multiple of ten
\* and truncating to one agree on both.
MCMicros == [t \in Instants |-> (t \div 10) * 10]

MCEventKeys == 0 .. 4
\* The keys' bytes in order, and a linguistic order that puts the last first, as
\* "B" before "a" in bytes and after it in most languages.
BytewiseCollation == [k \in MCEventKeys |-> k]
LinguisticCollation == [k \in MCEventKeys |-> IF k = 3 THEN 0 ELSE k + 1]

MCZones == {"utc"}
MCText == {"s1", "hire", "hire_snapshot", "dept", "eng", "ops"}
MCTrimSpace == [t \in MCText |-> t]
MCKeyRank == ("k1" :> 1) @@ ("k2" :> 2) @@ ("k3" :> 3) @@ ("k4" :> 4)
MCKeySpellings == DOMAIN MCKeyRank

Dept(t) == "dept" :> [kind |-> "string", text |-> t]
MCPayloads == {Dept("eng"), Dept("ops")}

Hire(key, eff, mod, seq, rev, dept) ==
    [event_key |-> key, subject_id |-> "s1", event_type |-> "hire",
     source_scope |-> "hire_snapshot",
     effective_time |-> [instant |-> eff, zone |-> "utc"], end_time |-> {},
     modification_time |-> [instant |-> mod, zone |-> "utc"],
     source_sequence |-> seq, revision_number |-> rev, payload |-> Dept(dept)]

First == Hire("k1", 10, 20, 1, 1, "eng")
Reused == Hire("k1", 10, 20, 1, 1, "ops")

\* Whole microseconds: a later revision, one that wins by its key alone, and
\* another fact.
AlignedDeliveries ==
    {<<First, 30>>, <<First, 40>>, <<Reused, 30>>,
     <<Hire("k2", 10, 20, 1, 2, "ops"), 30>>, <<Hire("k3", 10, 20, 1, 2, "eng"), 30>>,
     <<Hire("k4", 20, 20, 1, 0, "eng"), 30>>}

\* Between microseconds: a revision that is later by less than one and has a
\* lower revision number, one that its key alone then orders, and a fact whose
\* effective time is that close.
NanoDeliveries ==
    {<<First, 30>>, <<First, 40>>, <<Reused, 30>>,
     <<Hire("k2", 10, 21, 1, 0, "ops"), 30>>, <<Hire("k3", 10, 21, 1, 1, "ops"), 30>>,
     <<Hire("k4", 12, 20, 2, 0, "ops"), 30>>}

\* Keys alone decide between the three.
KeyDeliveries ==
    {<<First, 30>>, <<First, 40>>, <<Reused, 30>>,
     <<Hire("k2", 10, 20, 1, 1, "ops"), 30>>, <<Hire("k3", 10, 20, 1, 1, "ops"), 30>>}

EventsOf(deliveries) == {d[1] : d \in deliveries}
AlignedEvents == EventsOf(AlignedDeliveries)
NanoEvents == EventsOf(NanoDeliveries)
KeyEvents == EventsOf(KeyDeliveries)

WorkerSymmetry == Permutations(Workers)
=============================================================================
