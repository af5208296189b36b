----------------------------- MODULE MCPipeline -----------------------------
(***************************************************************************)
(* One subject, two callers and four facts: a hire, a termination, and a   *)
(* profile update that takes effect between the two but was entered after  *)
(* them, with its correction (README.md's example).                        *)
(***************************************************************************)
EXTENDS Pipeline, TLC

MCInstants == 0 .. 4
MCMicros == [t \in MCInstants |-> t]
MCEventKeys == 0 .. 4
MCCollation == [k \in MCEventKeys |-> k]
MCSubjects == {"s1"}

\* Facts are numbered in the order they were entered at the source.
Fact(key, factKey, type, eff, attributes) ==
    [subject_id |-> "s1", event_key |-> key, fact_key |-> factKey,
     event_type |-> type, effective_time |-> eff, attributes |-> attributes,
     freshness |-> [source_sequence |-> key, modification_time |-> key,
                    revision_number |-> 0, physical_event_key |-> key]]

Hired == Fact(1, "hire", "hire", 1, "dept" :> "eng")
Ended == Fact(2, "end", "termination", 3, EmptyMap)
Updated == Fact(3, "update", "data_update", 2, "site" :> "home")
UpdateCorrected == Fact(4, "update", "data_update", 2, "site" :> "office")
MCFacts == {Hired, Ended, Updated, UpdateCorrected}

MCProjections == {Stored(Resolved(S)) : S \in SUBSET MCFacts \ {{}}}
MCBodies == {p.body : p \in MCProjections}
=============================================================================
