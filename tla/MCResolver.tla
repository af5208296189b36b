------------------------------ MODULE MCResolver ------------------------------
(***************************************************************************)
(* Small batches for Resolver: replays under another spelling, a reused    *)
(* key, corrections that win by sequence, by revision and by key alone, a  *)
(* late update from before a termination, two facts of one instant, and    *)
(* every answer of the policy.                                             *)
(***************************************************************************)
EXTENDS Resolver, TLC

MCInstants == 0 .. 16
MCMicros == [t \in MCInstants |-> t]
MCEventKeys == 0 .. 15
MCCollation == [k \in MCEventKeys |-> k]
MCZones == {"utc", "local"}

MCTrimSpace ==
    ("s1" :> "s1") @@ (" s1 " :> "s1") @@ ("s2" :> "s2") @@ ("  " :> "") @@
    ("dept" :> "dept") @@ (" dept" :> "dept") @@ ("title" :> "title") @@
    ("hire" :> "hire") @@ ("HIRE " :> "HIRE") @@ ("rehire" :> "rehire") @@
    ("leave" :> "leave") @@ ("return_from_leave" :> "return_from_leave") @@
    ("termination" :> "termination") @@ ("transfer" :> "transfer") @@
    ("conversion" :> "conversion") @@ ("data_update" :> "data_update") @@
    ("promotion" :> "promotion") @@ ("lifecycle" :> "lifecycle") @@
    ("hire_snapshot" :> "hire_snapshot") @@ (" Hire_Snapshot" :> "Hire_Snapshot")
MCSpellings == DOMAIN MCTrimSpace
MCText == {MCTrimSpace[s] : s \in MCSpellings} \cup {"eng", "ops", "true"}
MCToLower ==
    [t \in MCText |-> CASE t = "HIRE" -> "hire"
                        [] t = "Hire_Snapshot" -> "hire_snapshot"
                        [] OTHER -> t]

MCKeyRank ==
    ("k1" :> 1) @@ (" k1 " :> 1) @@ ("k2" :> 2) @@ ("k3" :> 3) @@ ("k4" :> 4) @@
    ("k5" :> 5) @@ ("k6" :> 6) @@ ("k7" :> 7) @@ ("k8" :> 8) @@ ("k9" :> 9) @@
    ("l0" :> 10) @@ ("l1" :> 11) @@ ("l2" :> 12) @@ ("l3" :> 13) @@ ("  " :> 0)
MCKeySpellings == DOMAIN MCKeyRank

Json(k, t) == [kind |-> k, text |-> t]
NoAttributes == [n \in {} |-> Json("string", "")]
DeptEng == "dept" :> Json("string", "eng")
DeptOps == ("dept" :> Json("string", "ops")) @@ ("title" :> Json("bool", "true"))
SpacedDept == (" dept" :> Json("number", "eng")) @@ ("title" :> Json("composite", ""))
TwoDepts == ("dept" :> Json("string", "eng")) @@ (" dept" :> Json("composite", ""))
MCPayloads == {NoAttributes, DeptEng, DeptOps, SpacedDept, TwoDepts}

At(t) == [instant |-> t, zone |-> "utc"]

Event(key, subject, type, scope, eff, mod, seq, rev, payload) ==
    [event_key |-> key, subject_id |-> subject, event_type |-> type,
     source_scope |-> scope, effective_time |-> At(eff), end_time |-> {},
     modification_time |-> At(mod), source_sequence |-> seq,
     revision_number |-> rev, payload |-> payload]

Hire == Event("k1", "s1", "hire", "hire_snapshot", 2, 2, 1, 0, DeptEng)
HireRespelled ==
    [Hire EXCEPT !.event_key = " k1 ", !.subject_id = " s1 ", !.event_type = "HIRE ",
                 !.source_scope = " Hire_Snapshot", !.effective_time.zone = "local"]
HireKeyReused == [Hire EXCEPT !.payload = DeptOps]
HireCorrected == Event("k2", "s1", "hire", "hire_snapshot", 2, 9, 2, 0, DeptOps)
HireSameFreshness == Event("k3", "s1", "hire", "hire_snapshot", 2, 9, 2, 0, SpacedDept)
Terminated == Event("k4", "s1", "termination", "lifecycle", 8, 5, 3, 0, NoAttributes)
TerminationEnded ==
    [Event("k5", "s1", "termination", "lifecycle", 8, 5, 4, 0, NoAttributes)
        EXCEPT !.end_time = {At(6)}]
LateUpdate == Event("k6", "s1", "data_update", "lifecycle", 6, 9, 9, 0, DeptEng)
LeaveSameInstant == Event("k7", "s1", "leave", "lifecycle", 8, 5, 3, 1, DeptOps)
Returned == Event("k8", "s1", "return_from_leave", "lifecycle", 9, 9, 5, 0, NoAttributes)
UpdateOnly == Event("k9", "s2", "transfer", "lifecycle", 4, 4, 1, 0, SpacedDept)
HireSoon == Event("l0", "s2", "rehire", "hire_snapshot", 13, 9, 2, 0, DeptOps)
HireLater == Event("l1", "s2", "hire", "hire_snapshot", 14, 9, 3, 0, DeptOps)
LeaveInFuture == Event("l2", "s2", "leave", "lifecycle", 11, 9, 4, 0, NoAttributes)
WrongScope == Event("l3", "s2", "conversion", "hire_snapshot", 3, 3, 5, 0, DeptEng)
AmbiguousNames == Event("l3", "s2", "data_update", "lifecycle", 3, 3, 5, 0, TwoDepts)
BlankSubject == Event("l3", "  ", "data_update", "lifecycle", 3, 3, 5, 0, DeptEng)
NegativeSequence ==
    Event("l3", "s2", "data_update", "lifecycle", 3, 3, -1, 0, DeptEng)
NoSuchType == Event("l3", "s2", "promotion", "lifecycle", 3, 3, 5, 0, DeptEng)

CoreEvents ==
    {Hire, HireCorrected, HireSameFreshness, Terminated, LateUpdate, LeaveSameInstant}
ValidEvents ==
    CoreEvents \cup
    {HireRespelled, HireKeyReused, TerminationEnded, Returned, UpdateOnly, HireSoon,
     HireLater, LeaveInFuture, WrongScope}
MCEvents ==
    ValidEvents \cup {AmbiguousNames, BlankSubject, NegativeSequence, NoSuchType}

Sequences(S, n) == UNION {[1 .. m -> S] : m \in 0 .. n}
\* Any two events in any order with repetition, any three that are valid, and any
\* four of the core.
MCBatches ==
    Sequences(MCEvents, 2) \cup [1 .. 3 -> ValidEvents] \cup [1 .. 4 -> CoreEvents]

Default ==
    [now |-> 10, cutoff |-> {}, retroactive_window |-> 2, hire_window |-> 3,
     past_end_grace |-> 3]
MCPolicies ==
    {Default, [Default EXCEPT !.cutoff = {5}], [Default EXCEPT !.hire_window = -1]}
=============================================================================
