-------------------------------- MODULE Policy --------------------------------
(***************************************************************************)
(* The temporal and source-scope policy (pkg/reconcile/policy.go): a pure  *)
(* decision about one canonical fact.                                      *)
(***************************************************************************)
EXTENDS Canonical

Actions == {"process_now", "schedule", "skip", "no_op"}

Reasons == {"accepted", "accepted_retroactive", "scheduled_future_hire",
            "duplicate_delivery", "duplicate_or_older", "past_end_time",
            "pre_cutoff", "future_lifecycle_not_scheduled", "scope_mismatch"}

\* Policy. Durations are in the unit of the instants.
PolicyType ==
    [now : Instants, cutoff : Optional(Instants), retroactive_window : Int,
     hire_window : Int, past_end_grace : Int]

\* Policy.Validate returns no error.
Validate(p) ==
    /\ p.now # ZeroTime
    /\ p.retroactive_window >= 0
    /\ p.hire_window >= 0
    /\ p.past_end_grace >= 0

ScopeMismatch(f) ==
    \/ f.source_scope = "hire_snapshot" /\ ~IsHire(f.event_type)
    \/ f.source_scope = "lifecycle" /\ IsHire(f.event_type)

PastEnd(p, f) == \E t \in f.end_time : t < p.now - p.past_end_grace

BeforeCutoff(p, f) == \E t \in p.cutoff : f.effective_time < t

\* Policy.Evaluate: the action and the reason, the first rule that applies.
Evaluate(p, f) ==
    IF ScopeMismatch(f) THEN <<"no_op", "scope_mismatch">>
    ELSE IF PastEnd(p, f) THEN <<"skip", "past_end_time">>
    ELSE IF BeforeCutoff(p, f) THEN
        IF f.freshness.modification_time < p.now - p.retroactive_window
        THEN <<"skip", "pre_cutoff">>
        ELSE <<"process_now", "accepted_retroactive">>
    ELSE IF f.effective_time <= p.now THEN <<"process_now", "accepted">>
    ELSE IF ~IsHire(f.event_type) THEN <<"skip", "future_lifecycle_not_scheduled">>
    ELSE IF f.effective_time - p.now <= p.hire_window
    THEN <<"process_now", "accepted">>
    ELSE <<"schedule", "scheduled_future_hire">>
=============================================================================
