------------------------------ MODULE Canonical ------------------------------
(***************************************************************************)
(* Canonicalization of physical events (pkg/reconcile/canonicalize.go and  *)
(* the types of model.go).                                                 *)
(*                                                                         *)
(* Text arrives in several spellings. TrimSpace and ToLower are Go's       *)
(* functions on the spellings in use, KeyRank is strings.TrimSpace on an   *)
(* event key followed by the rank of the bytes that are left. A time       *)
(* arrives as an instant in some zone. An optional time (a nil pointer in  *)
(* the code) is a set with at most one instant.                            *)
(***************************************************************************)
EXTENDS Freshness

CONSTANTS
    Spellings,     \* text as events spell it: names, types and scopes
    Text,          \* text after conversion
    TrimSpace,     \* strings.TrimSpace
    ToLower,       \* strings.ToLower
    KeySpellings,  \* event keys as events spell them
    KeyRank,       \* the byte rank of the trimmed event key
    Zones,         \* time zones of the times in events
    Payloads       \* payloads, abstracted to their "attributes" member

ASSUME SpellingAssumption ==
    /\ TrimSpace \in [Spellings -> Text]
    /\ ToLower \in [Text -> Text]
    /\ KeyRank \in [KeySpellings -> EventKeys]

EventTypes == {"hire", "rehire", "data_update", "leave", "return_from_leave",
               "conversion", "transfer", "termination"}

SourceScopes == {"hire_snapshot", "lifecycle"}

\* EventType.IsHire
IsHire(type) == type \in {"hire", "rehire"}

Optional(S) == {{}} \cup {{t} : t \in S}

ZonedTimes == [instant : Instants, zone : Zones]

\* A JSON value of payload.attributes and the text scalarString gives it. A
\* composite value is an object, an array or null.
JsonValues ==
    [kind : {"string", "bool", "number", "composite"}, text : Text]

ASSUME PayloadAssumption ==
    \A payload \in Payloads :
        /\ DOMAIN payload \subseteq Spellings
        /\ \A name \in DOMAIN payload : payload[name] \in JsonValues

\* PhysicalEvent
PhysicalEvent ==
    [event_key : KeySpellings, subject_id : Spellings, event_type : Spellings,
     source_scope : Spellings, effective_time : ZonedTimes,
     end_time : Optional(ZonedTimes), modification_time : ZonedTimes,
     source_sequence : Int, revision_number : Int, payload : Payloads]

-----------------------------------------------------------------------------
\* normalizeTime: the instant, in UTC. The zero time stays the zero time.
NormalizeTime(t) == t.instant

ZeroTime == 0

EventTypeOf(event) == ToLower[TrimSpace[event.event_type]]

SourceScopeOf(event) == ToLower[TrimSpace[event.source_scope]]

\* scalarString: strings, booleans and numbers have a text, other values do not.
IsScalar(value) == value.kind # "composite"

\* attributesFromPayload, the error returns: a name is blank after trimming, or
\* two names are the same name after trimming, scalar or not.
NamesAmbiguous(payload) ==
    \/ \E name \in DOMAIN payload : TrimSpace[name] = ""
    \/ \E j, k \in DOMAIN payload : j # k /\ TrimSpace[j] = TrimSpace[k]

\* attributesFromPayload, the result
AttributesFromPayload(payload) ==
    LET scalars == {name \in DOMAIN payload : IsScalar(payload[name])}
        spelled(n) == CHOOSE name \in scalars : TrimSpace[name] = n
    IN  [n \in {TrimSpace[name] : name \in scalars} |-> payload[spelled(n)].text]

\* Mutant of Canonical: a negative source sequence passes.
CanonicalAnySequence(event) ==
    /\ TrimSpace[event.subject_id] # ""
    /\ KeyRank[event.event_key] # 0
    /\ EventTypeOf(event) \in EventTypes
    /\ SourceScopeOf(event) \in SourceScopes
    /\ NormalizeTime(event.effective_time) # ZeroTime
    /\ NormalizeTime(event.modification_time) # ZeroTime
    /\ event.revision_number >= 0
    /\ ~NamesAmbiguous(event.payload)

\* Canonicalize returns no error.
Canonical(event) ==
    /\ TrimSpace[event.subject_id] # ""
    /\ KeyRank[event.event_key] # 0
    /\ EventTypeOf(event) \in EventTypes
    /\ SourceScopeOf(event) \in SourceScopes
    /\ NormalizeTime(event.effective_time) # ZeroTime
    /\ NormalizeTime(event.modification_time) # ZeroTime
    /\ event.source_sequence >= 0
    /\ event.revision_number >= 0
    /\ ~NamesAmbiguous(event.payload)

\* makeFactKey. The separator of the joined string occurs in no part that
\* follows the subject, so the string determines its four parts.
MakeFactKey(subject, scope, type, effective) == <<subject, scope, type, effective>>

\* The hash envelope. SHA-256 is taken to be injective on what is hashed, so a
\* payload hash is the envelope itself. The event key and the delivery time are
\* not part of it; the payload is, with its names as they were spelled.
PayloadHash(event) ==
    [subject_id |-> TrimSpace[event.subject_id],
     event_type |-> EventTypeOf(event),
     source_scope |-> SourceScopeOf(event),
     effective_time |-> NormalizeTime(event.effective_time),
     end_time |-> {NormalizeTime(t) : t \in event.end_time},
     modification_time |-> NormalizeTime(event.modification_time),
     source_sequence |-> event.source_sequence,
     revision_number |-> event.revision_number,
     payload |-> event.payload]

\* Canonicalize. CanonicalFact.ModificationTime is freshness.modification_time.
Canonicalize(event, receivedAt) ==
    LET modified == NormalizeTime(event.modification_time)
    IN  [fact_key |-> MakeFactKey(TrimSpace[event.subject_id], SourceScopeOf(event),
                          EventTypeOf(event), NormalizeTime(event.effective_time)),
         event_key |-> KeyRank[event.event_key],
         subject_id |-> TrimSpace[event.subject_id],
         event_type |-> EventTypeOf(event),
         source_scope |-> SourceScopeOf(event),
         effective_time |-> NormalizeTime(event.effective_time),
         end_time |-> {NormalizeTime(t) : t \in event.end_time},
         received_at |-> IF receivedAt = ZeroTime THEN modified ELSE receivedAt,
         freshness |-> [source_sequence |-> event.source_sequence,
                        modification_time |-> modified,
                        revision_number |-> event.revision_number,
                        physical_event_key |-> KeyRank[event.event_key]],
         payload_hash |-> PayloadHash(event),
         attributes |-> AttributesFromPayload(event.payload)]
=============================================================================
