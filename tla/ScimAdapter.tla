----------------------------- MODULE ScimAdapter -----------------------------
(***************************************************************************)
(* The SCIM adapter (pkg/adapter/scim/scim.go) between its requests: which *)
(* configurations New accepts, what Observe makes of a resource, when      *)
(* StateEquivalent says a resource needs no write, and the bodies create   *)
(* and patch send.                                                         *)
(*                                                                         *)
(* SCIM attribute names are case-insensitive. Fold is strings.ToLower; a   *)
(* resource is kept under folded names, whatever spelling a provider       *)
(* answers with. Names are trimmed before they get here.                   *)
(***************************************************************************)
EXTENDS Sequences, Naturals

CONSTANTS
    Names,         \* spellings of attribute names
    Fold,          \* strings.ToLower on them
    WellFormed,    \* the spellings validAttributeName accepts
    Texts,         \* the strings attributes are set to
    Values,        \* the JSON values a provider may hold
    ScalarString,  \* scalarString: the string read from a value, as a set
    Subject        \* the subject ID

DefaultSubjectAttribute == "externalId"

ASSUME ScimAssumption ==
    /\ Fold \in [Names -> Names]
    /\ \A n \in Names : Fold[Fold[n]] = Fold[n]
    /\ {"externalId", "userName"} \subseteq Names
    /\ Fold["externalId"] = "externalid" /\ Fold["userName"] = "username"
    /\ Texts \subseteq Values /\ Subject \in Texts
    /\ ScalarString \in [Values -> SUBSET Texts]
    /\ \A t \in Texts : ScalarString[t] = {t}

\* Config; the URL, the token and the HTTP client are left out.
ConfigType ==
    [subject_attribute : Names \cup {""}, managed_attributes : Seq(Names),
     deprovision_mode : STRING]

\* unsafeSubjectAttribute and adapterOwnsAttribute, on folded names
UnsafeSubjectAttributes == {"schemas", "active", "id", "meta"}
AdapterOwned == UnsafeSubjectAttributes \cup {"username", "externalid"}

SubjectAttribute(c) ==
    IF c.subject_attribute = "" THEN DefaultSubjectAttribute ELSE c.subject_attribute

DeprovisionMode(c) ==
    IF c.deprovision_mode = "" THEN "disable" ELSE c.deprovision_mode

\* Mutant of New: the subject attribute may be managed too.
NewWithManagedSubject(c) ==
    /\ SubjectAttribute(c) \in WellFormed
    /\ Fold[SubjectAttribute(c)] \notin UnsafeSubjectAttributes
    /\ DeprovisionMode(c) \in {"disable", "delete"}
    /\ \A i \in DOMAIN c.managed_attributes :
          /\ c.managed_attributes[i] \in WellFormed
          /\ Fold[c.managed_attributes[i]] \notin AdapterOwned
          /\ \A j \in 1 .. i - 1 :
                Fold[c.managed_attributes[j]] # Fold[c.managed_attributes[i]]

\* New returns an adapter.
New(c) ==
    /\ SubjectAttribute(c) \in WellFormed
    /\ Fold[SubjectAttribute(c)] \notin UnsafeSubjectAttributes
    /\ DeprovisionMode(c) \in {"disable", "delete"}
    /\ \A i \in DOMAIN c.managed_attributes :
          /\ c.managed_attributes[i] \in WellFormed
          /\ Fold[c.managed_attributes[i]] # Fold[SubjectAttribute(c)]
          /\ Fold[c.managed_attributes[i]] \notin AdapterOwned
          /\ \A j \in 1 .. i - 1 :
                Fold[c.managed_attributes[j]] # Fold[c.managed_attributes[i]]

\* The keys of Adapter.managedAttributes. A key has one spelling, so maps that
\* the code keys by that spelling are keyed by the folded name here.
Managed(c) ==
    {Fold[c.managed_attributes[i]] : i \in DOMAIN c.managed_attributes}

-----------------------------------------------------------------------------
(* Desired attributes                                                      *)

\* managedDesiredValues returns an error.
DesiredAmbiguous(c, attributes) ==
    \E m, n \in DOMAIN attributes :
        m # n /\ Fold[m] = Fold[n] /\ Fold[m] \in Managed(c)

\* managedDesiredValues
ManagedDesiredValues(c, attributes) ==
    [k \in {Fold[n] : n \in DOMAIN attributes} \cap Managed(c) |->
        attributes[CHOOSE n \in DOMAIN attributes : Fold[n] = k]]

-----------------------------------------------------------------------------
(* A resource: [id, version, active, attributes]. A provider may omit      *)
(* version and active, so they are sets with at most one member.           *)

\* responseAttribute, without the ambiguous answers, which fail the lookup
ResponseAttribute(u, k) ==
    IF k \in DOMAIN u.attributes THEN {u.attributes[k]} ELSE {}

\* scimActive
ScimActive(u) == u.active # {FALSE}

\* Mutant of ManagedValues: all attributes of the response are compared.
AllValues(c, u) ==
    [k \in {j \in DOMAIN u.attributes : ScalarString[u.attributes[j]] # {}} |->
        CHOOSE t \in Texts : ScalarString[u.attributes[k]] = {t}]

\* managedValues: a managed attribute with a scalar value
ManagedValues(c, u) ==
    LET texts(k) == UNION {ScalarString[v] : v \in ResponseAttribute(u, k)}
    IN  [k \in {j \in Managed(c) : texts(j) # {}} |-> CHOOSE t \in texts(k) : TRUE]

NoAttributes == [k \in {} |-> ""]

\* Observe, of the resources find returned: none or one
Observed(c, found) ==
    IF found = {}
    THEN [exists |-> FALSE, enabled |-> FALSE, attributes |-> NoAttributes]
    ELSE LET u == CHOOSE u \in found : TRUE
         IN  [exists |-> TRUE, enabled |-> ScimActive(u),
              attributes |-> ManagedValues(c, u)]

\* reconcile.StateEquivalent, with stringMapsEqual
StateEquivalent(observed, exists, enabled, attributes) ==
    /\ observed.exists = exists
    /\ exists => /\ observed.enabled = enabled
                 /\ observed.attributes = attributes

\* Mutant of AdapterEquivalent: a retained, disabled account is not an absence.
AdapterEquivalentPhysical(c, observed, desired) ==
    /\ ~DesiredAmbiguous(c, desired.attributes)
    /\ StateEquivalent(observed, desired.exists, desired.enabled,
                       ManagedDesiredValues(c, desired.attributes))

\* Adapter.StateEquivalent
AdapterEquivalent(c, observed, desired) ==
    IF ~desired.exists /\ DeprovisionMode(c) = "disable"
    THEN ~observed.exists \/ ~observed.enabled
    ELSE /\ ~DesiredAmbiguous(c, desired.attributes)
         /\ StateEquivalent(observed, desired.exists, desired.enabled,
                            ManagedDesiredValues(c, desired.attributes))

-----------------------------------------------------------------------------
(* The requests                                                            *)

\* The entries of the second map replace and extend those of the first.
Overlay(m, n) ==
    [k \in DOMAIN m \cup DOMAIN n |-> IF k \in DOMAIN n THEN n[k] ELSE m[k]]

\* The filter of find: the subject attribute equals the subject ID.
Bound(c, u) == ResponseAttribute(u, Fold[SubjectAttribute(c)]) = {Subject}

\* The attributes create sends: the binding first, then the managed ones. A subject
\* attribute spelled unlike userName or externalId only in case makes create send
\* both spellings with the same value; folded they are one attribute, and which
\* spelling a provider keeps is external.
CreateAttributes(c, attributes) ==
    Overlay([k \in {"username", "externalid", Fold[SubjectAttribute(c)]} |-> Subject],
            ManagedDesiredValues(c, attributes))
=============================================================================
