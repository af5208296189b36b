# A TLA+ model of deterministic-identity-reconciliation

The program turns workforce events, which arrive late, repeated and out of order,
into one desired state per identity, keeps that state in PostgreSQL and makes a
SCIM directory agree with it. This directory holds TLA+ modules translated from
its Go and SQL, the TLC configurations that check them on small instances, and
proofs for TLAPS.

## 1. Inventory

| Component | Code | State | Operations | What makes it correct |
|---|---|---|---|---|
| Freshness order | `pkg/reconcile/model.go`, the SQL of `postgres.go` | none | `Compare`, an OR chain, a row comparison | one strict total order, the same in Go and in SQL |
| Canonicalization | `canonicalize.go` | none | `Canonicalize` | spelling, zone and delivery time do not matter; content does |
| Policy | `policy.go` | none | `Validate`, `Evaluate` | one answer per fact, the first rule that applies |
| Batch resolution | `resolve.go` | locals of one call | `ResolveBatch`, `applyFact` | the result is a function of the set of events |
| Event tables | `postgres.go`, `schema/postgres.sql` | `physical_events`, `canonical_facts` | `InsertPhysicalEvent`, `UpsertCanonicalFact` | events are immutable, facts only advance, replays are accepted and harmless |
| Projection table | same | `canonical_state`, its row locks | `LoadProjection`, `CompareAndSetProjection`, `WithLockedProjection` | no lost update, one winner per version, a stable row under the lock |
| Target convergence | `Converge` in `resolve.go` | none | observe, compare, apply | success means that the next run has nothing to do |
| SCIM adapter | `pkg/adapter/scim/scim.go` | the directory's resources | `New`, `Observe`, `StateEquivalent`, `Apply`, `find`, `create`, `patch` | the account stays reachable by its binding; a change it has not read is not overwritten |
| converge command | `cmd/converge/main.go` | the row lock while it runs | preview, apply | the account moves from one persisted projection to a later one, whatever is lost on the way |
| Pipeline | `resolve.go` and `postgres.go`, called in turn | the row and the facts that arrived | load, resolve, compare-and-set, again | the row says what a set of facts says, forgets none but in one race, and does not stay behind the facts |
| reconcile command, scripts | `cmd/reconcile`, `scripts/` | none | read, call, print | pure input and output |

The components meet in three places. `ResolveBatch` calls `Canonicalize`,
`Compare` and `Evaluate`. Ingestion workers, which are not in the repository, call
the store concurrently from separate processes; only the database orders them.
`cmd/converge` holds the row lock of a projection while its callback talks to the
directory, through the SCIM adapter, in up to three requests: a lookup to observe,
a second lookup in `Apply`, and the write.

The hard behaviours are: any order and repetition of deliveries; two SQL
statements where a test sees one call; answers lost after the effect; writers that
computed from a row that is no longer there; a lock whose connection breaks while
the callback runs; a write that reaches the directory after its sender has given
up and others have run; other clients of the directory between two lookups; facts
that arrive after the row has moved past them; and conversions between Go and the
database (nanoseconds to microseconds, bytes to a collation). `PROJECT.json` lists each at its line.

## 2. Modules

| Module | Models |
|---|---|
| `Freshness` | the tuple, `Compare`, and both SQL comparisons over stored columns |
| `Canonical` | `PhysicalEvent`, `Canonicalize` with its error returns |
| `Policy` | `Validate`, `Evaluate` |
| `Projection` | the facts and projections of `resolve.go`, `applyFact` and the order of the fold |
| `Resolver` | one call of `ResolveBatch`; extends `Projection`, `Canonical`, `Policy` |
| `EventStore` | `physical_events`, `canonical_facts`, the workers that write them |
| `ProjectionStore` | `canonical_state`, writers, lock holders, an operator |
| `ScimAdapter` | the adapter between its requests, as operators |
| `Convergence` | runs of the command, the adapter's requests and the directory; extends `ScimAdapter` |
| `Target` | what convergence promises, without locks, requests and answers |
| `Pipeline` | `ProjectionStore` and `Projection` composed, with facts arriving |
| `MCResolver`, `MCEventStore`, `MCProjectionStore`, `MCConvergence`, `MCPipeline` | small instances for TLC |
| `FreshnessProofs`, `ProjectionProofs` | theorems and lemmas about the operators the other proofs use |
| `EventStoreProofs`, `ProjectionStoreProofs`, `ResolverProofs`, `ConvergenceProofs`, `PipelineProofs` | theorems about the component of that name |
| `DuplicateProofs` | how many resources a subject can come to have; extends `ConvergenceProofs` |

Definitions under a "Mutant of" comment are deliberately wrong variants of
the definition after them. No specification uses them; replacing the original by
one must make the property it is paired with in `PROJECT.json` fail.

### Data

An instant is an integer with 0 for Go's zero time. An event key is the rank of
its bytes after trimming, so Go's order of keys is `<`. `Micros` is what a
`TIMESTAMPTZ` column makes of an instant and `Collation` the place of a key in the
database's order; both are constants with only the assumptions PostgreSQL gives
(monotone and idempotent; injective). `TrimSpace` and `ToLower` are functions on
the spellings in use. A payload is its `attributes` member, a SHA-256 hash is the
envelope that is hashed, a fact key is its four parts. An optional value is a set
with at most one member.

### Resolver

The loops of `ResolveBatch` are the phases `ingest`, `contend`, `project`. `Start`
is the policy check; `IngestNew`, `IngestSeen` and `IngestInvalid` are the three
outcomes for one event; `Group` and `Contend` pick the freshest revision of each
fact key one candidate at a time; `Decide` is the loop that fills the decisions;
`Project` applies one accepted fact. `sort.Slice` is unstable, so `Project` may
take any fact that none of the others precedes, and the ranges over maps are
sets. An error return (`Fail`) drops all results, as `BatchResult{}` does. The
decisions are a set too: their order in the returned list is not modelled (see
section 5).

### EventStore

Each SQL statement is an atomic step. `Insert` is the statement that writes,
`InsertConflict` the one that finds the key taken, `Verify` the second statement
of `InsertPhysicalEvent`, `Upsert` the one of `UpsertCanonicalFact` including the
foreign key and the unique constraint. `InsertUnanswered` loses the answer after
the effect and `Abandon` stops a worker anywhere; a later `Receive` of the same
fact is the retry. The worker's order, insert before upsert, is what the foreign
key asks of it; the worker itself is external. `created`, `acknowledged` and
`offered` are history variables: what the calls answered and compared.

### ProjectionStore

`Load` and `CompareAndSet` are a writer's two calls, with the two statements that
`CompareAndSetProjection` selects between by the expected version; `Recompute` is a
writer that computes its projection only after it has loaded. `Lock`,
`Unlock`, `LoseConnection` and `EndOrphan` are `WithLockedProjection` and its
failures. A statement waits while another transaction holds the row. `Remove` is
an operator deleting a row, the case `updateProjectionSQL` exists for. `commits`
is the history of the compare-and-sets that took effect, and `era` counts the
removals, because versions start again after one. A negative expected version is
refused by the code before any statement and is not an input here.

### ScimAdapter

SCIM names are case-insensitive; `Fold` is `ToLower` on the spellings in use,
`WellFormed` the spellings `validAttributeName` accepts, and a resource is kept
under folded names. `ScalarString` gives the string `scalarString` reads from a
JSON value, if any. `New` is the validation of a configuration,
`AdapterEquivalent` the adapter's `StateEquivalent` with its rule for a retained,
disabled account, `CreateAttributes` and `ManagedDesiredValues` the bodies. With a
subject attribute that differs from `userName` or `externalId` only in case, `create`
sends both spellings with the same value; in the model they are one attribute.

### Convergence

A run of the command is `Start` (the checks, and the row lock with the row read
under it), `Observe`, `Apply` (the second lookup and the request it sends) and
`Finish`; `StartPreview` and `Preview` take no lock and send nothing; `Refuse` is
an early return. `Persist` is a compare-and-set by somebody else, which waits for
the lock. A lookup is one step, because it has no effect. A write is two: it is
put in `sent`, and `Take` or `Reject` is the directory's step, at any later time
and in any order.

The directory is external. `Versioned` says whether it reports resource versions
and enforces `If-Match`, `Unique` whether it refuses a second resource with the
same binding; the code works with either, and both are parameters. A version is a
token that no other state has, and tokens that nothing refers to are used again.
Other clients create, change and delete resources of the subject but leave the
binding alone (`ConvergenceAssumption`): a client that rewrites the binding can
always hide an account. All runs have the same flags.

Faults, counted by `faults`: `LookupFails`; `GiveUp` (a deadline or a dead process,
whose write is still on its way); `Take` with a lost answer; `Reject` of a write
that got lost; `LoseConnection` (the database ends the transaction, the callback
goes on). What the code forces, such as an error for two matching resources or
404, 409 and 412 answers, is not a fault and not bounded.

`shown`, `astray` and `disturbed` are history: the version of the row written
last, the versions whose run lost its lock, and the runs whose last lookup
somebody has overtaken.

### Target

One account, seen through the managed attributes. In one step it comes to show a
persisted projection that is no older than the one it shows. Two exceptions are
in the code and so in `Target`: a create carries no precondition, so where there is no
account a late create may bring back any persisted projection; and a projection
whose run lost its lock may be written after a newer one. For those two hazards the
refinement bounds the damage, it does not exclude it. A write of another client is
any change.

A provider without versions or unique bindings does not keep that promise: a late
write may go back, and there may be several resources. What is left is
`WritesOneProjection`: each write changes one resource, in one step, to all that one
persisted projection says, with unmanaged attributes as they were, and
only an absence in delete mode removes a resource.

### Pipeline

The repository's specification asks a caller to load the row, resolve all it has,
compare-and-set, and on failure reload and re-evaluate; such a caller is not in the
repository and is external here. `Resolve`, `ResolveLater` (facts arrived between the
load and the resolution), `Set`, `Stop` and `Locked` are built from the actions of
`ProjectionStore` and from `ApplyFact`. `Projected`
folds the winners in the order `ResolveBatch` sorts them. Events are canonical facts
that the policy has accepted, of one subject; in `MCPipeline` they are the example of
the repository's README, a late profile update after a termination. `reflected` is
history: the facts the
row was resolved from.

## 3. What the runs check

| Run | Instance | Shows |
|---|---|---|
| `resolver` | all batches of 2 from 19 events, of 3 from 15, of 4 from 6; 3 policies | a batch fails exactly when it is bad; projections and decisions depend on the set of events |
| `resolver_schema` | same | **violated**: `lifecycle_state` may be `""` |
| `event_store` | 2 workers, 6 deliveries, rounding and a linguistic collation | immutability, exact replays accepted, freshest row by the columns, backing events, only advancing; the table depends on the set of facts offered |
| `event_store_aligned` | 2 workers, 6 deliveries, whole microseconds, bytewise collation | the row is Go's winner; upserts meet no constraint |
| `event_store_nanos`, `event_store_collation` | as above, one assumption dropped each | **violated**: the row is not Go's winner |
| `projection_store` | 2 callers, 4 projections, 1 removal | no lost update, one winner, chain of versions, stable locked row |
| `convergence` | 2 runs, 3 configurations, 5 projections, a provider with versions and unique bindings; 1.0 million states | success is convergence, nothing unread is overwritten, accounts stay reachable, `Target` is implemented |
| `convergence_live` | 2 runs, 2 configurations, 3 projections, a provider with neither; 174 thousand states | the account ends in agreement with the row; at most one duplicate per fault and per write of another client; a write leaves what one projection says |
| `pipeline` | 2 callers, 4 facts: a hire, a termination, a retroactive update and its correction | the row says what a set of facts says; a write forgets facts in one race only; the row ends no older than all facts resolve to, and as the last one has it if that is the freshest; a writer returns |
| `pipeline_late` | same | **violated**: a caller that nobody overtook is refused a fact the row does not reflect |
| `pipeline_undone` | same | **violated**: a late update undoes a termination the row reflected |

Why the bounds are enough. A batch property needs two revisions of one fact,
another fact of the same instant, and a replay or a rejected fact to interfere:
four deliveries; the events include every answer of the policy, every way a
revision wins and the ways a batch can fail. A race in the event tables is between
two workers on one key or one fact; the deliveries hold three revisions of a fact,
a replay with another delivery clock, a reused key and a second fact. In the
projection table four tuples let versions reach 3 with two writers holding the same
positive version, both newer; one removal gives a second era. Rows of different
subjects share nothing, so one subject is enough there and in `Convergence`.

In `Convergence` the races are between an older and a newer version of the row
(`MaxRows` 2), written by a run that lost its lock or gave up and a run that did
not (2 runs, `MaxFaults` 1), with one write of another client anywhere
(`MaxOthers` 1). The projections are an account with an attribute, the same
disabled, one that no longer mentions the attribute, an absence, and one that
mentions the binding; the configurations are both deprovision modes, the second
with a custom binding, and one that `New` has to refuse. Nine tokens are enough:
`TokenLeft` holds in every state of both instances. `convergence_live` leaves out
the projection that no longer mentions an attribute, because it cannot converge (see
below). Two callers and four facts let a caller hold an older resolution at version zero
while the row is created from more facts, and let both facts of one key arrive
before, between or after the others. The update and its correction are fresher than
the termination and take effect before it: the retroactive facts for which the order
of freshness and the order of effect differ.

The bounds in guards are `MaxRemovals`, `MaxRows`, `MaxFaults`, `MaxOthers` and the
number of tokens. Workers, callers and runs are symmetric; symmetry is used only in
runs without liveness.

Deadlock is checked except in `resolver`, where a call that has returned stops.

### Findings

1. A subject known only from data updates, transfers or conversions has
   `lifecycle_state` `""`; the published schema allows four words, and
   `StateUnknown` is never assigned.
2. Go compares modification times in nanoseconds, the database stores
   microseconds. A revision that is later by less than one microsecond is ordered
   by its revision number or its key instead.
3. The tie-break by event key is bytewise in Go and follows the database's
   collation in SQL. With `COLLATE "C"` (and whole microseconds) theorem
   `GoFreshestStored` applies.
4. A projection carries the freshness of the fact that takes effect last, and the
   compare-and-set asks for a greater tuple. A fact that takes effect before that
   one and arrives after it was persisted does not change the tuple: the
   re-resolved projection is refused, again and again, though nobody else wrote and
   the fact is not stale. The specification says that zero rows mean one of the
   two. `LastFactPersists` says what remains true: the row ends no older than what
   all facts resolve to, and as the last fact has it if that fact is the freshest.
5. An expected version of zero stands for a missing row and for a row of version
   zero. A caller that found no row and resolved a hire and a late profile update can
   replace the version-zero row that another caller created from these and a
   termination, because the update was entered after the termination and its tuple
   is the greater one. The account is active again, and the full resolution is
   refused from then on (finding 4). The repository's README says that the late profile
   update "must not undo the termination". `ForgetsOnlyAtBootstrap` says that this is
   the only way to forget a fact: version zero, a caller that had loaded nothing, and
   a fresher fact that takes effect earlier.

Two behaviours that no document denies, stated in the properties as exceptions:
`patch` never removes a managed attribute that the projection no longer mentions,
so such an account is written again by every run (`Leftover`, which
`SuccessIsConverged` exempts); and on a provider without unique bindings a create
that is repeated after a lost answer leaves two resources, between which every later
run refuses to choose (`Ambiguous`). A third is assumed away in
`event_store_aligned`: two facts that differ by less than a microsecond meet the
unique constraint, and the second is refused. A refused fact does not count as
offered, so `TableDependsOnSetOnly` does not speak of it: which of the two is stored
depends on the order.

### Fairness

`ProjectionStore`: `WF` on `Unlock` and `EndOrphan`: the
callback is bounded by the context the code passes to it, so it returns. `SF` on
`CompareAndSet`: the lock comes and goes, and PostgreSQL queues the waiters of a
row lock, so a waiting statement gets its turn. Nothing is assumed of the caller
that loads, of lock holders taking the lock again, or of the operator.

`Convergence`: `WF` on the steps of a started run, since every request and the
command itself have a deadline, and on a sent write being taken or refused, which
only says that a request does not travel for ever. `SF` on some run starting:
somebody keeps running the command, which is how the documentation says to recover,
and the row lock is queued. No fault, no persisted projection and no preview is
forced. `Converges` is about what happens after the last fault and the last write
of others, which the bounds make finite.

`Pipeline`: the fairness of `ProjectionStore`, and `SF` on a caller loading the row
again once something has arrived (callers reload and re-evaluate, whatever else they
do in between). A caller may stop before its statement every time the row is locked,
so `LastFactPersists` asks for one caller whose statement again and again does not
wait for a lock; nothing else is assumed of callers. The fairness of
`ProjectionStore` is checked in this run, which has its actions but `Remove`.

## 4. What is proved

For every value of the constants that satisfies the named assumptions:

- `FreshnessProofs`: `Compare` and the OR chain are strict total orders; the two
  SQL forms agree (`SqlFormsAgree`); they agree with Go when the database orders
  as Go does (`SqlOrderIsGoOrder`) and, on any database, for tuples that differ in
  the sequence or by a microsecond (`RoundingKeepsOrder`).
- `EventStoreProofs`: the properties of the two event-store runs. The inductive
  invariant adds to the types that keys are unique, that an acknowledged fact
  matches the stored event of its key (without it nothing links a worker about to
  upsert with the row another worker inserted), and that a key counted as created
  has a row. `TableDetermined` says that on any database two histories that offered
  the same facts end with the same canonical facts, apart from `received_at`: of
  the newest offered facts, two that tie have one event key, so one hash
  (`OneEventPerKey`), and the hash determines the row (`HashDeterminesRow`).
  `ReplaysAreAccepted` is the other half of the replay check: the columns it compares
  are functions of what is hashed (`HashDeterminesFact`), so an equal hash is never
  refused.
  `GoFreshestStored`, `TableHoldsWinners` and `NeverRefused` assume
  `DatabaseOrdersAsGo`, which the violation runs show to be needed.
  `TableHoldsWinners` links the tables with `ResolveBatch`: the rows are exactly the
  winners of the facts offered, the set that `Pipeline` calls `Winners`.
- `ProjectionStoreProofs`: every safety property of the run. The invariant says
  that a row is the last commit of its era and that a loaded row was committed in
  the era it was read in. From the version match alone a writer could have
  replaced another row of the same version; the chain of commits excludes it.
- `ProjectionProofs`: the facts of a batch are strictly and totally ordered, so a
  finite set of them has exactly one last fact (`LastExists`, `OneLast`), a set of
  facts leaves no field of a projection open (`OneMeaning`), and applying the latest
  fact to the projection of the others gives the projection of all (`ApplyLast`).
- `ResolverProofs`: type correctness, `FailsExactly`, and
  `DeliveryOrderIrrelevant`: the returned projections are what the set of accepted
  facts says. The invariant follows the loops: the facts are those of the events
  read; the winners are the freshest of the candidates visited; the projections
  are those of the facts applied, all of which precede the rest. Two lemmas carry
  it: `ApplyLast` (applying the latest fact to the projection of a set gives the
  projection of the larger set) and `AppliedTotal` (distinct facts are never
  unordered, which makes the unstable sort harmless). `ResultDetermined` adds that
  the description has one solution, so equal sets of events give equal
  results. `DeliveriesDecided` needs a second invariant, `DecidedSoFar`: the
  duplicates are the deliveries read whose key came before, and the decisions one
  judgement per fact. A fact is found by the key of any of its deliveries because
  the batch fails on a reused key with another hash.
- `ConvergenceProofs`: `TypeCorrect`, `SubjectStaysBound` and `SuccessConverges` for
  every provider; `NeverOverwritesUnread` for one with `Versioned`; `RefinesTarget`,
  that `Convergence` implements `Target`, for one with `Versioned` and `Unique`;
  `OneProjectionAtATime`, which is `WritesOneProjection`, again for every provider.
  The invariant `IndInv` says what a request on its way stands for: it carries what
  its version of the row says (`Contents`) and addresses the resource its run has
  read (`Reads`); its precondition matches a resource only if that is still the state
  that was read (`Versions`); a change whose precondition still matches is no
  older than what the account shows, or is astray (`Forward`). The last part holds
  at `Take` because every take gives the resource a new version, and at `Apply`
  because a run that sends holds the lock, with the last row, or is astray
  (`Locks`). `Undisturbed` links what a run has read with what is there as long as
  nobody has overtaken it. The lemma `Unambiguous` shows that the command's check
  of the attribute list leaves nothing for the error of `managedDesiredValues` in
  `Apply`, which is why `Apply` has no such outcome. `OneProjectionAtATime` needs a
  second invariant, `OwnIds`: an identifier names one resource and the one of a
  create on its way names none, so a write addresses one resource at most.
- `DuplicateProofs`: `DuplicatesCaused`, for every provider. It is a bound: faults and
  writes of others that create nothing count too, and it is exact where there were
  none. The bound on resources is
  not inductive, since a create on its way is a resource to come and a run that lost
  its lock may still send one. `Counted` bounds the three together by
  `1 + faults + others`, and the creates without a lock and the runs without a lock
  by `faults`. A run with the lock sends a create only when its lookup found
  nothing, and then all creates on their way are loose, each with a fault of
  its own; that is where the 1 comes from.
- `PipelineProofs`, for any finite set of facts of one subject and any callers:
  - `LoopComputesMeaning`: the recursive `Projected` is well defined and computes what
    `Describes` says. Induction is replaced by the smallest counterexample among the
    subsets of a finite set (`SmallestSet`, from the library's `WFMin`): a function
    that solves the equation on as many sets as possible solves it on all
    (`ProjectedExists`), and a smallest set with a wrong projection is right by
    `ApplyLast`.
  - `PipelineUsesStore`: the pipeline implements `ProjectionStore`, its fairness
    included, so the theorems about the store hold for it.
  - `RowMeansFacts`: the row is what the facts in `reflected` say.
  - `ForgetsOnlyRetroactively`: a write forgets a fact only in the race of finding 5,
    whatever the facts and the order of the database. A caller that had loaded a row
    forgets nothing, by the version alone (`LoadedKeepsFacts`); of the others, one
    that gets past the freshness check although it resolved fewer facts must have
    resolved a fresher fact that takes effect earlier (`RetroactiveFact`).
  - `CatchesUpAndStays` and `FreshestSettles`: the safety part of `LastFactPersists`. A
    caller that resolved all that has arrived and was not overtaken leaves the row no
    older than that, written or refused, and nobody takes it back until another fact
    arrives. A row that has caught up has the tuple of the last fact if that fact is
    the freshest; this part assumes `DatabaseOrdersAsGo`. What is left to TLC is that
    such a caller comes along.

  The invariant `PipelineInv` adds to the store's that the sets callers resolved and
  the set the row was resolved from form a chain, as each was all that had
  arrived at some time; that the row is the resolution of the latter; and that a
  caller whose loaded row is still the row resolved all that it reflects. A
  row that is written is new to every caller because its version is (`WrittenIsNew`).

Only model-checked: `WritersReturn`, `Converges` and `LastFactPersists`. They say that
something happens, under fairness, which is outside what the prover handles.

## 5. Not modelled

- The reconcile command, the scripts and CI: input and output around the modelled
  parts.
- URLs, headers, JSON encoding, log and error texts. A malformed or ambiguous answer
  of the directory is a failed lookup.
- Trimming of flags, and the grammar of `validAttributeName`: the set `WellFormed`.
- Dotted and URN-qualified attribute names, which the adapter looks for only at the
  top level of a resource; whether a provider nests them is not the program's.
- Different flags of runs that work on one subject at the same time.
- `updated_at` and `created_at`, which the program never reads.
- The order of the returned decisions. The comparator at `resolve.go:85` ties the
  decision about a fact with those about its repeated deliveries, and `sort.Slice` is
  unstable, so in long lists their order may depend on the deliveries; what the list
  contains is modelled and proved.

## 6. Plan

Done: all components but the ones of section 5, the refinement of `Target` and what
is left of it on weaker providers, the link between the event tables and
`ResolveBatch`, and a proof of every safety property that a passing run checks. Left:

1. One module in which the facts a caller of `Pipeline` resolves are read from
   `canonical_facts` of `EventStore`. The repository has no call that reads the
   table, so the reader would be external; `TableHoldsWinners` already says that it
   would start from the same facts.
2. The command with different flags for one subject at the same time.
