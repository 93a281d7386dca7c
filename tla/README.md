# KDNA: TLA+ models, checks and proofs

KDNA packages judgment assets as containers, admits them in *Core*, and discloses parts
of them through *Read* to a *Host* that decides what may be seen.  This directory holds
TLA+ models of the parts of that code which keep state across awaits, callbacks and
calls, TLC configurations that check them on small instances, and TLAPS proofs of what
matters most for every instance.  Paths below are relative to the repository; the exact
lines behind every definition are in `PROJECT.json` under `map`.

## 1. Inventory

| Part | State it keeps | Operations | What is hard | What makes it correct |
|---|---|---|---|---|
| **Protection operation** `kdna-core/src/public-contract/protection-operation.js`, `protection-grant.js` | per operation: disposed, generation, last clock sample, verified grant, high-water view, promise queue; checkpoints in a WeakMap | `issueOperation`, `observe`, `assertCurrent`, `disposeProtectionOperation`; calls out to `clock`, `refresh`, `readAdvance` | four awaits in one observe, callers in parallel, callbacks that throw, answer late, go back in time or dispose the operation they serve | observes are serialised; a checkpoint is issued on a grant that the newest shared view confirms and the newest sample finds valid; only the newest checkpoint is affirmed; disposal is final; a revoked or expired high water is never undone |
| **Protected delivery** `kdna-read/src/protected-delivery.js`, `protection-node.js` | per Read: delivery token (owner active, lifecycle, pending, failed, disclosure record) | `readProtectedNode`, `prepareDelivery`, `closeOwner`, `commitProtectedTransport` | commits race with the callback that owns the token, with each other, and with disposal; the sink is irrevocable | at most one send, recorded before it happens, only while the Read is in its callback; ready hides no failed commit; facts are kept |
| **Host gate and Read pipeline** `kdna-read/src/pipeline.js`, `host-gate.js`, `delivery.js`, `expansion-handles.js` | per Host: denial history, handle registry; per protected Host: handle owners | `prepareRead`, `runRead`, `observe`, `registerPreparedHandles` | concurrent Reads share the Host state between awaits; Host answers carry their own clock and need not be in order | a standing denial bars every Read of the asset; only delivered handles exist; an expansion stays in its handle's epoch and lifetime |
| **Remote Read transport** `kdna-read/src/transport.js` | per process: map of associations | `admitReadTransportResponse`, `boundedBody` | replay, capacity, slow peers, lifetimes that end while the body is read | an association is consumed once, the map is bounded, reading is bounded |
| **Grant issuer** `kdna-core/.../grant-issuer.js` | per process: reservations | `issueExternalKeyGrantForAsset` | a pool of four, a deadline that answers before the work ends, file operations that hang | one terminal result; reservations come back; no secret and no grant bytes outlive a lost race |
| **Package sets** `kdna-core/.../package-set*.js`, `kdna-read/src/package-set-*.js` | per provider: last clock; per Read: facts latched by its own Host | admit, recheck, read with one physical sink, handoff | members are observed again before, during and after the sink, by callbacks that abort or run parts of another Read | the first cause stands; a token or a registration means that every observation allowed |
| **Protected sources** `kdna-core/.../protected-source-*.js`, `source-protected-*.js` | per opening: token, revision context, closed record; one source queue | open, deliver, commit, preview, revise, dispose | checks of all calls wait in one queue, whose continuations run late | one send and one revision, only while the owner is in its callback |
| **Section Reads** `kdna-core/.../section-*.js`, `retained-*.js`, `kdna-read/src/sections-node.js`, `retained-sections-node.js`, `section-handles.js` | per Host: denials, registry, lineage; per preparation: its phase | read sections, prepare, read retained, expand | the file is rewritten while it is captured; handles descend from handles; two families share one Host | a snapshot is one version; an expansion keeps its origin; a preparation serves once; a denial bars both |
| **Execution** `kdna-core/.../execution.js` | per Host: spent request and run ids, last time; the protected sources that are disposed | `consume` and its four callbacks | callbacks call `consume` again or dispose a source it uses; clocks fail or go back | one attempt for an id; ordered receipts; output inside its authorization and none without its source; the first cause stays unless the source is gone |
| **Payload and browser delivery** `protected-payload-*`, `protected-browser-*`, `protected-sections-*` | as protected delivery | as protected delivery | as protected delivery | left out (section 7) |
| **Byte budget** `kdna-read/src/budget.js`, `budget-decision.js` | per process: the serial of receipts and handles | `finish`, `measure`, `decideBudget` | an envelope contains its own counts | counts are honest; the figure a caller is told is enough; causes are kept |
| **Core admission** container, CBOR, canonical IR, `r2-*`, `cross-entry.js` | none | pure functions of bytes | data, not order | left out (section 7) |
| **Runtime contract, loader, composition, evaluation, artifact engine, fidelity** | none, or files of one writer | sequential | numeric and data edges | mostly left out |
| **Release tooling** `packages/kdna/scripts`, `scripts/*authority*`, `scripts/*publisher*` | the registry, its tags, evidence files | guard, publish, wait, verify | a registry that lags, uploads whose answer is lost, workflows that overlap or run again | green means the approved bytes; a repeated run passes; no version is replaced |
| **Generation writer** `scripts/public-contract/generation-writer.mjs` | the output tree and a stage of originals | `writeOutputs` | file system calls that fail, also in the roll back | left out: a development tool, run alone (section 7) |
| **Generated validators, conformance kit, Python SDK** | none | | | left out |

Interaction.  A Host gives Read two callbacks (observe, deliver) and an embedding gives
Core three (clock, refresh, readAdvance).  A protected Read asks its operation's binding
for a checkpoint at every phase, asks the Host twice whether the asset may be seen, hands
the prepared envelope with a one-use token to the Host's callback, and the callback may
call `commitProtectedTransport`, which asks the binding and a scope observer once more and
then enters a synchronous sink.  Everything runs on one event loop: code between two
awaits is atomic except for what a callback does reentrantly.  The parts meet in few
places, and the models meet there too: protected delivery and protected sources use an
operation only through what `CheckpointAuthority` promises, and both implement
`DisclosureHistory`; both families of section Reads share the Host state of one
`SectionRead`; the release workflows of all versions run on one `NpmRegistry`.

The complete list of hazards, each at its line and with the properties that cover it, is
in `PROJECT.json`.

## 2. Plan

The order in which the modules were written, the most consequential first:

1. `ProtectionOperation` with `CheckpointAuthority`: everything else stands on checkpoints.
2. `ProtectedDelivery` with `DisclosureHistory`: the irrevocable step.
3. `HostReadGate`: the state Reads share.
4. `TransportAssociation`: the other process-wide map.
5. `GrantIssuer`, `ExecutionHost`: reservations, deadlines, nested callbacks.
6. `ProtectedSource`: a second implementation of `DisclosureHistory`.
7. `PackageSetRead`.
8. `SectionRead`: captures, retained Reads and handles.
9. `NpmRegistry` with `ChannelRelease`.
10. `ReadBudget`.

Every component that is modelled has proofs.  They are in eight modules: the protected tokens,
a delivery's and a source's, share `DisclosureProofs`, and the parts of a Read, its gate, package
set and budget, share `ReadProofs`.  No module contains a RECURSIVE operator.

## 3. Modules

**`CheckpointAuthority`** is what holders of checkpoints may rely on: a checkpoint opens an
epoch, only the newest may be affirmed, closing is irrevocable.

**`ProtectionOperation`** models one operation.  `issued disposed generation lastTime
verified highWater queue` are the fields of the record; `pc captured seen` are the
suspended invocations of `current` and their locals; `checkpoint` is the newest checkpoint
each observer holds; `outcome` and `ruling` are the last answers; `ended` is history: the
status versions whose revoked or expired view became the high water.  A view that contradicts
an active high water at its own version is a rollback to `advance` and is not remembered: a
later active view of that version is accepted again, so `RevocationIsFinal` says nothing of it.
Every await of `observe` is a boundary between actions:

| Action | Code |
|---|---|
| `Init` | the record `issueOperation` makes, its `current` about to run |
| `CallObserve` | the synchronous part of `observe`: append to `record.queue` |
| `Begin` | first clock call, refresh decision, call of `refresh` or `readAdvance` |
| `RefreshAnswers`, `RefreshFails` | after `await refresh`: verify, replace the grant, clock again |
| `AdvanceAnswers`, `AdvanceFails` | `advance` after `await readAdvance`: rollback tests, high water, refusals |
| `Resume` | last clock sample and `validity` |
| `Interrupt` | `check()` after any await: disposed, or a moved generation |
| `Publish`, `PublishDisposed`, `Issue` | the ends of `observe` and `issueOperation` |
| `AssertCurrent`, `AssertStale` | `assertCurrent`, clock callback included |
| `Dispose` | `disposeProtectionOperation`; also possible inside every clock call |

The provider may answer anything of the right shape, throw, or give a sample that is not a
number.  Grants are records of the fields the code compares; that a grant verifies is
membership in `Grants`.

**`DisclosureHistory`** is the promise of section 6.1 of `specs/protection-admission.md`: at
most one send, on record before it happens, never taken back, none after the owner settled.

**`ProtectedDelivery`** models Reads and commits on one operation, whose binding is used
through what `CheckpointAuthority` promises (`Observed`, `Unobserved`).  `token[r]` is the
state object of `prepareDelivery`; `running` marks the synchronous part of a commit, during
which only reentrant steps (dispose, another commit call) happen.  `CallCommit` reserves
the token before it looks at the transport, `CommitObserved` and `ScopeObserved` are its
two awaits, `Attempt` consumes the token and records the attempt, `SinkReturns` enters the
sink, `Confirm` takes the confirmation time.  `CheckPasses`, `CheckFails`, `HostObserves`,
`CallbackReturns` and `Reject` are the Read's side.  The Host's denial of the asset is one
bit, for one Host, epoch and asset.

**`HostReadGate`** models Reads of one asset on one Host, public or under an operation.
`denied` is `state.revocations`, `registered` is `hostState.handles`, `owners` is
`handleOperations`.  A Host answer is a window (epoch, current time, expiry) with an
optional lift or denial.  A Read's name stands for the handles it mints.

**`TransportAssociation`** models calls of `admitReadTransportResponse` that share
`associations`.  The wall clock (`Date.now()`) and the timers are separate: `Steady` says
the wall clock is never set.  Bytes are counted, not represented.

**`GrantIssuer`** models the calls of one process.  `reserved` is the counter; a call is at
`pc` one of the file operations, in the synchronous issue, or `settling`, which is the
microtask between the end of the work and its continuation.  `Refuse`, `StartFile` and
`StartBytes` are what a call does before it first waits; `OpenAnswers`, `StatAnswers`,
`ReadAnswers` and `CloseAnswers` are its awaits, `Settle` the continuation of line 122,
`TimerFires` the timer; `now` is the monotonic clock.  Secrets and grant bytes are a bit
each: held, or zeroed.

**`ExecutionHost`** models one Host.  `consume` is synchronous, so calls in progress form a
stack: a step may run only for the innermost call, and any callback may push another.
`step` counts the ten places where the code can be between callbacks; a call that has a
`failure` goes on to its receipt and its self check as the code does.  A request comes from a
source; `disposed` holds those whose protection operation is disposed, which `Dispose` may do
between any two callbacks and inside them.  `CheckCode` is the check of the call's own record,
which looks the request up again (`Live`) before it compares anything.

**`ProtectedSource`** models one opening with the commits and revisions made with its token
and context, inside its callback or after it.  The source queue is a sequence of callers,
because the code chains promises: the head's check runs, and the next starts when it ends.
A revision continues one microtask after its check; the state `fresh` is that hop, in
which the callback may settle.  `SourceHistory` is `DisclosureHistory` with one token.

**`PackageSetRead`** models the own Host of each Read, its checks and its sink, over one
member provider.  An observation takes its rows one by one, each moving the provider's clock,
and may be rejected after some of them.  Observations are synchronous callbacks; steps of two Reads interleave at
every callback, which is more than the event loop does (only a provider's callback can run
another Read's code) and includes everything it does.

**`SectionRead`** models section and retained Reads of one file on one Host.  A capture
opens, reads and looks at the file's identity again in separate steps, between which it is
rewritten; every rewrite changes what `stat` says (the code compares inode, size and
nanosecond times).  Only rewriting in place is modelled: replacing the file leaves the open
descriptor with the old bytes, which is the easier case.  A rejected Read is delivered in
the step that rejects it.

**`NpmRegistry`** is external: a version is published once, publishing moves one tag, what
lookups show may lag, an abandoned request may still arrive, and others may publish and move
tags.  **`ChannelRelease`** models the workflow of each version of a channel on it (guard,
publish, wait for the tag, verify), which ends green, refused or lost and may run again.

**`ReadBudget`** models measuring, deciding and asking again.  An envelope is its base length
plus the printed width of the numbers in it; `Width` and `Fixed` are what `String` and
`padStart(16)` do.  `ids` says where in the envelope each handle's id is printed (with the
handle, in its descriptor and in the omissions it lifts).  The caller that asks for the figure it
was told is the loop of `python-sdk/tests/scenarios.py`, and as in that loop the asset, the scope
and the fields the Host names (its id, epoch, decision and time) keep their length over the
attempts of one caller; with a Host that prints longer fields every time, nothing converges.

**`...Proofs`** modules hold the theorems of section 5.  **`MC...`** modules give the
constants values and state the symmetry.

Each module has definitions marked `Fault:`, variants of one of its definitions with a
plausible bug.  Nothing uses them in a specification; putting one in the place of the
definition it varies makes the property named in `PROJECT.json` (`mutants`) fail, which
shows that the property speaks about the code.

## 4. Runs

One run for each component, safety and liveness together, and one that exhibits a
disagreement.  `...Invariant` is the conjunction of a module's type invariant and of the
state invariants that speak about one component; its definition names the parts.

| Run | Instance | States | Shows |
|---|---|---|---|
| `operation` | external refreshable grant, online; 2 observers, generation at most 3; `FairSpec` | 312 k | `OperationInvariant`: serialised observes, checkpoints agree with the high water, which is never ahead of the clock.  Revocation is final, affirmed authority is current, disposal wins, `CheckpointAuthority` is implemented, every observe settles |
| `delivery` | 2 Reads, 2 commits, 3 times; symmetry | 2.9 M | `DeliveryInvariant`: sends only while owned, ready hides no failed commit, disclosure times in order.  Standing denials block sends, `DisclosureHistory` is implemented |
| `transport` | 2 calls, 2 ids, capacity 1, body of one byte; steady clock; `FairSpec` | 136 k | `AssociationInvariant`: bounded map, one consumption per lifetime.  Full means live, accepted in lifetime, reading ends |
| `gate` | 3 Reads, 2 operations, 2 epochs, 3 times | 324 k | `GateInvariant`: delivered handles only, of their own operation, in their window.  Standing denials bar |
| `issuer` | 3 calls, pool of 2, times 0..3; `FairSpec` | 620 k | `PoolInvariant`: exact pool, secrets inside reservations.  No grant outlives a lost race, every caller is answered, reservations return |
| `execution` | 2 calls, 1 source, 2 request and run ids, times 0..2 | 5.2 M | `AttemptInvariant`: one attempt for an id, records fail their check only for a disposed source, output is authorized.  Ordered receipts, none without a live source, first cause kept unless the source is gone |
| `source` | 2 commits, 2 revisions, deadline between two times; `FairSourceSpec` | 121 k | `SourceInvariant`: one use of a context, honest final reports, a queue of exactly the calls that wait.  `RevisionsKeepTheirOpening`: late answers dropped, no revision after the report, authority not renewed.  `DisclosureHistory` is implemented, every call returns |
| `source_callback` | 1 commit, 1 revision | | the finding below (expects a violation) |
| `package` | 2 Reads, 2 times; `FairPackageSpec` | 66 k | `PackageInvariant`: clean tokens, registration after confirmation.  `WhatWasMetStays`: decision, first failure, member clock.  Every Read returns |
| `sections` | 3 Reads, 1 preparation, 2 versions | 2.7 M | a snapshot is one version, expansions keep their origin, `PreparationInvariant`: a preparation serves once, denials bar both families |
| `release` | 2 versions, 2 runs each, one meddler, lagging lookups; stable channel | 305 k | `ReleaseInvariant`: green means approved.  Repeated runs pass |
| `budget` | 2 callers, lengths on both sides of 99 bytes, serials on both sides of 9 | 208 k | `AnswerInvariant`: honest counts, kept causes.  Few retries, the figure told is enough |

Finding, a disagreement between sentences of the repository and the code, shown by
`source_callback`: `protected-source-revision.js:16` says that only the still-open owning
callback may publish.  The opening closes its record after its own return check, which waits
in the source queue; a revision ahead of it there is produced after the callback has settled.

Seen while modelling.  No run checks these; each becomes a counterexample when the property
named is put in the place of the invariants of the module's run:

- `specs/protection-admission.md:386` says that known newer revoked state rejects.
  `advance` stores a revoked view and fails the observe, but a checkpoint issued before it
  is still affirmed by `assertCurrent`, which does not look at the high water
  (`KnownRevocationRejects`).
- `specs/public-semantic-source.json:32855` says that association ids are consumed once
  per process for their lifetime.  Lifetimes are compared with the wall clock: set back
  after another call pruned an id, it admits the id again (`ConsumedOncePerLifetime` with
  `Steady = FALSE`, three calls and capacity 2).
- `pipeline.js:100-103` says expired handles would accumulate without bound in a long
  session and are therefore dropped.  The map of handle owners in `protection-node.js`,
  filled with the same ids, is not (`OwnersAreUnexpired`).
- `package-set-host.js:133-135` says that a failure is latched so that the caller is never
  told about a nameless one.  A malformed Host context throws outside the latch, and a
  failed final recheck sets no cause (`OwnHostFailuresAreNamed`).
- `execution.js:279` says that an already decided refusal keeps its first cause.  A source
  disposed inside a callback makes the check of the record (line 298, through 59 and
  `brand.js:45-48`) fail, and the call tells `EXECUTION_SOURCE_UNATTESTED` instead
  (`RefusalKeepsItsCause`).
- `docs/release-stable.md:107` says that altered tags fail closed.  Tags are looked at
  before the upload; another version's workflow may move them in between
  (`AlteredTagsFailClosed`).

### Bounds

- Two observers suffice for every race of two observes; a third only lengthens the queue,
  and the proofs cover any number.  Grants and views are two versions in the statuses that
  matter, with clock samples on both sides of `refresh`, `grace` and `expires`.
  `MaxGeneration` bounds how many observes are called: enough for a checkpoint each, one
  more, and disposal.  It restricts callers only.
- Two Reads and two commits give commits on one token, on two tokens, and a denial brought
  by another Read.  Times 0..2 hold samples before, at and after an expiry.
- Three Reads are a minting Read, one that expands its handle, and one whose delivery
  prunes or whose answer denies in between.
- Capacity 1 with two ids and two calls meets replay, fullness and pruning; the bodies are at
  most one byte because only "one more than the limit" matters.  The proofs cover any capacity.
- The operation runs as a refreshable external grant in online mode, which takes every action.
  The branches for local credentials, for offline use and for a grant without a refresh
  callback are covered by the proofs; `Kind`, `Mode` and `CanRefresh` in `MCOperation.cfg`
  select them (1,928 and 121,444 states, no error).
- Three calls on a pool of two: one that holds, one that times out and still holds, one that
  is refused.
- Two nested executions are enough for an inner call at every callback of an outer one with
  the same or other identifiers; three would only nest the inner one again.  One source is
  alive or disposed at every callback of both; with two sources, alive independently of each
  other, and times 0..1 there are 583,151 states and no error.
- Two commits and two revisions give a race of each kind with itself, with the other kind and
  with the end of the callback.
- Three section Reads are a minting Read, an expanding one and one that denies, prunes or
  presents the preparation too.  With its one preparation the run does not reach an expansion
  of a retained handle, which takes a second one; the proofs cover any number.
- Two versions are an older and a newer release; two runs of each give a crash and a repeat;
  one meddler suffices to publish something else first or to move a tag.
- In `ReadBudget` numbers have at most three digits instead of sixteen: each digit boundary
  is like the next.
- Two versions are published to the stable channel; the preview channel moves another tag.
  The proofs cover both, and `Moved = "preview"` checks the second (293,406 states, no error).
- Deadlock is not checked: Reads, commits and calls are finite in number and then the
  system rests.  That none rests too early is what the liveness properties check.

### Fairness

`FairSpec` of the operation assumes that the event loop runs every continuation whose promise
has settled, and that promises of host callbacks settle: weak fairness of each caller's own
steps.  The code has no timeout on these callbacks, so without the second assumption an observe
may wait forever; the repository leaves such bounds to the embedding.  No fairness is assumed
of callers: nobody has to call, commit or dispose.  In the transport only time and due timers
are fair; the peer owes nothing.

`FairSpec` of `GrantIssuer` (time, timers and microtasks) answers callers whatever the files
do.  Reservations come back only if file operations end, as in the code; that assumption is
the antecedent of `ReservationsReturn`.  `FairSourceSpec` and `FairPackageSpec` take weak
fairness of the steps a call has begun: callbacks and lookups answer, and nothing has to be
started.  The other modules assume no fairness.

## 5. Proofs

`ProtectionOperationProofs` is about `ProtectionOperation`, for every set of observers, grants, views and samples,
both credential kinds and both modes, from `ConstantsAssumption` alone (the issuer is not
an observer, null values are not values, grants and views are records over the naturals).

`IInv` strengthens the invariants of the runs with what makes them inductive:

- `GrantHeld`: an external operation that is alive holds a verified grant, since only
  disposal clears it;
- `SeenIsPast`: the sample handed to `readAdvance` was accepted by the clock, which is why
  the view it comes back in cannot put the high water ahead of the clock;
- `EndedIsBehind`: every version in `ended` is behind the high water, or is the high water
  and not active, which is why `PublicationAgreesWithHighWater` excludes it.

The proof that steps preserve `IInv` is by action.  Two lemmas carry most of it:
`SettleIsolates` (when the running observe settles nobody is in flight, by serialisation)
and `SuspendStep` (what is left to show when it awaits again).  From `Invariance` follow
the types, serialisation, `PublicationAgrees`, `HighWaterBehindClock`, and the action
properties `RevocationFinal` and `AuthorityCurrent`.  `Refinement` maps `Publish` to
`Grant`, `AssertCurrent` to `Affirm`, `Refuse` or `Close`, disposal to `Close`, and every
other step to a stutter.  `DisposalDecides` needs one more invariant, `IssuedFirst`: an
operation that is still being issued cannot be disposed.

`TransportAssociationProofs` is about `TransportAssociation`, for every set of calls and
ids, every capacity, lifetime and body ceiling, from `ConstantsAssumption` and
`NoContextAssumption`.  `MapInv` adds to the types and to `CapacityIsBounded` that the map
is finite, without which its cardinality means nothing; `MapBounded` follows for any clock.
`ConsumedOnce` and `AcceptedLive` assume `Steady`, and section 4 tells why the first is false
without it; `TypeCorrect` holds for any clock.  `LifetimeInv` strengthens `ConsumedOncePerLifetime` with `LiveIsKept` (an
association that has not expired is in the map: pruning removes only what the clock has
passed) and `ConsumedInPast`; the case that matters is `LifetimeBegins`, a call that
consumes an id while other calls hold expired associations of it.  `ConsumedOnce` and
`AcceptedLive` follow.  `FullOnlyWhenLive` holds for any clock and any finite number of calls.
Every entry is the association of a call that took its context once (`EntriesHaveCalls`), so
the live entries map one to one into the calls that hold an unexpired association.

`GrantIssuerProofs`.  The pool is exact because `reserved` counts the calls at work, so each
step is a lemma on the cardinality of that set gaining or losing one call.
`GrantFollowsWork` says where grant bytes are between the end of the work and its
continuation, the window in which a timer may answer first.

`ExecutionHostProofs`.  `ReservedIsSpent` gives single attempts; `TimesBounded` and
`EventsFollowSteps` tie the recorded times of a call to its step and to the Host's last time,
however many calls ran in between, which is what ordered receipts and the self check need;
`AuthorizationInHand` says which authorization a completed record can name.
`FirstCauseIsKept` needs `CauseTold`, that a call which returned tells its first cause or that its
source is gone, and the self check: if a record could fail it for another reason, the result
would name another cause.  `CheckCodes` and `Tells` say what a record's check may answer and what
a call returns for it; `ReceiptsNeedTheirSource` follows from them.
`StepShape` says what any step does to its call (it is rejected, begins, goes on or returns) and that
every other call keeps its locals; `StackIsExact` and the rank of a call follow from it.

`ReadProofs` extends three modules, `HostReadGate`, `PackageSetRead` and `ReadBudget`, which share
no name and no variable.  Each theorem is about the specification of one of them.

The gate.  `MintedByDisclosure` and `AdmittedHandle` carry facts about a minting
Read, which never change once it was delivered, to every Read that expands its handle;
`BarredIsDenied` ties what a Read must respect to what the Host remembers.

Package sets, for any Reads under one provider.  `PackageIInv` adds `GoingIsClean` (a Read on
its way to a result met nothing but allows, and its sink confirmed before anything that follows
the sink) and `ResultsComeLast` (a result is set in the final section only, and a token after
it).  Each step is shown once to keep the invariant and to take back nothing that was met
(`MetStays`), which gives `PackageInvariantHolds` and `WhatWasMetStaysHolds`.  `NewestIsClock` (the
clock is the newest row ever taken) is why no Read takes an older row, one of a rejected
observation included.

The budget, for any bodies, budgets and callers moving the serial.  Lengths are counted with
cardinalities of sets of powers of ten, so the lemmas (`WidthGrows`, `WidthTells`,
`ReadyBareGrows`) follow from facts about finite sets.  `ToldFigure` keeps the figure a refused
caller was told and says it asks for nothing else; `Growing` says no number it prints gets
shorter; `Paid` charges every refusal but the first to a digit that the limit, the serial of
the receipt or the serial of the first handle gained since the caller began.  `RetriesAreFew`
follows from `Paid`, and `FigureIsEnough` from `RefusalNeedsADigit`: a second refusal with no
new digit contradicts `ToldFigure`.

`DisclosureProofs` extends the two modules that implement `DisclosureHistory`, `ProtectedDelivery`
and `ProtectedSource`, in the same way.

The delivery, for any number of Reads and commits.  `Ownership` and `Callers` say
what a token tells about its Read and what a suspended commit holds, `Record` orders attempt
and confirmation, `Single` says that one commit at most had a delivery, and `Sends` counts
entries of the sink by the attempts on record.  `RefinesDisclosureHistory` maps the step
that records an attempt to `Attempt`, the call of the sink to `Send`, whose outcome is
confirmed or unknown, and the Read's leaving its callback to `SettleOwner`; every other step
changes nothing the history sees.

The source, for any commits and revisions of one opening.  `PhaseTells` says what a token's
phase tells of its record and that one commit at most is in the sink; `EndsFollow` closes the
token with the callback and the record with the opening; `ContextGiven` gives the context
to one call; `ReportComesLast` says that no revision has its answer in hand when a source
is reported delivered.  `QueueGains` and `QueueLoses` carry `QueueHoldsWaiters`: a call joins the
queue when it begins to wait and leaves it with its answer.  `RevisionsStayInOpening` follows
from the inductive step.  `RefinesSourceHistory` maps `BeginCommit` to `Attempt`, the answer of
the sink to `Send` and the closing of the token, at the end of the callback or of an opening that
never reached it, to `SettleOwner`.

`SectionReadProofs`.  `Captured` bounds the version of every byte read by the version at the
opening and the present one, so that an identity that did not move leaves one version;
`Preparing` fixes who holds a preparation; `Handling` is the fact about minting Reads again.

`ChannelReleaseProofs`.  What a lookup shows was published (`ShownIsPublished`), and a run that
began settled finds what it saw for as long as the tags stand (`SettledStands`); green and
repeated runs follow for any number of versions, runs and lost answers.

For each component the proofs end with the theorem that its run's conjunction is an invariant
(`DeliveryInvariantHolds`, `SourceInvariantHolds`, `PackageInvariantHolds` and so on).  The
conjuncts that are also theorems of their own (`Serialised`, `PoolStaysExact`, `SendsAreOwned`
and so on) are not listed again in `PROJECT.json`.

Some results are proved of properties that no run spends its time on.

- `FactsKept`, `AnsweredOnce`, `IssuedBeforeDeadline` and `HandlesStay` are action properties and
  invariants of one component.
- What the checkpoint authority means for its readers: `CheckpointsDiffer` (one reader for each
  generation) and `AffirmationIsExclusive` follow from the authority's own steps, and the
  operation inherits them through `StepRefines`.
- `StackIsExact`: the stack of a Host is the set of calls in progress, each once.

### Progress

The provers know neither ENABLED nor induction over time, so progress is proved in the
parts that can be.

*Somebody has a step.*  Where the code may wait (a queue, a lock, a callback, a file, a peer),
a theorem names the caller whose turn it is and gives its step: an assignment of
every variable, in which what it waits for throws or its timer fires, that is a step
of the specification and changes the state: `NoOpeningIsWedged` (the queue of a source, from
`QueueHoldsWaiters`), `InnermostGoesOn` (calls inside callbacks of a Host),
`NoAnswerNeedsItsFile` (the issuer, however its files hang), `NoReadingNeedsItsPeer` (the
transport, however its peer stalls).

*Nothing repeats.*  `NoStepRepeats`, `NoSourceStepRepeats`, `NoIssueStepRepeats`,
`NoAdmissionStepRepeats` and `NoExecutionStepRepeats` give each call a rank that every step
of it lowers and no step of another call raises.  A call that keeps taking steps ends, and no
interleaving goes round in a circle.

*What follows under fairness.*  Two liveness theorems are proved.  `ReadsFromSetsReturn` is
`EveryReadReturns` for any set of Reads.  `FrontObserveSettles` says that the observe whose
turn it is settles, through every phase and every disposal.  Both take as hypothesis that the
caller's action stays ENABLED while it is under way.  `PackageHasAStep` and `FrontHasAStep` prove the
content of that hypothesis, an explicit step from every state of the inductive invariant; that a step
which exists is an enabled one is the definition of ENABLED, which the provers do not expand.

## 6. Only model-checked

- The ENABLED hypotheses of the two liveness theorems, as such: ENABLED is not expanded by the
  provers.  What they say is proved with explicit steps, as above.
- `EveryObserveSettles` for an observe behind the front, which is an induction over the length
  of the queue; `ReadingIsBounded` and `EveryCallAnswers`, over the time that is left;
  `ReservationsReturn` and `SourceCallsReturn`, over the number of calls at work.  The library's
  induction theorems take an operator as a parameter, which none of the provers can instantiate.
  The runs check all five on their instances.

Every other property of a passing run is a theorem, `EveryReadReturns` with the hypothesis
above.  No claim is made about recursively defined data.

## 7. Not modelled

- Bytes: container parsing, CBOR, canonical JSON, digests, signatures, key derivation and
  encryption.  They are pure; where they decide control they appear as a choice between
  success and refusal.
- The generated schema validators.  They are almost two million lines of unrolled
  comparisons, produced from the schemas, and outweigh all other source by far; a model that
  covered any visible share of the repository's lines would have to transcribe them.  Against
  the code with control of its own the modules above cover the stateful parts.
- The payload and browser variants of protected delivery.  They repeat `protected-delivery.js`
  over another projection; `ProtectedDelivery` is the model of the scheme.
- The interpretation of assets, Read projection, omissions, views, composition, the loader,
  evaluation, fidelity metrics: pure functions of large data.
- Building a grant, a container or a revised source: it succeeds or fails.
- `decidePackageSet` (`package-set.js`): a pure comparison of two lists, whose outcomes
  `PackageSetRead` takes; sealing and verifying a package-set handoff.
- `generation-writer.mjs`, which replaces the generated files of a checkout: it runs alone, at
  development time.
- The compatibility package's job and the `core-release-*`, `publish-eval` and ecosystem gate
  scripts, which compare fixed values or repeat the channel scheme with fewer checks.
- The browser entry of retained sections and the section variant of execution, which call the
  modelled code with other inputs.
- Receipts, diagnostics and their wording, except the codes that properties tell apart.
- The phases of `observe` (`stageFor`): they only choose the stage of a diagnostic.
- Zeroising of key buffers on disposal of an operation.

The reason for each part is in `PROJECT.json` under `components`.
