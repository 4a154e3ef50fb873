# TLA+ verification of the media engine

The engine turns research into videos and publishes them, run to completion by
a scheduled process that may die anywhere. Everything durable is in one SQLite
database and a directory of files. What must never go wrong is at the end of
the line: the same video must not be published twice, and the database must not
say of a publication what is not so. This project models that end first, with
the lock that makes the engine single and the cache that carries its state, then
the way a content version takes there, from the feeds to the last check, and
what it rests on: research, pictures, the language models and the runner.

## Inventory of the system

| Component | State | Operations | Interacts with | Hard behaviour |
|---|---|---|---|---|
| Publication (`publication/pipeline.js`) | a `publications` row per content version and provider, `content_versions.state` | `runPublication`, `attemptThumbnailUpload` | adapters (await, `saveProviderState` callback), Gate 2, authorization, retry policy | crash between claim and answer, ambiguous answers, resumed sessions, races of the claim |
| YouTube adapter | session URL in the row, locals of an upload | `publish`, `publishThumbnail` | the resumable upload service | partial and late storage, expiry, lost answers, bounded retry |
| TikTok, Facebook adapters | none durable | `publish` | their services | lost answers, moderation, processing that fails after the answer |
| Single-run guard (`state/SystemRun.js`) | `system_runs` rows | `acquireExclusive`, `finish`, `reclaimOrphanedRun` | entrypoint, runner, Owner CLI | race to acquire, dead holders, late finish, failing release |
| Entrypoint (`index.js`) | `guard`, `released` | discovery, runner, release | guard, discovery memory | which catch releases |
| Runner (`autonomous/runner.js`, `workSelection.js`) | sweep signature, `retryConsumed`, counters | sweeps over thirteen stages | every stage, one at a time | termination, pacing, stuck items |
| Hosted workflows (`.github/workflows`) | cache entries | restore, run, checkpoint, integrity check, save; reclaim | the database file and artifact directories | two writers, killed jobs, eviction |
| Bounded retry (`state/StageRetryPolicy.js`) | `stage_retry_state`, cycle history | record, quarantine, reactivate | most stages, selectors | accounting across crashes and cycles |
| Authorization (`state/SideEffectAuthorization.js`) | the Owner's file | resolve a grant | publication | a grant withdrawn between attempts |
| Final compliance, Gate 2 (`compliance/`) | compliance records, `content_versions.state` | evaluate, verify | publication, media | evaluation outside the transaction, evidence that changes after a PASS |
| Media production (`media/`) | media artifacts, files | narrate, time captions and pictures, render, finalize, short form | production manifest, assets | files promoted before the race check; timelines that must add up |
| Asset provisioning (`asset-provisioning/`) | assets, usages, attempts | plan scenes, search, screen, attach | asset sources, retry policy | awaits between scenes of one claim |
| Rights verification (`rights-verification/`) | `asset_verifications`, the cached status | select, evaluate, decide | assets, media | files that change, policies that succeed one another, disputes |
| Production, quality gate (Gate 1), originality, fact check, script, brief | stage rows, `content_versions.state`, `script_id` | one `run…` per stage | LLM router | scripts regenerated behind a gate, verdicts on stale evidence, quarantine |
| Research (`research/`) | projects, sources, claims, checkpoints | acquire, expand, extract, converge, verify | sources, LLM router | recovery of dead attempts, budgets, evidence of two facts merged |
| Discovery (`discovery/`, `autonomous/discoveryMemory.js`) | observations, opportunities, the schedule | admit, evaluate, select, record | feeds, research | a budget that starves, a death between two records |
| Providers (`providers/`) | cooldowns, the pacing gate | route with fallback, retry, pace | stages, cost tracker | concurrent calls on one gate, timers |
| Cost tracker (`state/CostTracker.js`) | `provider_calls` | check and record | router | budget checked and recorded apart |
| Storage, migrations, config, diagnostics, analytics, scheduler | — | — | — | little; SQLite is an assumption here |

What makes each correct: publication delivers at most once and its rows are
true; the adapter keeps the contract `PublicationProvider.js` states; the guard
admits one engine and its rows are history; the cache never goes backwards;
retries are paid for; the runner ends and forgets nothing; compliance is never
stale when used; only pictures whose rights are verified are rendered; evidence
of two facts never shares a row; every observation gets its turn; budgets hold.

## Modules

### Publication and the engine around it

**`Publication`** — `runPublication` for one content version. `row[p]` is the
`publications` row of provider `p`, `session` standing for
`provider_state_json`, `attempts` for `attempt_count`; `retry[p]` its
`stage_retry_state` row; `run[r]` the locals of an invocation; `upload[p]` what
the provider holds, which the engine cannot read. An action is the code between
two points where another process can write or this one can die: the reads up to
the claim (`Begin…`: they are synchronous), the claim transaction, each step of
the adapter, the settling transaction, the two writes of the thumbnail. `Crash`
is possible at every step and leaves the row alone. The conditions of the
gates — file, rights, Gate 2 — are one Boolean that may change at any time; a
grant is what the Owner's file gives the publish action. NEEDS_REVIEW and
BLOCKED are one state, HELD. Refusals only write the decision log and stutter.
Content enters at PRODUCED. Busy snapshots of SQLite are `ClaimRaced`.

**`PublicationOnce`** — the promise without the engine: an item is delivered to
a provider at most once, and a verdict is given once and is true.

**`YouTubePublication`** — replaces the adapter's contract by
`YouTubeAdapter.publish`: request and reply are two steps, `sent` and
`committed` tell what is on the wire from what is stored, and the provider may
store late, report less than it stored, or drop the session. The retries inside
one status query or initiation do not change what may be answered and are one
step.

**`ShortFormPublication`** — the same for `TikTokAdapter.publish` and
`FacebookReelsAdapter.publish`, which save no session: `told[p]` is how far the
provider was told to go with each upload, `accepted` what it has ever accepted.
`polled` providers publish what they are sent and are asked for the outcome;
the others publish what they are told to finish, answer at once and go on
processing.

**`RunGuard`** — `system_runs` as the lock, the two places that release it, the
death of its holder, reclamation. `OwnerChecks` says whether the Owner makes
sure the process is gone, as `scripts/reclaim-autonomous-run.js` asks.

**`GuardedPublication`** — composes the two: invocations run inside the runner
of a process that holds the guard, one at a time, and die with it.

**`RunState`** — the workflows that carry the database through a cache. The
database is reduced to the transactions it remembers, the guard row, and whether
files and rows agree. `ReclaimAlone` says whether the Owner keeps reclamation
and scheduled runs apart.

**`Runner`** — `runAutonomousOperation`, run after run: a sweep selects for
every stage first and then calls each stage for its items in turn. `item` holds
the rows the selectors read; a stage is what it may leave of them (`…Results`),
what it does inside being the other modules. The text stages between research
and production, alike for the selectors, are the sequence `Line`. A failure is
recorded in `stage_retry_state`, or is a refusal (`Refused`): the stage returns
an outcome, writes at most a line of `decision_log` that no selector reads, and
finds the item as it was in the next run. Every stage but rights verification
may refuse, as often as it likes: publication without the file, the rights, a
Gate 2 PASS, a grant or valid metadata (`publication/pipeline.js:366-518`), media
production on rights or a failed render (`media/pipeline.js:232-278`), the short
form without a segment, compliance without its policies. Such an item stays
selected while that lasts, and `SettlesOrIsRefused` says so: in the end it is settled,
or the very stage it waits for (`Awaited`) refuses it run after run; no selector
drops it, and it goes on as soon as the reason is gone. A thrown error ends the
run, because `index.js` sets no `onStageError`; errors and deaths are bounded.

### The content

**`ContentVersion`** — one content version from its brief to its upload:
`createScript`, `runFactCheck`, `runOriginalityCheck`, `runQualityGate`,
`runProduction`, `runMediaProduction`, `runFinalCompliance`, and of
`runPublication` what depends on the content version. Each stage is a
`…Begin`, the reads it starts from, and a `…Commit`, its transaction with what
that reads again; `proc[p]` holds what it read. Any process may call any stage
at any time: inside the guard stages follow one another, but each is an exported
function that guards itself, and the module asks whether it does. Scripts are
the numbers of their versions. `gated`, the scripts Gate 1 passed, and
`uploaded`, what providers were sent, are not in the database. `Content` is the
bytes of a video: a script, and a `Take` for whatever else tells two renders
apart. What is concluded from claims, rights and metadata (GC-002, GC-003) is
nondeterministic, and so is when an item at FINAL_COMPLIANCE is examined again,
since policy versions are left out. The reads of Gate 1's evidence are one step.
A REJECT of a forced fact check moves nothing after Gate 1, here as in the
code. A failure that is not counted is `Crash`.

**`AssetProvisioning`** — the pictures of one version. `rows` are the assets
with their usages, `claimed` those whose usage carries the provisioning claim,
`decisions` the rows of `asset_verifications` and `status` what is cached of
them; `call[p]` is an invocation of `runAssetProvisioning`, `todo` and `render`
what the rights run and the render have selected. An action is the code from one
await of the provider to the next, or one transaction. **`ScenePlan`** is
`planScenes`: sentences, chunks balanced or cut by the terms of the brief, the
queries of each scene. **`Pictures`** is what the asset provider may answer:
the screen of `candidateGate.js`, with its reading of whether a text calls for
children, and the choice by score; from it `AssetProvisioning` takes, as constants
that `AssetAssumption` ties to it, what the searches of the version may deliver.
**`Timeline`** is what the render makes of
script and pictures: narration text, captions and their timing, by text or by
recogniser, and the slots of the pictures; **`SlotAssignment`** which picture
goes in which slot, with the exact assignment of `maximizeAssignment`. These
four have no variables: lengths in characters are counted in words or given as
sizes, words are members of small sets, times are milliseconds.

### Where the content comes from

**`Research`** — one project through `runResearchProject`: creation, initial
acquisition, extraction, verification, expansion, verdict, with the checkpoint
each phase commits. `project`, `sources`, `claims` and the rest are rows;
`attempt` is what dies with the process. **`Sources`** is the web as the project
sees it: searches, the cascade of queries, one page with its retries, redirects
and clean reader. **`ClaimRows`** is the persistence loop of claims: a model's
proposals are normalised, held against their text, and share a row with another
page only through an identity their wordings agree with.

**`Discovery`** — cycles from the feeds to the opportunities handed to research:
the observation memory, one event per batch, the budget of fresh evaluations for
those that waited longest, reuse of evaluations by an unfinished run, selection,
the recording of outcomes in a later transaction.

**`LlmRouter`** — `LLMRouter.complete` and `GeminiProvider.complete`, with
concurrent callers on one event loop: an action is the code from one await to
the next. `gate` is the promise chain every instance shares, `last` when the last
request started, `cooldown` what a rate limit leaves; time is discrete, and
timers may fire late, never early.

**`MC…`** modules give constants their values. **`…Proofs`** hold the theorems.
Operators marked *Mutant* are deliberate bugs, used by no specification: they
are there to show that each property notices one.

## Runs

| Run | Bounds | Shows |
|---|---|---|
| `GuardedPublication` | 2 processes, 3 rows, 2 uploads, cap 2, careful Owner | one engine, holding its guard, so an exclusive `Publication`; one item at most; reclaimable means nothing sent; final rows stay; state follows rows; refines `PublicationOnce` |
| `ShortFormPublication` | 3 concurrent invocations without guard, 3 uploads, 2 polls, cap 3 | the claim alone keeps one item; no lost reply passes for a yes or a no |
| `YouTubePublication` | 2 chunks, 2 attempts, 1 restart, cap 2, 2 cycles, 2 uploads | contract kept, accounts, no gap, recoverable; `publish` answers; interrupted attempts are reported |
| `YouTubePublication_refused` | 1 chunk, token may fail while resuming | **violated**: a second item |
| `RunState_alone` | 6 transactions, 4 saves | nothing saved is forgotten; only the Owner frees a held guard |
| `RunState_overlap` | the same, no discipline | **violated**: an older copy becomes the newest entry |
| `ContentVersion` | 2 processes, 2 script versions, 2 takes, cap 1, forced fact checks, regeneration | what is uploaded was gated, on evidence of its own; refusals are final; only a PASS passes Gate 2 |
| `AssetProvisioning` | 2 invocations, 5 pictures (a copy, a branded one, one of a child), 2 scenes, 2 policies, cap 2, 1 mishap | one invocation illustrates a version; only verified pictures are rendered; a dispute stands; a version gets a picture or is quarantined |
| `Research` | 4 pages of 3 domains, 3 claim rows, 2 sources, 3 retrievals, cap 2, 1 mishap | ceilings and accounts hold over dead attempts; a workload that was admitted suffices; a verdict is earned; rows state one fact; projects settle |
| `Discovery` | 3 observations, 2 of one event, 1 never evaluable, budget 2, 1 edit, 1 mishap | the memory claims what the opportunities show; one fresh evaluation per cycle; nobody starves |
| `LlmRouter` | 2 callers, 3 providers, pacing interval 2, backoff 1, waits 1 and 3 | requests start an interval apart; spend within both limits; every call returns |
| `Runner` | 2 items (one in research, one half published), 2 text stages, a long-form and a short-form provider, cap 2, 1 mishap, refusals without bound | pacing costs nobody a turn; one recorded failure per run, stage and item; runs end; an item settles, or the stage it waits for refuses it again and again |

Bounds stand in guards and have names: `MaxMishap` counts what has no bound in
the code (deaths, thrown errors; in `AssetProvisioning` and `Research` also
outages), `MaxToken` uploads, `MaxCycle`
reactivations, `MaxRun`, `MaxCommit`, `MaxSave` rows, transactions and entries,
`MaxEdit` edits, `MaxPolicy` policies, `MaxClaims` claim rows. They are enough
because the hazards need few participants: a duplicate needs two uploads, a lost
race two claimants (three show that the loser's loser loses too), an exhausted
budget the cap, an account kept over a reactivation two cycles, an oscillating
offset two chunks, a wrong release two rows beyond the first, a stale verdict
two scripts and one process that is late, a race of renders two takes, a claim
shared by mistake two pages and a third that agrees with both, a starved
observation one more than the budget, an overtaken pacing slot two callers, a
lost turn two items. `RetryCap` is 1 or 2 instead of 3 in most runs only to
shorten the way to quarantine. The proofs remove the bounds for what they cover.

Deadlock is checked except in `Research` and `AssetProvisioning`, where a project
settles and a version is done.

Four modules have no behaviour; what they compute is stated by assumptions of
the `MC` modules, which TLC evaluates on every small input. In `MCAssetProvisioning`:
the scenes of a plan tell the whole script in order and none asks twice
(`PlansAreSound`); the examples the comment of `mentionsChildrenAffirmatively`
gives come out as it says (`ChildrenAreAffirmed`, `ChildrenAreNegated`);
narration and captions show the whole script (`NarrationIsWhole`,
`CaptionsAreWhole`, `HeardCaptionsAreWhole`); pictures fill the narration in the
order of their scenes, none too short (`PicturesFillTheNarration`); an
assignment computed by augmenting paths is as good as the best of all orders
(`AssignmentIsExact`), and with reuse no picture follows itself
(`NoPictureFollowsItself`).

**Findings.** (1) A token failure, or a missing file, while resuming is answered
as a failure, which makes the row reclaimable although the first upload may be
complete. (2) The reclaim workflow can save an older copy over the work of a
scheduled run. Details and quotations are in `PROJECT.json`.

**Remarks**, seen while modelling, of which the first four were met by runs of an
earlier form of these modules:

- A live second invocation joins an upload under way, against what the claim's
  comment and a test's name say; the guard hides it.
- Regeneration of a script moves no state and looks at none, though a comment
  says that the item is at SCRIPT_DRAFT; only the rule that wants a single
  ACCEPTED generation (GC-005) keeps such an item from being published.
- A render that loses its race has already replaced the winner's file, and the
  shared `narration.wav`.
- With as many observations that fail as the budget serves, `NobodyStarves` is
  violated (Budget 1 and Unsound {1} show it), against ADR-0034.
- A reel is answered SUCCESS before its processing ends, and its visibility is
  inferred, though `PublicationProvider.js:39` says it never is.
- With a brief of one term the last query of a scene is its own and not the one
  of the whole video, so `provisionAdditionalScenes` drops it
  (`pipeline.js:81-82`).
- Captions timed by the recogniser may start late; the pictures then last less
  than the narration, which `-shortest` cuts, though `render.js:150-156` takes it
  for a safety bound (`LatePicturesCutTheNarration`). The recogniser is off by
  default.
- An item published by a long-form provider before its short form exists is
  stranded for the short-form ones (`workSelection.js:285-305`): it is selected
  for them in every run, and refused as NOT_YET_RENDERED; a
  VISIBILITY_MISMATCH of one provider excludes the item for all (`:397`); an item
  moved to NEEDS_REVIEW or BLOCKED with a PENDING row is never reported
  AMBIGUOUS. After a thrown error the later stages of a run do not get their
  turn.
- `index.js` builds the router without a cost tracker, and the monthly limit is
  read by nothing, though `CostTracker.js:10-13` names it.
- A search outage yields no candidates and not an error, so a project ends
  INSUFFICIENT_EVIDENCE rather than FAILED. The verification budget is per
  attempt, and so starts anew after a death.
- Two claims whose subject is a pronoun share a row by their fingerprint though
  their pages may speak of different things.
- A file found missing is NOT_VERIFIED and not examined again under the same
  policy, so its version stays blocked; one unverified picture of a best-effort
  scene blocks the render.

## Fairness

Weak fairness says that the process is scheduled and that requests are answered
or time out: of `Publish(r)` and the pipeline's own steps in `YouTubeFairSpec`,
of the attempt's step in `Research`, of the invocations and the rights run in
`AssetProvisioning`, of the run in `Runner` and `Discovery` (scheduled daily),
of each caller in `LlmRouter`. `LlmRouter` adds the clock and `Discovery` the end
of every cooldown, which is a date. That a call of Gemini comes back rests on
its timer only until the headers are there, since `GeminiProvider.js:425` clears
it before the body is read; from then on it rests on the body timeout of the HTTP
client. `SettlesOrIsRefused` asks nothing of the Owner or of the providers: what
they withhold is the refusal it names. Mishaps, edits, providers, the web and the
Owner are under no fairness.

`YouTubeFairSpec` also needs strong fairness, of `BeginInterrupted`: a PENDING
row without a session is selected by every sweep (`workSelection.js` excludes
neither PENDING nor the grant), and daily runs do not stop coming; and of
`MarkInterrupted`: not every process that finds the row dies before its one
write. With a second provider this would need more: the selector passes over an
item for every provider once any of its rows is FAILED with
VISIBILITY_MISMATCH, so the run has one.

## What is proved

With TLAPS, for every value of the constants, and for any number of processes,
providers, items, pages, mishaps: every safety invariant and every action
property that a passing run checks, the type invariants, and three refinements.
An invariant is proved from an inductive one, which is named below with the
reason why the property alone is not inductive.

- `PublicationProofs`: `TypeOK` of `Publication`. Under `Exclusive`, the
  invariant `Inv` says how uploads, rows and the one invocation fit: a live
  upload belongs to the row's session or to the invocation at work, a row that
  may be claimed afresh has no live upload, a row without hope of an answer is
  final. `AtMostOneItem` is not inductive without it: a step of the adapter
  opens an upload whatever the other uploads are. From `Inv` follow
  `AtMostOneItem`, `ReclaimableMeansNothingSent`, `FinalRowsStay`,
  `PublishedExists` and the refinement `DeliversOnce`. `BookInv` adds what the
  counters and the gate are while an invocation works, and gives
  `AttemptsAreAccounted`, `QuarantinedIsAtRest` and `StateFollowsRows`. Without
  `Exclusive`, for providers that save no session, `StatelessInv` says that the
  claim itself is the lock: whoever is between claim and settlement is alone
  there, and a row that may be claimed has no live upload. It gives
  `StatelessOnlyOnce`.
- `YouTubePublicationProofs`: `YouTubeInv` says what `publish` knows at each of
  its steps: a session that a row or an invocation names was opened; the offset
  it sends from is stored at the provider; the budget of attempts is renewed
  only by progress. It gives the types and `OffsetIsCommitted`. If no token
  fails while a session is resumed, every step of the adapter is a step of
  `Publication` or a stutter (`ImplementsPublication`), so what is proved of
  publication holds of YouTube: `AttemptsAreAccounted`, `AtMostOneItem` and
  `DeliversOnce` under `Exclusive`; and with `Inv`, `UploadsAreRecoverable`. The
  condition is needed: without it there is finding 1.
- `ConcurrentPublicationProofs`, the guard: types, `AtMostOneRunning`,
  `EndedRunsStay` whatever the Owner does; `WorkersHoldTheGuard` and
  `AtMostOneEngine` if the Owner checks; and then the guarded processes implement
  exclusive `Publication`, which discharges the assumption `Exclusive`. The
  adapters without a session (`Resumable = {}`): steps of `publish` are steps of
  the adapter's contract, save that a reel may be confirmed that has since
  failed; with `StatelessInv`, and `AcceptedInv` (what a provider shows it had
  accepted, and nobody says *delivered* of a provider that accepted nothing),
  this gives `StatelessOnlyOnce` and `AnswersAreTrue` with any number of live
  invocations and no guard.
- `ContentVersionProofs`: types, `UploadedWasGated`, `GatedHasEvidence`,
  `RefusedStays` and `Gate2IsTheOnlyWay`, for any number of processes, versions
  and takes. `UploadedWasGated` is far from inductive. Its invariant says that
  nobody works on a script newer than the current one (`ScriptInv`); that the
  ACCEPTED rows are at least as many as the scripts persisted or about to be
  (`ProvenanceInv`), so that a single row means a single script; that a gated
  script, and a PASS that waits to be committed, has its evidence
  (`EvidenceInv`); and that past Gate 1 something was gated, while whoever
  passed the boundary saw the only script there was, which no late render can
  spoil (`ReleaseInv`).
- `ProviderProofs`, pictures: types, `OneInvocationProvisions`,
  `RightsBeforeRender` and `DisputeStands`, for any plan, provider, number of
  invocations and policies. `ClaimInv` says that all pictures are of the one
  invocation that has the claim and that the scene it is at comes after theirs,
  from which no scene is illustrated twice; `DecisionInv` that what a rights run
  has selected has no decision of its policy yet, so that the one it adds is the
  last of its asset. Language models: `RequestsArePaced` and
  `SpendWithinLimits`, for any callers, costs and waits. The first needs that
  whoever has passed the gate is at the head of its chain, and that an interval
  has gone by since the last start.
- `RunMemoryProofs`, discovery: `OutcomesAreKept` and `FreshOncePerCycle`, for
  any feeds and budget. The cache: if reclamation and scheduled runs are kept
  apart, `NothingSavedIsForgotten` and `OnlyTheOwnerFrees`. `RunStateInv` says
  that there is one job in flight and it works on a copy of the newest entry or
  more; that only a copy whose rows and files agree is restored or saved; and
  that a job which restored a held guard does not work. Each depends on the
  others: a save that loses nothing needs the copy, the copy needs that what is
  restored passes the integrity check, that one needs the files. The condition
  is needed: without it there is finding 2.
- `ResearchProofs`: types, `StoredWithinCeilings`, `WorkloadSuffices`,
  `VerdictIsEarned` and `RowsStateOneFact`, for any web, model and ceilings.
  `Inv` ties the locals of an attempt to the checkpoints (`StageInv`): the
  phase an attempt is in says what was committed, by itself or by a dead one, and
  so what it may still ask for (`WorkloadInv`); a verdict is then given on rows
  that were compared and graded. The loops of the code, over candidates, pages,
  proposals and claims, are recursive functions, and what they compute is
  proved by induction: `StoreKeepsRowsSound` (one turn of the persistence loop
  keeps every claim row sound) and `AgreementIsShared` (two wordings that agree
  with one identity disagree in nothing) are the step of the longest.
- `RunnerProofs`: types, which hold the caps of the retry counters,
  `EveryItemGetsItsTurn` and `OneFailurePerRun`, for any items, stages,
  providers and mishaps. `PacingInv` says that the paced items are those that
  failed, that what waits to be called has not failed in this run, and that the
  stages without bounded retry pace nothing; `AttemptsLeft` that a stage still
  to be called, which does not look again itself, has an attempt left.

The library's theorems of induction take an operator as a parameter, which no
prover here can instantiate. `ResearchProofs` does without them: `UpTo` speaks of
a set of numbers instead (a set that has 0, and `n + 1` with `n` below a bound,
has all up to the bound), from the least element of a set of numbers, and each
loop is proved by the set of the turns up to which it is right.

The assumptions are those named in the modules (`PublicationAssumption`, …).
`RunnerAssumption` says that the names of stages, states and providers are
different, which they are. Where a theorem needs more it says so: `Exclusive`,
which `GuardExcludes` proves of guarded processes; `OwnerChecks` and
`ReclaimAlone`, which the code asks of the Owner; `~ResumeRefused`, the absence
of finding 1; `Resumable = {}`, which adapters are meant.

Only model-checked: liveness (`PublishAnswers`, `InterruptedIsReported`,
`Settles` of `Research`, `SettlesOrIsRefused`, `Provisioned`, `RunEnds`, `CallsReturn`,
`NobodyStarves`), because the prover does neither fairness nor ENABLED; and what
`ScenePlan`, `Timeline`, `SlotAssignment` and the screen of `Pictures` compute,
which the runs check on small inputs and no proof covers yet.

## What is assumed of the outside

SQLite transactions are serializable and durable. A 4xx answer to a chunk means
that the upload will never complete; a session the provider reports as gone was
not completed; a completed one is reported as completed. Item ids in a SUCCESS
are the provider's. The Owner reclaims with care where a run says so. A search
lists a link once. What a model writes is arbitrary, within the proposals
enumerated.

## Not modelled

- I/O and numerics: the encoder, audio mix, thumbnails, relevance models, HTTP
  clients, text generation, prompts, scores of discovery, similarity of texts
  (discovery's levels L2 and L3), thin-content and freshness tests.
- The short-form file and its binding in Gate 2; GC-002 and GC-003; policy
  versions of Gate 2.
- Rows that nothing reads back: the decision log, run counters, scene summaries,
  files that were downloaded and dropped.
- `FailureClassification.js`, which no stage consumes; the Pexels and GDELT
  providers, which nothing constructs; analytics; `publishThumbnail`.
- In `ClaimRows` a wording stands for one text and names are free of digits: the
  accounting of numbers inside names, spelled numbers, half years and condition
  clauses is left out, and so is the limit of 200 candidates of an index bucket,
  which a project's ceiling keeps out of reach.
- In `Sources` role and independence are those of the candidate's address, as in
  the code, where a redirect does not change them.

## Plan

Done: publication, its abstraction and proofs; the adapters; the guard and the
composition; the cache carrier; the lifecycle with both gates;
the runner; pictures and rights; research; discovery; the router; the proofs of
their invariants and action properties. To follow:

1. The promise that an item is published only as it was examined, as an abstract
   specification that composes `ContentVersion` with `Publication`.
2. Proofs about the pure functions of the render: slots that tile the narration,
   captions that show it whole, scenes that tell the whole script.
3. The short form with its binding, policy versions, GC-002 over `AssetProvisioning`.
4. Composition of `RunState` with the guard and the publication rows.
