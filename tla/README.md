# utah-packages: TLA+ models of the package factory

This directory holds TLA+ models of the factory that turns this repository's
recipes into a published RPM repository and of the automation that keeps the
recipes moving, the TLC configurations that check them on small instances, and
theorems about the factory run, its waves and cache, and the bump, that TLAPS has
checked for every instance. File
names below are relative to the repository, unless they are modules of this
directory.

## The system

A **recipe** (`packages/<name>`, an entry of the source lock) builds a source
package. Three loops work on recipes:

* **The factory run** (`.github/workflows/rebuild-rpms.yml`). On a push, a
  schedule or a dispatch it selects the recipes to build, builds them in up to 14
  waves, and publishes what was built through `publish-repository.yml`. The
  **published image** is an OCI artifact behind a tag: the RPM repository plus a
  **state label** that records, per recipe, the digest of the inputs the
  published build was made from and the digest at which the latest attempt
  failed. The image is the only memory the factory has. The tag is read at the
  start of a run and moved by up to five publications of it hours later, while
  people merge, dispatch, cancel and run things again; GitHub keeps one run in
  flight per ref and one pending, and replaces the pending one by a newer one.
* **The bump** (`bump-upstream-sources.yml`, `bump-upstream-gate.yml`,
  `bump-upstream-enqueue.yml`, and the same gate behind the Rawhide re-import).
  A daily run moves source locks to new upstream releases on a branch; the gate
  builds what the branch bumps, takes out and **holds** what fails, and hands the
  commit that built over to be landed. Branch, gate, Canary check, handover
  and merge queue are separate jobs, and each of them may find that the branch has moved.
* **The Canary** (`canary.yml`), the required check. It runs the factory six times
  on a small set and verifies what each pass did; changes that do not touch the
  pipeline, and merge groups, are decided without a run.

Around them are programs that read some files and write some others: the source
pipeline, the Rawhide imports, the build root pin, validation, the report.

### Inventory

| Component | Source | State it keeps | Operations | Model |
|---|---|---|---|---|
| State label | `tools/factory_state.py` | `inputs`, `failed` on the image | `changed`, `merge`, `current` | `FactoryState` |
| Selection and waves | `tools/rebuild_plan.py`, `tools/rebuild_matrix.py`, `tools/build_graph.py` | none; reads label, listing, graph | `plan`, `stale_from_primary`, `dependents`, `components`, `break_cycles`, `waves`, `stage_outputs`, `restrict`, `prunable_sources` | `RebuildPlan`, `BuildGraph` |
| Factory run | `rebuild-rpms.yml`, `build-stage.yml` | the concurrency group, job results, artifacts | start, prepare, a build, a publication, cancel, run again | `Factory` |
| Publication | `publish-repository.yml`, `tools/publish_gate.py` | the tag, the image | precedence, seed (witness), assemble, prune, transaction, push | `Factory`, `Repository` |
| Tracking issue, reports | report job of `rebuild-rpms.yml`, `tools/publish_gate.py` | issues, a marker in a body | open, edit, comment, close | `Tracking` |
| Package cache | `tools/package_cache_key.py`, `tools/dist_bump.py`, `build-stage.yml` | RPMs by key | key, restore, push | `PackageCache` |
| Bump gate and landing | `tools/bump_gate.py`, `bump-upstream-gate.yml`, `bump-upstream-enqueue.yml` | branches, holds, checks, the merge queue | plan, build, judge, hold, trim, send and approve a Canary, hand over, enqueue | `BumpGate`, `Landing` |
| Upstream bumps | `tools/upstream_bump.py`, `bump-upstream-sources.yml` | recipes, locks, ratchet, branches | choose a release, rewrite, verify, propose | `Releases`, `Upstream`, `BumpRun` |
| Canary | `tools/canary.py`, `tools/fork_canary.py`, `canary.yml` | required check, proof runs | relevance, merge-group proof, fork copy, verifications | `Canary` |
| Source pipeline | `tools/source_pipeline.py`, `tools/generated_sources.py` | staged files | fetch with retries and fallbacks, verify, stage | `SourcePipeline` |
| Rawhide imports | `tools/rawhide_reimport.py`, `tools/import_*.py`, `tools/scan_rawhide_state.py`, `tools/bootstrap_upstream_sources.py` | recipes, provenance, scan state | classify, re-import, scan, import, propose | `Rawhide`, `Imports` |
| Build root pin | `tools/buildroot_pin.py`, `tools/buildroot_lock.py` | pin file, lock file | set, compare, snapshot | `Buildroot` |
| Validation and inventory | `tools/validate.py`, `tools/package_inventory.py`, `tools/source_lock_order.py`, `tools/check_suppressed_tests.py` | none | one verdict on a tree | `Validation` |
| Armed pull requests, build lanes, contract and indexes, audits, observability, Packit pilot | the other tools | none of their own | | see "Not modelled" |

What makes each of them correct:

* **Label.** What it records for a package is what the published build was
  made from: prepare skips on its word.
* **Selection and waves.** A run covers every change since the last publication;
  what is replaced drags along what was linked against it; a package is built
  after everything it BuildRequires in the same run, and no selected package
  falls between the jobs.
* **Publication.** A newer image is never overwritten by an older run; a
  package that failed keeps its build.
* **Cache.** A restored build is of this run's files, image and links; what is
  known to be broken is repaired; the label stays true.
* **Bumps.** Recipe, lock and ratchet move together; what lands was built as it
  lands; what is a human's to decide waits for the human; a release that builds
  comes to main, one that does not is held.
* **Canary.** A pipeline reaches main only if some Canary has built it.
* **Sources, imports, pin.** What is accepted is the locked file, what is
  written is valid or noticed, what a human changed is not dropped.

`PROJECT.json` lists the hazards, each at its line, with the property that would
catch it.

## Modules

### The factory run

`FactoryState` <- `RebuildPlan` <- `Factory` (which implements `Repository`) <-
`FactoryInvariants` <- `MCFactory` (for TLC) and `FactoryProofs` <- `FactoryLinkProofs`,
`FactoryOrderProofs` (for TLAPS).

* **`FactoryState`** is `tools/factory_state.py`. A digest is a version number,
  0 standing for "no entry", so the label's partial maps are total functions.
  `Moved`, `KnownFailing`, `Changed` and `Held` are `changed()`; `Merge` is
  `merge()`: entries of recipes that are gone or pruned go, replaced and failed
  ones take the commit's digest, what is taken on trust is entered only where
  the seed has no entry.
* **`RebuildPlan`** is `rebuild_plan.py` and `build_graph.py` as a run uses
  them. A build is the recipe version it was made from, and for each package it
  BuildRequires the version it was linked against; `Soname` says which versions
  of a library break its ABI. `Plan` is `plan()` with one hop of dependents,
  `Stale` the moved-soname rule, `IsWaveMap` the longest-path waves,
  `EarlyWaves` and `Through` the early publications.
* **`Factory`** is the two workflows. Variables: `main` (the head's inventory
  and the sources given up to Hummingbird), `image` (id, the run that pushed
  it, repository, label), `pending` (the one queued run), `run` (the one in
  flight), `stopped` (a run that ended and may be run again; which of the ended
  runs that is, is left open). Actions, by job:

  | Action | Code |
  |---|---|
  | `ChangeRecipe`, `Retire` | merges, and the push they cause |
  | `Schedule`, `DispatchPackages` | cron, dispatch; `Queue` replaces the pending run |
  | `Start` | the concurrency group lets the next run in |
  | `Prepare`, `PrepareFails` | the prepare job; neither listing has to be readable |
  | `Build`, `BuildFails` | one recipe of a wave, once all earlier waves ended |
  | `PublishEarly`, `PublishEarlyFails` | `publish0..3`: one after the other, covering all waves so far |
  | `PublishFinal`, `PublishFinalFails`, `NothingToDo` | the last publication: the one that prunes |
  | `Cancel` | a maintainer |
  | `RerunFailed` | "Re-run failed jobs": prepare's outputs and artifacts stay, failed jobs and all that need them start again |
  | `RerunAll` | "Re-run all jobs": the same run id and commit, from the start |

  `Publish` is one publication: `Witnessed` (the seed step: the tag is where
  prepare saw it, or this run moved it), `Accepted` (built, not bootstrap-only,
  not outranked), `Candidate`, `Gate` (something to publish and the consumer
  transaction resolves), `NextImage` with the merged label.
* **`Repository`** is what those who install from the repository, and the next run,
  may rely on, in two actions: main moves, and a publication of one commit that main
  has been at moves each package it touches to that commit's recipe or takes away
  what the commit gave up, leaves the rest, is `Usable` (what consumers install is there, with the
  sonames it asks for) and records nothing but what is there. `Factory` maps to it with
  `Public == INSTANCE Repository WITH head <- main, rpm <- image.rpm, known <-
  image.label.inputs, ...`; `RepositoryIsKept` is `Public!Spec`. `Again` is true
  where ended runs may be started over as a whole: then a publication may go back.
* **`FactoryInvariants`** holds the inductive invariants.
* **`MCFactory`** gives the constants their values: `app` BuildRequires `lib`
  (and `boot`, where there is one), `ext` BuildRequires `app`.

* **`BuildGraph`** is `build_graph.py` from the extracted capabilities to the job
  lists. `components()` is modelled step by step (index, lowlink, stack, work
  list: the explicit stack of the code), then `break_cycles`, `waves` and
  `stage_outputs` as one step each. `BuildGraphCore` instantiates `RebuildPlan` with
  the computed waves: what the factory run takes for granted about waves is what
  this module computes (`AgreesWithCore`). The pop loop is the stack cut off at
  the place of the component's root (`Place`, `Members`). `BuildGraphProofs` holds
  the theorems.
* **`PackageCache`** is one run after the other: a push, which leaves out what failed
  at exactly these inputs (`Held`), a schedule or dispatch, which retries, or a full
  run, which looks for nothing broken. `Start` selects (`Changed`, `Stale`, `Dragged`)
  and decides what may be restored (`Cacheable`); each package is restored by key or
  compiled and its key pushed; `Publish` records the label, failures included. Main
  may move under a run, and the listing `Stale` needs may be unreadable. A build
  carries its recipe's files, its inventory entry, its build root image and the builds
  it was linked with; a key is what `package_cache_key.py` hashes of that: the files,
  the image, and the NEVRs. Theorems: `PackageCacheProofs`.

### The bump

* **`BumpGate`** is the gate over each branch: `Propose` (a daily run pushes),
  `GateAgain` (also while a gate of the branch is in flight, whose place it takes),
  `Cancel`, `Plan`, `SendCanary`,
  `Build`, `Judge`, `Stop`, `HoldFailed`, `PushTrimmed`, `Redispatch`,
  `ApproveParked`, `WaitForCanary`, `HandOver`, then `Validate` and `Enqueue` of the
  enqueue workflow and `Land` of the merge queue. Canary runs end when they like,
  people push and withdraw (`PushByHand`, `Withdraw`), builds and approvals fail. A commit is its
  tree, the tree it forked from, and what kind of files it touches; of a handover
  the commit is kept, as the dispatch carries it.
* **`Landing`** is what the gate promises, in three actions: moves are proved, and only proved
  moves land. `BumpGate` implements it: `Promise == INSTANCE Landing WITH locked <-
  main.lock, ...`, checked as the property `OnlyProvenLands` and proved, with the
  gate's other promises, in `BumpGateProofs`.
* **`Releases`** is the choice of a release (`version_key`, `release_cycle`,
  `newest_stable`, `cycle_final`, the GNOME and forge proposals, holds, review), over
  versions in each of the numbering schemes the locks have.
* **`BumpRun`** composes `Releases` with the bump workflow: `Schedule`, `Dispatch`,
  `Decide`, `ApplyOne` (one package after the other: fetch, spec, manifest, lock,
  ratchet), `Verify`, `Open` and `DispatchGate`, while upstreams release and replace
  tarballs, the gate trims or lands (`GateTrims`, `GateLands`: `BumpGate` seen from
  here), and people land or move things. A scheduled or dispatched run takes the
  place of the one in progress. A package releases once or twice within its cycle and
  then in the next (`Shipped`, `Comes`); a release that fails its gate is held, also
  where that leaves a pull request of nothing but holds, and a later release retires
  the hold. `Stuck` is a package whose recipe no bump can rewrite. Theorems:
  `BumpRunProofs`.

### Programs that are called once

`Tool` is the frame: a `call` (program and what it reads), then an `answer`.
`MCTools` makes every call of every module below; each is one step of a program whose
inputs, failing servers and stops between two writes are enumerated. Theorems: `ToolProofs`.

| Module | Programs | What is told apart |
|---|---|---|
| `Canary` | `canary.py` (pr-relevant, merge-group, the verifications), `fork_canary.py` | the pipeline's own files, each lock entry, other data lines; outcomes of jobs and steps of each pass |
| `Upstream` | `upstream_bump.py` without writing | every listing of four projects (one of them with prerelease markers that stand without a separator), primaries, feeds, cycles, holds; macros of a spec |
| `SourcePipeline` | `source_pipeline.py` | what each server answers on each attempt: the file, other bytes, nothing, an HTML page, no connection, a broken one |
| `Buildroot` | `buildroot_pin.py`, `buildroot_lock.py` | pin and lock files that are absent, garbage or of another form; a stop between the two writes |
| `Rawhide` | `rawhide_reimport.py`, `scan_rawhide_state.py`, `import_bluefin_rawhide.py` | trees by what the build sees of each file, ancestry of commits, answers of dnf |
| `Validation`, `Imports` | `validate.py`, `bootstrap_upstream_sources.py`, `import_proposal.py` and the import workflow | trees of recipes and locks, the two kinds of suppressed tests (counted apart), what the upload contains, two proposals merged |
| `Tracking` | the report job, `publish_gate.py report` | sequences of three runs with calls of GitHub that fail, and people who close or edit the issue |

Operators whose comment begins with "Mutant:" are the plausible bugs each
property was checked to catch; they are part of no specification.

## What the runs check

All passing runs are exhaustive; the bounds are in each `.cfg`. Deadlock is not
checked: a factory at rest, a bump with nothing to do and a program that has
answered may stop.

| Run | Instance | Checks |
|---|---|---|
| `reruns` | lib, app; both change, lib may be given up; push, dispatch; failed jobs run again | `TypeOK`, `RunCoversEveryChange`, `BuiltAgainstThisRun`, `LinkInvariant`, `OrderInvariant`, `NoRollback`, `RepositoryIsKept` |
| `restarts` | lib, app; push, schedule; failed or all jobs run again | `LabelInvariant`, with `LabelIsTrue` in it |
| `catches_up` | a bootstrap package under app; app may be given up; pushes, schedules; with fairness | `FailureKeepsPreviousBuild`, `FinishedRunRelinks`, `EventuallyCurrent` |
| `graph` | every graph of four recipes; of three with listing, stages and build sets; no graph | `SearchIsSound`, `OrderedOrReported`, `NothingFallsOut`, `AgreesWithCore`, `Ends` |
| `package_cache` | lib <- app <- ext, three runs of every kind, two build roots, lib edited without a new NEVR, app's inventory entry edited, listings that fail | `BuildsTheFiles`, `LinkedToThisRun`, `RepairsHold`, `RecordedIsPublished` |
| `bump_gate` | two daily bumps of two packages, one version that never builds; every race | `HoldsAreOfFailures`, `GateKeepsItsWord`, `OnlyProvenLands` |
| `bump_gate_live` | one daily bump of both, with fairness | `WorkingBumpsLand`, `BrokenIsHeld` |
| `bump` | three packages: an ordinary one that releases twice within its cycle and then in the next, one fetched from Fedora until a dispatch relocks it, and then ordinary, one that cannot be rewritten; with fairness | `BumpsAreWhole`, `DailyIsInSeries`, `RelockSurvives`, `HoldsOutlastFailures`, `NewReleaseLands` |
| `tools` | every call of the programs above | one or two properties of each, below |
| `rollback`, `inventory_hit`, `gate_branch` | | expect a violation, see the next section |

Factory:
* `LabelIsTrue`: the label's digest of a package is what its published build was
  made from.
* `RunCoversEveryChange`: a recipe whose published build is not of the run's
  commit is built, or held because it failed at exactly these inputs.
* `BuiltAgainstThisRun`: what a run built is linked against what it built.
* `NoRollback`: no publication moves a package to older inputs or drops one
  that was not given up. `FailureKeepsPreviousBuild`: and a failed package stays.
* `RepositoryIsKept` (refinement): every publication is one step of `Repository`.
* `FinishedRunRelinks`: a run that publishes a changed library publishes its
  consumers linked against it, or records them as failed.
* `EventuallyCurrent`: if from some point on nothing goes wrong, the repository
  is eventually, and then for good, at main's inputs, without what was given up,
  and without a soname nobody provides.

Waves and cache:
* `SearchIsSound` compares the search with the definition by reachability
  (`ComponentsAreCycles`) and says what holds at every step of it
  (`StackIsConnected`). `OrderedOrReported` is `NeverRaises`, `ProvidersFirst` and
  `UnorderedIsReported`, about the waves; `NothingFallsOut` is about the job lists.
* `BuildsTheFiles`, `LinkedToThisRun`: what a hit may be: of the files and the build
  root image of this run's commit, linked against what this run has. `RepairsHold`:
  what a run selected as broken is repaired by it. `RecordedIsPublished`: through
  hits, held failures and failed publications, the label names what the published
  builds are made from.

Bumps:
* `OnlyProvenLands` (refinement), `HoldsAreOfFailures` and `GateKeepsItsWord`
  (`OnlyBumpsAreQueued`, `ApprovedRunsAreOver`, `NoVerdictTwice`) over every
  interleaving of two daily bumps, trims, pushes by hand and delayed handovers.
* `BumpsAreWhole`: lock, spec, manifest and ratchet agree on main, on every branch
  and in the merge of the two. `DailyIsInSeries`, `RelockSurvives`,
  what a run may never do. `HoldsOutlastFailures`: a hold leaves main only
  for something newer, whether that landed or is held in its place.
  `NewReleaseLands`: a release in its cycle comes to main or is held.

Programs, each property with the parts it is made of:

| Property | Parts |
|---|---|
| `AdmittedIsProved` | `GroupIsProved` (a merge group's pipeline is one a Canary has built, unless the check of what it touches failed), `ForkCopyIsReviewed` |
| `CacheVerdictIsSound` | |
| `BumpNeedsNoHuman` | `WrittenStaysInSeries`, `PrimaryMovesByHandOnly`, `StaleSourcesRefused` |
| `SourceStandsAsLocked` | `SourceIsLocked`, `MirrorsAreForAvailability` |
| `RootIsThePin` | `RootMovesWhole`, `StrictIsExact` |
| `ReimportNeedsNoHuman` | |
| `RawhideIsFollowed` | `ScansLoseNoChange`, `FactoryBinariesStay` |
| `ImportIsItsOwn` | `ImportAddsOnlyItself`, `ImportLocksProvenBytes` |
| `ImportsMergeApart` | |
| `IssuesAreCurrent` | `TrackerIsCurrent`, `UtahIssuesAreCurrent` |

The comment on each part says what it promises, and names the code.

`TypeOK` of `BuildGraph`, `PackageCache`, `BumpGate` and `BumpRun` is proved, and no run
lists it.

### Bounds, and why they are enough

* **Factory.** Two versions of each recipe: the properties are about an
  old and a new input, and the merges of two recipes interleave. `RunIds` and
  `ImageIds` are reused once nothing refers to them; there is one more than can be
  referred to (`FactoryAssumption`). Symmetry is used on ids only, and neither under
  liveness nor in runs that expect a violation.
* **Graph.** Four recipes give nested and overlapping cycles; three with the
  listing give every stage assignment; three waves and chunks of two overflow.
* **Cache.** Three runs: one that pushes a key, one that changes what is published
  and what the label says, one that restores. Files, entry and image have two contents
  each, an old and a new one; ext is not edited, so it is only ever dragged along.
* **Bump gate.** Two bumps, or one and a second gate over it (`MaxDaily` bounds their
  sum), let a gate, its successor and a trim be on the way at once; one push by hand
  and one handover in flight (`MaxHanded`), each of which may be arbitrarily late. In `bump_gate` only runs GitHub parked may fail
  (`MayFail = {"parked"}`); the live run lets those the gate sent fail.
* **Bump run.** After 51.0 there are 51.0.1 and 51.0.2 within the cycle, and 52.0;
  `Comes` says which of them a package releases. Two within the cycle let a hold be
  replaced by a hold, once; more would do it again. Two packages may be on the daily
  branch at once. No package is review-only: that a run leaves these alone in daily
  bumps is `Written`, and proved for every `ReviewOnly` (`DailyCorrect`). `Rolls` and
  `Named` bound which packages see a replaced tarball or a dispatch, `MaxHand` the
  dispatches and moves by hand. `RollsLocked = FALSE`: see the divergences.
* **Programs.** Inputs of one or two packages, three files, three servers; sequences of
  three scans or three runs, since each step depends on the one before it only.

### Fairness, and what justifies it

* `catches_up`: the daily cron fires, GitHub starts what is pending, and each job
  that has started ends in one way or another (it has a time limit). Nothing makes
  a job succeed: `EventuallyCurrent` has the premise that from some point on every
  step goes well (`GoesWell`). It has no re-runs.
* `graph`: the search takes its next step.
* `bump_gate_live` (`FairSpec`): weak fairness of the steps of a gate that needs
  nothing but its runner; strong fairness of `Build`, `ApproveParked`,
  `WaitForCanary` and `HandOver`, which may fail or be overtaken on one day but not on
  every day; a Canary succeeds again and again while a gate waits; what was handed over
  is looked at before the branch has moved for ever, and the queue lands.
* `bump`: a run that has started goes on to its end or is replaced by another (`RunGoesOn`,
  weak fairness of its steps spelled out, since TLC is slow to decide whether they
  are enabled), infinitely many days are clear (no server fails and no other run takes
  its place), and the gate comes to a verdict on a branch that is there again and again.

## Where the code and what is said of it part

Each is a run that TLC must find violated; `PROJECT.json` quotes the lines.

* `rollback`: "Re-run all jobs" of an older run passes the seed step's comparison
  and publishes older recipes over newer ones.

* `inventory_hit`: an edit of a package's inventory entry alone leaves its cache key
  as it was, and a later full rebuild restores the build of before the edit.
* `gate_branch`: a gate of the Rawhide re-import pushes its trimmed commit to the
  branch of the upstream bump.

### Known divergences that have no run

Found while modelling. Where a property is named, it is in its module and TLC finds
it violated with the configuration said.

Factory and publication:
* A dispatch restricted to a library publishes it, and no later run picks its
  consumers up: the label calls them current (`NoConsumerLeftBehind` in `Factory`;
  `rebuild_plan.py:520` against `rebuild-rpms.yml:26-31`).
* A push holds a package that failed; a change below it drags it along, it builds, and
  its own consumers stay linked against the copy that was replaced
  (`ReplacedLibrariesRelink`; `rebuild_plan.py:432` against `:409-411`).
* A publication that pushes nothing records no failure (`FailureIsRecorded`;
  `publish-repository.yml:433` against `factory_state.py:13-15`).
* After "Re-run failed jobs" a package that built in the first attempt and fails in
  the second is published from the first attempt's artifact
  (`FailureKeepsPreviousBuild` with re-runs; `publish_gate.py:190` against `:14-17`).
* The tracking issue's body is edited before its change is announced, and the next
  run compares with the body: a comment that fails is never made up for
  (`rebuild-rpms.yml:1140-1145`). `TrackerIsCurrent` says so and excepts it. A run
  of other packages that builds also closes the issue while held packages still fail.

Cache:
* A full run looks for nothing broken (`rebuild_matrix.py:214-239`), so it may restore
  from the cache the very build that is broken as published, where no NEVR tells the
  repaired root from the broken one (`NeverHandsBackTheBroken` in `PackageCache`;
  `rebuild_matrix.py:300` against `rebuild_plan.py:460-462`).

Bump gate:
* A package put on the review list on main while a bump forked before it is open
  lands all the same: the list is read at the head (`GuardedNeverLands`;
  `bump_gate.py:347-349` against `:65`).
* A trim takes back locks and recipes and not the multimedia report, which is then
  stale and refused by the tests (`ReportOfTheLock`, with `Codecs`; `bump_gate.py:297-298`
  against `bump-upstream-sources.yml:126-129`).
* For the same reason a bump of which every package failed does not always come down to
  its holds: with a codec among them the report is still changed, and the plan finds
  nothing to gate (`bump_gate.py:364` against `bump-upstream-gate.yml:41-43`).
* `holdable` says it holds "while at least one other bumped package built", and holds
  all of them when all failed, as the workflow says (`HoldLeavesABuild`;
  `bump_gate.py:216-217` against `:229`).

Bump run and release choice:
* "Re-verify every rewritten source" (`bump-upstream-sources.yml:145`) verifies every
  lock, so one locked tarball that upstream replaced stops every bump, against
  `upstream_bump.py:1095-1097` ("must not discard every other bump the run already
  proved safe"): with `RollsLocked = TRUE` and
  `Rolls = {"stuck"}`, `NewReleaseLands` fails.
* A `--package` dispatch with a target cycle puts a relock on the cycle's branch, where
  the next run of the cycle writes over it, against `:65-68`; `RelockSurvives` leaves
  that branch out. Dispatches that propose less also rewrite the daily branch; the
  next day restores it.
* "Prereleases are never proposed" (`upstream_bump.py:791`) does not see a marker without
  a separator: 4.25.0rc1 is written over 4.24.1 (`PrereleasesAreNotProposed` in
  `Upstream`; `upstream_bump.py:104`).
* A run for a cycle older than that of a prerelease lock writes the final of the older
  cycle over it (`FinalsComeAfter` in `Upstream`; `upstream_bump.py:914` against
  `:846-848`).
* The GNOME path compares a suffixed lock by `version_key`, which is not the order of
  releases (`upstream_bump.py:914-917`); a version is substituted as a bare substring
  (`upstream_bump.py:476-509`).

Canary, sources, validation:
* When `canary.py pr-relevant` itself fails, `canary.yml:178` reads it as "not relevant",
  against `canary.py:38-39`, and a merge group is admitted with a pipeline no Canary
  has built (`ProvedThoughCrashed` in `Canary`).
* A connection that breaks in the middle of a body is not retried
  (`source_pipeline.py:72-90`).
* The ratchet of sources fetched from Fedora "may shrink, never grow"
  (`validate.py:163`), yet a tree that adds an offender together with its line passes.
* A lock without a recipe is valid, and an import then refuses that package.

`FinishedRunRelinks` leaves held libraries out, `catches_up` has no re-runs, and
`NoRollback` is checked without "Re-run all jobs", because of the lists above. For
the same reason `BuildsTheFiles` and `RecordedIsPublished` leave the inventory entry
out, `RepairsHold` is about what a run selected as broken (a full run, or one that
cannot read the listing, selects nothing so), `GroupIsProved` is about checks that
ended by themselves, and `WrittenStaysInSeries` allows a prerelease whose marker
stands without a separator and the final of an earlier cycle that a run names.

## What is proved

Each theorem is about the specification as it stands, for every value of the
constants that the modules' own assumptions allow (`StateAssumption`,
`PlanAssumption`, `FactoryAssumption`, `GraphAssumption`, `CacheAssumption`,
`GateAssumption`, `BumpRunAssumption`, `CanaryAssumption`, `AttemptsAssumption`,
`InheritedAssumption`: finitely many packages, bounds that are numbers, values of the
right types). A condition on the constants is in the table.

| Theorem | States |
|---|---|
| **`FactoryProofs`**, `FactoryLinkProofs`, `FactoryOrderProofs` | any packages, BuildRequires, sonames, waves, early publications, triggers, kinds of re-run |
| `TypeCorrect` | `Spec => []TypeOK` |
| `LabelSound`, `LabelTrue` | `Spec => []LabelInvariant`, `Spec => []LabelIsTrue` |
| `EveryChangeCovered` | `Spec => []RunCoversEveryChange` |
| `LinksSound`, `LinkedAgainstThisRun` | `Spec => []LinkInvariant`, `Spec => []BuiltAgainstThisRun` |
| `OrderKept`, `NeverRollsBack` | `Spec => []OrderInvariant`, `Spec => NoRollback`, if `"all" \notin Restarts` |
| `RepositoryCorrect` | `Spec => RepositoryIsKept`: `Factory` implements `Repository`, with every kind of re-run |
| `AttemptsSound` | `Spec => []AttemptInvariant`, if `"failed" \notin Restarts` |
| `FailuresKeepBuilds` | `Spec => FailureKeepsPreviousBuild`, if `"failed" \notin Restarts` |
| `ConsumersRelink` | `Spec => FinishedRunRelinks`, if `"failed" \notin Restarts` |
| **`BuildGraphProofs`** | any graph, listing, stages, build set, number of waves, length of a list |
| `GraphIsInvariant`, `ListIsInvariant`, `TypeCorrect` | the inductive invariants, `Spec => []TypeOK` |
| `SearchCorrect` | `Spec => []SearchIsSound`: the search returns the strongly connected components |
| `OrderCorrect` | `Spec => []OrderedOrReported`: no assertion, providers first, or reported |
| `ListsCorrect` | `Spec => []NothingFallsOut` |
| `CoreAgrees` | `Spec => []AgreesWithCore`: the waves are those of `RebuildPlan` |
| **`PackageCacheProofs`** | any packages, BuildRequires, sonames, runs, contents, build roots, silent edits |
| `CacheIsInvariant`, `TypeCorrect` | the inductive invariant, `Spec => []TypeOK` |
| `RecipesCorrect` | `Spec => []BuildsTheFiles`, also of builds restored several runs later |
| `LinksCorrect`, `RepairsCorrect` | `Spec => []LinkedToThisRun`, `Spec => []RepairsHold` |
| `RecordsCorrect` | `Spec => []RecordedIsPublished` |
| **`BumpGateProofs`** | any packages, versions, numbers of daily bumps, pushes, trims, handovers |
| `GateIsInvariant`, `TypeCorrect` | the inductive invariant, `Spec => []TypeOK` |
| `HoldsCorrect`, `GateCorrect` | `Spec => []HoldsAreOfFailures`, `Spec => []GateKeepsItsWord` |
| `LandingIsImplemented` | `Spec => OnlyProvenLands`: `BumpGate` implements `Landing` |
| **`BumpRunProofs`** | any packages, kinds of package, releases that come, dispatches, replaced tarballs |
| `BumpIsInvariant`, `TypeCorrect` | the inductive invariant, `Spec => []TypeOK` |
| `BumpsCorrect`, `DailyCorrect` | `Spec => []BumpsAreWhole`, `Spec => []DailyIsInSeries` |
| `HoldsCorrect`, `RelocksCorrect` | `Spec => HoldsOutlastFailures`, `Spec => RelockSurvives` |
| **`ToolProofs`** | any canary set, any number of attempts; of the lemmas, see below |
| `SourcesCorrect` | `Spec => []SourceStandsAsLocked` |
| `RootCorrect` | `Spec => []RootIsThePin` |
| `ReimportsCorrect`, `RawhideCorrect` | `Spec => []ReimportNeedsNoHuman`, `Spec => []RawhideIsFollowed` |
| `CacheVerdictCorrect` | `Spec => []CacheVerdictIsSound` |
| `AdmittedCorrect` | `Spec => []AdmittedIsProved` |
| `IssuesCorrect` | `Spec => []IssuesAreCurrent` |
| `WrittenBumpsCorrect` | `Spec => []BumpNeedsNoHuman` |
| `ImportsCorrect` | `Spec => []ImportIsItsOwn` |
| `ImportsMergeCorrect` | `Spec => []ImportsMergeApart`, if no package that is imported is in `Inherited` (`NoneInherited`) |

### The factory run

*The label.* `LabelIsTrue` alone is not inductive: a publication writes the entry
of a package it did not build if the run trusts it. `LabelInvariant` adds that a
trusted package is outside the build set, that artifacts are of the run's own
commit, that nothing given up is in the inventory, and `TrustKept`: as long as
the seed step would accept the run (`MayPublish`), the label on the image still
has the trusted packages at the run's digests. The witness makes that last part
inductive: any image another run pushes has an id the run did not witness and a
run id that is not its own. It holds of `stopped` as well, or `RerunFailed`
would break it.

*Coverage* follows at prepare: what is neither selected nor held is unmoved, so
by `LabelIsTrue` its published build is of the commit; nothing changes what
`Covers` reads afterwards.

*Links.* `InWaveOrder` says that what has been decided is closed under earlier
waves. A build therefore never appears below something already decided, and
`IsWaveMap` puts a provider strictly before its consumer.

*Order.* Commits of `stopped`, `run`, `pending` and `main` follow one another
recipe by recipe, and the repository holds nothing newer than the commit of a run
that may publish. Starting a run over breaks it: its prepare takes a new witness
at an old commit. Hence the condition, and the run `rollback` shows it is needed.

*The repository.* A publication maps to `Publish` of its run's commit. That main has been
at it is `PastInvariant`: whatever was asked for, is in flight or may be run again is of a
commit that main's lies beyond, recipe by recipe (`Older`). What a run publishes is its own
artifacts, which `LabelInvariant` says are of its commit; the label is true before and after by
`LabelIsTrue`; the consumer transaction is `Usable`; and that a package only moves up is
`OrderInvariant`, unless runs may be started over (`Again`), where the abstract step allows
more and everything else still holds.

*Attempts.* `FailureKeepsPreviousBuild` and `FinishedRunRelinks` compare what is
published with what one run's prepare found, so `AttemptInvariant` says how the
repository can differ from that while the run is in flight: what is published of a
package is either the run's `base` or an artifact the run made itself, because only
the run in flight publishes; every artifact is of this attempt; and `DragsAlong`: a
library that is built anew has its consumers in the build set. Re-running failed jobs
alone breaks it: artifacts of the first attempt are then there for packages that have
not been built again, or fail this time. That is the divergence listed above, and the
condition of the three theorems.

### The waves

*The search.* `SearchInvariant` is Tarjan's argument, for the iterative form of the
code. `Stacked`: the stack holds what was discovered and is not settled, in the
order of discovery. `Path`: the calls in progress lie on the stack, each reaching
the next. `Connected`: down the stack every package reaches those above it, and
each reaches back to a call in progress no further up. `SettledWhole`: what has left
the stack is whole cycles, and needs only what has left. `ChildrenSeen`: only a call in
progress has children that were not looked at. `LowIsLowest`: `low[n]` is the
number of something on the stack that `n` reaches, and nothing that was looked at
from the part of the stack that belongs to `n`'s call (`Segment`) is below it. The
last part is the one that is easily stated too strongly: a child's low is not in its
parent's until the child returns, so the segments of nested calls have to be apart. When
a call returns with `low[n] = index[n]`, nothing from `n` up reaches below `n`, and by
`Connected` all of it is `n`'s cycle (`RootIsWhole`).

*The waves.* `NothingEndless`: a set of packages each of which keeps an edge into
the set would lie in one cycle, where the member of the lowest stage keeps
none. So `depth()` never meets its own trail, and by `DepthIs` a package is one deeper
than the deepest of what it still needs; `OrderedOrReported` and `AgreesWithCore`
are read off that. *The lists.* `InOrder` puts a finite set of names in order
(`OrderExists`), and `ChunksAre` says that slices of at most `Chunk` names are
disjoint, not empty, and together the list.

`Reach`, `Endless`, `Depth` and `Installed` are recursive functions. The library's
induction theorems take an operator and cannot be used here, but well-foundedness
of the naturals can be cited for a set: `NatSetInduction` says that a set that holds 0 and
with n also n + 1 holds every number. Applied to the set of numbers for which a
function with the recursive equation exists, and then to those for which its value has
the property wanted, it gives what these functions return for every input.

### The cache

`CacheInvariant`: what stands under a key is a build of what the key names
(`Keyed`: files, build root image, the NEVRs it was linked with); what a run has
built stands on settled requirements (`Settled`, so nothing is replaced below it
later), is linked against what the run has as far as rpm can tell, and exactly if it
had to be compiled (`Linked`), and is of the files and image the run checked out
(`AsEdited`); what the run knows to be broken may not be restored; and what the run
has not built is what is published (`Untouched`), which with `AsEdited` makes the
label a publication writes true. None of it mentions the inventory entry, which no
key covers: that is the run `inventory_hit`. `RepairsCorrect` follows because what was
compiled is linked exactly to what the run has, so each soname it asks for is there.

### The bump gate

A gate decides about a commit its branch may have left, and everything after it
reads that decision later still. `GateInvariant` therefore says what is known of
*commits*, which nothing can undo (`Proven`, `Honest`, verdicts said once), and ties
branches to commits only by identity: `HeadsInv` (no commit is on two branches or comes
back) makes "the branch still has it" a sound test. `Knows` is what each phase of a gate
knows; `Fit` what a handover carries while it is on its way; `InLine` that the merge
queue holds heads of open bumps that may land. The refinement then maps a build
that passed to `Landing`'s proof of a move, and a squash of what is in line to the
landing of a proved move.

### The bump run

`BumpInvariant`: main is whole; a run's tree and a branch's head are an `Advance` of
their base (locks only move up, no package comes to fetch from Fedora);
what is on the daily branch is `InSeries`; a relock is only on the branches of its own
package and of the cycle; and what a run still has to apply is proper for the base
it read (`Proper`). A branch lands by merge, onto a main that has moved, which is why
`Advance` and not equality is kept. The releases of the model are four concrete
versions, so the order on them (`TheOrder`, `ReleasesAreOrdered`) is computed from
`version_key`, not assumed. `HoldsCorrect` needs one invariant more, `HoldInvariant`:
whatever a tree locks or holds has been released (`Out`), what a run may still apply
is above every hold of its base (`Passes`), and a lock that moved, on a run's tree or
a branch, is past what was held (`Passed`). So a hold that is written when a gate
fails, of the release on the branch, is above the one the branch retired: that is how
51.0.1 gives way to 51.0.2 with neither on main. `BumpRunAssumption` says that no package is called "all", which is
how the model writes a dispatch without `--package`.

### The programs called once

A module of this kind has one call and one answer, so its induction is two steps long
(`OneAnswer`, `CallsStay`) and the work is in lemmas about the operators. These take
any input of the right form; the calls that `MCTools` makes are used only for that form
(`SourceCallShape`, `SetCallShape`, `ScanShape`, `TrackingCallShape`...).

*Sources.* `FetchIsFirst`: a fetch returns no later than the first attempt that carries
anything. `EarlierServedNothing`: a mirror before the one that served has had other
bytes to offer only after it had answered with a web page. `PipelineIs`: what is accepted is
what the lock names, however often it was asked for.
*Root pin.* `SetPinIsWhole`: after whichever of its writes `set` ends, the two files are as they
were, or the reader refuses them (`HalfMovedIsNoticed`), or all of it is done and both
name the new image. *Rawhide.* `ScansKeepChanges`: a scan that could read nothing leaves a
state that differs from whatever the next one finds, so the change is queued then.
*Bumps.* `WrittenIs` reads off `plan` what a bump that is written can be: the newest of a
listing, of which a finite one has exactly such a member (`NewestIs`, by the transitivity of
the order of tuples, `AboveOn`), and of the lock's cycle or major version. `version_key` is not
the order of releases; `Rank` is, and `GnomeFollows`, `RankFollows` and `ForgeFollows`
say where, for any two versions of these forms, a comparison that `plan` makes implies
that order: so prereleases and build suffixes do not lead back. A marker without a
separator is taken for the release itself; among triples of one major version that
still leads forward (`TriplesCompare`, `GluedFollows`, `GluedStays`), and the property
claims no more of it. The four projects are used only for which cycles a series has.
`StaleIsReached` holds for any spec: `Below` and `AboveIn` find what a walk along any number
of definitions reaches (`BelowWalks`, `AboveWalks`), and a walk reads the same from its end (`WalkBack`).
*Admission.* `IrrelevantKeepsProof` and `GroupStandsOnProof`: a tree whose changes the check
calls irrelevant is proved by what proved the tree before them, so a group stands on the
proof of its base or of the pull request's head. *Issues.* `TracksExist` gives the history of
the issue for any number of runs; along it, by `SetInduction`, the followers of an open
issue know what its body says (`IsTold`) unless a comment failed, a run without a
verdict changes nothing, and one report that goes through repairs whatever the ones before
it left (`TrackedOnce`). *Imports.* Counting what comes before an entry gives every entry of a
lock a place of its own (`PlacesApart`), so sorting keeps all of them (`OrderKeepsEntries`);
a proposal then has the tree's entries and one more (`MergedLocks`), which
`CandidatesAreProved` says is of the bytes that were proved. Into a lock in order the one entry
goes where its name belongs (`OneIsInserted`), so what a proposal inserts, and where, can be read
off it in one way only (`InsertedIs`). The place of the smaller name is no later than that of
the other and stays what it is when the other's entry is there (`PlaceStays`): `TwoMerge` is
`OneMoreIsValid` twice, for any valid tree whose lock is in order and any two new packages. A package
listed in `Inherited` is not new, as main has its recipe, and its import without the suppressed
tests would be refused; hence `NoneInherited`.

### Checked before proved

Each inductive invariant was checked with TLC as an invariant first:
`LabelInvariant`, `LinkInvariant` and `OrderInvariant` in the runs above;
`SearchInvariant` over every graph of four recipes (67,712 states); `CacheInvariant` in
the instance of `package_cache` (1,595,916 states); `GateInvariant` in the instance of
`bump_gate` (2,085,669 states), and with two branches (10,771 states with one
daily bump, complete; the first 7.8 million with two); `BumpInvariant` and `HoldInvariant`
in the instance of `bump` (254,646 states), and with four and three packages and other
releases (333,480 and 605,602 states);
`PastInvariant` in the instances of `restarts` and
`catches_up`, there with `RepositoryIsKept`, which `reruns` checks too; `AttemptInvariant` in the instance of `catches_up`
without fairness (460,005 states), and with "Re-run all jobs" as far as 3.8 million states.

### Only model-checked

* Liveness, which needs fairness and `ENABLED`: `EventuallyCurrent`, `Ends`,
  `WorkingBumpsLand`, `BrokenIsHeld`, `NewReleaseLands`.

## What the models leave out

* An image without a label (the diff mode), except the very first one; the
  fallback that follows published Requires when there is no graph.
* Chunks in the factory run, lanes, the hermetic lock and matrix retries: a build
  is one step that yields an artifact or does not. The cache is modelled on its own.
* An external change of Hummingbird or Fedora shows only as a transaction or
  precedence that fails.
* Contents are monotone: a revert of a recipe to an earlier content does not occur.
* "Re-run all jobs" starts without the earlier attempt's artifacts. One run of a
  ref is in flight at a time, also when it is run again.
* The Canary's own passes are not composed with `Factory`; its publications go to
  tags of their own.
* `BumpRun` sees the gate as two steps, `BumpGate` sees the bump run as one: the
  two modules meet at the branch, whose other side is nondeterministic in each.
* Formats: versions are number sequences with a tag, files are contents by name,
  feeds are sets of releases. Names, wording, YAML, RPM metadata, signatures.

### Not modelled

* `update-armed-prs.yml`: one request per pull request, at an expected head; on a
  gated branch it is `BumpGate`'s push by hand. `bot_pr_trust.py` is one comparison.
* `assert_gate_enforced` in `publish_gate.py`, `check_workflow_quoting.py`,
  `check_build_container_pinning.py`: structural checks of workflow files.
* `audit_gnome_build_meta.py`, `recalculate_hummingbird_gaps.py`,
  `factory_build_backlog.py`, `multimedia_closure.py`, `package_index.py`,
  `factory_manifest.py`, `factory_contract.py`, `runtime_contract.py`,
  `utah_install_set.py`, `queue_wait.py`: reports computed from files and listings; they
  keep no state and meet no one.
* `generated_sources.py`: downloads and archives; in `Imports` it yields some bytes, not
  always the same ones.
* The build lanes (mock and rpmbuild in containers), and the Packit pilot.
