------------------------------- MODULE Factory -------------------------------
(***************************************************************************)
(* The factory on one ref: main, the published image and the runs of       *)
(* .github/workflows/rebuild-rpms.yml that turn one into the other,        *)
(* through the publications of publish-repository.yml.                     *)
(*                                                                         *)
(* GitHub keeps one run in flight per ref and one pending behind it, and   *)
(* replaces an older pending run with a newer one.  A run selects what to  *)
(* build against the label of the image it finds, builds it wave by wave,  *)
(* publishes after the first waves and at the end, and may fail, be        *)
(* cancelled, and be run again.                                            *)
(***************************************************************************)
EXTENDS RebuildPlan

CONSTANTS
    Bootstrap,    \* recipes built only to feed a later wave, never shipped
    Contract,     \* what the Hummingbird-only consumer transaction installs
    Outranked,    \* recipes Fedora or Hummingbird may ship a newer build of
    Owned,        \* recipes Hummingbird may take over from the factory
    Edited,       \* bound: the recipes that merges change
    Events,       \* what may start a run, a subset of AllEvents
    Restarts,     \* how a run may be run again, a subset of AllRestarts
    RunIds,       \* GITHUB_RUN_ID
    ImageIds,     \* digests of published images
    NoRun,
    NoImage

AllEvents == {"push", "daily", "full", "packages"}
AllRestarts == {"failed", "all"}

\* An id is never reused while anything refers to it, and there are enough:
\* one run and two images are referred to at a time, and one of each more
\* when a run that ended can be run again.
ASSUME FactoryAssumption ==
    /\ Bootstrap \subseteq Packages
    /\ Contract \subseteq Packages \ Bootstrap
    /\ Outranked \subseteq Packages \ Bootstrap
    /\ Owned \subseteq Packages
    /\ Edited \subseteq Packages
    /\ Events \subseteq AllEvents
    /\ Restarts \subseteq AllRestarts
    /\ NoRun \notin RunIds
    /\ NoImage \notin ImageIds
    /\ \A a \in RunIds : RunIds # {a}
    /\ \A a, b \in ImageIds : ImageIds # {a, b}
    /\ Restarts # {} => /\ \A a, b \in RunIds : RunIds # {a, b}
                        /\ \A a, b, c \in ImageIds : ImageIds # {a, b, c}

VARIABLES
    main,      \* the head of main: digests of its inventory, sources given up
    image,     \* the image behind the tag consumers follow
    pending,   \* the run waiting in the concurrency group
    run,       \* the run in flight
    stopped    \* a run that ended and that somebody may run again

vars == <<main, image, pending, run, stopped>>

Commits == [digest : DigestMap, owned : SUBSET Owned]

Images == [id : ImageIds \cup {NoImage}, run : RunIds \cup {NoRun},
           rpm : Repositories, label : Labels]

Requests == [event : AllEvents \cup {"none"}, commit : Commits,
             only : SUBSET Packages]

Phases == {"idle", "prepare", "build"}

Runs == [id : RunIds \cup {NoRun}, phase : Phases, request : Requests,
         witness : ImageIds \cup {NoImage},  \* seed_image
         base : Repositories,                \* the factory repository it reads
         plan : SUBSET Packages, trusted : SUBSET Packages,
         held : SUBSET Packages, prune : SUBSET Packages,
         wave : WaveMap,
         art : Repositories,                 \* the rpm-s<N>-<package> artifacts
         ok : SUBSET Packages, failed : SUBSET Packages, \* of this attempt
         early : SUBSET EarlyIds, lost : SUBSET EarlyIds]

NoCommit == [digest |-> NoDigests, owned |-> {}]
NoRequest == [event |-> "none", commit |-> NoCommit, only |-> {}]

StartedRun(id, request) ==
    [id |-> id, phase |-> "prepare", request |-> request,
     witness |-> NoImage, base |-> EmptyRepository,
     plan |-> {}, trusted |-> {}, held |-> {}, prune |-> {},
     wave |-> [p \in Packages |-> 0], art |-> EmptyRepository,
     ok |-> {}, failed |-> {}, early |-> {}, lost |-> {}]

IdleRun == [StartedRun(NoRun, NoRequest) EXCEPT !.phase = "idle"]

FreshRuns == RunIds \ {image.run, stopped.id}
FreshImages == ImageIds \ {image.id, run.witness, stopped.witness}

FirstMain == [digest |-> [p \in Packages |-> 1], owned |-> {}]
FirstImage == [id |-> NoImage, run |-> NoRun, rpm |-> EmptyRepository,
               label |-> EmptyLabel]

Init ==
    /\ main = FirstMain
    /\ image = FirstImage
    /\ pending = NoRequest
    /\ run = IdleRun
    /\ stopped = IdleRun

-----------------------------------------------------------------------------
(* What queues a run.  The newest request replaces the one that waits.      *)

Queue(event, commit, only) ==
    pending' = [event |-> event, commit |-> commit, only |-> only]

PushTo(head) ==
    /\ main' = head
    /\ IF "push" \in Events
       THEN Queue("push", head, Packages)
       ELSE UNCHANGED pending
    /\ UNCHANGED <<image, run, stopped>>

\* A merge changes what recipe p builds.
ChangeRecipe(p) ==
    /\ p \in Edited
    /\ main.digest[p] \in 1..(MaxVersion - 1)
    /\ PushTo([main EXCEPT !.digest[p] = @ + 1])

\* A merge gives recipe p up to Hummingbird: the recipe goes and its source
\* is listed in config/hummingbird-provided-sources.json.
Retire(p) ==
    /\ p \in Owned
    /\ main.digest[p] # NoDigest
    /\ PushTo([digest |-> [main.digest EXCEPT ![p] = NoDigest],
               owned |-> main.owned \cup {p}])

\* The daily and the weekly schedule.
Schedule(event) ==
    /\ event \in Events \cap {"daily", "full"}
    /\ Queue(event, main, Packages)
    /\ UNCHANGED <<main, image, run, stopped>>

\* A dispatch that names the recipes to build.
DispatchPackages(only) ==
    /\ "packages" \in Events
    /\ only # {} /\ only # Packages
    /\ only \subseteq Inventory(main.digest)
    /\ Queue("packages", main, only)
    /\ UNCHANGED <<main, image, run, stopped>>

-----------------------------------------------------------------------------
(* The run.                                                                 *)

Start ==
    /\ run.phase = "idle"
    /\ pending.event # "none"
    /\ \E id \in FreshRuns : run' = StartedRun(id, pending)
    /\ pending' = NoRequest
    /\ UNCHANGED <<main, image, stopped>>

Names(r) == Inventory(r.request.commit.digest) \cap r.request.only
RetryFailed(r) == r.request.event # "push"

\* prepare.  `listed` says whether the published repository could be read,
\* `judged` whether Hummingbird's listing could: neither is an error.
Listing(listed) == IF listed THEN image.rpm ELSE EmptyRepository

HeldBack ==
    Names(run) \cap Held(image.label, run.request.commit.digest,
                         RetryFailed(run))

Selected(listed, judged) ==
    LET full == run.request.event = "full"
        changed == Changed(image.label, run.request.commit.digest,
                           RetryFailed(run))
        stale == IF full \/ ~judged THEN {} ELSE Stale(Listing(listed))
    IN  Plan(Names(run), changed, stale, full,
             Published(Listing(listed)) # {})

PreparedRun(listed, judged, wave) ==
    [run EXCEPT
        !.phase = "build",
        !.witness = image.id,
        !.base = image.rpm,
        !.plan = Selected(listed, judged),
        !.trusted = (Names(run) \ Selected(listed, judged)) \ HeldBack,
        !.held = HeldBack,
        !.prune = PrunableSources(Listing(listed), run.request.commit.owned),
        !.wave = wave]

Prepare(listed, judged) ==
    /\ run.phase = "prepare"
    /\ \E wave \in WaveMap :
        /\ IsWaveMap(wave, Selected(listed, judged))
        /\ run' = PreparedRun(listed, judged, wave)
    /\ UNCHANGED <<main, image, pending, stopped>>

\* There is something to run again: everything, or the jobs that failed.
Rerunnable(clean) ==
    \/ "all" \in Restarts
    \/ "failed" \in Restarts /\ run.phase = "build" /\ ~clean

\* The run ends, clean or not; somebody may later run it again, or an older
\* one.
End(clean) ==
    /\ run' = IdleRun
    /\ stopped' \in {stopped} \cup {r \in {run} : Rerunnable(clean)}

\* A unit test, the build root or the signature check fails, or the build
\* set is deeper than there are waves.
PrepareFails ==
    /\ run.phase = "prepare"
    /\ End(FALSE)
    /\ UNCHANGED <<main, image, pending>>

Decided == run.ok \cup run.failed

\* Mutant: a wave does not wait for the one before it.
BuildableAtOnce(p) ==
    /\ run.phase = "build"
    /\ p \in run.plan \ Decided

\* Every earlier wave has finished.
Buildable(p) ==
    /\ run.phase = "build"
    /\ p \in run.plan \ Decided
    /\ \A q \in run.plan : run.wave[q] < run.wave[p] => q \in Decided

\* Mutant: the artifacts of earlier waves never reach the build root.
PublishedProvider(p, l) == run.base[l].ver

\* The copy of l the build root of p gets: the artifact of an earlier wave of
\* this run, else the published one, else none.
Provider(p, l) ==
    IF l \in run.plan /\ run.wave[l] < run.wave[p] /\ run.art[l] # NoBuild
    THEN run.art[l].ver
    ELSE run.base[l].ver

\* Mutant: a build says nothing of the packages it does not need.
LinkedPartially(p) == [l \in Requires[p] |-> Provider(p, l)]

Linked(p) ==
    [l \in Packages |-> IF l \in Requires[p] THEN Provider(p, l) ELSE NoDigest]

\* A provider is in the root unless only this factory could have supplied it.
Resolvable(p) ==
    \A l \in Requires[p] : \/ Provider(p, l) # NoDigest
                           \/ l \in Bootstrap \cup run.request.commit.owned

\* Mutant: the build checks out the head of main, not the commit of its run.
BuildOfHead(p) ==
    /\ Buildable(p) /\ Resolvable(p)
    /\ run' = [run EXCEPT !.art[p] = [ver |-> main.digest[p], link |-> Linked(p)], !.ok = @ \cup {p}]
    /\ UNCHANGED <<main, image, pending, stopped>>

Build(p) ==
    /\ Buildable(p)
    /\ Resolvable(p)
    /\ run' = [run EXCEPT
        !.art[p] = [ver |-> run.request.commit.digest[p], link |-> Linked(p)],
        !.ok = @ \cup {p}]
    /\ UNCHANGED <<main, image, pending, stopped>>

\* No artifact is uploaded; one an earlier attempt left is still there.
BuildFails(p) ==
    /\ Buildable(p)
    /\ run' = [run EXCEPT !.failed = @ \cup {p}]
    /\ UNCHANGED <<main, image, pending, stopped>>

-----------------------------------------------------------------------------
(* A publication: the precedence and publish jobs of                        *)
(* publish-repository.yml over the packages of `cover`.                     *)

\* Mutant: the tag is not compared with what prepare saw.
WitnessedAnything == TRUE

\* The seed step: the tag is where prepare saw it, or this run moved it.
Witnessed == image.id = run.witness \/ image.run = run.id

Built(cover) == {p \in cover : run.art[p] # NoBuild}
Accepted(cover, losers) == Built(cover) \ (Bootstrap \cup losers)
NotPublished(cover, losers) ==
    cover \ (Accepted(cover, losers) \cup (Built(cover) \cap Bootstrap))

\* Mutant: what was selected and did not build leaves the repository.
CandidateDroppingFailures(cover, losers, prune) ==
    [p \in Packages |-> IF p \in prune \cup NotPublished(cover, losers)
                        THEN NoBuild
                        ELSE IF p \in Accepted(cover, losers) THEN run.art[p]
                        ELSE image.rpm[p]]

Candidate(cover, losers, prune) ==
    [p \in Packages |-> IF p \in prune THEN NoBuild
                        ELSE IF p \in Accepted(cover, losers) THEN run.art[p]
                        ELSE image.rpm[p]]

\* The Hummingbird-only consumer transaction.
Resolves(rpm, owned) ==
    \A c \in Contract \ owned :
        /\ rpm[c].ver # 0
        /\ \A l \in Requires[c] \ (Bootstrap \cup owned) :
            rpm[l].ver # 0 /\ ~Unsatisfied(rpm, c, l)

\* Mutant: a build that lost precedence is recorded as published.
NextImageRecordingLosers(id, cover, losers, prune) ==
    [id |-> id,
     run |-> run.id,
     rpm |-> Candidate(cover, losers, prune),
     label |-> Merge(image.label, run.request.commit.digest, run.trusted,
                     Built(cover), cover \ Built(cover), prune)]

NextImage(id, cover, losers, prune) ==
    [id |-> id,
     run |-> run.id,
     rpm |-> Candidate(cover, losers, prune),
     label |-> Merge(image.label, run.request.commit.digest, run.trusted,
                     Accepted(cover, losers)
                         \cup (Built(cover) \cap Bootstrap),
                     NotPublished(cover, losers), prune)]

CandidateResolves(cover, losers, prune) ==
    Resolves(Candidate(cover, losers, prune), run.request.commit.owned)

Gate(cover, losers, prune) ==
    /\ Accepted(cover, losers) \cup prune # {}
    /\ CandidateResolves(cover, losers, prune)

\* The tag moves only when the gate opens.
Publish(cover, losers, prune) ==
    /\ Witnessed
    /\ losers \subseteq cover \cap Outranked
    /\ IF Gate(cover, losers, prune)
       THEN \E id \in FreshImages :
                image' = NextImage(id, cover, losers, prune)
       ELSE UNCHANGED image

EarlyTurn(k) ==
    /\ run.phase = "build"
    /\ k \in EarlyWaves(run.plan, run.wave) \ (run.early \cup run.lost)
    /\ Through(run.plan, run.wave, k) \subseteq Decided
    /\ \A j \in EarlyWaves(run.plan, run.wave) :
        j < k => j \in run.early \cup run.lost

PublishEarly(k, losers) ==
    /\ EarlyTurn(k)
    /\ Publish(Through(run.plan, run.wave, k), losers, {})
    /\ run' = [run EXCEPT !.early = @ \cup {k}]
    /\ UNCHANGED <<main, pending, stopped>>

\* Refused by the seed step, or failed for a reason of its own.
PublishEarlyFails(k) ==
    /\ EarlyTurn(k)
    /\ run' = [run EXCEPT !.lost = @ \cup {k}]
    /\ UNCHANGED <<main, image, pending, stopped>>

FinalTurn ==
    /\ run.phase = "build"
    /\ run.plan \subseteq Decided
    /\ EarlyWaves(run.plan, run.wave) \subseteq run.early \cup run.lost

PublishFinal(losers) ==
    /\ FinalTurn
    /\ run.plan \cup run.prune # {}
    /\ Publish(run.plan, losers, run.prune)
    /\ End(/\ run.plan = run.ok
           /\ run.lost = {}
           /\ CandidateResolves(run.plan, losers, run.prune))
    /\ UNCHANGED <<main, pending>>

\* Refused by the seed step, or the transaction or the registry failed.
PublishFinalFails ==
    /\ FinalTurn
    /\ run.plan \cup run.prune # {}
    /\ End(FALSE)
    /\ UNCHANGED <<main, image, pending>>

\* Nothing selected and nothing to prune: no publication at all.
NothingToDo ==
    /\ FinalTurn
    /\ run.plan \cup run.prune = {}
    /\ End(TRUE)
    /\ UNCHANGED <<main, image, pending>>

-----------------------------------------------------------------------------
(* What people do to runs.                                                  *)

Cancel ==
    /\ run.phase # "idle"
    /\ End(FALSE)
    /\ UNCHANGED <<main, image, pending>>

\* "Re-run failed jobs" keeps what prepare decided and every artifact, and
\* starts again the jobs that failed and all that need them.
RerunFailed ==
    LET again == stopped.plan \ stopped.ok
        kept(w) == \A q \in again : w < stopped.wave[q]
        keptPub(k) == /\ kept(k)
                      /\ \A j \in stopped.lost : k < j
    IN  /\ "failed" \in Restarts
        /\ run.phase = "idle"
        /\ stopped.phase = "build"
        /\ run' = [stopped EXCEPT
            !.ok = {p \in @ : \A q \in again :
                                stopped.wave[p] <= stopped.wave[q]},
            !.failed = {},
            !.early = {k \in @ : keptPub(k)},
            !.lost = {}]
        /\ stopped' = IdleRun
        /\ UNCHANGED <<main, image, pending>>

\* "Re-run all jobs" starts the run over, at the commit it had.
RerunAll ==
    /\ "all" \in Restarts
    /\ run.phase = "idle"
    /\ stopped.phase # "idle"
    /\ run' = StartedRun(stopped.id, stopped.request)
    /\ stopped' = IdleRun
    /\ UNCHANGED <<main, image, pending>>

-----------------------------------------------------------------------------
Environment ==
    \/ \E p \in Packages : ChangeRecipe(p) \/ Retire(p)
    \/ \E event \in AllEvents : Schedule(event)
    \/ \E only \in SUBSET Packages : DispatchPackages(only)
    \/ Cancel \/ RerunFailed \/ RerunAll

(* A job of the run ends, well or badly.                                    *)

PrepareEnds ==
    PrepareFails \/ \E listed, judged \in BOOLEAN : Prepare(listed, judged)

BuildEnds(p) == Build(p) \/ BuildFails(p)

PublishEarlyEnds(k) ==
    \/ \E losers \in SUBSET Outranked : PublishEarly(k, losers)
    \/ PublishEarlyFails(k)

FinalEnds ==
    \/ \E losers \in SUBSET Outranked : PublishFinal(losers)
    \/ PublishFinalFails
    \/ NothingToDo

RunStep ==
    \/ Start
    \/ PrepareEnds
    \/ \E p \in Packages : BuildEnds(p)
    \/ \E k \in EarlyIds : PublishEarlyEnds(k)
    \/ FinalEnds

Next == RunStep \/ Environment

Spec == Init /\ [][Next]_vars
-----------------------------------------------------------------------------
(* Fairness: GitHub starts what is queued, a job that has started ends, well *)
(* or badly, and the cron fires every day.  Nothing makes a merge, a         *)
(* cancellation or a re-run happen.                                          *)

Fairness ==
    /\ WF_vars(Schedule("daily"))
    /\ WF_vars(Start)
    /\ WF_vars(PrepareEnds)
    /\ \A p \in Packages : WF_vars(BuildEnds(p))
    /\ \A k \in EarlyIds : WF_vars(PublishEarlyEnds(k))
    /\ WF_vars(FinalEnds)

FairSpec == Spec /\ Fairness

-----------------------------------------------------------------------------
(* Properties.                                                              *)

TypeOK ==
    /\ main \in Commits
    /\ image \in Images
    /\ pending \in Requests
    /\ run \in Runs
    /\ stopped \in Runs

\* The label tells the truth: whatever input digest it records for a package
\* is the one the published build of that package was made from.  prepare
\* believes it for every package it skips.
LabelIsTrue ==
    \A p \in Packages \ Bootstrap :
        image.label.inputs[p] # NoDigest =>
            image.rpm[p].ver = image.label.inputs[p]

\* A run is the union of every change since the last publication, however
\* many runs were replaced in the queue, failed or cancelled: a recipe whose
\* published build is not of the run's commit is built by the run, or held
\* because it failed at exactly these inputs.
RunCoversEveryChange ==
    run.phase = "build" =>
        \A p \in Names(run) \ Bootstrap :
            run.base[p].ver # run.request.commit.digest[p] =>
                p \in run.plan \cup run.held

\* No two packages a run has built disagree: one that BuildRequires the other
\* was linked against the build this run made of it, across the waves, the
\* failures and the re-runs.
BuiltAgainstThisRun ==
    \A c \in run.ok, l \in run.ok :
        l \in Requires[c] => run.art[c].link[l] = run.art[l].ver

\* A publication never takes a package back to older inputs and never drops
\* one that Hummingbird has not taken over.
NoRollback ==
    [][\A p \in Packages \ run.request.commit.owned :
            image'.rpm[p].ver >= image.rpm[p].ver]_image

\* The final publication replaces the published build of library l and leaves
\* its consumer c linked against the copy it replaces, unknown to the label.
LeavesBehind(c, l) ==
    /\ l \in Requires[c]
    /\ image'.rpm[c].ver # 0
    /\ image'.rpm[l] = run.art[l]
    /\ run.art[l].ver # run.base[l].ver
    /\ image'.rpm[c].link[l] # image'.rpm[l].ver
    /\ image'.label.failed[c] = NoDigest

\* A run that comes to its final publication leaves no consumer behind: one
\* that BuildRequires a library the run has published anew is linked against
\* the new copy, or the label names it as failed, for the schedule to retry.
\* Held libraries are another matter, see ReplacedLibrariesRelink.
FinishedRunRelinks ==
    [][run'.phase = "idle" =>
            \A c \in Names(run), l \in run.plan \ (Bootstrap \cup run.held) :
                ~LeavesBehind(c, l)]_image

\* What plan() says of its selection (rebuild_plan.py:409-411): a skip never
\* leaves a consumer linked against a library the same run is replacing.
ReplacedLibrariesRelink ==
    [][run'.phase = "idle" =>
            \A c \in Names(run), l \in run.plan \ Bootstrap :
                ~LeavesBehind(c, l)]_image

\* What README.md:51-53 says of the selection, and rebuild-rpms.yml:26-31 of a
\* run restricted to some packages: the scheduled run that comes next picks
\* up every consumer still linked against a copy that has been replaced.
NoConsumerLeftBehind ==
    run.phase = "build" /\ run.request.event = "daily" =>
        \A c \in Names(run) \ Bootstrap :
            \A l \in Requires[c] \cap Inventory(run.request.commit.digest) :
                /\ run.base[c].ver # 0
                /\ run.base[l].ver # 0
                /\ run.base[c].link[l] # run.base[l].ver
                => c \in run.plan

\* What factory_state.py:13-15 says of the label: a package whose build has
\* just failed is recorded as failing at the inputs it failed at.
FailureIsRecorded ==
    [][\A losers \in SUBSET Outranked :
        PublishFinal(losers) =>
            \A p \in run.failed :
                image'.label.failed[p] = run.request.commit.digest[p]]_vars

\* What publish_gate.py:14-17 says: a package that failed to build keeps its
\* previously published build, or stays absent.
FailureKeepsPreviousBuild ==
    [][\A p \in run.failed \ run.prune : image'.rpm[p] = image.rpm[p]]_image

\* What readers of the repository rely on, kept whatever is queued, cancelled,
\* lost and run again; started over, a run may go back to its own commit.
Public == INSTANCE Repository WITH
    Versions <- 0..MaxVersion, Internal <- Bootstrap, Again <- "all" \in Restarts,
    head <- main, rpm <- image.rpm, known <- image.label.inputs

RepositoryIsKept == Public!Spec

\* A step in which nothing goes wrong: whatever people merge and start, and
\* jobs that see all they should, succeed and lose no precedence.
GoesWell ==
    \/ \E p \in Packages : ChangeRecipe(p) \/ Retire(p) \/ Build(p)
    \/ \E event \in AllEvents : Schedule(event)
    \/ \E only \in SUBSET Packages : DispatchPackages(only)
    \/ Start \/ Prepare(TRUE, TRUE)
    \/ \E k \in EarlyIds : PublishEarly(k, {})
    \/ PublishFinal({}) \/ NothingToDo

\* The published repository catches up with main: once nothing goes wrong any
\* more, every recipe of main is published at its newest inputs, nothing that
\* Hummingbird took over is, and no published binary asks for a soname that is
\* gone, whatever was lost on the way.
EventuallyCurrent ==
    <>[][GoesWell]_vars =>
        <>[](/\ \A p \in Inventory(main.digest) \ Bootstrap :
                    image.rpm[p].ver = main.digest[p]
             /\ \A p \in main.owned : image.rpm[p] = NoBuild
             /\ Stale(image.rpm) = {})
=============================================================================
