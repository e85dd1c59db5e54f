-------------------------- MODULE FactoryInvariants --------------------------
(***************************************************************************)
(* The inductive invariants of Factory: what its safety properties rest    *)
(* on, stated of the run in flight and of the one that may be run again.   *)
(***************************************************************************)
EXTENDS Factory

\* A commit does not carry a recipe and give its source up at once.
Consistent(commit) == commit.owned \cap Inventory(commit.digest) = {}

\* What prepare decided, and artifacts that are of the run's own commit.
SoundRun(r) ==
    /\ r.phase # "idle" => r.id \in RunIds
    /\ Consistent(r.request.commit)
    /\ r.plan \subseteq Names(r)
    /\ r.trusted \subseteq Inventory(r.request.commit.digest) \ r.plan
    /\ r.prune \subseteq r.request.commit.owned
    /\ \A p \in Packages :
        r.art[p] = NoBuild \/ r.art[p].ver = r.request.commit.digest[p]

\* The seed step would accept the image for this run.
MayPublish(r) ==
    /\ r.phase = "build"
    /\ image.id = r.witness \/ image.run = r.id

TrustKept(r) ==
    MayPublish(r) =>
        \A p \in r.trusted :
            image.label.inputs[p] = r.request.commit.digest[p]

\* Why the label tells the truth: the packages a run takes on trust are not
\* the ones it builds, and as long as its publications are accepted the label
\* they merge into still records those packages at the run's commit.
LabelInvariant ==
    /\ LabelIsTrue
    /\ Consistent(main) /\ Consistent(pending.commit)
    /\ SoundRun(run) /\ SoundRun(stopped)
    /\ TrustKept(run) /\ TrustKept(stopped)
    /\ run.phase # "idle" => run.id # stopped.id

\* Of a run in flight and of one to be run again alike: what its build set
\* leaves out was published at the run's commit, or is held.
Covers(r) ==
    r.phase = "build" =>
        \A p \in Names(r) \ Bootstrap :
            r.base[p].ver # r.request.commit.digest[p] =>
                p \in r.plan \cup r.held

CoverInvariant == Covers(run) /\ Covers(stopped)

\* Waves: whatever has been decided, everything in the waves before it has,
\* so a build was linked against every earlier wave that built.
InWaveOrder(r) ==
    /\ r.ok \cap r.failed = {}
    /\ r.ok \cup r.failed \subseteq r.plan
    /\ \A p \in r.ok : r.art[p] # NoBuild
    /\ \A c \in r.ok \cup r.failed, q \in r.plan :
        r.wave[q] < r.wave[c] => q \in r.ok \cup r.failed
    /\ \A c, l \in r.ok :
        l \in Requires[c] => r.art[c].link[l] = r.art[l].ver

WellLinked(r) ==
    IF r.phase = "build"
    THEN IsWaveMap(r.wave, r.plan) /\ InWaveOrder(r)
    ELSE r.ok = {} /\ r.failed = {}

LinkInvariant == WellLinked(run) /\ WellLinked(stopped)

\* Time: a newer commit carries newer contents of the recipes it lists, and
\* the repository holds nothing newer than the commit of a run that may yet
\* publish.  A run started over at an old commit breaks this.
Precedes(older, newer) ==
    \A p \in Inventory(newer.digest) : older.digest[p] <= newer.digest[p]

NothingNewer(commit) ==
    \A p \in Inventory(commit.digest) : image.rpm[p].ver <= commit.digest[p]

Ahead(commit) ==
    /\ NothingNewer(commit)
    /\ Precedes(run.request.commit, commit)
    /\ Precedes(stopped.request.commit, commit)

OrderInvariant ==
    /\ Ahead(main) /\ Precedes(pending.commit, main)
    /\ pending.event # "none" => Ahead(pending.commit)
    /\ run.phase = "prepare" \/ MayPublish(run) =>
        NothingNewer(run.request.commit)
    /\ MayPublish(stopped) => NothingNewer(stopped.request.commit)

\* Whatever is asked for and whatever runs is of a commit main has been at.
PastInvariant ==
    /\ pending.event # "none" => Public!Older(pending.commit, main)
    /\ \A r \in {run, stopped} :
        r.phase # "idle" => Public!Older(r.request.commit, main)

\* A run that builds a library anew builds what it lists of its consumers too.
DragsAlong ==
    \A c \in Names(run), l \in run.plan \ (Bootstrap \cup run.held) :
        l \in Requires[c] /\ run.base[l].ver # run.request.commit.digest[l] => c \in run.plan

\* Unless failed jobs are run again, a run has the artifacts of its own attempt
\* only.  Since its prepare nobody else has published, so what is published is
\* what it found, or what it built; and nothing that feeds a later wave only.
AttemptInvariant ==
    /\ \A p \in Packages : run.art[p] # NoBuild => p \in run.ok
    /\ \A p \in Bootstrap : image.rpm[p] = NoBuild
    /\ run.phase = "build" =>
          /\ \A p \in Packages :
                \/ image.rpm[p] = run.base[p]
                \/ run.art[p] # NoBuild /\ image.rpm[p] = run.art[p]
          /\ DragsAlong
=============================================================================
