---------------------------- MODULE PackageCache ----------------------------
(***************************************************************************)
(* tools/package_cache_key.py, rebuild_plan.cacheable() and the cache      *)
(* steps of build-stage.yml: RPMs a run takes from an earlier build        *)
(* instead of compiling them, and what that does to the repository and to  *)
(* the label that records what it was built from.                          *)
(*                                                                         *)
(* A build is the recipe's files, its inventory entry, the build root      *)
(* image and the builds that were installed for it; two builds of the same *)
(* four are the same RPMs.  What rpm sees of a build is its NEVR.          *)
(***************************************************************************)
EXTENDS Naturals, FiniteSets

CONSTANTS
    Packages,
    Requires,    \* Requires[p]: what p BuildRequires
    Soname,      \* Soname[p][v]: the soname of p's library at its v-th files
    MaxFiles,    \* bound: MaxFiles[p], contents the files of p go through
    MaxEntry,    \* bound: MaxEntry[p], contents its inventory entry goes through
    MaxImage,    \* bound: build root images
    Silent,      \* recipes whose files are edited without moving the NEVR
    Answers,     \* whether Hummingbird's listing can be read
    MaxRuns      \* bound: runs

ASSUME CacheAssumption ==
    /\ IsFiniteSet(Packages)
    /\ Requires \in [Packages -> SUBSET Packages]
    /\ MaxFiles \in [Packages -> Nat \ {0}] /\ MaxEntry \in [Packages -> Nat \ {0}]
    /\ MaxImage \in Nat \ {0} /\ MaxRuns \in Nat
    /\ Silent \subseteq Packages /\ Answers \subseteq BOOLEAN

VARIABLES
    recipe,   \* the files and the inventory entry of each recipe on main
    image,    \* config/buildroot-image on main
    repo,     \* the published build of each package
    label,    \* the state recorded on the published image
    cache,    \* what is in the registry: key -> build
    run       \* the run in flight

vars == <<recipe, image, repo, label, cache, run>>

Content(files, entry) == [files |-> files, entry |-> entry]

Build(p, of, img, on) ==
    [pkg |-> p, files |-> of.files, entry |-> of.entry, img |-> img, on |-> on]

\* input_digest: the recipe, its entry and what every package shares.
Digest(of, img) == [files |-> of.files, entry |-> of.entry, img |-> img]

NoDigest == Digest(Content(0, 0), 0)

\* What is installed for p: what it BuildRequires and what that requires.
Installed(p) ==
    LET near[k \in 0..Cardinality(Packages)] ==
            IF k = 0 THEN Requires[p]
            ELSE LET less == near[k - 1] IN less \cup UNION {Requires[q] : q \in less}
    IN  near[Cardinality(Packages)]

\* Every package built from its first content.
Original ==
    LET original[k \in 0..Cardinality(Packages)] ==
            IF k = 0 THEN [p \in Packages |-> Build(p, Content(1, 1), 1, {})]
            ELSE LET below == original[k - 1]
                 IN  [p \in Packages |-> Build(p, Content(1, 1), 1, {below[q] : q \in Installed(p)})]
    IN  original[Cardinality(Packages)]

Nevr(b) == <<b.pkg, IF b.pkg \in Silent THEN 1 ELSE b.files>>

----------------------------------------------------------------------------
(* What a run selects *)

IdleRun ==
    [phase |-> "idle", of |-> recipe, img |-> image, plan |-> {}, stale |-> {},
     cacheable |-> {}, art |-> repo, ok |-> {}, bad |-> {}, n |-> 0]

Current(p) == Digest(recipe[p], image)

Moved == {p \in Packages : label.inputs[p] # Current(p)}

Failing == {p \in Packages : label.failed[p] # NoDigest}

\* Moved, but the last attempt at exactly these inputs failed: left out by a push.
Held == {p \in Moved : label.failed[p] = Current(p)}

Changed(retry) == IF retry THEN Moved \cup Failing ELSE Moved \ Held

\* Build b asks for a soname its provider has another of among these builds.
Broken(b, builds) ==
    \E c \in b.on : /\ c.pkg \in Requires[b.pkg]
                    /\ Soname[c.pkg][c.files] # Soname[c.pkg][builds[c.pkg].files]

Stale == {p \in Packages : Broken(repo[p], repo)}

Dragged(direct) == {c \in Packages : Requires[c] \cap direct # {}}

\* Mutant: only what was edited is kept from the cache.
CacheableButEdited(plan, changed, stale) == plan \ changed

\* Neither what its author just edited nor what is known to be broken.
Cacheable(plan, changed, stale) == plan \ (changed \cup stale)

\* A push, a schedule or a dispatch, which retry what failed, or a full run,
\* which looks for nothing broken; nor does a run that cannot read Hummingbird.
Start(retry, full, answer) ==
    /\ run.phase = "idle" /\ run.n < MaxRuns
    /\ LET changed == Changed(retry)
           stale == IF full \/ ~answer THEN {} ELSE Stale
           direct == IF full THEN Packages ELSE changed \cup stale
           plan == direct \cup Dragged(direct)
       IN  /\ plan # {}
           /\ run' = [phase |-> "build", of |-> recipe, img |-> image, plan |-> plan,
                      stale |-> stale, cacheable |-> Cacheable(plan, changed, stale),
                      art |-> repo, ok |-> {}, bad |-> {}, n |-> run.n + 1]
    /\ UNCHANGED <<recipe, image, repo, label, cache>>

----------------------------------------------------------------------------
(* One build job *)

\* The build root of p: artifacts of earlier waves over what is published.
Root(p) == {run.art[q] : q \in Installed(p)}

Compiled(p) == Build(p, run.of[p], run.img, Root(p))

\* Mutant: the key names the recipe, not the root it is built in.
KeyOfRecipe(p) ==
    [pkg |-> p, recipe |-> run.of[p].files, image |-> run.img, root |-> {}]

\* Mutant: the key leaves the recipe to the NEVRs.
KeyOfRoot(p) ==
    [pkg |-> p, recipe |-> 1, image |-> run.img, root |-> {Nevr(b) : b \in Root(p)}]

\* recipe_digest reads packages/<name>: the inventory entry is not in it.
Key(p) ==
    [pkg |-> p, recipe |-> run.of[p].files, image |-> run.img,
     root |-> {Nevr(b) : b \in Root(p)}]

Decided == run.ok \cup run.bad

\* Mutant: a package whose build failed is tried again.
BuildableAgain(p) ==
    /\ run.phase = "build" /\ p \in run.plan \ run.ok
    /\ Installed(p) \cap run.plan \subseteq Decided

Buildable(p) ==
    /\ run.phase = "build" /\ p \in run.plan \ Decided
    /\ Installed(p) \cap run.plan \subseteq Decided

Cached(p) == {e \in cache : e.key = Key(p)}

\* The build job of p succeeds with the RPMs of build b.
Succeeds(p, b) ==
    run' = [run EXCEPT !.ok = @ \cup {p}, !.art = [@ EXCEPT ![p] = b]]

Restore(p) ==
    /\ Buildable(p) /\ p \in run.cacheable
    /\ \E hit \in Cached(p) : Succeeds(p, hit.build)
    /\ UNCHANGED <<recipe, image, repo, label, cache>>

\* A miss, no entry that may be asked for, or a registry that does not
\* answer: the package is compiled, and pushed if the registry takes it.
Compile(p) ==
    /\ Buildable(p)
    /\ Succeeds(p, Compiled(p))
    /\ \/ UNCHANGED cache
       \/ /\ p \in run.cacheable
          /\ cache' = (cache \ Cached(p)) \cup {[key |-> Key(p), build |-> Compiled(p)]}
    /\ UNCHANGED <<recipe, image, repo, label>>

CompileFails(p) ==
    /\ Buildable(p)
    /\ run' = [run EXCEPT !.bad = @ \cup {p}]
    /\ UNCHANGED <<recipe, image, repo, label, cache>>

----------------------------------------------------------------------------
(* The publication, and main *)

Attempted(p) == Digest(run.of[p], run.img)

\* Mutant: the label records what was selected.
LabelOfThePlan ==
    [inputs |-> [p \in Packages |-> IF p \in run.plan THEN Attempted(p) ELSE label.inputs[p]],
     failed |-> [p \in Packages |->
                    IF p \in run.bad THEN Attempted(p)
                    ELSE IF p \in run.ok THEN NoDigest ELSE label.failed[p]]]

\* factory_state.merge: what was built is recorded, what failed as failed.
Label ==
    [inputs |-> [p \in Packages |-> IF p \in run.ok THEN Attempted(p) ELSE label.inputs[p]],
     failed |-> [p \in Packages |->
                    IF p \in run.bad THEN Attempted(p)
                    ELSE IF p \in run.ok THEN NoDigest ELSE label.failed[p]]]

\* What built replaces what was published; the rest keeps its build.
Publish ==
    /\ run.phase = "build" /\ run.plan = Decided /\ run.ok # {}
    /\ repo' = run.art
    /\ label' = Label
    /\ run' = [IdleRun EXCEPT !.n = run.n, !.art = run.art]
    /\ UNCHANGED <<recipe, image, cache>>

\* Nothing built, or the publication fails; the cache keeps what was built.
PublishNothing ==
    /\ run.phase = "build" /\ run.plan = Decided
    /\ run' = [IdleRun EXCEPT !.n = run.n]
    /\ UNCHANGED <<recipe, image, repo, label, cache>>

EditFiles(p) ==
    /\ recipe[p].files < MaxFiles[p]
    /\ recipe' = [recipe EXCEPT ![p] = Content(recipe[p].files + 1, recipe[p].entry)]
    /\ UNCHANGED <<image, repo, label, cache, run>>

EditEntry(p) ==
    /\ recipe[p].entry < MaxEntry[p]
    /\ recipe' = [recipe EXCEPT ![p] = Content(recipe[p].files, recipe[p].entry + 1)]
    /\ UNCHANGED <<image, repo, label, cache, run>>

RefreshBuildroot ==
    /\ image < MaxImage
    /\ image' = image + 1
    /\ UNCHANGED <<recipe, repo, label, cache, run>>

Init ==
    /\ recipe = [p \in Packages |-> Content(1, 1)] /\ image = 1
    /\ repo = Original /\ cache = {}
    /\ label = [inputs |-> [p \in Packages |-> Current(p)],
                failed |-> [p \in Packages |-> NoDigest]]
    /\ run = IdleRun

Next ==
    \/ \E p \in Packages : \/ EditFiles(p) \/ EditEntry(p)
                           \/ Restore(p) \/ Compile(p) \/ CompileFails(p)
    \/ \E answer \in Answers :
           \/ \E retry \in BOOLEAN : Start(retry, FALSE, answer)
           \/ Start(TRUE, TRUE, answer)
    \/ Publish \/ PublishNothing \/ RefreshBuildroot

Spec == Init /\ [][Next]_vars

----------------------------------------------------------------------------

TypeOK ==
    /\ \A p \in Packages : recipe[p].files \in 1..MaxFiles[p] /\ recipe[p].entry \in 1..MaxEntry[p]
    /\ image \in 1..MaxImage
    /\ \A p \in Packages : repo[p].pkg = p /\ run.art[p].pkg = p
    /\ run.phase \in {"idle", "build"} /\ run.n \in 0..MaxRuns
    /\ run.cacheable \cup run.stale \subseteq run.plan /\ run.ok \cap run.bad = {}
    /\ \A e \in cache : e.key.pkg = e.build.pkg

\* What a run decides on is built from the files and in the build root of the
\* commit it checked out, compiled now or restored several runs later
\* (package_cache_key.py: a key can "never reuse something stale").  The
\* inventory entry is left out here: see BuildsTheRecipe.
BuildsTheFiles ==
    \A p \in run.ok : run.art[p].files = run.of[p].files /\ run.art[p].img = run.img

\* The same of all a recipe is, its inventory entry with it, as the key's
\* module claims without exception.
BuildsTheRecipe == BuildsTheFiles /\ \A p \in run.ok : run.art[p].entry = run.of[p].entry

\* A restored package is linked against the versions this run produces or
\* leaves published, as one compiled here is (package_cache_key.py: "an RPM
\* linked against different libraries than this run produced").  A recipe
\* edited without moving its NEVR is invisible to rpm, and so to the key.
LinkedToThisRun ==
    \A p \in run.ok : \A b \in run.art[p].on :
        b.pkg \notin Silent => b.files = run.art[b.pkg].files

\* What a run selects because it is broken as published is repaired by that
\* run whenever it builds, even where no NEVR tells the broken build in the
\* cache from a repaired one (rebuild_plan.py, cacheable).
RepairsHold == \A p \in run.ok \cap run.stale : ~Broken(run.art[p], run.art)

\* The docstring of rebuild_plan.cacheable, of every run: the cache does not
\* hand back the very build that is broken.
NeverHandsBackTheBroken == \A p \in run.ok \cap Stale : ~Broken(run.art[p], run.art)

\* What the label records a package as built from is what its published build
\* was built from, also where that build came from the cache of an earlier
\* run: were it not, an edit nobody published would be found up to date and
\* never be built (factory_state.py).  The inventory entry is left out here.
RecordedIsPublished ==
    \A p \in Packages : /\ label.inputs[p].files = repo[p].files
                        /\ label.inputs[p].img = repo[p].img
=============================================================================
