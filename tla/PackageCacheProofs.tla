------------------------- MODULE PackageCacheProofs -------------------------
(***************************************************************************)
(* Why taking RPMs from the cache instead of compiling them is sound: what *)
(* stands under a key is a build of what the key names, a package is       *)
(* decided on only when what it is built from is settled for the rest of   *)
(* the run, and nothing the run knows to be broken may be taken at all.    *)
(***************************************************************************)
EXTENDS PackageCache, WellFoundedInduction, FiniteSetTheorems, TLAPS

----------------------------------------------------------------------------
(* What is installed for a package *)

\* Induction over the naturals, for a set.
LEMMA NatSetInduction ==
    ASSUME NEW S, 0 \in S, \A n \in Nat : n \in S => n + 1 \in S
    PROVE  Nat \subseteq S
<1> DEFINE Missing == Nat \ S
           Less == OpToRel(<, Nat)
<1>1. SUFFICES ASSUME Missing # {} PROVE FALSE
    OBVIOUS
<1>2. IsWellFoundedOn(Less, Nat)
    BY NatLessThanWellFounded
<1>3. Missing \subseteq Nat
    OBVIOUS
<1> HIDE DEF Missing, Less
<1>4. PICK least \in Missing : \A n \in Missing : ~(<<n, least>> \in Less)
    BY <1>1, <1>2, <1>3, WFMin
<1>5. least \in Nat /\ least # 0
    BY <1>3 DEF Missing
<1>6. least - 1 \in Nat /\ least - 1 < least /\ (least - 1) + 1 = least
    BY <1>5
<1>7. least - 1 \notin S
    BY <1>5, <1>6 DEF Missing
<1>8. least - 1 \in Missing
    BY <1>6, <1>7 DEF Missing
<1>9. <<least - 1, least>> \in Less
    BY <1>5, <1>6 DEF Less, OpToRel
<1>10. QED
    BY <1>4, <1>8, <1>9

\* How many steps Installed follows the requirements for.
Waves == Cardinality(Packages)

\* The inventory is finite.
LEMMA FinitelyMany == Waves \in Nat
BY CacheAssumption, FS_CardinalityType DEF Waves

\* One step further in what the build requirements pull in.
Further(less) == less \cup UNION {Requires[q] : q \in less}

\* near is what p requires, then what that requires, up to n steps away.
Nearest(p, near, n) ==
    near = [k \in 0..n |-> IF k = 0 THEN Requires[p] ELSE Further(near[k - 1])]

\* Installed(p) is the last value of such a function, if there is one.
LEMMA InstalledUnfolds ==
    ASSUME NEW p \in Packages
    PROVE  Installed(p) = (CHOOSE near : Nearest(p, near, Waves))[Waves]
BY DEF Installed, Nearest, Further, Waves

\* There is one for every number of steps.
LEMMA NearestExists ==
    ASSUME NEW p \in Packages, NEW n \in Nat
    PROVE  \E near : Nearest(p, near, n)
<1> DEFINE S == {m \in Nat : \E near : Nearest(p, near, m)}
<1>1. 0 \in S
    <2>1. Nearest(p, [k \in 0..0 |-> Requires[p]], 0)
        BY DEF Nearest
    <2>2. QED BY <2>1
<1>2. ASSUME NEW m \in Nat, m \in S
      PROVE  m + 1 \in S
    <2>1. PICK near : Nearest(p, near, m)
        BY <1>2
    <2> DEFINE next == [k \in 0..(m + 1) |-> IF k = m + 1 THEN Further(near[m]) ELSE near[k]]
    <2>2. ASSUME NEW k \in 0..(m + 1)
          PROVE  next[k] = IF k = 0 THEN Requires[p] ELSE Further(next[k - 1])
        <3>1. CASE k = m + 1
            BY <3>1
        <3>2. CASE k # m + 1
            <4>1. k \in 0..m
                BY <3>2
            <4>2. near[k] = IF k = 0 THEN Requires[p] ELSE Further(near[k - 1])
                BY <2>1, <4>1 DEF Nearest
            <4>3. next[k] = near[k] /\ (k # 0 => next[k - 1] = near[k - 1])
                BY <4>1
            <4>4. QED BY <4>2, <4>3
        <3>3. QED BY <3>1, <3>2
    <2>3. next = [k \in 0..(m + 1) |-> next[k]]
        OBVIOUS
    <2> HIDE DEF next
    <2>4. next = [k \in 0..(m + 1) |-> IF k = 0 THEN Requires[p] ELSE Further(next[k - 1])]
        BY <2>2, <2>3
    <2>5. Nearest(p, next, m + 1)
        BY <2>4 DEF Nearest
    <2>6. QED BY <2>5
<1>3. Nat \subseteq S
    <2> HIDE DEF S
    <2>1. QED BY <1>1, <1>2, NatSetInduction
<1>4. QED BY <1>3

\* The requirements of packages are packages, however far away.
LEMMA NearestIsPackages ==
    ASSUME NEW p \in Packages, NEW n \in Nat, NEW near, Nearest(p, near, n)
    PROVE  \A k \in 0..n : near[k] \subseteq Packages
<1> DEFINE S == {k \in Nat : k <= n => near[k] \subseteq Packages}
<1>1. 0 \in S
    BY CacheAssumption DEF Nearest
<1>2. ASSUME NEW k \in Nat, k \in S
      PROVE  k + 1 \in S
    <2> SUFFICES ASSUME k + 1 <= n PROVE near[k + 1] \subseteq Packages
        OBVIOUS
    <2>1. near[k] \subseteq Packages
        BY <1>2
    <2>2. near[k + 1] = Further(near[(k + 1) - 1])
        BY DEF Nearest
    <2>3. near[k + 1] = Further(near[k])
        BY <2>2
    <2>4. QED BY <2>1, <2>3, CacheAssumption DEF Further
<1>3. Nat \subseteq S
    <2> HIDE DEF S
    <2>1. QED BY <1>1, <1>2, NatSetInduction
<1>4. QED BY <1>3

\* Only packages are installed for a package.
LEMMA InstalledIsPackages ==
    ASSUME NEW p \in Packages
    PROVE  Installed(p) \subseteq Packages
<1>1. Waves \in Nat
    BY FinitelyMany
<1>2. \E near : Nearest(p, near, Waves)
    BY <1>1, NearestExists
<1>3. Nearest(p, CHOOSE near : Nearest(p, near, Waves), Waves)
    BY <1>2
<1>4. PICK near : near = CHOOSE other : Nearest(p, other, Waves)
    OBVIOUS
<1>5. Nearest(p, near, Waves)
    BY <1>3, <1>4
<1>6. near[Waves] \subseteq Packages
    BY <1>1, <1>5, NearestIsPackages
<1>7. QED BY <1>4, <1>6, InstalledUnfolds

----------------------------------------------------------------------------
(* What is published before the first run *)

\* Every package rebuilt over builds.
Rebuilt(below) == [p \in Packages |-> Build(p, Content(1, 1), 1, {below[q] : q \in Installed(p)})]

\* original is the repository after each of n rebuilds.
Successive(original, n) ==
    original = [k \in 0..n |-> IF k = 0 THEN [p \in Packages |-> Build(p, Content(1, 1), 1, {})]
                                        ELSE Rebuilt(original[k - 1])]

\* Original is the last of them, if there are any.
LEMMA OriginalUnfolds == Original = (CHOOSE original : Successive(original, Waves))[Waves]
BY DEF Original, Successive, Rebuilt, Waves

\* There are, for every number of rebuilds.
LEMMA SuccessiveExists ==
    ASSUME NEW n \in Nat
    PROVE  \E original : Successive(original, n)
<1> DEFINE S == {m \in Nat : \E original : Successive(original, m)}
           First == [p \in Packages |-> Build(p, Content(1, 1), 1, {})]
<1>1. 0 \in S
    <2>1. Successive([k \in 0..0 |-> First], 0)
        BY DEF Successive
    <2>2. QED BY <2>1
<1>2. ASSUME NEW m \in Nat, m \in S
      PROVE  m + 1 \in S
    <2>1. PICK original : Successive(original, m)
        BY <1>2
    <2> DEFINE next == [k \in 0..(m + 1) |-> IF k = m + 1 THEN Rebuilt(original[m])
                                                          ELSE original[k]]
    <2> HIDE DEF First
    <2>2. ASSUME NEW k \in 0..(m + 1)
          PROVE  next[k] = IF k = 0 THEN First ELSE Rebuilt(next[k - 1])
        <3>1. CASE k = m + 1
            BY <3>1
        <3>2. CASE k # m + 1
            <4>1. k \in 0..m
                BY <3>2
            <4>2. original[k] = IF k = 0 THEN First ELSE Rebuilt(original[k - 1])
                BY <2>1, <4>1 DEF Successive, First
            <4>3. next[k] = original[k] /\ (k # 0 => next[k - 1] = original[k - 1])
                BY <4>1
            <4>4. QED BY <4>2, <4>3
        <3>3. QED BY <3>1, <3>2
    <2>3. next = [k \in 0..(m + 1) |-> next[k]]
        OBVIOUS
    <2> HIDE DEF next
    <2>4. next = [k \in 0..(m + 1) |-> IF k = 0 THEN First ELSE Rebuilt(next[k - 1])]
        BY <2>2, <2>3
    <2>5. Successive(next, m + 1)
        BY <2>4 DEF Successive, First
    <2>6. QED BY <2>5
<1>3. Nat \subseteq S
    <2> HIDE DEF S
    <2>1. QED BY <1>1, <1>2, NatSetInduction
<1>4. QED BY <1>3

\* A repository: a build of each package.
Published(builds) ==
    /\ builds = [p \in Packages |-> builds[p]]
    /\ \A p \in Packages : builds[p].pkg = p

\* The first repository is one, of the first recipes and build root.
LEMMA OriginalIsPublished ==
    /\ Published(Original)
    /\ \A p \in Packages : Original[p].files = 1 /\ Original[p].img = 1
<1>1. Waves \in Nat
    BY FinitelyMany
<1>2. \E original : Successive(original, Waves)
    BY <1>1, SuccessiveExists
<1>3. Successive(CHOOSE original : Successive(original, Waves), Waves)
    BY <1>2
<1>4. PICK original : original = CHOOSE other : Successive(other, Waves)
    OBVIOUS
<1>5. Successive(original, Waves)
    BY <1>3, <1>4
<1>6. Original = original[Waves]
    BY <1>4, OriginalUnfolds
<1>7. CASE Waves = 0
    <2>1. original[Waves] = [p \in Packages |-> Build(p, Content(1, 1), 1, {})]
        BY <1>1, <1>5, <1>7 DEF Successive
    <2>2. QED BY <1>6, <2>1 DEF Published, Build, Content
<1>8. CASE Waves # 0
    <2>1. original[Waves] = Rebuilt(original[Waves - 1])
        BY <1>1, <1>5, <1>8 DEF Successive
    <2>2. QED BY <1>6, <2>1 DEF Published, Build, Content, Rebuilt
<1>9. QED BY <1>7, <1>8

----------------------------------------------------------------------------
(* The inductive invariant *)

\* The record a run is.
RunShape ==
    run = [phase |-> run.phase, of |-> run.of, img |-> run.img, plan |-> run.plan,
           stale |-> run.stale, cacheable |-> run.cacheable, art |-> run.art,
           ok |-> run.ok, bad |-> run.bad, n |-> run.n]

\* Recipes, within the bounds.
Recipes ==
    /\ recipe = [p \in Packages |-> recipe[p]]
    /\ \A p \in Packages : recipe[p].files \in 1..MaxFiles[p] /\ recipe[p].entry \in 1..MaxEntry[p]

\* A run has what it built over what is published, and selects before it decides.
Types ==
    /\ RunShape
    /\ Recipes /\ image \in 1..MaxImage
    /\ Published(repo) /\ Published(run.art)
    /\ run.phase \in {"idle", "build"} /\ run.n \in 0..MaxRuns
    /\ run.plan \subseteq Packages /\ run.cacheable \cup run.stale \subseteq run.plan
    /\ Decided \subseteq run.plan /\ run.ok \cap run.bad = {}
    /\ run.phase = "idle" => run.plan = {}

\* What stands under a key is a build of what the key names.
Keyed(e) ==
    /\ e.key.pkg = e.build.pkg /\ e.key.image = e.build.img
    /\ e.key.recipe = e.build.files
    /\ e.key.root = {Nevr(b) : b \in e.build.on}

\* What p is linked against is what this run has, as far as rpm can tell,
\* and exactly that if p may not come from the cache.
Linked(p) ==
    \A b \in run.art[p].on :
        /\ b.pkg \in Installed(p)
        /\ b.pkg \notin Silent \/ p \notin run.cacheable => b.files = run.art[b.pkg].files

\* What p was built from is what the run checked out, where the key sees it.
AsEdited(p) == run.art[p].files = run.of[p].files /\ run.art[p].img = run.img

\* What p was built from is settled for the rest of the run.
Settled(p) == Installed(p) \cap run.plan \subseteq Decided

\* What this run has not built is what is published.
Untouched == \A p \in Packages : p \notin run.ok => run.art[p] = repo[p]

\* What holds of every package a run has built; that nothing broken may be
\* restored by a run that knows of it; and what the label says.
CacheInvariant ==
    /\ Types
    /\ \A e \in cache : Keyed(e)
    /\ \A p \in run.ok : Settled(p) /\ Linked(p) /\ AsEdited(p)
    /\ run.cacheable \cap run.stale = {}
    /\ Untouched
    /\ RecordedIsPublished

\* Nothing is cached and nothing runs at first.
LEMMA InitCache == Init => CacheInvariant
<1> SUFFICES ASSUME Init PROVE CacheInvariant
    OBVIOUS
<1>1. run = [phase |-> "idle", of |-> recipe, img |-> image, plan |-> {}, stale |-> {},
             cacheable |-> {}, art |-> repo, ok |-> {}, bad |-> {}, n |-> 0]
    BY DEF Init, IdleRun
<1>2. Types
    <2>1. Published(repo)
        BY OriginalIsPublished DEF Init
    <2>2. Recipes /\ image \in 1..MaxImage /\ 0 \in 0..MaxRuns
        BY CacheAssumption DEF Init, Recipes, Content
    <2>3. QED BY <1>1, <2>1, <2>2 DEF Types, RunShape, Decided
<1>3. RecordedIsPublished
    <2>1. ASSUME NEW p \in Packages
          PROVE  label.inputs[p].files = 1 /\ label.inputs[p].img = 1
        BY DEF Init, Current, Digest, Content
    <2>2. QED BY <2>1, OriginalIsPublished DEF Init, RecordedIsPublished
<1>4. QED BY <1>1, <1>2, <1>3 DEF CacheInvariant, Untouched, Init

\* A repository with another build of p.
With(builds, p, b) == [builds EXCEPT ![p] = b]

\* ... is one in which nothing but p is another build.
LEMMA PublishedWith ==
    ASSUME NEW builds, Published(builds), NEW p \in Packages, NEW b, b.pkg = p
    PROVE  /\ Published(With(builds, p, b))
           /\ With(builds, p, b)[p] = b
           /\ \A q \in Packages : q # p => With(builds, p, b)[q] = builds[q]
<1>1. builds = [q \in Packages |-> builds[q]]
    BY DEF Published
<1>2. With(builds, p, b) = [q \in Packages |-> IF q = p THEN b ELSE builds[q]]
    BY <1>1 DEF With
<1>3. QED BY <1>1, <1>2 DEF Published

\* The build root of p, among the packages.
LEMMA RootIsPublished ==
    ASSUME Types, NEW p \in Packages
    PROVE  /\ \A q \in Installed(p) : q \in Packages /\ run.art[q].pkg = q
           /\ \A b \in Root(p) : b.pkg \in Installed(p) /\ b = run.art[b.pkg]
BY InstalledIsPackages DEF Types, Published, Root

\* What a succeeding build job does to the run.
RunWith(p, b) ==
    [phase |-> run.phase, of |-> run.of, img |-> run.img, plan |-> run.plan,
     stale |-> run.stale, cacheable |-> run.cacheable, art |-> With(run.art, p, b),
     ok |-> run.ok \cup {p}, bad |-> run.bad, n |-> run.n]

\* That is what Succeeds does.
LEMMA SucceedsDoes ==
    ASSUME RunShape, NEW p, NEW b, Succeeds(p, b)
    PROVE  run' = RunWith(p, b)
<1>1. PICK decided : decided = [run EXCEPT !.ok = @ \cup {p}]
    OBVIOUS
<1>2. run' = [decided EXCEPT !.art = With(run.art, p, b)]
    BY <1>1 DEF Succeeds, RunShape, With
<1>3. decided = [phase |-> run.phase, of |-> run.of, img |-> run.img, plan |-> run.plan,
                 stale |-> run.stale, cacheable |-> run.cacheable, art |-> run.art,
                 ok |-> run.ok \cup {p}, bad |-> run.bad, n |-> run.n]
    BY <1>1 DEF RunShape
<1>4. QED BY <1>2, <1>3 DEF RunWith

\* A build job that succeeds with a build of the recipe, linked against what
\* this run has: nothing that was built before depends on it.
LEMMA SucceedsKeeps ==
    ASSUME CacheInvariant, NEW p \in Packages, Buildable(p), NEW b, b.pkg = p,
           Succeeds(p, b), UNCHANGED <<recipe, image, repo, label>>,
           \A c \in b.on :
               /\ c.pkg \in Installed(p)
               /\ c.pkg \notin Silent \/ p \notin run.cacheable => c.files = run.art[c.pkg].files,
           b.files = run.of[p].files, b.img = run.img
    PROVE  /\ Types'
           /\ (\A q \in run.ok : Settled(q) /\ Linked(q) /\ AsEdited(q))'
           /\ (run.cacheable \cap run.stale = {})'
           /\ Untouched'
           /\ RecordedIsPublished'
<1>1. RunShape /\ Types
    BY DEF CacheInvariant, Types
<1>2. run' = [phase |-> run.phase, of |-> run.of, img |-> run.img, plan |-> run.plan,
              stale |-> run.stale, cacheable |-> run.cacheable, art |-> With(run.art, p, b),
              ok |-> run.ok \cup {p}, bad |-> run.bad, n |-> run.n]
    BY <1>1, SucceedsDoes DEF RunWith
<1>3. /\ Published(run'.art)
      /\ run'.art[p] = b
      /\ \A q \in Packages : q # p => run'.art[q] = run.art[q]
    BY <1>1, <1>2, PublishedWith DEF Types
<1>4. p \in run.plan /\ p \notin run.ok /\ p \notin run.bad /\ Settled(p) /\ run.phase = "build"
    BY DEF Buildable, Decided, Settled
<1>5. Types'
    <2>1. Published(run.art)'
        BY <1>3 DEF Published
    <2>2. RunShape'
        BY <1>2 DEF RunShape
    <2>3. QED BY <1>1, <1>2, <1>4, <2>1, <2>2 DEF Types, Recipes, Decided, Published
<1>6. ASSUME NEW q \in run.ok'
      PROVE  q \in Packages /\ p \notin Installed(q) /\ Settled(q)'
    <2>1. q \in run.ok \/ q = p
        BY <1>2
    <2>2. Settled(q) /\ q \in Packages
        BY <1>1, <1>4, <2>1 DEF CacheInvariant, Types, Decided
    <2>3. p \notin Installed(q)
        BY <1>4, <2>2 DEF Settled, Decided
    <2>4. Settled(q)'
        BY <1>2, <2>2 DEF Settled, Decided
    <2>5. QED BY <2>2, <2>3, <2>4
<1>7. ASSUME NEW q \in run.ok'
      PROVE  Linked(q)' /\ AsEdited(q)'
    <2>1. q \in Packages /\ p \notin Installed(q) /\ Installed(q) \subseteq Packages
        BY <1>6, InstalledIsPackages
    <2>2. \A c : c \in Installed(q) => run'.art[c] = run.art[c]
        BY <1>3, <2>1
    <2>3. CASE q = p
        <3>1. Linked(q)'
            BY <1>2, <1>3, <2>2, <2>3 DEF Linked
        <3>2. AsEdited(q)'
            BY <1>2, <1>3, <2>3 DEF AsEdited
        <3>3. QED BY <3>1, <3>2
    <2>4. CASE q # p
        <3>1. q \in run.ok /\ run'.art[q] = run.art[q]
            BY <1>2, <1>3, <2>1, <2>4
        <3>2. Linked(q) /\ AsEdited(q)
            BY <3>1 DEF CacheInvariant
        <3>3. Linked(q)'
            BY <1>2, <2>2, <3>1, <3>2 DEF Linked
        <3>4. AsEdited(q)'
            BY <1>2, <3>1, <3>2 DEF AsEdited
        <3>5. QED BY <3>3, <3>4
    <2>5. QED BY <2>3, <2>4
<1>8. (run.cacheable \cap run.stale = {})'
    BY <1>2 DEF CacheInvariant
<1>9. Untouched'
    BY <1>2, <1>3 DEF CacheInvariant, Untouched
<1>10. RecordedIsPublished'
    BY DEF CacheInvariant, RecordedIsPublished
<1>11. QED BY <1>5, <1>6, <1>7, <1>8, <1>9, <1>10

----------------------------------------------------------------------------
(* The steps *)

\* A package compiled here is of the recipe, over the root as it is.
LEMMA CompileStep ==
    ASSUME CacheInvariant, NEW p \in Packages, Compile(p)
    PROVE  CacheInvariant'
<1>1. Types /\ Buildable(p) /\ UNCHANGED <<recipe, image, repo, label>>
    BY DEF CacheInvariant, Compile
<1>2. PICK b : b = Compiled(p)
    OBVIOUS
<1>3. Succeeds(p, b)
    BY <1>2 DEF Compile
<1>4. b.pkg = p /\ b.files = run.of[p].files /\ b.img = run.img /\ b.on = Root(p)
    BY <1>2 DEF Compiled, Build
<1>5. \A c \in b.on : c.pkg \in Installed(p) /\ c.files = run.art[c.pkg].files
    BY <1>1, <1>4, RootIsPublished
<1>6. /\ Types'
      /\ (\A q \in run.ok : Settled(q) /\ Linked(q) /\ AsEdited(q))'
      /\ (run.cacheable \cap run.stale = {})'
      /\ Untouched'
      /\ RecordedIsPublished'
    BY <1>1, <1>3, <1>4, <1>5, SucceedsKeeps
<1>7. Keyed([key |-> Key(p), build |-> b])
    BY <1>4 DEF Keyed, Key
<1>8. \A e \in cache' : e \in cache \/ e = [key |-> Key(p), build |-> b]
    BY <1>2 DEF Compile
<1>9. \A e \in cache' : Keyed(e)
    BY <1>7, <1>8 DEF CacheInvariant
<1>10. QED BY <1>6, <1>9 DEF CacheInvariant, Keyed

\* A hit is of the recipe its key names, and of packages at the NEVRs they
\* have in the root it would be compiled in.
LEMMA RestoreStep ==
    ASSUME CacheInvariant, NEW p \in Packages, Restore(p)
    PROVE  CacheInvariant'
<1>1. Types /\ Buildable(p) /\ UNCHANGED <<recipe, image, repo, label, cache>> /\ p \in run.cacheable
    BY DEF CacheInvariant, Restore
<1>2. PICK hit \in Cached(p) : Succeeds(p, hit.build)
    BY DEF Restore
<1>3. hit \in cache /\ hit.key = Key(p) /\ Keyed(hit)
    BY <1>2 DEF Cached, CacheInvariant
<1>4. PICK b : b = hit.build
    OBVIOUS
<1>5. /\ b.pkg = p /\ b.img = run.img /\ b.files = run.of[p].files
      /\ {Nevr(c) : c \in b.on} = {Nevr(c) : c \in Root(p)}
    BY <1>3, <1>4 DEF Keyed, Key
<1>6. ASSUME NEW c \in b.on
      PROVE  c.pkg \in Installed(p) /\ (c.pkg \notin Silent => c.files = run.art[c.pkg].files)
    <2>1. Nevr(c) \in {Nevr(d) : d \in b.on}
        OBVIOUS
    <2>2. Nevr(c) \in {Nevr(d) : d \in Root(p)}
        BY <1>5, <2>1
    <2>3. PICK d \in Root(p) : Nevr(c) = Nevr(d)
        BY <2>2
    <2>4. d.pkg = c.pkg /\ (d.pkg \notin Silent => c.files = d.files)
        BY <2>3 DEF Nevr
    <2>5. d.pkg \in Installed(p) /\ d = run.art[d.pkg]
        BY <1>1, <2>3, RootIsPublished
    <2>6. QED BY <2>4, <2>5
<1>7. /\ Types'
      /\ (\A q \in run.ok : Settled(q) /\ Linked(q) /\ AsEdited(q))'
      /\ (run.cacheable \cap run.stale = {})'
      /\ Untouched'
      /\ RecordedIsPublished'
    BY <1>1, <1>2, <1>4, <1>5, <1>6, SucceedsKeeps
<1>8. QED BY <1>1, <1>7 DEF CacheInvariant, Keyed

\* A failed build decides, and changes nothing else.
LEMMA CompileFailsStep ==
    ASSUME CacheInvariant, NEW p \in Packages, CompileFails(p)
    PROVE  CacheInvariant'
<1>1. /\ Types /\ RunShape /\ UNCHANGED <<recipe, image, repo, label, cache>>
      /\ p \in run.plan /\ p \notin run.ok /\ run.phase = "build"
    BY DEF CacheInvariant, Types, CompileFails, Buildable, Decided
<1>2. run' = [phase |-> run.phase, of |-> run.of, img |-> run.img, plan |-> run.plan,
              stale |-> run.stale, cacheable |-> run.cacheable, art |-> run.art,
              ok |-> run.ok, bad |-> run.bad \cup {p}, n |-> run.n]
    BY <1>1 DEF CompileFails, RunShape
<1>3. Types'
    <2>1. RunShape'
        BY <1>2 DEF RunShape
    <2>2. QED BY <1>1, <1>2, <2>1 DEF Types, Recipes, Decided, Published
<1>4. ASSUME NEW q \in run.ok'
      PROVE  (Settled(q) /\ Linked(q) /\ AsEdited(q))'
    <2>1. q \in run.ok
        BY <1>2
    <2>2. Settled(q) /\ Linked(q) /\ AsEdited(q)
        BY <2>1 DEF CacheInvariant
    <2>3. QED BY <1>2, <2>2 DEF Settled, Decided, Linked, AsEdited
<1>5. (run.cacheable \cap run.stale = {})' /\ Untouched' /\ RecordedIsPublished'
    BY <1>1, <1>2 DEF CacheInvariant, Untouched, RecordedIsPublished
<1>6. QED BY <1>1, <1>3, <1>4, <1>5 DEF CacheInvariant, Keyed

\* Nothing known to be broken may come from the cache.
LEMMA StartStep ==
    ASSUME CacheInvariant, NEW retry, NEW full, NEW answer, Start(retry, full, answer)
    PROVE  CacheInvariant'
<1>1. Types /\ UNCHANGED <<recipe, image, repo, label, cache>> /\ run.n < MaxRuns
    BY DEF CacheInvariant, Start
<1>2. PICK changed : changed = Changed(retry)
    OBVIOUS
<1>3. PICK stale : stale = IF full \/ ~answer THEN {} ELSE Stale
    OBVIOUS
<1>4. PICK direct : direct = IF full THEN Packages ELSE changed \cup stale
    OBVIOUS
<1>5. PICK plan : plan = direct \cup Dragged(direct)
    OBVIOUS
<1>6. run' = [phase |-> "build", of |-> recipe, img |-> image, plan |-> plan,
              stale |-> stale, cacheable |-> Cacheable(plan, changed, stale),
              art |-> repo, ok |-> {}, bad |-> {}, n |-> run.n + 1]
    BY <1>2, <1>3, <1>4, <1>5 DEF Start
<1>7. changed \subseteq Packages /\ stale \subseteq Packages
    <2>1. changed \subseteq Packages
        BY <1>2 DEF Changed, Moved, Failing, Held
    <2>2. stale \subseteq Packages
        BY <1>3 DEF Stale
    <2>3. QED BY <2>1, <2>2
<1>8. plan \subseteq Packages /\ stale \subseteq plan
    BY <1>3, <1>4, <1>5, <1>7 DEF Dragged
<1>9. Types'
    <2>1. RunShape'
        BY <1>6 DEF RunShape
    <2>2. run.n + 1 \in 0..MaxRuns
        BY <1>1, CacheAssumption DEF Types
    <2>3. Cacheable(plan, changed, stale) \subseteq plan
        BY DEF Cacheable
    <2>4. QED BY <1>1, <1>6, <1>8, <2>1, <2>2, <2>3 DEF Types, Recipes, Decided, Published
<1>10. (run.cacheable \cap run.stale = {})'
    BY <1>6 DEF Cacheable
<1>11. run'.ok = {} /\ Untouched' /\ RecordedIsPublished'
    BY <1>1, <1>6 DEF CacheInvariant, Untouched, RecordedIsPublished
<1>12. QED BY <1>1, <1>9, <1>10, <1>11 DEF CacheInvariant, Keyed

\* What a publication records of a package is what it publishes of it.
LEMMA PublishRecords ==
    ASSUME CacheInvariant, Publish
    PROVE  RecordedIsPublished'
<1>1. repo' = run.art /\ label' = Label
    BY DEF Publish
<1>2. ASSUME NEW p \in Packages
      PROVE  label'.inputs[p].files = repo'[p].files /\ label'.inputs[p].img = repo'[p].img
    <2>1. CASE p \in run.ok
        <3>1. label'.inputs[p].files = run.of[p].files /\ label'.inputs[p].img = run.img
            BY <1>1, <2>1 DEF Label, Attempted, Digest
        <3>2. QED BY <1>1, <2>1, <3>1 DEF CacheInvariant, AsEdited
    <2>2. CASE p \notin run.ok
        <3>1. label'.inputs[p] = label.inputs[p]
            BY <1>1, <2>2 DEF Label
        <3>2. QED BY <1>1, <2>2, <3>1 DEF CacheInvariant, Untouched, RecordedIsPublished
    <2>3. QED BY <2>1, <2>2
<1>3. QED BY <1>2 DEF RecordedIsPublished

\* Publishing, or ending without, ends the run.
LEMMA EndStep ==
    ASSUME CacheInvariant, Publish \/ PublishNothing
    PROVE  CacheInvariant'
<1>1. Types /\ UNCHANGED <<recipe, image, cache>>
    BY DEF CacheInvariant, Publish, PublishNothing
<1>2. /\ Published(repo)'
      /\ run' = [phase |-> "idle", of |-> recipe, img |-> image, plan |-> {}, stale |-> {},
                 cacheable |-> {}, art |-> repo', ok |-> {}, bad |-> {}, n |-> run.n]
    <2>1. CASE Publish
        BY <1>1, <2>1 DEF Publish, IdleRun, Types, Published
    <2>2. CASE PublishNothing
        BY <1>1, <2>2 DEF PublishNothing, IdleRun, Types, Published
    <2>3. QED BY <2>1, <2>2
<1>3. Types'
    <2>1. RunShape'
        BY <1>2 DEF RunShape
    <2>2. QED BY <1>1, <1>2, <2>1 DEF Types, Recipes, Decided, Published
<1>4. run'.ok = {} /\ run'.cacheable = {} /\ Untouched'
    BY <1>2 DEF Untouched
<1>5. RecordedIsPublished'
    <2>1. CASE Publish
        BY <2>1, PublishRecords
    <2>2. CASE PublishNothing
        BY <2>2 DEF PublishNothing, CacheInvariant, RecordedIsPublished
    <2>3. QED BY <2>1, <2>2
<1>6. QED BY <1>1, <1>3, <1>4, <1>5 DEF CacheInvariant, Keyed

\* Main moves under a run that has checked out what it builds.
LEMMA HeadStep ==
    ASSUME CacheInvariant, (\E p \in Packages : EditFiles(p) \/ EditEntry(p)) \/ RefreshBuildroot
    PROVE  CacheInvariant'
<1>1. Types /\ UNCHANGED <<repo, label, cache, run>>
    BY DEF CacheInvariant, EditFiles, EditEntry, RefreshBuildroot
<1>2. Recipes' /\ image' \in 1..MaxImage
    <2>1. CASE \E p \in Packages : EditFiles(p) \/ EditEntry(p)
        <3>1. PICK p \in Packages : EditFiles(p) \/ EditEntry(p)
            BY <2>1
        <3>2. MaxFiles[p] \in Nat /\ MaxEntry[p] \in Nat
            BY CacheAssumption
        <3>3. PICK of : /\ recipe' = [recipe EXCEPT ![p] = of]
                        /\ of.files \in 1..MaxFiles[p] /\ of.entry \in 1..MaxEntry[p]
            BY <1>1, <3>1, <3>2 DEF EditFiles, EditEntry, Content, Types, Recipes
        <3>4. image' = image
            BY <3>1 DEF EditFiles, EditEntry
        <3>5. QED BY <1>1, <3>3, <3>4 DEF Types, Recipes
    <2>2. CASE RefreshBuildroot
        BY <1>1, <2>2, CacheAssumption DEF RefreshBuildroot, Types, Recipes
    <2>3. QED BY <2>1, <2>2
<1>3. Types'
    BY <1>1, <1>2 DEF Types, RunShape, Decided, Published
<1>4. QED
    BY <1>1, <1>3 DEF CacheInvariant, Keyed, Settled, Linked, AsEdited, Decided, Untouched,
                      RecordedIsPublished

\* Every step keeps the invariant.
LEMMA StepCache == CacheInvariant /\ [Next]_vars => CacheInvariant'
<1> SUFFICES ASSUME CacheInvariant, [Next]_vars PROVE CacheInvariant'
    OBVIOUS
<1>1. CASE \E p \in Packages : Restore(p)
    BY <1>1, RestoreStep
<1>2. CASE \E p \in Packages : Compile(p)
    BY <1>2, CompileStep
<1>3. CASE \E p \in Packages : CompileFails(p)
    BY <1>3, CompileFailsStep
<1>4. CASE \E answer \in Answers : \/ \E retry \in BOOLEAN : Start(retry, FALSE, answer)
                                   \/ Start(TRUE, TRUE, answer)
    BY <1>4, StartStep
<1>5. CASE Publish \/ PublishNothing
    BY <1>5, EndStep
<1>6. CASE (\E p \in Packages : EditFiles(p) \/ EditEntry(p)) \/ RefreshBuildroot
    BY <1>6, HeadStep
<1>7. CASE UNCHANGED vars
    <2>1. UNCHANGED <<recipe, image, repo, label, cache, run>>
        BY <1>7 DEF vars
    <2>2. Types'
        BY <2>1 DEF CacheInvariant, Types, Recipes, RunShape, Published, Decided
    <2>3. \A e \in cache' : Keyed(e)'
        BY <2>1 DEF CacheInvariant, Keyed
    <2>4. \A p \in run'.ok : (Settled(p) /\ Linked(p) /\ AsEdited(p))'
        BY <2>1 DEF CacheInvariant, Settled, Decided, Linked, AsEdited
    <2>5. (run.cacheable \cap run.stale = {})' /\ Untouched' /\ RecordedIsPublished'
        BY <2>1 DEF CacheInvariant, Untouched, RecordedIsPublished
    <2>6. QED BY <2>2, <2>3, <2>4, <2>5 DEF CacheInvariant
<1>8. QED BY <1>1, <1>2, <1>3, <1>4, <1>5, <1>6, <1>7 DEF Next

----------------------------------------------------------------------------
(* What the runs check *)

\* package_cache_key.py and rebuild_plan.cacheable(): at every point of
\* every run, what the cache holds is what its keys say, what the run has
\* built is of its commit and linked against what the run has, nothing the
\* run knows to be broken may be restored, and what the label records of a
\* package is what is published of it.
THEOREM CacheIsInvariant == Spec => []CacheInvariant
<1>1. QED BY InitCache, StepCache, PTL DEF Spec

\* The type invariant: a run never decides a package twice and never keeps
\* from the cache what it did not select.
THEOREM TypeCorrect == Spec => []TypeOK
<1>1. CacheInvariant => TypeOK
    BY DEF CacheInvariant, Types, Recipes, Published, Decided, Keyed, TypeOK
<1>2. QED BY <1>1, CacheIsInvariant, PTL

\* Whether compiled or restored, what a run decides on is of the files and
\* of the build root the run checked out, whatever was edited before.
THEOREM RecipesCorrect == Spec => []BuildsTheFiles
<1>1. CacheInvariant => BuildsTheFiles
    BY DEF CacheInvariant, AsEdited, BuildsTheFiles
<1>2. QED BY <1>1, CacheIsInvariant, PTL

\* A restored package is linked against the versions this run has, as far
\* as rpm can tell versions apart.
THEOREM LinksCorrect == Spec => []LinkedToThisRun
<1>1. CacheInvariant => LinkedToThisRun
    BY DEF CacheInvariant, Linked, LinkedToThisRun
<1>2. QED BY <1>1, CacheIsInvariant, PTL

\* A package a run selects because it is broken is repaired when that run
\* builds it, even where rpm cannot tell the broken build from the repaired
\* one.  Of a full run, which looks for nothing broken, it says nothing.
THEOREM RepairsCorrect == Spec => []RepairsHold
<1>1. ASSUME CacheInvariant, NEW p \in run.ok \cap run.stale
      PROVE  ~Broken(run.art[p], run.art)
    <2>1. p \notin run.cacheable /\ Linked(p)
        BY <1>1 DEF CacheInvariant
    <2>2. \A c \in run.art[p].on : c.files = run.art[c.pkg].files
        BY <2>1 DEF Linked
    <2>3. QED BY <2>2 DEF Broken
<1>2. CacheInvariant => RepairsHold
    BY <1>1 DEF RepairsHold
<1>3. QED BY <1>2, CacheIsInvariant, PTL

\* The label of the image never says a package is newer, or built in
\* another build root, than what the image carries.
THEOREM RecordsCorrect == Spec => []RecordedIsPublished
<1>1. CacheInvariant => RecordedIsPublished
    BY DEF CacheInvariant
<1>2. QED BY <1>1, CacheIsInvariant, PTL

=============================================================================
