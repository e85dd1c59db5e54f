-------------------------- MODULE FactoryLinkProofs --------------------------
(***************************************************************************)
(* What the waves are for: within a run, a package is linked against the   *)
(* builds that run made of what it BuildRequires, for every graph and every *)
(* wave map, through failures and partial re-runs.  Then what one attempt  *)
(* publishes: a failure keeps the build that was there, and a finished run *)
(* leaves no consumer behind, unless failed jobs alone are run again.      *)
(***************************************************************************)
EXTENDS FactoryProofs

\* A run that has decided nothing, not building or just prepared.
LEMMA NothingDecidedLinked ==
    /\ \A id, request : WellLinked(StartedRun(id, request))
    /\ WellLinked(IdleRun)
BY DEF WellLinked, StartedRun, IdleRun

\* A provider in the build set is in an earlier wave.
LEMMA ProvidersEarlier ==
    ASSUME NEW wave, NEW plan \in SUBSET Packages, IsWaveMap(wave, plan),
           NEW c \in plan, NEW l \in plan, l \in Requires[c]
    PROVE  wave[l] < wave[c]
<1>1. c \in Packages /\ l \in Requires[c] \cap plan
    OBVIOUS
<1>2. QED BY <1>1 DEF IsWaveMap

\* A build is linked against what was decided before it.
LEMMA BuildLinked ==
    ASSUME TypeOK, LabelInvariant, WellLinked(run),
           NEW p \in Packages, Build(p)
    PROVE  WellLinked(run')
<1> DEFINE digests == run.request.commit.digest
<1>1. /\ run \in Runs /\ run.phase = "build"
      /\ run.art \in Repositories /\ run.wave \in WaveMap
      /\ run.plan \in SUBSET Packages
      /\ digests \in DigestMap
    BY DEF TypeOK, Runs, Build, Buildable, Requests, Commits
<1>2. /\ run'.phase = "build" /\ run'.wave = run.wave
      /\ run'.plan = run.plan /\ run'.failed = run.failed
      /\ run'.ok = run.ok \cup {p}
      /\ run'.art = [run.art EXCEPT
            ![p] = [ver |-> digests[p], link |-> Linked(p)]]
    BY <1>1 DEF Build, Runs
<1>3. /\ p \in run.plan /\ p \notin run.ok \cup run.failed
      /\ \A q \in run.plan :
            run.wave[q] < run.wave[p] => q \in run.ok \cup run.failed
    BY DEF Build, Buildable, Decided
<1>4. /\ run'.art[p].ver = digests[p] /\ run'.art[p].link = Linked(p)
      /\ \A q \in Packages : q # p => run'.art[q] = run.art[q]
    BY <1>1, <1>2 DEF Repositories
<1>5. IsWaveMap(run.wave, run.plan) /\ InWaveOrder(run)
    BY <1>1 DEF WellLinked
<1>6. run'.art[p] # NoBuild
    <2>1. digests[p] # 0
        BY <1>3 DEF LabelInvariant, SoundRun, Names, Inventory, NoDigest
    <2>2. QED BY <1>4, <2>1 DEF NoBuild
<1>7. ASSUME NEW c \in run'.ok, NEW l \in run'.ok, l \in Requires[c]
      PROVE  run'.art[c].link[l] = run'.art[l].ver
    <2>1. /\ c \in run.plan /\ l \in run.plan
          /\ c \in Packages /\ l \in Packages
        BY <1>1, <1>2, <1>3, <1>5 DEF InWaveOrder
    <2>2. run.wave[l] < run.wave[c]
        BY <1>1, <1>5, <1>7, <2>1, ProvidersEarlier
    <2>3. run.wave[l] \in Nat /\ run.wave[c] \in Nat
        BY <1>1, <2>1, PlanAssumption DEF WaveMap, WaveIds
    <2>4. l # c
        BY <2>2, <2>3
    <2>5. CASE c = p
        <3>1. l \in run.ok /\ run.art[l] # NoBuild
            BY <1>2, <1>5, <1>7, <2>4, <2>5 DEF InWaveOrder
        <3>2. Provider(p, l) = run.art[l].ver
            BY <2>1, <2>2, <2>5, <3>1 DEF Provider
        <3>3. Linked(p)[l] = Provider(p, l)
            BY <1>7, <2>1, <2>5 DEF Linked
        <3>4. QED BY <1>4, <2>1, <2>4, <2>5, <3>2, <3>3
    <2>6. CASE c # p /\ l = p
        \* p's consumer was decided in an earlier step, so p was too.
        BY <1>2, <1>3, <1>5, <1>7, <2>1, <2>2, <2>6 DEF InWaveOrder
    <2>7. CASE c # p /\ l # p
        BY <1>2, <1>4, <1>5, <1>7, <2>1, <2>7 DEF InWaveOrder
    <2>8. QED BY <2>5, <2>6, <2>7
<1>8. ASSUME NEW c \in run'.ok \cup run'.failed, NEW q \in run'.plan,
             run'.wave[q] < run'.wave[c]
      PROVE  q \in run'.ok \cup run'.failed
    BY <1>2, <1>3, <1>5, <1>8 DEF InWaveOrder
<1>9. \A c \in run'.ok : run'.art[c] # NoBuild
    <2>1. ASSUME NEW c \in run.ok PROVE run'.art[c] = run.art[c]
        BY <1>1, <1>3, <1>4, <1>5, <2>1 DEF InWaveOrder
    <2>2. QED BY <1>2, <1>5, <1>6, <2>1 DEF InWaveOrder
<1>10. /\ run'.ok \cap run'.failed = {}
       /\ run'.ok \cup run'.failed \subseteq run'.plan
    BY <1>2, <1>3, <1>5 DEF InWaveOrder
<1>11. InWaveOrder(run')
    BY <1>7, <1>8, <1>9, <1>10 DEF InWaveOrder
<1>12. QED BY <1>2, <1>5, <1>11 DEF WellLinked

\* A failure decides a package and adds no artifact.
LEMMA BuildFailsLinked ==
    ASSUME TypeOK, WellLinked(run), NEW p \in Packages, BuildFails(p)
    PROVE  WellLinked(run')
<1>1. /\ run \in Runs /\ run.phase = "build"
      /\ p \in run.plan /\ p \notin run.ok \cup run.failed
      /\ \A q \in run.plan :
            run.wave[q] < run.wave[p] => q \in run.ok \cup run.failed
    BY DEF TypeOK, BuildFails, Buildable, Decided
<1>2. /\ run'.phase = "build" /\ run'.wave = run.wave
      /\ run'.plan = run.plan /\ run'.ok = run.ok
      /\ run'.art = run.art /\ run'.failed = run.failed \cup {p}
    BY <1>1 DEF BuildFails, Runs
<1>3. IsWaveMap(run.wave, run.plan) /\ InWaveOrder(run)
    BY <1>1 DEF WellLinked
<1>4. InWaveOrder(run')
    BY <1>1, <1>2, <1>3 DEF InWaveOrder
<1>5. QED BY <1>2, <1>3, <1>4 DEF WellLinked

\* A partial re-run keeps what built before anything it starts again.
LEMMA RerunFailedLinked ==
    ASSUME TypeOK, LinkInvariant, RerunFailed
    PROVE  WellLinked(run')
<1> DEFINE again == stopped.plan \ stopped.ok
<1>1. /\ stopped \in Runs /\ stopped.phase = "build"
      /\ stopped.wave \in WaveMap /\ stopped.plan \in SUBSET Packages
    BY DEF TypeOK, Runs, RerunFailed
<1>2. /\ run'.phase = "build" /\ run'.wave = stopped.wave
      /\ run'.plan = stopped.plan /\ run'.art = stopped.art
      /\ run'.failed = {}
      /\ run'.ok = {p \in stopped.ok : \A q \in again :
                        stopped.wave[p] <= stopped.wave[q]}
    BY <1>1 DEF RerunFailed, Runs
<1>3. IsWaveMap(stopped.wave, stopped.plan) /\ InWaveOrder(stopped)
    BY <1>1 DEF LinkInvariant, WellLinked
<1>4. \A p \in stopped.plan : stopped.wave[p] \in Nat
    BY <1>1, PlanAssumption DEF WaveMap, WaveIds
<1>5. ASSUME NEW c \in run'.ok, NEW q \in run'.plan,
             run'.wave[q] < run'.wave[c]
      PROVE  q \in run'.ok
    <2>1. c \in stopped.plan /\ q \in stopped.plan
        BY <1>2, <1>3 DEF InWaveOrder
    <2>2. \A w \in again : stopped.wave[c] <= stopped.wave[w]
        BY <1>2
    <2>3. q \notin again
        BY <1>2, <1>4, <1>5, <2>1, <2>2
    <2>4. \A w \in again : stopped.wave[q] <= stopped.wave[w]
        BY <1>2, <1>4, <1>5, <2>1, <2>2
    <2>5. QED BY <1>2, <2>1, <2>3, <2>4
<1>6. InWaveOrder(run')
    BY <1>2, <1>3, <1>5 DEF InWaveOrder
<1>7. QED BY <1>2, <1>3, <1>6 DEF WellLinked

\* A prepared run has decided nothing yet.
LEMMA PrepareLinked ==
    ASSUME TypeOK, WellLinked(run), NEW listed \in BOOLEAN,
           NEW judged \in BOOLEAN, Prepare(listed, judged)
    PROVE  WellLinked(run')
<1>1. PICK wave \in WaveMap :
        /\ IsWaveMap(wave, Selected(listed, judged))
        /\ run' = PreparedRun(listed, judged, wave)
    BY DEF Prepare
<1>2. /\ run \in Runs /\ run.ok = {} /\ run.failed = {}
    BY DEF TypeOK, WellLinked, Prepare
<1>3. /\ run'.phase = "build" /\ run'.wave = wave
      /\ run'.plan = Selected(listed, judged)
      /\ run'.ok = {} /\ run'.failed = {}
    BY <1>1, <1>2 DEF PreparedRun, Runs
<1>4. QED BY <1>1, <1>3 DEF WellLinked, InWaveOrder

\* What WellLinked reads does not change while a run publishes.
LEMMA WellLinkedKept ==
    ASSUME NEW r, NEW s, WellLinked(r), s.phase = r.phase,
           s.wave = r.wave, s.plan = r.plan, s.art = r.art,
           s.ok = r.ok, s.failed = r.failed
    PROVE  WellLinked(s)
BY DEF WellLinked, InWaveOrder

\* What an ended run leaves behind, and what may be run again, is well linked.
LEMMA EndLinked ==
    ASSUME LinkInvariant, NEW clean, End(clean)
    PROVE  WellLinked(run') /\ WellLinked(stopped')
BY NothingDecidedLinked DEF End, LinkInvariant

\* Every step keeps the links.
LEMMA LinkStep ==
    TypeOK /\ LabelInvariant /\ LinkInvariant /\ [Next]_vars => LinkInvariant'
<1> SUFFICES ASSUME TypeOK, LabelInvariant, LinkInvariant, [Next]_vars
             PROVE  WellLinked(run') /\ WellLinked(stopped')
    BY DEF LinkInvariant, WellLinked, InWaveOrder, IsWaveMap
<1>0. /\ run \in Runs /\ stopped \in Runs
      /\ WellLinked(run) /\ WellLinked(stopped)
    BY DEF TypeOK, LinkInvariant
<1>1. CASE UNCHANGED <<run, stopped>>
    BY <1>0, <1>1
<1>2. CASE Start
    BY <1>0, <1>2, NothingDecidedLinked DEF Start
<1>3. CASE \E listed, judged \in BOOLEAN : Prepare(listed, judged)
    BY <1>0, <1>3, PrepareLinked DEF Prepare
<1>4. CASE \E p \in Packages : BuildEnds(p)
    <2>1. WellLinked(run')
        BY <1>0, <1>4, BuildLinked, BuildFailsLinked DEF BuildEnds
    <2>2. stopped' = stopped
        BY <1>4 DEF BuildEnds, Build, BuildFails
    <2>3. QED BY <1>0, <2>1, <2>2
<1>5. CASE \E k \in EarlyIds : PublishEarlyEnds(k)
    <2>1. /\ run'.phase = run.phase /\ run'.wave = run.wave
          /\ run'.plan = run.plan /\ run'.art = run.art
          /\ run'.ok = run.ok /\ run'.failed = run.failed
          /\ stopped' = stopped
        BY <1>0, <1>5
           DEF PublishEarlyEnds, PublishEarly, PublishEarlyFails, Runs
    <2>2. QED BY <1>0, <2>1, WellLinkedKept
<1>6. CASE PrepareFails \/ FinalEnds \/ Cancel
    BY <1>6, EndLinked
       DEF PrepareFails, FinalEnds, PublishFinal, PublishFinalFails,
           NothingToDo, Cancel
<1>7. CASE RerunFailed
    <2>1. stopped' = IdleRun
        BY <1>7 DEF RerunFailed
    <2>2. QED BY <1>7, <2>1, RerunFailedLinked, NothingDecidedLinked
<1>8. CASE RerunAll
    BY <1>8, NothingDecidedLinked DEF RerunAll
<1>9. QED
    BY <1>1, <1>2, <1>3, <1>4, <1>5, <1>6, <1>7, <1>8
       DEF Next, RunStep, Environment, PrepareEnds, ChangeRecipe, Retire,
           PushTo, Schedule, DispatchPackages, vars

\* What a run knows of its waves, its builds and their links stays sound, of
\* the run in flight and of one that may be run again.
THEOREM LinksSound == Spec => []LinkInvariant
<1>1. Init => LinkInvariant
    BY NothingDecidedLinked DEF Init, LinkInvariant
<1>2. QED BY <1>1, LinkStep, TypeCorrect, LabelSound, PTL DEF Spec

\* A package a run has built was linked against the build the run made of
\* whatever it BuildRequires, across waves, failures and re-runs.
THEOREM LinkedAgainstThisRun == Spec => []BuiltAgainstThisRun
<1>1. LinkInvariant => BuiltAgainstThisRun
    <2> SUFFICES ASSUME LinkInvariant PROVE BuiltAgainstThisRun
        OBVIOUS
    <2>1. CASE run.phase = "build"
        BY <2>1 DEF LinkInvariant, WellLinked, InWaveOrder, BuiltAgainstThisRun
    <2>2. CASE run.phase # "build"
        BY <2>2 DEF LinkInvariant, WellLinked, BuiltAgainstThisRun
    <2>3. QED BY <2>1, <2>2
<1>2. QED BY <1>1, LinksSound, PTL

-----------------------------------------------------------------------------
(* What one attempt publishes.                                              *)

\* A publication takes up what this run built, and drops what it prunes.
LEMMA PublishDoes ==
    ASSUME TypeOK, NEW cover, NEW losers, NEW prune,
           Publish(cover, losers, prune), NEW p \in Packages
    PROVE  \/ image'.rpm[p] = image.rpm[p]
           \/ p \in prune /\ image'.rpm[p] = NoBuild
           \/ /\ p \in cover \ (Bootstrap \cup prune) /\ run.art[p] # NoBuild
              /\ image'.rpm[p] = run.art[p]
<1>1. CASE Gate(cover, losers, prune)
    <2>1. PICK id \in FreshImages : image' = NextImage(id, cover, losers, prune)
        BY <1>1 DEF Publish
    <2>2. image'.rpm = Candidate(cover, losers, prune)
        BY <2>1 DEF NextImage
    <2>3. QED BY <2>2 DEF Candidate, Accepted, Built
<1>2. CASE ~Gate(cover, losers, prune)
    BY <1>2 DEF Publish
<1>3. QED BY <1>1, <1>2

\* Nothing has been built yet.
LEMMA NothingBuilt ==
    /\ \A id, request : \A p \in Packages : StartedRun(id, request).art[p] = NoBuild
    /\ \A p \in Packages : IdleRun.art[p] = NoBuild
    /\ IdleRun.phase = "idle"
    /\ \A id, request : StartedRun(id, request).phase = "prepare"
BY DEF StartedRun, IdleRun, EmptyRepository

\* A run that builds nothing, over an image without bootstrap packages.
LEMMA NotBuildingAttempt ==
    ASSUME \A p \in Packages : run'.art[p] = NoBuild, run'.phase # "build",
           \A p \in Bootstrap : image'.rpm[p] = NoBuild
    PROVE  AttemptInvariant'
BY DEF AttemptInvariant

\* The selection takes the consumers of what has changed, unless it is held.
LEMMA SelectionDrags ==
    ASSUME TypeOK, LabelInvariant, NEW listed \in BOOLEAN, NEW judged \in BOOLEAN,
           NEW c \in Names(run), NEW l \in Selected(listed, judged) \ (Bootstrap \cup HeldBack),
           l \in Requires[c], image.rpm[l].ver # run.request.commit.digest[l]
    PROVE  c \in Selected(listed, judged)
<1> DEFINE digests == run.request.commit.digest
           full == run.request.event = "full"
           changed == Changed(image.label, digests, RetryFailed(run))
           stale == IF full \/ ~judged THEN {} ELSE Stale(Listing(listed))
           trust == Published(Listing(listed)) # {}
<1>1. Selected(listed, judged) = Plan(Names(run), changed, stale, full, trust)
    BY DEF Selected
<1>2. l \in Names(run) /\ l \in Packages /\ c \in Packages
    BY SelectionType
<1>3. l \in changed
    <2>1. l \in Inventory(digests)
        BY <1>2 DEF Names
    <2>2. image.label.inputs[l] # digests[l]
        BY <1>2, <2>1 DEF LabelInvariant, LabelIsTrue, Inventory
    <2>3. l \in Moved(image.label, digests)
        BY <2>1, <2>2 DEF Moved
    <2>4. CASE RetryFailed(run)
        BY <2>3, <2>4 DEF Changed
    <2>5. CASE ~RetryFailed(run)
        BY <1>2, <2>3, <2>5 DEF Changed, HeldBack, Held
    <2>6. QED BY <2>4, <2>5
<1>4. CASE full \/ ~trust
    BY <1>1, <1>4 DEF Plan
<1>5. CASE ~full /\ trust
    <2>1. l \in Names(run) \cap (changed \cup stale)
        BY <1>2, <1>3
    <2>2. c \in Consumers(Names(run) \cap (changed \cup stale))
        BY <1>2, <2>1 DEF Consumers
    <2>3. QED BY <1>1, <1>5, <2>2 DEF Plan
<1>6. QED BY <1>4, <1>5

\* A prepare takes the image as its base, and selects consumers along.
LEMMA PrepareAttempt ==
    ASSUME TypeOK, LabelInvariant, LinkInvariant, AttemptInvariant,
           NEW listed \in BOOLEAN, NEW judged \in BOOLEAN, Prepare(listed, judged)
    PROVE  AttemptInvariant'
<1>1. PICK wave \in WaveMap : run' = PreparedRun(listed, judged, wave)
    BY DEF Prepare
<1>2. run \in Runs /\ image' = image
    BY DEF TypeOK, Prepare
<1>3. /\ run'.base = image.rpm /\ run'.art = run.art /\ run'.ok = run.ok
      /\ run'.request = run.request
      /\ run'.plan = Selected(listed, judged) /\ run'.held = HeldBack
    BY <1>1, <1>2 DEF PreparedRun, Runs
<1>4. Names(run)' = Names(run)
    BY <1>3 DEF Names
<1>5. DragsAlong'
    BY <1>3, <1>4, SelectionDrags DEF DragsAlong
<1>6. QED BY <1>2, <1>3, <1>5 DEF AttemptInvariant

\* A build adds an artifact of what had none, and publishes nothing.
LEMMA BuildAttempt ==
    ASSUME TypeOK, AttemptInvariant, NEW b \in Packages, Build(b)
    PROVE  AttemptInvariant'
<1>1. /\ run \in Runs /\ run.art \in Repositories /\ image' = image
      /\ run.phase = "build" /\ b \notin run.ok
    BY DEF TypeOK, Runs, Build, Buildable, Decided
<1>2. /\ run'.phase = run.phase /\ run'.base = run.base /\ run'.plan = run.plan
      /\ run'.held = run.held /\ run'.request = run.request
      /\ run'.ok = run.ok \cup {b}
      /\ \A p \in Packages : p # b => run'.art[p] = run.art[p]
    BY <1>1 DEF Build, Runs, Repositories
<1>3. DragsAlong'
    BY <1>1, <1>2 DEF AttemptInvariant, DragsAlong, Names
<1>4. run.art[b] = NoBuild
    BY <1>1 DEF AttemptInvariant
<1>5. ASSUME NEW p \in Packages
      PROVE  \/ image'.rpm[p] = run'.base[p]
             \/ run'.art[p] # NoBuild /\ image'.rpm[p] = run'.art[p]
    BY <1>1, <1>2, <1>4 DEF AttemptInvariant
<1>6. QED BY <1>1, <1>2, <1>3, <1>5 DEF AttemptInvariant

\* An early publication puts out what this run built, and prunes nothing.
LEMMA PublishEarlyAttempt ==
    ASSUME TypeOK, AttemptInvariant, NEW k \in EarlyIds, NEW losers, PublishEarly(k, losers)
    PROVE  AttemptInvariant'
<1>1. /\ run \in Runs /\ run.phase = "build"
      /\ Publish(Through(run.plan, run.wave, k), losers, {})
    BY DEF TypeOK, PublishEarly, EarlyTurn
<1>2. /\ run'.phase = run.phase /\ run'.base = run.base /\ run'.plan = run.plan
      /\ run'.held = run.held /\ run'.request = run.request
      /\ run'.ok = run.ok /\ run'.art = run.art
    BY <1>1 DEF PublishEarly, Runs
<1>3. DragsAlong'
    BY <1>1, <1>2 DEF AttemptInvariant, DragsAlong, Names
<1>4. ASSUME NEW p \in Packages
      PROVE  \/ image'.rpm[p] = image.rpm[p]
             \/ p \notin Bootstrap /\ run.art[p] # NoBuild /\ image'.rpm[p] = run.art[p]
    BY <1>1, PublishDoes
<1>5. \A p \in Bootstrap : image'.rpm[p] = NoBuild
    BY <1>4, FactoryAssumption DEF AttemptInvariant
<1>6. QED BY <1>1, <1>2, <1>3, <1>4, <1>5 DEF AttemptInvariant

\* A run that ends, whether it publishes or not.
LEMMA EndAttempt ==
    ASSUME TypeOK, AttemptInvariant, NEW clean, End(clean),
           \/ image' = image
           \/ \E losers : Publish(run.plan, losers, run.prune)
    PROVE  AttemptInvariant'
<1>1. run' = IdleRun
    BY DEF End
<1>2. \A p \in Bootstrap : image'.rpm[p] = NoBuild
    BY PublishDoes, FactoryAssumption DEF AttemptInvariant
<1>3. QED BY <1>1, <1>2, NothingBuilt, NotBuildingAttempt

\* A step that changes neither the image nor what AttemptInvariant reads of
\* the run.
LEMMA AttemptKept ==
    ASSUME AttemptInvariant, image' = image,
           run'.phase = run.phase, run'.request = run.request, run'.base = run.base,
           run'.plan = run.plan, run'.held = run.held, run'.art = run.art, run'.ok = run.ok
    PROVE  AttemptInvariant'
BY DEF AttemptInvariant, DragsAlong, Names

\* Every step but a re-run of failed jobs keeps the invariant.
LEMMA AttemptStep ==
    ASSUME "failed" \notin Restarts
    PROVE  TypeOK /\ LabelInvariant /\ LinkInvariant /\ AttemptInvariant /\ [Next]_vars
               => AttemptInvariant'
<1> SUFFICES ASSUME TypeOK, LabelInvariant, LinkInvariant, AttemptInvariant, [Next]_vars
             PROVE  AttemptInvariant'
    OBVIOUS
<1>0. run \in Runs /\ \A p \in Bootstrap : image.rpm[p] = NoBuild
    BY DEF TypeOK, AttemptInvariant
<1>1. CASE UNCHANGED <<run, image>>
    BY <1>1, AttemptKept
<1>2. CASE Start \/ RerunAll
    BY <1>0, <1>2, NothingBuilt, NotBuildingAttempt DEF Start, RerunAll
<1>3. CASE \E listed, judged \in BOOLEAN : Prepare(listed, judged)
    BY <1>3, PrepareAttempt
<1>4. CASE \E p \in Packages : BuildEnds(p)
    <2>1. CASE \E p \in Packages : Build(p)
        BY <2>1, BuildAttempt
    <2>2. CASE \E p \in Packages : BuildFails(p)
        BY <1>0, <2>2, AttemptKept DEF BuildFails, Runs
    <2>3. QED BY <1>4, <2>1, <2>2 DEF BuildEnds
<1>5. CASE \E k \in EarlyIds : PublishEarlyEnds(k)
    <2>1. CASE \E k \in EarlyIds : \E losers \in SUBSET Outranked : PublishEarly(k, losers)
        BY <2>1, PublishEarlyAttempt
    <2>2. CASE \E k \in EarlyIds : PublishEarlyFails(k)
        BY <1>0, <2>2, AttemptKept DEF PublishEarlyFails, Runs
    <2>3. QED BY <1>5, <2>1, <2>2 DEF PublishEarlyEnds
<1>6. CASE PrepareFails \/ FinalEnds \/ Cancel
    BY <1>6, EndAttempt
       DEF PrepareFails, FinalEnds, PublishFinal, PublishFinalFails, NothingToDo, Cancel
<1>7. CASE RerunFailed
    BY <1>7 DEF RerunFailed
<1>8. QED
    BY <1>1, <1>2, <1>3, <1>4, <1>5, <1>6, <1>7
       DEF Next, RunStep, Environment, PrepareEnds, ChangeRecipe, Retire,
           PushTo, Schedule, DispatchPackages, vars

\* Unless failed jobs are run again, what is published while a run builds is
\* what its prepare found or what it has built itself, and a library it builds
\* anew brings its consumers along.
THEOREM AttemptsSound ==
    ASSUME "failed" \notin Restarts
    PROVE  Spec => []AttemptInvariant
<1>1. Init => AttemptInvariant
    <2>1. ASSUME Init PROVE AttemptInvariant
        <3>1. \A p \in Bootstrap : image.rpm[p] = NoBuild
            BY <2>1, FactoryAssumption DEF Init, FirstImage, EmptyRepository
        <3>2. QED BY <2>1, <3>1, NothingBuilt DEF Init, AttemptInvariant
    <2>2. QED BY <2>1
<1>2. QED BY <1>1, AttemptStep, TypeCorrect, LabelSound, LinksSound, PTL DEF Spec

\* A package that failed keeps the build that is published, whatever else the
\* run publishes (publish_gate.py:14-17), unless failed jobs are run again: then
\* the artifact of an earlier attempt may be there.
THEOREM FailuresKeepBuilds ==
    ASSUME "failed" \notin Restarts
    PROVE  Spec => FailureKeepsPreviousBuild
<1>1. ASSUME TypeOK, LinkInvariant, AttemptInvariant, [Next]_vars, image' # image,
             NEW p \in run.failed \ run.prune
      PROVE  image'.rpm[p] = image.rpm[p]
    <2>1. PICK cover, losers, prune : prune \subseteq run.prune /\ Publish(cover, losers, prune)
        <3>1. CASE \E k \in EarlyIds : \E losers \in SUBSET Outranked : PublishEarly(k, losers)
            BY <3>1 DEF PublishEarly
        <3>2. CASE \E losers \in SUBSET Outranked : PublishFinal(losers)
            BY <3>2 DEF PublishFinal
        <3>3. QED BY <1>1, <3>1, <3>2 DEF Next, RunStep, Environment, PrepareEnds, FinalEnds, BuildEnds,
                  PublishEarlyEnds, PublishEarlyFails, PublishFinalFails, NothingToDo, Build, BuildFails,
                  Start, Prepare, PrepareFails, Cancel, RerunFailed, RerunAll, ChangeRecipe, Retire,
                  PushTo, Schedule, DispatchPackages, vars
    <2>2. p \in Packages
        BY <1>1 DEF TypeOK, Runs
    <2>3. p \notin run.ok
        BY <1>1 DEF LinkInvariant, WellLinked, InWaveOrder
    <2>4. run.art[p] = NoBuild
        BY <1>1, <2>2, <2>3 DEF AttemptInvariant
    <2>5. QED BY <1>1, <2>1, <2>2, <2>4, PublishDoes
<1>2. TypeOK /\ LinkInvariant /\ AttemptInvariant /\ [Next]_vars =>
          [\A p \in run.failed \ run.prune : image'.rpm[p] = image.rpm[p]]_image
    BY <1>1
<1>3. QED
    BY <1>2, TypeCorrect, LinksSound, AttemptsSound, PTL DEF Spec, FailureKeepsPreviousBuild

\* What the final publication leaves of a package of the build set: the build
\* this run made of it, or an entry among the failures.
LEMMA FinalPublishes ==
    ASSUME TypeOK, LabelInvariant, AttemptInvariant, run.phase = "build",
           NEW losers, Publish(run.plan, losers, run.prune), image' # image,
           NEW c \in run.plan, image'.rpm[c].ver # 0, image'.label.failed[c] = NoDigest
    PROVE  run.art[c] # NoBuild /\ image'.rpm[c] = run.art[c]
<1> DEFINE digests == run.request.commit.digest
           made == Accepted(run.plan, losers) \cup (Built(run.plan) \cap Bootstrap)
           lost == NotPublished(run.plan, losers)
<1>1. /\ c \in Packages /\ c \in Inventory(digests) /\ c \notin run.prune
      /\ digests[c] # NoDigest
    BY DEF TypeOK, Runs, LabelInvariant, SoundRun, Names, Consistent, Inventory
<1>2. PICK id \in FreshImages : image' = NextImage(id, run.plan, losers, run.prune)
    BY DEF Publish
<1>3. /\ image'.rpm = Candidate(run.plan, losers, run.prune)
      /\ image'.label = Merge(image.label, digests, run.trusted, made, lost, run.prune)
    BY <1>2 DEF NextImage
<1>4. image'.label.failed = MergedFailed(image.label, digests, made, lost, run.prune)
    BY <1>3 DEF Merge
<1>5. c \notin lost
    BY <1>1, <1>4 DEF MergedFailed
<1>6. CASE c \in Accepted(run.plan, losers)
    BY <1>1, <1>3, <1>6 DEF Candidate, Accepted, Built
<1>7. CASE c \in Bootstrap
    <2>1. image'.rpm[c] = image.rpm[c]
        BY <1>1, <1>3, <1>7 DEF Candidate, Accepted
    <2>2. image.rpm[c] = NoBuild
        BY <1>7 DEF AttemptInvariant
    <2>3. QED BY <2>1, <2>2 DEF NoBuild
<1>8. QED BY <1>5, <1>6, <1>7 DEF NotPublished

\* The final publication leaves no consumer behind.
LEMMA FinalRelinks ==
    ASSUME TypeOK, LabelInvariant, LinkInvariant, AttemptInvariant, run.phase = "build",
           NEW losers, Publish(run.plan, losers, run.prune), image' # image,
           NEW c \in Names(run), NEW l \in run.plan \ (Bootstrap \cup run.held)
    PROVE  ~LeavesBehind(c, l)
<1> SUFFICES ASSUME LeavesBehind(c, l) PROVE FALSE
    OBVIOUS
<1> DEFINE digests == run.request.commit.digest
<1>1. /\ l \in Requires[c] /\ image'.rpm[c].ver # 0 /\ image'.rpm[l] = run.art[l]
      /\ run.art[l].ver # run.base[l].ver
      /\ image'.rpm[c].link[l] # image'.rpm[l].ver
      /\ image'.label.failed[c] = NoDigest
    BY DEF LeavesBehind
<1>2. l \in Packages /\ l \notin run.prune /\ c \in Packages
    BY DEF TypeOK, Runs, LabelInvariant, SoundRun, Names, Consistent, Inventory
<1>3. run.art[l] # NoBuild
    <2>1. SUFFICES ASSUME run.art[l] = NoBuild PROVE FALSE
        OBVIOUS
    <2>2. image'.rpm[l] = image.rpm[l]
        BY <1>2, <2>1, PublishDoes
    <2>3. image.rpm[l] = run.base[l]
        BY <1>2, <2>1 DEF AttemptInvariant
    <2>4. QED BY <1>1, <2>2, <2>3
<1>4. l \in run.ok /\ run.art[l].ver = digests[l]
    BY <1>2, <1>3 DEF AttemptInvariant, LabelInvariant, SoundRun
<1>5. c \in run.plan
    BY <1>1, <1>4 DEF AttemptInvariant, DragsAlong
<1>6. run.art[c] # NoBuild /\ image'.rpm[c] = run.art[c]
    BY <1>1, <1>5, FinalPublishes
<1>7. c \in run.ok
    BY <1>2, <1>6 DEF AttemptInvariant
<1>8. run.art[c].link[l] = run.art[l].ver
    BY <1>1, <1>4, <1>7 DEF LinkInvariant, WellLinked, InWaveOrder
<1>9. QED BY <1>1, <1>6, <1>8

\* A run that comes to its final publication leaves no consumer linked against
\* the copy of a library it has replaced, unless the label names the consumer
\* as failed (rebuild_plan.py, plan: "dragged along").
THEOREM ConsumersRelink ==
    ASSUME "failed" \notin Restarts
    PROVE  Spec => FinishedRunRelinks
<1>1. ASSUME TypeOK, LabelInvariant, LinkInvariant, AttemptInvariant, [Next]_vars,
             image' # image, run'.phase = "idle",
             NEW c \in Names(run), NEW l \in run.plan \ (Bootstrap \cup run.held)
      PROVE  ~LeavesBehind(c, l)
    <2>1. PICK losers : PublishFinal(losers)
        <3>1. ASSUME NEW k, NEW losers, PublishEarly(k, losers) PROVE FALSE
            <4>1. run'.phase = run.phase /\ run.phase = "build"
                BY <3>1 DEF PublishEarly, EarlyTurn, TypeOK, Runs
            <4>2. QED BY <1>1, <4>1
        <3>2. QED
            BY <1>1, <3>1
               DEF Next, RunStep, Environment, PrepareEnds, FinalEnds, BuildEnds,
                   PublishEarlyEnds, PublishEarlyFails, PublishFinalFails, NothingToDo, Build,
                   BuildFails, Start, Prepare, PrepareFails, Cancel, RerunFailed, RerunAll,
                   ChangeRecipe, Retire, PushTo, Schedule, DispatchPackages, vars
    <2>2. run.phase = "build" /\ Publish(run.plan, losers, run.prune)
        BY <2>1 DEF PublishFinal, FinalTurn
    <2>3. QED BY <1>1, <2>2, FinalRelinks
<1>2. TypeOK /\ LabelInvariant /\ LinkInvariant /\ AttemptInvariant /\ [Next]_vars =>
          [run'.phase = "idle" =>
              \A c \in Names(run), l \in run.plan \ (Bootstrap \cup run.held) :
                  ~LeavesBehind(c, l)]_image
    BY <1>1
<1>3. QED
    BY <1>2, TypeCorrect, LabelSound, LinksSound, AttemptsSound, PTL
       DEF Spec, FinishedRunRelinks
=============================================================================
