-------------------------- MODULE FactoryOrderProofs --------------------------
(***************************************************************************)
(* Why an older run cannot publish over a newer one, as long as nobody     *)
(* starts an ended run over: "Re-run failed jobs" keeps the witness the    *)
(* run's prepare took, "Re-run all jobs" takes a new one at an old commit. *)
(***************************************************************************)
EXTENDS FactoryProofs

\* Versions can be compared.
LEMMA VersionsAreNumbers ==
    ASSUME TypeOK, NEW p \in Packages
    PROVE  /\ main.digest[p] \in Nat
           /\ pending.commit.digest[p] \in Nat
           /\ run.request.commit.digest[p] \in Nat
           /\ stopped.request.commit.digest[p] \in Nat
           /\ image.rpm[p].ver \in Nat
<1>1. /\ main.digest \in DigestMap /\ pending.commit.digest \in DigestMap
      /\ run.request.commit.digest \in DigestMap
      /\ stopped.request.commit.digest \in DigestMap
      /\ image.rpm \in Repositories
    BY DEF TypeOK, Commits, Requests, Runs, Images
<1>2. image.rpm[p] \in Builds
    BY <1>1 DEF Repositories
<1>3. QED BY <1>1, <1>2, StateAssumption DEF DigestMap, Builds

\* Nothing is older than no commit at all.
LEMMA NoCommitPrecedes ==
    /\ NoRequest.event = "none"
    /\ IdleRun.request = NoRequest /\ IdleRun.phase = "idle"
    /\ \A newer \in Commits : Precedes(NoRequest.commit, newer)
BY DEF NoRequest, NoCommit, NoDigests, NoDigest, IdleRun, StartedRun,
       Precedes, Inventory, Commits, DigestMap

\* The first image and the first commit are in order.
LEMMA InitOrder == Init => OrderInvariant
<1> SUFFICES ASSUME Init PROVE OrderInvariant
    OBVIOUS
<1>1. main \in Commits
    BY InitType DEF TypeOK
<1>2. ASSUME NEW p \in Packages
      PROVE  image.rpm[p].ver <= main.digest[p]
    <2>1. /\ image.rpm = [q \in Packages |-> NoBuild]
          /\ main.digest = [q \in Packages |-> 1]
        BY DEF Init, FirstMain, FirstImage, EmptyRepository
    <2>2. image.rpm[p] = NoBuild /\ main.digest[p] = 1
        BY <2>1
    <2>3. image.rpm[p].ver = 0
        BY <2>2 DEF NoBuild
    <2>4. QED BY <2>2, <2>3
<1>3. NothingNewer(main)
    BY <1>2 DEF NothingNewer, Inventory
<1>4. QED
    BY <1>1, <1>3, NoCommitPrecedes
       DEF Init, OrderInvariant, Ahead, MayPublish

\* A merge: the recipes that remain have contents no older than before.
LEMMA MergeOrder ==
    ASSUME TypeOK, OrderInvariant, NEW head \in Commits, PushTo(head),
           Precedes(main, head),
           Inventory(head.digest) \subseteq Inventory(main.digest)
    PROVE  OrderInvariant'
<1>1. /\ main' = head /\ UNCHANGED <<image, run, stopped>>
      /\ pending' = pending \/ pending'.commit = head
    BY DEF PushTo, Queue
<1>2. ASSUME NEW older, older \in {main, pending.commit, run.request.commit,
                                   stopped.request.commit}
      PROVE  Precedes(older, head)
    <2>1. Precedes(older, main) \/ older = main
        BY <1>2 DEF OrderInvariant, Ahead
    <2>2. ASSUME NEW p \in Inventory(head.digest), Precedes(older, main)
          PROVE  older.digest[p] <= head.digest[p]
        <3>1. p \in Inventory(main.digest) /\ p \in Packages
            BY DEF Inventory
        <3>2. /\ older.digest[p] <= main.digest[p]
              /\ main.digest[p] <= head.digest[p]
            BY <2>2, <3>1 DEF Precedes
        <3>3. head.digest[p] \in Nat
            BY <3>1, StateAssumption DEF Commits, DigestMap
        <3>4. QED BY <1>2, <3>1, <3>2, <3>3, VersionsAreNumbers
    <2>3. QED BY <2>1, <2>2 DEF Precedes
<1>3. NothingNewer(head)
    <2>1. ASSUME NEW p \in Inventory(head.digest)
          PROVE  image.rpm[p].ver <= head.digest[p]
        <3>1. p \in Inventory(main.digest) /\ p \in Packages
            BY DEF Inventory
        <3>2. /\ image.rpm[p].ver <= main.digest[p]
              /\ main.digest[p] <= head.digest[p]
            BY <3>1 DEF OrderInvariant, Ahead, NothingNewer, Precedes
        <3>3. head.digest[p] \in Nat
            BY <3>1, StateAssumption DEF Commits, DigestMap
        <3>4. QED BY <3>1, <3>2, <3>3, VersionsAreNumbers
    <2>2. QED BY <2>1 DEF NothingNewer
<1>4. Precedes(head, head)
    <2>1. head.digest \in [Packages -> 0..MaxVersion]
        BY DEF Commits, DigestMap
    <2>2. \A p \in Packages : head.digest[p] <= head.digest[p]
        BY <2>1, StateAssumption
    <2>3. QED BY <2>2 DEF Precedes, Inventory
<1>5. QED
    BY <1>1, <1>2, <1>3, <1>4
       DEF OrderInvariant, Ahead, NothingNewer, MayPublish

\* An edit of a recipe moves main forward.
LEMMA ChangeRecipeOrder ==
    ASSUME TypeOK, OrderInvariant, NEW p \in Packages, ChangeRecipe(p)
    PROVE  OrderInvariant'
<1> DEFINE head == [main EXCEPT !.digest[p] = @ + 1]
<1>1. /\ main \in Commits /\ main.digest \in DigestMap
      /\ main.digest[p] \in 1..(MaxVersion - 1)
      /\ PushTo(head)
    BY DEF ChangeRecipe, TypeOK, Commits
<1>2. /\ head.digest = [main.digest EXCEPT ![p] = @ + 1]
      /\ head.owned = main.owned
    BY <1>1 DEF Commits
<1>3. head.digest \in DigestMap
    BY <1>1, <1>2, StateAssumption DEF DigestMap
<1>4. head \in Commits
    BY <1>1, <1>2, <1>3 DEF Commits
<1>5. Precedes(main, head)
    BY <1>1, <1>2, StateAssumption DEF Precedes, Inventory, DigestMap
<1>6. Inventory(head.digest) \subseteq Inventory(main.digest)
    BY <1>1, <1>2 DEF Inventory, DigestMap, NoDigest
<1>7. QED BY <1>1, <1>4, <1>5, <1>6, MergeOrder

\* A retired recipe leaves the rest in order.
LEMMA RetireOrder ==
    ASSUME TypeOK, OrderInvariant, NEW p \in Packages, Retire(p)
    PROVE  OrderInvariant'
<1> DEFINE head == [digest |-> [main.digest EXCEPT ![p] = NoDigest],
                    owned |-> main.owned \cup {p}]
<1>1. /\ main \in Commits /\ main.digest \in DigestMap
      /\ p \in Owned /\ PushTo(head)
    BY DEF Retire, TypeOK, Commits
<1>2. head.digest \in DigestMap
    BY <1>1, StateAssumption DEF DigestMap, NoDigest
<1>3. head \in Commits
    BY <1>1, <1>2 DEF Commits
<1>4. Precedes(main, head)
    BY <1>1, StateAssumption DEF Precedes, Inventory, DigestMap, NoDigest
<1>5. Inventory(head.digest) \subseteq Inventory(main.digest)
    BY <1>1 DEF Inventory, DigestMap, NoDigest
<1>6. QED BY <1>1, <1>3, <1>4, <1>5, MergeOrder

\* A request is for main as it is.
LEMMA QueueOrder ==
    ASSUME TypeOK, OrderInvariant, NEW event, NEW only,
           Queue(event, main, only), UNCHANGED <<main, image, run, stopped>>
    PROVE  OrderInvariant'
<1>1. \A p \in Packages : main.digest[p] <= main.digest[p]
    BY VersionsAreNumbers
<1>2. Precedes(main, main)
    BY <1>1 DEF Precedes, Inventory
<1>3. QED
    BY <1>2 DEF Queue, OrderInvariant, Ahead, NothingNewer, MayPublish

\* A run takes up what was requested.
LEMMA StartOrder ==
    ASSUME TypeOK, OrderInvariant, Start
    PROVE  OrderInvariant'
<1>1. PICK id \in FreshRuns : run' = StartedRun(id, pending)
    BY DEF Start
<1>2. /\ run'.phase = "prepare" /\ run'.request = pending
      /\ pending' = NoRequest /\ pending.event # "none"
      /\ UNCHANGED <<main, image, stopped>>
    BY <1>1 DEF Start, StartedRun
<1>3. Precedes(pending'.commit, main) /\ pending'.event = "none"
    BY <1>2, NoCommitPrecedes DEF TypeOK
<1>4. QED
    BY <1>2, <1>3 DEF OrderInvariant, Ahead, NothingNewer, MayPublish

\* A publication puts nothing into the repository that is newer than its
\* run's commit, whatever was there, and takes nothing back.
LEMMA PublishOrder ==
    ASSUME TypeOK, LabelInvariant, OrderInvariant, run.phase = "build",
           NEW cover \in SUBSET run.plan, NEW losers,
           NEW prune \in SUBSET run.prune,
           Publish(cover, losers, prune),
           NEW p \in Packages
    PROVE  /\ \/ image'.rpm[p].ver = image.rpm[p].ver
              \/ image'.rpm[p].ver = 0
              \/ /\ image'.rpm[p].ver = run.request.commit.digest[p]
                 /\ p \in Inventory(run.request.commit.digest)
           /\ p \notin run.request.commit.owned =>
                image'.rpm[p].ver >= image.rpm[p].ver
<1>1. SoundRun(run) /\ NothingNewer(run.request.commit)
    BY DEF LabelInvariant, OrderInvariant, MayPublish, Publish, Witnessed
<1>2. CASE image' = image
    BY <1>2, VersionsAreNumbers
<1>3. CASE image' # image
    <2>1. image'.rpm = Candidate(cover, losers, prune)
        BY <1>3 DEF Publish, NextImage
    <2>2. CASE p \in prune
        BY <1>1, <2>1, <2>2 DEF Candidate, NoBuild, SoundRun
    <2>3. CASE p \notin prune /\ p \notin Accepted(cover, losers)
        BY <2>1, <2>3, VersionsAreNumbers DEF Candidate
    <2>4. CASE p \notin prune /\ p \in Accepted(cover, losers)
        <3>1. image'.rpm[p] = run.art[p]
            BY <2>1, <2>4 DEF Candidate
        <3>2. p \in run.plan /\ run.art[p] # NoBuild
            BY <2>4 DEF Accepted, Built
        <3>3. /\ run.art[p].ver = run.request.commit.digest[p]
              /\ p \in Inventory(run.request.commit.digest)
            BY <1>1, <3>2 DEF SoundRun, Names
        <3>4. image.rpm[p].ver <= run.request.commit.digest[p]
            BY <1>1, <3>3 DEF NothingNewer
        <3>5. QED BY <3>1, <3>3, <3>4, VersionsAreNumbers
    <2>5. QED BY <2>2, <2>3, <2>4
<1>4. QED BY <1>2, <1>3

\* So the repository stays behind every commit that was ahead of it and of
\* the run.
LEMMA PublishNothingNewer ==
    ASSUME TypeOK, LabelInvariant, OrderInvariant, run.phase = "build",
           NEW cover \in SUBSET run.plan, NEW losers,
           NEW prune \in SUBSET run.prune,
           Publish(cover, losers, prune),
           NEW commit \in Commits, NothingNewer(commit),
           Precedes(run.request.commit, commit),
           NEW p \in Inventory(commit.digest)
    PROVE  image'.rpm[p].ver <= commit.digest[p]
<1>1. p \in Packages
    BY DEF Inventory
<1>2. commit.digest[p] \in Nat
    BY <1>1, StateAssumption DEF Commits, DigestMap
<1>3. /\ image.rpm[p].ver <= commit.digest[p]
      /\ run.request.commit.digest[p] <= commit.digest[p]
    BY DEF NothingNewer, Precedes
<1>4. \/ image'.rpm[p].ver = image.rpm[p].ver
      \/ image'.rpm[p].ver = 0
      \/ image'.rpm[p].ver = run.request.commit.digest[p]
    BY <1>1, PublishOrder
<1>5. QED BY <1>2, <1>3, <1>4

\* The order of the commits, when the run publishes and then goes on or ends.
LEMMA PublicationOrder ==
    ASSUME TypeOK, LabelInvariant, OrderInvariant, run.phase = "build",
           NEW cover \in SUBSET run.plan, NEW losers,
           NEW prune \in SUBSET run.prune,
           Publish(cover, losers, prune),
           UNCHANGED <<main, pending>>,
           \/ run'.request = run.request /\ run'.phase = run.phase
           \/ run' = IdleRun,
           stopped' \in {stopped, run}
    PROVE  OrderInvariant'
<1>1. /\ main \in Commits /\ pending.commit \in Commits
      /\ run.request.commit \in Commits
      /\ stopped.request.commit \in Commits
    BY DEF TypeOK, Runs, Requests
<1>2. NothingNewer(run.request.commit)
    BY DEF OrderInvariant, MayPublish, Publish, Witnessed
<1>3. Precedes(run.request.commit, run.request.commit)
    <2>1. \A p \in Packages :
            run.request.commit.digest[p] <= run.request.commit.digest[p]
        BY VersionsAreNumbers
    <2>2. QED BY <2>1 DEF Precedes, Inventory
<1>4. NothingNewer(main)'
    BY <1>1, PublishNothingNewer
       DEF OrderInvariant, Ahead, NothingNewer, Inventory
<1>5. pending.event # "none" => NothingNewer(pending.commit)'
    BY <1>1, PublishNothingNewer
       DEF OrderInvariant, Ahead, NothingNewer, Inventory
<1>6. \A p \in Inventory(run.request.commit.digest) :
        image'.rpm[p].ver <= run.request.commit.digest[p]
    BY <1>1, <1>2, <1>3, PublishNothingNewer
<1>7. run'.request \in {run.request, NoRequest}
    BY NoCommitPrecedes
<1>8. /\ Ahead(main)'
      /\ pending.event # "none" => Ahead(pending.commit)'
    BY <1>1, <1>4, <1>5, <1>7, NoCommitPrecedes
       DEF OrderInvariant, Ahead, Precedes, Inventory
<1>9. run'.phase = "prepare" \/ MayPublish(run)' =>
        NothingNewer(run.request.commit)'
    <2>1. CASE run' = IdleRun
        BY <2>1, NoCommitPrecedes DEF MayPublish
    <2>2. CASE run'.request = run.request
        BY <1>6, <2>2 DEF NothingNewer
    <2>3. QED BY <2>1, <2>2
<1>10. MayPublish(stopped)' => NothingNewer(stopped.request.commit)'
    <2>1. CASE stopped' = run
        BY <1>6, <2>1 DEF NothingNewer
    <2>2. CASE stopped' = stopped /\ image' = image
        BY <2>2 DEF OrderInvariant, MayPublish, NothingNewer
    <2>3. CASE stopped' = stopped /\ image' # image
        <3>1. /\ image'.run = run.id
              /\ image'.id # stopped.witness
              /\ run.id # stopped.id
            BY <2>3, PublishKeepsLabel DEF LabelInvariant
        <3>2. QED BY <2>3, <3>1 DEF MayPublish
    <2>4. QED BY <2>1, <2>2, <2>3
<1>11. QED
    BY <1>8, <1>9, <1>10 DEF OrderInvariant, Precedes

\* No publication: a run goes on, ends or is taken up where it stopped.
LEMMA SameImageOrder ==
    ASSUME TypeOK, OrderInvariant, UNCHANGED <<main, image, pending>>,
           \/ /\ run'.request = run.request /\ run'.witness = run.witness
              /\ run'.id = run.id
              /\ \/ run'.phase = run.phase
                 \/ run.phase = "prepare" /\ run'.phase = "build"
              /\ stopped' = stopped
           \/ run' = IdleRun /\ stopped' \in {stopped, run}
           \/ /\ run'.request = stopped.request
              /\ run'.witness = stopped.witness /\ run'.id = stopped.id
              /\ run'.phase = stopped.phase /\ stopped.phase = "build"
              /\ stopped' = IdleRun
    PROVE  OrderInvariant'
<1>1. main \in Commits /\ pending.commit \in Commits
    BY DEF TypeOK, Requests
<1>2. run'.request \in {run.request, stopped.request, NoRequest}
      /\ stopped'.request \in {run.request, stopped.request, NoRequest}
    BY NoCommitPrecedes
<1>3. /\ Ahead(main)'
      /\ pending.event # "none" => Ahead(pending.commit)'
    BY <1>1, <1>2, NoCommitPrecedes
       DEF OrderInvariant, Ahead, NothingNewer, Precedes, Inventory
<1>4. run'.phase = "prepare" \/ MayPublish(run)' =>
        NothingNewer(run.request.commit)'
    BY NoCommitPrecedes DEF OrderInvariant, MayPublish, NothingNewer
<1>5. MayPublish(stopped)' => NothingNewer(stopped.request.commit)'
    BY NoCommitPrecedes DEF OrderInvariant, MayPublish, NothingNewer
<1>6. QED
    BY <1>3, <1>4, <1>5 DEF OrderInvariant, Precedes

\* Every step but starting a whole run over keeps the order.
LEMMA OrderStep ==
    ASSUME "all" \notin Restarts
    PROVE  TypeOK /\ LabelInvariant /\ OrderInvariant /\ [Next]_vars
            => OrderInvariant'
<1> SUFFICES ASSUME TypeOK, LabelInvariant, OrderInvariant, [Next]_vars
             PROVE  OrderInvariant'
    OBVIOUS
<1>0. run \in Runs /\ stopped \in Runs
    BY DEF TypeOK
<1>1. CASE \E p \in Packages : ChangeRecipe(p) \/ Retire(p)
    BY <1>1, ChangeRecipeOrder, RetireOrder
<1>2. CASE \E event \in AllEvents : Schedule(event)
    BY <1>2, QueueOrder DEF Schedule
<1>3. CASE \E only \in SUBSET Packages : DispatchPackages(only)
    BY <1>3, QueueOrder DEF DispatchPackages
<1>4. CASE Start
    BY <1>4, StartOrder
<1>5. CASE \E listed, judged \in BOOLEAN : Prepare(listed, judged)
    <2>1. PICK listed \in BOOLEAN, judged \in BOOLEAN :
            Prepare(listed, judged)
        BY <1>5
    <2>2. PICK wave \in WaveMap : run' = PreparedRun(listed, judged, wave)
        BY <2>1 DEF Prepare
    <2>3. /\ run.phase = "prepare" /\ run'.phase = "build"
          /\ run'.request = run.request
          /\ UNCHANGED <<main, image, pending, stopped>>
        BY <1>0, <2>1, <2>2 DEF Prepare, PreparedRun, Runs
    <2>4. QED
        BY <2>3 DEF OrderInvariant, Ahead, NothingNewer, MayPublish
<1>6. CASE \E p \in Packages : BuildEnds(p)
    BY <1>0, <1>6, SameImageOrder DEF BuildEnds, Build, BuildFails, Runs
<1>7. CASE \E k \in EarlyIds : PublishEarlyEnds(k)
    <2>1. PICK k \in EarlyIds : PublishEarlyEnds(k)
        BY <1>7
    <2>2. CASE PublishEarlyFails(k)
        BY <1>0, <2>2, SameImageOrder DEF PublishEarlyFails, Runs
    <2>3. CASE \E losers \in SUBSET Outranked : PublishEarly(k, losers)
        <3>1. PICK losers \in SUBSET Outranked : PublishEarly(k, losers)
            BY <2>3
        <3>2. /\ run.phase = "build"
              /\ Publish(Through(run.plan, run.wave, k), losers, {})
              /\ UNCHANGED <<main, pending, stopped>>
              /\ run'.request = run.request /\ run'.phase = run.phase
            BY <1>0, <3>1 DEF PublishEarly, EarlyTurn, Runs
        <3>3. QED BY <3>2, ThroughType, PublicationOrder
    <2>4. QED BY <2>1, <2>2, <2>3 DEF PublishEarlyEnds
<1>8. CASE \E losers \in SUBSET Outranked : PublishFinal(losers)
    BY <1>8, PublicationOrder DEF PublishFinal, FinalTurn, End
<1>9. CASE PrepareFails \/ PublishFinalFails \/ NothingToDo \/ Cancel
    BY <1>9, SameImageOrder
       DEF PrepareFails, PublishFinalFails, NothingToDo, Cancel, End
<1>10. CASE RerunFailed
    BY <1>0, <1>10, SameImageOrder DEF RerunFailed, Runs
<1>11. CASE RerunAll
    BY <1>11 DEF RerunAll
<1>12. CASE UNCHANGED vars
    BY <1>12
       DEF vars, OrderInvariant, Ahead, NothingNewer, Precedes, MayPublish
<1>13. QED
    BY <1>1, <1>2, <1>3, <1>4, <1>5, <1>6, <1>7, <1>8, <1>9, <1>10, <1>11,
       <1>12
       DEF Next, RunStep, Environment, PrepareEnds, FinalEnds

\* Only a publication changes the image.
LEMMA NoRollbackStep ==
    TypeOK /\ LabelInvariant /\ OrderInvariant /\ [Next]_vars
        => [\A p \in Packages \ run.request.commit.owned :
                image'.rpm[p].ver >= image.rpm[p].ver]_image
<1> SUFFICES ASSUME TypeOK, LabelInvariant, OrderInvariant, [Next]_vars,
                    image' # image,
                    NEW p \in Packages \ run.request.commit.owned
             PROVE  image'.rpm[p].ver >= image.rpm[p].ver
    OBVIOUS
<1>1. CASE \E k \in EarlyIds, losers \in SUBSET Outranked :
            PublishEarly(k, losers)
    BY <1>1, ThroughType, PublishOrder DEF PublishEarly, EarlyTurn
<1>2. CASE \E losers \in SUBSET Outranked : PublishFinal(losers)
    BY <1>2, PublishOrder DEF PublishFinal, FinalTurn
<1>3. QED
    BY <1>1, <1>2
       DEF Next, RunStep, Environment, PrepareEnds, BuildEnds,
           PublishEarlyEnds, FinalEnds, ChangeRecipe, Retire, PushTo,
           Schedule, DispatchPackages, Start, Prepare, PrepareFails, Build,
           BuildFails, PublishEarlyFails, PublishFinalFails, NothingToDo,
           Cancel, RerunFailed, RerunAll, vars

\* Commits, runs and the repository stay in order as long as an ended run is
\* taken up where it stopped and never started over.
THEOREM OrderKept ==
    ASSUME "all" \notin Restarts
    PROVE  Spec => []OrderInvariant
<1>1. TypeOK /\ LabelInvariant /\ OrderInvariant /\ [Next]_vars
        => OrderInvariant'
    BY OrderStep
<1>2. QED BY <1>1, InitOrder, TypeCorrect, LabelSound, PTL DEF Spec

\* Under the same condition no publication takes a package back to older
\* inputs or drops one that was not given up: the seed step's comparison of
\* the tag with what prepare saw is enough, whatever is queued, cancelled and
\* run again.
THEOREM NeverRollsBack ==
    ASSUME "all" \notin Restarts
    PROVE  Spec => NoRollback
<1>1. TypeOK /\ LabelInvariant /\ OrderInvariant /\ [Next]_vars
        => [\A p \in Packages \ run.request.commit.owned :
                image'.rpm[p].ver >= image.rpm[p].ver]_image
    BY NoRollbackStep
<1>2. QED
    BY <1>1, OrderKept, TypeCorrect, LabelSound, PTL DEF Spec, NoRollback

-----------------------------------------------------------------------------
(* Factory implements Repository.                                           *)

\* Commits are commits to readers too, and their order is one.
LEMMA CommitsAreCommits == Commits \subseteq Public!Commits
BY FactoryAssumption DEF Commits, Public!Commits, DigestMap

LEMMA OlderReflexive ==
    ASSUME NEW c \in Commits
    PROVE  Public!Older(c, c)
<1>1. \A p \in Packages : c.digest[p] \in Nat
    BY StateAssumption DEF Commits, DigestMap
<1>2. QED BY <1>1 DEF Public!Older, Public!Recipes

LEMMA OlderTransitive ==
    ASSUME NEW a \in Commits, NEW b \in Commits, NEW c \in Commits,
           Public!Older(a, b), Public!Older(b, c)
    PROVE  Public!Older(a, c)
<1>1. \A p \in Packages : a.digest[p] \in Nat /\ b.digest[p] \in Nat /\ c.digest[p] \in Nat
    BY StateAssumption DEF Commits, DigestMap
<1>2. QED BY <1>1 DEF Public!Older, Public!Recipes

\* A merge: what was of main's past still is, and main itself is now.
LEMMA MergePast ==
    ASSUME TypeOK, PastInvariant, NEW head \in Commits, PushTo(head),
           Public!Older(main, head)
    PROVE  PastInvariant' /\ Public!Move
<1>1. /\ main' = head /\ UNCHANGED <<image, run, stopped>>
      /\ pending' = pending \/ pending'.commit = head
    BY DEF PushTo, Queue
<1>2. /\ main \in Commits /\ pending.commit \in Commits
      /\ run.request.commit \in Commits /\ stopped.request.commit \in Commits
    BY DEF TypeOK, Runs, Requests
<1>3. Public!Older(head, head)
    BY OlderReflexive
<1>4. PastInvariant'
    BY <1>1, <1>2, <1>3, OlderTransitive DEF PastInvariant
<1>5. Public!Move
    BY <1>1, CommitsAreCommits DEF Public!Move
<1>6. QED BY <1>4, <1>5

LEMMA ChangeRecipePast ==
    ASSUME TypeOK, PastInvariant, NEW p \in Packages, ChangeRecipe(p)
    PROVE  PastInvariant' /\ Public!Move
<1> DEFINE head == [main EXCEPT !.digest[p] = @ + 1]
<1>1. /\ main \in Commits /\ main.digest \in DigestMap
      /\ main.digest[p] \in 1..(MaxVersion - 1)
      /\ PushTo(head)
    BY DEF ChangeRecipe, TypeOK, Commits
<1>2. head \in Commits
    BY <1>1, StateAssumption DEF Commits, DigestMap
<1>3. \A q \in Packages :
        /\ main.digest[q] \in Nat
        /\ head.digest[q] = IF q = p THEN main.digest[q] + 1 ELSE main.digest[q]
    BY <1>1, StateAssumption DEF Commits, DigestMap
<1>4. head.owned = main.owned
    BY <1>1 DEF Commits
<1>5. Public!Older(main, head)
    <2> HIDE DEF head
    <2>1. main.digest[p] # 0
        BY <1>1
    <2>2. QED BY <1>3, <1>4, <2>1 DEF Public!Older, Public!Recipes
<1> HIDE DEF head
<1>6. QED BY <1>1, <1>2, <1>5, MergePast

LEMMA RetirePast ==
    ASSUME TypeOK, PastInvariant, NEW p \in Packages, Retire(p)
    PROVE  PastInvariant' /\ Public!Move
<1> DEFINE head == [digest |-> [main.digest EXCEPT ![p] = NoDigest],
                    owned |-> main.owned \cup {p}]
<1>1. /\ main \in Commits /\ main.digest \in DigestMap
      /\ p \in Owned /\ PushTo(head)
    BY DEF Retire, TypeOK, Commits
<1>2. head \in Commits
    BY <1>1, StateAssumption DEF Commits, DigestMap, NoDigest
<1>3. \A q \in Packages :
        /\ main.digest[q] \in Nat
        /\ head.digest[q] = IF q = p THEN 0 ELSE main.digest[q]
    BY <1>1, StateAssumption DEF Commits, DigestMap, NoDigest
<1>4. main.owned \subseteq head.owned
    OBVIOUS
<1> HIDE DEF head
<1>5. Public!Older(main, head)
    BY <1>3, <1>4 DEF Public!Older, Public!Recipes
<1>6. QED BY <1>1, <1>2, <1>5, MergePast

\* Every step but a merge leaves main, and what is of its past.
LEMMA OtherStepsPast ==
    ASSUME TypeOK, PastInvariant, [Next]_vars,
           ~\E p \in Packages : ChangeRecipe(p) \/ Retire(p)
    PROVE  PastInvariant' /\ main' = main
<1>0. /\ main \in Commits /\ run \in Runs /\ stopped \in Runs
      /\ Public!Older(main, main)
    BY OlderReflexive DEF TypeOK
<1>1. CASE \/ \E event \in AllEvents : Schedule(event)
           \/ \E only \in SUBSET Packages : DispatchPackages(only)
    BY <1>0, <1>1 DEF Schedule, DispatchPackages, Queue, PastInvariant
<1>2. CASE Start
    <2>1. PICK id \in FreshRuns : run' = StartedRun(id, pending)
        BY <1>2 DEF Start
    <2>2. QED BY <1>2, <2>1 DEF Start, StartedRun, NoRequest, PastInvariant
<1>3. CASE \/ \E listed, judged \in BOOLEAN : Prepare(listed, judged)
           \/ \E p \in Packages : BuildEnds(p)
           \/ \E k \in EarlyIds : PublishEarlyEnds(k)
    <2>1. /\ UNCHANGED <<main, pending, stopped>>
          /\ run.phase # "idle" /\ run'.request = run.request
        BY <1>0, <1>3
           DEF Prepare, PreparedRun, BuildEnds, Build, BuildFails, Buildable, PublishEarlyEnds,
               PublishEarly, PublishEarlyFails, EarlyTurn, Runs
    <2>2. QED BY <2>1 DEF PastInvariant
<1>4. CASE \/ PrepareFails \/ PublishFinalFails \/ NothingToDo \/ Cancel
           \/ \E losers \in SUBSET Outranked : PublishFinal(losers)
    <2>1. /\ UNCHANGED <<main, pending>>
          /\ run' = IdleRun /\ stopped' \in {stopped, run}
        BY <1>4 DEF PrepareFails, PublishFinalFails, NothingToDo, Cancel, PublishFinal, End
    <2>2. QED BY <2>1, NoCommitPrecedes DEF PastInvariant
<1>5. CASE RerunFailed \/ RerunAll
    <2>1. UNCHANGED <<main, pending>> /\ stopped' = IdleRun /\ stopped.phase # "idle"
        BY <1>5 DEF RerunFailed, RerunAll
    <2>2. CASE RerunFailed
        <3>1. run'.request = stopped.request
            BY <1>0, <2>2 DEF RerunFailed, Runs
        <3>2. QED BY <2>1, <3>1, NoCommitPrecedes DEF PastInvariant
    <2>3. CASE RerunAll
        <3>1. run'.request = stopped.request
            BY <2>3 DEF RerunAll, StartedRun
        <3>2. QED BY <2>1, <3>1, NoCommitPrecedes DEF PastInvariant
    <2>4. QED BY <1>5, <2>2, <2>3
<1>6. CASE UNCHANGED vars
    BY <1>6 DEF vars, PastInvariant
<1>7. QED
    BY <1>1, <1>2, <1>3, <1>4, <1>5, <1>6
       DEF Next, RunStep, Environment, PrepareEnds, FinalEnds

\* What a publication does, readers see as one of its run's commit.
LEMMA PublishIsPublic ==
    ASSUME TypeOK, LabelInvariant, PastInvariant, "all" \notin Restarts => OrderInvariant,
           run.phase = "build", main' = main, image' # image,
           NEW cover \in SUBSET run.plan, NEW losers, NEW prune \in SUBSET run.prune,
           Publish(cover, losers, prune)
    PROVE  \E commit \in Public!Commits : Public!Publish(commit)
<1>0. PICK commit : commit = run.request.commit
    OBVIOUS
<1>1. /\ commit \in Public!Commits /\ Public!Older(commit, main)
      /\ SoundRun(run) /\ LabelIsTrue'
    BY <1>0, CommitsAreCommits, PublishKeepsLabel
       DEF TypeOK, Runs, Requests, PastInvariant, LabelInvariant
<1>2. /\ image'.rpm = Candidate(cover, losers, prune)
      /\ CandidateResolves(cover, losers, prune)
    BY DEF Publish, NextImage, Gate
<1>3. ASSUME NEW p \in Packages
      PROVE  image'.rpm[p] = image.rpm[p] \/ Public!Moves(p, commit) \/ Public!GoesAway(p, commit)
    <2>1. CASE p \in prune
        BY <1>0, <1>1, <1>2, <2>1 DEF Candidate, NoBuild, SoundRun, Public!GoesAway
    <2>2. CASE p \notin prune /\ p \notin Accepted(cover, losers)
        BY <1>2, <2>2 DEF Candidate
    <2>3. CASE p \notin prune /\ p \in Accepted(cover, losers)
        <3>1. image'.rpm[p] = run.art[p]
            BY <1>2, <2>3 DEF Candidate
        <3>2. p \in run.plan \ Bootstrap /\ run.art[p] # NoBuild
            BY <2>3 DEF Accepted, Built
        <3>3. /\ run.art[p].ver = commit.digest[p]
              /\ p \in Inventory(commit.digest)
            BY <1>0, <1>1, <3>2 DEF SoundRun, Names
        <3>4. "all" \in Restarts \/ image.rpm[p].ver <= commit.digest[p]
            BY <1>0, <3>3 DEF OrderInvariant, MayPublish, Publish, Witnessed, NothingNewer
        <3>5. p \in Public!Recipes(commit) \ Bootstrap
            BY <3>2, <3>3 DEF Inventory, NoDigest, Public!Recipes
        <3>6. QED BY <3>1, <3>3, <3>4, <3>5 DEF Public!Moves
    <2>4. QED BY <2>1, <2>2, <2>3
<1>4. ASSUME NEW p \in Packages \ Bootstrap, image'.label.inputs[p] # 0
      PROVE  image'.label.inputs[p] = image'.rpm[p].ver
    BY <1>1, <1>4 DEF LabelIsTrue, NoDigest
<1>5. Public!Usable(commit.owned)'
    BY <1>0, <1>2 DEF CandidateResolves, Resolves, Unsatisfied, NoDigest, Public!Usable
<1>6. QED
    BY <1>1, <1>3, <1>4, <1>5 DEF Public!Publish

\* Only a publication changes what readers see of the image.
LEMMA PublicStep ==
    TypeOK /\ LabelInvariant /\ PastInvariant /\ ("all" \notin Restarts => OrderInvariant) /\ [Next]_vars
        => PastInvariant' /\ [Public!Next]_<<main, image.rpm, image.label.inputs>>
<1> SUFFICES ASSUME TypeOK, LabelInvariant, PastInvariant, "all" \notin Restarts => OrderInvariant,
                    [Next]_vars
             PROVE  PastInvariant' /\ [Public!Next]_<<main, image.rpm, image.label.inputs>>
    OBVIOUS
<1>1. CASE \E p \in Packages : ChangeRecipe(p) \/ Retire(p)
    BY <1>1, ChangeRecipePast, RetirePast DEF Public!Next
<1>2. CASE ~\E p \in Packages : ChangeRecipe(p) \/ Retire(p)
    <2>1. PastInvariant' /\ main' = main
        BY <1>2, OtherStepsPast
    <2>2. CASE image' = image
        BY <2>1, <2>2
    <2>3. CASE image' # image
        <3>1. CASE \E k \in EarlyIds, losers \in SUBSET Outranked : PublishEarly(k, losers)
            BY <2>1, <2>3, <3>1, ThroughType, PublishIsPublic DEF PublishEarly, EarlyTurn, Public!Next
        <3>2. CASE \E losers \in SUBSET Outranked : PublishFinal(losers)
            BY <2>1, <2>3, <3>2, PublishIsPublic DEF PublishFinal, FinalTurn, Public!Next
        <3>3. QED
            BY <1>2, <2>3, <3>1, <3>2
               DEF Next, RunStep, Environment, PrepareEnds, BuildEnds,
                   PublishEarlyEnds, FinalEnds,
                   Schedule, DispatchPackages, Start, Prepare, PrepareFails, Build,
                   BuildFails, PublishEarlyFails, PublishFinalFails, NothingToDo,
                   Cancel, RerunFailed, RerunAll, vars
    <2>4. QED BY <2>1, <2>2, <2>3
<1>3. QED BY <1>1, <1>2

LEMMA InitPast == Init => PastInvariant /\ Public!Init
<1> SUFFICES ASSUME Init PROVE PastInvariant /\ Public!Init
    OBVIOUS
<1>1. PastInvariant
    BY NoCommitPrecedes DEF Init, PastInvariant
<1>2. main \in Public!Commits
    BY InitType, CommitsAreCommits DEF TypeOK
<1>3. ASSUME NEW p \in Packages
      PROVE  image.rpm[p].ver = 0 /\ image.label.inputs[p] = 0
    BY DEF Init, FirstImage, EmptyRepository, NoBuild, EmptyLabel, NoDigests, NoDigest
<1>4. QED BY <1>1, <1>2, <1>3 DEF Public!Init

\* Factory implements Repository, its readers' view: whatever is queued,
\* replaced, lost, cancelled, published early and run again, a publication is
\* of one commit, and takes nothing back unless an ended run is started over.
THEOREM RepositoryCorrect == Spec => RepositoryIsKept
<1>1. CASE "all" \notin Restarts
    <2>1. Spec => []OrderInvariant
        BY <1>1, OrderKept
    <2>2. TypeOK /\ LabelInvariant /\ PastInvariant /\ OrderInvariant /\ [Next]_vars
            => PastInvariant' /\ [Public!Next]_<<main, image.rpm, image.label.inputs>>
        BY PublicStep
    <2>3. QED
        BY <2>1, <2>2, InitPast, TypeCorrect, LabelSound, PTL
           DEF Spec, RepositoryIsKept, Public!Spec
<1>2. CASE "all" \in Restarts
    <2>1. TypeOK /\ LabelInvariant /\ PastInvariant /\ [Next]_vars
            => PastInvariant' /\ [Public!Next]_<<main, image.rpm, image.label.inputs>>
        BY <1>2, PublicStep
    <2>2. QED
        BY <2>1, InitPast, TypeCorrect, LabelSound, PTL
           DEF Spec, RepositoryIsKept, Public!Spec
<1>3. QED BY <1>1, <1>2
=============================================================================
