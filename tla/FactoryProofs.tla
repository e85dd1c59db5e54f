---------------------------- MODULE FactoryProofs ----------------------------
(***************************************************************************)
(* What holds of the factory for every set of recipes, every BuildRequires *)
(* graph, every number of waves and early publications, and whatever       *)
(* starts runs or runs them again.                                         *)
(***************************************************************************)
EXTENDS FactoryInvariants, TLAPS

-----------------------------------------------------------------------------
(* Types.                                                                   *)

LEMMA NoDigestsType == NoDigests \in DigestMap
BY StateAssumption DEF NoDigests, NoDigest, DigestMap

LEMMA BuildTypes == NoBuild \in Builds /\ EmptyRepository \in Repositories
BY NoDigestsType, StateAssumption
   DEF NoBuild, Builds, EmptyRepository, Repositories

LEMMA LabelType == EmptyLabel \in Labels
BY NoDigestsType DEF EmptyLabel, Labels

LEMMA NoRequestType == NoRequest \in Requests
BY NoDigestsType DEF NoRequest, NoCommit, Requests, Commits

LEMMA StartedRunType ==
    ASSUME NEW id \in RunIds \cup {NoRun}, NEW request \in Requests
    PROVE  StartedRun(id, request) \in Runs
BY BuildTypes, PlanAssumption
   DEF StartedRun, Runs, Phases, WaveMap, WaveIds

LEMMA IdleRunType == IdleRun \in Runs
<1>1. StartedRun(NoRun, NoRequest) \in Runs
    BY StartedRunType, NoRequestType
<1>2. QED BY <1>1 DEF IdleRun, Runs, Phases

LEMMA InitType == Init => TypeOK
<1> SUFFICES ASSUME Init PROVE TypeOK
    OBVIOUS
<1>1. main \in Commits
    BY StateAssumption DEF Init, FirstMain, Commits, DigestMap
<1>2. image \in Images
    BY BuildTypes, LabelType DEF Init, FirstImage, Images
<1>3. QED BY <1>1, <1>2, NoRequestType, IdleRunType DEF Init, TypeOK

\* The label a publication writes is a label.
LEMMA MergeType ==
    ASSUME NEW seed \in Labels, NEW digests \in DigestMap,
           NEW trusted, NEW replaced, NEW failed, NEW pruned
    PROVE  Merge(seed, digests, trusted, replaced, failed, pruned) \in Labels
<1>1. MergedInputs(seed, digests, trusted, replaced, pruned) \in DigestMap
    BY StateAssumption DEF MergedInputs, Labels, DigestMap, NoDigest
<1>2. MergedFailed(seed, digests, replaced, failed, pruned) \in DigestMap
    BY StateAssumption DEF MergedFailed, Labels, DigestMap, NoDigest
<1>3. QED BY <1>1, <1>2 DEF Merge, Labels

\* What a build links to is a digest of every package, or none.
LEMMA LinkedType ==
    ASSUME TypeOK, NEW p \in Packages
    PROVE  Linked(p) \in DigestMap
<1>1. run.art \in Repositories /\ run.base \in Repositories
    BY DEF TypeOK, Runs
<1>2. ASSUME NEW l \in Packages PROVE Provider(p, l) \in 0..MaxVersion
    BY <1>1 DEF Provider, Repositories, Builds
<1>3. QED BY <1>2, StateAssumption DEF Linked, DigestMap, NoDigest

\* A publication yields a repository.
LEMMA CandidateType ==
    ASSUME TypeOK, NEW cover, NEW losers, NEW prune
    PROVE  Candidate(cover, losers, prune) \in Repositories
<1>1. run.art \in Repositories /\ image.rpm \in Repositories
    BY DEF TypeOK, Runs, Images
<1>2. QED BY <1>1, BuildTypes DEF Candidate, Repositories

\* And an image with a label of its type.
LEMMA NextImageType ==
    ASSUME TypeOK, run.phase # "idle", NEW id \in ImageIds,
           NEW cover, NEW losers, NEW prune
    PROVE  NextImage(id, cover, losers, prune) \in Images
<1>1. /\ run.id \in RunIds \cup {NoRun}
      /\ run.request.commit.digest \in DigestMap
      /\ image.label \in Labels
    BY DEF TypeOK, Runs, Requests, Commits, Images
<1>2. NextImage(id, cover, losers, prune).label \in Labels
    BY <1>1, MergeType DEF NextImage
<1>3. QED BY <1>1, <1>2, CandidateType DEF NextImage, Images

\* How a run ends.
LEMMA EndType ==
    ASSUME TypeOK, NEW clean, End(clean)
    PROVE  run' \in Runs /\ stopped' \in Runs
BY IdleRunType DEF TypeOK, End

\* A publication leaves an image, the old one or a new one.
LEMMA PublishType ==
    ASSUME TypeOK, run.phase # "idle",
           NEW cover, NEW losers, NEW prune, Publish(cover, losers, prune)
    PROVE  image' \in Images
<1>1. CASE Gate(cover, losers, prune)
    <2>1. PICK id \in FreshImages :
            image' = NextImage(id, cover, losers, prune)
        BY <1>1 DEF Publish
    <2>2. id \in ImageIds
        BY <2>1 DEF FreshImages
    <2>3. QED BY <2>1, <2>2, NextImageType
<1>2. CASE ~Gate(cover, losers, prune)
    BY <1>2 DEF Publish, TypeOK
<1>3. QED BY <1>1, <1>2

\* A push queues a request of its type.
LEMMA PushType ==
    ASSUME TypeOK, NEW head \in Commits, PushTo(head)
    PROVE  TypeOK'
<1>1. pending' \in Requests
    BY DEF PushTo, Queue, Requests, AllEvents, TypeOK
<1>2. QED BY <1>1 DEF PushTo, TypeOK

\* The types, action by action.
LEMMA ChangeRecipeType ==
    ASSUME TypeOK, NEW p \in Packages, ChangeRecipe(p)
    PROVE  TypeOK'
<1>1. main \in Commits /\ main.digest[p] \in 1..(MaxVersion - 1)
    BY DEF TypeOK, ChangeRecipe
<1>2. [main.digest EXCEPT ![p] = @ + 1] \in DigestMap
    BY <1>1, StateAssumption DEF Commits, DigestMap
<1>3. [main EXCEPT !.digest[p] = @ + 1] \in Commits
    BY <1>1, <1>2 DEF Commits
<1>4. QED BY <1>3, PushType DEF ChangeRecipe

LEMMA RetireType ==
    ASSUME TypeOK, NEW p \in Packages, Retire(p)
    PROVE  TypeOK'
<1>1. main \in Commits /\ p \in Owned
    BY DEF TypeOK, Retire
<1>2. [main.digest EXCEPT ![p] = NoDigest] \in DigestMap
    BY <1>1, StateAssumption DEF Commits, DigestMap, NoDigest
<1>3. [digest |-> [main.digest EXCEPT ![p] = NoDigest],
       owned |-> main.owned \cup {p}] \in Commits
    BY <1>1, <1>2 DEF Commits
<1>4. QED BY <1>3, PushType DEF Retire

LEMMA QueueType ==
    ASSUME TypeOK, NEW event \in AllEvents, NEW only \in SUBSET Packages,
           Queue(event, main, only), UNCHANGED <<main, image, run, stopped>>
    PROVE  TypeOK'
BY DEF Queue, TypeOK, Requests

LEMMA StartType ==
    ASSUME TypeOK, Start
    PROVE  TypeOK'
<1>1. PICK id \in FreshRuns : run' = StartedRun(id, pending)
    BY DEF Start
<1>2. id \in RunIds /\ pending \in Requests
    BY <1>1 DEF FreshRuns, TypeOK
<1>3. run' \in Runs
    BY <1>1, <1>2, StartedRunType
<1>4. QED BY <1>3, NoRequestType DEF Start, TypeOK

LEMMA SelectionType ==
    ASSUME NEW listed, NEW judged
    PROVE  /\ Names(run) \subseteq Packages
           /\ HeldBack \subseteq Names(run)
           /\ Selected(listed, judged) \subseteq Names(run)
BY DEF Names, Inventory, HeldBack, Selected, Plan

LEMMA PrepareType ==
    ASSUME TypeOK, NEW listed \in BOOLEAN, NEW judged \in BOOLEAN,
           Prepare(listed, judged)
    PROVE  TypeOK'
<1>1. run \in Runs /\ image.id \in ImageIds \cup {NoImage}
        /\ image.rpm \in Repositories
    BY DEF TypeOK, Images
<1>2. PICK wave \in WaveMap : run' = PreparedRun(listed, judged, wave)
    BY DEF Prepare
<1>3. PrunableSources(Listing(listed), run.request.commit.owned)
        \subseteq Packages
    BY DEF PrunableSources, Published
<1>4. run' \in Runs
    BY <1>1, <1>2, <1>3, SelectionType DEF PreparedRun, Runs, Phases
<1>5. QED BY <1>4 DEF Prepare, TypeOK

LEMMA BuildType ==
    ASSUME TypeOK, NEW p \in Packages, Build(p)
    PROVE  TypeOK'
<1>1. run \in Runs /\ run.request.commit.digest \in DigestMap
    BY DEF TypeOK, Runs, Requests, Commits
<1>2. [ver |-> run.request.commit.digest[p], link |-> Linked(p)] \in Builds
    BY <1>1, LinkedType DEF Builds, DigestMap
<1>3. [run.art EXCEPT ![p] = [ver |-> run.request.commit.digest[p],
                              link |-> Linked(p)]] \in Repositories
    BY <1>1, <1>2 DEF Runs, Repositories
<1>4. run' \in Runs
    BY <1>1, <1>3 DEF Build, Runs
<1>5. QED BY <1>4 DEF Build, TypeOK

LEMMA BuildFailsType ==
    ASSUME TypeOK, NEW p \in Packages, BuildFails(p)
    PROVE  TypeOK'
<1>1. run' \in Runs
    BY DEF BuildFails, TypeOK, Runs
<1>2. QED BY <1>1 DEF BuildFails, TypeOK

LEMMA PublishEarlyType ==
    ASSUME TypeOK, NEW k \in EarlyIds, NEW losers, PublishEarly(k, losers)
    PROVE  TypeOK'
<1>1. run.phase # "idle"
    BY DEF PublishEarly, EarlyTurn
<1>2. image' \in Images
    BY <1>1, PublishType DEF PublishEarly
<1>3. run' \in Runs
    BY DEF PublishEarly, TypeOK, Runs
<1>4. QED BY <1>2, <1>3 DEF PublishEarly, TypeOK

LEMMA PublishEarlyFailsType ==
    ASSUME TypeOK, NEW k \in EarlyIds, PublishEarlyFails(k)
    PROVE  TypeOK'
<1>1. run' \in Runs
    BY DEF PublishEarlyFails, TypeOK, Runs
<1>2. QED BY <1>1 DEF PublishEarlyFails, TypeOK

LEMMA PublishFinalType ==
    ASSUME TypeOK, NEW losers, PublishFinal(losers)
    PROVE  TypeOK'
<1>1. run.phase # "idle"
    BY DEF PublishFinal, FinalTurn
<1>2. image' \in Images
    BY <1>1, PublishType DEF PublishFinal
<1>3. QED BY <1>2, EndType DEF PublishFinal, TypeOK

LEMMA RerunFailedType ==
    ASSUME TypeOK, RerunFailed
    PROVE  TypeOK'
<1>1. stopped \in Runs
    BY DEF TypeOK
<1>2. run' \in Runs
    BY <1>1 DEF RerunFailed, Runs
<1>3. QED BY <1>2, IdleRunType DEF RerunFailed, TypeOK

LEMMA RerunAllType ==
    ASSUME TypeOK, RerunAll
    PROVE  TypeOK'
<1>1. stopped.id \in RunIds \cup {NoRun} /\ stopped.request \in Requests
    BY DEF TypeOK, Runs
<1>2. run' \in Runs
    BY <1>1, StartedRunType DEF RerunAll
<1>3. QED BY <1>2, IdleRunType DEF RerunAll, TypeOK

LEMMA TypeStep == TypeOK /\ [Next]_vars => TypeOK'
<1> SUFFICES ASSUME TypeOK, [Next]_vars PROVE TypeOK'
    OBVIOUS
<1>1. CASE \E p \in Packages : ChangeRecipe(p) \/ Retire(p)
    BY <1>1, ChangeRecipeType, RetireType
<1>2. CASE \E event \in AllEvents : Schedule(event)
    BY <1>2, QueueType DEF Schedule
<1>3. CASE \E only \in SUBSET Packages : DispatchPackages(only)
    BY <1>3, QueueType DEF DispatchPackages, AllEvents
<1>4. CASE Start
    BY <1>4, StartType
<1>5. CASE \E listed, judged \in BOOLEAN : Prepare(listed, judged)
    BY <1>5, PrepareType
<1>6. CASE \E p \in Packages : BuildEnds(p)
    BY <1>6, BuildType, BuildFailsType DEF BuildEnds
<1>7. CASE \E k \in EarlyIds : PublishEarlyEnds(k)
    BY <1>7, PublishEarlyType, PublishEarlyFailsType DEF PublishEarlyEnds
<1>8. CASE \E losers \in SUBSET Outranked : PublishFinal(losers)
    BY <1>8, PublishFinalType
<1>9. CASE PrepareFails \/ PublishFinalFails \/ NothingToDo \/ Cancel
    BY <1>9, EndType
       DEF PrepareFails, PublishFinalFails, NothingToDo, Cancel, TypeOK
<1>10. CASE RerunFailed \/ RerunAll
    BY <1>10, RerunFailedType, RerunAllType
<1>11. CASE UNCHANGED vars
    BY <1>11 DEF vars, TypeOK
<1>12. QED
    BY <1>1, <1>2, <1>3, <1>4, <1>5, <1>6, <1>7, <1>8, <1>9, <1>10, <1>11
       DEF Next, RunStep, Environment, PrepareEnds, FinalEnds

\* The state stays what TypeOK says it is, for every set of recipes and every
\* way of starting runs: no handler loses a field or stores a value another
\* one cannot read.
THEOREM TypeCorrect == Spec => []TypeOK
BY InitType, TypeStep, PTL DEF Spec

-----------------------------------------------------------------------------
(* The label tells the truth.                                               *)

\* A run that has nothing yet is sound.
LEMMA StartedSound ==
    ASSUME NEW id \in RunIds \cup {NoRun}, NEW request \in Requests,
           Consistent(request.commit),
           NEW phase \in Phases, phase = "idle" \/ id \in RunIds
    PROVE  SoundRun([StartedRun(id, request) EXCEPT !.phase = phase])
BY DEF SoundRun, StartedRun, EmptyRepository

LEMMA IdleSound == SoundRun(IdleRun)
<1>1. NoRequest \in Requests /\ Consistent(NoRequest.commit)
    BY NoRequestType DEF NoRequest, NoCommit, Consistent
<1>2. QED BY <1>1, StartedSound DEF IdleRun, Phases

LEMMA InitLabel == Init => LabelInvariant
<1> SUFFICES ASSUME Init PROVE LabelInvariant
    OBVIOUS
<1>1. LabelIsTrue
    BY DEF Init, FirstImage, LabelIsTrue, EmptyLabel, NoDigests
<1>2. Consistent(main) /\ Consistent(pending.commit)
    BY DEF Init, FirstMain, NoRequest, NoCommit, Consistent
<1>3. SoundRun(run) /\ SoundRun(stopped)
    BY IdleSound DEF Init
<1>4. run.phase = "idle" /\ stopped.phase = "idle"
    BY DEF Init, IdleRun, StartedRun
<1>5. QED BY <1>1, <1>2, <1>3, <1>4 DEF LabelInvariant, TrustKept, MayPublish

\* What a run takes on trust, the label of the image it saw records at the
\* run's commit.
LEMMA TrustedAtPrepare ==
    ASSUME TypeOK, NEW listed, NEW judged,
           NEW p \in (Names(run) \ Selected(listed, judged)) \ HeldBack
    PROVE  image.label.inputs[p] = run.request.commit.digest[p]
<1> DEFINE digests == run.request.commit.digest
           changed == Changed(image.label, digests, RetryFailed(run))
<1>1. p \in Inventory(digests)
    BY DEF Names
<1>2. p \notin changed
    BY DEF Selected, Plan
<1>3. p \notin Held(image.label, digests, RetryFailed(run))
    BY DEF HeldBack
<1>4. p \notin Moved(image.label, digests)
    BY <1>2, <1>3 DEF Changed, Held
<1>5. QED BY <1>1, <1>4 DEF Moved

\* A publication, of an early wave or the final one, keeps the label true and
\* keeps what its run trusts; the new image is of this run and has a new id.
LEMMA PublishKeepsLabel ==
    ASSUME TypeOK, LabelInvariant, run.phase = "build",
           NEW cover \in SUBSET run.plan, NEW losers,
           NEW prune \in SUBSET run.prune,
           Publish(cover, losers, prune)
    PROVE  /\ LabelIsTrue'
           /\ \A p \in run.trusted :
                image'.label.inputs[p] = run.request.commit.digest[p]
           /\ image' # image =>
                /\ image'.run = run.id
                /\ image'.id \notin {image.id, run.witness, stopped.witness}
<1> DEFINE digests == run.request.commit.digest
<1>1. /\ SoundRun(run) /\ LabelIsTrue
      /\ \A p \in run.trusted : image.label.inputs[p] = digests[p]
    BY DEF LabelInvariant, TrustKept, MayPublish, Publish, Witnessed
<1>2. CASE image' = image
    BY <1>1, <1>2 DEF LabelIsTrue
<1>3. CASE image' # image
    <2>1. PICK id \in FreshImages :
            image' = NextImage(id, cover, losers, prune)
        BY <1>3 DEF Publish
    <2>2. /\ image'.rpm = Candidate(cover, losers, prune)
          /\ image'.run = run.id
          /\ image'.id = id
          /\ image'.label.inputs =
                MergedInputs(image.label, digests, run.trusted,
                             Accepted(cover, losers)
                                 \cup (Built(cover) \cap Bootstrap), prune)
        BY <2>1 DEF NextImage, Merge
    <2>3. ASSUME NEW p \in run.trusted
          PROVE  image'.label.inputs[p] = digests[p]
        <3>1. /\ p \in Inventory(digests) /\ p \in Packages
              /\ p \notin cover /\ p \notin prune
            BY <1>1 DEF SoundRun, Consistent, Inventory
        <3>2. QED BY <1>1, <2>2, <3>1 DEF MergedInputs, Accepted, Built
    <2>4. ASSUME NEW p \in Packages \ Bootstrap,
                 image'.label.inputs[p] # NoDigest
          PROVE  image'.rpm[p].ver = image'.label.inputs[p]
        <3>1. p \notin prune
            BY <2>2, <2>4 DEF MergedInputs
        <3>2. CASE p \in Accepted(cover, losers)
            <4>1. run.art[p].ver = digests[p]
                BY <1>1, <3>2 DEF Accepted, Built, SoundRun
            <4>2. QED
                BY <2>2, <2>4, <3>1, <3>2, <4>1 DEF MergedInputs, Candidate
        <3>3. CASE p \notin Accepted(cover, losers)
            <4>1. image'.rpm[p] = image.rpm[p]
                BY <2>2, <3>1, <3>3 DEF Candidate
            <4>2. image'.label.inputs[p] = image.label.inputs[p]
                BY <1>1, <2>2, <2>4, <3>1, <3>3 DEF MergedInputs
            <4>3. QED BY <1>1, <2>4, <4>1, <4>2 DEF LabelIsTrue
        <3>4. QED BY <3>2, <3>3
    <2>5. QED BY <2>1, <2>2, <2>3, <2>4 DEF LabelIsTrue, FreshImages
<1>4. QED BY <1>2, <1>3

LEMMA PushLabel ==
    ASSUME LabelInvariant, NEW head, Consistent(head), PushTo(head)
    PROVE  LabelInvariant'
<1>1. Consistent(pending.commit)'
    BY DEF PushTo, Queue, LabelInvariant, Consistent
<1>2. QED
    BY <1>1
       DEF PushTo, LabelInvariant, LabelIsTrue, Consistent, SoundRun,
           TrustKept, MayPublish, Names

LEMMA ChangeRecipeLabel ==
    ASSUME TypeOK, LabelInvariant, NEW p \in Packages, ChangeRecipe(p)
    PROVE  LabelInvariant'
<1> DEFINE head == [main EXCEPT !.digest[p] = @ + 1]
<1>1. /\ main.digest \in DigestMap /\ main \in Commits
      /\ main.digest[p] # NoDigest
      /\ PushTo(head)
    BY DEF ChangeRecipe, TypeOK, Commits, NoDigest
<1>2. head.owned = main.owned /\ Inventory(head.digest) = Inventory(main.digest)
    BY <1>1 DEF Commits, DigestMap, Inventory, NoDigest
<1>3. Consistent(head)
    BY <1>2 DEF LabelInvariant, Consistent
<1>4. QED BY <1>1, <1>3, PushLabel

LEMMA RetireLabel ==
    ASSUME TypeOK, LabelInvariant, NEW p \in Packages, Retire(p)
    PROVE  LabelInvariant'
<1> DEFINE head == [digest |-> [main.digest EXCEPT ![p] = NoDigest],
                    owned |-> main.owned \cup {p}]
<1>1. main.digest \in DigestMap /\ PushTo(head)
    BY DEF Retire, TypeOK, Commits
<1>2. Inventory(head.digest) = Inventory(main.digest) \ {p}
    BY <1>1 DEF DigestMap, Inventory
<1>3. Consistent(head)
    BY <1>2 DEF LabelInvariant, Consistent
<1>4. QED BY <1>1, <1>3, PushLabel

LEMMA QueueLabel ==
    ASSUME LabelInvariant, NEW event, NEW only, Queue(event, main, only),
           UNCHANGED <<main, image, run, stopped>>
    PROVE  LabelInvariant'
BY DEF Queue, LabelInvariant, LabelIsTrue, Consistent, SoundRun,
       TrustKept, MayPublish, Names

LEMMA StartLabel ==
    ASSUME TypeOK, LabelInvariant, Start
    PROVE  LabelInvariant'
<1>1. PICK id \in FreshRuns : run' = StartedRun(id, pending)
    BY DEF Start
<1>2. /\ id \in RunIds /\ id # stopped.id
      /\ pending \in Requests /\ Consistent(pending.commit)
    BY <1>1 DEF FreshRuns, TypeOK, LabelInvariant
<1>3. SoundRun(run')
    <2>1. SoundRun([StartedRun(id, pending) EXCEPT !.phase = "prepare"])
        BY <1>2, StartedSound DEF Phases
    <2>2. QED BY <1>1, <2>1 DEF StartedRun
<1>4. run'.phase = "prepare" /\ run'.id = id
    BY <1>1 DEF StartedRun
<1>5. Consistent(pending'.commit)
    BY DEF Start, NoRequest, NoCommit, Consistent
<1>6. UNCHANGED <<main, image, stopped>>
    BY DEF Start
<1>7. QED
    BY <1>2, <1>3, <1>4, <1>5, <1>6
       DEF LabelInvariant, LabelIsTrue, Consistent, SoundRun, TrustKept,
           MayPublish, Names

LEMMA PrepareLabel ==
    ASSUME TypeOK, LabelInvariant, NEW listed \in BOOLEAN,
           NEW judged \in BOOLEAN, Prepare(listed, judged)
    PROVE  LabelInvariant'
<1>1. PICK wave \in WaveMap : run' = PreparedRun(listed, judged, wave)
    BY DEF Prepare
<1>2. /\ run \in Runs /\ run.phase = "prepare"
      /\ UNCHANGED <<main, image, pending, stopped>>
    BY DEF Prepare, TypeOK
<1>3. /\ run'.phase = "build" /\ run'.id = run.id
      /\ run'.request = run.request /\ run'.art = run.art
      /\ run'.plan = Selected(listed, judged)
      /\ run'.trusted = (Names(run) \ Selected(listed, judged)) \ HeldBack
      /\ run'.prune = PrunableSources(Listing(listed),
                                      run.request.commit.owned)
    BY <1>1, <1>2 DEF PreparedRun, Runs
<1>4. SoundRun(run')
    <2>1. run'.prune \subseteq run.request.commit.owned
        BY <1>3 DEF PrunableSources
    <2>2. run'.trusted \subseteq
            Inventory(run.request.commit.digest) \ run'.plan
        BY <1>3 DEF Names
    <2>3. QED
        BY <1>2, <1>3, <2>1, <2>2, SelectionType
           DEF LabelInvariant, SoundRun, Names
<1>5. ASSUME NEW p \in run'.trusted
      PROVE  image.label.inputs[p] = run'.request.commit.digest[p]
    BY <1>3, TrustedAtPrepare
<1>6. QED
    BY <1>2, <1>3, <1>4, <1>5
       DEF LabelInvariant, LabelIsTrue, Consistent, SoundRun, TrustKept,
           MayPublish, Names

LEMMA BuildLabel ==
    ASSUME TypeOK, LabelInvariant, NEW p \in Packages, Build(p)
    PROVE  LabelInvariant'
<1>1. /\ run \in Runs /\ run.art \in Repositories
      /\ UNCHANGED <<main, image, pending, stopped>>
    BY DEF Build, TypeOK, Runs
<1>2. /\ run'.phase = run.phase /\ run'.id = run.id
      /\ run'.request = run.request /\ run'.witness = run.witness
      /\ run'.plan = run.plan /\ run'.trusted = run.trusted
      /\ run'.prune = run.prune
      /\ run'.art = [run.art EXCEPT
            ![p] = [ver |-> run.request.commit.digest[p], link |-> Linked(p)]]
    BY <1>1 DEF Build, Runs
<1>3. ASSUME NEW q \in Packages
      PROVE  \/ run'.art[q] = NoBuild
             \/ run'.art[q].ver = run.request.commit.digest[q]
    BY <1>1, <1>2 DEF Repositories, LabelInvariant, SoundRun
<1>4. SoundRun(run')
    BY <1>2, <1>3 DEF LabelInvariant, SoundRun, Names
<1>5. QED
    BY <1>1, <1>2, <1>4
       DEF LabelInvariant, LabelIsTrue, Consistent, SoundRun, TrustKept,
           MayPublish, Names

\* A step that changes nothing of the run but which jobs have ended.
LEMMA BookkeepingLabel ==
    ASSUME LabelInvariant, UNCHANGED <<main, image, pending, stopped>>,
           run'.phase = run.phase, run'.id = run.id,
           run'.request = run.request, run'.witness = run.witness,
           run'.plan = run.plan, run'.trusted = run.trusted,
           run'.prune = run.prune, run'.art = run.art
    PROVE  LabelInvariant'
BY DEF LabelInvariant, LabelIsTrue, Consistent, SoundRun, TrustKept,
       MayPublish, Names

LEMMA BuildFailsLabel ==
    ASSUME TypeOK, LabelInvariant, NEW p \in Packages, BuildFails(p)
    PROVE  LabelInvariant'
BY BookkeepingLabel DEF BuildFails, TypeOK, Runs

LEMMA PublishEarlyFailsLabel ==
    ASSUME TypeOK, LabelInvariant, NEW k \in EarlyIds, PublishEarlyFails(k)
    PROVE  LabelInvariant'
BY BookkeepingLabel DEF PublishEarlyFails, TypeOK, Runs

LEMMA ThroughType ==
    ASSUME NEW k \in EarlyIds
    PROVE  Through(run.plan, run.wave, k) \subseteq run.plan
BY DEF Through

LEMMA PublishEarlyLabel ==
    ASSUME TypeOK, LabelInvariant, NEW k \in EarlyIds, NEW losers,
           PublishEarly(k, losers)
    PROVE  LabelInvariant'
<1> DEFINE cover == Through(run.plan, run.wave, k)
<1>1. /\ run \in Runs /\ run.phase = "build"
      /\ Publish(cover, losers, {})
      /\ UNCHANGED <<main, pending, stopped>>
    BY DEF PublishEarly, EarlyTurn, TypeOK
<1>2. /\ run'.phase = run.phase /\ run'.id = run.id
      /\ run'.request = run.request /\ run'.witness = run.witness
      /\ run'.plan = run.plan /\ run'.trusted = run.trusted
      /\ run'.prune = run.prune /\ run'.art = run.art
    BY <1>1 DEF PublishEarly, Runs
<1>3. /\ LabelIsTrue'
      /\ \A p \in run.trusted :
            image'.label.inputs[p] = run.request.commit.digest[p]
      /\ image' # image =>
            /\ image'.run = run.id
            /\ image'.id \notin {image.id, run.witness, stopped.witness}
    BY <1>1, ThroughType, PublishKeepsLabel
<1>4. SoundRun(run') /\ TrustKept(run)'
    BY <1>2, <1>3 DEF LabelInvariant, SoundRun, TrustKept, Names
<1>5. TrustKept(stopped)'
    BY <1>1, <1>3 DEF LabelInvariant, TrustKept, MayPublish
<1>6. QED
    BY <1>1, <1>2, <1>3, <1>4, <1>5
       DEF LabelInvariant, Consistent, SoundRun, Names

\* A run that ends leaves nothing in flight, and to be run again what could
\* be before, or the run itself.
LEMMA EndLabel ==
    ASSUME TypeOK, LabelInvariant, NEW clean, End(clean),
           UNCHANGED <<main, pending>>, LabelIsTrue',
           \A r \in {run, stopped} :
                /\ r.phase = "build"
                /\ image'.id = r.witness \/ image'.run = r.id
                => \A p \in r.trusted :
                    image'.label.inputs[p] = r.request.commit.digest[p]
    PROVE  LabelInvariant'
<1>1. run' = IdleRun /\ stopped' \in {run, stopped}
    BY DEF End
<1>2. run'.phase = "idle"
    BY <1>1 DEF IdleRun, StartedRun
<1>3. SoundRun(run') /\ SoundRun(stopped')
    BY <1>1, IdleSound DEF LabelInvariant
<1>4. TrustKept(run)' /\ TrustKept(stopped)'
    BY <1>1, <1>2 DEF TrustKept, MayPublish
<1>5. QED
    BY <1>2, <1>3, <1>4 DEF LabelInvariant, Consistent, SoundRun, Names

LEMMA EndUnpublishedLabel ==
    ASSUME TypeOK, LabelInvariant, NEW clean, End(clean),
           UNCHANGED <<main, image, pending>>
    PROVE  LabelInvariant'
BY EndLabel DEF LabelInvariant, LabelIsTrue, TrustKept, MayPublish

LEMMA PublishFinalLabel ==
    ASSUME TypeOK, LabelInvariant, NEW losers, PublishFinal(losers)
    PROVE  LabelInvariant'
<1>1. /\ run.phase = "build"
      /\ Publish(run.plan, losers, run.prune)
      /\ UNCHANGED <<main, pending>>
    BY DEF PublishFinal, FinalTurn
<1>2. /\ LabelIsTrue'
      /\ \A p \in run.trusted :
            image'.label.inputs[p] = run.request.commit.digest[p]
      /\ image' # image =>
            /\ image'.run = run.id
            /\ image'.id \notin {image.id, run.witness, stopped.witness}
    BY <1>1, PublishKeepsLabel
<1>3. ASSUME stopped.phase = "build",
             image'.id = stopped.witness \/ image'.run = stopped.id,
             NEW p \in stopped.trusted
      PROVE  image'.label.inputs[p] = stopped.request.commit.digest[p]
    BY <1>1, <1>2, <1>3 DEF LabelInvariant, TrustKept, MayPublish
<1>4. PICK clean : End(clean)
    BY DEF PublishFinal
<1>5. QED BY <1>1, <1>2, <1>3, <1>4, EndLabel

LEMMA RerunFailedLabel ==
    ASSUME TypeOK, LabelInvariant, RerunFailed
    PROVE  LabelInvariant'
<1>1. /\ stopped \in Runs /\ stopped.phase = "build"
      /\ stopped' = IdleRun
      /\ UNCHANGED <<main, image, pending>>
    BY DEF RerunFailed, TypeOK
<1>2. /\ run'.phase = stopped.phase /\ run'.id = stopped.id
      /\ run'.request = stopped.request /\ run'.witness = stopped.witness
      /\ run'.plan = stopped.plan /\ run'.trusted = stopped.trusted
      /\ run'.prune = stopped.prune /\ run'.art = stopped.art
    BY <1>1 DEF RerunFailed, Runs
<1>3. SoundRun(run') /\ SoundRun(stopped')
    BY <1>1, <1>2, IdleSound DEF LabelInvariant, SoundRun, Names
<1>4. stopped'.phase = "idle" /\ stopped'.id = NoRun
    BY <1>1 DEF IdleRun, StartedRun
<1>5. run'.id # stopped'.id
    BY <1>1, <1>2, <1>4, FactoryAssumption DEF LabelInvariant, SoundRun
<1>6. TrustKept(run)' /\ TrustKept(stopped)'
    BY <1>1, <1>2, <1>4 DEF LabelInvariant, TrustKept, MayPublish
<1>7. QED
    BY <1>1, <1>3, <1>5, <1>6
       DEF LabelInvariant, LabelIsTrue, Consistent, SoundRun, Names

LEMMA RerunAllLabel ==
    ASSUME TypeOK, LabelInvariant, RerunAll
    PROVE  LabelInvariant'
<1>1. /\ stopped \in Runs /\ stopped.phase # "idle"
      /\ run' = StartedRun(stopped.id, stopped.request)
      /\ stopped' = IdleRun
      /\ UNCHANGED <<main, image, pending>>
    BY DEF RerunAll, TypeOK
<1>2. /\ stopped.id \in RunIds /\ stopped.request \in Requests
      /\ Consistent(stopped.request.commit)
    BY <1>1 DEF LabelInvariant, SoundRun, Runs
<1>3. SoundRun(run')
    <2>1. SoundRun([StartedRun(stopped.id, stopped.request)
                    EXCEPT !.phase = "prepare"])
        BY <1>2, StartedSound DEF Phases
    <2>2. QED BY <1>1, <2>1 DEF StartedRun
<1>4. /\ run'.phase = "prepare" /\ run'.id = stopped.id
      /\ stopped'.phase = "idle" /\ stopped'.id = NoRun
    BY <1>1 DEF StartedRun, IdleRun
<1>5. SoundRun(stopped') /\ run'.id # stopped'.id
    BY <1>1, <1>2, <1>4, IdleSound, FactoryAssumption
<1>6. QED
    BY <1>1, <1>3, <1>4, <1>5
       DEF LabelInvariant, LabelIsTrue, Consistent, SoundRun, TrustKept,
           MayPublish, Names

LEMMA LabelStep == TypeOK /\ LabelInvariant /\ [Next]_vars => LabelInvariant'
<1> SUFFICES ASSUME TypeOK, LabelInvariant, [Next]_vars PROVE LabelInvariant'
    OBVIOUS
<1>1. CASE \E p \in Packages : ChangeRecipe(p) \/ Retire(p)
    BY <1>1, ChangeRecipeLabel, RetireLabel
<1>2. CASE \E event \in AllEvents : Schedule(event)
    BY <1>2, QueueLabel DEF Schedule
<1>3. CASE \E only \in SUBSET Packages : DispatchPackages(only)
    BY <1>3, QueueLabel DEF DispatchPackages
<1>4. CASE Start
    BY <1>4, StartLabel
<1>5. CASE \E listed, judged \in BOOLEAN : Prepare(listed, judged)
    BY <1>5, PrepareLabel
<1>6. CASE \E p \in Packages : BuildEnds(p)
    BY <1>6, BuildLabel, BuildFailsLabel DEF BuildEnds
<1>7. CASE \E k \in EarlyIds : PublishEarlyEnds(k)
    BY <1>7, PublishEarlyLabel, PublishEarlyFailsLabel DEF PublishEarlyEnds
<1>8. CASE \E losers \in SUBSET Outranked : PublishFinal(losers)
    BY <1>8, PublishFinalLabel
<1>9. CASE PrepareFails \/ PublishFinalFails \/ NothingToDo \/ Cancel
    BY <1>9, EndUnpublishedLabel
       DEF PrepareFails, PublishFinalFails, NothingToDo, Cancel
<1>10. CASE RerunFailed \/ RerunAll
    BY <1>10, RerunFailedLabel, RerunAllLabel
<1>11. CASE UNCHANGED vars
    BY <1>11
       DEF vars, LabelInvariant, LabelIsTrue, Consistent, SoundRun,
           TrustKept, MayPublish, Names
<1>12. QED
    BY <1>1, <1>2, <1>3, <1>4, <1>5, <1>6, <1>7, <1>8, <1>9, <1>10, <1>11
       DEF Next, RunStep, Environment, PrepareEnds, FinalEnds

\* Whatever input digest the label records for a package is the one the
\* published build of it was made from, however runs are queued, replaced,
\* cancelled, run again and published in parts: prepare may believe it.
THEOREM LabelTrue == Spec => []LabelIsTrue
<1>1. LabelInvariant => LabelIsTrue
    BY DEF LabelInvariant
<1>2. QED BY <1>1, InitLabel, LabelStep, TypeCorrect, PTL DEF Spec

\* So do the facts it rests on, of the run in flight and the one that ended.
THEOREM LabelSound == Spec => []LabelInvariant
BY InitLabel, LabelStep, TypeCorrect, PTL DEF Spec

-----------------------------------------------------------------------------
(* A run covers every change.                                               *)

LEMMA PrepareCovers ==
    ASSUME TypeOK, LabelInvariant, NEW listed \in BOOLEAN,
           NEW judged \in BOOLEAN, Prepare(listed, judged)
    PROVE  Covers(run')
<1>1. PICK wave \in WaveMap : run' = PreparedRun(listed, judged, wave)
    BY DEF Prepare
<1>2. run \in Runs
    BY DEF TypeOK
<1>3. /\ run'.request = run.request /\ run'.base = image.rpm
      /\ run'.plan = Selected(listed, judged) /\ run'.held = HeldBack
    BY <1>1, <1>2 DEF PreparedRun, Runs
<1>4. ASSUME NEW p \in Names(run) \ Bootstrap,
             p \notin Selected(listed, judged) \cup HeldBack
      PROVE  image.rpm[p].ver = run.request.commit.digest[p]
    <2>1. image.label.inputs[p] = run.request.commit.digest[p]
        BY <1>4, TrustedAtPrepare
    <2>2. p \in Packages /\ run.request.commit.digest[p] # NoDigest
        BY DEF Names, Inventory
    <2>3. QED BY <2>1, <2>2 DEF LabelInvariant, LabelIsTrue
<1>5. Names(run') = Names(run)
    BY <1>3 DEF Names
<1>6. QED BY <1>3, <1>4, <1>5 DEF Covers

\* What Covers reads does not change while a run builds, or when it starts
\* again.
LEMMA CoversKept ==
    ASSUME NEW r, NEW s, Covers(r), s.phase = r.phase,
           s.request = r.request, s.base = r.base, s.plan = r.plan,
           s.held = r.held
    PROVE  Covers(s)
BY DEF Covers, Names

LEMMA NotBuildingCovers ==
    /\ \A id, request : Covers(StartedRun(id, request))
    /\ Covers(IdleRun)
BY DEF Covers, StartedRun, IdleRun

LEMMA EndCovers ==
    ASSUME CoverInvariant, NEW clean, End(clean)
    PROVE  CoverInvariant'
<1>1. run' = IdleRun /\ stopped' \in {run, stopped}
    BY DEF End
<1>2. Covers(run') /\ Covers(stopped')
    BY <1>1, NotBuildingCovers DEF CoverInvariant
<1>3. QED BY <1>2 DEF CoverInvariant, Covers, Names

\* A step that leaves alone what Covers reads.
LEMMA JobCovers ==
    ASSUME CoverInvariant, stopped' = stopped,
           run'.phase = run.phase, run'.request = run.request,
           run'.base = run.base, run'.plan = run.plan, run'.held = run.held
    PROVE  CoverInvariant'
<1>1. Covers(run') /\ Covers(stopped')
    BY CoversKept DEF CoverInvariant
<1>2. QED BY <1>1 DEF CoverInvariant, Covers, Names

LEMMA CoverStep ==
    TypeOK /\ LabelInvariant /\ CoverInvariant /\ [Next]_vars => CoverInvariant'
<1> SUFFICES ASSUME TypeOK, LabelInvariant, CoverInvariant, [Next]_vars
             PROVE  CoverInvariant'
    OBVIOUS
<1>0. run \in Runs /\ stopped \in Runs
    BY DEF TypeOK
<1>1. CASE UNCHANGED <<run, stopped>>
    BY <1>1 DEF CoverInvariant, Covers, Names
<1>2. CASE Start
    <2>1. PICK id : run' = StartedRun(id, pending)
        BY <1>2 DEF Start
    <2>2. Covers(run') /\ Covers(stopped')
        BY <1>2, <2>1, NotBuildingCovers DEF Start, CoverInvariant
    <2>3. QED BY <2>2 DEF CoverInvariant, Covers, Names
<1>3. CASE \E listed, judged \in BOOLEAN : Prepare(listed, judged)
    <2>1. Covers(run') /\ Covers(stopped')
        BY <1>3, PrepareCovers DEF Prepare, CoverInvariant
    <2>2. QED BY <2>1 DEF CoverInvariant, Covers, Names
<1>4. CASE \E p \in Packages : BuildEnds(p)
    BY <1>0, <1>4, JobCovers DEF BuildEnds, Build, BuildFails, Runs
<1>5. CASE \E k \in EarlyIds : PublishEarlyEnds(k)
    BY <1>0, <1>5, JobCovers
       DEF PublishEarlyEnds, PublishEarly, PublishEarlyFails, Runs
<1>6. CASE PrepareFails \/ FinalEnds \/ Cancel
    BY <1>6, EndCovers
       DEF PrepareFails, FinalEnds, PublishFinal, PublishFinalFails,
           NothingToDo, Cancel
<1>7. CASE RerunFailed
    <2>1. /\ run'.phase = stopped.phase /\ run'.request = stopped.request
          /\ run'.base = stopped.base /\ run'.plan = stopped.plan
          /\ run'.held = stopped.held
          /\ stopped' = IdleRun
        BY <1>0, <1>7 DEF RerunFailed, Runs
    <2>2. Covers(run') /\ Covers(stopped')
        BY <2>1, CoversKept, NotBuildingCovers DEF CoverInvariant
    <2>3. QED BY <2>2 DEF CoverInvariant, Covers, Names
<1>8. CASE RerunAll
    <2>1. Covers(run') /\ Covers(stopped')
        BY <1>8, NotBuildingCovers DEF RerunAll
    <2>2. QED BY <2>1 DEF CoverInvariant, Covers, Names
<1>9. QED
    BY <1>1, <1>2, <1>3, <1>4, <1>5, <1>6, <1>7, <1>8
       DEF Next, RunStep, Environment, PrepareEnds, ChangeRecipe, Retire,
           PushTo, Schedule, DispatchPackages, vars

\* No change is lost between two publications: whatever became of the runs in
\* between, a recipe whose published build is not of the run's commit is in
\* the build set, or held at exactly the inputs it failed at.
THEOREM EveryChangeCovered == Spec => []RunCoversEveryChange
<1>1. Init => CoverInvariant
    BY NotBuildingCovers DEF Init, CoverInvariant
<1>2. CoverInvariant => RunCoversEveryChange
    BY DEF CoverInvariant, Covers, RunCoversEveryChange
<1>3. QED BY <1>1, <1>2, CoverStep, TypeCorrect, LabelSound, PTL DEF Spec
=============================================================================
