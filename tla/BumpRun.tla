------------------------------- MODULE BumpRun -------------------------------
(***************************************************************************)
(* bump-upstream-sources.yml with the part of tools/upstream_bump.py that  *)
(* writes: a run decides which locks move (Releases), rewrites recipe and  *)
(* lock of one package after the other, verifies the result and puts it on *)
(* one of its branches.  Meanwhile upstreams release and replace           *)
(* tarballs, another run takes its place, and main moves.  BumpGate is     *)
(* what happens on the branch; here its gate trims it or lands it.         *)
(*                                                                         *)
(* A tree is what the run reads and writes of a commit: of each package    *)
(* the lock entry, the Version: of the spec and the digest the sources     *)
(* manifest pins, the packages listed as fetching from Fedora (ratchet),   *)
(* and the held versions.                                                  *)
(***************************************************************************)
EXTENDS Releases, FiniteSets

CONSTANTS
    Packages,
    Lookaside,     \* packages whose lock takes its source from Fedora at first
    ReviewOnly,    \* packages config/bump-review-only.txt lists
    Stuck,         \* packages whose recipe no bump can rewrite
    Comes,         \* bound: Comes[p], the places in Shipped of what p comes to release
    RollsLocked,   \* whether upstream may replace the bytes of what main locks
    Rolls,         \* bound: the packages whose upstream ever replaces a tarball
    Named,         \* bound: the packages a dispatched run ever names
    MaxHand        \* bound: runs dispatched and recipes moved by hand

ASSUME BumpRunAssumption ==
    /\ Lookaside \cup ReviewOnly \cup Stuck \cup Rolls \cup Named \subseteq Packages
    /\ Comes \in [Packages -> SUBSET (2..4)] /\ \A p \in Packages : 2 \in Comes[p]
    /\ "all" \notin Packages      \* what a run without --package is only for
    /\ RollsLocked \in BOOLEAN /\ MaxHand \in Nat

\* What projects release, in this order: twice within a cycle, then the next.
Shipped == <<Ver(<<51, 0>>, ""), Ver(<<51, 0, 1>>, ""), Ver(<<51, 0, 2>>, ""), Ver(<<52, 0>>, "")>>

VARIABLES
    main,       \* the tree at the head of main
    upstream,   \* [shipped |-> how many releases are out, rolled |-> tarballs that were replaced]
    run,        \* the run in progress
    prs,        \* the open pull request of each branch, or Closed
    hand        \* how many runs were dispatched and recipes moved by hand

vars == <<main, upstream, run, prs, hand>>

Trees == [lock : [Packages -> [version : ToSet(Shipped), primary : {"gnome", "lookaside"},
                               feed : {"gnome", "none"}, digest : ToSet(Shipped) \X BOOLEAN]],
          spec : [Packages -> ToSet(Shipped)], pin : [Packages -> ToSet(Shipped) \X BOOLEAN],
          ratchet : SUBSET Packages, hold : [Packages -> {{}} \cup {{v} : v \in ToSet(Shipped)}]]

\* The branch the gate lands, the one of a target cycle, and the relocks.
Daily == <<"daily", "all">>
Cycle == <<"cycle", "all">>
Branches == {Daily, Cycle} \cup ({"relock"} \X Packages)

Released(p) == {Shipped[i] : i \in ({1} \cup Comes[p]) \cap 1..upstream.shipped[p]}

\* The digest of the tarball a project now serves for a release.
Served(p, version) == <<version, <<p, version>> \in upstream.rolled>>

----------------------------------------------------------------------------
(* What a run writes *)

\* The lock of p as the planner reads it; only is what --package names.
Considered(p, readable, tree) ==
    [entry |-> [version |-> tree.lock[p].version, primary |-> tree.lock[p].primary,
                mirror |-> FALSE, feed |-> tree.lock[p].feed],
     listing |-> [released |-> Released(p), flagged |-> {}, tagged |-> {}], endpoint |-> "tags",
     readable |-> p \in readable, module |-> TRUE, only |-> run.only = p, cycle |-> run.cycle,
     reviewOnly |-> p \in ReviewOnly, held |-> tree.hold[p]]

\* planned_entry and forge_planned_entry: every field follows the release, and
\* a relock takes the place its feed names.
PlannedEntry(entry, proposal, digest) ==
    [version |-> proposal.latest, digest |-> digest,
     primary |-> IF proposal.kind = "relock" THEN "gnome" ELSE entry.primary,
     feed |-> IF proposal.kind = "relock" THEN "none" ELSE entry.feed]

RewriteSpec(p, tree, release) == [tree EXCEPT !.spec[p] = release]

\* Mutant: the manifest's line names the new file and loses its digest.
RewriteSourcesByName(p, tree, digest) == [tree EXCEPT !.pin[p] = <<digest[1]>>]

RewriteSources(p, tree, digest) == [tree EXCEPT !.pin[p] = digest]

RetireFedoraPrimary(p, tree) ==
    [tree EXCEPT !.ratchet = IF tree.lock[p].primary = "lookaside" THEN @ ELSE @ \ {p}]

\* Mutant: the lock is written before the recipe, which may refuse.
ApplyLockFirst(p, tree, proposal, fetched) ==
    LET digest == Served(p, proposal.latest)
        locked == [tree EXCEPT !.lock[p] = PlannedEntry(@, proposal, digest)]
    IN  CASE ~fetched -> [ok |-> FALSE, tree |-> tree]
          [] fetched /\ p \in Stuck -> [ok |-> FALSE, tree |-> locked]
          [] OTHER -> [ok |-> TRUE,
                       tree |-> RetireFedoraPrimary(p, RewriteSources(p, RewriteSpec(p, locked, proposal.latest), digest))]

\* apply: the recipe, then the lock; a recipe that cannot be rewritten, or
\* bytes that cannot be fetched, leave the package as it was.
Apply(p, tree, proposal, fetched) ==
    LET digest == Served(p, proposal.latest)
        recipe == RewriteSources(p, RewriteSpec(p, tree, proposal.latest), digest)
        locked == [recipe EXCEPT !.lock[p] = PlannedEntry(@, proposal, digest)]
    IN  IF p \in Stuck \/ ~fetched THEN [ok |-> FALSE, tree |-> tree]
        ELSE [ok |-> TRUE, tree |-> RetireFedoraPrimary(p, locked)]

\* A newer release that was applied retires the hold of an older one.
RetireHold(p, result) ==
    IF result.ok THEN [result.tree EXCEPT !.hold[p] = {}] ELSE result.tree

\* Mutant: the first package that cannot be moved ends the run.
GoesOnAfterSuccess(result) == result.ok

\* A package that cannot be moved is skipped.
GoesOn(result) == TRUE

\* validate.py on the ratchet: it lists exactly what fetches from Fedora.
Validates(tree) == tree.ratchet = {p \in Packages : tree.lock[p].primary = "lookaside"}

\* source_pipeline.py on one lock: Fedora's lookaside serves by digest.
Verifies(p, tree) ==
    LET entry == tree.lock[p]
    IN  entry.primary = "lookaside" \/ entry.digest = Served(p, entry.version)

----------------------------------------------------------------------------
(* Pull requests *)

Closed == [open |-> FALSE]

Changed(pr) ==
    {p \in Packages : \/ pr.head.lock[p] # pr.base.lock[p]
                      \/ pr.head.hold[p] # pr.base.hold[p]}

Bumped(pr) == {p \in Packages : pr.head.lock[p] # pr.base.lock[p]}

Relocks(pr) == {p \in Packages : pr.head.lock[p].primary # pr.base.lock[p].primary}

\* Entries apart are merged apart; two changes of one package conflict.
Mergeable(pr) ==
    \A p \in Changed(pr) : /\ main.lock[p] = pr.base.lock[p] /\ main.spec[p] = pr.base.spec[p]
                           /\ main.hold[p] = pr.base.hold[p]

Merged(pr) ==
    [lock |-> [p \in Packages |-> IF p \in Changed(pr) THEN pr.head.lock[p] ELSE main.lock[p]],
     spec |-> [p \in Packages |-> IF pr.head.spec[p] # pr.base.spec[p] THEN pr.head.spec[p] ELSE main.spec[p]],
     pin |-> [p \in Packages |-> IF pr.head.pin[p] # pr.base.pin[p] THEN pr.head.pin[p] ELSE main.pin[p]],
     ratchet |-> main.ratchet \ (pr.base.ratchet \ pr.head.ratchet),
     hold |-> [p \in Packages |-> IF p \in Changed(pr) THEN pr.head.hold[p] ELSE main.hold[p]]]

\* Mutant: only a run for another cycle has a branch of its own.
BranchByCycle(r) == IF r.cycle # <<>> THEN Cycle ELSE Daily

BranchOf(r) ==
    CASE r.cycle # <<>> -> Cycle
      [] r.cycle = <<>> /\ r.only # "all" /\ r.relock -> <<"relock", r.only>>
      [] OTHER -> Daily

----------------------------------------------------------------------------
(* The run *)

Idle == [at |-> "idle", only |-> "all", cycle |-> <<>>, by |-> "none", clear |-> FALSE]

FirstTree ==
    [lock |-> [p \in Packages |->
                  [version |-> Shipped[1], digest |-> <<Shipped[1], FALSE>>,
                   primary |-> IF p \in Lookaside THEN "lookaside" ELSE "gnome",
                   feed |-> IF p \in Lookaside THEN "gnome" ELSE "none"]],
     spec |-> [p \in Packages |-> Shipped[1]],
     pin |-> [p \in Packages |-> <<Shipped[1], FALSE>>],
     ratchet |-> Lookaside,
     hold |-> [p \in Packages |-> {}]]

Init ==
    /\ main = FirstTree
    /\ upstream = [shipped |-> [p \in Packages |-> IF p \in Stuck THEN 2 ELSE 1], rolled |-> {}]
    /\ run = Idle
    /\ prs = [b \in Branches |-> Closed]
    /\ hand = 0

\* A new run takes the place of the one in progress.  When clear, every server
\* answers it throughout.
Start(only, cycle, by, clear) ==
    run' = [at |-> "plan", only |-> only, cycle |-> cycle, by |-> by, clear |-> clear, base |-> main]

\* Once a day, when the run of the day before has ended.
Schedule(clear) ==
    /\ run.at = "idle" \/ run.by = "hand"
    /\ Start("all", <<>>, "schedule", clear)
    /\ UNCHANGED <<main, upstream, prs, hand>>

Dispatch ==
    /\ hand < MaxHand /\ hand' = hand + 1
    /\ \E only \in Named \cup {"all"}, cycle \in {<<>>, <<52>>} : Start(only, cycle, "hand", FALSE)
    /\ UNCHANGED <<main, upstream, prs>>

\* main, up to the loop that applies: readable are the indexes that answer.
Decide(readable) ==
    /\ run.at = "plan" /\ (run.clear => readable = Packages)
    /\ LET finals == {p \in Packages : /\ run.only \in {"all", p}
                                       /\ Written(Considered(p, readable, run.base))}
           proposals == [p \in finals |-> Plan(Considered(p, readable, run.base))]
       IN  run' = [at |-> "apply", only |-> run.only, cycle |-> run.cycle, by |-> run.by,
                   clear |-> run.clear, base |-> run.base, tree |-> run.base, todo |-> proposals, applied |-> FALSE, tried |-> finals # {},
                   relock |-> \E p \in finals : proposals[p].kind = "relock"]
    /\ UNCHANGED <<main, upstream, prs, hand>>

ApplyOne(p, fetched) ==
    /\ run.at = "apply" /\ p \in DOMAIN run.todo /\ p = CHOOSE q \in DOMAIN run.todo : TRUE
    /\ run.clear => fetched
    /\ LET result == Apply(p, run.tree, run.todo[p], fetched)
       IN  IF ~GoesOn(result) THEN run' = Idle
           ELSE run' = [run EXCEPT !.tree = RetireHold(p, result), !.applied = @ \/ result.ok,
                                   !.todo = [q \in DOMAIN @ \ {p} |-> @[q]]]
    /\ UNCHANGED <<main, upstream, prs, hand>>

\* A run that could apply none of its proposals fails.
Applied ==
    /\ run.at = "apply" /\ DOMAIN run.todo = {}
    /\ run' = IF run.tried /\ ~run.applied THEN Idle ELSE [run EXCEPT !.at = "verify"]
    /\ UNCHANGED <<main, upstream, prs, hand>>

\* validate.py, and then the pipeline over every lock there is; reached: no
\* server is down for all of its retries.
Verify(reached) ==
    /\ run.at = "verify" /\ (run.clear => reached)
    /\ run' = IF reached /\ Validates(run.tree) /\ \A p \in Packages : Verifies(p, run.tree)
              THEN [run EXCEPT !.at = "open"] ELSE Idle
    /\ UNCHANGED <<main, upstream, prs, hand>>

\* create-pull-request: the branch is made anew from the commit the run began
\* with; one without a change is deleted and its pull request closed.
Open ==
    /\ run.at = "open"
    /\ LET branch == BranchOf(run)
           same == prs[branch].open /\ prs[branch].base = run.base /\ prs[branch].head = run.tree
       IN  prs' = [prs EXCEPT ![branch] =
                      IF run.tree = run.base THEN Closed
                      ELSE IF same THEN @
                      ELSE [open |-> TRUE, base |-> run.base, head |-> run.tree, gated |-> FALSE]]
    /\ run' = IF run.cycle = <<>> /\ ~run.relock THEN [run EXCEPT !.at = "gate"] ELSE Idle
    /\ UNCHANGED <<main, upstream, hand>>

DispatchGate ==
    /\ run.at = "gate"
    /\ prs' = IF prs[Daily].open THEN [prs EXCEPT ![Daily].gated = TRUE] ELSE prs
    /\ run' = Idle
    /\ UNCHANGED <<main, upstream, hand>>

----------------------------------------------------------------------------
(* Around it *)

Release(p) ==
    /\ \E next \in Comes[p] :
           /\ next > upstream.shipped[p]
           /\ \A i \in Comes[p] : i <= upstream.shipped[p] \/ i >= next
           /\ upstream' = [upstream EXCEPT !.shipped[p] = next]
    /\ UNCHANGED <<main, run, prs, hand>>

\* An upstream replaces a tarball it has released.
Roll(p, version) ==
    /\ version \in Released(p) /\ version = Shipped[2]
    /\ p \in Rolls /\ <<p, version>> \notin upstream.rolled
    /\ RollsLocked \/ main.lock[p].version # version
    /\ upstream' = [upstream EXCEPT !.rolled = @ \cup {<<p, version>>}]
    /\ UNCHANGED <<main, run, prs, hand>>

\* What is built has the bytes its lock names.
Builds(pr) == \A p \in Bumped(pr) : Verifies(p, pr.head)

Lands(branch) ==
    /\ prs[branch].open /\ Mergeable(prs[branch]) /\ Builds(prs[branch])
    /\ main' = Merged(prs[branch])
    /\ prs' = [prs EXCEPT ![branch] = Closed]
    /\ UNCHANGED <<upstream, run>>

GateLands == prs[Daily].open /\ prs[Daily].gated /\ Lands(Daily) /\ UNCHANGED hand

\* The gate takes out a package that failed, if need be the last, and holds it.
GateTrims(p) ==
    /\ prs[Daily].open /\ prs[Daily].gated
    /\ p \in Bumped(prs[Daily])
    /\ prs' = [prs EXCEPT ![Daily].head =
                  [@ EXCEPT !.lock[p] = prs[Daily].base.lock[p], !.spec[p] = prs[Daily].base.spec[p],
                            !.pin[p] = prs[Daily].base.pin[p], !.hold[p] = {prs[Daily].head.lock[p].version}]]
    /\ UNCHANGED <<main, upstream, run, hand>>

HumanLands(branch) == branch # Daily /\ Lands(branch) /\ UNCHANGED hand

\* A recipe is moved by hand, whole, to what its upstream has released, and
\* stays on its primary.
HumanMoves(p, version) ==
    /\ hand < MaxHand /\ hand' = hand + 1
    /\ version \in Released(p) /\ Above(VersionKey(version), VersionKey(main.lock[p].version))
    /\ LET digest == Served(p, version)
       IN  main' = [main EXCEPT !.lock[p].version = version, !.lock[p].digest = digest,
                                !.spec[p] = version, !.pin[p] = digest]
    /\ UNCHANGED <<upstream, run, prs>>

RunStep ==
    \/ \E readable \in SUBSET {p \in Packages : run.only \in {"all", p}} : Decide(readable)
    \/ \E p \in Packages, fetched \in BOOLEAN : ApplyOne(p, fetched)
    \/ Applied
    \/ \E reached \in BOOLEAN : Verify(reached)
    \/ Open \/ DispatchGate

Next ==
    \/ \E clear \in BOOLEAN : Schedule(clear)
    \/ Dispatch \/ RunStep \/ GateLands
    \/ \E p \in Packages : Release(p) \/ GateTrims(p)
    \/ \E p \in Packages, version \in ToSet(Shipped) : Roll(p, version) \/ HumanMoves(p, version)
    \/ \E branch \in Branches : HumanLands(branch)

Spec == Init /\ [][Next]_vars

\* WF_run(RunStep), spelled out: a run that is not idle has a step to take, and
\* whatever changes the run and is none of its steps starts another.
RunGoesOn == []<>(run.at = "idle") \/ []<><<run'.at # "plan">>_run

\* Infinitely many days are clear; a run goes on, and its gate comes to a
\* verdict before the branch has moved for ever.
Fairness == RunGoesOn /\ SF_vars(Schedule(TRUE)) /\ SF_vars(GateLands)

FairSpec == Spec /\ Fairness

----------------------------------------------------------------------------
(* Properties *)

TypeOK ==
    /\ main \in Trees
    /\ upstream.shipped \in [Packages -> 1..Len(Shipped)]
    /\ upstream.rolled \subseteq Packages \X ToSet(Shipped)
    /\ run.at \in {"idle", "plan", "apply", "verify", "open", "gate"}
    /\ run.only \in Packages \cup {"all"} /\ run.cycle \in {<<>>, <<52>>}
    /\ run.at # "idle" => run.base \in Trees
    /\ run.at \notin {"idle", "plan"} => run.tree \in Trees /\ run.relock \in BOOLEAN
    /\ \A b \in Branches : prs[b].open => prs[b].base \in Trees /\ prs[b].head \in Trees /\ prs[b].gated \in BOOLEAN
    /\ hand \in 0..MaxHand

\* The three files of a recipe name one release and one digest, and the
\* ratchet what the locks say.
Whole(tree) ==
    /\ \A p \in Packages : /\ tree.spec[p] = tree.lock[p].version
                           /\ tree.pin[p] = tree.lock[p].digest
                           /\ tree.lock[p].digest[1] = tree.lock[p].version
    /\ Validates(tree)

\* Whatever fails half-way through a run, and whatever lands between its
\* checkout and its pull request, lock, spec, manifest and ratchet move
\* together: on main, on every branch, and in what merging the two gives.
BumpsAreWhole ==
    /\ Whole(main)
    /\ \A b \in Branches :
           prs[b].open => Whole(prs[b].head) /\ (Mergeable(prs[b]) => Whole(Merged(prs[b])))

\* The branch the gate lands with no one looking never carries what is a
\* human's to decide: another primary, another cycle, a package of the
\* review-only list.
DailyIsInSeries ==
    prs[Daily].open =>
        LET pr == prs[Daily]
        IN  /\ Relocks(pr) = {}
            /\ \A p \in Bumped(pr) :
                   /\ p \notin ReviewOnly
                   /\ pr.head.lock[p].version.num[1] = pr.base.lock[p].version.num[1]

\* A relock waits for its human: no run but one for its own package takes it
\* off its branch (#341).  Only one made for a target cycle does not: its
\* branch is the cycle's, and the next run of the cycle makes it anew.
RelockSurvives ==
    [][\A b \in Branches \ {Cycle} :
           prs[b].open => \A p \in Relocks(prs[b]) :
               \/ prs'[b].open /\ p \in Relocks(prs'[b])
               \/ main' # main /\ main'.lock[p] = prs[b].head.lock[p]
               \/ run.only = p]_vars

\* What the gate held stays held until something newer of the package is on
\* main or held there in its place, though many runs try and fail to apply a
\* release, and though one that is applied, and fails its gate in turn, is
\* taken out of a branch from which the older hold is gone.
HoldsOutlastFailures ==
    [][\A p \in Packages : main'.hold[p] # main.hold[p] =>
           \A v \in main.hold[p] :
               \E newer \in {main'.lock[p].version} \cup main'.hold[p] : Above(newer.num, v.num)]_vars

\* The locks a run moves by itself, of packages it can move.
Automatic == Packages \ (Lookaside \cup ReviewOnly \cup Stuck)

\* A release within its cycle comes to main or is held, although servers fail,
\* runs are cancelled, tarballs are replaced under an open pull request, and
\* another package can never be moved.
NewReleaseLands ==
    \A p \in Automatic :
        upstream.shipped[p] >= 2 ~> \/ main.lock[p].version # Shipped[1]
                                    \/ main.hold[p] # {}
=============================================================================
