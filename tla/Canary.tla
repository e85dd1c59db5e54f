------------------------------- MODULE Canary -------------------------------
(***************************************************************************)
(* tools/canary.py and tools/fork_canary.py: the decisions around the      *)
(* required Canary check.  Which changes need a Canary, whether the Canary *)
(* of a queued pull request still proves its merge group, whether a fork's *)
(* commit may be copied and has been proved, and what each pass of a       *)
(* Canary has to show.                                                     *)
(*                                                                         *)
(* A tree is what a commit holds of the files the rules tell apart: the    *)
(* pipeline's own files (code), the entries and the remaining keys of the  *)
(* sources lock, and the lines of the other two data files that name a     *)
(* package.                                                                *)
(***************************************************************************)
EXTENDS Tool, Naturals, FiniteSets, SequencesExt

CONSTANTS
    CanarySet,    \* the packages a Canary builds
    Perturbed     \* the package pass3 perturbs; not in CanarySet

ASSUME CanaryAssumption == Perturbed \notin CanarySet

Named == CanarySet \cup {Perturbed}

----------------------------------------------------------------------------
(* Which changes can reach what a Canary proves *)

\* A lock is [ok, unique, rows, rest]; one that cannot be read has ok = FALSE.
TouchesExisting(base, head) ==
    \/ ~base.unique \/ ~head.unique
    \/ base.rest # head.rest
    \/ \E name \in DOMAIN base.rows :
           name \notin DOMAIN head.rows \/ head.rows[name] # base.rows[name]

Mentions(base, head, names) == \E name \in names : base.data[name] # head.data[name]

\* noPatch: GitHub returned no diff for a data file.
PipelineRelevant(base, head, noPatch) ==
    \/ base.code # head.code
    \/ /\ base.lock # head.lock
       /\ ~base.lock.ok \/ ~head.lock.ok \/ TouchesExisting(base.lock, head.lock)
    \/ /\ base.data # head.data
       /\ noPatch \/ Mentions(base, head, Named)

\* A pull request is judged against its merge base, a merge group against the
\* head of the pull request its ref names.
PrRelevant(pr) == PipelineRelevant(pr.base, pr.head, pr.noPatch)

RangeRelevant(base, head) == PipelineRelevant(base, head, FALSE)

\* Mutant: a pull request that needed no Canary blesses its group.
ProvedByIrrelevance(g) ==
    /\ g.ref = "pr" /\ g.fullSha
    /\ g.fetched = "head"
    /\ ~PrRelevant(g.pr) \/ ~RangeRelevant(g.pr.head, g.group)

MergeGroupProved(g) ==
    /\ g.ref = "pr" /\ g.fullSha
    /\ g.fetched = "head"
    /\ ~RangeRelevant(g.pr.head, g.group)

\* canary.yml on the pull request itself: it runs the passes when pr-relevant
\* exits 0, and any other exit, a crash of the tool included, is "nothing to
\* prove".
CanaryCheck(pr) == (~pr.crashed /\ PrRelevant(pr)) => pr.built

AnswerMergeGroup ==
    /\ Waiting("merge-group")
    /\ Answer([admitted |-> CanaryCheck(call.in.pr), proved |-> MergeGroupProved(call.in)])

----------------------------------------------------------------------------
(* The maintainer's button for a fork *)

FilesLimit == 2    \* bound: FILES_API_LIMIT

\* Mutant: whatever GitHub lists is taken for all there is.
ForkDecisionUnlimited(f) ==
    IF ~f.fullSha \/ f.state # "open" \/ f.base # "main" \/ f.head # f.reviewed \/ f.repo = "deleted"
    THEN "refused"
    ELSE IF f.repo = "ours" THEN "skip"
    ELSE IF "workflow" \in f.listed THEN "refused"
    ELSE "copy"

ForkDecision(f) ==
    IF \/ ~f.fullSha
       \/ f.state # "open"
       \/ f.base # "main"
       \/ f.head # f.reviewed
       \/ f.repo = "deleted"
    THEN "refused"
    ELSE IF f.repo = "ours" THEN "skip"
    ELSE IF f.changed >= FilesLimit \/ "workflow" \in f.listed THEN "refused"
    ELSE "copy"

HasProof(runs, pr, head) ==
    \E r \in runs :
        /\ r.event = "workflow_dispatch" /\ r.branch = pr /\ r.sha = head
        /\ r.status = "completed" /\ r.conclusion = "success"

\* What canary-fork-pr.yml and then the required check of the fork decide.
AnswerFork ==
    /\ Waiting("fork")
    /\ Answer([copy |-> ForkDecision(call.in),
               proved |-> call.in.fullSha /\ HasProof(call.in.runs, "canary/pr", call.in.head)])

----------------------------------------------------------------------------
(* What a pass built *)

\* Mutant: the offline step is not looked at.
OutcomeOnline(job) ==
    IF job.conclusion # "success" THEN "failed"
    ELSE IF job.build = "success" THEN "compiled"
    ELSE IF job.build = "skipped" /\ job.restore = "success" THEN "cache hit"
    ELSE "unclear"

\* A job is [conclusion, build, offline, restore]: the conclusions of the job
\* and of its three steps, "none" for a step it does not have.
Outcome(job) ==
    LET offlineRan == job.build \in {"none", "skipped"} /\ job.offline \notin {"none", "skipped"}
        build == IF offlineRan THEN job.offline ELSE job.build
    IN  IF job.conclusion # "success" THEN "failed"
        ELSE IF build = "success" THEN "compiled"
        ELSE IF build = "skipped" /\ job.restore = "success" THEN "cache hit"
        ELSE "unclear"

\* jobs: a function from the packages a pass has a job for.
BuildOutcomes(jobs) == [p \in DOMAIN jobs |-> Outcome(jobs[p])]

BuiltAll(outcomes, expected) ==
    /\ DOMAIN outcomes = expected
    /\ \A p \in expected : outcomes[p] \in {"compiled", "cache hit"}

\* locks[pass] is a function from the packages whose lock was downloaded.
RootMoved(locks, pass, p) ==
    /\ p \in DOMAIN locks[1] /\ p \in DOMAIN locks[pass]
    /\ locks[1][p] # locks[pass][p]

CacheProved(c) ==
    LET outcomes == [pass \in {2, 3} |-> BuildOutcomes(c.jobs[pass])]
    IN  /\ DOMAIN outcomes[2] = CanarySet
        /\ DOMAIN outcomes[3] = Named
        /\ \A pass \in {2, 3}, p \in CanarySet :
               \/ outcomes[pass][p] = "cache hit"
               \/ outcomes[pass][p] = "compiled" /\ RootMoved(c.locks, pass, p)
        /\ outcomes[3][Perturbed] = "compiled"

FlakyProved(f) ==
    /\ f.package \in DOMAIN f.jobs
    /\ BuildOutcomes(f.jobs)[f.package] = "compiled"
    /\ \E a \in f.annotations : a.says = "retry" /\ a.package = f.package
    /\ \E a \in f.annotations : a.says = "passed"

IncrementalProved(i) ==
    ToSet(i.selected) = DOMAIN i.expected /\ IsInjective(i.selected) /\ i.waves = i.expected

StagedFrom(lock, provider) ==
    \E r \in lock.rpms : r.source = provider /\ r.url = "prior"

HermeticProved(h) ==
    /\ BuiltAll(BuildOutcomes(h.jobs), CanarySet)
    /\ \A p \in CanarySet :
           p \in DOMAIN h.locks /\ h.locks[p].rpms # {} /\ h.locks[p].bootstrap
    /\ \A consumer \in DOMAIN h.stages :
           consumer \in DOMAIN h.locks /\ StagedFrom(h.locks[consumer], h.stages[consumer])

\* e.early is the job of the wave's own publication, times are its end and the
\* start of the final one (0: the job is not there).
EarlyProved(e) ==
    e.early /\ e.pushed /\ (e.finalStart = 0 \/ e.earlyEnd <= e.finalStart)

ImageProved(i) ==
    /\ Len(i.layers) = 2 /\ i.layers[1] < i.layers[2]
    /\ i.wantState => i.label = "state" /\ i.recorded = i.expected
    /\ i.readable
    /\ i.found = i.expected

\* main: a verification exits 0 exactly when it found no problem.
Verified(command, in) ==
    CASE command = "cache" -> CacheProved(in)
      [] command = "flaky" -> FlakyProved(in)
      [] command = "incremental" -> IncrementalProved(in)
      [] command = "hermetic" -> HermeticProved(in)
      [] command = "built" -> BuiltAll(BuildOutcomes(in.jobs), CanarySet)
      [] command = "early" -> EarlyProved(in)
      [] command = "image" -> ImageProved(in)

AnswerVerify ==
    Waiting("verify") /\ Answer(Verified(call.in.command, call.in.of))

CanaryNext == AnswerMergeGroup \/ AnswerFork \/ AnswerVerify

----------------------------------------------------------------------------
(* Calls *)

\* What a commit can change, and the tree that has these changes.
Edits == ({"tree"} \X {"code", "rest", "dup", "unreadable"}) \cup ({"entry"} \X (Named \cup {"old", "new"}))
             \cup ({"drop"} \X Named) \cup ({"data"} \X (Named \cup {"old"}))

Tree(edits) ==
    LET Rows == ((Named \cup {"old"}) \ {n \in Named : <<"drop", n>> \in edits})
                    \cup {n \in {"new"} : <<"entry", n>> \in edits}
    IN  [code |-> <<"tree", "code">> \in edits,
         lock |-> [ok |-> <<"tree", "unreadable">> \notin edits,
                   unique |-> <<"tree", "dup">> \notin edits,
                   rest |-> <<"tree", "rest">> \in edits,
                   rows |-> [n \in Rows |-> <<"entry", n>> \in edits]],
         data |-> [n \in Named \cup {"old"} |-> <<"data", n>> \in edits]]

ForkRuns == [event : {"workflow_dispatch"}, branch : {"canary/pr", "main"}, sha : {1, 2},
             status : {"completed"}, conclusion : {"success", "failure"}]

Sets(upto) == {{}} \cup {{a, b} : a, b \in upto}

\* Only a tree whose canary entries can be read and are all there is built.
Buildable(tree) == tree.lock.ok /\ tree.lock.unique /\ Named \subseteq DOMAIN tree.lock.rows

MergeGroupCalls ==
    LET trees == {Tree(e) : e \in Sets(Edits)}
        prs == {[base |-> Tree({}), head |-> t, noPatch |-> n, crashed |-> c, built |-> b] :
                    t \in trees, n \in BOOLEAN, c \in BOOLEAN, b \in BOOLEAN}
        group(pr, t, r, f, s) ==
            [pr |-> pr, group |-> t, ref |-> r, fetched |-> f, fullSha |-> s]
    IN  {group(pr, t, "pr", "head", TRUE) :
            pr \in {q \in prs : q.built => Buildable(q.head)}, t \in trees}
        \cup {group(pr, pr.head, r, f, s) :
            pr \in {q \in prs : ~q.built}, r \in {"pr", "other"}, f \in {"head", "moved"}, s \in BOOLEAN}

\* GitHub lists a change completely up to its limit, and may leave anything
\* out beyond it.
ForkCalls ==
    LET asked == [fullSha : BOOLEAN, state : {"open", "closed"}, base : {"main", "other"},
                  head : {1, 2}, reviewed : {1}, repo : {"ours", "fork", "deleted"},
                  changed : 1..FilesLimit + 1, files : SUBSET {"workflow", "tool"},
                  listed : SUBSET {"workflow", "tool"}, runs : Sets(ForkRuns)]
    IN  {f \in asked : IF f.changed <= FilesLimit THEN f.listed = f.files ELSE f.listed \subseteq f.files}

Job(conclusion, build, offline, restore) ==
    [conclusion |-> conclusion, build |-> build, offline |-> offline, restore |-> restore]

Jobs == {Job("success", "skipped", "skipped", "success"),    \* restored
         Job("success", "success", "skipped", "success"),    \* compiled
         Job("success", "skipped", "success", "success"),    \* compiled offline
         Job("failure", "failure", "skipped", "success"),    \* did not compile
         Job("failure", "success", "skipped", "success"),    \* compiled, not handed on
         Job("failure", "skipped", "skipped", "failure")}    \* not restored

Partial(from, to) == UNION {[D -> to] : D \in SUBSET from}

Of(command, inputs) == [command : {command}, of : inputs]

VerifyCalls ==
    LET root == Partial(CanarySet, {1, 2})
        lock == [rpms : SUBSET [source : {"lib", "other"}, url : {"prior", "mirror"}], bootstrap : BOOLEAN]
        lastPass == {j \in Partial(Named, Jobs) : CanarySet \subseteq DOMAIN j}
        passes == {[q \in {2, 3} |-> IF q = 2 THEN j2 ELSE j3] :
                       j2 \in Partial(CanarySet, Jobs), j3 \in lastPass}
    IN  Of("cache", [jobs : passes, locks : [1..3 -> root]])
        \cup Of("hermetic", [jobs : Partial(CanarySet, Jobs), locks : Partial(CanarySet, lock),
                             stages : Partial(CanarySet, {"lib"})])
        \cup Of("flaky", [jobs : Partial(Named, Jobs), package : CanarySet,
                          annotations : Sets([says : {"retry", "passed"}, package : Named])])
        \cup Of("incremental", [selected : SeqOf(Named, 2), waves : Partial(Named, {1, 2}),
                                expected : {[p \in CanarySet |-> 1]}])
        \cup Of("built", [jobs : Partial(Named, Jobs)])
        \cup Of("early", [early : BOOLEAN, pushed : BOOLEAN, earlyEnd : 1..2, finalStart : 0..2])
        \cup Of("image", [layers : SeqOf(1..2, 3), wantState : BOOLEAN, label : {"none", "state"},
                          recorded : {{}, Named}, readable : BOOLEAN, found : {{}, CanarySet, Named},
                          expected : {Named}])

CanaryCalls ==
    Calls("merge-group", MergeGroupCalls) \cup Calls("fork", ForkCalls)
        \cup Calls("verify", VerifyCalls)

----------------------------------------------------------------------------
(* Properties *)

\* What the passes of a Canary depend on in a tree.
Proves(tree) ==
    [code |-> tree.code, rest |-> tree.lock.rest,
     rows |-> [n \in Named \cap DOMAIN tree.lock.rows |-> tree.lock.rows[n]],
     data |-> [n \in Named |-> tree.data[n]]]

\* The pipeline of the group is that of main, or of the head a Canary built.
ProvedSomewhere(g) ==
    Proves(g.group) \in {Proves(g.pr.base)} \cup (IF g.pr.built THEN {Proves(g.pr.head)} ELSE {})

\* A merge group lands only with a pipeline some Canary has built: that of the
\* pull request's head, or the one of main it left as it was.  No Canary runs
\* on the group itself, and the admission, judged against the merge base, and
\* the proof, judged against the head, each look at one half of the change.
\* Not so where the check of the pull request crashed: ProvedThoughCrashed.
GroupIsProved ==
    Answered("merge-group") /\ answer.is.admitted /\ answer.is.proved =>
        call.in.pr.crashed \/ ProvedSomewhere(call.in)

\* What is copied into this repository from a fork is the commit a maintainer
\* reviewed and carries no change to a workflow, including one that the
\* truncated list of files does not show.
ForkCopyIsReviewed ==
    Answered("fork") /\ answer.is.copy = "copy" =>
        call.in.head = call.in.reviewed /\ "workflow" \notin call.in.files

\* A pass of which verify-cache is content compiled nothing its cache should
\* have had: a step that ran, online or offline, is explained by two locks
\* that differ.
CacheVerdictIsSound ==
    Answered("verify") /\ call.in.command = "cache" /\ answer.is =>
        \A pass \in {2, 3}, p \in CanarySet :
            LET job == call.in.of.jobs[pass][p]
            IN  (job.build = "success" \/ job.offline = "success")
                => LET locks == call.in.of.locks
                   IN  /\ p \in DOMAIN locks[1] \cap DOMAIN locks[pass]
                       /\ locks[1][p] # locks[pass][p]

\* What comes in is proved though the check of the pull request's paths crashed,
\* as a check that is not sure must call them relevant (canary.py:
\* pipeline_relevant).  Violated: canary.yml takes any failure for "irrelevant".
ProvedThoughCrashed ==
    Answered("merge-group") /\ answer.is.admitted /\ answer.is.proved =>
        ProvedSomewhere(call.in)

\* What comes into the repository past the required check was proved by a
\* Canary, or reviewed by a maintainer and free of workflow changes.
AdmittedIsProved == GroupIsProved /\ ForkCopyIsReviewed
=============================================================================
